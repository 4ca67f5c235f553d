------------------------ MODULE AtomicQueue_proofs -------------------------
(***************************************************************************)
(* Proofs about AtomicQueue, for any threads, size, width of the words and *)
(* either mode: no thread sleeps through an item unless it is taken care   *)
(* of, nothing is lost or duplicated, every step is a step of BagChannel,  *)
(* and in the SPSC mode every step is a step of FifoChannel.               *)
(***************************************************************************)
EXTENDS AtomicQueue, QueueLemmas

\* The modes do not mix, and producers do not pop.
Roles ==
  /\ \A p \in Producers :
       pc[p] \in {"idle", "notify"} \cup (IF Spsc THEN {"room", "put"} ELSE {"store"})
  /\ \A c \in Consumers :
       pc[c] \in {"idle"} \cup (IF Spsc THEN {"load", "free"}
                                ELSE {"exchange", "wait", "asleep", "look"})

\* What a thread has in its hand.
InHand ==
  /\ \A p \in Producers : Storing(p) => item[p] = <<p, pushed[p]>> /\ pushed[p] # 0
  /\ \A p \in Producers : pc[p] = "put" => elements[Slot(p)] = NIL
  /\ \A c \in Consumers :
       pc[c] = "free" => elements[Slot(c)] = item[c] /\ item[c] # NIL

IInv == TypeOK /\ Roles /\ InHand /\ NoLostWakeup /\ ExactlyOnce

\* The three kinds of step: an item is put, an item is taken, or none moves.
PutStep(p)  == Store(p) \/ SpscPut(p)
TakeStep(c) == Take(c) \/ SpscFree(c)

-----------------------------------------------------------------------------
(* Types, slots *)

\* A ticket's successor is a ticket, and every ticket has a slot.
LEMMA NextTicket == ASSUME NEW k \in Tickets PROVE (k + 1) % Wrap \in Tickets
<1>1. k + 1 \in Nat /\ Wrap \in Nat \ {0}
  BY ElementAssumption DEF Tickets
<1> QED
  BY <1>1, Remainder DEF Tickets

\* A ticket has a slot.
LEMMA ThreadSlot == TypeOK => \A t \in Threads : Slot(t) \in Slots
<1> SUFFICES ASSUME TypeOK, NEW t \in Threads PROVE Slot(t) \in Slots
  OBVIOUS
<1>1. ticket[t] \in Nat /\ Size \in Nat \ {0}
  BY ElementAssumption DEF TypeOK, Tickets
<1> QED
  BY <1>1, Remainder DEF Slots, Slot

\* An item is not NIL.
LEMMA ItemNotNil == NIL \notin Items
  BY DEF NIL, Items

\* Every step preserves the types.
LEMMA TypeStep == IInv /\ [Next]_vars => TypeOK'
<1> SUFFICES ASSUME IInv, [Next]_vars PROVE TypeOK'
  OBVIOUS
<1> USE DEF IInv, TypeOK, Step, Threads
<1>0. (head + 1) % Wrap \in Tickets /\ (tail + 1) % Wrap \in Tickets
  BY NextTicket
<1>s. \A t \in Threads : Slot(t) \in Slots
  BY ThreadSlot
<1>1. ASSUME NEW p \in Producers, Push(p) PROVE TypeOK'
  <2>1. pushed[p] + 1 \in 0 .. MaxPush /\ <<p, pushed[p] + 1>> \in Items
    BY <1>1, ElementAssumption DEF Push, Items
  <2> QED
    BY <1>0, <1>1, <2>1 DEF Push
<1>2. ASSUME NEW p \in Producers, PutStep(p) \/ SpscRoom(p) PROVE TypeOK'
  BY <1>s, <1>2 DEF PutStep, Store, SpscRoom, SpscPut
<1>3. ASSUME NEW p \in Producers, Notify(p) PROVE TypeOK'
  <2>1. pc' \in [Threads -> {"idle", "store", "room", "put", "notify", "exchange",
                             "wait", "asleep", "look", "load", "free"}]
    BY <1>3 DEF Notify, Asleep
  <2> QED
    BY <1>3, <2>1 DEF Notify
<1>4. ASSUME NEW c \in Consumers, Pop(c) PROVE TypeOK'
  BY <1>0, <1>4 DEF Pop
<1>5. ASSUME NEW c \in Consumers,
             Miss(c) \/ Sleep(c) \/ Wake(c) \/ WaitReturns(c) \/ Look(c)
               \/ SpscLoad(c)
      PROVE  TypeOK'
  BY <1>s, <1>5 DEF Miss, Sleep, Wake, WaitReturns, Look, SpscLoad
<1>6. ASSUME NEW c \in Consumers, Take(c) PROVE TypeOK'
  <2>1. elements[Slot(c)] \in Items
    BY <1>s, <1>6 DEF Take
  <2>2. got' \in Seq(Items)
    BY <1>6, <2>1 DEF Take
  <2> QED
    BY <1>6, <2>2 DEF Take
<1>7. ASSUME NEW c \in Consumers, SpscFree(c) PROVE TypeOK'
  <2>1. item[c] \in Items
    BY <1>7 DEF SpscFree, InHand
  <2>2. got' \in Seq(Items)
    BY <1>7, <2>1 DEF SpscFree
  <2> QED
    BY <1>7, <2>2 DEF SpscFree
<1>8. CASE Exhausted \/ UNCHANGED vars
  BY <1>8 DEF Exhausted, vars
<1> QED
  BY <1>1, <1>2, <1>3, <1>4, <1>5, <1>6, <1>7, <1>8
  DEF Next, Producer, Consumer, Running, PutStep

\* A notification ends the push and wakes one of those asleep on the slot.
Wakes(p) ==
  /\ pc'[p] = "idle" /\ \A q \in Producers \ {p} : pc'[q] = pc[q]
  /\ elements' = elements /\ \A t \in Threads : Slot(t)' = Slot(t)
  /\ \/ Asleep(Slot(p)) = {} /\ \A c \in Consumers : pc'[c] = pc[c]
     \/ \E d \in Asleep(Slot(p)) :
          pc'[d] = "wait" /\ \A c \in Consumers \ {d} : pc'[c] = pc[c]

\* notify_one wakes a consumer at most.
LEMMA NotifyWakes == TypeOK => \A p \in Producers : Notify(p) => Wakes(p)
<1> SUFFICES ASSUME TypeOK, NEW p \in Producers, Notify(p) PROVE Wakes(p)
  OBVIOUS
<1>1. DOMAIN pc = Threads /\ pc = [t \in Threads |-> pc[t]]
  BY DEF TypeOK
<1>2. p \in Threads /\ \A c \in Consumers : c \in Threads /\ c # p
  BY ElementAssumption DEF Threads
<1>3. \A q \in Producers : q \in Threads /\ q \notin Consumers
  BY ElementAssumption DEF Threads
<1>4. elements' = elements /\ \A t \in Threads : Slot(t)' = Slot(t)
  BY DEF Notify, Slot
<1>5. CASE Asleep(Slot(p)) = {}
  <2>1. pc' = [pc EXCEPT ![p] = "idle"]
    BY <1>5 DEF Notify
  <2> QED
    BY <1>1, <1>2, <1>3, <1>4, <1>5, <2>1 DEF Wakes
<1>6. CASE Asleep(Slot(p)) # {}
  <2>1. PICK d \in Asleep(Slot(p)) : pc' = [pc EXCEPT ![p] = "idle", ![d] = "wait"]
    BY <1>6 DEF Notify
  <2>2. d \in Consumers
    BY DEF Asleep
  <2>3. /\ pc'[p] = "idle" /\ pc'[d] = "wait"
        /\ \A t \in Threads \ {p, d} : pc'[t] = pc[t]
    BY ONLY <1>1, <1>2, <2>1, <2>2
  <2> QED
    BY <1>2, <1>3, <1>4, <2>2, <2>3 DEF Wakes
<1> QED
  BY <1>5, <1>6

\* Every step preserves the roles and what is in the threads' hands.
LEMMA HandStep == IInv /\ [Next]_vars => Roles' /\ InHand'
<1> SUFFICES ASSUME IInv, [Next]_vars PROVE Roles' /\ InHand'
  OBVIOUS
<1>w. ASSUME NEW p \in Producers, Notify(p)
      PROVE  /\ pc'[p] = "idle" /\ \A t \in Threads : Slot(t)' = Slot(t)
             /\ \A q \in Producers \ {p} : pc'[q] = pc[q]
             /\ \A c \in Consumers :
                  pc'[c] = pc[c] \/ (pc[c] = "asleep" /\ pc'[c] = "wait")
  <2>1. Wakes(p)
    BY <1>w, NotifyWakes DEF IInv
  <2>2. \A d \in Asleep(Slot(p)) : d \in Consumers /\ pc[d] = "asleep"
    BY DEF Asleep
  <2> QED
    BY <2>1, <2>2 DEF Wakes
<1> USE ElementAssumption
        DEF IInv, TypeOK, Roles, InHand, Storing, Step, Threads
<1>s. \A t \in Threads : Slot(t) \in Slots
  BY ThreadSlot
<1>1. ASSUME NEW p \in Producers, Push(p) PROVE Roles' /\ InHand'
  BY <1>1 DEF Push, Slot
<1>2. ASSUME NEW p \in Producers, Store(p) PROVE Roles' /\ InHand'
  BY <1>s, <1>2 DEF Store, Slot
<1>3. ASSUME NEW p \in Producers, SpscRoom(p) PROVE Roles' /\ InHand'
  BY <1>3 DEF SpscRoom, Slot
<1>4. ASSUME NEW p \in Producers, SpscPut(p) PROVE Roles' /\ InHand'
  BY <1>s, <1>4 DEF SpscPut, Slot
<1>5. ASSUME NEW p \in Producers, Notify(p) PROVE Roles' /\ InHand'
  <2>1. Roles'
    BY <1>5, <1>w
  <2>2. \A q \in Producers : Storing(q)' => Storing(q) /\ q # p /\ pc'[q] = pc[q]
    BY <1>5, <1>w
  <2>3. /\ UNCHANGED <<elements, pushed>>
        /\ \A t \in Threads \ {p} : item'[t] = item[t]
    BY <1>5 DEF Notify
  <2>4. \A c \in Consumers : pc'[c] = "free" => pc[c] = "free" /\ c # p
    BY <1>5, <1>w
  <2>5. InHand'
    BY <1>5, <1>w, <2>2, <2>3, <2>4
  <2> QED
    BY <2>1, <2>5
<1>6. ASSUME NEW c \in Consumers, Pop(c) PROVE Roles' /\ InHand'
  BY <1>6 DEF Pop, Slot
<1>7. ASSUME NEW c \in Consumers, Take(c) PROVE Roles' /\ InHand'
  BY <1>s, <1>7 DEF Take, Slot
<1>8. ASSUME NEW c \in Consumers,
             Miss(c) \/ Sleep(c) \/ Wake(c) \/ WaitReturns(c) \/ Look(c)
      PROVE  Roles' /\ InHand'
  BY <1>8 DEF Miss, Sleep, Wake, WaitReturns, Look, Slot
<1>9. ASSUME NEW c \in Consumers, SpscLoad(c) PROVE Roles' /\ InHand'
  BY <1>9 DEF SpscLoad, Slot
<1>10. ASSUME NEW c \in Consumers, SpscFree(c) PROVE Roles' /\ InHand'
  <2>1. Spsc /\ \A d \in Consumers : d = c
    BY <1>10 DEF SpscFree
  <2>2. /\ pc'[c] = "idle" /\ \A t \in Threads : Slot(t)' = Slot(t)
        /\ \A p \in Producers : pc'[p] = pc[p] /\ item'[p] = item[p]
        /\ \A s \in Slots : elements[s] = NIL => elements'[s] = NIL
        /\ UNCHANGED pushed
    BY <1>10, <1>s DEF SpscFree, Slot
  <2>3. Roles'
    BY <2>1, <2>2
  <2>4. InHand'
    BY <1>s, <2>1, <2>2
  <2> QED
    BY <2>3, <2>4
<1>11. CASE Exhausted \/ UNCHANGED vars
  BY <1>11 DEF Exhausted, vars, Slot
<1> QED
  BY <1>1, <1>2, <1>3, <1>4, <1>5, <1>6, <1>7, <1>8, <1>9, <1>10, <1>11
  DEF Next, Producer, Consumer, Running

-----------------------------------------------------------------------------
(* Wakeups *)

\* A step that leaves the elements alone, wakes or stops nobody, and keeps
\* who is coming, loses no wakeup; the others are the steps below.
LEMMA WakeStep == IInv /\ [Next]_vars => NoLostWakeup'
<1> SUFFICES ASSUME IInv, [Next]_vars PROVE NoLostWakeup'
  OBVIOUS
<1>w. \A p \in Producers : Notify(p) => Wakes(p)
  BY NotifyWakes DEF IInv
<1> USE ElementAssumption
        DEF IInv, TypeOK, NoLostWakeup, Coming, Asleep, Step, Threads
<1>s. \A t \in Threads : Slot(t) \in Slots
  BY ThreadSlot
<1>1. ASSUME NEW p \in Producers, Push(p) \/ SpscRoom(p) PROVE NoLostWakeup'
  <2>1. /\ elements' = elements /\ pc[p] # "notify"
        /\ \A t \in Threads \ {p} : pc'[t] = pc[t] /\ Slot(t)' = Slot(t)
    BY <1>1 DEF Push, SpscRoom, Slot
  <2>2. SUFFICES ASSUME NEW s \in Slots, elements'[s] # NIL, Asleep(s)' # {}
                 PROVE  Coming(s)'
    BY DEF NoLostWakeup
  <2>3. Coming(s)
    BY <2>1, <2>2
  <2> QED
    BY <2>1, <2>3
<1>2. ASSUME NEW p \in Producers, PutStep(p) PROVE NoLostWakeup'
  <2>1. /\ Slot(p)' = Slot(p) /\ pc'[p] = "notify"
        /\ \A s \in Slots \ {Slot(p)} : elements'[s] = elements[s]
        /\ \A t \in Threads \ {p} : pc'[t] = pc[t] /\ Slot(t)' = Slot(t)
    BY <1>2 DEF PutStep, Store, SpscPut, Slot
  <2>2. SUFFICES ASSUME NEW s \in Slots, elements'[s] # NIL, Asleep(s)' # {}
                 PROVE  Coming(s)'
    BY DEF NoLostWakeup
  <2>3. CASE s = Slot(p)
    BY <2>1, <2>3
  <2>4. CASE s # Slot(p)
    <3>1. elements[s] # NIL /\ Asleep(s) # {} /\ pc[p] # "notify"
      BY <1>2, <2>1, <2>2, <2>4 DEF PutStep, Store, SpscPut
    <3> QED
      BY <2>1, <3>1, SMTT(40)
  <2> QED
    BY <2>3, <2>4
<1>3. ASSUME NEW p \in Producers, Notify(p) PROVE NoLostWakeup'
  <2>1. SUFFICES ASSUME NEW s \in Slots, elements'[s] # NIL, Asleep(s)' # {}
                 PROVE  Coming(s)'
    OBVIOUS
  <2>2. elements' = elements /\ \A t \in Threads : Slot(t)' = Slot(t)
    BY <1>3, <1>w DEF Wakes
  <2>3. Asleep(s)' \subseteq Asleep(s)
    BY <1>3, <1>w DEF Wakes
  <2>4. CASE /\ Asleep(Slot(p)) = {} /\ \A c \in Consumers : pc'[c] = pc[c]
             /\ \A q \in Producers \ {p} : pc'[q] = pc[q]
    <3>1. Coming(s) /\ s # Slot(p)
      BY <2>1, <2>2, <2>3, <2>4
    <3> QED
      BY <2>2, <2>4, <3>1
  <2>5. ASSUME NEW d \in Asleep(Slot(p)), pc'[d] = "wait",
               \A c \in Consumers \ {d} : pc'[c] = pc[c],
               \A q \in Producers \ {p} : pc'[q] = pc[q]
        PROVE  Coming(s)'
    <3>1. CASE s = Slot(p)
      BY <2>2, <2>5, <3>1
    <3>2. CASE s # Slot(p)
      <4>1. Coming(s)
        BY <2>1, <2>2, <2>3
      <4> QED
        BY <2>2, <2>5, <3>2, <4>1
    <3> QED
      BY <3>1, <3>2
  <2> QED
    BY <1>3, <1>w, <2>4, <2>5 DEF Wakes
<1>4. ASSUME NEW c \in Consumers, Pop(c) PROVE NoLostWakeup'
  BY <1>4, ZenonT(40) DEF Pop, Slot
<1>5. ASSUME NEW c \in Consumers, Take(c) PROVE NoLostWakeup'
  BY <1>s, <1>5, ZenonT(40) DEF Take, Slot
<1>6. ASSUME NEW c \in Consumers,
             Miss(c) \/ Sleep(c) \/ Wake(c) \/ WaitReturns(c) \/ Look(c)
      PROVE  NoLostWakeup'
  BY <1>s, <1>6, SMTT(40) DEF Miss, Sleep, Wake, WaitReturns, Look, Slot
<1>7. ASSUME NEW c \in Consumers, SpscLoad(c) PROVE NoLostWakeup'
  BY <1>7 DEF SpscLoad, Slot
<1>8. ASSUME NEW c \in Consumers, SpscFree(c) PROVE NoLostWakeup'
  BY <1>s, <1>8 DEF SpscFree, Slot
<1>9. CASE Exhausted \/ UNCHANGED vars
  BY <1>9 DEF Exhausted, vars, Slot
<1> QED
  BY <1>1, <1>2, <1>3, <1>4, <1>5, <1>6, <1>7, <1>8, <1>9
  DEF Next, Producer, Consumer, Running, PutStep

-----------------------------------------------------------------------------
(* Items *)

\* A step that neither puts nor takes moves no item.
Still == /\ UNCHANGED <<elements, got>>
         /\ \A p \in Producers : Stored(p)' = Stored(p)

\* A step that neither stores nor takes leaves the queue alone.
LEMMA StillStep ==
  ASSUME IInv, [Next]_vars,
         \A p \in Producers : ~PutStep(p), \A c \in Consumers : ~TakeStep(c)
  PROVE  Still
<1> USE ElementAssumption DEF IInv, TypeOK, Roles, Stored, Storing, Still, Step, Threads
<1>1. ASSUME NEW p \in Producers, Push(p) PROVE Still
  BY <1>1 DEF Push
<1>2. ASSUME NEW p \in Producers, SpscRoom(p) PROVE Still
  BY <1>2 DEF SpscRoom
<1>3. ASSUME NEW p \in Producers, Notify(p) PROVE Still
  BY <1>3 DEF Notify, Asleep
<1>4. ASSUME NEW c \in Consumers,
             Pop(c) \/ Miss(c) \/ Sleep(c) \/ Wake(c) \/ WaitReturns(c)
               \/ Look(c) \/ SpscLoad(c)
      PROVE  Still
  BY <1>4 DEF Pop, Miss, Sleep, Wake, WaitReturns, Look, SpscLoad
<1>5. CASE Exhausted \/ UNCHANGED vars
  BY <1>5 DEF Exhausted, vars
<1> QED
  BY <1>1, <1>2, <1>3, <1>4, <1>5
  DEF Next, Producer, Consumer, Running, PutStep, TakeStep

\* And keeps the items where they are.
LEMMA StillOnce ==
  ASSUME ExactlyOnce, Still PROVE ExactlyOnce' /\ UNCHANGED Bag!vars
<1>1. HeldItems' = HeldItems /\ GotItems' = GotItems
  BY DEF Still, HeldItems, GotItems
<1>2. PutItems' = PutItems
  BY DEF Still, PutItems, Items
<1> QED
  BY <1>1, <1>2 DEF ExactlyOnce, Still, Bag!vars

\* Storing puts one new item into an empty slot.
LEMMA PutOnce ==
  ASSUME IInv, NEW p \in Producers, PutStep(p) PROVE ExactlyOnce' /\ Bag!Put
<1> DEFINE i == <<p, pushed[p]>>
           s == Slot(p)
<1> USE ElementAssumption DEF IInv, TypeOK, Roles, InHand, Threads, Step
<1>1. /\ s \in Slots /\ elements[s] = NIL /\ item[p] = i
      /\ i \in Items /\ i # NIL /\ Stored(p) = pushed[p] - 1
  BY ThreadSlot, ItemNotNil DEF PutStep, Store, SpscPut, Storing, Items, Stored
<1>2. elements' = [elements EXCEPT ![s] = i] /\ UNCHANGED <<got, pushed>>
  BY <1>1 DEF PutStep, Store, SpscPut
<1>3. \A q \in Producers : Stored(q)' = IF q = p THEN pushed[p] ELSE Stored(q)
  BY DEF PutStep, Store, SpscPut, Stored, Storing
<1>4. PutItems' = PutItems \cup {i} /\ i \notin PutItems
  <2>1. \A j \in Items : j[1] \in Producers /\ j[2] \in Nat /\ j = <<j[1], j[2]>>
    BY DEF Items
  <2>2. i[1] = p /\ i[2] = pushed[p] /\ pushed[p] \in Nat
    BY <1>1
  <2>3. \A j \in Items : j[2] <= Stored(j[1])' <=> j = i \/ j[2] <= Stored(j[1])
    BY <1>1, <1>3, <2>1, <2>2 DEF Stored, Storing
  <2>4. ~(i[2] <= Stored(i[1]))
    BY <1>1, <2>2
  <2> HIDE DEF i
  <2> QED
    BY ONLY <1>1, <2>3, <2>4 DEF PutItems
<1>5. HeldItems' = HeldItems \cup {i} /\ GotItems' = GotItems
  <2> HIDE DEF i, s
  <2>1. \A u \in Slots : elements'[u] = IF u = s THEN i ELSE elements[u]
    BY <1>1, <1>2
  <2> QED
    BY <1>1, <1>2, <2>1 DEF HeldItems, GotItems
<1>6. i \notin HeldItems /\ i \notin GotItems
  BY <1>4 DEF ExactlyOnce
<1>7. \A u, v \in Slots : elements'[u] = elements'[v] /\ elements'[u] # NIL => u = v
  BY <1>1, <1>2, <1>6, SMTT(40) DEF ExactlyOnce, HeldItems
<1>8. ExactlyOnce'
  BY <1>2, <1>4, <1>5, <1>6, <1>7, SMTT(40) DEF ExactlyOnce
<1>9. Bag!Put
  BY <1>1, <1>5, <1>6 DEF Bag!Put
<1> QED
  BY <1>8, <1>9

\* Taking empties a slot and returns its item.
LEMMA TakeOnce ==
  ASSUME IInv, NEW c \in Consumers, TakeStep(c) PROVE ExactlyOnce' /\ Bag!Get
<1> DEFINE s == Slot(c)
           i == elements[s]
<1> USE ElementAssumption DEF IInv, TypeOK, Roles, InHand, Threads, Step
<1>1. s \in Slots /\ i \in Items /\ i # NIL
  BY ThreadSlot DEF TakeStep, Take, SpscFree
<1>2. /\ elements' = [elements EXCEPT ![s] = NIL] /\ got' = Append(got, i)
      /\ UNCHANGED pushed
  BY DEF TakeStep, Take, SpscFree
<1>3. i \in HeldItems /\ i \notin GotItems
  BY <1>1 DEF HeldItems, ExactlyOnce
<1>4. PutItems' = PutItems
  BY SMTT(40) DEF TakeStep, Take, SpscFree, PutItems, Stored, Storing, Items
<1>5. HeldItems' = HeldItems \ {i}
  BY <1>1, <1>2 DEF HeldItems, ExactlyOnce
<1>6. GotItems' = GotItems \cup {i}
  <2> HIDE DEF i
  <2>1. got \in Seq(Items) /\ i \in Items
    BY <1>1
  <2>2. {Append(got, i)[k] : k \in DOMAIN Append(got, i)}
          = {got[k] : k \in DOMAIN got} \cup {i}
    BY ONLY <2>1, AppendRange
  <2> QED
    BY ONLY <1>2, <2>2 DEF GotItems
<1>7. \A j, k \in DOMAIN got' : got'[j] = got'[k] => j = k
  BY <1>1, <1>2, <1>3, AppendDistinct DEF GotItems, ExactlyOnce
<1>8. \A u, v \in Slots : elements'[u] = elements'[v] /\ elements'[u] # NIL => u = v
  BY <1>1, <1>2 DEF ExactlyOnce
<1>9. ExactlyOnce'
  BY <1>3, <1>4, <1>5, <1>6, <1>7, <1>8 DEF ExactlyOnce
<1>10. Bag!Get
  BY <1>3, <1>5, <1>6 DEF Bag!Get
<1> QED
  BY <1>9, <1>10

-----------------------------------------------------------------------------
(* The theorems *)

\* Initially every slot is NIL.
LEMMA Initially == Init => IInv /\ Bag!Init
<1> SUFFICES ASSUME Init PROVE IInv /\ Bag!Init
  OBVIOUS
<1>1. TypeOK
  <2>1. 0 \in Tickets
    BY ElementAssumption DEF Tickets
  <2> QED
    BY <2>1, ElementAssumption DEF Init, TypeOK, Threads
<1>2. Roles /\ InHand /\ NoLostWakeup
  BY DEF Init, Roles, InHand, Storing, NoLostWakeup, Asleep, Threads
<1>3. HeldItems = {} /\ GotItems = {}
  BY DEF Init, HeldItems, GotItems
<1>4. PutItems = {}
  BY ElementAssumption DEF Init, PutItems, Stored, Storing, Threads, Items
<1>5. ExactlyOnce
  BY <1>3, <1>4 DEF ExactlyOnce, Init
<1> QED
  BY <1>1, <1>2, <1>3, <1>5 DEF IInv, Bag!Init

\* Every step preserves the invariant and is a step of BagChannel.
LEMMA Inductive == IInv /\ [Next]_vars => IInv' /\ [Bag!Next]_Bag!vars
<1> SUFFICES ASSUME IInv, [Next]_vars PROVE IInv' /\ [Bag!Next]_Bag!vars
  OBVIOUS
<1>1. TypeOK' /\ Roles' /\ InHand' /\ NoLostWakeup'
  BY TypeStep, HandStep, WakeStep
<1>2. ExactlyOnce' /\ [Bag!Next]_Bag!vars
  <2>1. CASE \E p \in Producers : PutStep(p)
    BY <2>1, PutOnce DEF Bag!Next
  <2>2. CASE \E c \in Consumers : TakeStep(c)
    BY <2>2, TakeOnce DEF Bag!Next
  <2>3. CASE /\ \A p \in Producers : ~PutStep(p)
             /\ \A c \in Consumers : ~TakeStep(c)
    BY <2>3, StillStep, StillOnce DEF IInv
  <2> QED
    BY <2>1, <2>2, <2>3
<1> QED
  BY <1>1, <1>2 DEF IInv

(* No thread sleeps on a slot that holds an item unless a notification or  *)
(* another consumer is on its way to that slot.                            *)
THEOREM WakeupsKept == Spec => []NoLostWakeup
<1>1. IInv => NoLostWakeup
  BY DEF IInv
<1> QED
  BY Initially, Inductive, <1>1, PTL DEF Spec

(* Nothing that was stored is lost, and nothing is returned twice.         *)
THEOREM Lossless == Spec => []ExactlyOnce
<1>1. IInv => ExactlyOnce
  BY DEF IInv
<1> QED
  BY Initially, Inductive, <1>1, PTL DEF Spec

(* The queue implements the bag, as far as safety goes.                    *)
THEOREM ImplementsBag == Spec => Bag!Safety
  BY Initially, Inductive, PTL DEF Spec, Bag!Safety
-----------------------------------------------------------------------------
(* One producer, one consumer: first in, first out *)

\* The tickets of the producer from the consumer's place on, how many of them
\* hold an item, and the slot of each.
Number   == (head + Wrap - First) % Wrap
Unused   == IF \E p \in Producers : Storing(p) THEN 1 ELSE 0
Many     == Number - Unused
Place(k) == (First + k) % Size

\* The items lie in the slots of the consumer's tickets, in order, and nowhere else.
FifoInv ==
  /\ First \in Tickets /\ Many <= Size
  /\ \A p \in Producers : Storing(p) => Number >= 1 /\ ticket[p] = (First + (Number - 1)) % Wrap
  /\ \A c \in Consumers : pc[c] # "idle" => ticket[c] = First /\ tail = (First + 1) % Wrap
  /\ (\A c \in Consumers : pc[c] = "idle") => tail = First
  /\ \A k \in 0 .. Many - 1 : elements[Place(k)] # NIL
  /\ \A s \in Slots : elements[s] # NIL => \E k \in 0 .. Many - 1 : s = Place(k)

\* What the numbers are.
LEMMA Numbers ==
  ASSUME TypeOK, FifoInv
  PROVE  /\ Wrap \in Nat \ {0} /\ Size \in Nat \ {0} /\ First \in Nat
         /\ Number \in 0 .. Wrap - 1 /\ head = (First + Number) % Wrap
         /\ Unused \in {0, 1} /\ Many \in Nat
         /\ Queued = [k \in 1 .. Many |-> elements[Place(k - 1)]]
<1>1. Wrap \in Nat \ {0} /\ Size \in Nat \ {0} /\ First \in 0 .. Wrap - 1 /\ head \in 0 .. Wrap - 1
  BY ElementAssumption DEF TypeOK, FifoInv, Tickets
<1>2. Number \in 0 .. Wrap - 1 /\ head = (First + Number) % Wrap
  BY ONLY <1>1, HowFarAhead DEF Number
<1>3. Unused \in {0, 1} /\ (Unused = 1 => Number >= 1)
  BY DEF Unused, FifoInv
<1>4. Many \in Nat
  BY <1>2, <1>3 DEF Many
<1>5. Queued = [k \in 1 .. Many |-> elements[Place(k - 1)]]
  <2>1. Queued = [k \in 1 .. Many |-> elements[(First + k - 1) % Size]]
    BY DEF Queued, Many, Number, Unused
  <2>2. \A k \in 1 .. Many : First + k - 1 = First + (k - 1)
    BY <1>1, <1>4
  <2> QED
    BY <2>1, <2>2 DEF Place
<1> QED
  BY <1>1, <1>2, <1>3, <1>4, <1>5

\* Places of different tickets of a round are different slots.
LEMMA PlacesApart ==
  ASSUME TypeOK, FifoInv, NEW j \in Int, NEW k \in Int, j - k < Size, k - j < Size,
         Place(j) = Place(k)
  PROVE  j = k
<1>1. Size \in Nat \ {0} /\ First \in Nat
  BY Numbers
<1>2. PICK x \in Int, y \in Int : x = First + j /\ y = First + k
  BY <1>1
<1>3. x % Size = y % Size /\ x - y < Size /\ y - x < Size
  BY <1>1, <1>2 DEF Place
<1>4. x = y
  BY ONLY <1>1, <1>3, x \in Int, y \in Int, NearAndSame
<1> QED
  BY <1>1, <1>2, <1>4

\* The consumer's place, where no consumer comes or goes.
LEMMA SameFirst ==
  ASSUME TypeOK, tail' = tail,
         \A c \in Consumers : (pc'[c] = "idle" <=> pc[c] = "idle") /\ ticket'[c] = ticket[c]
  PROVE  First' = First
<1>1. CASE \E c \in Consumers : pc[c] # "idle"
  <2>1. (CHOOSE c \in Consumers : TRUE) \in Consumers
    BY <1>1
  <2> QED
    BY <1>1, <2>1 DEF First
<1>2. CASE \A c \in Consumers : pc[c] = "idle"
  BY <1>2 DEF First
<1> QED
  BY <1>1, <1>2

\* The consumer's place is that of the one consumer.
LEMMA OneFirst ==
  ASSUME Spsc, NEW c \in Consumers
  PROVE  /\ pc[c] # "idle" => First = ticket[c]
         /\ pc[c] = "idle" => First = tail
<1>1. \A d \in Consumers : d = c
  BY ElementAssumption
<1>2. (CHOOSE d \in Consumers : TRUE) = c
  BY <1>1
<1> QED
  BY <1>1, <1>2 DEF First

\* A step that moves neither words nor items.
LEMMA NothingMoves ==
  ASSUME TypeOK, FifoInv, UNCHANGED <<head, tail, elements, ticket, got>>,
         \A c \in Consumers : pc'[c] = "idle" <=> pc[c] = "idle",
         \A p \in Producers : Storing(p)' <=> Storing(p)
  PROVE  FifoInv' /\ UNCHANGED Fifo!vars
<1>1. First' = First
  BY SameFirst
<1>2. Number' = Number /\ Unused' = Unused
  BY <1>1 DEF Number, Unused
<1>3. Many' = Many
  BY <1>2 DEF Many
<1>4. \A k : Place(k)' = Place(k)
  BY <1>1 DEF Place
<1>5. FifoInv'
  BY <1>1, <1>2, <1>3, <1>4 DEF FifoInv
<1>6. Queued' = Queued
  BY <1>1, <1>2, <1>3 DEF Queued, Number, Unused
<1> QED
  BY <1>5, <1>6 DEF Fifo!vars

\* The producer draws a ticket.
LEMMA FifoPush ==
  ASSUME Spsc, Size + 1 < Wrap, IInv, FifoInv, NEW p \in Producers, Push(p)
  PROVE  FifoInv' /\ UNCHANGED Fifo!vars
<1> USE DEF IInv, TypeOK, Threads, Step
<1>1. /\ Wrap \in Nat \ {0} /\ Size \in Nat \ {0} /\ First \in Nat
      /\ Number \in 0 .. Wrap - 1 /\ head = (First + Number) % Wrap /\ Many \in Nat
  BY Numbers
<1>2. /\ pc' = [pc EXCEPT ![p] = "room"] /\ pc[p] = "idle"
      /\ ticket' = [ticket EXCEPT ![p] = head] /\ head' = (head + 1) % Wrap
      /\ UNCHANGED <<tail, elements, got>>
  BY DEF Push
<1>3. \A q \in Producers : q = p
  BY ElementAssumption
<1>4. \A c \in Consumers : c # p /\ pc'[c] = pc[c] /\ ticket'[c] = ticket[c]
  BY <1>2, ElementAssumption
<1>5. First' = First
  BY <1>2, <1>4, SameFirst
<1>6. ~ (\E q \in Producers : Storing(q)) /\ Storing(p)'
  BY <1>2, <1>3 DEF Storing
<1>7. Unused = 0 /\ Unused' = 1 /\ Number = Many
  BY <1>1, <1>6 DEF Unused, Many
<1>8. Number + 1 \in 0 .. Wrap - 1
  BY <1>1, <1>7 DEF FifoInv
<1>9. head' = (First + (Number + 1)) % Wrap
  <2>1. PICK x \in Int : x = First + Number /\ x + 1 = First + (Number + 1)
    BY <1>1
  <2>2. ((x % Wrap) + 1) % Wrap = (x + 1) % Wrap
    BY <1>1, 1 \in Int, RoundOn
  <2> QED
    BY <1>1, <1>2, <2>1, <2>2
<1>10. Number' = Number + 1
  <2>1. First \in 0 .. Wrap - 1 /\ head' \in 0 .. Wrap - 1
    BY <1>1, <1>9 DEF FifoInv, Tickets
  <2>2. (head' + Wrap - First) % Wrap = Number + 1
    <3>1. PICK a \in 0 .. Wrap - 1, b \in 0 .. Wrap - 1, k \in 0 .. Wrap - 1 :
            a = First /\ b = head' /\ k = Number + 1 /\ b = (a + k) % Wrap
      BY <1>8, <1>9, <2>1
    <3>2. (b + Wrap - a) % Wrap = k
      BY ONLY <1>1, <3>1, AheadBy, ZenonT(40)
    <3> QED
      BY <3>1, <3>2
  <2> QED
    BY <1>5, <2>2 DEF Number
<1>11. Many' = Many
  BY <1>1, <1>7, <1>10 DEF Many
<1>12. \A k : Place(k)' = Place(k)
  BY <1>5 DEF Place
<1>13. \A q \in Producers : Storing(q)' => Number' >= 1 /\ ticket'[q] = (First' + (Number' - 1)) % Wrap
  <2>1. ticket'[p] = head /\ Number' - 1 = Number /\ Number' >= 1
    BY <1>1, <1>2, <1>10
  <2> QED
    BY <1>1, <1>3, <1>5, <2>1
<1>14. /\ \A c \in Consumers : pc'[c] # "idle" => ticket'[c] = First' /\ tail' = (First' + 1) % Wrap
       /\ (\A c \in Consumers : pc'[c] = "idle") => tail' = First'
  BY <1>2, <1>4, <1>5 DEF FifoInv
<1>15. FifoInv'
  BY <1>2, <1>5, <1>11, <1>12, <1>13, <1>14 DEF FifoInv
<1>16. Queued' = Queued
  <2>1. Queued = [k \in 1 .. Many |-> elements[(First + k - 1) % Size]]
    BY DEF Queued, Many, Number, Unused
  <2>2. Queued' = [k \in 1 .. Many' |-> elements'[(First' + k - 1) % Size]]
    BY DEF Queued, Many, Number, Unused
  <2> QED
    BY <1>2, <1>5, <1>11, <2>1, <2>2
<1> QED
  BY <1>2, <1>15, <1>16 DEF Fifo!vars
\* The producer stores an item, at the end of the list.
LEMMA FifoPut ==
  ASSUME Spsc, Size + 1 < Wrap, IInv, FifoInv, IInv', NEW p \in Producers, SpscPut(p)
  PROVE  FifoInv' /\ Fifo!Put
<1> DEFINE i == item[p]
<1> USE DEF IInv, TypeOK, Threads, Step
<1>1. /\ Wrap \in Nat \ {0} /\ Size \in Nat \ {0} /\ First \in Nat
      /\ Number \in 0 .. Wrap - 1 /\ Many \in Nat
      /\ Queued = [k \in 1 .. Many |-> elements[Place(k - 1)]]
  BY Numbers
<1>2. /\ pc' = [pc EXCEPT ![p] = "notify"] /\ pc[p] = "put"
      /\ elements' = [elements EXCEPT ![Slot(p)] = i]
      /\ UNCHANGED <<head, tail, ticket, got>>
  BY DEF SpscPut
<1>3. \A q \in Producers : q = p
  BY ElementAssumption
<1>4. \A c \in Consumers : c # p /\ pc'[c] = pc[c] /\ ticket'[c] = ticket[c]
  BY <1>2, ElementAssumption
<1>5. First' = First
  BY <1>2, <1>4, SameFirst
<1>6. Storing(p) /\ ~ (\E q \in Producers : Storing(q)')
  BY <1>2, <1>3 DEF Storing
<1>7. Unused = 1 /\ Unused' = 0 /\ Number >= 1 /\ ticket[p] = (First + (Number - 1)) % Wrap
  BY <1>6 DEF Unused, FifoInv
<1>8. Number' = Number /\ Many = Number - 1 /\ Many' = Many + 1
  BY <1>1, <1>2, <1>5, <1>7 DEF Number, Many
<1>9. Slot(p) = Place(Many) /\ Slot(p) \in Slots
  <2>1. PICK x \in Int : x = First + (Number - 1) /\ x = First + Many
    BY <1>1, <1>8
  <2>2. Wrap % Size = 0
    BY ElementAssumption
  <2>3. (x % Wrap) % Size = x % Size
    BY ONLY <1>1, <2>2, x \in Int, RemainderTwice
  <2> QED
    BY <1>7, <2>1, <2>3, ThreadSlot DEF Slot, Place
<1>10. elements[Slot(p)] = NIL /\ i \in Items /\ i # NIL
  <2>1. elements[Slot(p)] = NIL /\ i = <<p, pushed[p]>> /\ pushed[p] # 0
    BY <1>2, <1>6 DEF InHand
  <2>2. pushed[p] \in 1 .. MaxPush
    BY <2>1, ElementAssumption
  <2>3. i \in Items
    BY <2>1, <2>2 DEF Items
  <2> QED
    BY <2>1, <2>3, ItemNotNil
<1>11. \A k : Place(k)' = Place(k)
  BY <1>5 DEF Place
<1>12. Many < Size
  <2> SUFFICES ASSUME Many = Size PROVE FALSE
    BY <1>1 DEF FifoInv
  <2>1. PICK x \in Int, y \in Int, k \in Int :
          x = First + Many /\ y = First + 0 /\ k = 1 /\ x - y = Size * k
    BY <1>1
  <2>2. x % Size = y % Size
    BY <1>1, <2>1, SameRemainder
  <2>3. Place(Many) = Place(0) /\ 0 \in 0 .. Many - 1
    BY <1>1, <2>1, <2>2 DEF Place
  <2> QED
    BY <1>9, <1>10, <2>3 DEF FifoInv
<1>13. \A k \in 0 .. Many - 1 : Place(k) # Slot(p) /\ Place(k) \in Slots
  <2> SUFFICES ASSUME NEW k \in 0 .. Many - 1 PROVE Place(k) # Slot(p) /\ Place(k) \in Slots
    OBVIOUS
  <2>1. PICK x \in Nat : x = First + k
    BY <1>1
  <2>2. x % Size \in 0 .. Size - 1
    BY <1>1, Remainder
  <2> QED
    BY <1>9, <1>10, <2>1, <2>2 DEF FifoInv, Place, Slots
<1>14. /\ elements'[Place(Many)] = i
       /\ \A k \in 0 .. Many - 1 : elements'[Place(k)] = elements[Place(k)]
  BY <1>2, <1>9, <1>13
<1>15. \A k \in 0 .. Many' - 1 : elements'[Place(k)'] # NIL
  <2> SUFFICES ASSUME NEW k \in 0 .. Many' - 1 PROVE elements'[Place(k)'] # NIL
    OBVIOUS
  <2>1. k = Many \/ k \in 0 .. Many - 1
    BY <1>1, <1>8
  <2> QED
    BY <1>10, <1>11, <1>14, <2>1 DEF FifoInv
<1>16. \A s \in Slots : elements'[s] # NIL => \E k \in 0 .. Many' - 1 : s = Place(k)'
  <2> SUFFICES ASSUME NEW s \in Slots, elements'[s] # NIL
               PROVE  \E k \in 0 .. Many' - 1 : s = Place(k)'
    OBVIOUS
  <2>1. CASE s = Slot(p)
    BY <1>1, <1>8, <1>9, <1>11, <2>1
  <2>2. CASE s # Slot(p)
    <3>1. elements[s] # NIL
      BY <1>2, <2>2
    <3>2. PICK k \in 0 .. Many - 1 : s = Place(k)
      BY <3>1 DEF FifoInv
    <3>3. k \in 0 .. Many' - 1
      BY <1>1, <1>8
    <3> QED
      BY <1>11, <3>2, <3>3
  <2> QED
    BY <2>1, <2>2
<1>17. FifoInv'
  <2>1. First' \in Tickets /\ Many' <= Size
    BY <1>1, <1>5, <1>8, <1>12 DEF FifoInv
  <2>2. /\ \A c \in Consumers : pc'[c] # "idle" => ticket'[c] = First' /\ tail' = (First' + 1) % Wrap
        /\ (\A c \in Consumers : pc'[c] = "idle") => tail' = First'
    BY <1>2, <1>4, <1>5 DEF FifoInv
  <2> QED
    BY <1>6, <1>15, <1>16, <2>1, <2>2 DEF FifoInv
<1>18. Fifo!Put
  <2>1. Queued' = [k \in 1 .. Many' |-> elements'[Place(k - 1)']]
    <3>1. FifoInv' /\ TypeOK'
      BY <1>17
    <3>2. Queued' = [k \in 1 .. Many' |-> elements'[(First' + k - 1) % Size]]
      BY DEF Queued, Many, Number, Unused
    <3>3. \A k \in 1 .. Many' : First' + k - 1 = First' + (k - 1)
      BY <1>1, <1>5, <1>8
    <3> QED
      BY <3>2, <3>3 DEF Place
  <2>2. \A k \in 1 .. Many + 1 : elements'[Place(k - 1)'] = IF k = Many + 1 THEN i ELSE Queued[k]
    <3> SUFFICES ASSUME NEW k \in 1 .. Many + 1
                 PROVE  elements'[Place(k - 1)'] = IF k = Many + 1 THEN i ELSE Queued[k]
      OBVIOUS
    <3>1. CASE k = Many + 1
      <4>1. k - 1 = Many
        BY <1>1, <3>1
      <4> QED
        BY <1>11, <1>14, <3>1, <4>1
    <3>2. CASE k # Many + 1
      <4>1. k - 1 \in 0 .. Many - 1 /\ k \in 1 .. Many
        BY <1>1, <3>2
      <4>2. Queued[k] = elements[Place(k - 1)]
        BY <1>1, <4>1
      <4> QED
        BY <1>11, <1>14, <3>2, <4>1, <4>2
    <3> QED
      BY <3>1, <3>2
  <2>3. Queued' = [k \in 1 .. Many + 1 |-> IF k = Many + 1 THEN i ELSE Queued[k]]
    BY <1>8, <2>1, <2>2
  <2>4. Queued \in [1 .. Many -> Items]
    <3>1. \A k \in 1 .. Many : elements[Place(k - 1)] \in Items
      <4> SUFFICES ASSUME NEW k \in 1 .. Many PROVE elements[Place(k - 1)] \in Items
        OBVIOUS
      <4>1. k - 1 \in 0 .. Many - 1
        BY <1>1
      <4>2. Place(k - 1) \in Slots /\ elements[Place(k - 1)] # NIL
        BY <1>13, <4>1 DEF FifoInv
      <4> QED
        BY <4>2
    <3> QED
      BY <1>1, <3>1
  <2> HIDE DEF i
  <2>5. Queued' = Append(Queued, i)
    BY ONLY <1>1, <1>10, <2>3, <2>4, OneAtTheEnd
  <2> QED
    BY <1>2, <1>10, <2>5 DEF Fifo!Put
<1> QED
  BY <1>17, <1>18
\* The consumer calls: its place does not change.
LEMMA FifoPop ==
  ASSUME Spsc, IInv, FifoInv, NEW c \in Consumers, Pop(c)
  PROVE  FifoInv' /\ UNCHANGED Fifo!vars
<1> USE DEF IInv, TypeOK, Threads, Step
<1>1. /\ pc' = [pc EXCEPT ![c] = "load"] /\ pc[c] = "idle"
      /\ ticket' = [ticket EXCEPT ![c] = tail] /\ tail' = (tail + 1) % Wrap
      /\ UNCHANGED <<head, elements, got>>
  BY DEF Pop
<1>2. \A d \in Consumers : d = c
  BY ElementAssumption
<1>3. \A p \in Producers : p # c /\ pc'[p] = pc[p] /\ ticket'[p] = ticket[p]
  BY <1>1, ElementAssumption
<1>4. pc'[c] = "load" /\ ticket'[c] = tail
  BY <1>1
<1>5. First = tail /\ First' = ticket'[c]
  <2>1. First = tail
    BY <1>1, <1>2 DEF First
  <2>2. (CHOOSE d \in Consumers : TRUE) = c
    BY <1>2
  <2>3. First' = ticket'[c]
    BY <1>4, <2>2 DEF First
  <2> QED
    BY <2>1, <2>3
<1>6. First' = First /\ tail' = (First' + 1) % Wrap
  BY <1>1, <1>4, <1>5
<1>7. \A p \in Producers : Storing(p)' <=> Storing(p)
  BY <1>3 DEF Storing
<1>8. Number' = Number /\ Unused' = Unused
  BY <1>1, <1>6, <1>7 DEF Number, Unused
<1>9. Many' = Many
  BY <1>8 DEF Many
<1>10. \A k : Place(k)' = Place(k)
  BY <1>6 DEF Place
<1>11. FifoInv'
  BY <1>1, <1>2, <1>3, <1>4, <1>5, <1>6, <1>7, <1>8, <1>9, <1>10 DEF FifoInv
<1>12. Queued' = Queued
  <2>1. Queued = [k \in 1 .. Many |-> elements[(First + k - 1) % Size]]
    BY DEF Queued, Many, Number, Unused
  <2>2. Queued' = [k \in 1 .. Many' |-> elements'[(First' + k - 1) % Size]]
    BY DEF Queued, Many, Number, Unused
  <2> QED
    BY <1>1, <1>6, <1>9, <2>1, <2>2
<1> QED
  BY <1>1, <1>11, <1>12 DEF Fifo!vars

\* The consumer empties its slot and goes on to the next, with the first of the list.
LEMMA FifoFree ==
  ASSUME Spsc, Size + 1 < Wrap, IInv, FifoInv, NEW c \in Consumers, SpscFree(c)
  PROVE  FifoInv' /\ Fifo!Get
<1> USE DEF IInv, TypeOK, Threads, Step
<1>1. /\ Wrap \in Nat \ {0} /\ Size \in Nat \ {0} /\ First \in Nat
      /\ Number \in 0 .. Wrap - 1 /\ Many \in Nat /\ head = (First + Number) % Wrap
      /\ Unused \in {0, 1} /\ Queued = [k \in 1 .. Many |-> elements[Place(k - 1)]]
  BY Numbers
<1>2. /\ pc' = [pc EXCEPT ![c] = "idle"] /\ pc[c] = "free"
      /\ elements' = [elements EXCEPT ![Slot(c)] = NIL] /\ got' = Append(got, item[c])
      /\ UNCHANGED <<head, tail, ticket>>
  BY DEF SpscFree
<1>3. \A d \in Consumers : d = c
  BY ElementAssumption
<1>4. \A p \in Producers : p # c /\ pc'[p] = pc[p] /\ ticket'[p] = ticket[p]
  BY <1>2, ElementAssumption
<1>5. ticket[c] = First /\ tail = (First + 1) % Wrap
  BY <1>2 DEF FifoInv
<1>6. First' = (First + 1) % Wrap /\ tail' = First'
  <2>1. \A d \in Consumers : pc'[d] = "idle"
    BY <1>2, <1>3
  <2>2. First' = tail'
    BY <2>1 DEF First
  <2> QED
    BY <1>2, <1>5, <2>2
<1>7. Slot(c) = Place(0) /\ Slot(c) \in Slots
  <2>1. First + 0 = First
    BY <1>1
  <2> QED
    BY <1>5, <2>1, ThreadSlot DEF Slot, Place
<1>8. elements[Slot(c)] = item[c] /\ item[c] # NIL /\ item[c] \in Items
  <2>1. elements[Slot(c)] = item[c] /\ item[c] # NIL
    BY <1>2 DEF InHand
  <2> QED
    BY <1>7, <2>1
<1>9. \A k \in Int : Place(k)' = Place(k + 1)
  <2> SUFFICES ASSUME NEW k \in Int PROVE Place(k)' = Place(k + 1)
    OBVIOUS
  <2>1. PICK x \in Int, y \in Int : x = First + 1 /\ y = k /\ x + y = First + (k + 1)
    BY <1>1
  <2>2. Wrap % Size = 0
    BY ElementAssumption
  <2>3. ((x % Wrap) + y) % Size = (x + y) % Size
    BY ONLY <1>1, <2>2, x \in Int, y \in Int, RoundWithin, ZenonT(40)
  <2> QED
    BY <1>6, <2>1, <2>3 DEF Place
<1>10. Many >= 1
  <2>1. PICK k \in 0 .. Many - 1 : Slot(c) = Place(k)
    BY <1>7, <1>8 DEF FifoInv
  <2> QED
    BY <1>1, <2>1
<1>11. Number >= 1 /\ Number' = Number - 1
  <2>1. Number >= 1
    BY <1>1, <1>10 DEF Many
  <2>2. PICK x \in Int, y \in Int : x = First + 1 /\ y = Number - 1 /\ x + y = First + Number
    BY <1>1
  <2>3. ((x % Wrap) + y) % Wrap = (x + y) % Wrap
    BY ONLY <1>1, <2>2, RoundOn
  <2>4. head = (First' + (Number - 1)) % Wrap
    BY <1>1, <1>6, <2>2, <2>3
  <2>5. First' \in 0 .. Wrap - 1
    BY <1>1, <1>6
  <2>6. PICK a \in 0 .. Wrap - 1, b \in 0 .. Wrap - 1, k \in 0 .. Wrap - 1 :
          a = First' /\ b = head /\ k = Number - 1 /\ b = (a + k) % Wrap
    <3>1. head \in 0 .. Wrap - 1
      BY DEF Tickets
    <3>2. Number - 1 \in 0 .. Wrap - 1
      BY <1>1, <2>1
    <3> QED
      BY <2>4, <2>5, <3>1, <3>2
  <2>7. (b + Wrap - a) % Wrap = k
    BY ONLY <1>1, <2>6, AheadBy, ZenonT(40)
  <2> QED
    BY <1>2, <2>1, <2>6, <2>7 DEF Number
<1>12. Unused' = Unused /\ \A p \in Producers : Storing(p)' <=> Storing(p)
  BY <1>4 DEF Unused, Storing
<1>13. Many' = Many - 1 /\ Many' \in Nat
  BY <1>1, <1>10, <1>11, <1>12 DEF Many
<1>14. \A k \in 1 .. Many - 1 : /\ Place(k) # Slot(c) /\ Place(k) \in Slots
                                /\ elements'[Place(k)] = elements[Place(k)]
  <2> SUFFICES ASSUME NEW k \in 1 .. Many - 1 PROVE Place(k) # Slot(c) /\ Place(k) \in Slots
    BY <1>2
  <2>1. k - 0 < Size /\ 0 - k < Size /\ k # 0
    BY <1>1 DEF FifoInv
  <2>2. Place(k) # Place(0)
    BY <2>1, PlacesApart
  <2>3. PICK x \in Nat : x = First + k
    BY <1>1
  <2>4. x % Size \in 0 .. Size - 1
    BY <1>1, Remainder
  <2> QED
    BY <1>7, <2>2, <2>3, <2>4 DEF Place, Slots
<1>15. \A p \in Producers : Storing(p)' =>
         Number' >= 1 /\ ticket'[p] = (First' + (Number' - 1)) % Wrap
  <2> SUFFICES ASSUME NEW p \in Producers, Storing(p)
               PROVE  Number' >= 1 /\ ticket'[p] = (First' + (Number' - 1)) % Wrap
    BY <1>12
  <2>1. Unused = 1 /\ ticket[p] = (First + (Number - 1)) % Wrap
    BY DEF Unused, FifoInv
  <2>2. Number' >= 1
    BY <1>1, <1>10, <1>11, <2>1 DEF Many
  <2>3. PICK x \in Int, y \in Int : x = First + 1 /\ y = Number - 2 /\ x + y = First + (Number - 1)
    BY <1>1
  <2>4. ((x % Wrap) + y) % Wrap = (x + y) % Wrap
    BY ONLY <1>1, <2>3, RoundOn
  <2>5. Number' - 1 = Number - 2
    BY <1>1, <1>11
  <2> QED
    BY <1>4, <1>6, <2>1, <2>2, <2>3, <2>4, <2>5
<1>16. \A k \in 0 .. Many' - 1 : elements'[Place(k)'] # NIL
  <2> SUFFICES ASSUME NEW k \in 0 .. Many' - 1 PROVE elements'[Place(k)'] # NIL
    OBVIOUS
  <2>1. k + 1 \in 1 .. Many - 1 /\ k + 1 \in 0 .. Many - 1 /\ k \in Int
    BY <1>1, <1>13
  <2> QED
    BY <1>9, <1>14, <2>1, ZenonT(40) DEF FifoInv
<1>17. \A s \in Slots : elements'[s] # NIL => \E k \in 0 .. Many' - 1 : s = Place(k)'
  <2> SUFFICES ASSUME NEW s \in Slots, elements'[s] # NIL
               PROVE  \E k \in 0 .. Many' - 1 : s = Place(k)'
    OBVIOUS
  <2>1. s # Slot(c) /\ elements[s] # NIL
    BY <1>2, <1>7
  <2>2. PICK k \in 0 .. Many - 1 : s = Place(k)
    BY <2>1 DEF FifoInv
  <2>3. k # 0
    BY <1>7, <2>1, <2>2
  <2>4. PICK j \in Int : j = k - 1 /\ j + 1 = k /\ j \in 0 .. Many' - 1
    BY <1>1, <1>13, <2>3
  <2>5. Place(j)' = s
    BY <1>9, <2>2, <2>4
  <2> QED
    BY <2>4, <2>5
<1>18. FifoInv'
  <2>1. First' \in Tickets /\ Many' <= Size
    BY <1>1, <1>6, <1>13 DEF FifoInv, Tickets
  <2>2. /\ \A d \in Consumers : pc'[d] # "idle" => ticket'[d] = First' /\ tail' = (First' + 1) % Wrap
        /\ (\A d \in Consumers : pc'[d] = "idle") => tail' = First'
    BY <1>2, <1>3, <1>6
  <2> QED
    BY <1>15, <1>16, <1>17, <2>1, <2>2 DEF FifoInv
<1>19. Fifo!Get
  <2>1. PICK m \in Nat : Many = m + 1 /\ Many' = m
    BY <1>1, <1>10, <1>13
  <2>2. Queued \in [1 .. m + 1 -> Items]
    <3>1. \A k \in 1 .. Many : elements[Place(k - 1)] \in Items
      <4> SUFFICES ASSUME NEW k \in 1 .. Many PROVE elements[Place(k - 1)] \in Items
        OBVIOUS
      <4>1. k - 1 \in 0 .. Many - 1 /\ (k - 1 = 0 \/ k - 1 \in 1 .. Many - 1)
        BY <1>1
      <4>2. Place(k - 1) \in Slots /\ elements[Place(k - 1)] # NIL
        BY <1>7, <1>14, <4>1 DEF FifoInv
      <4> QED
        BY <4>2
    <3> QED
      BY <1>1, <2>1, <3>1
  <2>3. Queued' = [k \in 1 .. m |-> Queued[k + 1]]
    <3>1. Queued' = [k \in 1 .. m |-> elements'[(First' + k - 1) % Size]]
      BY <2>1 DEF Queued, Many, Number, Unused
    <3>2. ASSUME NEW k \in 1 .. m PROVE elements'[(First' + k - 1) % Size] = Queued[k + 1]
      <4>1. First' \in Int /\ First' + k - 1 = First' + (k - 1)
        BY <1>1, <1>6
      <4>2. PICK j \in Int : j = k - 1 /\ j + 1 = k /\ k \in 1 .. Many - 1 /\ k + 1 \in 1 .. Many
                             /\ (k + 1) - 1 = k
        BY <2>1
      <4>3. Place(j)' = Place(k)
        BY <1>9, <4>2
      <4>4. elements'[Place(k)] = elements[Place(k)]
        BY <1>14, <4>2
      <4>5. Queued[k + 1] = elements[Place(k)]
        BY <1>1, <4>2
      <4> QED
        BY <4>1, <4>2, <4>3, <4>4, <4>5 DEF Place
    <3> QED
      BY <3>1, <3>2
  <2>4. Queued # <<>> /\ Head(Queued) = Queued[1] /\ Queued' = Tail(Queued)
    BY ONLY <2>1, <2>2, <2>3, WithoutFirst
  <2>5. Queued[1] = item[c]
    <3>1. 1 \in 1 .. Many /\ 1 - 1 = 0
      BY <2>1
    <3> QED
      BY <1>1, <1>7, <1>8, <3>1
  <2> QED
    BY <1>2, <2>4, <2>5 DEF Fifo!Get
<1> QED
  BY <1>18, <1>19

\* Every step of the two threads is a step of FifoChannel or none of it.
LEMMA FifoStep ==
  ASSUME Spsc, Size + 1 < Wrap, IInv, FifoInv, [Next]_vars, IInv'
  PROVE  FifoInv' /\ [Fifo!Next]_Fifo!vars
<1> USE DEF IInv, TypeOK, Threads, Step
<1>1. ASSUME NEW p \in Producers, Producer(p) PROVE FifoInv' /\ [Fifo!Next]_Fifo!vars
  <2>1. CASE Push(p)
    BY <2>1, FifoPush
  <2>2. CASE SpscPut(p)
    BY <2>2, FifoPut DEF Fifo!Next
  <2>3. CASE SpscRoom(p)
    <3>1. UNCHANGED <<head, tail, elements, ticket, got>>
      BY <2>3 DEF SpscRoom
    <3>2. /\ \A c \in Consumers : pc'[c] = "idle" <=> pc[c] = "idle"
          /\ \A q \in Producers : Storing(q)' <=> Storing(q)
      BY <2>3 DEF SpscRoom, Storing
    <3> QED
      BY <3>1, <3>2, NothingMoves
  <2>4. CASE Notify(p)
    <3>1. Asleep(Slot(p)) = {}
      BY DEF Roles, Asleep
    <3>2. UNCHANGED <<head, tail, elements, ticket, got>> /\ pc' = [pc EXCEPT ![p] = "idle"]
      BY <2>4, <3>1 DEF Notify
    <3>3. /\ \A c \in Consumers : pc'[c] = "idle" <=> pc[c] = "idle"
          /\ \A q \in Producers : Storing(q)' <=> Storing(q)
      BY <2>4, <3>2, ElementAssumption DEF Notify, Storing
    <3> QED
      BY <3>2, <3>3, NothingMoves
  <2>5. ~ Store(p)
    BY DEF Store, Roles
  <2> QED
    BY <1>1, <2>1, <2>2, <2>3, <2>4, <2>5 DEF Producer
<1>2. ASSUME NEW c \in Consumers, Consumer(c) PROVE FifoInv' /\ [Fifo!Next]_Fifo!vars
  <2>1. CASE Pop(c)
    BY <2>1, FifoPop
  <2>2. CASE SpscFree(c)
    BY <2>2, FifoFree DEF Fifo!Next
  <2>3. CASE SpscLoad(c)
    <3>1. UNCHANGED <<head, tail, elements, ticket, got>>
      BY <2>3 DEF SpscLoad
    <3>2. /\ \A d \in Consumers : pc'[d] = "idle" <=> pc[d] = "idle"
          /\ \A q \in Producers : Storing(q)' <=> Storing(q)
      BY <2>3 DEF SpscLoad, Storing
    <3> QED
      BY <3>1, <3>2, NothingMoves
  <2>4. ~ (Take(c) \/ Miss(c) \/ Sleep(c) \/ WaitReturns(c) \/ Look(c) \/ Wake(c))
    BY DEF Take, Miss, Sleep, WaitReturns, Look, Wake, Roles
  <2> QED
    BY <1>2, <2>1, <2>2, <2>3, <2>4 DEF Consumer, Running
<1>3. CASE Exhausted \/ UNCHANGED vars
  <2>1. UNCHANGED vars
    BY <1>3 DEF Exhausted
  <2>2. /\ UNCHANGED <<head, tail, elements, ticket, got>>
        /\ \A c \in Consumers : pc'[c] = "idle" <=> pc[c] = "idle"
        /\ \A q \in Producers : Storing(q)' <=> Storing(q)
    BY <2>1 DEF vars, Storing
  <2> QED
    BY <2>2, NothingMoves
<1> QED
  BY <1>1, <1>2, <1>3 DEF Next

\* At first there is nothing in the list.
LEMMA FifoInit == ASSUME Init PROVE FifoInv /\ Fifo!Init
<1>1. (\A t \in Threads : pc[t] = "idle") /\ tail = head /\ head \in Tickets
  BY ElementAssumption DEF Init
<1>2. First = tail /\ \A p \in Producers : ~ Storing(p)
  BY <1>1 DEF First, Storing, Threads
<1>3. Wrap \in Nat \ {0} /\ Size \in Nat \ {0} /\ head \in 0 .. Wrap - 1
  BY <1>1, ElementAssumption DEF Tickets
<1>4. Number = 0
  <2>1. PICK a \in 0 .. Wrap - 1, b \in 0 .. Wrap - 1, k \in 0 .. Wrap - 1 :
          a = head /\ b = head /\ k = 0 /\ b = (a + k) % Wrap
    BY <1>3
  <2>2. (b + Wrap - a) % Wrap = k
    BY ONLY <1>3, <2>1, AheadBy
  <2> QED
    BY <1>1, <1>2, <2>1, <2>2 DEF Number
<1>5. Many = 0
  <2>1. Unused = 0
    BY <1>2 DEF Unused
  <2> QED
    BY <1>4, <2>1 DEF Many
<1>6. \A s \in Slots : elements[s] = NIL
  BY DEF Init
<1>7. FifoInv
  BY <1>1, <1>2, <1>3, <1>5, <1>6 DEF FifoInv, Threads
<1>8. Queued = <<>>
  <2>1. Queued = [k \in 1 .. Many |-> elements[(First + k - 1) % Size]]
    BY DEF Queued, Many, Number, Unused
  <2> QED
    BY <1>5, <2>1
<1> QED
  BY <1>7, <1>8 DEF Fifo!Init, Init

(* In the SPSC mode, where the look at the element and the store are two   *)
(* accesses, the queue is first in, first out, for any size above which    *)
(* the words have more than one ticket: as far as safety goes, it          *)
(* implements FifoChannel.                                                 *)
THEOREM ImplementsFifo == ASSUME Spsc, Size + 1 < Wrap PROVE Spec => Fifo!Safety
<1>1. Init => IInv /\ FifoInv /\ Fifo!Init
  BY Initially, FifoInit
<1>2. IInv /\ FifoInv /\ [Next]_vars => IInv' /\ FifoInv' /\ [Fifo!Next]_Fifo!vars
  BY Inductive, FifoStep
<1> QED
  BY <1>1, <1>2, PTL DEF Spec, Fifo!Safety
=============================================================================
