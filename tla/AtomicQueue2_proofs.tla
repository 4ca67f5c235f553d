------------------------ MODULE AtomicQueue2_proofs -------------------------
(***************************************************************************)
(* Proofs about AtomicQueue2, for any numbers of producers, consumers and  *)
(* items, any size, any width of the words and any remapping of the slots: *)
(* no two threads are inside one slot, nothing is lost or duplicated, and  *)
(* every step is a step of BagChannel.  While few enough tickets are drawn *)
(* for the words not to go half way round, try_push and try_pop give up    *)
(* only when they should.                                                  *)
(***************************************************************************)
EXTENDS AtomicQueue2, QueueLemmas

(* The strengthening of NoRace and ExactlyOnce. *)

\* A thread is at a statement of its own operations, with an item to push.
Roles ==
  /\ \A p \in Producers : pc[p] \in {"check", "exchange"} => pushed[p] < MaxPush
  /\ \A p \in Producers : pc[p] \notin {"read", "release"}
  /\ \A c \in Consumers : pc[c] \notin {"write", "publish"}

\* The state of a slot tells what the thread inside it is doing.
Owned ==
  /\ \A p \in Producers : Inside(p) => state[Slot(p)] = Storing
  /\ \A c \in Consumers : Inside(c) => state[Slot(c)] = Loading

\* The item in a thread's hand is the one of its last ticket, or its slot's.
InHand ==
  /\ \A p \in Producers : Pushing(p) => item[p] = <<p, pushed[p]>> /\ pushed[p] # 0
  /\ \A p \in Producers : pc[p] = "publish" => elements[Slot(p)] = item[p]
  /\ \A c \in Consumers : pc[c] = "release" => elements[Slot(c)] = item[c]

SlotInv == TypeOK /\ Roles /\ Owned /\ NoRace
IInv    == SlotInv /\ InHand /\ ExactlyOnce

-----------------------------------------------------------------------------
(* Tickets *)

\* A ticket's successor is a ticket, and every ticket has a slot.
LEMMA NextTicket == ASSUME NEW k \in Tickets PROVE (k + 1) % Wrap \in Tickets
<1>1. k + 1 \in Nat /\ Wrap \in Nat \ {0}
  BY WrapAssumption DEF Tickets
<1> QED
  BY <1>1, Remainder DEF Tickets

\* A ticket has a slot.
LEMMA TicketSlot == ASSUME NEW k \in Tickets PROVE SlotOf(k) \in Slots
<1>1. k % Size \in Slots
  BY Remainder, SizeAssumption, WrapAssumption DEF Tickets, Slots
<1> QED
  BY <1>1, RemapAssumption DEF SlotOf

-----------------------------------------------------------------------------
(* The slots *)

\* In the initial state nobody is inside a slot.
LEMMA SlotInit == Init => SlotInv
<1> SUFFICES ASSUME Init PROVE SlotInv
  OBVIOUS
<1>1. 0 \in Tickets
  BY WrapAssumption DEF Tickets
<1>2. TypeOK
  BY <1>1, SizeAssumption, WrapAssumption DEF Init, TypeOK, States, Threads
<1>3. Roles /\ Owned /\ NoRace
  BY DEF Init, Roles, Owned, NoRace, Inside, Threads
<1> QED
  BY <1>2, <1>3 DEF SlotInv

\* Every step preserves the slot invariant: the type part.
LEMMA TypeStep == IInv /\ [Next]_vars => TypeOK'
<1> SUFFICES ASSUME TypeOK, Roles, InHand, Owned, ExactlyOnce, [Next]_vars
             PROVE  TypeOK'
  BY DEF IInv, SlotInv
<1> USE DEF TypeOK, Step, Threads, States
<1>0. (head + 1) % Wrap \in Tickets /\ (tail + 1) % Wrap \in Tickets
  BY NextTicket
<1>1. ASSUME NEW p \in Producers, Push(p) \/ TryPushTake(p) PROVE TypeOK'
  <2>1. pushed[p] < MaxPush
    BY <1>1 DEF Push, TryPushTake, Roles
  <2>2. pushed[p] + 1 \in 0 .. MaxPush /\ <<p, pushed[p] + 1>> \in Items
    BY <2>1, SizeAssumption DEF Items
  <2>3. /\ item' \in [Threads -> Items \cup {NoItem}]
        /\ pushed' \in [Producers -> 0 .. MaxPush]
    BY <1>1, <2>2, SMTT(30) DEF Push, TryPushTake, Offer
  <2>4. /\ head' \in Tickets /\ ticket' \in [Threads -> Tickets]
        /\ UNCHANGED <<tail, state, elements, got>>
    BY <1>0, <1>1, ZenonT(40) DEF Push, TryPushTake
  <2> QED
    BY <1>1, <2>3, <2>4 DEF Push, TryPushTake
<1>2. ASSUME NEW p \in Producers,
             TryPush(p) \/ TryPushFull(p) \/ TryPushRoom(p) \/ TryPushRetry(p)
      PROVE  TypeOK'
  BY <1>2 DEF TryPush, TryPushFull, TryPushRoom, TryPushRetry
<1>3. ASSUME NEW p \in Producers, Claim(p) \/ Write(p) \/ Publish(p)
      PROVE  TypeOK'
  BY <1>3 DEF Claim, Write, Publish
<1>4. ASSUME NEW c \in Consumers,
             Pop(c) \/ TryPop(c) \/ TryPopEmpty(c) \/ TryPopSome(c)
               \/ TryPopTake(c) \/ TryPopRetry(c)
      PROVE  TypeOK'
  BY <1>0, <1>4 DEF Pop, TryPop, TryPopEmpty, TryPopSome, TryPopTake, TryPopRetry
<1>5. ASSUME NEW c \in Consumers, ClaimStored(c) \/ Read(c)
      PROVE  TypeOK'
  BY <1>5, TicketSlot DEF ClaimStored, Read, Slot
<1>6. ASSUME NEW c \in Consumers, Release(c) PROVE TypeOK'
  <2>1. Slot(c) \in Slots /\ item[c] = elements[Slot(c)] /\ state[Slot(c)] = Loading
    BY <1>6, TicketSlot DEF Release, Slot, InHand, Owned, Inside
  <2>2. item[c] \in Items
    BY <2>1 DEF ExactlyOnce, HeldItems, Occupied, PutItems
  <2>3. got' \in Seq(Items)
    BY <1>6, <2>2 DEF Release
  <2> QED
    BY <1>6, <2>3 DEF Release
<1>7. CASE Exhausted \/ UNCHANGED vars
  BY <1>7 DEF Exhausted, vars
<1> QED
  BY <1>1, <1>2, <1>3, <1>4, <1>5, <1>6, <1>7 DEF Next, Producer, Consumer

\* Every step preserves the roles and the ownership of the slots.  Only the
\* claims and the releases of a slot touch both its state and an owner.
LEMMA SlotStep == SlotInv /\ [Next]_vars => (Roles /\ Owned /\ NoRace)'
<1> SUFFICES ASSUME SlotInv, [Next]_vars PROVE (Roles /\ Owned /\ NoRace)'
  OBVIOUS
<1> USE ThreadAssumption, StateAssumption
        DEF SlotInv, TypeOK, Roles, Owned, NoRace, Inside, Threads, Step
<1>0. \A t \in Threads : Slot(t) \in Slots
  BY TicketSlot DEF Slot
<1>1. ASSUME NEW p \in Producers, Push(p) \/ TryPushTake(p)
      PROVE  (Roles /\ Owned /\ NoRace)'
  <2>1. Roles'
    BY <1>1 DEF Push, TryPushTake, Offer
  <2>2. /\ \A t \in Threads : Inside(t)' => Inside(t) /\ Slot(t)' = Slot(t)
        /\ UNCHANGED state
    BY <1>1 DEF Push, TryPushTake, Slot
  <2> QED
    BY <2>1, <2>2
<1>2. ASSUME NEW p \in Producers,
             TryPush(p) \/ TryPushFull(p) \/ TryPushRoom(p) \/ TryPushRetry(p)
      PROVE  (Roles /\ Owned /\ NoRace)'
  BY <1>2, SMTT(30) DEF TryPush, TryPushFull, TryPushRoom, TryPushRetry, Slot
<1>3. ASSUME NEW p \in Producers, Claim(p) PROVE (Roles /\ Owned /\ NoRace)'
  BY <1>0, <1>3 DEF Claim, Slot
<1>4. ASSUME NEW p \in Producers, Write(p) PROVE (Roles /\ Owned /\ NoRace)'
  BY <1>4 DEF Write, Slot
<1>5. ASSUME NEW p \in Producers, Publish(p) PROVE (Roles /\ Owned /\ NoRace)'
  BY <1>0, <1>5 DEF Publish, Slot
<1>6. ASSUME NEW c \in Consumers,
             Pop(c) \/ TryPop(c) \/ TryPopEmpty(c) \/ TryPopSome(c)
               \/ TryPopTake(c) \/ TryPopRetry(c)
      PROVE  (Roles /\ Owned /\ NoRace)'
  BY <1>6, SMTT(30) DEF Pop, TryPop, TryPopEmpty, TryPopSome, TryPopTake, TryPopRetry, Slot
<1>7. ASSUME NEW c \in Consumers, ClaimStored(c) PROVE (Roles /\ Owned /\ NoRace)'
  BY <1>0, <1>7 DEF ClaimStored, Slot
<1>8. ASSUME NEW c \in Consumers, Read(c) PROVE (Roles /\ Owned /\ NoRace)'
  BY <1>8 DEF Read, Slot
<1>9. ASSUME NEW c \in Consumers, Release(c) PROVE (Roles /\ Owned /\ NoRace)'
  BY <1>0, <1>9 DEF Release, Slot
<1>10. CASE Exhausted \/ UNCHANGED vars
  BY <1>10 DEF Exhausted, vars, Slot
<1> QED
  BY <1>1, <1>2, <1>3, <1>4, <1>5, <1>6, <1>7, <1>8, <1>9, <1>10
  DEF Next, Producer, Consumer

-----------------------------------------------------------------------------
(* The items *)

\* Every step keeps the items in the threads' hands where they belong.
LEMMA HandStep == SlotInv /\ InHand /\ [Next]_vars => InHand'
<1> SUFFICES ASSUME SlotInv, InHand, [Next]_vars PROVE InHand'
  OBVIOUS
<1> USE ThreadAssumption
        DEF SlotInv, TypeOK, Roles, Owned, InHand, Pushing, Threads, Step
<1>0. \A t \in Threads : Slot(t) \in Slots
  BY TicketSlot DEF Slot
<1>1. ASSUME NEW p \in Producers, Push(p) \/ TryPushTake(p) PROVE InHand'
  BY <1>1, SMTT(40) DEF Push, TryPushTake, Offer, Slot
<1>2. ASSUME NEW p \in Producers,
             TryPush(p) \/ TryPushFull(p) \/ TryPushRoom(p) \/ TryPushRetry(p)
      PROVE  InHand'
  BY <1>2 DEF TryPush, TryPushFull, TryPushRoom, TryPushRetry, Slot
<1>3. ASSUME NEW p \in Producers, Claim(p) PROVE InHand'
  BY <1>3 DEF Claim, Slot
<1>4. ASSUME NEW p \in Producers, Write(p) PROVE InHand'
  <2>1. \A t \in Threads : t # p /\ Inside(t) => Slot(t) # Slot(p)
    BY <1>4 DEF Write, NoRace, Inside
  <2>2. \A t \in Threads : t # p /\ Inside(t) => elements'[Slot(t)] = elements[Slot(t)]
    BY <1>0, <1>4, <2>1 DEF Write
  <2>3. elements'[Slot(p)] = item[p]
    BY <1>0, <1>4 DEF Write
  <2> QED
    BY <1>4, <2>2, <2>3 DEF Write, Slot, Inside
<1>5. ASSUME NEW p \in Producers, Publish(p) PROVE InHand'
  BY <1>5 DEF Publish, Slot
<1>6. ASSUME NEW c \in Consumers,
             Pop(c) \/ TryPop(c) \/ TryPopEmpty(c) \/ TryPopSome(c)
               \/ TryPopTake(c) \/ TryPopRetry(c)
      PROVE  InHand'
  BY <1>6 DEF Pop, TryPop, TryPopEmpty, TryPopSome, TryPopTake, TryPopRetry, Slot
<1>7. ASSUME NEW c \in Consumers, ClaimStored(c) PROVE InHand'
  BY <1>7 DEF ClaimStored, Slot
<1>8. ASSUME NEW c \in Consumers, Read(c) PROVE InHand'
  BY <1>8 DEF Read, Slot
<1>9. ASSUME NEW c \in Consumers, Release(c) PROVE InHand'
  BY <1>9 DEF Release, Slot
<1>10. CASE Exhausted \/ UNCHANGED vars
  BY <1>10 DEF Exhausted, vars, Slot
<1> QED
  BY <1>1, <1>2, <1>3, <1>4, <1>5, <1>6, <1>7, <1>8, <1>9, <1>10
  DEF Next, Producer, Consumer

\* A step that neither publishes nor releases a slot moves no item.
Still == /\ Occupied' = Occupied /\ got' = got
         /\ \A s \in Occupied : elements'[s] = elements[s]
         /\ \A p \in Producers : Published(p)' = Published(p)

\* A step that neither publishes nor releases leaves the queue alone.
LEMMA StillStep ==
  ASSUME IInv, [Next]_vars,
         \A p \in Producers : ~Publish(p), \A c \in Consumers : ~Release(c)
  PROVE  Still
<1> USE ThreadAssumption, StateAssumption
        DEF IInv, SlotInv, TypeOK, Roles, Owned, Pushing, Published, Threads,
            Step, Still, Occupied
<1>0. \A t \in Threads : Slot(t) \in Slots
  BY TicketSlot DEF Slot
<1>1. ASSUME NEW p \in Producers, Push(p) \/ TryPushTake(p) PROVE Still
  <2>1. pushed'[p] = pushed[p] + 1 /\ ~Pushing(p) /\ Pushing(p)'
    BY <1>1 DEF Push, TryPushTake, Offer
  <2>2. \A q \in Producers \ {p} : pushed'[q] = pushed[q] /\ pc'[q] = pc[q]
    BY <1>1 DEF Push, TryPushTake, Offer
  <2>3. Occupied' = Occupied /\ got' = got /\ elements' = elements
    BY <1>1 DEF Push, TryPushTake
  <2>4. \A q \in Producers : Published(q)' = Published(q)
    BY <2>1, <2>2
  <2> QED
    BY <2>3, <2>4
<1>2. ASSUME NEW p \in Producers,
             TryPush(p) \/ TryPushFull(p) \/ TryPushRoom(p) \/ TryPushRetry(p)
      PROVE  Still
  BY <1>2 DEF TryPush, TryPushFull, TryPushRoom, TryPushRetry
<1>3. ASSUME NEW p \in Producers, Claim(p) PROVE Still
  BY <1>0, <1>3 DEF Claim
<1>4. ASSUME NEW p \in Producers, Write(p) PROVE Still
  BY <1>0, <1>4 DEF Write, Inside
<1>6. ASSUME NEW c \in Consumers,
             Pop(c) \/ TryPop(c) \/ TryPopEmpty(c) \/ TryPopSome(c)
               \/ TryPopTake(c) \/ TryPopRetry(c)
      PROVE  Still
  BY <1>6 DEF Pop, TryPop, TryPopEmpty, TryPopSome, TryPopTake, TryPopRetry
<1>7. ASSUME NEW c \in Consumers, ClaimStored(c) PROVE Still
  BY <1>0, <1>7 DEF ClaimStored
<1>8. ASSUME NEW c \in Consumers, Read(c) PROVE Still
  BY <1>8 DEF Read
<1>10. CASE Exhausted \/ UNCHANGED vars
  BY <1>10 DEF Exhausted, vars
<1> QED
  BY <1>1, <1>2, <1>3, <1>4, <1>6, <1>7, <1>8, <1>10 DEF Next, Producer, Consumer

\* A step that moves no item preserves ExactlyOnce and stutters in BagChannel.
LEMMA StillOnce ==
  ASSUME ExactlyOnce, Still PROVE ExactlyOnce' /\ UNCHANGED Bag!vars
<1>1. HeldItems' = HeldItems /\ GotItems' = GotItems
  BY DEF Still, HeldItems, GotItems
<1>2. PutItems' = PutItems
  BY DEF Still, PutItems, Items
<1> QED
  BY <1>1, <1>2 DEF ExactlyOnce, Still, Bag!vars

\* Publishing puts one new item.
LEMMA PublishOnce ==
  ASSUME IInv, NEW p \in Producers, Publish(p) PROVE ExactlyOnce' /\ Bag!Put
<1> DEFINE i == <<p, pushed[p]>>
           s == Slot(p)
<1> USE ThreadAssumption, StateAssumption
        DEF IInv, SlotInv, TypeOK, Roles, Owned, InHand, Threads, Step
<1>1. /\ s \in Slots /\ state[s] = Storing /\ elements[s] = i
      /\ i \in Items /\ Published(p) = pushed[p] - 1
  BY TicketSlot DEF Publish, Slot, Inside, Pushing, Items, Published
<1>2. Occupied' = Occupied \cup {s} /\ s \notin Occupied /\ UNCHANGED <<elements, got>>
  BY <1>1 DEF Publish, Occupied
<1>3. \A q \in Producers : Published(q)' = IF q = p THEN pushed[p] ELSE Published(q)
  BY DEF Publish, Published, Pushing
<1>4. PutItems' = PutItems \cup {i} /\ i \notin PutItems
  <2>1. \A j \in Items : j[1] \in Producers /\ j[2] \in Nat /\ j = <<j[1], j[2]>>
    BY DEF Items
  <2>2. i[1] = p /\ i[2] = pushed[p] /\ pushed[p] \in Nat
    BY <1>1
  <2>3. \A j \in Items : j[2] <= Published(j[1])' <=> j = i \/ j[2] <= Published(j[1])
    BY <1>1, <1>3, <2>1, <2>2
  <2> QED
    BY <1>1, <2>2, <2>3, SMTT(30) DEF PutItems
<1>5. HeldItems' = HeldItems \cup {i} /\ GotItems' = GotItems
  <2>1. HeldItems' = {elements[u] : u \in Occupied \cup {s}}
    BY <1>2 DEF HeldItems
  <2>2. HeldItems' = {elements[u] : u \in Occupied} \cup {elements[s]}
    BY <2>1, ImageAdd
  <2>3. GotItems' = GotItems
    BY <1>2 DEF GotItems
  <2> QED
    BY <1>1, <2>2, <2>3 DEF HeldItems
<1>6. i \notin HeldItems /\ i \notin GotItems
  BY <1>4 DEF ExactlyOnce
<1>7. ExactlyOnce'
  BY <1>1, <1>2, <1>4, <1>5, <1>6 DEF ExactlyOnce, HeldItems
<1>8. Bag!Put
  BY <1>1, <1>5, <1>6 DEF Bag!Put
<1> QED
  BY <1>7, <1>8

\* Releasing a slot returns its item.
LEMMA ReleaseOnce ==
  ASSUME IInv, NEW c \in Consumers, Release(c) PROVE ExactlyOnce' /\ Bag!Get
<1> DEFINE i == item[c]
           s == Slot(c)
<1> USE ThreadAssumption, StateAssumption
        DEF IInv, SlotInv, TypeOK, Roles, Owned, InHand, Threads, Step
<1>1. s \in Slots /\ state[s] = Loading /\ elements[s] = i
  BY TicketSlot DEF Release, Slot, Inside
<1>2. /\ s \in Occupied /\ i \in HeldItems /\ i \in Items /\ i \notin GotItems
  BY <1>1 DEF Occupied, HeldItems, ExactlyOnce, PutItems
<1>3. Occupied' = Occupied \ {s} /\ UNCHANGED elements /\ got' = Append(got, i)
  BY <1>1 DEF Release, Occupied
<1>4. PutItems' = PutItems
  BY DEF Release, PutItems, Published, Pushing, Items
<1>5. HeldItems' = HeldItems \ {i}
  BY <1>1, <1>2, <1>3 DEF HeldItems, ExactlyOnce
<1>6. GotItems' = GotItems \cup {i}
  <2> HIDE DEF i
  <2>1. got \in Seq(Items) /\ i \in Items
    BY <1>2
  <2>2. {Append(got, i)[k] : k \in DOMAIN Append(got, i)}
          = {got[k] : k \in DOMAIN got} \cup {i}
    BY ONLY <2>1, AppendRange
  <2> QED
    BY ONLY <1>3, <2>2 DEF GotItems
<1>7. \A j, k \in DOMAIN got' : got'[j] = got'[k] => j = k
  BY <1>2, <1>3, AppendDistinct DEF GotItems, ExactlyOnce
<1>8. ExactlyOnce'
  BY <1>2, <1>3, <1>4, <1>5, <1>6, <1>7 DEF ExactlyOnce
<1>9. Bag!Get
  BY <1>2, <1>5, <1>6 DEF Bag!Get
<1> QED
  BY <1>8, <1>9

-----------------------------------------------------------------------------
(* The theorems *)

\* Initially nothing is in any slot.
LEMMA Initially == Init => IInv /\ Bag!Init
<1> SUFFICES ASSUME Init PROVE IInv /\ Bag!Init
  OBVIOUS
<1>1. SlotInv
  BY SlotInit
<1>2. InHand
  BY DEF Init, InHand, Pushing, Threads
<1>3. Occupied = {} /\ HeldItems = {} /\ GotItems = {}
  BY StateAssumption DEF Init, Occupied, HeldItems, GotItems
<1>4. PutItems = {}
  BY SizeAssumption DEF Init, PutItems, Published, Pushing, Threads, Items
<1>5. ExactlyOnce
  BY <1>3, <1>4 DEF ExactlyOnce, Init
<1> QED
  BY <1>1, <1>2, <1>3, <1>5 DEF IInv, Bag!Init

\* Every step preserves the invariant and is a step of BagChannel.
LEMMA Inductive == IInv /\ [Next]_vars => IInv' /\ [Bag!Next]_Bag!vars
<1> SUFFICES ASSUME IInv, [Next]_vars PROVE IInv' /\ [Bag!Next]_Bag!vars
  OBVIOUS
<1>1. TypeOK' /\ (Roles /\ Owned /\ NoRace)' /\ InHand'
  BY TypeStep, SlotStep, HandStep DEF IInv
<1>2. ExactlyOnce' /\ [Bag!Next]_Bag!vars
  <2>1. CASE \E p \in Producers : Publish(p)
    BY <2>1, PublishOnce DEF Bag!Next
  <2>2. CASE \E c \in Consumers : Release(c)
    BY <2>2, ReleaseOnce DEF Bag!Next
  <2>3. CASE /\ \A p \in Producers : ~Publish(p)
             /\ \A c \in Consumers : ~Release(c)
    BY <2>3, StillStep, StillOnce DEF IInv
  <2> QED
    BY <2>1, <2>2, <2>3
<1> QED
  BY <1>1, <1>2 DEF IInv, SlotInv

(* The plain memory of a slot is never touched by two threads at a time.   *)
THEOREM RaceFree == Spec => [](TypeOK /\ NoRace)
<1>1. IInv => TypeOK /\ NoRace
  BY DEF IInv, SlotInv
<1> QED
  BY Initially, Inductive, <1>1, PTL DEF Spec

(* Nothing that was pushed is lost, and nothing is returned twice.         *)
THEOREM Lossless == Spec => []ExactlyOnce
<1>1. IInv => ExactlyOnce
  BY DEF IInv
<1> QED
  BY Initially, Inductive, <1>1, PTL DEF Spec

(* The queue implements the bag, as far as safety goes.                    *)
THEOREM ImplementsBag == Spec => Bag!Safety
  BY Initially, Inductive, PTL DEF Spec, Bag!Safety
-----------------------------------------------------------------------------
(* The words count *)

\* The threads that wait with a ticket, and the slots that are not empty.
Claiming(T) == {t \in T : pc[t] = "claim"}
Busy        == {s \in Slots : state[s] \in {Storing, Stored, Loading}}
LoadingOnes == {s \in Slots : state[s] = Loading}

\* How many tickets each side has drawn, and where they came from.
Pushes == Total(pushed)
Pops   == Len(got) + Cardinality(LoadingOnes) + Cardinality(Claiming(Consumers))

Counted ==
  /\ IsFiniteSet(Units(pushed))
  /\ Pushes = Cardinality(Claiming(Producers)) + Cardinality(Busy) + Len(got)
  /\ \E o \in Origins :
       /\ head = (o + Pushes) % Wrap /\ tail = (o + Pops) % Wrap
       /\ \A p \in Producers : pc[p] \in {"check", "exchange"} =>
            \E k \in 0 .. Pushes : ticket[p] = (o + k) % Wrap
       /\ \A c \in Consumers : pc[c] \in {"check", "exchange"} =>
            \E k \in 0 .. Pops : ticket[c] = (o + k) % Wrap

CountInv == IInv /\ Counted

\* A set with one more element, and one with one less.
LEMMA OneMore ==
  ASSUME NEW S, IsFiniteSet(S), NEW x, x \notin S, NEW T, T = S \cup {x}
  PROVE  Cardinality(T) = Cardinality(S) + 1 /\ Cardinality(S) \in Nat
  BY FS_AddElement, FS_CardinalityType

\* A set with one less.
LEMMA OneLess ==
  ASSUME NEW S, IsFiniteSet(S), NEW x \in S, NEW T, T = S \ {x}
  PROVE  Cardinality(T) = Cardinality(S) - 1 /\ Cardinality(S) \in Nat
  BY FS_RemoveElement, FS_CardinalityType

\* What is counted is finite.
LEMMA AllFinite ==
  ASSUME FewTickets
  PROVE  /\ IsFiniteSet(Claiming(Producers)) /\ IsFiniteSet(Claiming(Consumers))
         /\ IsFiniteSet(Busy) /\ IsFiniteSet(LoadingOnes)
<1>1. IsFiniteSet(Slots)
  BY SizeAssumption, FS_Interval DEF Slots
<1> QED
  BY <1>1, FS_Subset DEF FewTickets, Claiming, Busy, LoadingOnes

\* The next ticket, counted from the origin.
LEMMA CountOn ==
  ASSUME NEW o \in Tickets, NEW n \in Nat
  PROVE  ((((o + n) % Wrap) + 1) % Wrap) = ((o + (n + 1)) % Wrap)
<1>1. Wrap \in Nat \ {0} /\ o \in Int
  BY WrapAssumption DEF Tickets
<1>2. PICK x \in Int : x = o + n /\ x + 1 = o + (n + 1)
  BY <1>1
<1>3. ((x % Wrap) + 1) % Wrap = (x + 1) % Wrap
  BY <1>1, 1 \in Int, RoundOn
<1> QED
  BY <1>2, <1>3

\* The difference of two words is that of their counts, if it is small.
LEMMA CountedDifference ==
  ASSUME NEW o \in Tickets, NEW m \in Nat, NEW n \in Nat,
         m - n < Wrap \div 2, n - m < Wrap \div 2
  PROVE  Signed(((o + m) % Wrap) - ((o + n) % Wrap)) = m - n
<1>1. Wrap \in Nat \ {0} /\ o \in Int
  BY WrapAssumption DEF Tickets
<1>2. PICK d \in Int : d = m - n
  OBVIOUS
<1>3. PICK h \in Int : h = Wrap \div 2 /\ h + h <= Wrap
  BY <1>1
<1>4. (((o + m) % Wrap) - ((o + n) % Wrap)) % Wrap = d % Wrap
  <2>1. PICK x \in Int, y \in Int : x = o + m /\ y = o + n /\ x - y = d
    BY <1>1, <1>2
  <2> QED
    BY <1>1, <2>1, StepsOn
<1>5. CASE d >= 0
  <2>1. d % Wrap = d
    BY <1>1, <1>2, <1>3, <1>5
  <2> QED
    BY <1>2, <1>3, <1>4, <2>1 DEF Signed
<1>6. CASE d < 0
  <2>1. (d + Wrap) % Wrap = d % Wrap
    <3>1. PICK x \in Int : x = d + Wrap /\ x - d = Wrap * 1
      BY <1>1
    <3>2. x % Wrap = d % Wrap
      BY <1>1, <3>1, 1 \in Int, SameRemainder, ZenonT(30)
    <3> QED
      BY <3>1, <3>2
  <2>2. PICK e \in Nat : e = d + Wrap /\ e < Wrap /\ e >= h
    BY <1>1, <1>2, <1>3, <1>6
  <2>3. e % Wrap = e
    BY <1>1, <2>2
  <2> QED
    BY <1>1, <1>2, <1>3, <1>4, <2>1, <2>2, <2>3 DEF Signed
<1> QED
  BY <1>5, <1>6
\* The counts when an item or a slot moves, and at the last load of a word.
LEMMA CountStep ==
  ASSUME FewTickets, CountInv, [Next]_vars, IInv'
  PROVE  Counted'
<1> USE ThreadAssumption, StateAssumption
        DEF CountInv, IInv, SlotInv, TypeOK, Roles, Owned, Threads, Step
<1>1. /\ IsFiniteSet(Claiming(Producers)) /\ IsFiniteSet(Claiming(Consumers))
      /\ IsFiniteSet(Busy) /\ IsFiniteSet(LoadingOnes)
  BY AllFinite
<1>2. \A t \in Threads : Slot(t) \in Slots
  BY TicketSlot DEF Slot
<1>3. /\ Pushes \in Nat /\ Pops \in Nat /\ Len(got) \in Nat
      /\ Cardinality(Busy) \in Nat /\ Cardinality(LoadingOnes) \in Nat
      /\ Cardinality(Claiming(Producers)) \in Nat /\ Cardinality(Claiming(Consumers)) \in Nat
  BY <1>1, FS_CardinalityType, SMTT(40) DEF Counted, Pushes, Pops, Total
<1>4. PICK o \in Origins :
       /\ head = (o + Pushes) % Wrap /\ tail = (o + Pops) % Wrap
       /\ \A p \in Producers : pc[p] \in {"check", "exchange"} =>
            \E k \in 0 .. Pushes : ticket[p] = (o + k) % Wrap
       /\ \A c \in Consumers : pc[c] \in {"check", "exchange"} =>
            \E k \in 0 .. Pops : ticket[c] = (o + k) % Wrap
  BY DEF Counted
<1>5. o \in Tickets /\ Pushes = Cardinality(Claiming(Producers)) + Cardinality(Busy) + Len(got)
  BY <1>4, WrapAssumption DEF Counted
<1>6. /\ ((head + 1) % Wrap) = ((o + (Pushes + 1)) % Wrap)
      /\ ((tail + 1) % Wrap) = ((o + (Pops + 1)) % Wrap)
  BY <1>3, <1>4, <1>5, CountOn
<1>7. ASSUME NEW p \in Producers, Push(p) \/ TryPushTake(p) PROVE Counted'
  <2>1. Claiming(Producers)' = Claiming(Producers) \cup {p} /\ p \notin Claiming(Producers)
    BY <1>7 DEF Push, TryPushTake, Claiming
  <2>2. Cardinality(Claiming(Producers)') = Cardinality(Claiming(Producers)) + 1
    BY <1>1, <2>1, OneMore
  <2>3. /\ Claiming(Consumers)' = Claiming(Consumers) /\ Busy' = Busy
        /\ LoadingOnes' = LoadingOnes /\ got' = got
    BY <1>7 DEF Push, TryPushTake, Claiming, Busy, LoadingOnes
  <2>4. IsFiniteSet(Units(pushed')) /\ Total(pushed') = Total(pushed) + pushed'[p] - pushed[p]
    <3>1. pushed \in [Producers -> Nat] /\ pushed' \in [Producers -> Nat]
          /\ \A q \in Producers : q # p => pushed'[q] = pushed[q]
      BY <1>7, SizeAssumption DEF Push, TryPushTake, Offer
    <3>2. IsFiniteSet(Units(pushed))
      BY DEF Counted
    <3> QED
      BY ONLY <3>1, <3>2, p \in Producers, TotalChange
  <2>5. Pushes' = Pushes + 1 /\ Pops' = Pops
    <3>1. pushed'[p] = pushed[p] + 1 /\ pushed[p] \in Nat
      BY <1>7, SizeAssumption DEF Push, TryPushTake, Offer
    <3> QED
      BY <1>3, <2>3, <2>4, <3>1 DEF Pushes, Pops
  <2>6. head' = ((o + (Pushes + 1)) % Wrap) /\ tail' = tail
    BY <1>6, <1>7 DEF Push, TryPushTake
  <2>7. /\ \A q \in Producers : pc'[q] \in {"check", "exchange"} =>
             pc[q] \in {"check", "exchange"} /\ ticket'[q] = ticket[q]
        /\ \A c \in Consumers : pc'[c] = pc[c] /\ ticket'[c] = ticket[c]
    BY <1>7 DEF Push, TryPushTake
  <2>8. \A k \in 0 .. Pushes : k \in 0 .. Pushes'
    BY <1>3, <2>5
  <2>9. Pushes' = Cardinality(Claiming(Producers)') + Cardinality(Busy') + Len(got')
    BY <1>3, <2>2, <2>3, <2>5, SMTT(30) DEF Counted
  <2>10. /\ \A q \in Producers : pc'[q] \in {"check", "exchange"} =>
              \E k \in 0 .. Pushes' : ticket'[q] = (o + k) % Wrap
         /\ \A c \in Consumers : pc'[c] \in {"check", "exchange"} =>
              \E k \in 0 .. Pops' : ticket'[c] = (o + k) % Wrap
    BY <1>4, <2>5, <2>7, <2>8
  <2> QED
    BY <1>4, <2>4, <2>5, <2>6, <2>9, <2>10 DEF Counted
<1>8. ASSUME NEW c \in Consumers, Pop(c) \/ TryPopTake(c) PROVE Counted'
  <2>1. Claiming(Consumers)' = Claiming(Consumers) \cup {c} /\ c \notin Claiming(Consumers)
    BY <1>8 DEF Pop, TryPopTake, Claiming
  <2>2. Cardinality(Claiming(Consumers)') = Cardinality(Claiming(Consumers)) + 1
    BY <1>1, <2>1, OneMore
  <2>3. /\ Claiming(Producers)' = Claiming(Producers) /\ Busy' = Busy
        /\ LoadingOnes' = LoadingOnes /\ got' = got /\ pushed' = pushed
    BY <1>8 DEF Pop, TryPopTake, Claiming, Busy, LoadingOnes
  <2>4. Pushes' = Pushes /\ Pops' = Pops + 1
    BY <1>3, <2>2, <2>3 DEF Pushes, Pops
  <2>5. tail' = ((o + (Pops + 1)) % Wrap) /\ head' = head
    BY <1>6, <1>8 DEF Pop, TryPopTake
  <2>6. /\ \A d \in Consumers : pc'[d] \in {"check", "exchange"} =>
             pc[d] \in {"check", "exchange"} /\ ticket'[d] = ticket[d]
        /\ \A p \in Producers : pc'[p] = pc[p] /\ ticket'[p] = ticket[p]
    BY <1>8 DEF Pop, TryPopTake
  <2>7. \A k \in 0 .. Pops : k \in 0 .. Pops'
    BY <1>3, <2>4
  <2>8. /\ \A p \in Producers : pc'[p] \in {"check", "exchange"} =>
              \E k \in 0 .. Pushes' : ticket'[p] = (o + k) % Wrap
        /\ \A d \in Consumers : pc'[d] \in {"check", "exchange"} =>
              \E k \in 0 .. Pops' : ticket'[d] = (o + k) % Wrap
    BY <1>4, <2>4, <2>6, <2>7
  <2> QED
    BY <1>4, <2>3, <2>4, <2>5, <2>8 DEF Counted
<1>9. ASSUME Pushes' = Pushes, Pops' = Pops, head' = head, tail' = tail, pushed' = pushed,
             Pushes' = Cardinality(Claiming(Producers)') + Cardinality(Busy') + Len(got'),
             \A p \in Producers : pc'[p] \in {"check", "exchange"} =>
               (pc[p] \in {"check", "exchange"} /\ ticket'[p] = ticket[p]) \/ ticket'[p] = head,
             \A c \in Consumers : pc'[c] \in {"check", "exchange"} =>
               (pc[c] \in {"check", "exchange"} /\ ticket'[c] = ticket[c]) \/ ticket'[c] = tail
      PROVE  Counted'
  <2>1. Pushes \in 0 .. Pushes /\ Pops \in 0 .. Pops
    BY <1>3
  <2>2. /\ \A p \in Producers : pc'[p] \in {"check", "exchange"} =>
              \E k \in 0 .. Pushes : ticket'[p] = (o + k) % Wrap
        /\ \A c \in Consumers : pc'[c] \in {"check", "exchange"} =>
              \E k \in 0 .. Pops : ticket'[c] = (o + k) % Wrap
    BY <1>4, <1>9, <2>1
  <2> QED
    BY <1>4, <1>9, <2>2 DEF Counted
<1>10. ASSUME NEW p \in Producers,
              TryPush(p) \/ TryPushFull(p) \/ TryPushRoom(p) \/ TryPushRetry(p) \/ Write(p)
       PROVE  Counted'
  <2>1. /\ Claiming(Producers)' = Claiming(Producers)
        /\ Claiming(Consumers)' = Claiming(Consumers) /\ Busy' = Busy
        /\ LoadingOnes' = LoadingOnes /\ UNCHANGED <<got, pushed, head, tail>>
    BY <1>10 DEF TryPush, TryPushFull, TryPushRoom, TryPushRetry, Write, Claiming, Busy,
                 LoadingOnes
  <2>2. /\ \A q \in Producers : pc'[q] \in {"check", "exchange"} =>
               (pc[q] \in {"check", "exchange"} /\ ticket'[q] = ticket[q]) \/ ticket'[q] = head
        /\ \A c \in Consumers : pc'[c] \in {"check", "exchange"} =>
               (pc[c] \in {"check", "exchange"} /\ ticket'[c] = ticket[c]) \/ ticket'[c] = tail
    BY <1>10 DEF TryPush, TryPushFull, TryPushRoom, TryPushRetry, Write
  <2>3. Pushes' = Pushes /\ Pops' = Pops
    BY <2>1 DEF Pushes, Pops
  <2> QED
    BY <1>9, <2>1, <2>2, <2>3 DEF Counted
<1>11. ASSUME NEW c \in Consumers,
              TryPop(c) \/ TryPopEmpty(c) \/ TryPopSome(c) \/ TryPopRetry(c) \/ Read(c)
       PROVE  Counted'
  <2>1. /\ Claiming(Producers)' = Claiming(Producers)
        /\ Claiming(Consumers)' = Claiming(Consumers) /\ Busy' = Busy
        /\ LoadingOnes' = LoadingOnes /\ UNCHANGED <<got, pushed, head, tail>>
    BY <1>11 DEF TryPop, TryPopEmpty, TryPopSome, TryPopRetry, Read, Claiming, Busy,
                 LoadingOnes
  <2>2. /\ \A q \in Producers : pc'[q] \in {"check", "exchange"} =>
               (pc[q] \in {"check", "exchange"} /\ ticket'[q] = ticket[q]) \/ ticket'[q] = head
        /\ \A d \in Consumers : pc'[d] \in {"check", "exchange"} =>
               (pc[d] \in {"check", "exchange"} /\ ticket'[d] = ticket[d]) \/ ticket'[d] = tail
    BY <1>11 DEF TryPop, TryPopEmpty, TryPopSome, TryPopRetry, Read
  <2>3. Pushes' = Pushes /\ Pops' = Pops
    BY <2>1 DEF Pushes, Pops
  <2> QED
    BY <1>9, <2>1, <2>2, <2>3 DEF Counted
<1>12. ASSUME NEW p \in Producers, Claim(p) PROVE Counted'
  <2>1. Claiming(Producers)' = Claiming(Producers) \ {p} /\ p \in Claiming(Producers)
    BY <1>12 DEF Claim, Claiming
  <2>2. Busy' = Busy \cup {Slot(p)} /\ Slot(p) \notin Busy /\ LoadingOnes' = LoadingOnes
    BY <1>2, <1>12 DEF Claim, Busy, LoadingOnes
  <2>3. /\ Cardinality(Claiming(Producers)') = Cardinality(Claiming(Producers)) - 1
        /\ Cardinality(Busy') = Cardinality(Busy) + 1
    BY <1>1, <2>1, <2>2, OneMore, OneLess
  <2>4. Claiming(Consumers)' = Claiming(Consumers) /\ UNCHANGED <<got, pushed, head, tail>>
    BY <1>12 DEF Claim, Claiming
  <2>5. Pushes' = Pushes /\ Pops' = Pops
    BY <2>2, <2>4 DEF Pushes, Pops
  <2>6. Pushes' = Cardinality(Claiming(Producers)') + Cardinality(Busy') + Len(got')
    BY <1>3, <2>3, <2>4, <2>5 DEF Counted
  <2>7. \A t \in Threads : pc'[t] \in {"check", "exchange"} =>
          pc[t] \in {"check", "exchange"} /\ ticket'[t] = ticket[t]
    BY <1>12 DEF Claim
  <2> QED
    BY <1>9, <2>4, <2>5, <2>6, <2>7
<1>13. ASSUME NEW p \in Producers, Publish(p) PROVE Counted'
  <2>1. state[Slot(p)] = Storing
    BY <1>13 DEF Publish, Inside
  <2>2. /\ Claiming(Producers)' = Claiming(Producers)
        /\ Claiming(Consumers)' = Claiming(Consumers) /\ Busy' = Busy
        /\ LoadingOnes' = LoadingOnes /\ UNCHANGED <<got, pushed, head, tail>>
    BY <1>2, <1>13, <2>1 DEF Publish, Claiming, Busy, LoadingOnes
  <2>3. Pushes' = Pushes /\ Pops' = Pops
    BY <2>2 DEF Pushes, Pops
  <2>4. \A t \in Threads : pc'[t] \in {"check", "exchange"} =>
          pc[t] \in {"check", "exchange"} /\ ticket'[t] = ticket[t]
    BY <1>13 DEF Publish
  <2> QED
    BY <1>9, <2>2, <2>3, <2>4 DEF Counted
<1>14. ASSUME NEW c \in Consumers, ClaimStored(c) PROVE Counted'
  <2>1. Claiming(Consumers)' = Claiming(Consumers) \ {c} /\ c \in Claiming(Consumers)
    BY <1>14 DEF ClaimStored, Claiming
  <2>2. LoadingOnes' = LoadingOnes \cup {Slot(c)} /\ Slot(c) \notin LoadingOnes /\ Busy' = Busy
    BY <1>2, <1>14 DEF ClaimStored, Busy, LoadingOnes
  <2>3. /\ Cardinality(Claiming(Consumers)') = Cardinality(Claiming(Consumers)) - 1
        /\ Cardinality(LoadingOnes') = Cardinality(LoadingOnes) + 1
    BY <1>1, <2>1, <2>2, OneMore, OneLess
  <2>4. Claiming(Producers)' = Claiming(Producers) /\ UNCHANGED <<got, pushed, head, tail>>
    BY <1>14 DEF ClaimStored, Claiming
  <2>5. Pushes' = Pushes /\ Pops' = Pops
    BY <1>3, <2>3, <2>4 DEF Pushes, Pops
  <2>6. Pushes' = Cardinality(Claiming(Producers)') + Cardinality(Busy') + Len(got')
    BY <2>2, <2>4, <2>5 DEF Counted
  <2>7. \A t \in Threads : pc'[t] \in {"check", "exchange"} =>
          pc[t] \in {"check", "exchange"} /\ ticket'[t] = ticket[t]
    BY <1>14 DEF ClaimStored
  <2> QED
    BY <1>9, <2>4, <2>5, <2>6, <2>7
<1>15. ASSUME NEW c \in Consumers, Release(c) PROVE Counted'
  <2>1. state[Slot(c)] = Loading
    BY <1>15 DEF Release, Inside
  <2>2. /\ LoadingOnes' = LoadingOnes \ {Slot(c)} /\ Slot(c) \in LoadingOnes
        /\ Busy' = Busy \ {Slot(c)} /\ Slot(c) \in Busy
    BY <1>2, <1>15, <2>1 DEF Release, Busy, LoadingOnes
  <2>3. /\ Cardinality(Busy') = Cardinality(Busy) - 1
        /\ Cardinality(LoadingOnes') = Cardinality(LoadingOnes) - 1
    BY <1>1, <2>2, OneLess
  <2>4. /\ Claiming(Producers)' = Claiming(Producers) /\ UNCHANGED <<pushed, head, tail>>
        /\ Claiming(Consumers)' = Claiming(Consumers)
    BY <1>15 DEF Release, Claiming
  <2>5. Len(got') = Len(got) + 1
    BY <1>15 DEF Release
  <2>6. Pushes' = Pushes /\ Pops' = Pops
    BY <1>3, <2>3, <2>4, <2>5 DEF Pushes, Pops
  <2>7. Pushes' = Cardinality(Claiming(Producers)') + Cardinality(Busy') + Len(got')
    BY <1>3, <1>5, <2>3, <2>4, <2>5, <2>6, SMTT(40)
  <2>8. \A t \in Threads : pc'[t] \in {"check", "exchange"} =>
          pc[t] \in {"check", "exchange"} /\ ticket'[t] = ticket[t]
    BY <1>15 DEF Release
  <2> QED
    BY <1>9, <2>4, <2>6, <2>7, <2>8
<1>16. CASE Exhausted \/ UNCHANGED vars
  <2>1. UNCHANGED vars
    BY <1>16 DEF Exhausted
  <2>2. /\ Claiming(Producers)' = Claiming(Producers)
        /\ Claiming(Consumers)' = Claiming(Consumers) /\ Busy' = Busy
        /\ LoadingOnes' = LoadingOnes
    BY <2>1 DEF vars, Claiming, Busy, LoadingOnes
  <2>3. Pushes' = Pushes /\ Pops' = Pops
    BY <2>1, <2>2 DEF vars, Pushes, Pops
  <2> QED
    BY <1>9, <2>1, <2>2, <2>3 DEF vars, Counted
<1> QED
  BY <1>7, <1>8, <1>10, <1>11, <1>12, <1>13, <1>14, <1>15, <1>16
  DEF Next, Producer, Consumer
\* The initial words have drawn no ticket yet.
LEMMA CountInit == FewTickets /\ Init => Counted
<1> SUFFICES ASSUME FewTickets, Init PROVE Counted
  OBVIOUS
<1>1. IsFiniteSet(Units(pushed)) /\ Pushes = 0
  <2>1. \A u \in DOMAIN pushed : pushed[u] = 0
    BY DEF Init
  <2> QED
    BY <2>1, TotalZero DEF Pushes
<1>2. /\ Claiming(Producers) = {} /\ Claiming(Consumers) = {}
      /\ Busy = {} /\ LoadingOnes = {}
  BY StateAssumption DEF Init, Claiming, Busy, LoadingOnes, Threads
<1>3. Len(got) = 0
  BY DEF Init
<1>4. Pops = 0 /\ Cardinality({}) = 0
  BY <1>2, <1>3, FS_EmptySet DEF Pops
<1>5. PICK o \in Origins : head = o /\ tail = o /\ o \in Nat /\ o < Wrap /\ Wrap \in Nat
  BY WrapAssumption DEF Init, Tickets
<1>6. (o + 0) % Wrap = o
  BY <1>5
<1>7. \A t \in Threads : pc[t] \notin {"check", "exchange"}
  BY DEF Init
<1> QED
  BY <1>1, <1>2, <1>3, <1>4, <1>5, <1>6, <1>7 DEF Counted, Threads

\* What the counts come to: the words differ by what is in the queue, and by
\* less than half their range.
LEMMA Counting ==
  ASSUME FewTickets, CountInv
  PROVE  /\ Pushes \in Nat /\ Pops \in Nat
         /\ Pushes < Wrap \div 2 /\ Pops < Wrap \div 2
         /\ Pushes - Pops =   Cardinality(Claiming(Producers))
                            + Cardinality({s \in Slots : state[s] \in {Storing, Stored}})
                            - Cardinality(Claiming(Consumers))
         /\ WasSize = Pushes - Pops
<1> DEFINE Full == {s \in Slots : state[s] \in {Storing, Stored}}
<1>1. /\ IsFiniteSet(Claiming(Producers)) /\ IsFiniteSet(Claiming(Consumers))
      /\ IsFiniteSet(Busy) /\ IsFiniteSet(LoadingOnes)
  BY AllFinite
<1>2. Cardinality(Busy) = Cardinality(LoadingOnes) + Cardinality(Full)
      /\ Cardinality(Full) \in Nat /\ Cardinality(LoadingOnes) \in Nat
  <2>1. Full = Busy \ LoadingOnes /\ Busy \cap LoadingOnes = LoadingOnes
    BY StateAssumption DEF Busy, LoadingOnes
  <2> HIDE DEF Full
  <2>2. IsFiniteSet(Full) /\ Cardinality(Full) = Cardinality(Busy) - Cardinality(LoadingOnes)
    <3>1. /\ IsFiniteSet(Busy \ LoadingOnes)
          /\ Cardinality(Busy \ LoadingOnes)
               = Cardinality(Busy) - Cardinality(Busy \cap LoadingOnes)
      BY <1>1, FS_Difference, Zenon
    <3> QED
      BY <2>1, <3>1
  <2>3. /\ Cardinality(Full) \in Nat /\ Cardinality(LoadingOnes) \in Nat
        /\ Cardinality(Busy) \in Nat
    BY <1>1, <2>2, FS_CardinalityType
  <2> QED
    BY <2>2, <2>3
<1>3. got \in Seq(Items) /\ pushed \in [Producers -> 0 .. MaxPush]
  BY DEF CountInv, IInv, SlotInv, TypeOK
<1>4. /\ Cardinality(Claiming(Producers)) \in Nat /\ Cardinality(Claiming(Consumers)) \in Nat
      /\ Len(got) \in Nat
  BY <1>1, <1>3, FS_CardinalityType
<1>5. Cardinality(Claiming(Consumers)) <= Cardinality(Consumers) /\ Cardinality(Consumers) \in Nat
  BY FS_Subset, FS_CardinalityType DEF FewTickets, Claiming
<1>6. Pushes \in Nat /\ Pushes <= Cardinality(Producers) * MaxPush
  BY <1>3, SizeAssumption, TotalBound DEF FewTickets, Pushes
<1>7. Pushes = Cardinality(Claiming(Producers)) + Cardinality(Busy) + Len(got)
  BY DEF CountInv, Counted
<1>8. PICK m \in Nat : m = Cardinality(Producers) * MaxPush /\ Wrap \in Nat
  BY SizeAssumption, WrapAssumption, FS_CardinalityType DEF FewTickets
<1>9. m + Cardinality(Consumers) < Wrap \div 2 /\ Pushes <= m
  BY <1>6, <1>8 DEF FewTickets
<1>10. Pops = Len(got) + Cardinality(LoadingOnes) + Cardinality(Claiming(Consumers))
  BY DEF Pops
<1>11. /\ Pops \in Nat /\ Pushes < Wrap \div 2 /\ Pops < Wrap \div 2
       /\ Pushes - Pops =   Cardinality(Claiming(Producers)) + Cardinality(Full)
                          - Cardinality(Claiming(Consumers))
  <2> HIDE DEF Full
  <2>1. PICK h \in Int : h = Wrap \div 2 /\ m + Cardinality(Consumers) < h
    BY <1>8, <1>9
  <2>2. Pops \in Nat
    BY <1>2, <1>4, <1>10
  <2>3. Pushes - Pops =   Cardinality(Claiming(Producers)) + Cardinality(Full)
                        - Cardinality(Claiming(Consumers))
    BY <1>2, <1>4, <1>7, <1>10
  <2>4. Pushes \in Nat /\ Pops <= Pushes + Cardinality(Consumers)
    BY <1>2, <1>4, <1>5, <1>6, <1>7, <1>10, SMTT(40)
  <2>5. Pushes < h /\ Pops < h
    BY <1>5, <1>9, <2>1, <2>2, <2>4
  <2> QED
    BY <2>1, <2>2, <2>3, <2>5
<1>12. PICK o \in Origins : head = (o + Pushes) % Wrap /\ tail = (o + Pops) % Wrap
  BY DEF CountInv, Counted
<1>13. o \in Tickets
  BY <1>12, WrapAssumption
<1>14. WasSize = Pushes - Pops
  <2>1. Pushes - Pops < Wrap \div 2 /\ Pops - Pushes < Wrap \div 2
    <3>1. PICK h \in Int : h = Wrap \div 2
      BY <1>8
    <3> QED
      BY <1>6, <1>11, <3>1
  <2>2. Signed(((o + Pushes) % Wrap) - ((o + Pops) % Wrap)) = Pushes - Pops
    BY ONLY <1>6, <1>11, <1>13, <2>1, CountedDifference
  <2> QED
    BY <1>12, <2>2 DEF WasSize
<1> QED
  BY <1>6, <1>11, <1>14

\* A thread that gives up: what it compared was the queue as it is, or was fuller
\* (for a pop, emptier) than it was when the thread loaded its first word.
LEMMA Refused ==
  ASSUME FewTickets, CountInv, [Next]_vars
  PROVE  /\ \A p \in Producers : GivesUp(p) => WasSize >= Size
         /\ \A c \in Consumers : GivesUp(c) => WasSize <= 0
<1> USE ThreadAssumption DEF Threads, Step
<1>1. pc \in [Threads -> {"idle", "check", "exchange", "claim", "write",
                         "publish", "read", "release"}]
  BY DEF CountInv, IInv, SlotInv, TypeOK
<1>2. /\ Pushes \in Nat /\ Pops \in Nat /\ Pushes < Wrap \div 2 /\ Pops < Wrap \div 2
      /\ WasSize = Pushes - Pops
  BY Counting
<1>3. PICK o \in Origins :
       /\ head = (o + Pushes) % Wrap /\ tail = (o + Pops) % Wrap
       /\ \A p \in Producers : pc[p] \in {"check", "exchange"} =>
            \E k \in 0 .. Pushes : ticket[p] = (o + k) % Wrap
       /\ \A c \in Consumers : pc[c] \in {"check", "exchange"} =>
            \E k \in 0 .. Pops : ticket[c] = (o + k) % Wrap
  BY DEF CountInv, Counted
<1>4. o \in Tickets /\ Size \in Nat
  BY <1>3, WrapAssumption, SizeAssumption
<1>5. PICK h \in Int : h = Wrap \div 2
  BY WrapAssumption
<1>6. ASSUME NEW p \in Producers, GivesUp(p) PROVE WasSize >= Size
  <2>1. Signed(ticket[p] - tail) >= Size /\ pc[p] = "check"
    <3>1. \/ TryPushFull(p) \/ pc'[p] = pc[p] \/ pc'[p] # "idle" \/ pc[p] # "check"
      BY <1>1 DEF Next, Producer, Consumer, Push, TryPush, TryPushFull, TryPushRoom,
         TryPushTake, TryPushRetry, Claim, Write, Publish, Pop, TryPop, TryPopEmpty,
         TryPopSome, TryPopTake, TryPopRetry, ClaimStored, Read, Release, Exhausted, vars
    <3> QED
      BY <1>6, <3>1 DEF GivesUp, TryPushFull
  <2>2. PICK k \in 0 .. Pushes : ticket[p] = (o + k) % Wrap
    BY <1>3, <2>1
  <2>3. k \in Nat /\ k - Pops < Wrap \div 2 /\ Pops - k < Wrap \div 2
    BY <1>2, <1>5, <2>2
  <2>4. Signed(((o + k) % Wrap) - ((o + Pops) % Wrap)) = k - Pops
    BY ONLY <1>2, <1>4, <2>3, CountedDifference
  <2>5. k - Pops >= Size
    BY <1>3, <2>1, <2>2, <2>4
  <2> QED
    BY <1>2, <1>4, <2>2, <2>3, <2>5
<1>7. ASSUME NEW c \in Consumers, GivesUp(c) PROVE WasSize <= 0
  <2>1. Signed(head - ticket[c]) <= 0 /\ pc[c] = "check"
    <3>1. \/ TryPopEmpty(c) \/ pc'[c] = pc[c] \/ pc'[c] # "idle" \/ pc[c] # "check"
      BY <1>1 DEF Next, Producer, Consumer, Push, TryPush, TryPushFull, TryPushRoom,
         TryPushTake, TryPushRetry, Claim, Write, Publish, Pop, TryPop, TryPopEmpty,
         TryPopSome, TryPopTake, TryPopRetry, ClaimStored, Read, Release, Exhausted, vars
    <3> QED
      BY <1>7, <3>1 DEF GivesUp, TryPopEmpty
  <2>2. PICK k \in 0 .. Pops : ticket[c] = (o + k) % Wrap
    BY <1>3, <2>1
  <2>3. k \in Nat /\ Pushes - k < Wrap \div 2 /\ k - Pushes < Wrap \div 2
    BY <1>2, <1>5, <2>2
  <2>4. Signed(((o + Pushes) % Wrap) - ((o + k) % Wrap)) = Pushes - k
    BY ONLY <1>2, <1>4, <2>3, CountedDifference
  <2>5. Pushes - k <= 0
    BY <1>3, <2>1, <2>2, <2>4
  <2> QED
    BY <1>2, <2>2, <2>3, <2>5
<1> QED
  BY <1>6, <1>7

\* The counts are kept by every step, and the refusals are honest.
LEMMA CountInductive == FewTickets /\ CountInv /\ [Next]_vars => CountInv'
  BY Inductive, CountStep DEF CountInv

(* Where the words do not move by half their range while a thread stands   *)
(* between its loads (FewTickets), their difference is what the queue holds,   *)
(* and a try_push or try_pop that gives up found the queue full or empty.      *)
THEOREM Honest == ASSUME FewTickets PROVE Spec => []Balance /\ HonestRefusal
<1>1. Init => CountInv
  BY Initially, CountInit DEF CountInv
<1>2. CountInv /\ [Next]_vars => CountInv'
  BY CountInductive
<1>3. CountInv => Balance
  BY Counting DEF Balance, Claiming
<1>4. CountInv /\ [Next]_vars =>
        [/\ \A p \in Producers : GivesUp(p) => WasSize >= Size
         /\ \A c \in Consumers : GivesUp(c) => WasSize <= 0]_vars
  BY Refused
<1> QED
  BY <1>1, <1>2, <1>3, <1>4, PTL DEF Spec, HonestRefusal
=============================================================================
