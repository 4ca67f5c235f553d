------------------------- MODULE LoopAtomic_proofs -------------------------
(***************************************************************************)
(* For any number of producers, any size of the queue and any frequency of *)
(* yields: the loop thread has one token, loses no request to yield, and   *)
(* serves each one after at most one more lambda, and no turn of the event *)
(* loop runs more lambdas than a bound.  Then, of what runs beside it: a   *)
(* pop of MpmcQueue gets the item of the push with its own ticket; the     *)
(* proxying test program writes to a call that has returned only where it  *)
(* announces it; the array under a spinlock and the deque under a mutex    *)
(* are queues; and no item of the queue of chains, which has no lock,      *)
(* overtakes an older one.                                                 *)
(***************************************************************************)
EXTENDS MCLoopAtomic, QueueLemmas

\* Where the loop thread is when it started a lambda after a request: past
\* that lambda, on its way back, and before another pop.
OnItsWay ==
  /\ ~owed => late = 0
  /\ late = 1 => loop \in {"load", "clear", "post"}

\* The part of the type invariant the argument needs.  How many lambdas are
\* queued, and what the producers count, play no part.
Types ==
  /\ yielding \in BOOLEAN /\ owed \in BOOLEAN /\ late \in Nat /\ msgs \in Nat
  /\ loop \in {"event", "load", "clear", "post", "pop"}

IInv == Types /\ OneToken /\ NoYieldLost /\ PromptYield /\ OnItsWay

\* At the start the loop has its one token.
LEMMA Initially == Init => IInv
<1> SUFFICES ASSUME Init PROVE IInv
  OBVIOUS
<1>1. yielding \in BOOLEAN /\ owed \in BOOLEAN /\ ~owed
  BY Zenon DEF Init
<1>2. late = 0 /\ msgs = 1 /\ loop = "event"
  BY Zenon DEF Init
<1> QED
  BY <1>1, <1>2 DEF IInv, Types, OneToken, NoYieldLost, PromptYield, OnItsWay

\* The strengthening is inductive.
LEMMA Inductive == IInv /\ [Next]_vars => IInv'
<1> SUFFICES ASSUME IInv, [Next]_vars PROVE IInv'
  OBVIOUS
<1> USE DEF IInv, Types, OneToken, NoYieldLost, PromptYield, OnItsWay
<1>1. ASSUME NEW p \in Producers, Push(p) PROVE IInv'
  BY <1>1 DEF Push, history
<1>2. ASSUME NEW p \in Producers, Tick(p) PROVE IInv'
  BY <1>2 DEF Tick, history
<1>3. ASSUME NEW p \in Producers, YieldToJS(p) PROVE IInv'
  BY <1>3 DEF YieldToJS
<1>4. CASE OnMessage
  BY <1>4 DEF OnMessage, history
<1>5. CASE LoadYielding
  \* With a lambda started since the request the flag is up, so the loop
  \* thread cannot go on to another pop.
  BY <1>5 DEF LoadYielding, history
<1>6. CASE Clear
  BY <1>6 DEF Clear, history
<1>7. CASE PostAndReturn
  <2>1. yielding' = yielding /\ owed' \in BOOLEAN /\ ~owed'
    BY <1>7, Zenon DEF PostAndReturn
  <2>2. /\ loop = "post" /\ msgs' = msgs + 1 /\ loop' = "event"
        /\ late' = 0
    BY <1>7, Zenon DEF PostAndReturn
  <2> QED
    BY <2>1, <2>2
<1>8. CASE PopAndRun
  <2>1. late = 0
    BY <1>8 DEF PopAndRun
  <2> QED
    BY <1>8, <2>1 DEF PopAndRun
<1>9. CASE UNCHANGED vars
  BY <1>9 DEF vars, history
<1> QED
  BY <1>1, <1>2, <1>3, <1>4, <1>5, <1>6, <1>7, <1>8, <1>9
     DEF Next, LoopThread, Producer

(* No request to yield is lost to the load and store of yielding.          *)
THEOREM YieldsKept == Spec => []NoYieldLost
<1>1. IInv => NoYieldLost
  BY DEF IInv
<1> QED
  BY Initially, Inductive, <1>1, PTL DEF Spec

(* After a request the loop thread starts at most one more lambda.         *)
THEOREM YieldsPrompt == Spec => []PromptYield
<1>1. IInv => PromptYield
  BY DEF IInv
<1> QED
  BY Initially, Inductive, <1>1, PTL DEF Spec

(* One message or one loop_atomic, never both and never neither.           *)
THEOREM Token == Spec => []OneToken
<1>1. IInv => OneToken
  BY DEF IInv
<1> QED
  BY Initially, Inductive, <1>1, PTL DEF Spec

-----------------------------------------------------------------------------
(* How much runs in one turn *)

\* How many lambdas a producer still pushes before it next asks for a turn.
Left ==
  [p \in Producers |->
     IF pc[p] = "push" THEN (IF tick[p] = 0 THEN 1 ELSE Freq - tick[p] + 1)
     ELSE IF pc[p] = "tick" /\ tick[p] # 0 THEN Freq - tick[p]
     ELSE 0]

Most == Size + Freq * Cardinality(Producers)

\* Unless somebody has asked for a turn, what has run, what is queued and what
\* is still to be pushed stay within the bound together.
Turn ==
  /\ ~owed => served + queued + Total(Left) <= Most
  /\ owed => served <= Most + late

TurnInv == IInv /\ TypeOK /\ Turn

\* The bounds are numbers.
LEMMA MostNat == /\ Cardinality(Producers) \in Nat /\ Most \in Nat /\ TurnBound = Most + 1
                 /\ Cardinality(Producers) * Freq \in Nat
                 /\ Cardinality(Producers) * Freq <= Most
                 /\ Most = Size + Cardinality(Producers) * Freq
<1>1. Cardinality(Producers) \in Nat
  BY LoopAssumption, FS_CardinalityType
<1>2. Freq * Cardinality(Producers) \in Nat /\ Freq * Cardinality(Producers) = Cardinality(Producers) * Freq
  BY <1>1, LoopAssumption
<1> QED
  BY <1>1, <1>2, LoopAssumption DEF Most, TurnBound

\* What the producers have left to push can be added up.
LEMMA LeftType ==
  TypeOK => /\ Left \in [Producers -> 0 .. Freq] /\ Left \in [Producers -> Nat]
            /\ IsFiniteSet(Units(Left)) /\ Total(Left) \in Nat
            /\ Total(Left) <= Cardinality(Producers) * Freq
<1> SUFFICES ASSUME TypeOK
             PROVE  /\ Left \in [Producers -> 0 .. Freq] /\ Left \in [Producers -> Nat]
                    /\ IsFiniteSet(Units(Left)) /\ Total(Left) \in Nat
                    /\ Total(Left) <= Cardinality(Producers) * Freq
  OBVIOUS
<1>1. Left \in [Producers -> 0 .. Freq] /\ Left \in [Producers -> Nat]
  BY LoopAssumption DEF Left, TypeOK
<1> QED
  BY <1>1, LoopAssumption, TotalBound

\* A step that leaves the other producers alone changes the sum by one's own part.
LEMMA LeftChange ==
  ASSUME TypeOK, TypeOK', NEW p \in Producers,
         \A r \in Producers \ {p} : pc'[r] = pc[r] /\ tick'[r] = tick[r]
  PROVE  /\ Total(Left) \in Nat /\ Left[p] \in Nat /\ Left'[p] \in Nat
         /\ Total(Left)' = Total(Left) + Left'[p] - Left[p]
<1>1. Left \in [Producers -> Nat] /\ IsFiniteSet(Units(Left))
  BY LeftType
<1>2. Left' \in [Producers -> Nat]
  BY LoopAssumption DEF Left, TypeOK
<1>3. \A r \in Producers : r # p => Left'[r] = Left[r]
  BY DEF Left
<1>4. Total(Left) \in Nat /\ Total(Left') = Total(Left) + Left'[p] - Left[p]
  BY <1>1, <1>2, <1>3, TotalChange
<1>5. Total(Left)' = Total(Left')
  BY DEF Total, Units
<1> QED
  BY <1>1, <1>2, <1>4, <1>5

\* It holds at the start.
LEMMA TurnInitially == Init => TurnInv
<1> SUFFICES ASSUME Init PROVE TurnInv
  OBVIOUS
<1>1. TypeOK
  <2>1. TurnBound + 1 \in Nat
    BY MostNat
  <2>2. /\ yielding \in BOOLEAN /\ owed \in BOOLEAN /\ queued = 0 /\ late = 0 /\ served = 0
        /\ pc = [p \in Producers |-> "push"] /\ tick = [p \in Producers |-> 0]
        /\ loop = "event" /\ msgs = 1
    BY Zenon DEF Init
  <2> QED
    BY <2>1, <2>2, LoopAssumption DEF TypeOK
<1>2. Turn
  <2>1. Total(Left) \in Nat /\ Total(Left) <= Most /\ Most \in Nat
    BY <1>1, LeftType, MostNat
  <2>2. served = 0 /\ queued = 0 /\ owed = FALSE
    BY DEF Init
  <2> QED
    BY <2>1, <2>2 DEF Turn
<1> QED
  BY <1>1, <1>2, Initially DEF TurnInv

\* And each step keeps it.
LEMMA TurnInductive == TurnInv /\ [Next]_vars => TurnInv'
<1> SUFFICES ASSUME TurnInv, [Next]_vars PROVE TurnInv'
  OBVIOUS
<1>1. IInv'
  BY Inductive DEF TurnInv
<1>2. /\ Most \in Nat /\ TurnBound = Most + 1 /\ Total(Left) \in Nat
      /\ queued \in Nat /\ served \in Nat /\ late \in Nat /\ late <= 1
  <2>1. Most \in Nat /\ TurnBound = Most + 1
    BY MostNat
  <2> QED
    BY <2>1, LeftType, LoopAssumption DEF TurnInv, TypeOK, IInv, Types, PromptYield
<1> DEFINE Goal == TypeOK' /\ Turn'
<1>3. ASSUME NEW p \in Producers, Push(p) PROVE Goal
  <2>1. TypeOK'
    BY <1>3, LoopAssumption DEF Push, history, TurnInv, TypeOK
  <2>2. Left'[p] = Left[p] - 1
    BY <1>3, LoopAssumption DEF Push, Left, TurnInv, TypeOK
  <2>3. Total(Left)' = Total(Left) - 1
    BY <1>2, <1>3, <2>1, <2>2, LeftChange DEF Push, TurnInv, TypeOK
  <2>4. queued' = queued + 1 /\ owed' = owed /\ late' = late /\ served' = served
    BY <1>3 DEF Push, history
  <2>5. Most' = Most
    BY DEF Most
  <2> QED
    BY <1>2, <2>1, <2>3, <2>4, <2>5 DEF TurnInv, Turn
<1>4. ASSUME NEW p \in Producers, Tick(p) PROVE Goal
  <2>1. tick[p] \in 0 .. Freq - 1 /\ (tick[p] + 1) % Freq = IF tick[p] + 1 = Freq THEN 0 ELSE tick[p] + 1
    BY LoopAssumption, NextRemainder DEF TurnInv, TypeOK
  <2> DEFINE k == (tick[p] + 1) % Freq
  <2>2. k \in 0 .. Freq - 1
    BY <2>1, LoopAssumption
  <2>3. /\ pc[p] = "tick" /\ tick' = [tick EXCEPT ![p] = k]
        /\ pc' = [pc EXCEPT ![p] = IF tick[p] = 0 THEN "yield" ELSE "push"]
        /\ UNCHANGED <<yielding, queued, loop, msgs, owed, late, served>>
    BY <1>4 DEF Tick, history
  <2> HIDE DEF k
  <2>4. TypeOK'
    BY <2>2, <2>3 DEF TurnInv, TypeOK
  <2>5. Left'[p] = Left[p]
    BY <2>1, <2>2, <2>3, LoopAssumption DEF k, Left, TurnInv, TypeOK
  <2>6. Total(Left)' = Total(Left)
    BY <1>2, <2>3, <2>4, <2>5, LeftChange DEF TurnInv, TypeOK
  <2>7. Most' = Most
    BY DEF Most
  <2> QED
    BY <1>2, <2>3, <2>4, <2>6, <2>7 DEF TurnInv, Turn
<1>5. ASSUME NEW p \in Producers, YieldToJS(p) PROVE Goal
  \* What is still to be pushed begins anew, but now somebody has asked.
  <2>1. TypeOK'
    BY <1>5 DEF YieldToJS, TurnInv, TypeOK
  <2>2. owed' = TRUE /\ late' = (IF owed THEN late ELSE 0) /\ served' = served /\ Most' = Most
    BY <1>5 DEF YieldToJS, Most
  <2> QED
    BY <1>2, <2>1, <2>2 DEF TurnInv, Turn, TypeOK
<1>6. ASSUME OnMessage \/ LoadYielding \/ Clear \/ UNCHANGED vars PROVE Goal
  <2>1. /\ UNCHANGED <<queued, pc, tick, owed, late, served>>
        /\ yielding' \in BOOLEAN
    BY <1>6 DEF OnMessage, LoadYielding, Clear, vars, producerVars, history, TurnInv, TypeOK
  <2>2. Total(Left)' = Total(Left) /\ Most' = Most
    BY <2>1 DEF Left, Total, Units, Most
  <2>3. TypeOK'
    BY <1>1, <2>1 DEF IInv, Types, TurnInv, TypeOK, TurnBound
  <2> QED
    BY <2>1, <2>2, <2>3 DEF TurnInv, Turn
<1>7. ASSUME PostAndReturn PROVE Goal
  <2>1. /\ UNCHANGED <<yielding, queued, pc, tick>> /\ owed' = FALSE /\ late' = 0 /\ served' = 0
    BY <1>7 DEF PostAndReturn, producerVars
  <2>2. Total(Left)' = Total(Left) /\ Most' = Most
    BY <2>1 DEF Left, Total, Units, Most
  <2>3. Total(Left) <= Cardinality(Producers) * Freq /\ Most = Size + Cardinality(Producers) * Freq
        /\ Cardinality(Producers) * Freq <= Most
    BY LeftType, MostNat DEF TurnInv
  <2>4. queued <= Size /\ Cardinality(Producers) * Freq \in Nat
    BY MostNat, LoopAssumption DEF TurnInv, TypeOK
  <2>5. Turn'
    BY <1>2, <2>1, <2>2, <2>3, <2>4, LoopAssumption DEF Turn
  <2>6. TypeOK'
    BY <1>1, <1>2, <2>1 DEF IInv, Types, TurnInv, TypeOK, TurnBound
  <2> QED
    BY <2>5, <2>6
<1>8. ASSUME PopAndRun PROVE Goal
  <2>1. /\ queued > 0 /\ queued' = queued - 1 /\ late = 0 /\ loop' = "load"
        /\ UNCHANGED <<yielding, pc, tick, msgs, owed>>
    BY <1>8 DEF PopAndRun, producerVars, TurnInv, IInv, OnItsWay, PromptYield, Types
  <2>2. Total(Left)' = Total(Left) /\ Most' = Most
    BY <2>1 DEF Left, Total, Units, Most
  <2>3. served <= Most
    BY <1>2, <2>1 DEF TurnInv, Turn, TypeOK
  <2>4. served' = served + 1 /\ late' = IF owed THEN 1 ELSE 0
    BY <1>2, <1>8, <2>1, <2>3 DEF PopAndRun
  <2>5. Turn'
    BY <1>2, <2>1, <2>2, <2>3, <2>4 DEF TurnInv, Turn, TypeOK
  <2>6. TypeOK'
    <3>1. queued' \in 0 .. Size /\ late' \in 0 .. 2 /\ served' \in 0 .. TurnBound + 1
      BY <1>2, <2>1, <2>3, <2>4, LoopAssumption DEF TurnInv, TypeOK
    <3> QED
      BY <2>1, <3>1 DEF TurnInv, TypeOK, TurnBound
  <2> QED
    BY <2>5, <2>6
<1>9. Goal
  BY <1>3, <1>4, <1>5, <1>6, <1>7, <1>8 DEF Next, LoopThread, Producer
<1> QED
  BY <1>1, <1>9 DEF TurnInv

(* However the requests of the producers fall, one turn of the event loop  *)
(* runs no more lambdas than the queue had when it began, than all         *)
(* producers push between two requests, and one more.                      *)
THEOREM TurnsBounded == Spec => [](TypeOK /\ BoundedTurn)
<1>1. TurnInv => TypeOK /\ BoundedTurn
  <2> SUFFICES ASSUME TurnInv PROVE BoundedTurn
    BY DEF TurnInv
  <2>1. /\ Most \in Nat /\ TurnBound = Most + 1 /\ Total(Left) \in Nat
        /\ queued \in Nat /\ served \in Nat /\ late \in Nat /\ late <= 1
    <3>1. Most \in Nat /\ TurnBound = Most + 1
      BY MostNat
    <3> QED
      BY <3>1, LeftType, LoopAssumption DEF TurnInv, TypeOK, IInv, Types, PromptYield
  <2> QED
    BY <2>1 DEF TurnInv, Turn, TypeOK, BoundedTurn
<1> QED
  BY TurnInitially, TurnInductive, <1>1, PTL DEF Spec

-----------------------------------------------------------------------------
(* rigtorp::mpmc::Queue, which may stand in for the loop's queue: each     *)
(* thread has its slot for itself, and a pop gets the item of the push     *)
(* that has drawn the same ticket.                                         *)

Sized == Capacity \in Nat \ {0}

(* The strengthening of OwnItem. *)

\* A thread with a ticket of its own, and threads of one side.
HasTicket(t)   == doing[t] \in {"wait", "inside", "leave"}
SameSide(t, u) == t \in Producers <=> u \in Producers

\* Tickets are drawn once; what was only loaded is not ahead of the counter.
Drawn ==
  /\ \A t \in Mpmc!Threads : HasTicket(t) => ticket[t] < Mpmc!Counter(t)
  /\ \A t, u \in Mpmc!Threads : HasTicket(t) /\ HasTicket(u) /\ SameSide(t, u) /\ ticket[t] = ticket[u] => t = u
  /\ \A t \in Mpmc!Threads : doing[t] \in {"try", "exchange", "reload"} => ticket[t] <= Mpmc!Counter(t)

\* Inside it is the thread's turn, and so it is for the ticket that is next if
\* it was when a thread has looked.
OnTurn ==
  /\ \A t \in Mpmc!Threads : Mpmc!Inside(t) => Mpmc!Ready(t, ticket[t])
  /\ \A t \in Mpmc!Threads : doing[t] = "exchange" /\ ticket[t] = Mpmc!Counter(t) => Mpmc!Ready(t, ticket[t])

\* What the turn says of a slot that nobody is leaving, and what one who does
\* has made of it.
Leaving(t, s) == doing[t] = "leave" /\ Mpmc!Idx(ticket[t]) = s
SlotContent ==
  /\ \A s \in 0 .. Capacity - 1 : (\A t \in Mpmc!Threads : ~ Leaving(t, s)) =>
       \A n \in Nat : Mpmc!Idx(n) = s =>
         /\ turns[s] = Mpmc!Turn(n) * 2 => storage[s] = Mpmc!NoItem
         /\ turns[s] = Mpmc!Turn(n) * 2 + 1 => storage[s] = n
  /\ \A t \in Mpmc!Threads : doing[t] = "leave" =>
       storage[Mpmc!Idx(ticket[t])] = IF t \in Producers THEN ticket[t] ELSE Mpmc!NoItem

Slots == Mpmc!TypeOK /\ Drawn /\ OnTurn /\ SlotContent

-----------------------------------------------------------------------------
(* Tickets and turns *)

\* Every ticket has a slot and a turn.
LEMMA Place == ASSUME Sized, NEW n \in Nat
               PROVE  Mpmc!Idx(n) \in 0 .. Capacity - 1 /\ Mpmc!Turn(n) \in Nat
  BY DEF Sized, Mpmc!Idx, Mpmc!Turn

\* A ticket is told by its slot and its turn.
LEMMA Division == ASSUME Sized, NEW n \in Nat
                  PROVE  n = Capacity * Mpmc!Turn(n) + Mpmc!Idx(n)
  BY DEF Sized, Mpmc!Idx, Mpmc!Turn

\* A place and a turn there are of one ticket.
LEMMA SameTicket ==
  ASSUME Sized, NEW n \in Nat, NEW m \in Nat, Mpmc!Idx(n) = Mpmc!Idx(m), Mpmc!Turn(n) = Mpmc!Turn(m)
  PROVE  n = m
  BY Division

\* Two threads whose turn it is at one slot are of one side and have one ticket.
LEMMA OneTurn ==
  ASSUME Sized, NEW t, NEW u, NEW n \in Nat, NEW m \in Nat,
         Mpmc!Ready(t, n), Mpmc!Ready(u, m), Mpmc!Idx(n) = Mpmc!Idx(m)
  PROVE  SameSide(t, u) /\ n = m
<1>1. Mpmc!Own(t, n) = Mpmc!Own(u, m)
  BY DEF Mpmc!Ready
<1>2. SameSide(t, u) /\ Mpmc!Turn(n) = Mpmc!Turn(m)
  BY <1>1, Place DEF Mpmc!Own, SameSide
<1> QED
  BY <1>2, SameTicket

\* So nobody else is inside the slot of a thread that is.
LEMMA Alone ==
  ASSUME Sized, Mpmc!TypeOK, Drawn, OnTurn, NEW t \in Mpmc!Threads, NEW u \in Mpmc!Threads,
         Mpmc!Inside(t), Mpmc!Inside(u), Mpmc!Idx(ticket[t]) = Mpmc!Idx(ticket[u])
  PROVE  t = u
<1>1. SameSide(t, u) /\ ticket[t] = ticket[u]
  BY OneTurn DEF OnTurn, Mpmc!TypeOK
<1> QED
  BY <1>1 DEF Drawn, HasTicket, Mpmc!Inside

-----------------------------------------------------------------------------
(* The steps *)

\* At the start every slot is empty.
LEMMA SlotStart == Sized /\ Mpmc!Init => Slots
<1> SUFFICES ASSUME Sized, Mpmc!Init PROVE Slots
  OBVIOUS
<1>1. Mpmc!TypeOK /\ Drawn /\ OnTurn
  BY DEF Sized, Mpmc!Init, Mpmc!TypeOK, Drawn, OnTurn, HasTicket, Mpmc!Inside
<1>2. SlotContent
  BY Place, SMTT(40) DEF Sized, Mpmc!Init, SlotContent, Leaving, Mpmc!NoItem
<1> QED
  BY <1>1, <1>2 DEF Slots

\* The types are kept.
LEMMA SlotTypes == ASSUME Sized, Mpmc!TypeOK, [Mpmc!Next]_Mpmc!mpmcvars PROVE Mpmc!TypeOK'
<1>1. ASSUME NEW t \in Mpmc!Threads, Mpmc!Draw(t) \/ Mpmc!Load(t) \/ Mpmc!Reload(t) PROVE Mpmc!TypeOK'
  <2>1. Mpmc!Counter(t) \in Nat /\ Mpmc!Counter(t) + 1 \in Nat
    BY DEF Mpmc!TypeOK, Mpmc!Counter
  <2>2. head' \in Nat /\ tail' \in Nat /\ UNCHANGED <<turns, storage>>
    BY <1>1 DEF Mpmc!TypeOK, Mpmc!Draw, Mpmc!Load, Mpmc!Reload, Mpmc!Advance
  <2>3. ticket' \in [Mpmc!Threads -> Nat]
    BY <1>1, <2>1 DEF Mpmc!TypeOK, Mpmc!Draw, Mpmc!Load, Mpmc!Reload
  <2> QED
    BY <1>1, <2>2, <2>3 DEF Mpmc!TypeOK, Mpmc!Draw, Mpmc!Load, Mpmc!Reload, Mpmc!Go
<1>2. ASSUME NEW t \in Mpmc!Threads, Mpmc!Enter(t) \/ Mpmc!Try(t) PROVE Mpmc!TypeOK'
  BY <1>2 DEF Mpmc!TypeOK, Mpmc!Enter, Mpmc!Try, Mpmc!Go
<1>3. ASSUME NEW t \in Mpmc!Threads, Mpmc!Exchange(t) PROVE Mpmc!TypeOK'
  BY <1>3, SMTT(40) DEF Mpmc!TypeOK, Mpmc!Exchange, Mpmc!Go, Mpmc!Advance, Mpmc!Counter
<1>4. ASSUME NEW t \in Mpmc!Threads, Mpmc!Use(t) PROVE Mpmc!TypeOK'
  BY <1>4 DEF Mpmc!TypeOK, Mpmc!Use, Mpmc!Go
<1>5. ASSUME NEW t \in Mpmc!Threads, Mpmc!Leave(t) PROVE Mpmc!TypeOK'
  <2>1. Mpmc!Turn(ticket[t]) \in Nat
    BY Place DEF Mpmc!TypeOK
  <2>2. Mpmc!Own(t, ticket[t]) + 1 \in Nat
    BY <2>1 DEF Mpmc!Own
  <2> QED
    BY <1>5, <2>2 DEF Mpmc!TypeOK, Mpmc!Leave, Mpmc!Go
<1>6. CASE UNCHANGED Mpmc!mpmcvars
  BY <1>6 DEF Mpmc!TypeOK, Mpmc!mpmcvars
<1> QED
  BY <1>1, <1>2, <1>3, <1>4, <1>5, <1>6 DEF Mpmc!Next, Mpmc!Over, Mpmc!Running

\* A ticket is drawn at the counter, which is above all that are held.
LEMMA Draws == ASSUME Sized, Mpmc!TypeOK, Drawn, [Mpmc!Next]_Mpmc!mpmcvars PROVE Drawn'
<1>1. ASSUME NEW t \in Mpmc!Threads, Mpmc!Draw(t) PROVE Drawn'
  BY <1>1 DEF Mpmc!TypeOK, Drawn, Mpmc!Draw, Mpmc!Go, Mpmc!Advance, Mpmc!Counter, HasTicket, SameSide
<1>2. ASSUME NEW t \in Mpmc!Threads, Mpmc!Load(t) \/ Mpmc!Reload(t) PROVE Drawn'
  <2>1. UNCHANGED <<head, tail>> /\ \A u \in Mpmc!Threads : Mpmc!Counter(u) \in Nat
    BY <1>2 DEF Mpmc!Load, Mpmc!Reload, Mpmc!TypeOK, Mpmc!Counter
  <2>2. doing'[t] \in {"idle", "try"} /\ (doing'[t] = "try" => ticket'[t] = Mpmc!Counter(t))
    BY <1>2 DEF Mpmc!TypeOK, Mpmc!Load, Mpmc!Reload, Mpmc!Go
  <2>3. \A u \in Mpmc!Threads \ {t} : doing'[u] = doing[u] /\ ticket'[u] = ticket[u]
    BY <1>2 DEF Mpmc!TypeOK, Mpmc!Load, Mpmc!Reload, Mpmc!Go
  <2> QED
    BY <2>1, <2>2, <2>3 DEF Drawn, Mpmc!Counter, HasTicket, SameSide
<1>3. ASSUME NEW t \in Mpmc!Threads, Mpmc!Exchange(t) PROVE Drawn'
  <2>1. CASE Mpmc!Counter(t) = ticket[t]
    <3>1. doing' = [doing EXCEPT ![t] = "inside"] /\ UNCHANGED ticket /\ Mpmc!Advance(t)
      BY <1>3, <2>1 DEF Mpmc!Exchange, Mpmc!Go
    <3>2. doing[t] = "exchange" /\ \A u \in Mpmc!Threads : ticket[u] \in Nat
      BY <1>3, <2>1 DEF Mpmc!Exchange, Mpmc!Go, Mpmc!TypeOK
    <3>3. \A u \in Mpmc!Threads : /\ Mpmc!Counter(u)' \in Nat /\ Mpmc!Counter(u) \in Nat
                                  /\ Mpmc!Counter(u)' >= Mpmc!Counter(u)
                                  /\ SameSide(t, u) => Mpmc!Counter(u) = Mpmc!Counter(t) /\ Mpmc!Counter(u)' = Mpmc!Counter(u) + 1
      BY <3>1 DEF Mpmc!Advance, Mpmc!Counter, SameSide, Mpmc!TypeOK
    <3>4. \A u \in Mpmc!Threads \ {t} : doing'[u] = doing[u]
      BY <3>1 DEF Mpmc!TypeOK
    <3>5. HasTicket(t)' /\ doing'[t] = "inside"
      BY <3>1 DEF HasTicket, Mpmc!TypeOK
    <3>6. \A u \in Mpmc!Threads : HasTicket(u)' => ticket'[u] < Mpmc!Counter(u)'
      BY <2>1, <3>1, <3>2, <3>3, <3>4 DEF Drawn, HasTicket, SameSide
    <3>7. ASSUME NEW u \in Mpmc!Threads, NEW v \in Mpmc!Threads, HasTicket(u)', HasTicket(v)',
                 SameSide(u, v), ticket'[u] = ticket'[v]
          PROVE  u = v
      <4>1. CASE u # t /\ v # t
        BY <3>1, <3>4, <3>7, <4>1 DEF Drawn, HasTicket
      <4>2. ASSUME NEW w \in Mpmc!Threads, w # t, HasTicket(w)', SameSide(t, w) PROVE ticket[w] # ticket[t]
        <5>1. HasTicket(w)
          BY <3>4, <4>2 DEF HasTicket
        <5>2. ticket[w] < Mpmc!Counter(w) /\ Mpmc!Counter(w) = ticket[t]
          BY <2>1, <3>3, <4>2, <5>1 DEF Drawn
        <5> QED
          BY <3>2, <5>2
      <4> QED
        BY <3>1, <3>7, <4>1, <4>2 DEF SameSide
    <3>8. ASSUME NEW u \in Mpmc!Threads, doing'[u] \in {"try", "exchange", "reload"}
          PROVE  ticket'[u] <= Mpmc!Counter(u)'
      <4>1. ticket[u] <= Mpmc!Counter(u)
        BY <3>4, <3>5, <3>8 DEF Drawn
      <4> QED
        BY <3>1, <3>2, <3>3, <4>1
    <3> QED
      BY <3>6, <3>7, <3>8 DEF Drawn, SameSide
  <2>2. CASE Mpmc!Counter(t) # ticket[t]
    <3>1. UNCHANGED <<head, tail>> /\ \A u \in Mpmc!Threads : Mpmc!Counter(u) \in Nat
      BY <1>3, <2>2 DEF Mpmc!Exchange, Mpmc!TypeOK, Mpmc!Counter
    <3>2. doing'[t] = "try" /\ ticket'[t] = Mpmc!Counter(t)
      BY <1>3, <2>2 DEF Mpmc!TypeOK, Mpmc!Exchange, Mpmc!Go
    <3>3. \A u \in Mpmc!Threads \ {t} : doing'[u] = doing[u] /\ ticket'[u] = ticket[u]
      BY <1>3, <2>2 DEF Mpmc!TypeOK, Mpmc!Exchange, Mpmc!Go
    <3> QED
      BY <3>1, <3>2, <3>3 DEF Drawn, Mpmc!Counter, HasTicket, SameSide
  <2> QED
    BY <2>1, <2>2
<1>4. ASSUME NEW t \in Mpmc!Threads, Mpmc!Enter(t) \/ Mpmc!Try(t) \/ Mpmc!Use(t) PROVE Drawn'
  <2>1. UNCHANGED <<head, tail, ticket>>
    BY <1>4 DEF Mpmc!Enter, Mpmc!Try, Mpmc!Use
  <2>2. \A u \in Mpmc!Threads : HasTicket(u)' = HasTicket(u)
    BY <1>4 DEF Mpmc!TypeOK, Mpmc!Enter, Mpmc!Try, Mpmc!Use, Mpmc!Go, HasTicket
  <2>3. \A u \in Mpmc!Threads : doing'[u] \in {"try", "exchange", "reload"}
                           => doing[u] \in {"try", "exchange", "reload"}
    BY <1>4 DEF Mpmc!TypeOK, Mpmc!Enter, Mpmc!Try, Mpmc!Use, Mpmc!Go
  <2> QED
    BY <2>1, <2>2, <2>3 DEF Drawn, Mpmc!Counter, HasTicket, SameSide
<1>5. ASSUME NEW t \in Mpmc!Threads, Mpmc!Leave(t) PROVE Drawn'
  BY <1>5 DEF Mpmc!TypeOK, Drawn, Mpmc!Leave, Mpmc!Go, Mpmc!Counter, HasTicket, SameSide
<1>6. CASE UNCHANGED Mpmc!mpmcvars
  BY <1>6 DEF Drawn, Mpmc!mpmcvars, Mpmc!Counter, HasTicket, SameSide
<1> QED
  BY <1>1, <1>2, <1>3, <1>4, <1>5, <1>6 DEF Mpmc!Next, Mpmc!Over, Mpmc!Running

\* A turn changes only when the thread whose it is leaves.
LEMMA Turns == ASSUME Sized, Mpmc!TypeOK, Drawn, OnTurn, [Mpmc!Next]_Mpmc!mpmcvars PROVE OnTurn'
<1>1. ASSUME NEW t \in Mpmc!Threads, Mpmc!Draw(t) PROVE OnTurn'
  BY <1>1 DEF Mpmc!TypeOK, Drawn, OnTurn, Mpmc!Draw, Mpmc!Go, Mpmc!Advance, Mpmc!Counter, HasTicket, Mpmc!Inside, Mpmc!Ready, Mpmc!Own
<1>2. ASSUME NEW t \in Mpmc!Threads, Mpmc!Load(t) \/ Mpmc!Reload(t) PROVE OnTurn'
  BY <1>2, ZenonT(40) DEF Mpmc!TypeOK, OnTurn, Mpmc!Load, Mpmc!Reload, Mpmc!Go, Mpmc!Counter, Mpmc!Inside, Mpmc!Ready, Mpmc!Own
<1>3. ASSUME NEW t \in Mpmc!Threads, Mpmc!Exchange(t) PROVE OnTurn'
  <2>1. CASE Mpmc!Counter(t) = ticket[t]
    <3>1. doing' = [doing EXCEPT ![t] = "inside"] /\ UNCHANGED <<ticket, turns>> /\ Mpmc!Advance(t)
      BY <1>3, <2>1 DEF Mpmc!Exchange, Mpmc!Go
    <3>2. Mpmc!Ready(t, ticket[t])
      BY <1>3, <2>1 DEF Mpmc!Exchange, Mpmc!Go, OnTurn
    <3>3. \A u \in Mpmc!Threads \ {t} : doing'[u] = doing[u]
      BY <3>1 DEF Mpmc!TypeOK
    <3>4. \A u \in Mpmc!Threads : Mpmc!Ready(u, ticket[u])' = Mpmc!Ready(u, ticket[u])
      BY <3>1 DEF Mpmc!Ready, Mpmc!Own
    <3>5. ASSUME NEW u \in Mpmc!Threads, doing'[u] = "exchange", ticket'[u] = Mpmc!Counter(u)'
          PROVE  ticket[u] = Mpmc!Counter(u)
      <4>1. ticket[u] <= Mpmc!Counter(u) /\ Mpmc!Counter(u) <= Mpmc!Counter(u)' /\ ticket[u] \in Nat
            /\ Mpmc!Counter(u) \in Nat /\ Mpmc!Counter(u)' \in Nat
        BY <3>1, <3>3, <3>5 DEF Drawn, Mpmc!Advance, Mpmc!Counter, Mpmc!TypeOK
      <4> QED
        BY <3>1, <3>5, <4>1
    <3>6. doing'[t] = "inside"
      BY <3>1 DEF Mpmc!TypeOK
    <3> QED
      BY <3>1, <3>2, <3>3, <3>4, <3>5, <3>6 DEF OnTurn, Mpmc!Inside
  <2>2. CASE Mpmc!Counter(t) # ticket[t]
    BY <1>3, <2>2 DEF Mpmc!TypeOK, OnTurn, Mpmc!Exchange, Mpmc!Go, Mpmc!Counter, Mpmc!Inside, Mpmc!Ready, Mpmc!Own
  <2> QED
    BY <2>1, <2>2
<1>4. ASSUME NEW t \in Mpmc!Threads, Mpmc!Enter(t) \/ Mpmc!Try(t) \/ Mpmc!Use(t) PROVE OnTurn'
  BY <1>4, ZenonT(40) DEF Mpmc!TypeOK, OnTurn, Mpmc!Enter, Mpmc!Try, Mpmc!Use, Mpmc!Go, Mpmc!Counter, Mpmc!Inside, Mpmc!Ready, Mpmc!Own
<1>5. ASSUME NEW t \in Mpmc!Threads, Mpmc!Leave(t) PROVE OnTurn'
  <2>1. Mpmc!Inside(t) /\ Mpmc!Ready(t, ticket[t]) /\ HasTicket(t)
    BY <1>5 DEF Mpmc!Leave, Mpmc!Go, Mpmc!Inside, OnTurn, HasTicket
  <2>2. ASSUME NEW u \in Mpmc!Threads, u # t,
               Mpmc!Inside(u) \/ (doing[u] = "exchange" /\ ticket[u] = Mpmc!Counter(u))
        PROVE  Mpmc!Idx(ticket[u]) # Mpmc!Idx(ticket[t])
    <3>1. CASE Mpmc!Inside(u)
      BY <2>1, <2>2, <3>1, Alone
    <3>2. CASE doing[u] = "exchange" /\ ticket[u] = Mpmc!Counter(u)
      <4>1. SUFFICES ASSUME Mpmc!Idx(ticket[u]) = Mpmc!Idx(ticket[t]) PROVE FALSE
        OBVIOUS
      <4>2. Mpmc!Ready(u, ticket[u])
        BY <3>2 DEF OnTurn
      <4>3. SameSide(t, u) /\ ticket[t] = ticket[u]
        BY <2>1, <4>1, <4>2, OneTurn DEF Mpmc!TypeOK
      <4> QED
        BY <2>1, <3>2, <4>3 DEF Drawn, SameSide, Mpmc!Counter, Mpmc!TypeOK
    <3> QED
      BY <2>2, <3>1, <3>2
  <2>3. \A u \in Mpmc!Threads \ {t} : doing'[u] = doing[u] /\ ticket'[u] = ticket[u]
    BY <1>5 DEF Mpmc!Leave, Mpmc!Go, Mpmc!TypeOK
  <2>4. doing'[t] = "idle" /\ \A s \in 0 .. Capacity - 1 : s # Mpmc!Idx(ticket[t]) => turns'[s] = turns[s]
    BY <1>5 DEF Mpmc!Leave, Mpmc!Go, Mpmc!TypeOK
  <2>5. \A u \in Mpmc!Threads : Mpmc!Idx(ticket[u]) \in 0 .. Capacity - 1
    BY Place DEF Mpmc!TypeOK
  <2>6. UNCHANGED <<head, tail>>
    BY <1>5 DEF Mpmc!Leave
  <2> QED
    BY <2>2, <2>3, <2>4, <2>5, <2>6 DEF OnTurn, Mpmc!Inside, Mpmc!Ready, Mpmc!Own, Mpmc!Counter
<1>6. CASE UNCHANGED Mpmc!mpmcvars
  BY <1>6 DEF OnTurn, Mpmc!mpmcvars, Mpmc!Counter, Mpmc!Inside, Mpmc!Ready, Mpmc!Own
<1> QED
  BY <1>1, <1>2, <1>3, <1>4, <1>5, <1>6 DEF Mpmc!Next, Mpmc!Over, Mpmc!Running

\* A slot is filled and emptied by the thread inside, which then leaves it.
LEMMA SlotContents == ASSUME Sized, Slots, [Mpmc!Next]_Mpmc!mpmcvars PROVE SlotContent'
<1> USE DEF Slots
<1>1. ASSUME NEW t \in Mpmc!Threads,
             Mpmc!Draw(t) \/ Mpmc!Load(t) \/ Mpmc!Reload(t) \/ Mpmc!Enter(t) \/ Mpmc!Try(t) \/ Mpmc!Exchange(t)
      PROVE  SlotContent'
  <2>1. UNCHANGED <<turns, storage>>
    BY <1>1 DEF Mpmc!Draw, Mpmc!Load, Mpmc!Reload, Mpmc!Enter, Mpmc!Try, Mpmc!Exchange
  <2>2. doing[t] # "leave" /\ doing'[t] # "leave"
    BY <1>1 DEF Mpmc!Draw, Mpmc!Load, Mpmc!Reload, Mpmc!Enter, Mpmc!Try, Mpmc!Exchange, Mpmc!Go, Mpmc!TypeOK
  <2>3. \A u \in Mpmc!Threads \ {t} : doing'[u] = doing[u] /\ ticket'[u] = ticket[u]
    BY <1>1 DEF Mpmc!Draw, Mpmc!Load, Mpmc!Reload, Mpmc!Enter, Mpmc!Try, Mpmc!Exchange, Mpmc!Go, Mpmc!TypeOK
  <2> QED
    BY <2>1, <2>2, <2>3 DEF SlotContent, Leaving
<1>2. ASSUME NEW t \in Mpmc!Threads, Mpmc!Use(t) PROVE SlotContent'
  <2> DEFINE s == Mpmc!Idx(ticket[t])
  <2>1. s \in 0 .. Capacity - 1
    BY Place DEF Mpmc!TypeOK
  <2>2. doing' = [doing EXCEPT ![t] = "leave"] /\ UNCHANGED <<turns, ticket>>
    BY <1>2 DEF Mpmc!Use, Mpmc!Go
  <2>3. storage' = [storage EXCEPT ![s] = IF t \in Producers THEN ticket[t] ELSE Mpmc!NoItem]
    BY <1>2 DEF Mpmc!Use
  <2>4. \A u \in Mpmc!Threads : u # t /\ doing[u] = "leave" => Mpmc!Idx(ticket[u]) # s
    BY <1>2, Alone DEF Mpmc!Use, Mpmc!Go, Mpmc!Inside
  <2>5. \A u \in Mpmc!Threads : Mpmc!Idx(ticket[u]) \in 0 .. Capacity - 1
    BY Place DEF Mpmc!TypeOK
  <2>6. doing'[t] = "leave" /\ Mpmc!Idx(ticket'[t]) = s
    BY <2>2 DEF Mpmc!TypeOK
  <2> HIDE DEF s
  <2>7. ASSUME NEW r \in 0 .. Capacity - 1, \A u \in Mpmc!Threads : ~ Leaving(u, r)',
               NEW n \in Nat, Mpmc!Idx(n) = r
        PROVE  /\ turns'[r] = Mpmc!Turn(n) * 2 => storage'[r] = Mpmc!NoItem
               /\ turns'[r] = Mpmc!Turn(n) * 2 + 1 => storage'[r] = n
    <3>1. r # s
      <4>1. SUFFICES ASSUME r = s PROVE FALSE
        OBVIOUS
      <4> QED
        BY <2>6, <2>7, <4>1 DEF Leaving
    <3>2. \A u \in Mpmc!Threads : ~ Leaving(u, r)
      BY <1>2, <2>2, <2>7 DEF Leaving, Mpmc!TypeOK, Mpmc!Use, Mpmc!Go
    <3>3. turns'[r] = turns[r] /\ storage'[r] = storage[r]
      BY <2>2, <2>3, <3>1 DEF Mpmc!TypeOK
    <3> QED
      BY <2>7, <3>2, <3>3 DEF SlotContent
  <2>8. ASSUME NEW u \in Mpmc!Threads, doing'[u] = "leave"
        PROVE  storage'[Mpmc!Idx(ticket'[u])] = IF u \in Producers THEN ticket'[u] ELSE Mpmc!NoItem
    <3>1. CASE u = t
      BY <2>1, <2>2, <2>3, <3>1 DEF s, Mpmc!TypeOK
    <3>2. CASE u # t
      BY <2>2, <2>3, <2>4, <2>5, <2>8, <3>2 DEF SlotContent, Mpmc!TypeOK
    <3> QED
      BY <3>1, <3>2
  <2> QED
    BY <2>7, <2>8 DEF SlotContent
<1>3. ASSUME NEW t \in Mpmc!Threads, Mpmc!Leave(t) PROVE SlotContent'
  <2> DEFINE s == Mpmc!Idx(ticket[t])
  <2>1. s \in 0 .. Capacity - 1 /\ Mpmc!Turn(ticket[t]) \in Nat /\ ticket[t] \in Nat
    BY Place DEF Mpmc!TypeOK
  <2>2. /\ doing' = [doing EXCEPT ![t] = "idle"] /\ ticket' = [ticket EXCEPT ![t] = 0]
        /\ turns' = [turns EXCEPT ![s] = Mpmc!Own(t, ticket[t]) + 1] /\ UNCHANGED storage
    BY <1>3 DEF Mpmc!Leave, Mpmc!Go
  <2>3. storage[s] = IF t \in Producers THEN ticket[t] ELSE Mpmc!NoItem
    BY <1>3 DEF Mpmc!Leave, Mpmc!Go, SlotContent
  <2>4. \A u \in Mpmc!Threads : u # t /\ doing[u] = "leave" => Mpmc!Idx(ticket[u]) # s
    BY <1>3, Alone DEF Mpmc!Leave, Mpmc!Go, Mpmc!Inside
  <2> HIDE DEF s
  <2>5. ASSUME NEW r \in 0 .. Capacity - 1, \A u \in Mpmc!Threads : ~ Leaving(u, r)',
               NEW n \in Nat, Mpmc!Idx(n) = r
        PROVE  /\ turns'[r] = Mpmc!Turn(n) * 2 => storage'[r] = Mpmc!NoItem
               /\ turns'[r] = Mpmc!Turn(n) * 2 + 1 => storage'[r] = n
    <3>1. CASE r = s
      <4>1. turns'[r] = Mpmc!Own(t, ticket[t]) + 1 /\ Mpmc!Turn(n) \in Nat
        BY <2>1, <2>2, <2>5, <3>1, Place DEF Mpmc!TypeOK
      <4>2. CASE t \in Producers
        <5>1. turns'[r] = Mpmc!Turn(ticket[t]) * 2 + 1
          BY <4>1, <4>2 DEF Mpmc!Own
        <5>2. turns'[r] = Mpmc!Turn(n) * 2 + 1 => n = ticket[t]
          BY <2>1, <2>5, <3>1, <4>1, <5>1, SameTicket DEF s
        <5> QED
          BY <2>1, <2>2, <2>3, <3>1, <4>1, <4>2, <5>1, <5>2
      <4>3. CASE t \notin Producers
        BY <2>1, <2>2, <2>3, <3>1, <4>1, <4>3 DEF Mpmc!Own
      <4> QED
        BY <4>2, <4>3
    <3>2. CASE r # s
      <4>1. \A u \in Mpmc!Threads : ~ Leaving(u, r)
        BY <2>2, <2>5, <3>2 DEF Leaving, Mpmc!TypeOK, s
      <4>2. turns'[r] = turns[r] /\ storage'[r] = storage[r]
        BY <2>2, <3>2 DEF Mpmc!TypeOK
      <4> QED
        BY <2>5, <4>1, <4>2 DEF SlotContent
    <3> QED
      BY <3>1, <3>2
  <2>6. ASSUME NEW u \in Mpmc!Threads, doing'[u] = "leave"
        PROVE  storage'[Mpmc!Idx(ticket'[u])] = IF u \in Producers THEN ticket'[u] ELSE Mpmc!NoItem
    BY <2>2, <2>6 DEF SlotContent, Mpmc!TypeOK
  <2> QED
    BY <2>5, <2>6 DEF SlotContent
<1>4. CASE UNCHANGED Mpmc!mpmcvars
  BY <1>4 DEF SlotContent, Mpmc!mpmcvars, Leaving
<1> QED
  BY <1>1, <1>2, <1>3, <1>4 DEF Mpmc!Next, Mpmc!Over, Mpmc!Running

\* The strengthening is inductive.
LEMMA SlotStep == Sized /\ Slots /\ [Mpmc!Next]_Mpmc!mpmcvars => Slots'
  BY SlotTypes, Draws, Turns, SlotContents DEF Slots

\* Inside, a thread is alone, so the turn says what is in the slot.
LEMMA SlotImplied == Sized /\ Slots => Mpmc!OwnItem
<1> SUFFICES ASSUME Sized, Slots PROVE Mpmc!OwnItem
  OBVIOUS
<1>1. \A t, u \in Mpmc!Threads : t # u /\ Mpmc!Inside(t) /\ Mpmc!Inside(u) => Mpmc!Idx(ticket[t]) # Mpmc!Idx(ticket[u])
  BY Alone DEF Slots
<1>2. ASSUME NEW t \in Mpmc!Threads, doing[t] = "inside"
      PROVE  storage[Mpmc!Idx(ticket[t])] = IF t \in Producers THEN Mpmc!NoItem ELSE ticket[t]
  <2>1. \A u \in Mpmc!Threads : ~ Leaving(u, Mpmc!Idx(ticket[t]))
    BY <1>1, <1>2 DEF Leaving, Mpmc!Inside
  <2>2. turns[Mpmc!Idx(ticket[t])] = Mpmc!Own(t, ticket[t])
    BY <1>2 DEF Slots, OnTurn, Mpmc!Inside, Mpmc!Ready
  <2>3. Mpmc!Idx(ticket[t]) \in 0 .. Capacity - 1 /\ ticket[t] \in Nat
    BY Place DEF Slots, Mpmc!TypeOK
  <2> QED
    BY <2>1, <2>2, <2>3 DEF Slots, SlotContent, Mpmc!Own
<1> QED
  BY <1>1, <1>2 DEF Mpmc!OwnItem

-----------------------------------------------------------------------------
(* A thread of rigtorp::mpmc::Queue has the slot of its ticket for itself: *)
(* a push constructs in an empty slot, and a pop moves out the item of the *)
(* push with the same ticket, for any threads and any capacity.            *)
THEOREM TicketKept == ASSUME Sized PROVE Mpmc!Spec => []Mpmc!OwnItem
<1>1. Mpmc!Init => Slots
  BY SlotStart
<1>2. Slots /\ [Mpmc!Next]_Mpmc!mpmcvars => Slots'
  BY SlotStep
<1>3. Slots => Mpmc!OwnItem
  BY SlotImplied
<1> QED
  BY <1>1, <1>2, <1>3, PTL DEF Mpmc!Spec
-----------------------------------------------------------------------------
(* The test of the proxying queue: the asserts after its synchronous calls *)
(* hold in every interleaving, and no lambda writes the locals of a test   *)
(* function that has returned.                                             *)

To == Test!This.to

\* The lambda of the call the main thread is at has written x.
Written(x) ==
  /\ main \notin {"start", "call"} /\ queue[To] = <<>>
  /\ task[To] = call => x \notin todo[To]

ProxyTypes ==
  /\ call \in 1 .. 7 /\ i \in Nat
  /\ at \in [Test!Threads -> {"new", "test", "idle", "run", "return", "exited"}]
  /\ queue \in [Test!Threads -> Seq(1 .. 7)]
  /\ task \in [Test!Threads -> 0 .. 7]
  /\ todo \in [Test!Threads -> SUBSET {"i", "executor"}]
  /\ timer \subseteq 1 .. call /\ finished \subseteq 1 .. call

\* A lambda is in the queue of the thread it is for, or that thread runs it;
\* those of earlier calls have nothing left to write.
WithItsThread ==
  /\ \A t \in Test!Threads : queue[t] = <<>> \/ (queue[t] = <<call>> /\ t = To)
  /\ \A t \in Test!Threads : (task[t] = 0) <=> at[t] \notin {"run", "return"}
  /\ \A t \in Test!Threads : at[t] # "run" => todo[t] = {}
  /\ \A t \in Test!Threads : task[t] # 0 => task[t] <= call /\ Test!Calls[task[t]].to = t
  /\ \A t \in Test!Threads : task[t] # 0 /\ task[t] # call => todo[t] = {}
  /\ \A t \in Test!Threads : task[t] = call => queue[t] = <<>>

\* Before a call is made nobody has it; and the locals say what it has written.
Heard ==
  /\ main \in {"start", "call"} =>
       /\ call \notin timer \cup finished
       /\ \A t \in Test!Threads : queue[t] = <<>> /\ task[t] # call
       /\ call \in {1, 4, 6} => i = 0
  /\ (i = Test!This.i) <=> Written("i")
  /\ (executor = To) <=> Written("executor")
  /\ call \in timer \cup finished => Written("i") /\ Written("executor")

\* What the main thread waits for, and what it knows when it asserts.
Awaits ==
  /\ main = "start" => call = 1
  /\ main = "execute" => call = 1
  /\ main \in {"check", "sleep", "asleep"} => call \in {2, 3}
  /\ main = "wait" => call \in 4 .. 7
  /\ main = "assert" /\ call \notin {2, 3} => Written("i") /\ Written("executor")
  /\ main = "aborted" => call \in {2, 3}

ProxyInv == ProxyTypes /\ WithItsThread /\ Heard /\ Awaits

\* What the table of calls says that the argument needs.
LEMMA CallTable ==
  /\ Len(Test!Calls) = 7
  /\ \A k \in 1 .. 7 :
       /\ Test!Calls[k].to \in Test!Threads /\ Test!Calls[k].i \in 1 .. 3
       /\ Test!Calls[k].how = "async" <=> k \in 1 .. 3
       /\ Test!Calls[k].how \in {"async", "sync", "ctx"}
       /\ Test!Calls[k].to = "main" <=> k = 1
       /\ Test!Test(k) \in 1 .. 3 /\ Test!Calls[k].to # "none"
  /\ \A k \in 1 .. 6 :
       /\ Test!Test(k) = Test!Test(k + 1) =>
            /\ k + 1 \notin {1, 4, 6}
            /\ Test!Calls[k].i # Test!Calls[k + 1].i /\ Test!Calls[k].to # Test!Calls[k + 1].to
  BY SMT DEF Test!Calls, Test!Test, Test!Threads

\* What is known of a lambda that a thread has in hand.
LEMMA InHand ==
  ASSUME ProxyInv, NEW t \in Test!Threads, at[t] \in {"run", "return"}
  PROVE  /\ task[t] \in 1 .. call /\ call \in 1 .. 7 /\ Test!Calls[task[t]].to = t
         /\ task[t] = call => /\ t = To /\ queue[To] = <<>> /\ main \notin {"start", "call"}
<1>1. call \in 1 .. 7 /\ task[t] \in 0 .. 7
  BY DEF ProxyInv, ProxyTypes
<1>2. task[t] # 0 /\ task[t] <= call /\ Test!Calls[task[t]].to = t
  BY DEF ProxyInv, WithItsThread
<1>3. task[t] = call => t = To
  BY <1>2 DEF To, Test!This
<1>4. task[t] = call => queue[t] = <<>>
  BY DEF ProxyInv, WithItsThread
<1>5. task[t] = call => main \notin {"start", "call"}
  BY DEF ProxyInv, Heard
<1> QED
  BY <1>1, <1>2, <1>3, <1>4, <1>5

\* It holds before anything is proxied.
LEMMA ProxyInit == Test!Init => ProxyInv
<1> SUFFICES ASSUME Test!Init PROVE ProxyInv
  OBVIOUS
<1>1. ProxyTypes
  BY DEF Test!Init, ProxyTypes, Test!Threads
<1>2. WithItsThread
  BY DEF Test!Init, WithItsThread, Test!Threads
<1>3. Heard
  BY CallTable DEF Test!Init, Heard, Written, Test!This, To
<1>4. Awaits
  BY DEF Test!Init, Awaits
<1> QED
  BY <1>1, <1>2, <1>3, <1>4 DEF ProxyInv

\* A step of the main thread that makes no call and passes none.
LEMMA MainMoves ==
  ASSUME ProxyInv, main' # main,
         main \in {"start", "call"} <=> main' \in {"start", "call"},
         UNCHANGED <<call, i, executor, queue, at, task, todo, timer, finished>>, Awaits'
  PROVE  ProxyInv'
<1>1. ProxyTypes' /\ WithItsThread'
  BY DEF ProxyInv, ProxyTypes, WithItsThread, To, Test!This
<1>2. (Written("i") <=> Written("i")') /\ (Written("executor") <=> Written("executor")')
  BY DEF Written, To, Test!This
<1>3. Heard'
  BY <1>2 DEF ProxyInv, Heard, To, Test!This
<1> QED
  BY <1>1, <1>3 DEF ProxyInv

\* Enqueueing the lambda of the call.
LEMMA CallMade ==
  ASSUME ProxyInv, main = "call", main' \notin {"start", "call"}, Test!Enqueue(To), Awaits',
         UNCHANGED <<call, i, executor, at, task, todo, timer, finished>>
  PROVE  ProxyInv'
<1>1. To \in Test!Threads /\ call \in 1 .. 7 /\ To' = To /\ Test!This' = Test!This
  BY CallTable DEF ProxyInv, ProxyTypes, To, Test!This
<1>2. /\ queue[To] = <<>> /\ queue' = [queue EXCEPT ![To] = <<call>>]
      /\ \A t \in Test!Threads : t # To => queue[t] = <<>>
  <2>1. \A t \in Test!Threads : queue[t] = <<>> /\ task[t] # call
    BY DEF ProxyInv, Heard
  <2>2. Append(<<>>, call) = <<call>>
    OBVIOUS
  <2> QED
    BY <1>1, <2>1, <2>2 DEF Test!Enqueue
<1>3. ProxyTypes' /\ WithItsThread'
  <2>1. <<call>> \in Seq(1 .. 7)
    BY <1>1
  <2>2. ProxyTypes'
    BY <1>1, <1>2, <2>1 DEF ProxyInv, ProxyTypes
  <2>3. \A t \in Test!Threads : task[t] # call
    BY DEF ProxyInv, Heard
  <2> QED
    BY <1>1, <1>2, <2>2, <2>3 DEF ProxyInv, ProxyTypes, WithItsThread
<1>4. ~ Written("i") /\ ~ Written("i")' /\ ~ Written("executor") /\ ~ Written("executor")'
  <2>1. queue'[To] # <<>>
    BY <1>1, <1>2 DEF ProxyInv, ProxyTypes
  <2> QED
    BY <1>1, <2>1 DEF Written
<1>5. Heard'
  BY <1>1, <1>4 DEF ProxyInv, Heard
<1> QED
  BY <1>3, <1>5 DEF ProxyInv

\* Passing an assert: both writes have been done, and the next call is made
\* with locals that say nothing of it yet.
LEMMA AssertPassed ==
  ASSUME ProxyInv, main = "assert", i = Test!This.i, executor = To, Test!Advance,
         UNCHANGED <<queue, at, task, todo, timer, finished>>
  PROVE  ProxyInv'
<1>1. Written("i") /\ Written("executor") /\ call \in 1 .. 7 /\ To \in Test!Threads
  BY CallTable DEF ProxyInv, ProxyTypes, Heard, To, Test!This
<1>2. CASE call = 7
  <2>1. main' = "quit" /\ call' = call /\ UNCHANGED <<i, executor>>
    BY <1>2, CallTable DEF Test!Advance, Test!locals
  <2>2. Awaits'
    BY <2>1 DEF Awaits
  <2> QED
    BY <2>1, <2>2, MainMoves
<1>3. CASE call # 7
  <2>1. call \in 1 .. 6 /\ main' = "call" /\ call' = call + 1
    BY <1>1, <1>3, CallTable DEF Test!Advance
  <2>2. \A t \in Test!Threads : queue[t] = <<>> /\ todo[t] = {} /\ task[t] # call'
    <3>1. \A t \in Test!Threads : queue[t] = <<>>
      BY <1>1 DEF ProxyInv, WithItsThread, Written
    <3>2. \A t \in Test!Threads : task[t] # call'
      BY <2>1 DEF ProxyInv, WithItsThread, ProxyTypes
    <3>3. todo[To] \in SUBSET {"i", "executor"} /\ (task[To] = call => todo[To] = {})
      BY <1>1 DEF ProxyInv, ProxyTypes, Written
    <3>4. \A t \in Test!Threads : todo[t] = {}
      BY <1>1, <2>1, <3>3 DEF ProxyInv, WithItsThread, To, Test!This
    <3> QED
      BY <3>1, <3>2, <3>4
  <2>3. call' \in 1 .. 7 /\ call' \notin timer' \cup finished'
    BY <2>1 DEF ProxyInv, ProxyTypes
  <2>4. i' \in Nat /\ i' # Test!This'.i /\ executor' # To' /\ (call' \in {1, 4, 6} => i' = 0)
    <3>1. CASE Test!Test(call') = Test!Test(call)
      BY <2>1, <3>1, CallTable, ZenonT(40) DEF ProxyInv, ProxyTypes, Test!Advance, Test!locals, Test!This, To
    <3>2. CASE Test!Test(call') # Test!Test(call)
      BY <2>1, <3>2, CallTable DEF Test!Advance, Test!This, To
    <3> QED
      BY <3>1, <3>2
  <2>8. ProxyTypes'
    BY <2>1, <2>3, <2>4 DEF ProxyInv, ProxyTypes
  <2>5. WithItsThread'
    BY <2>1, <2>2 DEF ProxyInv, ProxyTypes, WithItsThread
  <2>6. Heard'
    BY <2>1, <2>2, <2>3, <2>4 DEF Heard, Written
  <2>7. Awaits'
    BY <2>1 DEF Awaits
  <2> QED
    BY <2>5, <2>6, <2>7, <2>8 DEF ProxyInv
<1> QED
  BY <1>2, <1>3

\* A thread that comes, goes or looks elsewhere, with no lambda in hand.
LEMMA ThreadMoves ==
  ASSUME ProxyInv, NEW t \in Test!Threads, NEW to \in {"test", "idle", "exited"},
         at[t] \notin {"run", "return"}, at' = [at EXCEPT ![t] = to], Awaits',
         main \in {"start", "call"} <=> main' \in {"start", "call"},
         UNCHANGED <<call, i, executor, queue, task, todo>>,
         \/ UNCHANGED <<timer, finished>>
         \/ timer' = {} /\ finished' = finished \cup timer
  PROVE  ProxyInv'
<1>1. ProxyTypes' /\ WithItsThread'
  BY DEF ProxyInv, ProxyTypes, WithItsThread, To, Test!This
<1>2. (Written("i") <=> Written("i")') /\ (Written("executor") <=> Written("executor")')
  BY DEF Written, To, Test!This
<1>3. timer' \cup finished' = timer \cup finished
  OBVIOUS
<1>4. Heard'
  BY <1>2, <1>3 DEF ProxyInv, Heard, To, Test!This
<1> QED
  BY <1>1, <1>4 DEF ProxyInv

\* The steps of a thread with its queue and a lambda.
LEMMA TakeStep == ASSUME ProxyInv, NEW t \in Test!Threads, Test!Take(t) PROVE ProxyInv'
<1>1. queue[t] = <<call>> /\ t = To /\ call \in 1 .. 7 /\ main \notin {"start", "call"}
  BY DEF ProxyInv, ProxyTypes, WithItsThread, Heard, Test!Take
<1>2. /\ at[t] = "idle" /\ at' = [at EXCEPT ![t] = "run"] /\ task' = [task EXCEPT ![t] = call]
      /\ queue' = [queue EXCEPT ![t] = <<>>] /\ todo' = [todo EXCEPT ![t] = {"i", "executor"}]
      /\ UNCHANGED <<main, call, i, executor, timer, finished>>
  BY <1>1 DEF Test!Take, Test!locals
<1>3. ProxyTypes'
  BY <1>1, <1>2 DEF ProxyInv, ProxyTypes
<1>4. ~ Written("i") /\ ~ Written("i")' /\ ~ Written("executor") /\ ~ Written("executor")'
  <2>1. <<call>> # <<>>
    OBVIOUS
  <2>2. task'[To'] = call' /\ todo'[To'] = {"i", "executor"}
    BY <1>1, <1>2 DEF To, Test!This, ProxyInv, ProxyTypes
  <2> QED
    BY <1>1, <2>1, <2>2 DEF Written
<1>6. To' = To /\ Test!This' = Test!This
  BY <1>2 DEF To, Test!This
<1>7. WithItsThread'
  <2>1. Test!Calls[call].to = t
    BY <1>1 DEF To, Test!This
  <2>2. /\ at'[t] = "run" /\ task'[t] = call /\ queue'[t] = <<>>
        /\ call # 0 /\ call <= call
    BY <1>1, <1>2 DEF ProxyInv, ProxyTypes
  <2>3. \A u \in Test!Threads \ {t} :
          at'[u] = at[u] /\ task'[u] = task[u] /\ queue'[u] = queue[u] /\ todo'[u] = todo[u]
    BY <1>2 DEF ProxyInv, ProxyTypes
  <2>4. call' = call
    BY <1>2
  <2> QED
    BY <1>6, <2>1, <2>2, <2>3, <2>4 DEF ProxyInv, WithItsThread
<1>8. Awaits'
  BY <1>2, <1>4 DEF ProxyInv, Awaits
<1>5. Heard'
  BY <1>1, <1>2, <1>4 DEF ProxyInv, Heard, To, Test!This
<1> QED
  BY <1>3, <1>5, <1>7, <1>8 DEF ProxyInv

\* The lambda of a call writes one of the test's two locals.
LEMMA WriteStep == ASSUME ProxyInv, NEW t \in Test!Threads, Test!Write(t) PROVE ProxyInv'
<1>1. PICK x \in {"i", "executor"} :
        /\ x \in todo[t] /\ todo' = [todo EXCEPT ![t] = @ \ {x}]
        /\ x = "i" => i' = Test!Calls[task[t]].i /\ executor' = executor
        /\ x = "executor" => executor' = t /\ i' = i
  BY DEF Test!Write
<1>2. at[t] = "run" /\ UNCHANGED <<main, call, queue, at, task, timer, finished>>
  BY DEF Test!Write
<1>3. task[t] = call /\ t = To /\ call \in 1 .. 7 /\ Test!This' = Test!This /\ To' = To
  BY <1>1, <1>2 DEF ProxyInv, ProxyTypes, WithItsThread, To, Test!This
<1>4. i' \in Nat
  <2>1. Test!Calls[task[t]].i \in 1 .. 3
    BY <1>3, CallTable
  <2>2. i \in Nat
    BY DEF ProxyInv, ProxyTypes
  <2> QED
    BY <1>1, <2>1, <2>2
<1>5. ProxyTypes' /\ WithItsThread'
  BY <1>1, <1>2, <1>3, <1>4 DEF ProxyInv, ProxyTypes, WithItsThread
<1>6. /\ main \notin {"start", "call"} /\ queue[To] = <<>>
  BY <1>2, <1>3, InHand
<1>7. todo'[To] = todo[To] \ {x} /\ todo[To] \subseteq {"i", "executor"}
  BY <1>1, <1>3 DEF ProxyInv, ProxyTypes
<1>8. ~ Written(x) /\ Written(x)' /\ \A y \in {"i", "executor"} \ {x} : Written(y)' <=> Written(y)
  BY <1>1, <1>2, <1>3, <1>6, <1>7 DEF Written
<1>9. /\ x = "i" => i' = Test!This.i /\ executor' = executor
      /\ x = "executor" => executor' = To /\ i' = i
  BY <1>1, <1>3 DEF Test!This
<1>10. ~ (Written("i") /\ Written("executor"))
  BY <1>8
<1>11. Heard'
  <2>1. /\ main' \notin {"start", "call"} /\ call' \notin timer' \cup finished'
    BY <1>2, <1>6, <1>10 DEF ProxyInv, Heard
  <2>2. (i' = Test!This'.i) <=> Written("i")'
    BY <1>3, <1>8, <1>9 DEF ProxyInv, Heard
  <2>3. (executor' = To') <=> Written("executor")'
    BY <1>3, <1>8, <1>9 DEF ProxyInv, Heard
  <2> QED
    BY <2>1, <2>2, <2>3 DEF Heard
<1>12. Awaits'
  BY <1>2, <1>8, <1>10 DEF ProxyInv, Awaits
<1> QED
  BY <1>5, <1>11, <1>12 DEF ProxyInv

\* Finishing, and returning from, a lambda that has written everything.
LEMMA EndStep ==
  ASSUME ProxyInv, NEW t \in Test!Threads, Test!Finish(t) \/ Test!Return(t) PROVE ProxyInv'
<1>1. /\ at[t] \in {"run", "return"} /\ todo[t] = {}
      /\ UNCHANGED <<call, i, executor, queue, todo>>
      /\ main' = main \/ (main = "asleep" /\ main' = "check")
  BY DEF ProxyInv, WithItsThread, Test!Finish, Test!Return, Test!locals
<1>2. /\ \/ at' = [at EXCEPT ![t] = "return"] /\ task' = task
         \/ at' = [at EXCEPT ![t] = "idle"] /\ task' = [task EXCEPT ![t] = 0]
      /\ at[t] = "return" => task'[t] = 0
  BY <1>1 DEF ProxyInv, ProxyTypes, Test!Finish, Test!Return
<1>3. /\ timer' \subseteq timer \cup {task[t]} /\ finished' \subseteq finished \cup {task[t]}
  BY DEF Test!Finish, Test!Return
<1>4. task[t] \in 1 .. call /\ call \in 1 .. 7 /\ Test!Calls[task[t]].to = t
  BY <1>1, InHand
<1>5. ProxyTypes'
  <2>1. timer' \subseteq 1 .. call /\ finished' \subseteq 1 .. call
    BY <1>3, <1>4 DEF ProxyInv, ProxyTypes
  <2>2. /\ at' \in [Test!Threads -> {"new", "test", "idle", "run", "return", "exited"}]
        /\ task' \in [Test!Threads -> 0 .. 7]
    <3>1. at \in [Test!Threads -> {"new", "test", "idle", "run", "return", "exited"}]
      BY DEF ProxyInv, ProxyTypes
    <3>2. task \in [Test!Threads -> 0 .. 7]
      BY DEF ProxyInv, ProxyTypes
    <3> QED
      BY <1>2, <3>1, <3>2
  <2> QED
    BY <1>1, <2>1, <2>2 DEF ProxyInv, ProxyTypes
<1>12. To' = To /\ Test!This' = Test!This
  BY <1>1 DEF To, Test!This
<1>6. WithItsThread'
  <2>1. \A u \in Test!Threads \ {t} : at'[u] = at[u] /\ task'[u] = task[u]
    BY <1>2 DEF ProxyInv, ProxyTypes
  <2>2. \/ at'[t] = "return" /\ task'[t] = task[t]
        \/ at'[t] = "idle" /\ task'[t] = 0
    BY <1>2 DEF ProxyInv, ProxyTypes
  <2> QED
    BY <1>1, <1>4, <1>12, <2>1, <2>2 DEF ProxyInv, WithItsThread
<1>7. task[t] = call => t = To /\ queue[To] = <<>> /\ main \notin {"start", "call"}
  BY <1>1, InHand
<1>8. \A x \in {"i", "executor"} : Written(x)' <=> Written(x)
  <2>1. task'[To] = task[To] \/ (To = t /\ task'[To] = 0)
    BY <1>2, <1>4, CallTable DEF ProxyInv, ProxyTypes, To, Test!This
  <2>2. main' \in {"start", "call"} <=> main \in {"start", "call"}
    BY <1>1
  <2>3. To = t => todo[To] = {}
    BY <1>1
  <2>4. call' = call /\ call # 0 /\ queue'[To] = queue[To] /\ todo'[To] = todo[To]
    BY <1>1, <1>4
  <2> QED
    BY <1>12, <2>1, <2>2, <2>3, <2>4 DEF Written
<1>9. task[t] = call => Written("i") /\ Written("executor")
  BY <1>1, <1>7 DEF Written
<1>10. Heard'
  <2>1. /\ Test!This' = Test!This /\ To' = To /\ \A u \in Test!Threads : task'[u] \in {0, task[u]}
    BY <1>1, <1>2 DEF Test!This, To, ProxyInv, ProxyTypes
  <2> QED
    BY <1>1, <1>3, <1>4, <1>7, <1>8, <1>9, <2>1 DEF ProxyInv, Heard
<1>11. Awaits'
  BY <1>1, <1>8 DEF ProxyInv, Awaits
<1> QED
  BY <1>5, <1>6, <1>10, <1>11 DEF ProxyInv

\* Every step of the three threads.
LEMMA ProxyStep == ProxyInv /\ [Test!Next]_testvars => ProxyInv'
<1> SUFFICES ASSUME ProxyInv, [Test!Next]_testvars PROVE ProxyInv'
  OBVIOUS
<1>1. ASSUME Test!Begun \/ Test!Executed \/ Test!Check \/ Test!Sleep \/ Test!Wake
             \/ Test!SyncReturns \/ Test!Quit \/ Test!Join
      PROVE  ProxyInv'
  <2>1. /\ main' # main /\ (main \in {"start", "call"} <=> main' \in {"start", "call"})
        /\ UNCHANGED <<call, i, executor, queue, at, task, todo, timer, finished>>
    BY <1>1 DEF Test!Begun, Test!Executed, Test!Check, Test!Sleep, Test!Wake, Test!SyncReturns,
                Test!Quit, Test!Join, Test!locals, Test!remote
  <2>2. (main' = "assert" /\ call \notin {2, 3}) => Written("i") /\ Written("executor")
    <3>1. CASE Test!Executed
      BY <1>1, <3>1, CallTable DEF Test!Executed, ProxyInv, Awaits, Heard, Written, WithItsThread, To, Test!This, Test!Threads
    <3>2. CASE Test!SyncReturns
      BY <3>2 DEF Test!SyncReturns, ProxyInv, Heard
    <3>3. CASE Test!Check
      BY <3>3 DEF Test!Check, ProxyInv, Awaits
    <3> QED
      BY <1>1, <3>1, <3>2, <3>3 DEF Test!Begun, Test!Sleep, Test!Wake, Test!Quit, Test!Join
  <2>3. (Written("i") <=> Written("i")') /\ (Written("executor") <=> Written("executor")')
    BY <2>1 DEF Written, To, Test!This
  <2>4. Awaits'
    BY <1>1, <2>1, <2>2, <2>3 DEF ProxyInv, Awaits, Test!Begun, Test!Executed, Test!Check, Test!Sleep, Test!Wake, Test!SyncReturns,
                Test!Quit, Test!Join
  <2> QED
    BY <2>1, <2>4, MainMoves
<1>2. ASSUME Test!ProxyAsync \/ Test!ProxySync PROVE ProxyInv'
  <2>1. /\ main = "call" /\ main' \notin {"start", "call"} /\ Test!Enqueue(To)
        /\ UNCHANGED <<call, i, executor, at, task, todo, timer, finished>>
    BY <1>2 DEF Test!ProxyAsync, Test!ProxySync, To, Test!locals
  <2>2. call \in 1 .. 7 /\ (call = 1 => i = 0)
    BY <2>1 DEF ProxyInv, ProxyTypes, Heard
  <2>3. Awaits'
    BY <1>2, <2>1, <2>2, CallTable DEF Awaits, Test!ProxyAsync, Test!ProxySync, Test!This
  <2> QED
    BY <2>1, <2>3, CallMade
<1>3. CASE Test!Assert
  <2>1. CASE i = Test!This.i /\ executor = To
    BY <1>3, <2>1, AssertPassed DEF Test!Assert, To, Test!remote
  <2>2. CASE ~ (i = Test!This.i /\ executor = To)
    <3>1. /\ main = "assert" /\ main' = "aborted"
          /\ UNCHANGED <<call, i, executor, queue, at, task, todo, timer, finished>>
      BY <1>3, <2>2 DEF Test!Assert, To, Test!remote, Test!locals
    <3>2. Awaits'
      BY <2>2, <3>1 DEF ProxyInv, Awaits, Heard
    <3> QED
      BY <3>1, <3>2, MainMoves
  <2> QED
    BY <2>1, <2>2
<1>4. ASSUME NEW t \in Test!Threads, Test!Execute(t) PROVE ProxyInv'
  BY <1>4, TakeStep, WriteStep, EndStep DEF Test!Execute
<1>5. CASE Test!Cancel
  <2>1. "returner" \in Test!Threads
    BY DEF Test!Threads
  <2>2. Awaits'
    BY <1>5 DEF Test!Cancel, Awaits
  <2> QED
    BY <1>5, <2>1, <2>2, ThreadMoves DEF Test!Cancel, Test!locals
<1>6. ASSUME Test!LooperTest \/ Test!LooperYield \/ Test!Begin \/ Test!Timer PROVE ProxyInv'
  <2>1. "returner" \in Test!Threads /\ "looper" \in Test!Threads
    BY DEF Test!Threads
  <2>2. UNCHANGED <<main, call, queue, task, todo, i, executor>>
    BY <1>6 DEF Test!LooperTest, Test!LooperYield, Test!Begin, Test!Timer, Test!locals
  <2>3. Awaits'
    BY <2>2 DEF ProxyInv, Awaits, Written, To, Test!This
  <2>4. CASE Test!LooperTest
    BY <2>1, <2>2, <2>3, <2>4, ThreadMoves DEF Test!LooperTest
  <2>5. CASE Test!LooperYield
    BY <2>1, <2>2, <2>3, <2>5, ThreadMoves DEF Test!LooperYield
  <2>6. CASE Test!Begin
    BY <2>1, <2>2, <2>3, <2>6, ThreadMoves DEF Test!Begin
  <2>7. CASE Test!Timer
    <3>1. at' = [at EXCEPT !["returner"] = "idle"]
      BY <2>7 DEF Test!Timer, ProxyInv, ProxyTypes
    <3> QED
      BY <2>1, <2>2, <2>3, <2>7, <3>1, ThreadMoves DEF Test!Timer
  <2> QED
    BY <1>6, <2>4, <2>5, <2>6, <2>7
<1>7. CASE UNCHANGED testvars
  BY <1>7 DEF testvars, ProxyInv, ProxyTypes, WithItsThread, Heard, Awaits, Written, To, Test!This
<1>8. Test!Threads = {"main", "looper", "returner"}
  BY DEF Test!Threads
<1> QED
  BY <1>1, <1>2, <1>3, <1>4, <1>5, <1>6, <1>7, <1>8
  DEF Test!Next, Test!Main, Test!Looper, Test!Returner, Test!Ended, Test!vars, testvars,
      Test!locals, Test!remote

(* Once the test function of a call has returned, its lambda has nothing   *)
(* left to write in the locals it refers to, in whatever order the threads *)
(* run and the two writes are seen: the assert that ends the call has seen *)
(* both.                                                                   *)
THEOREM NoLateWrite == AllSpec => []LateOnlyNotify
<1>1. AllInit => ProxyInv
  BY ProxyInit DEF AllInit
<1>2. ProxyInv /\ [AllNext]_<<program, vars, testvars, queues>> => ProxyInv'
  <2>1. [AllNext]_<<program, vars, testvars, queues>> => [Test!Next]_testvars
    BY DEF AllNext, testvars, queues
  <2> QED
    BY <2>1, ProxyStep
<1>3. ProxyInv => LateOnlyNotify
  BY DEF ProxyInv, WithItsThread, LateOnlyNotify, Test!LateOnlyNotify
<1> QED
  BY <1>1, <1>2, <1>3, PTL DEF AllSpec

(* The asserts after a synchronous call, and after the call to the main    *)
(* thread itself, hold in every interleaving.                              *)
THEOREM SyncAssertsHold == AllSpec => []Test!OnlyAsyncAborts
<1>1. AllInit => ProxyInv
  BY ProxyInit DEF AllInit
<1>2. ProxyInv /\ [AllNext]_<<program, vars, testvars, queues>> => ProxyInv'
  <2>1. [AllNext]_<<program, vars, testvars, queues>> => [Test!Next]_testvars
    BY DEF AllNext, testvars, queues
  <2> QED
    BY <2>1, ProxyStep
<1>3. ProxyInv => Test!OnlyAsyncAborts
  BY DEF ProxyInv, Awaits, Test!OnlyAsyncAborts
<1> QED
  BY <1>1, <1>2, <1>3, PTL DEF AllSpec
-----------------------------------------------------------------------------
(* The queue with a spinlock: the lock is held by one thread at a time,    *)
(* across the wrap of its tickets, and under it the queue is first in,     *)
(* first out, across the wrap of its indices.                              *)

\* The array divides the range of the words and is smaller, and there is a
\* ticket for every thread.
Locks ==
  /\ Places \in Nat \ {0} /\ Words \in Nat \ {0} /\ Words % Places = 0 /\ Places < Words
  /\ IsFiniteSet(Callers) /\ Cardinality(Callers) <= Words /\ Sendings \in Nat

Holds(t)  == place[t] \in {"locked", "pushed", "popped", "unlock"}
Drawers   == {t \in Callers : place[t] # "call"}
Before(t) == (mine[t] + Words - next) % Words   \* how many are before t

LockTypes ==
  /\ fair \in BOOLEAN /\ lock \in BOOLEAN
  /\ lastTicket \in 0 .. Words - 1 /\ next \in 0 .. Words - 1
  /\ place \in [Callers -> {"call", "locked", "pushed", "popped", "unlock"}
                           \cup (IF fair THEN {"spin"} ELSE {"exchange"})]
  /\ mine \in [Callers -> 0 .. Words - 1]

\* The tickets drawn and not given back are those from next_ to ticket_, and
\* the holder of the lock has the first of them.
Line ==
  fair =>
    /\ lastTicket = (next + Cardinality(Drawers)) % Words
    /\ \A t \in Drawers : Before(t) < Cardinality(Drawers)
    /\ \A t, u \in Drawers : mine[t] = mine[u] => t = u
    /\ \A t \in Callers : Holds(t) => mine[t] = next

\* The flag is up while a thread holds the lock, and only one does.
Flag ==
  ~ fair => /\ \A t \in Callers : Holds(t) => lock
            /\ \A t, u \in Callers : Holds(t) /\ Holds(u) => t = u

LockInv == LockTypes /\ Line /\ Flag

\* Whoever holds the lock is alone.
LEMMA HeldByOne == LockInv => \A t, u \in Callers : Holds(t) /\ Holds(u) => t = u
  BY DEF LockInv, LockTypes, Line, Flag, Holds, Drawers

\* The threads that have drawn a ticket are counted.
LEMMA DrawersCounted ==
  ASSUME Locks
  PROVE  /\ IsFiniteSet(Drawers) /\ Cardinality(Drawers) \in 0 .. Words
         /\ \A t \in Callers : t \notin Drawers => Cardinality(Drawers) < Words
<1>1. Drawers \subseteq Callers
  BY DEF Drawers
<1>2. IsFiniteSet(Drawers) /\ Cardinality(Drawers) <= Cardinality(Callers)
      /\ (Cardinality(Drawers) = Cardinality(Callers) => Drawers = Callers)
  BY <1>1, FS_Subset DEF Locks
<1>3. Cardinality(Drawers) \in Nat /\ Cardinality(Callers) \in Nat
  BY <1>2, FS_CardinalityType DEF Locks
<1> QED
  BY <1>2, <1>3 DEF Locks

\* At first nobody has the lock or a ticket.
LEMMA LockInit == Locks /\ Locked!Init => LockInv
<1> SUFFICES ASSUME Locks, Locked!Init PROVE LockInv
  OBVIOUS
<1>1. Drawers = {} /\ \A t \in Callers : ~ Holds(t)
  BY DEF Locked!Init, Drawers, Holds
<1>2. Cardinality(Drawers) = 0
  BY <1>1, FS_EmptySet
<1>3. lastTicket = next /\ next \in 0 .. Words - 1 /\ Words \in Nat \ {0}
  BY DEF Locked!Init, Locks
<1>4. (next + 0) % Words = next
  BY <1>3
<1>5. LockTypes
  <2>1. 0 \in 0 .. Words - 1
    BY <1>3
  <2>2. mine \in [Callers -> 0 .. Words - 1]
    BY <2>1 DEF Locked!Init
  <2>3. place \in [Callers -> {"call", "locked", "pushed", "popped", "unlock"}
                            \cup (IF fair THEN {"spin"} ELSE {"exchange"})]
    BY DEF Locked!Init
  <2> QED
    BY <1>3, <2>2, <2>3 DEF Locked!Init, LockTypes
<1> QED
  BY <1>1, <1>2, <1>3, <1>4, <1>5 DEF LockInv, Line, Flag

\* A ticket is drawn: the last of the line.
LEMMA LockDraw == ASSUME Locks, LockInv, NEW t \in Callers, Locked!DrawTicket(t) PROVE LockInv'
<1> USE DEF LockInv, LockTypes
<1>1. /\ fair /\ place[t] = "call" /\ place' = [place EXCEPT ![t] = "spin"]
      /\ lastTicket' = (lastTicket + 1) % Words /\ mine' = [mine EXCEPT ![t] = lastTicket]
      /\ UNCHANGED <<fair, next, lock>>
  BY DEF Locked!DrawTicket, Locked!Go, Locked!Plus
<1>2. Words \in Nat \ {0}
  BY DEF Locks
<1>3. (lastTicket + 1) % Words \in 0 .. Words - 1
  BY <1>2
<1>4. LockTypes'
  BY <1>1, <1>3
<1>5. t \notin Drawers /\ Drawers' = Drawers \cup {t}
  BY <1>1 DEF Drawers
<1>6. PICK d \in 0 .. Words - 1 : d = Cardinality(Drawers) /\ Cardinality(Drawers') = d + 1
  <2>1. IsFiniteSet(Drawers) /\ Cardinality(Drawers) \in 0 .. Words - 1
    BY <1>2, <1>5, DrawersCounted
  <2>2. Cardinality(Drawers \cup {t}) = Cardinality(Drawers) + 1
    BY <1>5, <2>1, FS_AddElement
  <2> QED
    BY <1>5, <2>1, <2>2
<1>7. lastTicket' = (next + (d + 1)) % Words
  <2>1. PICK x \in Int : x = next + d
    BY <1>6
  <2>2. ((x % Words) + 1) % Words = (x + 1) % Words
    BY ONLY <1>2, x \in Int, 1 \in Int, RoundOn
  <2>3. lastTicket = x % Words
    BY <1>1, <1>6, <2>1 DEF Line
  <2>4. x + 1 = next + (d + 1)
    BY <1>6, <2>1
  <2> QED
    BY <1>1, <2>2, <2>3, <2>4
<1>8. Before(t)' = d
  <2>1. PICK a \in 0 .. Words - 1, b \in 0 .. Words - 1 : a = next /\ b = lastTicket
    OBVIOUS
  <2>2. b = (a + d) % Words
    BY <1>1, <1>6, <2>1 DEF Line
  <2>3. (b + Words - a) % Words = d
    BY ONLY <1>2, <2>2, a \in 0 .. Words - 1, b \in 0 .. Words - 1, d \in 0 .. Words - 1, AheadBy
  <2>4. mine'[t] = b /\ next' = a
    BY <1>1, <2>1
  <2> QED
    BY <2>3, <2>4 DEF Before
<1>9. \A u \in Drawers : u # t /\ mine'[u] = mine[u] /\ Before(u)' = Before(u) /\ Before(u) < d
  <2> SUFFICES ASSUME NEW u \in Drawers
               PROVE  u # t /\ mine'[u] = mine[u] /\ Before(u)' = Before(u) /\ Before(u) < d
    OBVIOUS
  <2>1. u # t /\ u \in Callers
    BY <1>5 DEF Drawers
  <2>2. mine'[u] = mine[u]
    BY <1>1, <2>1
  <2>3. Before(u) < d
    BY <1>1, <1>6 DEF Line
  <2> QED
    BY <1>1, <2>1, <2>2, <2>3 DEF Before
<1>10. \A u \in Drawers : mine'[u] # mine'[t]
  <2> SUFFICES ASSUME NEW u \in Drawers, mine'[u] = mine'[t] PROVE FALSE
    OBVIOUS
  <2>1. Before(u)' = Before(t)'
    BY DEF Before
  <2>2. Before(u)' = Before(u) /\ Before(u) < d
    BY <1>9
  <2> QED
    BY <1>8, <2>1, <2>2
<1>11. \A u \in Callers : Holds(u)' => u # t /\ Holds(u) /\ mine'[u] = mine[u]
  BY <1>1 DEF Holds
<1>12. Line'
  <2>1. \A u \in Drawers' : Before(u)' < d + 1
    <3> SUFFICES ASSUME NEW u \in Drawers' PROVE Before(u)' < d + 1
      OBVIOUS
    <3>1. CASE u = t
      BY <1>8, <3>1
    <3>2. CASE u \in Drawers
      <4>1. Before(u) < d /\ Before(u)' = Before(u) /\ u \in Callers
        BY <1>9, <3>2 DEF Drawers
      <4>2. Before(u) \in Int
        BY <1>2, <4>1 DEF Before
      <4> QED
        BY <4>1, <4>2
    <3> QED
      BY <1>5, <3>1, <3>2
  <2>2. \A u, v \in Drawers' : mine'[u] = mine'[v] => u = v
    BY <1>1, <1>5, <1>9, <1>10 DEF Line
  <2>3. \A u \in Callers : Holds(u)' => mine'[u] = next'
    BY <1>1, <1>11 DEF Line
  <2> QED
    BY <1>1, <1>6, <1>7, <2>1, <2>2, <2>3 DEF Line
<1>13. Flag'
  BY <1>1 DEF Flag
<1> QED
  BY <1>4, <1>12, <1>13

\* The ticket of the lock's holder is given back: the line moves up.
LEMMA LockRelease ==
  ASSUME Locks, LockInv, fair, NEW t \in Callers, Locked!Unlock(t)
  PROVE  LockInv'
<1> USE DEF LockInv, LockTypes
<1>1. /\ place[t] = "unlock" /\ place' = [place EXCEPT ![t] = "call"]
      /\ next' = (mine[t] + 1) % Words /\ mine' = [mine EXCEPT ![t] = 0]
      /\ UNCHANGED <<fair, lastTicket, lock>>
  BY DEF Locked!Unlock, Locked!Go, Locked!Plus
<1>2. Words \in Nat \ {0}
  BY DEF Locks
<1>3. mine[t] = next /\ Holds(t) /\ t \in Drawers
  BY <1>1 DEF Line, Holds, Drawers
<1>4. LockTypes'
  <2>1. (mine[t] + 1) % Words \in 0 .. Words - 1 /\ 0 \in 0 .. Words - 1
    BY <1>2
  <2> QED
    BY <1>1, <2>1
<1>5. Drawers' = Drawers \ {t}
  BY <1>1 DEF Drawers
<1>6. PICK d \in 0 .. Words - 1 : Cardinality(Drawers) = d + 1 /\ Cardinality(Drawers') = d
  <2>1. IsFiniteSet(Drawers) /\ Cardinality(Drawers) \in 0 .. Words
    BY DrawersCounted
  <2>2. Cardinality(Drawers \ {t}) = Cardinality(Drawers) - 1
    BY <1>3, <2>1, FS_RemoveElement
  <2>3. Cardinality(Drawers \ {t}) \in Nat
    BY <2>1, FS_RemoveElement, FS_CardinalityType
  <2> QED
    BY <1>2, <1>5, <2>1, <2>2, <2>3
<1>7. next' = (next + 1) % Words /\ next' \in 0 .. Words - 1
  BY <1>1, <1>3, <1>4
<1>8. lastTicket' = (next' + d) % Words
  <2>1. PICK x \in Int : x = next + 1
    OBVIOUS
  <2>2. ((x % Words) + d) % Words = (x + d) % Words
    <3>1. d \in Int
      OBVIOUS
    <3> QED
      BY ONLY <1>2, <3>1, x \in Int, RoundOn
  <2>3. x + d = next + (d + 1)
    BY <1>6, <2>1
  <2>4. lastTicket = (next + (d + 1)) % Words
    BY <1>1, <1>6 DEF Line
  <2> QED
    BY <1>1, <1>7, <2>1, <2>2, <2>3, <2>4
<1>9. ASSUME NEW u \in Drawers, u # t PROVE Before(u)' < d /\ mine'[u] = mine[u]
  <2>1. u \in Callers /\ mine'[u] = mine[u] /\ mine[u] \in 0 .. Words - 1
    BY <1>1, <1>9 DEF Drawers
  <2>2. PICK a \in 0 .. Words - 1, b \in 0 .. Words - 1 : a = next /\ b = mine[u]
    BY <2>1
  <2>3. PICK k \in 0 .. Words - 1 : k = (b + Words - a) % Words /\ b = (a + k) % Words
    BY <1>2, HowFarAhead
  <2>4. k < d + 1
    BY <1>1, <1>6, <2>2, <2>3 DEF Line, Before
  <2>5. k # 0
    <3>1. SUFFICES ASSUME k = 0 PROVE FALSE
      OBVIOUS
    <3>2. b = a
      <4>1. (a + 0) % Words = a
        BY ONLY <1>2, a \in 0 .. Words - 1
      <4> QED
        BY ONLY <2>3, <3>1, <4>1
    <3>3. mine[u] = mine[t]
      BY <1>3, <2>2, <3>2
    <3> QED
      BY <1>1, <1>3, <1>9, <3>3 DEF Line
  <2>6. PICK x \in Int, j \in 0 .. Words - 1 : x = a + 1 /\ j = k - 1 /\ x + j = a + k
    <3>1. a \in Int /\ k \in Int /\ k - 1 \in 0 .. Words - 1
      BY ONLY <1>2, <2>5, a \in 0 .. Words - 1, k \in 0 .. Words - 1
    <3>2. a + 1 \in Int /\ (a + 1) + (k - 1) = a + k
      BY ONLY <3>1
    <3> QED
      BY ONLY <3>1, <3>2
  <2>7. ((x % Words) + j) % Words = (x + j) % Words
    <3>1. j \in Int
      OBVIOUS
    <3> QED
      BY ONLY <1>2, <3>1, x \in Int, RoundOn
  <2>8. PICK e \in 0 .. Words - 1 : e = next' /\ b = (e + j) % Words
    BY <1>7, <2>2, <2>3, <2>6, <2>7
  <2>9. (b + Words - e) % Words = j
    BY ONLY <1>2, <2>8, b \in 0 .. Words - 1, e \in 0 .. Words - 1, j \in 0 .. Words - 1, AheadBy
  <2>10. Before(u)' = j
    BY <2>1, <2>2, <2>8, <2>9 DEF Before
  <2> QED
    BY <2>1, <2>4, <2>6, <2>10
<1>10. \A u \in Callers : ~ Holds(u)'
  BY <1>1, <1>3, HeldByOne DEF Holds
<1>11. Line'
  <2>1. \A u \in Drawers' : u \in Drawers /\ u # t
    BY <1>5
  <2>2. \A u, v \in Drawers' : mine'[u] = mine'[v] => u = v
    BY <1>1, <1>9, <2>1 DEF Line
  <2> QED
    BY <1>1, <1>6, <1>8, <1>9, <1>10, <2>1, <2>2 DEF Line
<1>12. Flag'
  BY <1>1 DEF Flag
<1> QED
  BY <1>4, <1>11, <1>12

\* A thread goes on with the lock, or takes the first place of the line.
LEMMA LockStays ==
  ASSUME Locks, LockInv, UNCHANGED <<fair, lastTicket, next, lock, mine>>, NEW t \in Callers,
         NEW x \in {"locked", "pushed", "popped", "unlock"}, place' = [place EXCEPT ![t] = x],
         Holds(t) \/ (place[t] = "spin" /\ next = mine[t])
  PROVE  LockInv'
<1> USE DEF LockInv, LockTypes
<1>1. Drawers' = Drawers /\ t \in Drawers /\ \A u : Before(u)' = Before(u)
  BY DEF Drawers, Holds, Before
<1>2. \A u \in Callers : Holds(u)' <=> (Holds(u) \/ u = t)
  BY DEF Holds
<1>3. LockTypes'
  OBVIOUS
<1>4. Line'
  BY <1>1, <1>2 DEF Line
<1>5. Flag'
  BY <1>2 DEF Flag, Holds
<1> QED
  BY <1>3, <1>4, <1>5

\* Every step preserves the invariant of the lock.
LEMMA LockStep == Locks /\ LockInv /\ [Locked!Next]_Locked!spinvars => LockInv'
<1> SUFFICES ASSUME Locks, LockInv, [Locked!Next]_Locked!spinvars PROVE LockInv'
  OBVIOUS
<1>1. CASE UNCHANGED Locked!spinvars
  BY <1>1 DEF Locked!spinvars, Locked!lockvars, LockInv, LockTypes, Line, Flag, Drawers, Holds, Before
<1>2. CASE Locked!Over
  BY <1>2 DEF Locked!Over, Locked!spinvars, Locked!lockvars, LockInv, LockTypes, Line, Flag, Drawers, Holds, Before
<1>3. ASSUME NEW t \in Callers, Locked!DrawTicket(t) PROVE LockInv'
  BY <1>3, LockDraw
<1>4. ASSUME NEW t \in Callers, Locked!LooksFree(t) PROVE LockInv'
  <2>1. /\ ~ fair /\ place' = [place EXCEPT ![t] = "exchange"] /\ place[t] = "call"
        /\ UNCHANGED <<fair, lastTicket, next, lock, mine>>
    BY <1>4 DEF Locked!LooksFree, Locked!Go, Locked!lockvars
  <2>2. \A u \in Callers : Holds(u)' <=> Holds(u)
    BY <2>1 DEF Holds, LockInv, LockTypes
  <2> QED
    BY <2>1, <2>2 DEF LockInv, LockTypes, Line, Flag
<1>5. ASSUME NEW t \in Callers, Locked!MyTurn(t) PROVE LockInv'
  <2>1. /\ place' = [place EXCEPT ![t] = "locked"] /\ place[t] = "spin" /\ next = mine[t]
        /\ UNCHANGED <<fair, lastTicket, next, lock, mine>>
    BY <1>5 DEF Locked!MyTurn, Locked!Go, Locked!lockvars
  <2> QED
    BY <2>1, LockStays
<1>6. ASSUME NEW t \in Callers, Locked!Exchange(t) PROVE LockInv'
  <2>1. /\ place' = [place EXCEPT ![t] = IF lock THEN "call" ELSE "locked"]
        /\ place[t] = "exchange" /\ lock' = TRUE
        /\ UNCHANGED <<fair, lastTicket, next, mine>>
    BY <1>6 DEF Locked!Exchange, Locked!Go
  <2>2. ~ fair
    BY <2>1 DEF LockInv, LockTypes
  <2>3. LockTypes'
    BY <2>1 DEF LockInv, LockTypes
  <2>4. \A u \in Callers : Holds(u)' <=> (Holds(u) \/ (u = t /\ ~ lock))
    BY <2>1 DEF Holds, LockInv, LockTypes
  <2> QED
    BY <2>1, <2>2, <2>3, <2>4 DEF LockInv, Line, Flag
<1>7. ASSUME NEW t \in Callers, Locked!Unlock(t) PROVE LockInv'
  <2>1. CASE fair
    BY <1>7, <2>1, LockRelease
  <2>2. CASE ~ fair
    <3>1. /\ place' = [place EXCEPT ![t] = "call"] /\ place[t] = "unlock"
          /\ mine' = [mine EXCEPT ![t] = 0] /\ lock' = FALSE
          /\ UNCHANGED <<fair, lastTicket, next>>
      BY <1>7, <2>2 DEF Locked!Unlock, Locked!Go
    <3>2. \A u \in Callers : ~ Holds(u)'
      BY <3>1, HeldByOne DEF Holds, LockInv, LockTypes
    <3>3. 0 \in 0 .. Words - 1
      BY DEF Locks
    <3>4. LockTypes'
      BY <3>1, <3>3 DEF LockInv, LockTypes
    <3> QED
      BY <2>2, <3>1, <3>2, <3>4 DEF LockInv, Line, Flag
  <2> QED
    BY <2>1, <2>2
<1>8. ASSUME NEW t \in Callers,
             Locked!TryPush(t) \/ Locked!Pushed(t) \/ Locked!TryPop(t) \/ Locked!Popped(t)
      PROVE  LockInv'
  <2>1. UNCHANGED <<fair, lastTicket, next, lock, mine>>
    BY <1>8 DEF Locked!TryPush, Locked!Pushed, Locked!TryPop, Locked!Popped, Locked!lockvars
  <2>2. PICK x \in {"locked", "pushed", "popped", "unlock"} : place' = [place EXCEPT ![t] = x]
    BY <1>8 DEF Locked!TryPush, Locked!Pushed, Locked!TryPop, Locked!Popped, Locked!Go
  <2>3. Holds(t)
    BY <1>8 DEF Locked!TryPush, Locked!Pushed, Locked!TryPop, Locked!Popped, Locked!Go, Holds
  <2> QED
    BY <2>1, <2>2, <2>3, LockStays
<1> QED
  BY <1>1, <1>2, <1>3, <1>4, <1>5, <1>6, <1>7, <1>8 DEF Locked!Next, Locked!Inside

\* What is in the queue is in the cells from tail_ on.
Cell(k) == (first + k) % Places

ArrayTypes ==
  /\ first \in 0 .. Words - 1 /\ last \in 0 .. Words - 1
  /\ q \in [0 .. Places - 1 -> Nat] /\ sent \in Nat

\* The array is not overfull, and between the look at the indices and the
\* step of one of them nobody else has moved either.
ArrayInv ==
  /\ ArrayTypes /\ Locked!Count <= Places
  /\ \A t \in Callers : /\ place[t] = "pushed" =>
                             Locked!Count < Places /\ q[last % Places] = sent + 1 /\ sent < Sendings
                        /\ place[t] = "popped" => last # first

\* The count is how far head_ is ahead of tail_.
LEMMA CountAhead ==
  ASSUME Locks, ArrayTypes
  PROVE  /\ Locked!Count \in 0 .. Words - 1 /\ last = (first + Locked!Count) % Words
         /\ last % Places = Cell(Locked!Count)
<1>1. Words \in Nat \ {0} /\ Places \in Nat \ {0} /\ Words % Places = 0
  BY DEF Locks
<1>2. PICK a \in 0 .. Words - 1, b \in 0 .. Words - 1 : a = first /\ b = last
  BY DEF ArrayTypes
<1>3. PICK k \in 0 .. Words - 1 : k = (b + Words - a) % Words /\ b = (a + k) % Words
  <2>1. Words \in Nat \ {0}
    BY <1>1
  <2> QED
    BY ONLY <2>1, a \in 0 .. Words - 1, b \in 0 .. Words - 1, HowFarAhead
<1>4. Locked!Count = k
  <2>1. last - first + Words = b + Words - a
    BY <1>1, <1>2
  <2> QED
    BY <1>3, <2>1 DEF Locked!Count
<1>5. PICK x \in Int : x = a + k
  OBVIOUS
<1>6. (x % Words) % Places = x % Places
  BY ONLY <1>1, x \in Int, RemainderTwice
<1> QED
  BY <1>2, <1>3, <1>4, <1>5, <1>6 DEF Cell

\* A cell is one of the array, and near ones are different.
LEMMA CellsApart ==
  ASSUME Locks, ArrayTypes, NEW j \in Nat, NEW k \in Nat
  PROVE  Cell(k) \in 0 .. Places - 1 /\ (j < k /\ k < j + Places => Cell(j) # Cell(k))
<1>1. Places \in Nat \ {0}
  BY DEF Locks
<1>2. PICK x \in Int, y \in Int : x = first + j /\ y = first + k
  BY DEF ArrayTypes
<1>3. y % Places \in 0 .. Places - 1
  BY <1>1
<1>4. ASSUME j < k, k < j + Places, x % Places = y % Places PROVE FALSE
  <2>1. x - y < Places /\ y - x < Places /\ x # y
    BY <1>1, <1>2, <1>4 DEF ArrayTypes
  <2>2. x = y
    BY ONLY <1>1, <1>4, <2>1, x \in Int, y \in Int, NearAndSame
  <2> QED
    BY <2>1, <2>2
<1> QED
  BY <1>2, <1>3, <1>4 DEF Cell

\* The list in the array.
LEMMA InTheArray ==
  ASSUME Locks, ArrayTypes
  PROVE  /\ Locked!Count \in Nat
         /\ Locked!Content = [k \in 1 .. Locked!Count |-> q[Cell(k - 1)]]
         /\ Locked!Content \in [1 .. Locked!Count -> Nat]
<1>1. Locked!Count \in Nat
  BY CountAhead
<1>2. \A k \in 1 .. Locked!Count : first + k - 1 = first + (k - 1) /\ k - 1 \in Nat
  BY <1>1 DEF ArrayTypes
<1>3. Locked!Content = [k \in 1 .. Locked!Count |-> q[Cell(k - 1)]]
  BY <1>2 DEF Locked!Content, Cell
<1>4. \A k \in 1 .. Locked!Count : q[Cell(k - 1)] \in Nat
  BY <1>2, CellsApart DEF ArrayTypes
<1> QED
  BY <1>1, <1>3, <1>4

\* Nothing of the queue moves.
LEMMA ArrayStays ==
  ASSUME ArrayInv, UNCHANGED <<first, last, q, sent, out>>,
         \A t \in Callers : /\ place'[t] = "pushed" => place[t] = "pushed"
                            /\ place'[t] = "popped" => place[t] = "popped"
  PROVE  ArrayInv' /\ UNCHANGED <<Locked!Content, out>>
<1>1. Locked!Count' = Locked!Count
  BY DEF Locked!Count
<1>2. Locked!Content' = Locked!Content
  BY <1>1 DEF Locked!Content
<1> QED
  BY <1>1, <1>2 DEF ArrayInv, ArrayTypes

\* At first the array is empty.
LEMMA ArrayInit == Locks /\ Locked!Init => ArrayInv /\ Locked!Fifo!Init
<1> SUFFICES ASSUME Locks, Locked!Init PROVE ArrayInv /\ Locked!Fifo!Init
  OBVIOUS
<1>1. Words \in Nat \ {0} /\ Places \in Nat \ {0}
  BY DEF Locks
<1>2. first = Words - 1 /\ last = Words - 1 /\ q = [s \in 0 .. Places - 1 |-> 0] /\ sent = 0 /\ out = <<>>
      /\ \A t \in Callers : place[t] = "call"
  BY DEF Locked!Init
<1>3. ArrayTypes
  BY <1>1, <1>2 DEF ArrayTypes
<1>4. Locked!Count = 0
  <2>1. last - first + Words = Words
    BY <1>1, <1>2
  <2>2. Words % Words = 0
    BY <1>1
  <2> QED
    BY <2>1, <2>2 DEF Locked!Count
<1>5. Locked!Content = <<>>
  BY <1>4 DEF Locked!Content
<1> QED
  BY <1>1, <1>2, <1>3, <1>4, <1>5 DEF ArrayInv, Locked!Fifo!Init

\* try_push writes the item behind the list, where no item of it is.
LEMMA ArrayTryPush ==
  ASSUME Locks, LockInv, ArrayInv, NEW t \in Callers, Locked!TryPush(t)
  PROVE  ArrayInv' /\ UNCHANGED <<Locked!Content, out>>
<1> USE DEF ArrayInv, LockInv, LockTypes
<1>1. /\ sent < Sendings /\ place[t] = "locked" /\ UNCHANGED <<first, last, sent, out>>
      /\ place' = [place EXCEPT ![t] = IF Locked!Count < Places THEN "pushed" ELSE "unlock"]
      /\ q' = IF Locked!Count < Places THEN [q EXCEPT ![last % Places] = sent + 1] ELSE q
  BY DEF Locked!TryPush, Locked!Go
<1>2. CASE ~ Locked!Count < Places
  <2>1. q' = q /\ \A u \in Callers : /\ place'[u] = "pushed" => place[u] = "pushed"
                                     /\ place'[u] = "popped" => place[u] = "popped"
    BY <1>1, <1>2
  <2> QED
    BY <1>1, <2>1, ArrayStays
<1>3. CASE Locked!Count < Places
  <2>1. /\ Locked!Count \in Nat /\ last % Places = Cell(Locked!Count)
        /\ Cell(Locked!Count) \in 0 .. Places - 1
    BY CountAhead, CellsApart
  <2>2. q' = [q EXCEPT ![last % Places] = sent + 1] /\ place' = [place EXCEPT ![t] = "pushed"]
    BY <1>1, <1>3
  <2>3. ArrayTypes' /\ Locked!Count' = Locked!Count
    BY <1>1, <2>1, <2>2 DEF ArrayTypes, Locked!Count
  <2>4. q'[last % Places] = sent + 1
    BY <2>1, <2>2 DEF ArrayTypes
  <2>5. \A u \in Callers : u # t => place'[u] \notin {"pushed", "popped"}
    BY <1>1, <2>2, HeldByOne DEF Holds
  <2>6. ArrayInv'
    BY <1>1, <1>3, <2>2, <2>3, <2>4, <2>5
  <2>7. \A k \in 1 .. Locked!Count : q'[(first + k - 1) % Places] = q[(first + k - 1) % Places]
    <3> SUFFICES ASSUME NEW k \in 1 .. Locked!Count
                 PROVE  q'[(first + k - 1) % Places] = q[(first + k - 1) % Places]
      OBVIOUS
    <3>0. first \in Int /\ Places \in Nat
      BY DEF ArrayTypes, Locks
    <3>1. PICK j \in Nat : j = k - 1 /\ j < Locked!Count /\ Locked!Count < j + Places
                          /\ first + k - 1 = first + j
      <4>1. PICK m \in Nat : m = Locked!Count /\ m < Places /\ k \in 1 .. m
        BY <1>3, <2>1
      <4>2. k - 1 \in Nat /\ k - 1 < m /\ m < (k - 1) + Places /\ first + k - 1 = first + (k - 1)
        BY ONLY <3>0, <4>1, m \in Nat
      <4> QED
        BY <4>1, <4>2
    <3>2. Cell(j) # Cell(Locked!Count) /\ Cell(j) \in 0 .. Places - 1
      BY <2>1, <3>1, CellsApart
    <3>3. (first + k - 1) % Places = Cell(j)
      BY <3>1 DEF Cell
    <3> QED
      BY <2>1, <2>2, <3>2, <3>3 DEF ArrayTypes
  <2>8. Locked!Content' = Locked!Content
    <3>1. Locked!Content' = [k \in 1 .. Locked!Count' |-> q'[(first' + k - 1) % Places]]
      BY DEF Locked!Content
    <3> QED
      BY <1>1, <2>3, <2>7, <3>1 DEF Locked!Content
  <2> QED
    BY <1>1, <2>6, <2>8
<1> QED
  BY <1>2, <1>3

\* With the step of head_ the item is in the list, as its last.
LEMMA ArrayPushed ==
  ASSUME Locks, LockInv, ArrayInv, NEW t \in Callers, Locked!Pushed(t)
  PROVE  ArrayInv' /\ Locked!Fifo!Put
<1> USE DEF ArrayInv, LockInv, LockTypes
<1>1. /\ place[t] = "pushed" /\ place' = [place EXCEPT ![t] = "unlock"]
      /\ last' = (last + 1) % Words /\ sent' = sent + 1 /\ UNCHANGED <<first, q, out>>
  BY DEF Locked!Pushed, Locked!Go, Locked!Plus
<1>2. Words \in Nat \ {0} /\ Places \in Nat \ {0} /\ Places < Words
  BY DEF Locks
<1>3. PICK m \in Nat : m = Locked!Count /\ m < Places /\ q[last % Places] = sent + 1 /\ sent < Sendings
  BY <1>1, CountAhead
<1>4. last = (first + m) % Words /\ last % Places = Cell(m)
  BY <1>3, CountAhead
<1>5. PICK a \in 0 .. Words - 1, b \in 0 .. Words - 1, k \in 0 .. Words - 1 :
        a = first /\ b = last' /\ k = m + 1 /\ b = (a + k) % Words
  <2>1. PICK x \in Int : x = first + m
    BY DEF ArrayTypes
  <2>2. ((x % Words) + 1) % Words = (x + 1) % Words
    BY ONLY <1>2, x \in Int, 1 \in Int, RoundOn
  <2>3. x + 1 = first + (m + 1)
    BY <2>1 DEF ArrayTypes
  <2>4. last' = (first + (m + 1)) % Words
    BY <1>1, <1>4, <2>1, <2>2, <2>3
  <2>5. last' \in 0 .. Words - 1
    BY <1>1, <1>2 DEF ArrayTypes
  <2>6. m + 1 \in 0 .. Words - 1 /\ first \in 0 .. Words - 1
    BY <1>2, <1>3 DEF ArrayTypes
  <2> QED
    BY <2>4, <2>5, <2>6
<1>6. Locked!Count' = m + 1
  <2>1. Words \in Nat \ {0}
    BY <1>2
  <2>2. (b + Words - a) % Words = k
    BY ONLY <2>1, <1>5, a \in 0 .. Words - 1, b \in 0 .. Words - 1, k \in 0 .. Words - 1, AheadBy
  <2>3. last' - first' + Words = b + Words - a
    BY <1>1, <1>2, <1>5
  <2> QED
    BY <1>5, <2>2, <2>3 DEF Locked!Count
<1>7. \A u \in Callers : place'[u] \notin {"pushed", "popped"}
  BY <1>1, HeldByOne DEF Holds
<1>8. ArrayTypes'
  BY <1>1, <1>5 DEF ArrayTypes
<1>9. ArrayInv'
  BY <1>2, <1>3, <1>6, <1>7, <1>8
<1>10. Locked!Content' = Append(Locked!Content, sent + 1)
  <2>1. Locked!Content \in [1 .. m -> Nat]
    BY <1>3, InTheArray
  <2>2. Locked!Content' = [j \in 1 .. m + 1 |-> q[(first + j - 1) % Places]]
    BY <1>1, <1>6 DEF Locked!Content
  <2>3. Locked!Content = [j \in 1 .. m |-> q[(first + j - 1) % Places]]
    BY <1>3 DEF Locked!Content
  <2>4. q[(first + (m + 1) - 1) % Places] = sent + 1
    <3>1. first + (m + 1) - 1 = first + m
      BY DEF ArrayTypes
    <3> QED
      BY <1>3, <1>4, <3>1 DEF Cell
  <2>5. Locked!Content' = [j \in 1 .. m + 1 |-> IF j = m + 1 THEN sent + 1 ELSE Locked!Content[j]]
    <3>1. \A j \in 1 .. m + 1 : j # m + 1 => j \in 1 .. m
      OBVIOUS
    <3> QED
      BY <2>2, <2>3, <2>4, <3>1
  <2>6. sent + 1 \in Nat
    BY DEF ArrayTypes
  <2> QED
    BY ONLY <2>1, <2>5, <2>6, m \in Nat, OneAtTheEnd
<1>11. sent + 1 \in 1 .. Sendings
  BY <1>3 DEF ArrayTypes, Locks
<1> QED
  BY <1>1, <1>9, <1>10, <1>11 DEF Locked!Fifo!Put

\* try_pop looks at the indices, and moves nothing.
LEMMA ArrayTryPop ==
  ASSUME LockInv, ArrayInv, NEW t \in Callers, Locked!TryPop(t)
  PROVE  ArrayInv' /\ UNCHANGED <<Locked!Content, out>>
<1> USE DEF ArrayInv, LockInv, LockTypes
<1>1. /\ place[t] = "locked" /\ UNCHANGED <<first, last, q, sent, out>>
      /\ place' = [place EXCEPT ![t] = IF last # first THEN "popped" ELSE "unlock"]
  BY DEF Locked!TryPop, Locked!Go, Locked!queuevars
<1>2. Locked!Count' = Locked!Count /\ Locked!Content' = Locked!Content
  BY <1>1 DEF Locked!Count, Locked!Content
<1>3. ArrayTypes'
  BY <1>1 DEF ArrayTypes
<1>4. \A u \in Callers : u # t => place'[u] \notin {"pushed", "popped"}
  BY <1>1, HeldByOne DEF Holds
<1>5. place'[t] # "pushed" /\ (place'[t] = "popped" => last # first)
  BY <1>1
<1> QED
  BY <1>1, <1>2, <1>3, <1>4, <1>5

\* With the step of tail_ the first of the list is taken.
LEMMA ArrayPopped ==
  ASSUME Locks, LockInv, ArrayInv, NEW t \in Callers, Locked!Popped(t)
  PROVE  ArrayInv' /\ Locked!Fifo!Get
<1> USE DEF ArrayInv, LockInv, LockTypes
<1>1. /\ place[t] = "popped" /\ place' = [place EXCEPT ![t] = "unlock"]
      /\ first' = (first + 1) % Words /\ out' = Append(out, q[first % Places])
      /\ UNCHANGED <<last, q, sent>>
  BY DEF Locked!Popped, Locked!Go, Locked!Plus
<1>2. Words \in Nat \ {0} /\ Places \in Nat \ {0} /\ Places < Words /\ Words % Places = 0
  BY DEF Locks
<1>3. Locked!Count # 0
  <2>1. SUFFICES ASSUME Locked!Count = 0 PROVE FALSE
    OBVIOUS
  <2>2. (first + 0) % Words = first
    <3>1. Words \in Nat \ {0} /\ first \in 0 .. Words - 1
      BY <1>2 DEF ArrayTypes
    <3> QED
      BY ONLY <3>1
  <2> QED
    BY <1>1, <2>1, <2>2, CountAhead
<1>4. PICK m \in Nat : Locked!Count = m + 1 /\ m + 1 <= Places
  <2>1. Locked!Count \in Nat
    BY CountAhead
  <2> QED
    BY <1>3, <2>1
<1>5. PICK x \in Int : x = first + 1
  BY DEF ArrayTypes
<1>6. PICK a \in 0 .. Words - 1, b \in 0 .. Words - 1, k \in 0 .. Words - 1 :
        a = first' /\ b = last /\ k = m /\ b = (a + k) % Words
  <2>1. ((x % Words) + m) % Words = (x + m) % Words
    <3>1. m \in Int /\ Words \in Nat \ {0}
      BY <1>2
    <3> QED
      BY ONLY <3>1, x \in Int, RoundOn
  <2>2. x + m = first + (m + 1)
    BY <1>5 DEF ArrayTypes
  <2>3. last = (first + (m + 1)) % Words
    BY <1>4, CountAhead
  <2>4. last = (first' + m) % Words
    BY <1>1, <1>5, <2>1, <2>2, <2>3
  <2>5. first' \in 0 .. Words - 1
    BY <1>1, <1>2 DEF ArrayTypes
  <2>6. m \in 0 .. Words - 1 /\ last \in 0 .. Words - 1
    BY <1>2, <1>4 DEF ArrayTypes
  <2> QED
    BY <2>4, <2>5, <2>6
<1>7. Locked!Count' = m
  <2>1. Words \in Nat \ {0}
    BY <1>2
  <2>2. (b + Words - a) % Words = k
    BY ONLY <2>1, <1>6, a \in 0 .. Words - 1, b \in 0 .. Words - 1, k \in 0 .. Words - 1, AheadBy
  <2>3. last' - first' + Words = b + Words - a
    BY <1>1, <1>2, <1>6
  <2> QED
    BY <1>6, <2>2, <2>3 DEF Locked!Count
<1>8. \A u \in Callers : place'[u] \notin {"pushed", "popped"}
  BY <1>1, HeldByOne DEF Holds
<1>9. ArrayTypes'
  BY <1>1, <1>6 DEF ArrayTypes
<1>10. ArrayInv'
  BY <1>2, <1>4, <1>7, <1>8, <1>9
<1>11. \A j \in 1 .. m : (first' + j - 1) % Places = (first + (j + 1) - 1) % Places
  <2> SUFFICES ASSUME NEW j \in 1 .. m
               PROVE  (first' + j - 1) % Places = (first + (j + 1) - 1) % Places
    OBVIOUS
  <2>1. PICK y \in Int : y = j - 1
    OBVIOUS
  <2>2. ((x % Words) + y) % Places = (x + y) % Places
    <3>1. Places \in Nat \ {0} /\ Words \in Nat \ {0} /\ Words % Places = 0
      BY <1>2
    <3> QED
      BY ONLY <3>1, x \in Int, y \in Int, RoundWithin, ZenonT(40)
  <2>3. x + y = first + (j + 1) - 1 /\ a + y = a + j - 1 /\ a = x % Words
    BY <1>1, <1>5, <1>6, <2>1 DEF ArrayTypes
  <2> QED
    BY <1>6, <2>2, <2>3
<1>12. /\ Locked!Content # <<>> /\ Locked!Content' = Tail(Locked!Content)
       /\ Head(Locked!Content) = q[first % Places]
  <2>1. Locked!Content \in [1 .. m + 1 -> Nat]
    BY <1>4, InTheArray
  <2>2. Locked!Content' = [j \in 1 .. m |-> q[(first' + j - 1) % Places]]
    BY <1>1, <1>7 DEF Locked!Content
  <2>3. Locked!Content = [j \in 1 .. m + 1 |-> q[(first + j - 1) % Places]]
    BY <1>4 DEF Locked!Content
  <2>4. Locked!Content' = [j \in 1 .. m |-> Locked!Content[j + 1]]
    <3>1. \A j \in 1 .. m : j + 1 \in 1 .. m + 1
      OBVIOUS
    <3> QED
      BY <1>11, <2>2, <2>3, <3>1
  <2>5. /\ Locked!Content # <<>> /\ Head(Locked!Content) = Locked!Content[1]
        /\ Locked!Content' = Tail(Locked!Content)
    BY ONLY <2>1, <2>4, m \in Nat, WithoutFirst
  <2>6. Locked!Content[1] = q[first % Places]
    <3>1. 1 \in 1 .. m + 1 /\ first + 1 - 1 = first
      BY DEF ArrayTypes
    <3> QED
      BY <2>3, <3>1
  <2> QED
    BY <2>5, <2>6
<1> QED
  BY <1>1, <1>10, <1>12 DEF Locked!Fifo!Get

\* Every step is a step of the channel, or leaves it as it is.
LEMMA ArrayStep ==
  ASSUME Locks, LockInv, ArrayInv, [Locked!Next]_Locked!spinvars
  PROVE  ArrayInv' /\ [Locked!Fifo!Next]_<<Locked!Content, out>>
<1>1. ASSUME NEW t \in Callers, Locked!TryPush(t) \/ Locked!TryPop(t)
      PROVE  ArrayInv' /\ UNCHANGED <<Locked!Content, out>>
  BY <1>1, ArrayTryPush, ArrayTryPop
<1>2. ASSUME NEW t \in Callers, Locked!Pushed(t) PROVE ArrayInv' /\ Locked!Fifo!Put
  BY <1>2, ArrayPushed
<1>3. ASSUME NEW t \in Callers, Locked!Popped(t) PROVE ArrayInv' /\ Locked!Fifo!Get
  BY <1>3, ArrayPopped
<1>4. ASSUME NEW t \in Callers,
             \/ Locked!DrawTicket(t) \/ Locked!LooksFree(t) \/ Locked!MyTurn(t)
             \/ Locked!Exchange(t) \/ Locked!Unlock(t)
      PROVE  ArrayInv' /\ UNCHANGED <<Locked!Content, out>>
  <2>1. UNCHANGED <<first, last, q, sent, out>>
    BY <1>4 DEF Locked!DrawTicket, Locked!LooksFree, Locked!MyTurn, Locked!Exchange, Locked!Unlock, Locked!queuevars
  <2>2. PICK x \in {"call", "spin", "exchange", "locked"} : place' = [place EXCEPT ![t] = x]
    BY <1>4 DEF Locked!DrawTicket, Locked!LooksFree, Locked!MyTurn, Locked!Exchange, Locked!Unlock, Locked!Go
  <2>3. \A u \in Callers : /\ place'[u] = "pushed" => place[u] = "pushed"
                           /\ place'[u] = "popped" => place[u] = "popped"
    BY <2>2 DEF LockInv, LockTypes
  <2> QED
    BY <2>1, <2>3, ArrayStays
<1>5. CASE UNCHANGED Locked!spinvars \/ Locked!Over
  <2>1. UNCHANGED <<first, last, q, sent, out, place>>
    BY <1>5 DEF Locked!Over, Locked!spinvars, Locked!queuevars
  <2> QED
    BY <2>1, ArrayStays
<1> QED
  BY <1>1, <1>2, <1>3, <1>4, <1>5 DEF Locked!Next, Locked!Inside, Locked!Fifo!Next

\* A push that gives up has found the queue full, and a pop empty.
Refusals ==
  \A t \in Callers :
    /\ Locked!TryPush(t) /\ place'[t] = "unlock" => Len(Locked!Content) = Places
    /\ Locked!TryPop(t) /\ place'[t] = "unlock" => Locked!Content = <<>>

LEMMA RefusesRightly == Locks /\ LockInv /\ ArrayInv => Refusals
<1> SUFFICES ASSUME Locks, LockInv, ArrayInv, NEW t \in Callers, place[t] = "locked", place'[t] = "unlock"
             PROVE  /\ Locked!TryPush(t) => Len(Locked!Content) = Places
                    /\ Locked!TryPop(t) => Locked!Content = <<>>
  BY DEF Refusals, Locked!TryPush, Locked!TryPop, Locked!Go
<1>1. PICK n \in Nat : n = Locked!Count /\ n <= Places /\ Places \in Nat \ {0}
  BY CountAhead DEF Locks, ArrayInv
<1>2. Len(Locked!Content) = n /\ (n = 0 => Locked!Content = <<>>)
  BY <1>1 DEF Locked!Content
<1>3. ASSUME Locked!TryPush(t) PROVE n = Places
  <2>1. place' = [place EXCEPT ![t] = IF Locked!Count < Places THEN "pushed" ELSE "unlock"]
    BY <1>3 DEF Locked!TryPush, Locked!Go
  <2>2. ~ Locked!Count < Places
    BY <2>1 DEF LockInv, LockTypes
  <2> QED
    BY <1>1, <2>2
<1>4. ASSUME Locked!TryPop(t) PROVE n = 0
  <2>1. place' = [place EXCEPT ![t] = IF last # first THEN "popped" ELSE "unlock"]
    BY <1>4 DEF Locked!TryPop, Locked!Go
  <2>2. last = first
    BY <2>1 DEF LockInv, LockTypes
  <2>3. first \in 0 .. Words - 1 /\ Words \in Nat \ {0}
    BY DEF ArrayInv, ArrayTypes, Locks
  <2>4. (last - first + Words) % Words = 0
    <3>1. last - first + Words = Words /\ Words % Words = 0
      BY <2>2, <2>3
    <3> QED
      BY <3>1
  <2> QED
    BY <1>1, <2>4 DEF Locked!Count
<1> QED
  BY <1>2, <1>3, <1>4

(* The queue with a lock is first in, first out, whoever pushes and pops,  *)
(* with either spinlock and while the tickets and the indices wrap: as far *)
(* as safety goes, it implements FifoChannel.  And try_push gives up only  *)
(* when it is full, try_pop only when it is empty.                         *)
THEOREM LockedFifo ==
  ASSUME Locks PROVE Locked!Spec => Locked!IsFifo /\ [][Refusals]_Locked!spinvars
<1>1. Locked!Init => LockInv /\ ArrayInv /\ Locked!Fifo!Init
  BY LockInit, ArrayInit
<1>2. LockInv /\ ArrayInv /\ [Locked!Next]_Locked!spinvars
        => LockInv' /\ ArrayInv' /\ [Locked!Fifo!Next]_<<Locked!Content, out>>
  BY LockStep, ArrayStep
<1>3. LockInv /\ ArrayInv => Refusals
  BY RefusesRightly
<1> QED
  BY <1>1, <1>2, <1>3, PTL DEF Locked!Spec, Locked!IsFifo
-----------------------------------------------------------------------------
(* The queue of chains: zib::wait_mpsc_queue.  Each supplier p has a chain *)
(* of buffers B[p][lo[p]], ..., B[p][hi[p]], counted from the start, and   *)
(* O tells of every number drawn who has drawn it.                         *)

Supplied ==
  /\ \E n \in Nat \ {0} : Suppliers = 1 .. n
  /\ Suppliers \subseteq Buffers /\ 0 \notin Buffers
  /\ BufferSize \in Nat \ {0} /\ AllocationSize \in Nat \ {0}

Cells   == 0 .. BufferSize - 1
Counts  == Nat \cup {-1}
Pieces  == [count : [Cells -> Counts], read : 0 .. BufferSize, write : 0 .. BufferSize,
            next : Buffers \cup {0}]
Stacks  == [items : [0 .. AllocationSize - 1 -> Buffers \cup {0}],
            read : 0 .. AllocationSize - 1, write : 0 .. AllocationSize - 1]
Frames  == [min : Counts, index : Suppliers \cup {0}, prev : Suppliers \cup {0, -2}, i : Nat,
            buffer : Buffers \cup {0}, made : Nat]

Stages == {"idle", "pool", "draw", "put", "look", "notify", "scan", "judge", "take", "recycle",
           "sleep", "check", "asleep", "awake", "gone"}

ChainTypes ==
  /\ memory \in [Buffers -> Pieces] /\ pool \in [Suppliers -> Stacks]
  /\ heads \in [Suppliers -> Buffers \cup {0}] /\ tails \in [Suppliers -> Buffers \cup {0}]
  /\ up_to \in Nat /\ lowest_seen \in Nat /\ sleeping \in BOOLEAN
  /\ step \in [Suppliers \cup {0} -> Stages] /\ my \in [Suppliers \cup {0} -> Frames]
  /\ earlier \in [0 .. up_to - 1 -> SUBSET Nat]

\* The numbers in a buffer that are still to be read.
Filled(b) == memory[b].read .. memory[b].write - 1

\* The chains are linked from head to tail, and no buffer is in two places.
Linked(B, lo, hi) ==
  /\ B \in [Suppliers -> [Nat -> Buffers]]
  /\ lo \in [Suppliers -> Nat] /\ hi \in [Suppliers -> Nat]
  /\ \A p \in Suppliers :
       /\ lo[p] <= hi[p] /\ heads[p] = B[p][lo[p]] /\ tails[p] = B[p][hi[p]]
       /\ memory[B[p][hi[p]]].next = 0
       /\ \A k \in lo[p] .. hi[p] - 1 : memory[B[p][k]].next = B[p][k + 1]
  /\ \A p, r \in Suppliers : \A k \in lo[p] .. hi[p], j \in lo[r] .. hi[r] :
       B[p][k] = B[r][j] => p = r /\ k = j

InChain(b, B, lo, hi) == \E p \in Suppliers : \E k \in lo[p] .. hi[p] : b = B[p][k]

\* What is in no chain is as new, but for what the consumer is putting away.
Loose(B, lo, hi) ==
  /\ \A b \in Buffers : InChain(b, B, lo, hi) \/ memory[b] = Mpsc!NewBuffer
                          \/ (step[0] = "recycle" /\ b = my[0].buffer)
  /\ step[0] = "recycle" =>
       /\ my[0].buffer \in Buffers /\ ~ InChain(my[0].buffer, B, lo, hi)
       /\ my[0].index \in Suppliers /\ memory[my[0].buffer].next = heads[my[0].index]

\* A supplier has one place to write to, the last of a buffer if that is not its
\* tail; every buffer before is full.
Open(p, b)        == step[p] \in {"draw", "put"} /\ my[p].buffer = b
Writes(B, lo, hi) ==
  \A p \in Suppliers :
    /\ step[p] = "pool" => my[p].buffer = tails[p] /\ memory[tails[p]].write = BufferSize - 1
    /\ step[p] \in {"draw", "put"} =>
         \/ my[p].buffer = tails[p] /\ memory[tails[p]].write < BufferSize - 1
         \/ /\ lo[p] < hi[p] /\ my[p].buffer = B[p][hi[p] - 1]
            /\ memory[my[p].buffer].write = BufferSize - 1 /\ memory[tails[p]].write = 0
    /\ memory[tails[p]].write <= BufferSize - 1
    /\ \A k \in lo[p] .. hi[p] - 1 :
         memory[B[p][k]].write = BufferSize \/ (k = hi[p] - 1 /\ Open(p, B[p][k]))

\* Only the first has been read from; what is not read is filled up to write.
Packed(B, lo, hi) ==
  \A p \in Suppliers : \A k \in lo[p] .. hi[p] :
    LET n == memory[B[p][k]] IN
    /\ n.read <= n.write /\ n.read < BufferSize /\ (k > lo[p] => n.read = 0)
    /\ \A j \in Cells : j >= n.read => (n.count[j] # -1 <=> j < n.write)

Rings(B, lo, hi) ==
  /\ \A p \in Suppliers : \A k \in Mpsc!Ring(p) :
       LET b == pool[p].items[k] IN
       /\ b \in Buffers /\ ~ InChain(b, B, lo, hi)
       /\ step[0] = "recycle" => b # my[0].buffer
  /\ \A p, r \in Suppliers : \A k \in Mpsc!Ring(p), j \in Mpsc!Ring(r) :
       pool[p].items[k] = pool[r].items[j] => p = r /\ k = j

\* The number is in a chain.
There(e, B, lo, hi) ==
  \E p \in Suppliers : \E k \in lo[p] .. hi[p] : \E j \in Filled(B[p][k]) :
    memory[B[p][k]].count[j] = e

\* Each number is its supplier's, from the draw on; and of those in the chains and
\* drawn none is below lowest_seen.
Valued(B, lo, hi, O) ==
  /\ O \in [Nat -> Suppliers] /\ lowest_seen <= up_to
  /\ \A p \in Suppliers : \A k \in lo[p] .. hi[p] : \A j \in Filled(B[p][k]) :
       LET n == memory[B[p][k]].count[j] IN
       /\ lowest_seen <= n /\ n < up_to /\ O[n] = p
       /\ step[p] = "put" => n < my[p].min
  /\ \A p \in Suppliers : step[p] = "put" =>
       my[p].min \in Nat /\ lowest_seen <= my[p].min /\ my[p].min < up_to /\ O[my[p].min] = p

\* The numbers of a chain come in order.
Rising(B, lo, hi) ==
  \A p \in Suppliers : \A k, l \in lo[p] .. hi[p] : \A j \in Filled(B[p][k]), m \in Filled(B[p][l]) :
    k < l \/ (k = l /\ j < m) => memory[B[p][k]].count[j] < memory[B[p][l]].count[m]

\* What was there when a number was drawn and is not dequeued is still there.
Older(B, lo, hi) ==
  \A n \in 0 .. up_to - 1 : \A e \in earlier[n] : e < n /\ There(e, B, lo, hi)

\* A number that was least in one scan: in the next, of those that were there
\* when it was drawn none is passed over.
Second(O) ==
  LET l == my[0]  m == Mpsc!First(l.prev) IN
  /\ m # -1
  /\ \A e \in earlier[m] : O[e] < l.i => l.min # -1 /\ l.min <= e

Scanning(O) ==
  LET l == my[0] IN
  /\ step[0] \in {"idle", "sleep", "check", "asleep", "awake"} => l = Mpsc!NoCall
  /\ step[0] \in {"scan", "judge", "take"} =>
       /\ l.i >= 1 /\ (l.index = 0 <=> l.min = -1)
       /\ l.index \in Suppliers => Mpsc!First(l.index) = l.min
  /\ step[0] = "scan" => l.i \in Suppliers /\ (l.prev \in Suppliers => Second(O))
  /\ step[0] = "judge" =>
       \/ l.index \in Suppliers /\ l.min = lowest_seen
       \/ l.i \notin Suppliers /\ (l.prev \in Suppliers => Second(O))
  /\ step[0] = "take" => l.index \in Suppliers /\ earlier[l.min] = {}

Chains(B, lo, hi, O) ==
  /\ Linked(B, lo, hi) /\ Loose(B, lo, hi) /\ Writes(B, lo, hi) /\ Packed(B, lo, hi)
  /\ Rings(B, lo, hi)
  /\ Valued(B, lo, hi, O) /\ Rising(B, lo, hi) /\ Older(B, lo, hi) /\ Scanning(O)

Deleted ==
  /\ \A p \in Suppliers : heads[p] = 0 /\ pool[p].read = pool[p].write
  /\ \A b \in Buffers : memory[b] = Mpsc!NewBuffer
  /\ \A t \in Suppliers \cup {0} : step[t] = "gone"

ChainInv == ChainTypes /\ (Deleted \/ \E B, lo, hi, O : Chains(B, lo, hi, O))

-----------------------------------------------------------------------------
(* The chains *)

LEMMA Suppliers1 == ASSUME Supplied PROVE
  /\ Suppliers \subseteq Nat \ {0} /\ 1 \in Suppliers
  /\ \A n \in Nat \ {0} : n \in Suppliers \/ \A p \in Suppliers : p < n
<1>1. PICK n \in Nat \ {0} : Suppliers = 1 .. n
  BY DEF Supplied
<1> QED
  BY <1>1

\* The recursion of Chain comes to an end at the tail: of the places where the set
\* it gives would be another than the rest of the chain none is the last.
LEMMA ChainIs ==
  ASSUME Supplied, ChainTypes, NEW B, NEW lo, NEW hi, Linked(B, lo, hi), Loose(B, lo, hi),
         NEW p \in Suppliers
  PROVE  Mpsc!Chain(p) = {B[p][k] : k \in lo[p] .. hi[p]}
<1> DEFINE G(f) == [b \in Buffers \cup {0} |-> IF b = 0 THEN {} ELSE {b} \cup f[memory[b].next]]
           Rest(r, k) == {B[r][j] : j \in k .. hi[r]}
           Of(b) == CHOOSE r \in Suppliers : \E k \in lo[r] .. hi[r] : b = B[r][k]
           At(b) == CHOOSE k \in lo[Of(b)] .. hi[Of(b)] : b = B[Of(b)][k]
           C(b) == IF b = 0 THEN {} ELSE Rest(Of(b), At(b))
           w == [b \in Buffers \cup {0} |->
                   IF b = 0 \/ InChain(b, B, lo, hi) THEN C(b) ELSE {b} \cup C(memory[b].next)]
<1>1. 0 \notin Buffers /\ Mpsc!NewBuffer.next = 0
  BY DEF Supplied, Mpsc!NewBuffer, Mpsc!None
<1>2. ASSUME NEW r \in Suppliers, NEW k \in lo[r] .. hi[r] PROVE C(B[r][k]) = Rest(r, k)
  <2>1. Of(B[r][k]) = r
    BY DEF Linked
  <2>2. At(B[r][k]) = k
    BY <2>1 DEF Linked
  <2>3. B[r][k] # 0
    BY <1>1 DEF Linked
  <2> QED
    BY <2>1, <2>2, <2>3
<1>0. C(0) = {}
  OBVIOUS
<1> HIDE DEF C, Of, At
<1>3. ASSUME NEW r \in Suppliers, NEW k \in lo[r] .. hi[r]
      PROVE  Rest(r, k) = {B[r][k]} \cup C(memory[B[r][k]].next)
  <2>1. k \in Nat /\ hi[r] \in Nat /\ lo[r] \in Nat
    BY DEF Linked
  <2>2. CASE k = hi[r]
    <3>1. memory[B[r][k]].next = 0
      BY <2>2 DEF Linked
    <3>2. Rest(r, k) = {B[r][k]}
      BY <2>1, <2>2
    <3> QED
      BY <1>0, <3>1, <3>2
  <2>3. CASE k # hi[r]
    <3>1. memory[B[r][k]].next = B[r][k + 1]
      BY <2>1, <2>3 DEF Linked
    <3>2. C(B[r][k + 1]) = Rest(r, k + 1)
      <4>1. k + 1 \in lo[r] .. hi[r]
        BY <2>1, <2>3
      <4> HIDE DEF Rest
      <4> QED
        BY <1>2, <4>1
    <3>3. Rest(r, k) = {B[r][k]} \cup Rest(r, k + 1)
      BY <2>1, <2>3
    <3> HIDE DEF Rest
    <3> QED
      BY <3>1, <3>2, <3>3
  <2> QED
    BY <2>2, <2>3
<1>4. \A b \in Buffers : memory[b].next \in Buffers \cup {0}
  BY DEF ChainTypes, Pieces
<1>5. ASSUME NEW b \in Buffers, ~ InChain(b, B, lo, hi)
      PROVE  memory[b].next = 0 \/ InChain(memory[b].next, B, lo, hi)
  <2>1. \A r \in Suppliers : lo[r] \in lo[r] .. hi[r] /\ heads[r] = B[r][lo[r]]
    BY DEF Linked
  <2> QED
    BY <1>1, <1>5, <2>1 DEF Loose, InChain
<1>6. \A b \in Buffers \cup {0} : b = 0 \/ InChain(b, B, lo, hi) => w[b] = C(b)
  BY Zenon
<1>7. ASSUME NEW b \in Buffers \cup {0} PROVE w[b] = G(w)[b]
  <2>1. CASE b = 0
    BY <1>0, <2>1
  <2>2. CASE InChain(b, B, lo, hi)
    <3>0. PICK r \in Suppliers : \E k \in lo[r] .. hi[r] : b = B[r][k]
      BY <2>2 DEF InChain
    <3>1. PICK k \in lo[r] .. hi[r] : b = B[r][k]
      BY <3>0
    <3>2. b # 0 /\ b \in Buffers
      BY <1>1, <3>1 DEF Linked
    <3>3. memory[b].next = 0 \/ InChain(memory[b].next, B, lo, hi)
      <4>1. k \in Nat /\ hi[r] \in Nat /\ lo[r] \in Nat
        BY DEF Linked
      <4>2. CASE k = hi[r]
        BY <3>1, <4>2 DEF Linked
      <4>3. CASE k # hi[r]
        <5>1. memory[b].next = B[r][k + 1] /\ k + 1 \in lo[r] .. hi[r]
          BY <3>1, <4>1, <4>3 DEF Linked
        <5> QED
          BY <5>1 DEF InChain
      <4> QED
        BY <4>2, <4>3
    <3>4. w[memory[b].next] = C(memory[b].next)
      BY <1>4, <1>6, <3>2, <3>3
    <3>5. w[b] = C(b)
      BY <1>6, <2>2
    <3>6. C(b) = {b} \cup C(memory[b].next)
      <4> HIDE DEF Rest
      <4> QED
        BY <1>2, <1>3, <3>1
    <3> HIDE DEF w
    <3> QED
      BY <3>2, <3>4, <3>5, <3>6
  <2>3. CASE b # 0 /\ ~ InChain(b, B, lo, hi)
    <3>1. w[memory[b].next] = C(memory[b].next)
      BY <1>4, <1>5, <1>6, <2>3
    <3>2. w[b] = {b} \cup C(memory[b].next)
      BY <2>3
    <3> HIDE DEF w
    <3> QED
      BY <2>3, <3>1, <3>2
  <2> QED
    BY <2>1, <2>2, <2>3
<1>8. w = G(w)
  BY <1>7, Zenon
<1> DEFINE from == CHOOSE f : f = G(f)
<1>9. from = G(from)
  BY <1>8
<1>10. Mpsc!Chain(p) = from[heads[p]]
  BY DEF Mpsc!Chain, Mpsc!None
<1> HIDE DEF from, w
<1>11. /\ from[0] = {}
       /\ \A b \in Buffers : from[b] = {b} \cup from[memory[b].next]
  BY <1>1, <1>9
<1>12. \A k \in lo[p] .. hi[p] : from[B[p][k]] = Rest(p, k)
  <2> SUFFICES ASSUME NEW h \in lo[p] .. hi[p], from[B[p][h]] # Rest(p, h) PROVE FALSE
    OBVIOUS
  <2>0. hi[p] \in Nat /\ lo[p] \in Nat
    BY DEF Linked
  <2> DEFINE A == {n \in 0 .. hi[p] - lo[p] : from[B[p][hi[p] - n]] # Rest(p, hi[p] - n)}
  <2>1. hi[p] - h \in A
    BY <2>0
  <2>2. A \subseteq Nat
    BY <2>0
  <2>3. PICK n \in A : \A m \in A : n <= m
    <3> HIDE DEF A
    <3> QED
      BY <2>1, <2>2, Least
  <2> DEFINE k == hi[p] - n
  <2>4. k \in lo[p] .. hi[p] /\ from[B[p][k]] # Rest(p, k)
    BY <2>0, <2>3
  <2>5. k = hi[p] \/ from[B[p][k + 1]] = Rest(p, k + 1)
    <3>1. SUFFICES ASSUME n # 0, from[B[p][k + 1]] # Rest(p, k + 1) PROVE FALSE
      BY <2>0
    <3>2. n - 1 \in A
      BY <2>0, <3>1
    <3> QED
      BY <2>2, <2>3, <3>2
  <2> HIDE DEF k, A
  <2>6. B[p][k] \in Buffers
    BY <2>0, <2>4 DEF Linked
  <2>7. CASE k = hi[p]
    <3>1. memory[B[p][k]].next = 0 /\ Rest(p, k) = {B[p][k]}
      BY <2>0, <2>7 DEF Linked
    <3> QED
      BY <1>11, <2>4, <2>6, <3>1
  <2>8. CASE k # hi[p]
    <3>1. memory[B[p][k]].next = B[p][k + 1]
      BY <2>0, <2>4, <2>8 DEF Linked
    <3>2. Rest(p, k) = {B[p][k]} \cup Rest(p, k + 1)
      BY <2>0, <2>4, <2>8
    <3> HIDE DEF Rest
    <3> QED
      BY <1>11, <2>4, <2>5, <2>6, <2>8, <3>1, <3>2
  <2> QED
    BY <2>7, <2>8
<1>13. heads[p] = B[p][lo[p]] /\ lo[p] \in lo[p] .. hi[p]
  BY DEF Linked
<1> QED
  BY <1>10, <1>12, <1>13

\* After the destructor there is no chain.
LEMMA NoChain == ASSUME Supplied, Deleted, NEW p \in Suppliers PROVE Mpsc!Chain(p) = {}
<1> DEFINE G(f) == [b \in Buffers \cup {0} |-> IF b = 0 THEN {} ELSE {b} \cup f[memory[b].next]]
           w == [b \in Buffers \cup {0} |-> IF b = 0 THEN {} ELSE {b}]
<1>1. \A b \in Buffers : memory[b].next = 0
  BY DEF Deleted, Mpsc!NewBuffer, Mpsc!None
<1>2. w = G(w)
  BY <1>1
<1> DEFINE from == CHOOSE f : f = G(f)
<1>3. from = G(from)
  BY <1>2
<1>4. Mpsc!Chain(p) = from[heads[p]]
  BY DEF Mpsc!Chain, Mpsc!None
<1> HIDE DEF from
<1> QED
  BY <1>3, <1>4 DEF Deleted

LEMMA StoredIs ==
  ASSUME Supplied, ChainTypes, NEW B, NEW lo, NEW hi, Linked(B, lo, hi), Loose(B, lo, hi),
         Packed(B, lo, hi)
  PROVE  /\ \A b : b \in Mpsc!Chained <=> InChain(b, B, lo, hi)
         /\ \A e : e \in Mpsc!Stored <=> There(e, B, lo, hi)
<1>1. \A p \in Suppliers : Mpsc!Chain(p) = {B[p][k] : k \in lo[p] .. hi[p]}
  BY ChainIs
<1>2. ASSUME NEW b PROVE b \in Mpsc!Chained <=> InChain(b, B, lo, hi)
  BY <1>1 DEF Mpsc!Chained, InChain
<1>3. ASSUME NEW e PROVE e \in Mpsc!Stored <=> There(e, B, lo, hi)
  <2>1. e \in Mpsc!Stored <=> \E b \in Mpsc!Chained : \E j \in memory[b].read .. BufferSize - 1 :
                                memory[b].count[j] = e /\ e # -1
    BY DEF Mpsc!Stored, Mpsc!Empty
  <2>2. ASSUME NEW p \in Suppliers, NEW k \in lo[p] .. hi[p], NEW j
        PROVE  j \in memory[B[p][k]].read .. BufferSize - 1 /\ memory[B[p][k]].count[j] # -1
                 <=> j \in Filled(B[p][k])
    <3>1. B[p][k] \in Buffers
      BY DEF Linked
    <3>2. memory[B[p][k]] \in Pieces /\ BufferSize \in Nat
      BY <3>1 DEF ChainTypes, Supplied
    <3> QED
      BY <3>2, SMTT(40) DEF Packed, Filled, Pieces, Cells
  <2>3. ASSUME e \in Mpsc!Stored PROVE There(e, B, lo, hi)
    <3>1. PICK b \in Mpsc!Chained : \E j \in memory[b].read .. BufferSize - 1 :
                                memory[b].count[j] = e /\ e # -1
      BY <2>1, <2>3
    <3>2. PICK j \in memory[b].read .. BufferSize - 1 : memory[b].count[j] = e /\ e # -1
      BY <3>1
    <3>3. PICK p \in Suppliers : \E k \in lo[p] .. hi[p] : b = B[p][k]
      BY <1>2 DEF InChain
    <3>4. PICK k \in lo[p] .. hi[p] : b = B[p][k]
      BY <3>3
    <3>5. j \in Filled(B[p][k])
      BY <2>2, <3>2, <3>4
    <3> QED
      BY <3>2, <3>4, <3>5 DEF There
  <2>4. ASSUME There(e, B, lo, hi) PROVE e \in Mpsc!Stored
    <3>1. PICK p \in Suppliers : \E k \in lo[p] .. hi[p] : \E j \in Filled(B[p][k]) :
                                   memory[B[p][k]].count[j] = e
      BY <2>4 DEF There
    <3>2. PICK k \in lo[p] .. hi[p] : \E j \in Filled(B[p][k]) : memory[B[p][k]].count[j] = e
      BY <3>1
    <3>3. PICK j \in Filled(B[p][k]) : memory[B[p][k]].count[j] = e
      BY <3>2
    <3>4. B[p][k] \in Mpsc!Chained
      BY <1>2 DEF InChain
    <3>5. j \in memory[B[p][k]].read .. BufferSize - 1 /\ e # -1
      BY <2>2, <3>3
    <3> QED
      BY <2>1, <3>3, <3>4, <3>5
  <2> QED
    BY <2>3, <2>4
<1> QED
  BY <1>2, <1>3

LEMMA ChainsSound == ASSUME Supplied, ChainInv PROVE Mpsc!Oldest /\ Mpsc!OneHome
<1>1. CASE Deleted
  <2>1. \A p \in Suppliers : Mpsc!Chain(p) = {}
    BY <1>1, NoChain
  <2>2. ASSUME NEW p \in Suppliers PROVE Mpsc!Ring(p) = {}
    BY <1>1 DEF ChainInv, ChainTypes, Stacks, Supplied, Deleted, Mpsc!Ring
  <2>3. Mpsc!Chained = {} /\ \A p \in Suppliers : Mpsc!InPool(p) = {}
    BY <2>1, <2>2 DEF Mpsc!Chained, Mpsc!InPool
  <2>4. step[0] # "take"
    BY <1>1 DEF Deleted
  <2> QED
    BY <2>1, <2>2, <2>3, <2>4 DEF Mpsc!Oldest, Mpsc!OneHome
<1>2. CASE \E B, lo, hi, O : Chains(B, lo, hi, O)
  <2>1. PICK B, lo, hi, O : Chains(B, lo, hi, O)
    BY <1>2
  <2>2. \A p \in Suppliers : Mpsc!Chain(p) = {B[p][k] : k \in lo[p] .. hi[p]}
    BY <2>1, ChainIs DEF ChainInv, Chains
  <2>3. Mpsc!Oldest
    BY <2>1 DEF Chains, Scanning, Mpsc!Oldest
  <2>4. ASSUME NEW p \in Suppliers, NEW r \in Suppliers, NEW b \in Mpsc!Chain(p) PROVE b \notin Mpsc!InPool(r)
    BY <2>1, <2>2 DEF Chains, Rings, InChain, Mpsc!InPool
  <2>5. ASSUME NEW p \in Suppliers, NEW r \in Suppliers, p # r, NEW b \in Mpsc!Chain(p) PROVE b \notin Mpsc!Chain(r)
    <3>1. PICK k \in lo[p] .. hi[p] : b = B[p][k]
      BY <2>2
    <3>2. \A j \in lo[r] .. hi[r] : B[p][k] # B[r][j]
      BY <2>1, <2>5 DEF Chains, Linked
    <3> QED
      BY <2>2, <3>1, <3>2
  <2>6. \A p, r \in Suppliers : \A k \in Mpsc!Ring(p), j \in Mpsc!Ring(r) :
          pool[p].items[k] = pool[r].items[j] => p = r /\ k = j
    BY <2>1 DEF Chains, Rings
  <2>7. ASSUME NEW p \in Suppliers, NEW r \in Suppliers, p # r
        PROVE  (Mpsc!Chain(p) \cup Mpsc!InPool(p)) \cap (Mpsc!Chain(r) \cup Mpsc!InPool(r)) = {}
    <3>1. Mpsc!InPool(p) \cap Mpsc!InPool(r) = {}
      BY <2>6, <2>7 DEF Mpsc!InPool
    <3> QED
      BY <2>4, <2>5, <2>7, <3>1
  <2>8. ASSUME NEW b \in Mpsc!Chained, NEW j \in memory[b].read .. BufferSize - 1
        PROVE  memory[b].count[j] # -1 <=> j < memory[b].write
    <3>1. InChain(b, B, lo, hi)
      BY <2>1, StoredIs DEF ChainInv, Chains
    <3>2. PICK p \in Suppliers : \E k \in lo[p] .. hi[p] : b = B[p][k]
      BY <3>1 DEF InChain
    <3>3. PICK k \in lo[p] .. hi[p] : b = B[p][k]
      BY <3>2
    <3>4. b \in Buffers
      BY <2>1, <3>3 DEF Chains, Linked
    <3>5. memory[b].read \in Nat /\ BufferSize \in Nat
      BY <3>4 DEF ChainInv, ChainTypes, Pieces, Supplied
    <3> QED
      BY <2>1, <3>3, <3>5 DEF Chains, Packed, Cells
  <2> QED
    BY <2>3, <2>4, <2>6, <2>7, <2>8 DEF Mpsc!OneHome, Mpsc!Empty
<1> QED
  BY <1>1, <1>2 DEF ChainInv

LEMMA ChainStart == ASSUME Supplied, Mpsc!Init PROVE ChainInv
<1> DEFINE B  == [p \in Suppliers |-> [k \in Nat |-> p]]
           lo == [p \in Suppliers |-> 0]
           O  == [n \in Nat |-> 1]
<1>1. /\ memory = [b \in Buffers |-> Mpsc!NewBuffer]
      /\ heads = [p \in Suppliers |-> p] /\ tails = heads
      /\ pool = [p \in Suppliers |-> [items |-> [k \in 0 .. AllocationSize - 1 |-> 0], read |-> 0, write |-> 0]]
      /\ up_to = 0 /\ sleeping = FALSE /\ lowest_seen = 0
      /\ step = [t \in Suppliers \cup {0} |-> "idle"]
      /\ my = [t \in Suppliers \cup {0} |-> Mpsc!NoCall]
      /\ earlier = [n \in {} |-> {}]
  BY DEF Mpsc!Init, Mpsc!None
<1>2. BufferSize \in Nat \ {0} /\ AllocationSize \in Nat \ {0} /\ Suppliers \subseteq Buffers /\ 1 \in Suppliers
  BY Suppliers1 DEF Supplied
<1>3. Mpsc!NewBuffer \in Pieces /\ Mpsc!NewBuffer.read = 0 /\ Mpsc!NewBuffer.write = 0 /\ Mpsc!NewBuffer.next = 0
      /\ \A j \in Cells : Mpsc!NewBuffer.count[j] = -1
  BY <1>2 DEF Mpsc!NewBuffer, Mpsc!Empty, Mpsc!None, Pieces, Counts, Cells
<1>4. Mpsc!NoCall \in Frames
  BY DEF Mpsc!NoCall, Mpsc!Empty, Mpsc!None, Frames, Counts
<1>5. ChainTypes
  <2>1. [items |-> [k \in 0 .. AllocationSize - 1 |-> 0], read |-> 0, write |-> 0] \in Stacks
    BY <1>2 DEF Stacks
  <2>2. earlier \in [0 .. up_to - 1 -> SUBSET Nat]
    BY <1>1
  <2>3. memory \in [Buffers -> Pieces] /\ pool \in [Suppliers -> Stacks]
    BY <1>1, <1>3, <2>1
  <2>4. heads \in [Suppliers -> Buffers \cup {0}]
    BY <1>1, <1>2
  <2>5. step \in [Suppliers \cup {0} -> Stages]
    BY <1>1 DEF Stages
  <2>6. my \in [Suppliers \cup {0} -> Frames]
    BY <1>1, <1>4
  <2> QED
    BY <1>1, <2>2, <2>3, <2>4, <2>5, <2>6 DEF ChainTypes
<1>6. \A p \in Suppliers : memory[p] = Mpsc!NewBuffer /\ lo[p] = 0 /\ heads[p] = p /\ tails[p] = p /\ step[p] = "idle"
        /\ \A k \in Nat : B[p][k] = p
  BY <1>1, <1>2
<1>7. B \in [Suppliers -> [Nat -> Buffers]] /\ lo \in [Suppliers -> Nat] /\ O \in [Nat -> Suppliers]
  BY <1>2
<1>8. step[0] = "idle" /\ my[0] = Mpsc!NoCall
  BY <1>1
<1>9. \A p \in Suppliers : Mpsc!Ring(p) = {}
  BY <1>1 DEF Mpsc!Ring
<1> HIDE DEF B, lo, O
<1>10. \A p \in Suppliers : \A k \in lo[p] .. lo[p] : k = 0
  BY <1>6
<1>11. \A p \in Suppliers : Filled(p) = {}
  BY <1>3, <1>6 DEF Filled
<1>12. Linked(B, lo, lo)
  BY <1>3, <1>6, <1>7, <1>10 DEF Linked
<1>13. Loose(B, lo, lo)
  BY <1>1, <1>8 DEF Loose
<1>14. Writes(B, lo, lo)
  BY <1>2, <1>3, <1>6, <1>7 DEF Writes
<1>15. Packed(B, lo, lo)
  BY <1>2, <1>3, <1>6, <1>7, <1>10 DEF Packed, Cells
<1>16. Rings(B, lo, lo)
  BY <1>9 DEF Rings
<1>17. Valued(B, lo, lo, O) /\ Rising(B, lo, lo) /\ Older(B, lo, lo)
  BY <1>1, <1>6, <1>7, <1>10, <1>11 DEF Valued, Rising, Older
<1>18. Scanning(O)
  BY <1>8 DEF Scanning
<1> QED
  BY <1>5, <1>12, <1>13, <1>14, <1>15, <1>16, <1>17, <1>18 DEF ChainInv, Chains

-----------------------------------------------------------------------------
(* Steps that leave the chains and the rings alone *)

LEMMA StillLinked ==
  ASSUME NEW B, NEW lo, NEW hi, Linked(B, lo, hi), Loose(B, lo, hi), Packed(B, lo, hi), Rings(B, lo, hi),
         memory' = memory, heads' = heads, tails' = tails, pool' = pool,
         step[0] = "recycle" <=> step'[0] = "recycle", step[0] = "recycle" => my'[0] = my[0]
  PROVE  Linked(B, lo, hi)' /\ Loose(B, lo, hi)' /\ Packed(B, lo, hi)' /\ Rings(B, lo, hi)'
<1>1. Linked(B, lo, hi)'
  BY DEF Linked
<1>2. Loose(B, lo, hi)'
  BY DEF Loose, InChain
<1>3. Packed(B, lo, hi)'
  BY DEF Packed
<1>4. \A p \in Suppliers : Mpsc!Ring(p)' = Mpsc!Ring(p)
  BY DEF Mpsc!Ring
<1>5. Rings(B, lo, hi)'
  BY <1>4 DEF Rings, InChain
<1> QED
  BY <1>1, <1>2, <1>3, <1>5

\* What a supplier may write, and what numbers there are, is no matter of the
\* consumer's other steps.
Keeps(p) ==
  /\ step'[p] = step[p] /\ my'[p].buffer = my[p].buffer /\ my'[p].min = my[p].min

LEMMA StillWrites ==
  ASSUME NEW B, NEW lo, NEW hi, Writes(B, lo, hi),
         memory' = memory, heads' = heads, tails' = tails, \A p \in Suppliers : Keeps(p)
  PROVE  Writes(B, lo, hi)'
BY DEF Writes, Open, Keeps

LEMMA StillOrdered ==
  ASSUME NEW B, NEW lo, NEW hi, NEW O, Valued(B, lo, hi, O), Rising(B, lo, hi), Older(B, lo, hi),
         memory' = memory, lowest_seen' = lowest_seen, up_to' = up_to, earlier' = earlier,
         \A p \in Suppliers : step'[p] = "put" => step[p] = "put" /\ my'[p].min = my[p].min
  PROVE  Valued(B, lo, hi, O)' /\ Rising(B, lo, hi)' /\ Older(B, lo, hi)'
<1>1. \A b : Filled(b)' = Filled(b)
  BY DEF Filled
<1>2. \A e : There(e, B, lo, hi)' <=> There(e, B, lo, hi)
  BY <1>1 DEF There
<1>3. Valued(B, lo, hi, O)'
  BY <1>1 DEF Valued
<1>4. Rising(B, lo, hi)'
  BY <1>1 DEF Rising
<1>5. Older(B, lo, hi)'
  BY <1>2 DEF Older
<1> QED
  BY <1>3, <1>4, <1>5

\* A step of the consumer that looks around.
Looks ==
  /\ memory' = memory /\ heads' = heads /\ tails' = tails /\ pool' = pool
  /\ up_to' = up_to /\ lowest_seen' = lowest_seen /\ earlier' = earlier
  /\ step[0] # "recycle" /\ step'[0] # "recycle"
  /\ \A p \in Suppliers : Keeps(p)

LEMMA LooksKeep ==
  ASSUME NEW B, NEW lo, NEW hi, NEW O, Chains(B, lo, hi, O), Looks, Scanning(O)'
  PROVE  Chains(B, lo, hi, O)'
<1>1. Linked(B, lo, hi)' /\ Loose(B, lo, hi)' /\ Packed(B, lo, hi)' /\ Rings(B, lo, hi)'
  <2>1. /\ memory' = memory /\ heads' = heads /\ tails' = tails /\ pool' = pool
        /\ step[0] = "recycle" <=> step'[0] = "recycle"
        /\ step[0] = "recycle" => my'[0] = my[0]
    BY DEF Looks
  <2> QED
    BY <2>1, StillLinked DEF Chains
<1>2. Writes(B, lo, hi)'
  BY StillWrites DEF Looks, Chains
<1>3. Valued(B, lo, hi, O)' /\ Rising(B, lo, hi)' /\ Older(B, lo, hi)'
  <2>1. \A p \in Suppliers : step'[p] = "put" => step[p] = "put" /\ my'[p].min = my[p].min
    BY DEF Looks, Keeps
  <2> QED
    BY <2>1, StillOrdered DEF Looks, Chains
<1> QED
  BY <1>1, <1>2, <1>3 DEF Chains

\* The types of a thread's step.
LEMMA StepTypes ==
  ASSUME ChainTypes, NEW t \in Suppliers \cup {0}, NEW to \in Stages, step' = [step EXCEPT ![t] = to]
  PROVE  step' \in [Suppliers \cup {0} -> Stages] /\ step'[t] = to
         /\ \A u \in Suppliers \cup {0} : u # t => step'[u] = step[u]
BY DEF ChainTypes

LEMMA MyTypes ==
  ASSUME ChainTypes, NEW t \in Suppliers \cup {0}, NEW r \in Frames, my' = [my EXCEPT ![t] = r]
  PROVE  my' \in [Suppliers \cup {0} -> Frames] /\ my'[t] = r
         /\ \A u \in Suppliers \cup {0} : u # t => my'[u] = my[u]
BY DEF ChainTypes

LEMMA NoCallTypes == ASSUME Supplied PROVE
  /\ Mpsc!NoCall \in Frames /\ Mpsc!NoCall.min = -1 /\ Mpsc!NoCall.index = 0 /\ Mpsc!NoCall.prev = -2
  /\ Mpsc!NoCall.i = 1 /\ Mpsc!NoCall.buffer = 0
BY DEF Mpsc!NoCall, Mpsc!Empty, Mpsc!None, Frames, Counts

\* Between calls of dequeue and asleep.
LEMMA Dequeues ==
  ASSUME Supplied, ChainTypes, NEW B, NEW lo, NEW hi, NEW O, Chains(B, lo, hi, O),
         Mpsc!Dequeue \/ Mpsc!Sleep \/ Mpsc!Check \/ Mpsc!Awake
  PROVE  ChainTypes' /\ Chains(B, lo, hi, O)'
<1>1. /\ memory' = memory /\ heads' = heads /\ tails' = tails /\ pool' = pool
      /\ up_to' = up_to /\ lowest_seen' = lowest_seen /\ earlier' = earlier /\ my' = my
      /\ sleeping' \in BOOLEAN
  BY DEF Mpsc!Dequeue, Mpsc!Sleep, Mpsc!Check, Mpsc!Awake, Mpsc!chains, Mpsc!shared, ChainTypes
<1>2. step[0] \in {"idle", "sleep", "check", "awake"}
  BY DEF Mpsc!Dequeue, Mpsc!Sleep, Mpsc!Check, Mpsc!Awake, Mpsc!Go
<1>3. PICK to \in {"scan", "check", "asleep", "awake"} : step' = [step EXCEPT ![0] = to]
  BY DEF Mpsc!Dequeue, Mpsc!Sleep, Mpsc!Check, Mpsc!Awake, Mpsc!Go
<1>4. step' \in [Suppliers \cup {0} -> Stages] /\ step'[0] = to
      /\ \A u \in Suppliers \cup {0} : u # 0 => step'[u] = step[u]
  BY <1>3 DEF ChainTypes, Stages
<1>5. my[0] = Mpsc!NoCall
  BY <1>2 DEF Chains, Scanning
<1>6. ChainTypes'
  BY <1>1, <1>4 DEF ChainTypes
<1>7. Looks
  BY <1>1, <1>2, <1>4, Suppliers1 DEF Looks, Keeps
<1>8. Scanning(O)'
  BY <1>1, <1>4, <1>5, NoCallTypes, Suppliers1 DEF Scanning
<1> QED
  BY <1>6, <1>7, <1>8, LooksKeep

-----------------------------------------------------------------------------
(* The consumer's look at the heads *)

\* The number at the head of a chain is the least of the chain.
LEMMA FirstIs ==
  ASSUME Supplied, ChainTypes, NEW B, NEW lo, NEW hi, NEW O, Chains(B, lo, hi, O), NEW r \in Suppliers
  PROVE  /\ Mpsc!First(r) \in Counts
         /\ Mpsc!First(r) # -1 => /\ Mpsc!First(r) \in Nat /\ lowest_seen <= Mpsc!First(r)
                                  /\ Mpsc!First(r) < up_to /\ O[Mpsc!First(r)] = r
         /\ \A k \in lo[r] .. hi[r] : \A j \in Filled(B[r][k]) :
              Mpsc!First(r) # -1 /\ Mpsc!First(r) <= memory[B[r][k]].count[j]
<1> DEFINE h == B[r][lo[r]]
<1>1. /\ lo[r] \in Nat /\ hi[r] \in Nat /\ lo[r] <= hi[r] /\ heads[r] = h
      /\ \A k \in Nat : B[r][k] \in Buffers
  BY DEF Chains, Linked
<1>2. \A b \in Buffers : memory[b] \in Pieces
  BY DEF ChainTypes
<1>3. BufferSize \in Nat \ {0} /\ lo[r] \in lo[r] .. hi[r]
  BY <1>1 DEF Supplied
<1>4. Mpsc!First(r) = memory[h].count[memory[h].read]
  BY <1>1 DEF Mpsc!First
<1>5. memory[h].read <= memory[h].write /\ memory[h].read < BufferSize /\ memory[h].read \in Nat /\ memory[h].write \in Nat
  BY <1>1, <1>2, <1>3, SMTT(40) DEF Chains, Packed, Pieces
<1>6. memory[h].read \in Cells /\ Mpsc!First(r) \in Counts
  BY <1>1, <1>2, <1>3, <1>4, <1>5, SMTT(40) DEF Cells, Pieces
<1>7. Mpsc!First(r) # -1 <=> memory[h].read < memory[h].write
  BY <1>1, <1>3, <1>4, <1>5, <1>6 DEF Chains, Packed
<1>8. Mpsc!First(r) # -1 => memory[h].read \in Filled(h)
  BY <1>5, <1>7 DEF Filled
<1>9. ASSUME Mpsc!First(r) # -1
      PROVE  /\ Mpsc!First(r) \in Nat /\ lowest_seen <= Mpsc!First(r)
             /\ Mpsc!First(r) < up_to /\ O[Mpsc!First(r)] = r
  <2>1. memory[h].read \in Filled(h) /\ memory[h].count[memory[h].read] = Mpsc!First(r)
    BY <1>4, <1>8, <1>9
  <2>2. \A j \in Filled(h) : lowest_seen <= memory[h].count[j] /\ memory[h].count[j] < up_to /\ O[memory[h].count[j]] = r
    BY <1>3 DEF Chains, Valued
  <2>3. Mpsc!First(r) \in Nat
    BY <1>6, <1>9 DEF Counts
  <2> HIDE DEF h
  <2> QED
    BY <2>1, <2>2, <2>3, SMTT(40)
<1>10. ASSUME NEW k \in lo[r] .. hi[r], NEW j \in Filled(B[r][k])
       PROVE  Mpsc!First(r) # -1 /\ Mpsc!First(r) <= memory[B[r][k]].count[j]
  <2>1. B[r][k] \in Buffers /\ memory[B[r][k]] \in Pieces
    BY <1>1, <1>2
  <2>2. j \in memory[B[r][k]].read .. memory[B[r][k]].write - 1 /\ memory[B[r][k]].read \in Nat /\ memory[B[r][k]].write \in Nat
    BY <2>1 DEF Filled, Pieces
  <2>3. memory[h].read < memory[h].write
    <3>1. CASE k = lo[r]
      BY <2>2, <3>1
    <3>2. CASE k # lo[r] /\ memory[h].write = BufferSize
      BY <1>5, <3>2
    <3>3. CASE k # lo[r] /\ memory[h].write # BufferSize
      <4>1. lo[r] = hi[r] - 1 /\ Open(r, h)
        BY <1>1, <3>3 DEF Chains, Writes
      <4>2. k = hi[r] /\ tails[r] = B[r][k] /\ h # tails[r]
        BY <1>1, <3>3, <4>1 DEF Chains, Linked
      <4>3. memory[tails[r]].write = 0
        BY <4>1, <4>2 DEF Chains, Writes, Open
      <4> QED
        BY <2>2, <4>2, <4>3
    <3> QED
      BY <3>1, <3>2, <3>3
  <2>4. memory[h].read \in Filled(h) /\ Mpsc!First(r) # -1
    BY <1>7, <1>8, <2>3, SMTT(40)
  <2>5. CASE k = lo[r] /\ j = memory[h].read
    BY <1>4, <1>6, <2>4, <2>5, SMTT(40) DEF Counts
  <2>6. CASE lo[r] < k \/ (lo[r] = k /\ memory[h].read < j)
    <3>1. memory[h].count[memory[h].read] < memory[B[r][k]].count[j]
      BY <1>3, <2>4, <2>6 DEF Chains, Rising
    <3>2. memory[B[r][k]].count[j] \in Int
      <4>1. j \in Cells
        BY <1>3, <2>1, <2>2 DEF Pieces, Cells
      <4> QED
        BY <2>1, <4>1 DEF Pieces, Counts
    <3> QED
      BY <1>4, <1>6, <2>4, <3>1, <3>2 DEF Counts
  <2> QED
    BY <1>1, <1>5, <2>2, <2>5, <2>6
<1> QED
  BY <1>6, <1>9, <1>10

\* An older number is in the chain of its supplier, whose head is no larger.
LEMMA OlderIs ==
  ASSUME Supplied, ChainTypes, NEW B, NEW lo, NEW hi, NEW O, Chains(B, lo, hi, O),
         NEW n \in 0 .. up_to - 1, NEW e \in earlier[n]
  PROVE  /\ e \in Nat /\ e < n /\ lowest_seen <= e /\ O[e] \in Suppliers
         /\ Mpsc!First(O[e]) # -1 /\ Mpsc!First(O[e]) <= e
<1>1. There(e, B, lo, hi) /\ e < n
  BY DEF Chains, Older
<1>2. PICK p \in Suppliers : \E k \in lo[p] .. hi[p] : \E j \in Filled(B[p][k]) : memory[B[p][k]].count[j] = e
  BY <1>1 DEF There
<1>3. PICK k \in lo[p] .. hi[p] : \E j \in Filled(B[p][k]) : memory[B[p][k]].count[j] = e
  BY <1>2
<1>4. PICK j \in Filled(B[p][k]) : memory[B[p][k]].count[j] = e
  BY <1>3
<1>5. O[e] = p /\ lowest_seen <= e
  BY <1>4 DEF Chains, Valued
<1>6. Mpsc!First(p) # -1 /\ Mpsc!First(p) <= e
  BY <1>4, FirstIs
<1>7. e \in Nat
  BY DEF ChainTypes
<1> QED
  BY <1>1, <1>5, <1>6, <1>7

LEMMA Scans ==
  ASSUME Supplied, ChainTypes, NEW B, NEW lo, NEW hi, NEW O, Chains(B, lo, hi, O), Mpsc!Scan
  PROVE  ChainTypes' /\ Chains(B, lo, hi, O)'
<1> DEFINE l == my[0]
           c == Mpsc!First(l.i)
           less == c # -1 /\ (l.min = -1 \/ c < l.min)
           due == less /\ c = lowest_seen
           r == [l EXCEPT !.min = IF less THEN c ELSE l.min, !.index = IF less THEN l.i ELSE l.index,
                          !.i = l.i + 1, !.prev = IF due THEN l.i ELSE l.prev]
<1>1. /\ memory' = memory /\ heads' = heads /\ tails' = tails /\ pool' = pool
      /\ up_to' = up_to /\ lowest_seen' = lowest_seen /\ earlier' = earlier /\ sleeping' = sleeping
  BY DEF Mpsc!Scan, Mpsc!chains, Mpsc!shared
<1>2. step[0] = "scan" /\ step' = [step EXCEPT ![0] = IF due \/ l.i + 1 \notin Suppliers THEN "judge" ELSE "scan"]
  BY Zenon DEF Mpsc!Scan, Mpsc!Go, Mpsc!Empty
<1>3. my' = [my EXCEPT ![0] = r]
  <2>1. l \in Frames /\ my \in [Suppliers \cup {0} -> Frames]
    BY DEF ChainTypes
  <2> QED
    BY <2>1 DEF Mpsc!Scan, Mpsc!Empty, Frames
<1>4. l \in Frames /\ l.i \in Suppliers /\ (l.prev \in Suppliers => Second(O)) /\ (l.index = 0 <=> l.min = -1)
      /\ (l.index \in Suppliers => Mpsc!First(l.index) = l.min)
  BY <1>2 DEF Chains, Scanning, ChainTypes
<1>5. c \in Counts /\ l.min \in Counts /\ l.i \in Nat \ {0} /\ l.index \in Suppliers \cup {0}
  BY <1>4, FirstIs, Suppliers1 DEF Frames
<1>6. r \in Frames /\ r.min = (IF less THEN c ELSE l.min) /\ r.index = (IF less THEN l.i ELSE l.index)
      /\ r.i = l.i + 1 /\ r.prev = (IF due THEN l.i ELSE l.prev)
  <2> HIDE DEF less, due, c
  <2>1. l.i + 1 \in Nat
    BY <1>5
  <2>2. PICK a \in Counts : a = IF less THEN c ELSE l.min
    BY <1>5
  <2>3. PICK b \in Suppliers \cup {0} : b = IF less THEN l.i ELSE l.index
    BY <1>4, <1>5
  <2>4. PICK d \in Suppliers \cup {0, -2} : d = IF due THEN l.i ELSE l.prev
    BY <1>4 DEF Frames
  <2>5. r = [l EXCEPT !.min = a, !.index = b, !.i = l.i + 1, !.prev = d]
    BY <2>2, <2>3, <2>4
  <2> HIDE DEF r
  <2> QED
    BY <1>4, <2>1, <2>2, <2>3, <2>4, <2>5, ZenonT(40) DEF Frames
<1> DEFINE goal == IF due \/ l.i + 1 \notin Suppliers THEN "judge" ELSE "scan"
<1>7. goal \in {"judge", "scan"} /\ (goal = "scan" => ~ due /\ l.i + 1 \in Suppliers) /\ (goal = "judge" => due \/ l.i + 1 \notin Suppliers)
  OBVIOUS
<1>8. step' \in [Suppliers \cup {0} -> Stages] /\ step'[0] = goal
      /\ \A u \in Suppliers \cup {0} : u # 0 => step'[u] = step[u]
  <2>1. step' = [step EXCEPT ![0] = goal]
    BY <1>2
  <2> HIDE DEF goal
  <2> QED
    BY <1>7, <2>1 DEF ChainTypes, Stages
<1> HIDE DEF r, goal
<1>9. my' \in [Suppliers \cup {0} -> Frames] /\ my'[0] = r
      /\ \A u \in Suppliers \cup {0} : u # 0 => my'[u] = my[u]
  BY <1>3, <1>6, MyTypes
<1>10. ChainTypes'
  BY <1>1, <1>8, <1>9 DEF ChainTypes
<1>11. Looks
  BY <1>1, <1>2, <1>7, <1>8, <1>9, Suppliers1 DEF Looks, Keeps
<1>12. \A u : Mpsc!First(u)' = Mpsc!First(u)
  BY <1>1 DEF Mpsc!First
<1>13. less => r.min = c /\ r.index = l.i
  BY <1>6
<1>14. ~ less => r.min = l.min /\ r.index = l.index
  BY <1>6
<1>15. c # -1 => r.min # -1 /\ r.min <= c
  BY <1>5, <1>13, <1>14 DEF Counts
<1>16. l.min # -1 => r.min # -1 /\ r.min <= l.min
  BY <1>5, <1>13, <1>14 DEF Counts
<1>17. (r.index = 0 <=> r.min = -1) /\ (r.index \in Suppliers => Mpsc!First(r.index) = r.min)
  BY <1>4, <1>5, <1>13, <1>14, SMTT(40)
<1>18. ASSUME ~ due, l.prev \in Suppliers PROVE Second(O)'
  <2> DEFINE m == Mpsc!First(l.prev)
  <2>1. r.prev = l.prev /\ m # -1 /\ m \in 0 .. up_to - 1
    BY <1>4, <1>6, <1>18, FirstIs DEF Second, ChainTypes
  <2>2. ASSUME NEW e \in earlier[m], O[e] < r.i PROVE r.min # -1 /\ r.min <= e
    <3>1. e \in Nat /\ O[e] \in Suppliers /\ Mpsc!First(O[e]) # -1 /\ Mpsc!First(O[e]) <= e
      BY <2>1, OlderIs
    <3>2. O[e] \in Nat
      BY <3>1, Suppliers1
    <3>3. CASE O[e] = l.i
      BY <1>5, <1>6, <1>15, <3>1, <3>3 DEF Frames, Counts
    <3>4. CASE O[e] < l.i
      BY <1>4, <1>5, <1>6, <1>16, <1>18, <3>1, <3>4, SMTT(40) DEF Second, Frames, Counts
    <3> QED
      BY <1>5, <1>6, <2>2, <3>2, <3>3, <3>4
  <2>3. m = memory[heads[r.prev]].count[memory[heads[r.prev]].read]
    BY <2>1 DEF Mpsc!First
  <2> HIDE DEF m
  <2> QED
    BY <1>1, <1>9, <2>1, <2>2, <2>3 DEF Second, Mpsc!First
<1>19. CASE goal = "scan"
  <2>1. ~ due /\ l.i + 1 \in Suppliers /\ r.prev = l.prev
    BY <1>4, <1>6, <1>7, <1>19, Suppliers1
  <2> HIDE DEF due
  <2>2. Scanning(O)'
    BY <1>5, <1>6, <1>8, <1>9, <1>12, <1>17, <1>18, <1>19, <2>1 DEF Scanning
  <2> QED
    BY <1>10, <1>11, <2>2, LooksKeep
<1>20. CASE goal = "judge" /\ due
  <2>1. r.index \in Suppliers /\ r.min = lowest_seen
    BY <1>4, <1>13, <1>20
  <2>2. Scanning(O)'
    BY <1>1, <1>5, <1>6, <1>8, <1>9, <1>12, <1>17, <1>20, <2>1 DEF Scanning
  <2> QED
    BY <1>10, <1>11, <2>2, LooksKeep
<1>21. CASE goal = "judge" /\ ~ due
  <2>1. r.i \notin Suppliers /\ r.prev = l.prev
    BY <1>6, <1>7, <1>21, Suppliers1
  <2> HIDE DEF due
  <2>2. Scanning(O)'
    BY <1>5, <1>6, <1>8, <1>9, <1>12, <1>17, <1>18, <1>21, <2>1 DEF Scanning
  <2> QED
    BY <1>10, <1>11, <2>2, LooksKeep
<1> QED
  BY <1>7, <1>19, <1>20, <1>21

LEMMA Judges ==
  ASSUME Supplied, ChainTypes, NEW B, NEW lo, NEW hi, NEW O, Chains(B, lo, hi, O), Mpsc!Judge
  PROVE  ChainTypes' /\ Chains(B, lo, hi, O)'
<1> DEFINE l == my[0]
<1>1. /\ memory' = memory /\ heads' = heads /\ tails' = tails /\ pool' = pool
      /\ up_to' = up_to /\ lowest_seen' = lowest_seen /\ earlier' = earlier /\ sleeping' = sleeping
  BY DEF Mpsc!Judge, Mpsc!chains, Mpsc!shared
<1>2. step[0] = "judge"
  BY DEF Mpsc!Judge, Mpsc!Go
<1>3. l \in Frames /\ (l.index = 0 <=> l.min = -1) /\ (l.index \in Suppliers => Mpsc!First(l.index) = l.min)
      /\ l.i >= 1
  BY <1>2 DEF Chains, Scanning, ChainTypes
<1>4. \/ l.index \in Suppliers /\ l.min = lowest_seen
      \/ l.i \notin Suppliers /\ (l.prev \in Suppliers => Second(O))
  BY <1>2 DEF Chains, Scanning
<1>5. l.index \in Suppliers \cup {0} /\ l.min \in Counts /\ l.i \in Nat
  BY <1>3 DEF Frames
<1>6. \A u : Mpsc!First(u)' = Mpsc!First(u)
  BY <1>1 DEF Mpsc!First
<1>7. PICK to \in {"scan", "sleep", "take"} : step' = [step EXCEPT ![0] = to]
  BY DEF Mpsc!Judge, Mpsc!Go
<1>8. step' \in [Suppliers \cup {0} -> Stages] /\ step'[0] = to
      /\ \A u \in Suppliers \cup {0} : u # 0 => step'[u] = step[u]
  BY <1>7 DEF ChainTypes, Stages
<1>9. ASSUME NEW r \in Frames, my' = [my EXCEPT ![0] = r], Scanning(O)'
      PROVE  ChainTypes' /\ Chains(B, lo, hi, O)'
  <2>1. my' \in [Suppliers \cup {0} -> Frames] /\ my'[0] = r
        /\ \A u \in Suppliers \cup {0} : u # 0 => my'[u] = my[u]
    BY <1>9, MyTypes
  <2>2. ChainTypes'
    BY <1>1, <1>8, <2>1 DEF ChainTypes
  <2>3. Looks
    BY <1>1, <1>2, <1>8, <2>1, Suppliers1 DEF Looks, Keeps
  <2> QED
    BY <1>9, <2>2, <2>3, LooksKeep
<1>10. 0 \in Suppliers \cup {0} /\ my \in [Suppliers \cup {0} -> Frames] /\ Mpsc!NoCall \in Frames /\ 0 \notin Suppliers
  BY NoCallTypes, Suppliers1 DEF ChainTypes
<1>11. CASE l.prev # l.index
  <2> DEFINE r == [Mpsc!NoCall EXCEPT !.prev = l.index]
  <2>1. my' = [my EXCEPT ![0] = r] /\ step' = [step EXCEPT ![0] = "scan"]
    BY <1>11 DEF Mpsc!Judge, Mpsc!Go
  <2>2. r \in Frames /\ r.min = -1 /\ r.index = 0 /\ r.i = 1 /\ r.prev = l.index
    BY <1>5, <1>10, NoCallTypes DEF Frames
  <2>3. step'[0] = "scan"
    BY <2>1 DEF ChainTypes
  <2> HIDE DEF r
  <2>4. my'[0] = r
    BY <1>10, <2>1, SMTT(40)
  <2>5. ASSUME l.index \in Suppliers PROVE Second(O)'
    <3>1. Mpsc!First(l.index) # -1
      BY <1>3, <1>10, <2>5
    <3>2. Mpsc!First(l.index) \in 0 .. up_to - 1
      BY <1>3, <1>10, <2>5, FirstIs DEF ChainTypes
    <3>3. \A e \in earlier[Mpsc!First(l.index)] : ~ (O[e] < 1)
      <4> TAKE e \in earlier[Mpsc!First(l.index)]
      <4>1. O[e] \in Suppliers
        BY <3>2, OlderIs
      <4> QED
        BY <4>1, Suppliers1
    <3>4. Mpsc!First(l.index) = memory[heads[r.prev]].count[memory[heads[r.prev]].read]
      BY <2>2 DEF Mpsc!First
    <3> QED
      BY <1>1, <2>2, <2>4, <3>1, <3>3, <3>4 DEF Second, Mpsc!First
  <2>6. Scanning(O)'
    BY <1>10, <2>2, <2>3, <2>4, <2>5, Suppliers1 DEF Scanning
  <2> QED
    BY <1>9, <2>1, <2>2, <2>6
<1>12. CASE l.prev = l.index /\ l.index = 0
  <2>1. my' = [my EXCEPT ![0] = Mpsc!NoCall] /\ to \in {"sleep", "scan"}
    <3>1. step' = [step EXCEPT ![0] = "sleep"] \/ step' = [step EXCEPT ![0] = "scan"]
      BY <1>12 DEF Mpsc!Judge, Mpsc!Go
    <3> QED
      BY <1>7, <1>12, <3>1 DEF Mpsc!Judge, Mpsc!Forget, ChainTypes
  <2>2. my'[0] = Mpsc!NoCall
    BY <1>10, <2>1
  <2>3. Scanning(O)'
    BY <1>8, <1>10, <2>1, <2>2, NoCallTypes, Suppliers1 DEF Scanning
  <2> QED
    BY <1>9, <1>10, <2>1, <2>3
<1>13. CASE l.prev = l.index /\ l.index # 0
  <2>1. my' = my /\ step' = [step EXCEPT ![0] = "take"] /\ l.index \in Suppliers
    BY <1>5, <1>13 DEF Mpsc!Judge, Mpsc!Go
  <2>2. step'[0] = "take"
    BY <2>1 DEF ChainTypes
  <2>3. l.min \in 0 .. up_to - 1 /\ Mpsc!First(l.index) = l.min
    BY <1>3, <1>10, <2>1, FirstIs DEF ChainTypes
  <2>4. ASSUME NEW e \in earlier[l.min] PROVE FALSE
    <3>1. e \in Nat /\ e < l.min /\ lowest_seen <= e /\ O[e] \in Suppliers
      BY <2>3, OlderIs
    <3>2. CASE l.min = lowest_seen
      BY <3>1, <3>2 DEF ChainTypes
    <3>3. CASE l.i \notin Suppliers /\ Second(O)
      <4>1. O[e] < l.i
        BY <1>3, <1>5, <3>1, <3>3, Suppliers1
      <4>2. l.min <= e
        BY <1>13, <2>3, <3>3, <4>1 DEF Second
      <4> QED
        BY <2>3, <3>1, <4>2
    <3> QED
      BY <1>4, <1>13, <2>1, <3>2, <3>3
  <2>5. earlier[l.min] = {}
    BY <2>4
  <2>6. my'[0] = l /\ my' = [my EXCEPT ![0] = l]
    BY <1>10, <2>1
  <2>7. Scanning(O)'
    BY <1>1, <1>3, <1>6, <2>1, <2>2, <2>5, <2>6, SMTT(40) DEF Scanning
  <2> QED
    BY <1>3, <1>9, <2>6, <2>7
<1> QED
  BY <1>11, <1>12, <1>13

-----------------------------------------------------------------------------
(* The suppliers *)

\* Suppliers do not disturb the consumer's look at the heads.
LEMMA ScanKept ==
  ASSUME Supplied, ChainTypes, NEW B, NEW lo, NEW hi, NEW O, Chains(B, lo, hi, O), NEW P,
         my'[0] = my[0], lowest_seen' = lowest_seen,
         step'[0] = step[0] \/ (step[0] = "asleep" /\ step'[0] = "check"),
         \A r \in Suppliers : Mpsc!First(r) # -1 =>
           memory'[heads'[r]].count[memory'[heads'[r]].read] = Mpsc!First(r),
         \A n \in 0 .. up_to - 1 : earlier'[n] = earlier[n] /\ P[n] = O[n]
  PROVE  Scanning(P)'
<1> DEFINE l == my[0]
<1>1. l \in Frames /\ up_to \in Nat /\ lowest_seen \in Nat
  BY DEF ChainTypes
<1>2. ASSUME l.prev \in Suppliers, Second(O) PROVE Second(P)'
  <2> DEFINE m == Mpsc!First(l.prev)
  <2>1. m # -1 /\ m \in 0 .. up_to - 1
    BY <1>1, <1>2, FirstIs DEF Second
  <2>2. memory'[heads'[l.prev]].count[memory'[heads'[l.prev]].read] = m
    BY <1>2, <2>1
  <2>3. earlier'[m] = earlier[m]
    BY <2>1
  <2>4. ASSUME NEW e \in earlier[m], P[e] < l.i PROVE l.min # -1 /\ l.min <= e
    <3>1. e \in Nat /\ e < m
      BY <2>1, OlderIs
    <3>2. e \in 0 .. up_to - 1
      BY <1>1, <2>1, <3>1
    <3>3. O[e] < l.i
      BY <2>4, <3>2
    <3> QED
      BY <1>2, <3>3 DEF Second
  <2> HIDE DEF m
  <2> QED
    BY <2>1, <2>2, <2>3, <2>4 DEF Second, Mpsc!First
<1>3. ASSUME l.index \in Suppliers, Mpsc!First(l.index) = l.min, l.min # -1
      PROVE  memory'[heads'[l.index]].count[memory'[heads'[l.index]].read] = l.min
  BY <1>3
<1>4. step'[0] \in {"idle", "sleep", "check", "asleep", "awake"} =>
        step[0] \in {"idle", "sleep", "check", "asleep", "awake"}
  OBVIOUS
<1>5. step'[0] \in {"scan", "judge", "take"} => step'[0] = step[0]
  OBVIOUS
<1>6. step[0] = "take" => l.min \in 0 .. up_to - 1
  <2>1. step[0] = "take" => l.index \in Suppliers /\ l.index # 0 /\ Mpsc!First(l.index) = l.min /\ l.min # -1
    BY Suppliers1 DEF Chains, Scanning
  <2> QED
    BY <1>1, <2>1, FirstIs
<1>7. step[0] = "take" => earlier'[l.min] = {}
  BY <1>6 DEF Chains, Scanning
<1>8. my'[0] = l /\ (l.index \in Suppliers => l.index # 0)
  BY Suppliers1
<1> HIDE DEF l
<1> QED
  BY <1>2, <1>3, <1>4, <1>5, <1>7, <1>8 DEF Chains, Scanning, Mpsc!First, l

\* A step of supplier p that writes nothing.
Stands(p) ==
  /\ memory' = memory /\ heads' = heads /\ tails' = tails /\ pool' = pool /\ my'[0] = my[0]
  /\ step'[0] = step[0] \/ (step[0] = "asleep" /\ step'[0] = "check")
  /\ lowest_seen' = lowest_seen
  /\ \A r \in Suppliers : r # p => Keeps(r)

\* Unless it draws.
LEMMA StandsKeep ==
  ASSUME Supplied, ChainTypes, NEW B, NEW lo, NEW hi, NEW O, Chains(B, lo, hi, O),
         NEW p \in Suppliers, Stands(p), up_to' = up_to, earlier' = earlier,
         step'[p] # "put", Writes(B, lo, hi)'
  PROVE  Chains(B, lo, hi, O)'
<1>1. Linked(B, lo, hi)' /\ Loose(B, lo, hi)' /\ Packed(B, lo, hi)' /\ Rings(B, lo, hi)'
  <2>1. /\ memory' = memory /\ heads' = heads /\ tails' = tails /\ pool' = pool
        /\ step[0] = "recycle" <=> step'[0] = "recycle"
        /\ step[0] = "recycle" => my'[0] = my[0]
    BY DEF Stands
  <2> QED
    BY <2>1, StillLinked DEF Chains
<1>2. Valued(B, lo, hi, O)' /\ Rising(B, lo, hi)' /\ Older(B, lo, hi)'
  <2>1. \A r \in Suppliers : step'[r] = "put" => step[r] = "put" /\ my'[r].min = my[r].min
    BY DEF Stands, Keeps
  <2> QED
    BY <2>1, StillOrdered DEF Stands, Chains
<1>3. \A r \in Suppliers : Mpsc!First(r) # -1 =>
        memory'[heads'[r]].count[memory'[heads'[r]].read] = Mpsc!First(r)
  BY DEF Stands, Mpsc!First
<1>4. Scanning(O)'
  BY <1>3, ScanKept DEF Stands
<1> QED
  BY <1>1, <1>2, <1>4 DEF Chains

\* The tail of a chain.
LEMMA Tails ==
  ASSUME Supplied, ChainTypes, NEW B, NEW lo, NEW hi, NEW O, Chains(B, lo, hi, O), NEW p \in Suppliers
  PROVE  /\ lo[p] \in Nat /\ hi[p] \in Nat /\ lo[p] <= hi[p] /\ \A k \in Nat : B[p][k] \in Buffers
         /\ tails[p] = B[p][hi[p]] /\ tails[p] \in Buffers
         /\ memory[tails[p]] \in Pieces /\ memory[tails[p]].write \in Nat
         /\ BufferSize \in Nat
<1>1. /\ lo[p] \in Nat /\ hi[p] \in Nat /\ lo[p] <= hi[p] /\ \A k \in Nat : B[p][k] \in Buffers
      /\ tails[p] = B[p][hi[p]]
  BY DEF Chains, Linked
<1>2. tails[p] \in Buffers
  BY <1>1
<1>3. memory[tails[p]] \in Pieces /\ BufferSize \in Nat
  BY <1>2 DEF ChainTypes, Supplied
<1> QED
  BY <1>1, <1>2, <1>3 DEF Pieces

LEMMA Enqueues ==
  ASSUME Supplied, ChainTypes, NEW B, NEW lo, NEW hi, NEW O, Chains(B, lo, hi, O),
         NEW p \in Suppliers, Mpsc!Enqueue(p)
  PROVE  ChainTypes' /\ Chains(B, lo, hi, O)'
<1> DEFINE full == memory[tails[p]].write = BufferSize - 1
           r == [my[p] EXCEPT !.made = @ + 1, !.buffer = tails[p]]
<1>1. /\ memory' = memory /\ heads' = heads /\ tails' = tails /\ pool' = pool
      /\ up_to' = up_to /\ lowest_seen' = lowest_seen /\ earlier' = earlier /\ sleeping' = sleeping
  BY DEF Mpsc!Enqueue, Mpsc!chains, Mpsc!shared
<1>2. step[p] = "idle" /\ step' = [step EXCEPT ![p] = IF full THEN "pool" ELSE "draw"]
  BY DEF Mpsc!Enqueue, Mpsc!Go
<1>3. my \in [Suppliers \cup {0} -> Frames] /\ my[p] \in Frames /\ p # 0
  BY Suppliers1 DEF ChainTypes
<1>4. my' = [my EXCEPT ![p] = r]
  BY <1>3 DEF Mpsc!Enqueue, Frames
<1>5. r \in Frames /\ r.buffer = tails[p]
  <2>1. tails[p] \in Buffers \cup {0}
    BY DEF ChainTypes
  <2>2. my[p].made + 1 \in Nat
    BY <1>3 DEF Frames
  <2> QED
    BY <1>3, <2>1, <2>2 DEF Frames
<1> HIDE DEF r
<1>6. my' \in [Suppliers \cup {0} -> Frames] /\ my'[p] = r
      /\ \A u \in Suppliers \cup {0} : u # p => my'[u] = my[u]
  BY <1>4, <1>5, MyTypes
<1>7. step' \in [Suppliers \cup {0} -> Stages] /\ step'[p] = (IF full THEN "pool" ELSE "draw")
      /\ \A u \in Suppliers \cup {0} : u # p => step'[u] = step[u]
  BY <1>2 DEF ChainTypes, Stages
<1>8. ChainTypes'
  BY <1>1, <1>6, <1>7 DEF ChainTypes
<1>9. Stands(p)
  BY <1>1, <1>3, <1>6, <1>7 DEF Stands, Keeps
<1>10. tails[p] \in Buffers /\ memory[tails[p]].write \in Nat /\ BufferSize \in Nat
  BY Tails
<1>11. Writes(B, lo, hi)'
  <2>1. ASSUME NEW s \in Suppliers
        PROVE  /\ step'[s] = "pool" => my'[s].buffer = tails[s] /\ memory[tails[s]].write = BufferSize - 1
               /\ step'[s] \in {"draw", "put"} =>
                    \/ my'[s].buffer = tails[s] /\ memory[tails[s]].write < BufferSize - 1
                    \/ /\ lo[s] < hi[s] /\ my'[s].buffer = B[s][hi[s] - 1]
                       /\ memory[my'[s].buffer].write = BufferSize - 1 /\ memory[tails[s]].write = 0
               /\ memory[tails[s]].write <= BufferSize - 1
               /\ \A k \in lo[s] .. hi[s] - 1 :
                    memory[B[s][k]].write = BufferSize
                      \/ (k = hi[s] - 1 /\ step'[s] \in {"draw", "put"} /\ my'[s].buffer = B[s][k])
    <3>1. CASE s = p
      BY <1>2, <1>5, <1>6, <1>7, <1>10, <3>1 DEF Chains, Writes, Open
    <3>2. CASE s # p
      BY <1>6, <1>7, <3>2 DEF Chains, Writes, Open
    <3> QED
      BY <3>1, <3>2
  <2> QED
    BY <1>1, <2>1 DEF Writes, Open
<1> QED
  BY <1>1, <1>7, <1>8, <1>9, <1>11, StandsKeep

LEMMA LooksAndNotifies ==
  ASSUME Supplied, ChainTypes, NEW B, NEW lo, NEW hi, NEW O, Chains(B, lo, hi, O),
         NEW p \in Suppliers, Mpsc!Look(p) \/ Mpsc!Notify(p)
  PROVE  ChainTypes' /\ Chains(B, lo, hi, O)'
<1>1. /\ memory' = memory /\ heads' = heads /\ tails' = tails /\ pool' = pool
      /\ up_to' = up_to /\ lowest_seen' = lowest_seen /\ earlier' = earlier /\ sleeping' = sleeping
  BY DEF Mpsc!Look, Mpsc!Notify, Mpsc!chains, Mpsc!shared
<1>2. my \in [Suppliers \cup {0} -> Frames] /\ my[p] \in Frames /\ p # 0 /\ step \in [Suppliers \cup {0} -> Stages]
      /\ 0 \notin Suppliers
  BY Suppliers1 DEF ChainTypes
<1>3. step[p] \in {"look", "notify"}
  BY DEF Mpsc!Look, Mpsc!Notify, Mpsc!Go
<1>4. /\ step' \in [Suppliers \cup {0} -> Stages] /\ step'[p] \in {"notify", "idle"}
      /\ \A s \in Suppliers : s # p => step'[s] = step[s]
      /\ step'[0] = step[0] \/ (step[0] = "asleep" /\ step'[0] = "check")
  <2>1. CASE Mpsc!Look(p)
    <3>1. step' = [step EXCEPT ![p] = IF sleeping THEN "notify" ELSE "idle"]
      BY <2>1 DEF Mpsc!Look, Mpsc!Go
    <3> QED
      BY <1>2, <3>1 DEF Stages
  <2>2. CASE Mpsc!Notify(p)
    <3>1. step' = [t \in Suppliers \cup {0} |->
                     IF t = p THEN "idle" ELSE IF t = 0 /\ step[t] = "asleep" THEN "check" ELSE step[t]]
      BY <1>2, <2>2 DEF Mpsc!Notify
    <3> QED
      BY <1>2, <3>1 DEF Stages
  <2> QED
    BY <2>1, <2>2
<1>5. /\ my' \in [Suppliers \cup {0} -> Frames]
      /\ \A u \in Suppliers \cup {0} : u # p => my'[u] = my[u]
  <2>1. CASE Mpsc!Look(p)
    <3> DEFINE r == [Mpsc!NoCall EXCEPT !.made = my[p].made]
    <3>1. my' = [my EXCEPT ![p] = r]
      BY <2>1 DEF Mpsc!Look
    <3>2. r \in Frames
      BY <1>2, NoCallTypes DEF Frames
    <3> HIDE DEF r
    <3> QED
      BY <3>1, <3>2, MyTypes
  <2>2. CASE Mpsc!Notify(p)
    BY <1>2, <2>2 DEF Mpsc!Notify
  <2> QED
    BY <2>1, <2>2
<1>6. ChainTypes'
  BY <1>1, <1>4, <1>5 DEF ChainTypes
<1>7. Stands(p)
  BY <1>1, <1>2, <1>4, <1>5 DEF Stands, Keeps
<1>8. Writes(B, lo, hi)'
  <2>1. ASSUME NEW s \in Suppliers
        PROVE  /\ step'[s] = "pool" => my'[s].buffer = tails[s] /\ memory[tails[s]].write = BufferSize - 1
               /\ step'[s] \in {"draw", "put"} =>
                    \/ my'[s].buffer = tails[s] /\ memory[tails[s]].write < BufferSize - 1
                    \/ /\ lo[s] < hi[s] /\ my'[s].buffer = B[s][hi[s] - 1]
                       /\ memory[my'[s].buffer].write = BufferSize - 1 /\ memory[tails[s]].write = 0
               /\ memory[tails[s]].write <= BufferSize - 1
               /\ \A k \in lo[s] .. hi[s] - 1 :
                    memory[B[s][k]].write = BufferSize
                      \/ (k = hi[s] - 1 /\ step'[s] \in {"draw", "put"} /\ my'[s].buffer = B[s][k])
    <3>1. CASE s = p
      BY <1>3, <1>4, <3>1 DEF Chains, Writes, Open
    <3>2. CASE s # p
      BY <1>4, <1>5, <3>2 DEF Chains, Writes, Open
    <3> QED
      BY <3>1, <3>2
  <2> QED
    BY <1>1, <2>1 DEF Writes, Open
<1> QED
  BY <1>1, <1>4, <1>6, <1>7, <1>8, StandsKeep

\* A number is drawn.
LEMMA NumberDrawn ==
  ASSUME Supplied, ChainTypes, NEW B, NEW lo, NEW hi, NEW O, Chains(B, lo, hi, O),
         NEW p \in Suppliers, Mpsc!Draw(p)
  PROVE  ChainTypes' /\ \E P : Chains(B, lo, hi, P)'
<1> DEFINE r == [my[p] EXCEPT !.min = up_to]
<1>1. /\ memory' = memory /\ heads' = heads /\ tails' = tails /\ pool' = pool
      /\ up_to' = up_to + 1 /\ lowest_seen' = lowest_seen /\ sleeping' = sleeping
      /\ earlier' = [n \in 0 .. up_to |-> IF n = up_to THEN Mpsc!Stored ELSE earlier[n]]
  BY DEF Mpsc!Draw, Mpsc!chains
<1>2. step[p] = "draw" /\ step' = [step EXCEPT ![p] = "put"] /\ my' = [my EXCEPT ![p] = r]
  BY DEF Mpsc!Draw, Mpsc!Go
<1>3. my \in [Suppliers \cup {0} -> Frames] /\ my[p] \in Frames /\ p # 0 /\ up_to \in Nat /\ lowest_seen \in Nat
  BY Suppliers1 DEF ChainTypes
<1>4. r \in Frames /\ r.buffer = my[p].buffer /\ r.min = up_to
  <2>1. up_to \in Counts
    BY <1>3 DEF Counts
  <2> QED
    BY <1>3, <2>1 DEF Frames
<1> HIDE DEF r
<1>5. my' \in [Suppliers \cup {0} -> Frames] /\ my'[p] = r
      /\ \A u \in Suppliers \cup {0} : u # p => my'[u] = my[u]
  BY <1>2, <1>4, MyTypes
<1>6. step' \in [Suppliers \cup {0} -> Stages] /\ step'[p] = "put"
      /\ \A u \in Suppliers \cup {0} : u # p => step'[u] = step[u]
  BY <1>2 DEF ChainTypes, Stages
<1>7. ASSUME NEW e PROVE e \in Mpsc!Stored <=> There(e, B, lo, hi)
  BY StoredIs DEF Chains
<1>8. ASSUME NEW e, There(e, B, lo, hi) PROVE e \in Nat /\ e < up_to
  <2>1. PICK s \in Suppliers : \E k \in lo[s] .. hi[s] : \E j \in Filled(B[s][k]) : memory[B[s][k]].count[j] = e
    BY <1>8 DEF There
  <2>2. PICK k \in lo[s] .. hi[s] : \E j \in Filled(B[s][k]) : memory[B[s][k]].count[j] = e
    BY <2>1
  <2>3. PICK j \in Filled(B[s][k]) : memory[B[s][k]].count[j] = e
    BY <2>2
  <2>4. lowest_seen <= e /\ e < up_to
    BY <2>3 DEF Chains, Valued
  <2>5. B[s][k] \in Buffers
    BY DEF Chains, Linked
  <2>6. memory[B[s][k]] \in Pieces /\ BufferSize \in Nat
    BY <2>5 DEF ChainTypes, Supplied
  <2>7. j \in Cells
    BY <2>3, <2>6, SMTT(40) DEF Filled, Pieces, Cells
  <2>8. e \in Counts
    BY <2>3, <2>6, <2>7 DEF Pieces
  <2> QED
    BY <1>3, <2>4, <2>8 DEF Counts
<1>9. earlier' \in [0 .. up_to' - 1 -> SUBSET Nat]
  <2>1. Mpsc!Stored \in SUBSET Nat
    BY <1>7, <1>8
  <2>2. earlier \in [0 .. up_to - 1 -> SUBSET Nat] /\ up_to' - 1 = up_to
    BY <1>1, <1>3 DEF ChainTypes
  <2>3. \A n \in 0 .. up_to : n # up_to => n \in 0 .. up_to - 1
    BY <1>3
  <2> QED
    BY <1>1, <2>1, <2>2, <2>3
<1>10. ChainTypes'
  BY <1>1, <1>3, <1>5, <1>6, <1>9 DEF ChainTypes
<1>11. PICK P \in [Nat -> Suppliers] : P[up_to] = p /\ \A n \in 0 .. up_to - 1 : P[n] = O[n]
  <2>1. O \in [Nat -> Suppliers]
    BY DEF Chains, Valued
  <2> DEFINE P == [n \in Nat |-> IF n = up_to THEN p ELSE O[n]]
  <2>2. P \in [Nat -> Suppliers] /\ P[up_to] = p /\ \A n \in 0 .. up_to - 1 : P[n] = O[n]
    BY <1>3, <2>1
  <2> QED
    BY <2>2
<1>12. Linked(B, lo, hi)' /\ Loose(B, lo, hi)' /\ Packed(B, lo, hi)' /\ Rings(B, lo, hi)'
  <2>1. /\ memory' = memory /\ heads' = heads /\ tails' = tails /\ pool' = pool
        /\ step[0] = "recycle" <=> step'[0] = "recycle"
        /\ step[0] = "recycle" => my'[0] = my[0]
    BY <1>1, <1>3, <1>5, <1>6
  <2> QED
    BY <2>1, StillLinked DEF Chains
<1>13. Writes(B, lo, hi)'
  <2>1. \A s \in Suppliers : my'[s].buffer = my[s].buffer
    BY <1>4, <1>5
  <2>2. \A s \in Suppliers : step'[s] \in {"draw", "put"} <=> step[s] \in {"draw", "put"}
    BY <1>2, <1>6
  <2>3. \A s \in Suppliers : step'[s] = "pool" => step[s] = "pool"
    BY <1>6
  <2> QED
    BY <1>1, <2>1, <2>2, <2>3 DEF Chains, Writes, Open
<1>14. \A b : Filled(b)' = Filled(b)
  BY <1>1 DEF Filled
<1>15. Valued(B, lo, hi, P)'
  <2>1. ASSUME NEW s \in Suppliers, NEW k \in lo[s] .. hi[s], NEW j \in Filled(B[s][k])
        PROVE  LET n == memory[B[s][k]].count[j] IN
               /\ lowest_seen <= n /\ n < up_to + 1 /\ P[n] = s
               /\ step'[s] = "put" => n < my'[s].min
    <3> DEFINE n == memory[B[s][k]].count[j]
    <3>1. n \in Nat /\ n < up_to
      BY <1>8 DEF There
    <3>2. lowest_seen <= n /\ O[n] = s /\ (step[s] = "put" => n < my[s].min)
      BY DEF Chains, Valued
    <3>3. P[n] = s
      BY <1>3, <1>11, <3>1, <3>2
    <3> HIDE DEF n
    <3>4. step'[s] = "put" => n < my'[s].min
      BY <1>4, <1>5, <1>6, <3>1, <3>2
    <3> QED
      BY <1>3, <3>1, <3>2, <3>3, <3>4 DEF n
  <2>2. ASSUME NEW s \in Suppliers, step'[s] = "put"
        PROVE  my'[s].min \in Nat /\ lowest_seen <= my'[s].min /\ my'[s].min < up_to + 1 /\ P[my'[s].min] = s
    <3>1. CASE s = p
      <4>1. lowest_seen <= up_to
        BY DEF Chains, Valued
      <4> QED
        BY <1>3, <1>4, <1>5, <1>11, <3>1, <4>1
    <3>2. CASE s # p
      <4>1. step[s] = "put" /\ my'[s] = my[s]
        BY <1>5, <1>6, <2>2, <3>2
      <4>2. my[s].min \in Nat /\ lowest_seen <= my[s].min /\ my[s].min < up_to /\ O[my[s].min] = s
        BY <4>1 DEF Chains, Valued
      <4> QED
        BY <1>3, <1>11, <4>1, <4>2
    <3> QED
      BY <3>1, <3>2
  <2>3. lowest_seen <= up_to + 1
    BY <1>3 DEF Chains, Valued
  <2> QED
    BY <1>1, <1>11, <1>14, <2>1, <2>2, <2>3 DEF Valued
<1>16. Rising(B, lo, hi)'
  BY <1>1, <1>14, SMTT(40) DEF Chains, Rising
<1>17. Older(B, lo, hi)'
  <2>1. \A e : There(e, B, lo, hi)' <=> There(e, B, lo, hi)
    BY <1>1, <1>14 DEF There
  <2>2. ASSUME NEW n \in 0 .. up_to, NEW e \in earlier'[n] PROVE e < n /\ There(e, B, lo, hi)
    <3>1. CASE n = up_to
      BY <1>1, <1>7, <1>8, <3>1
    <3>2. CASE n # up_to
      <4>1. n \in 0 .. up_to - 1 /\ e \in earlier[n]
        BY <1>1, <1>3, <2>2, <3>2
      <4> QED
        BY <4>1 DEF Chains, Older
    <3> QED
      BY <3>1, <3>2
  <2>3. 0 .. up_to' - 1 = 0 .. up_to
    BY <1>1, <1>3
  <2> QED
    BY <2>1, <2>2, <2>3 DEF Older
<1>18. Scanning(P)'
  <2>1. \A n \in 0 .. up_to - 1 : earlier'[n] = earlier[n] /\ P[n] = O[n]
    BY <1>1, <1>3, <1>11
  <2>2. \A s \in Suppliers : Mpsc!First(s) # -1 =>
          memory'[heads'[s]].count[memory'[heads'[s]].read] = Mpsc!First(s)
    BY <1>1 DEF Mpsc!First
  <2>3. my'[0] = my[0] /\ step'[0] = step[0]
    BY <1>3, <1>5, <1>6
  <2>4. step'[0] = step[0] \/ (step[0] = "asleep" /\ step'[0] = "check")
    BY <2>3
  <2>5. lowest_seen' = lowest_seen
    BY <1>1
  <2> QED
    BY <2>1, <2>2, <2>3, <2>4, <2>5, ScanKept
<1> QED
  BY <1>10, <1>12, <1>13, <1>15, <1>16, <1>17, <1>18 DEF Chains

\* Where a supplier that has drawn writes.
LEMMA WritesHere ==
  ASSUME Supplied, ChainTypes, NEW B, NEW lo, NEW hi, NEW O, Chains(B, lo, hi, O),
         NEW p \in Suppliers, step[p] \in {"draw", "put"}
  PROVE  \E h \in lo[p] .. hi[p] :
           /\ my[p].buffer = B[p][h] /\ B[p][h] \in Buffers /\ memory[B[p][h]] \in Pieces
           /\ \/ h = hi[p] /\ memory[B[p][h]].write < BufferSize - 1
              \/ h = hi[p] - 1 /\ memory[B[p][h]].write = BufferSize - 1 /\ memory[B[p][hi[p]]].write = 0
<1>1. /\ lo[p] \in Nat /\ hi[p] \in Nat /\ lo[p] <= hi[p] /\ \A k \in Nat : B[p][k] \in Buffers
      /\ tails[p] = B[p][hi[p]] /\ BufferSize \in Nat
  BY Tails
<1>2. \A k \in Nat : memory[B[p][k]] \in Pieces
  BY <1>1 DEF ChainTypes
<1>3. CASE my[p].buffer = tails[p] /\ memory[tails[p]].write < BufferSize - 1
  BY <1>1, <1>2, <1>3
<1>4. CASE /\ lo[p] < hi[p] /\ my[p].buffer = B[p][hi[p] - 1]
           /\ memory[my[p].buffer].write = BufferSize - 1 /\ memory[tails[p]].write = 0
  <2>1. hi[p] - 1 \in lo[p] .. hi[p]
    BY <1>1, <1>4
  <2> QED
    BY <1>1, <1>2, <1>4, <2>1
<1> QED
  BY <1>3, <1>4 DEF Chains, Writes

\* An item is written: the last of its chain.
LEMMA Puts ==
  ASSUME Supplied, ChainTypes, NEW B, NEW lo, NEW hi, NEW O, Chains(B, lo, hi, O),
         NEW p \in Suppliers, Mpsc!Put(p)
  PROVE  ChainTypes' /\ Chains(B, lo, hi, O)'
<1>0. PICK b, w, m : b = my[p].buffer /\ w = memory[b].write /\ m = my[p].min
  OBVIOUS
<1>1. /\ memory' = [memory EXCEPT ![b].count[w] = m, ![b].write = @ + 1]
      /\ heads' = heads /\ tails' = tails /\ pool' = pool /\ my' = my
      /\ up_to' = up_to /\ lowest_seen' = lowest_seen /\ sleeping' = sleeping /\ earlier' = earlier
  BY <1>0 DEF Mpsc!Put, Mpsc!shared
<1>2. step[p] = "put" /\ step' = [step EXCEPT ![p] = "look"]
  BY DEF Mpsc!Put, Mpsc!Go
<1>3. step' \in [Suppliers \cup {0} -> Stages] /\ step'[p] = "look"
      /\ \A u \in Suppliers \cup {0} : u # p => step'[u] = step[u]
  BY <1>2 DEF ChainTypes, Stages
<1>4. PICK h \in lo[p] .. hi[p] :
           /\ b = B[p][h] /\ B[p][h] \in Buffers /\ memory[B[p][h]] \in Pieces
           /\ \/ h = hi[p] /\ memory[B[p][h]].write < BufferSize - 1
              \/ h = hi[p] - 1 /\ memory[B[p][h]].write = BufferSize - 1 /\ memory[B[p][hi[p]]].write = 0
  BY <1>0, <1>2, WritesHere
<1>5. b \in Buffers /\ memory[b] \in Pieces /\ memory \in [Buffers -> Pieces] /\ BufferSize \in Nat \ {0}
  BY <1>4 DEF ChainTypes, Supplied
<1>6. w \in Nat /\ w <= BufferSize - 1 /\ w \in Cells
  BY <1>0, <1>4, <1>5 DEF Pieces, Cells
<1>7. m \in Nat /\ lowest_seen <= m /\ m < up_to /\ O[m] = p
  BY <1>0, <1>2 DEF Chains, Valued
<1>8. up_to \in Nat /\ lowest_seen \in Nat /\ p # 0 /\ 0 \notin Suppliers
  BY Suppliers1 DEF ChainTypes
<1>31. PICK n : n = [memory[b] EXCEPT !.count = [memory[b].count EXCEPT ![w] = m], !.write = w + 1]
  BY SMTT(40)
<1>9. memory' = [memory EXCEPT ![b] = n]
  BY <1>0, <1>1, <1>5, <1>31 DEF Pieces
<1>10. /\ n \in Pieces /\ n.read = memory[b].read /\ n.next = memory[b].next /\ n.write = w + 1
       /\ n.count[w] = m /\ \A j \in Cells : j # w => n.count[j] = memory[b].count[j]
  <2>1. m \in Counts /\ w + 1 \in 0 .. BufferSize
    BY <1>5, <1>6, <1>7 DEF Counts
  <2>2. [memory[b].count EXCEPT ![w] = m] \in [Cells -> Counts]
    BY <1>5, <2>1 DEF Pieces
  <2> QED
    BY <1>5, <1>6, <1>31, <2>1, <2>2 DEF Pieces
<1>11. /\ memory' \in [Buffers -> Pieces] /\ memory'[b] = n
       /\ \A c \in Buffers : c # b => memory'[c] = memory[c]
  BY <1>5, <1>9, <1>10
<1>12. ChainTypes'
  BY <1>1, <1>3, <1>11 DEF ChainTypes
<1>13. \A c \in Buffers : memory'[c].next = memory[c].next /\ memory'[c].read = memory[c].read
  BY <1>10, <1>11
<1>14. \A s \in Suppliers : /\ lo[s] \in Nat /\ hi[s] \in Nat /\ lo[s] <= hi[s] /\ \A k \in Nat : B[s][k] \in Buffers
                            /\ heads[s] = B[s][lo[s]] /\ tails[s] = B[s][hi[s]]
  BY DEF Chains, Linked
<1>15. \A s \in Suppliers : \A k \in lo[s] .. hi[s] : B[s][k] = b => s = p /\ k = h
  BY <1>4, SMTT(40) DEF Chains, Linked
<1>16. memory[b].read \in Nat /\ memory[b].read <= w /\ memory[b].read < BufferSize
       /\ \A j \in Cells : j >= memory[b].read => (memory[b].count[j] # -1 <=> j < w)
  BY <1>0, <1>4, <1>5 DEF Chains, Packed, Pieces
<1>17. memory[b].count[w] = -1
  BY <1>6, <1>16
<1>18. Filled(b)' = memory[b].read .. w
  BY <1>6, <1>10, <1>11 DEF Filled
<1>19. \A c \in Buffers : c # b => Filled(c)' = Filled(c)
  BY <1>11 DEF Filled
\* What is there to be read.
<1>20. ASSUME NEW s \in Suppliers, NEW k \in lo[s] .. hi[s], NEW j \in Filled(B[s][k])'
       PROVE  \/ s = p /\ k = h /\ j = w /\ memory'[B[s][k]].count[j] = m
              \/ /\ j \in Filled(B[s][k]) /\ memory'[B[s][k]].count[j] = memory[B[s][k]].count[j]
                 /\ ~ (s = p /\ k = h /\ j = w)
  <2>1. CASE B[s][k] = b
    <3>1. j \in memory[b].read .. w /\ s = p /\ k = h
      BY <1>15, <1>18, <2>1
    <3>2. j = w \/ (j \in Filled(b) /\ j \in Cells)
      BY <1>0, <1>5, <1>6, <1>16, <3>1 DEF Filled, Cells
    <3> QED
      BY <1>10, <1>11, <2>1, <3>1, <3>2
  <2>2. CASE B[s][k] # b
    BY <1>4, <1>11, <1>14, <1>19, <2>2
  <2> QED
    BY <2>1, <2>2
<1>21. ASSUME NEW s \in Suppliers, NEW k \in lo[s] .. hi[s], NEW j \in Filled(B[s][k])
       PROVE  j \in Filled(B[s][k])' /\ memory'[B[s][k]].count[j] = memory[B[s][k]].count[j]
  <2>1. CASE B[s][k] = b
    <3>1. j \in memory[b].read .. w - 1
      BY <1>0, <2>1 DEF Filled
    <3>2. j \in memory[b].read .. w /\ j \in Cells /\ j # w
      BY <1>5, <1>6, <1>16, <3>1 DEF Cells
    <3> QED
      BY <1>10, <1>11, <1>18, <2>1, <3>2
  <2>2. CASE B[s][k] # b
    BY <1>11, <1>14, <1>19, <2>2
  <2> QED
    BY <2>1, <2>2
<1>22. Linked(B, lo, hi)'
  <2>1. \A s \in Suppliers : \A k \in lo[s] .. hi[s] : memory'[B[s][k]].next = memory[B[s][k]].next
    BY <1>13, <1>14
  <2>2. \A s \in Suppliers : hi[s] \in lo[s] .. hi[s] /\ \A k \in lo[s] .. hi[s] - 1 : k \in lo[s] .. hi[s]
    BY <1>14
  <2>3. ASSUME NEW s \in Suppliers
        PROVE  /\ memory'[B[s][hi[s]]].next = 0
               /\ \A k \in lo[s] .. hi[s] - 1 : memory'[B[s][k]].next = B[s][k + 1]
    BY <2>1, <2>2, SMTT(40) DEF Chains, Linked
  <2>4. heads' = heads /\ tails' = tails
    BY <1>1
  <2> QED
    BY <2>3, <2>4 DEF Chains, Linked
<1>23. Loose(B, lo, hi)'
  <2>1. InChain(b, B, lo, hi)
    BY <1>4 DEF InChain
  <2>2. ASSUME NEW c \in Buffers PROVE InChain(c, B, lo, hi) \/ memory'[c] = Mpsc!NewBuffer
                                       \/ (step'[0] = "recycle" /\ c = my'[0].buffer)
    BY <1>1, <1>3, <1>8, <1>11, <2>1 DEF Chains, Loose
  <2>3. step'[0] = "recycle" => /\ my'[0].buffer \in Buffers /\ ~ InChain(my'[0].buffer, B, lo, hi)
           /\ my'[0].index \in Suppliers /\ memory'[my'[0].buffer].next = heads'[my'[0].index]
    BY <1>1, <1>3, <1>8, <1>13 DEF Chains, Loose
  <2> QED
    BY <2>2, <2>3 DEF Loose, InChain
<1>24. Writes(B, lo, hi)'
  <2>1. ASSUME NEW s \in Suppliers
        PROVE  /\ step'[s] = "pool" => my'[s].buffer = tails[s] /\ memory'[tails[s]].write = BufferSize - 1
               /\ step'[s] \in {"draw", "put"} =>
                    \/ my'[s].buffer = tails[s] /\ memory'[tails[s]].write < BufferSize - 1
                    \/ /\ lo[s] < hi[s] /\ my'[s].buffer = B[s][hi[s] - 1]
                       /\ memory'[my'[s].buffer].write = BufferSize - 1 /\ memory'[tails[s]].write = 0
               /\ memory'[tails[s]].write <= BufferSize - 1
               /\ \A k \in lo[s] .. hi[s] - 1 :
                    memory'[B[s][k]].write = BufferSize
                      \/ (k = hi[s] - 1 /\ step'[s] \in {"draw", "put"} /\ my'[s].buffer = B[s][k])
    <3>1. CASE s = p
      <4>1. memory'[tails[p]].write <= BufferSize - 1
        <5>1. memory[tails[p]].write <= BufferSize - 1
          BY DEF Chains, Writes
        <5> QED
          <6>1. CASE tails[p] = b
            <7>1. h = hi[p]
              BY <1>14, <1>15, <6>1
            <7>2. w < BufferSize - 1
              BY <1>0, <1>4, <1>5, <1>6, <7>1
            <7> QED
              BY <1>5, <1>6, <1>10, <1>11, <6>1, <7>2
          <6>2. CASE tails[p] # b
            <7>1. tails[p] \in Buffers
              BY <1>14
            <7> QED
              BY <1>11, <5>1, <6>2, <7>1
          <6> QED
            BY <6>1, <6>2
      <4>2. ASSUME NEW k \in lo[p] .. hi[p] - 1 PROVE memory'[B[p][k]].write = BufferSize
        <5>1. k \in lo[p] .. hi[p] /\ k # hi[p] /\ B[p][k] \in Buffers
          BY <1>14
        <5>2. memory[B[p][k]].write = BufferSize \/ (k = hi[p] - 1 /\ b = B[p][k])
          BY <1>0, SMTT(40) DEF Chains, Writes, Open
        <5>3. CASE h = k
          BY <1>0, <1>4, <1>5, <1>6, <1>10, <1>11, <5>1, <5>3
        <5>4. CASE h # k
          BY <1>11, <1>15, <5>1, <5>2, <5>4
        <5> QED
          BY <5>3, <5>4
      <4> QED
        BY <1>3, <3>1, <4>1, <4>2
    <3>2. CASE s # p
      <4>1. \A k \in lo[s] .. hi[s] : memory'[B[s][k]] = memory[B[s][k]]
        BY <1>11, <1>14, <1>15, <3>2
      <4>2. memory'[tails[s]] = memory[tails[s]]
        BY <1>14, <4>1
      <4>3. \A k \in lo[s] .. hi[s] - 1 : memory'[B[s][k]] = memory[B[s][k]]
        BY <1>14, <4>1
      <4>4. lo[s] < hi[s] => memory'[B[s][hi[s] - 1]] = memory[B[s][hi[s] - 1]]
        BY <1>14, <4>3
      <4>5. step'[s] = step[s] /\ my'[s] = my[s]
        BY <1>1, <1>3, <3>2
      <4> QED
        BY <4>2, <4>3, <4>4, <4>5 DEF Chains, Writes, Open
    <3> QED
      BY <3>1, <3>2
  <2> QED
    BY <1>1, <2>1, ZenonT(40) DEF Writes, Open
<1>25. Packed(B, lo, hi)'
  <2>1. ASSUME NEW s \in Suppliers, NEW k \in lo[s] .. hi[s]
        PROVE  LET e == memory'[B[s][k]] IN
               /\ e.read <= e.write /\ e.read < BufferSize /\ (k > lo[s] => e.read = 0)
               /\ \A j \in Cells : j >= e.read => (e.count[j] # -1 <=> j < e.write)
    <3>1. CASE B[s][k] = b
      <4>1. k > lo[s] => memory[b].read = 0
        BY <3>1 DEF Chains, Packed
      <4>2. \A j \in Cells : j >= memory[b].read => (n.count[j] # -1 <=> j < w + 1)
        BY <1>6, <1>7, <1>10, <1>16 DEF Cells
      <4>3. memory'[B[s][k]] = n
        BY <1>11, <3>1
      <4>4. n.read <= n.write
        BY <1>6, <1>10, <1>16
      <4> QED
        BY <1>10, <1>16, <4>1, <4>2, <4>3, <4>4
    <3>2. CASE B[s][k] # b
      BY <1>11, <1>14, <3>2 DEF Chains, Packed
    <3> QED
      BY <3>1, <3>2
  <2> QED
    BY <2>1 DEF Packed
<1>26. Rings(B, lo, hi)'
  <2>1. \A s \in Suppliers : Mpsc!Ring(s)' = Mpsc!Ring(s)
    BY <1>1 DEF Mpsc!Ring
  <2>2. (step'[0] = "recycle" <=> step[0] = "recycle") /\ my'[0] = my[0]
    BY <1>1, <1>3, <1>8
  <2> QED
    BY <1>1, <2>1, <2>2 DEF Chains, Rings, InChain
<1>27. Valued(B, lo, hi, O)'
  <2>1. ASSUME NEW s \in Suppliers, NEW k \in lo[s] .. hi[s], NEW j \in Filled(B[s][k])'
        PROVE  LET e == memory'[B[s][k]].count[j] IN
               /\ lowest_seen <= e /\ e < up_to /\ O[e] = s
               /\ step'[s] = "put" => e < my'[s].min
    <3>1. CASE s = p /\ memory'[B[s][k]].count[j] = m
      BY <1>3, <1>7, <3>1
    <3>2. CASE j \in Filled(B[s][k]) /\ memory'[B[s][k]].count[j] = memory[B[s][k]].count[j]
      <4>1. LET e == memory[B[s][k]].count[j] IN
               /\ lowest_seen <= e /\ e < up_to /\ O[e] = s
               /\ step[s] = "put" => e < my[s].min
        BY <3>2 DEF Chains, Valued
      <4>2. step'[s] = "put" => step[s] = "put" /\ my'[s] = my[s]
        BY <1>1, <1>3
      <4> QED
        BY <3>2, <4>1, <4>2, SMTT(40)
    <3> QED
      BY <1>20, <3>1, <3>2
  <2>2. \A s \in Suppliers : step'[s] = "put" =>
          my'[s].min \in Nat /\ lowest_seen <= my'[s].min /\ my'[s].min < up_to /\ O[my'[s].min] = s
    <3>1. \A s \in Suppliers : step'[s] = "put" => step[s] = "put" /\ my'[s] = my[s]
      BY <1>1, <1>3
    <3> QED
      BY <3>1 DEF Chains, Valued
  <2>3. O \in [Nat -> Suppliers] /\ lowest_seen <= up_to
    BY DEF Chains, Valued
  <2>4. up_to' = up_to /\ lowest_seen' = lowest_seen
    BY <1>1
  <2> QED
    BY <2>1, <2>2, <2>3, <2>4 DEF Valued
<1>28. Rising(B, lo, hi)'
  <2>1. ASSUME NEW s \in Suppliers, NEW k \in lo[s] .. hi[s], NEW l \in lo[s] .. hi[s],
               NEW j \in Filled(B[s][k])', NEW v \in Filled(B[s][l])', k < l \/ (k = l /\ j < v)
        PROVE  memory'[B[s][k]].count[j] < memory'[B[s][l]].count[v]
    <3>1. CASE s = p /\ k = h /\ j = w
      <4>1. ASSUME k = l PROVE v \in memory[b].read .. w
        <5>1. v \in Filled(b)'
          BY <1>4, <3>1, <4>1
        <5> QED
          BY <1>18, <5>1
      <4>2. k < l
        BY <1>6, <1>16, <2>1, <3>1, <4>1
      <4>3. h = hi[p] - 1 /\ l = hi[p] /\ memory[B[p][hi[p]]].write = 0
        BY <1>4, <1>14, <3>1, <4>2
      <4>4. B[p][hi[p]] # b /\ B[p][hi[p]] \in Buffers
        BY <1>14, <1>15, <3>1, <4>2, <4>3
      <4>5. v \in memory[B[p][hi[p]]].read .. -1
        <5>1. v \in Filled(B[p][hi[p]])'
          BY <3>1, <4>3
        <5>2. v \in Filled(B[p][hi[p]])
          BY <1>19, <4>4, <5>1
        <5> QED
          BY <4>3, <5>2 DEF Filled
      <4>6. memory[B[p][hi[p]]].read \in Nat
        BY <1>5, <4>4 DEF Pieces
      <4> QED
        BY <4>5, <4>6
    <3>2. CASE j \in Filled(B[s][k]) /\ memory'[B[s][k]].count[j] = memory[B[s][k]].count[j]
      <4>1. CASE s = p /\ memory'[B[s][l]].count[v] = m
        BY <1>0, <1>2, <3>2, <4>1 DEF Chains, Valued
      <4>2. CASE v \in Filled(B[s][l]) /\ memory'[B[s][l]].count[v] = memory[B[s][l]].count[v]
        BY <2>1, <3>2, <4>2 DEF Chains, Rising
      <4> QED
        BY <1>20, <4>1, <4>2
    <3> QED
      BY <1>20, <3>1, <3>2
  <2> QED
    BY <2>1 DEF Rising
<1>29. Older(B, lo, hi)'
  <2>1. ASSUME NEW e, There(e, B, lo, hi) PROVE There(e, B, lo, hi)'
    BY <1>21, <2>1 DEF There
  <2> QED
    BY <1>1, <2>1 DEF Chains, Older
<1>30. Scanning(O)'
  <2>1. ASSUME NEW s \in Suppliers, Mpsc!First(s) # -1
        PROVE  memory'[heads'[s]].count[memory'[heads'[s]].read] = Mpsc!First(s)
    <3>1. heads[s] \in Buffers /\ heads'[s] = heads[s] /\ memory'[heads[s]].read = memory[heads[s]].read
      BY <1>1, <1>13, <1>14
    <3>2. CASE heads[s] # b
      BY <1>11, <3>1, <3>2 DEF Mpsc!First
    <3>3. CASE heads[s] = b
      <4>1. memory[b].read # w
        BY <1>17, <2>1, <3>3 DEF Mpsc!First
      <4>2. memory[b].read \in Cells
        BY <1>5, <1>16 DEF Cells
      <4> QED
        BY <1>10, <1>11, <3>1, <3>3, <4>1, <4>2 DEF Mpsc!First
    <3> QED
      BY <3>2, <3>3
  <2>2. \A e \in 0 .. up_to - 1 : earlier'[e] = earlier[e] /\ O[e] = O[e]
    BY <1>1
  <2>3. my'[0] = my[0] /\ lowest_seen' = lowest_seen
    BY <1>1
  <2>4. step'[0] = step[0] \/ (step[0] = "asleep" /\ step'[0] = "check")
    BY <1>3, <1>8
  <2> QED
    BY <2>1, <2>2, <2>3, <2>4, ScanKept
<1> QED
  BY <1>12, <1>22, <1>23, <1>24, <1>25, <1>26, <1>27, <1>28, <1>29, <1>30 DEF Chains

\* A ring gives up its first place; what is put in comes after its last.
LEMMA RingPops ==
  ASSUME Supplied, ChainTypes, NEW p \in Suppliers
  PROVE  /\ Mpsc!Ring(p) \subseteq 0 .. AllocationSize - 1
         /\ pool[p].read # pool[p].write =>
              LET a == pool[p].read  c == Mpsc!Around(a)  w == pool[p].write IN
              /\ a \in Mpsc!Ring(p) /\ c \in 0 .. AllocationSize - 1
              /\ IF c <= w THEN c .. w - 1 \subseteq Mpsc!Ring(p) \ {a}
                           ELSE (c .. AllocationSize - 1) \cup (0 .. w - 1) \subseteq Mpsc!Ring(p) \ {a}
<1>1. AllocationSize \in Nat \ {0}
  BY DEF Supplied
<1>2. PICK a, c, w : a = pool[p].read /\ c = Mpsc!Around(a) /\ w = pool[p].write
  OBVIOUS
<1>3. a \in 0 .. AllocationSize - 1 /\ w \in 0 .. AllocationSize - 1
  BY <1>2 DEF ChainTypes, Stacks
<1>4. c = IF a + 1 = AllocationSize THEN 0 ELSE a + 1
  <2>1. c = (a + 1) % AllocationSize
    BY <1>2 DEF Mpsc!Around
  <2> QED
    BY <1>1, <1>3, <2>1, NextRemainder
<1>5. Mpsc!Ring(p) = IF a <= w THEN a .. w - 1 ELSE (a .. AllocationSize - 1) \cup (0 .. w - 1)
  BY <1>2 DEF Mpsc!Ring
<1>6. Mpsc!Ring(p) \subseteq 0 .. AllocationSize - 1
  BY <1>1, <1>3, <1>5
<1>7. ASSUME a # w
      PROVE  /\ a \in Mpsc!Ring(p) /\ c \in 0 .. AllocationSize - 1
             /\ IF c <= w THEN c .. w - 1 \subseteq Mpsc!Ring(p) \ {a}
                          ELSE (c .. AllocationSize - 1) \cup (0 .. w - 1) \subseteq Mpsc!Ring(p) \ {a}
  <2>1. CASE a + 1 = AllocationSize
    <3>1. c = 0 /\ ~ (a <= w) /\ c <= w
      BY <1>1, <1>3, <1>4, <1>7, <2>1
    <3> QED
      BY <1>1, <1>3, <1>5, <2>1, <3>1
  <2>2. CASE a + 1 # AllocationSize
    <3>1. c = a + 1 /\ (c <= w <=> a <= w)
      BY <1>1, <1>3, <1>4, <1>7, <2>2
    <3> QED
      BY <1>1, <1>3, <1>5, <1>7, <2>2, <3>1
  <2> QED
    BY <2>1, <2>2
<1> QED
  BY <1>2, <1>6, <1>7

\* What a supplier gets for a next buffer is as new and in nobody's hands.
Handed(p, b, B, lo, hi) ==
  /\ memory[b] = Mpsc!NewBuffer /\ ~ InChain(b, B, lo, hi)
  /\ step[0] = "recycle" => b # my[0].buffer
  /\ \A s \in Suppliers : \A k \in Mpsc!Ring(s)' :
       k \in Mpsc!Ring(s) /\ pool'[s].items[k] = pool[s].items[k] /\ pool[s].items[k] # b
  /\ pool' \in [Suppliers -> Stacks]
  /\ tails' = [tails EXCEPT ![p] = b] /\ memory' = [memory EXCEPT ![my[p].buffer].next = b]

LEMMA PoolGives ==
  ASSUME Supplied, ChainTypes, NEW B, NEW lo, NEW hi, NEW O, Chains(B, lo, hi, O),
         NEW p \in Suppliers, Mpsc!PoolPop(p)
  PROVE  \E b \in Buffers : Handed(p, b, B, lo, hi)
<1>1. pool \in [Suppliers -> Stacks]
  BY DEF ChainTypes
<1>2. ASSUME NEW b \in Buffers, ~ InChain(b, B, lo, hi), step[0] = "recycle" => b # my[0].buffer
      PROVE  memory[b] = Mpsc!NewBuffer
  BY <1>2 DEF Chains, Loose
<1>3. CASE pool[p].read = pool[p].write
  <2> DEFINE b == Mpsc!New
  <2>1. Mpsc!Unused # {} /\ pool' = pool /\ tails' = [tails EXCEPT ![p] = b]
        /\ memory' = [memory EXCEPT ![my[p].buffer].next = b]
    BY <1>3 DEF Mpsc!PoolPop
  <2>2. b \in Mpsc!Unused
    BY <2>1 DEF Mpsc!New
  <2> HIDE DEF b
  <2>3. b \in Buffers /\ b \notin Mpsc!Chained /\ b \notin Mpsc!Pooled /\ b \notin {my[t].buffer : t \in DOMAIN my}
    BY <2>2 DEF Mpsc!Unused
  <2>4. ~ InChain(b, B, lo, hi)
    BY <2>3, StoredIs DEF Chains
  <2>5. 0 \in DOMAIN my
    BY DEF ChainTypes
  <2>6. b # my[0].buffer
    BY <2>3, <2>5
  <2>7. ASSUME NEW s \in Suppliers, NEW k \in Mpsc!Ring(s)' PROVE k \in Mpsc!Ring(s) /\ pool[s].items[k] # b
    <3>1. k \in Mpsc!Ring(s)
      BY <2>1 DEF Mpsc!Ring
    <3>2. k \in 0 .. AllocationSize - 1
      BY <3>1, RingPops
    <3> QED
      BY <2>3, <3>1, <3>2 DEF Mpsc!Pooled
  <2> QED
    BY <1>1, <1>2, <2>1, <2>3, <2>4, <2>6, <2>7 DEF Handed
<1>4. CASE pool[p].read # pool[p].write
  <2>0. PICK a, c, w : a = pool[p].read /\ c = Mpsc!Around(a) /\ w = pool[p].write
    OBVIOUS
  <2>1. PICK b : b = pool[p].items[a]
    OBVIOUS
  <2>2. pool' = [pool EXCEPT ![p].read = c] /\ tails' = [tails EXCEPT ![p] = b]
        /\ memory' = [memory EXCEPT ![my[p].buffer].next = b]
    BY <1>4, <2>0, <2>1 DEF Mpsc!PoolPop
  <2>3. /\ a \in Mpsc!Ring(p) /\ c \in 0 .. AllocationSize - 1
        /\ IF c <= w THEN c .. w - 1 \subseteq Mpsc!Ring(p) \ {a}
                     ELSE (c .. AllocationSize - 1) \cup (0 .. w - 1) \subseteq Mpsc!Ring(p) \ {a}
    BY <1>4, <2>0, RingPops
  <2>4. pool' \in [Suppliers -> Stacks] /\ pool'[p].read = c /\ pool'[p].write = w /\ pool'[p].items = pool[p].items
        /\ \A s \in Suppliers : s # p => pool'[s] = pool[s]
    <3>1. PICK n : n = [pool[p] EXCEPT !.read = c]
      OBVIOUS
    <3>2. pool' = [pool EXCEPT ![p] = n]
      BY <1>1, <2>2, <3>1 DEF Stacks
    <3>3. n \in Stacks /\ n.read = c /\ n.write = w /\ n.items = pool[p].items
      BY <1>1, <2>0, <2>3, <3>1 DEF Stacks
    <3> QED
      BY <1>1, <3>2, <3>3
  <2>5. Mpsc!Ring(p)' \subseteq Mpsc!Ring(p) \ {a}
    <3>1. Mpsc!Ring(p)' = IF c <= w THEN c .. w - 1 ELSE (c .. AllocationSize - 1) \cup (0 .. w - 1)
      BY <2>4 DEF Mpsc!Ring
    <3> QED
      BY <2>3, <3>1
  <2>6. \A s \in Suppliers : s # p => Mpsc!Ring(s)' = Mpsc!Ring(s)
    BY <2>4 DEF Mpsc!Ring
  <2>7. b \in Buffers /\ ~ InChain(b, B, lo, hi) /\ (step[0] = "recycle" => b # my[0].buffer)
    BY <2>1, <2>3 DEF Chains, Rings
  <2>8. ASSUME NEW s \in Suppliers, NEW k \in Mpsc!Ring(s)'
        PROVE  k \in Mpsc!Ring(s) /\ pool'[s].items[k] = pool[s].items[k] /\ pool[s].items[k] # b
    <3>1. k \in Mpsc!Ring(s) /\ ~ (s = p /\ k = a)
      BY <2>5, <2>6
    <3>2. pool[s].items[k] # b
      BY <2>1, <2>3, <3>1 DEF Chains, Rings
    <3> QED
      BY <2>4, <3>1, <3>2
  <2> QED
    BY <1>2, <2>2, <2>4, <2>7, <2>8 DEF Handed
<1> QED
  BY <1>3, <1>4

\* It becomes the tail.
LEMMA PoolPops ==
  ASSUME Supplied, ChainTypes, NEW B, NEW lo, NEW hi, NEW O, Chains(B, lo, hi, O),
         NEW p \in Suppliers, Mpsc!PoolPop(p)
  PROVE  ChainTypes' /\ \E C, H : Chains(C, lo, H, O)'
<1>0. PICK b \in Buffers : Handed(p, b, B, lo, hi)
  BY PoolGives
<1>1. /\ memory[b] = Mpsc!NewBuffer /\ ~ InChain(b, B, lo, hi)
      /\ step[0] = "recycle" => b # my[0].buffer
      /\ \A s \in Suppliers : \A k \in Mpsc!Ring(s)' :
           k \in Mpsc!Ring(s) /\ pool'[s].items[k] = pool[s].items[k] /\ pool[s].items[k] # b
      /\ pool' \in [Suppliers -> Stacks]
      /\ tails' = [tails EXCEPT ![p] = b] /\ memory' = [memory EXCEPT ![my[p].buffer].next = b]
  BY <1>0 DEF Handed
<1>2. /\ heads' = heads /\ my' = my /\ up_to' = up_to /\ lowest_seen' = lowest_seen
      /\ sleeping' = sleeping /\ earlier' = earlier
      /\ step[p] = "pool" /\ step' = [step EXCEPT ![p] = "draw"]
  BY DEF Mpsc!PoolPop, Mpsc!shared, Mpsc!Go
<1>3. step' \in [Suppliers \cup {0} -> Stages] /\ step'[p] = "draw"
      /\ \A u \in Suppliers \cup {0} : u # p => step'[u] = step[u]
  BY <1>2 DEF ChainTypes, Stages
<1>4. PICK a : a = my[p].buffer
  OBVIOUS
<1>5. a = tails[p] /\ memory[a].write = BufferSize - 1
  BY <1>2, <1>4 DEF Chains, Writes
<1>6. \A s \in Suppliers : /\ lo[s] \in Nat /\ hi[s] \in Nat /\ lo[s] <= hi[s] /\ \A k \in Nat : B[s][k] \in Buffers
                           /\ heads[s] = B[s][lo[s]] /\ tails[s] = B[s][hi[s]]
  BY DEF Chains, Linked
<1>7. a \in Buffers /\ memory \in [Buffers -> Pieces] /\ a = B[p][hi[p]] /\ hi[p] \in lo[p] .. hi[p]
  BY <1>5, <1>6 DEF ChainTypes
<1>8. BufferSize \in Nat \ {0} /\ p # 0 /\ 0 \notin Suppliers
  BY Suppliers1 DEF Supplied
<1>9. /\ memory' \in [Buffers -> Pieces] /\ memory'[a].next = b
      /\ \A c \in Buffers : c # a => memory'[c] = memory[c]
      /\ \A c \in Buffers : /\ memory'[c].count = memory[c].count /\ memory'[c].read = memory[c].read
                            /\ memory'[c].write = memory[c].write
  <2>1. PICK n : n = [memory[a] EXCEPT !.next = b]
    OBVIOUS
  <2>2. memory' = [memory EXCEPT ![a] = n]
    BY <1>1, <1>4, <1>7, <2>1 DEF Pieces
  <2>3. n \in Pieces /\ n.next = b /\ n.count = memory[a].count /\ n.read = memory[a].read /\ n.write = memory[a].write
    BY <1>1, <1>7, <2>1 DEF Pieces
  <2> QED
    BY <1>7, <2>2, <2>3
<1>10. ChainTypes'
  <2>1. tails' \in [Suppliers -> Buffers \cup {0}]
    BY <1>1 DEF ChainTypes
  <2> QED
    BY <1>1, <1>2, <1>3, <1>9, <2>1 DEF ChainTypes
<1>11. memory[b].read = 0 /\ memory[b].write = 0 /\ memory[b].next = 0 /\ \A j \in Cells : memory[b].count[j] = -1
  BY <1>1 DEF Mpsc!NewBuffer, Mpsc!Empty, Mpsc!None, Cells
<1>12. \A s \in Suppliers : \A k \in lo[s] .. hi[s] : B[s][k] # b
  BY <1>1 DEF InChain
<1>13. a # b
  BY <1>7, <1>12
\* The longer chain.
<1>14. PICK C, H : C = [B EXCEPT ![p] = [B[p] EXCEPT ![hi[p] + 1] = b]] /\ H = [hi EXCEPT ![p] = hi[p] + 1]
  OBVIOUS
<1>15. /\ C \in [Suppliers -> [Nat -> Buffers]] /\ H \in [Suppliers -> Nat] /\ lo \in [Suppliers -> Nat]
       /\ H[p] = hi[p] + 1 /\ C[p][hi[p] + 1] = b /\ \A k \in Nat : k # hi[p] + 1 => C[p][k] = B[p][k]
       /\ \A s \in Suppliers : s # p => C[s] = B[s] /\ H[s] = hi[s]
  <2>1. B \in [Suppliers -> [Nat -> Buffers]] /\ hi \in [Suppliers -> Nat] /\ lo \in [Suppliers -> Nat]
    BY DEF Chains, Linked
  <2>2. hi[p] + 1 \in Nat
    BY <1>6
  <2>3. [B[p] EXCEPT ![hi[p] + 1] = b] \in [Nat -> Buffers]
    BY <2>1
  <2> QED
    BY <1>14, <2>1, <2>2, <2>3
<1>16. ASSUME NEW s \in Suppliers, NEW k \in lo[s] .. H[s]
       PROVE  \/ s = p /\ k = hi[p] + 1 /\ C[s][k] = b
              \/ k \in lo[s] .. hi[s] /\ C[s][k] = B[s][k] /\ C[s][k] # b
  <2>1. CASE s = p /\ k = hi[p] + 1
    BY <1>15, <2>1
  <2>2. CASE s = p /\ k # hi[p] + 1
    BY <1>6, <1>12, <1>15, <2>2
  <2>3. CASE s # p
    BY <1>6, <1>12, <1>15, <2>3
  <2> QED
    BY <2>1, <2>2, <2>3
<1>17. ASSUME NEW s \in Suppliers, NEW k \in lo[s] .. hi[s]
       PROVE  k \in lo[s] .. H[s] /\ C[s][k] = B[s][k] /\ (s = p => k # hi[p] + 1)
  BY <1>6, <1>15
<1>18. ASSUME NEW c PROVE InChain(c, C, lo, H) <=> InChain(c, B, lo, hi) \/ c = b
  <2>1. ASSUME InChain(c, C, lo, H) PROVE InChain(c, B, lo, hi) \/ c = b
    BY <1>16, <2>1 DEF InChain
  <2>2. ASSUME InChain(c, B, lo, hi) PROVE InChain(c, C, lo, H)
    BY <1>17, <2>2 DEF InChain
  <2>3. hi[p] + 1 \in lo[p] .. H[p]
    BY <1>6, <1>15
  <2>4. InChain(b, C, lo, H)
    BY <1>15, <2>3 DEF InChain
  <2> QED
    BY <2>1, <2>2, <2>4
<1>19. tails' \in [Suppliers -> Buffers \cup {0}] /\ tails'[p] = b /\ \A s \in Suppliers : s # p => tails'[s] = tails[s]
  BY <1>1 DEF ChainTypes
<1>20. \A c \in Buffers : Filled(c)' = Filled(c)
  BY <1>9 DEF Filled
<1>21. Filled(b) = {}
  BY <1>11 DEF Filled
<1>22. ASSUME NEW s \in Suppliers, NEW k \in lo[s] .. H[s], NEW j \in Filled(C[s][k])'
       PROVE  /\ k \in lo[s] .. hi[s] /\ C[s][k] = B[s][k] /\ j \in Filled(B[s][k])
              /\ memory'[C[s][k]].count[j] = memory[B[s][k]].count[j]
  <2>1. C[s][k] # b
    BY <1>20, <1>21
  <2>2. k \in lo[s] .. hi[s] /\ C[s][k] = B[s][k] /\ B[s][k] \in Buffers
    BY <1>6, <1>16, <2>1
  <2> QED
    BY <1>9, <1>20, <2>2
<1>23. Linked(C, lo, H)'
  <2>1. ASSUME NEW s \in Suppliers
        PROVE  /\ lo[s] <= H[s] /\ heads'[s] = C[s][lo[s]] /\ tails'[s] = C[s][H[s]]
               /\ memory'[C[s][H[s]]].next = 0
               /\ \A k \in lo[s] .. H[s] - 1 : memory'[C[s][k]].next = C[s][k + 1]
    <3>1. lo[s] \in lo[s] .. hi[s] /\ hi[s] \in lo[s] .. hi[s] /\ lo[s] <= H[s]
      BY <1>6, <1>15
    <3>2. heads'[s] = C[s][lo[s]]
      BY <1>2, <1>6, <1>17, <3>1
    <3>3. CASE s = p
      <4>1. tails'[p] = C[p][H[p]] /\ memory'[b].next = 0
        BY <1>9, <1>11, <1>13, <1>15, <1>19
      <4>2. ASSUME NEW k \in lo[p] .. H[p] - 1 PROVE memory'[C[p][k]].next = C[p][k + 1]
        <5>1. k \in lo[p] .. hi[p]
          BY <1>6, <1>15
        <5>2. CASE k = hi[p]
          BY <1>7, <1>9, <1>15, <1>17, <5>1, <5>2
        <5>3. CASE k # hi[p]
          <6>1. k \in lo[p] .. hi[p] - 1 /\ k + 1 \in lo[p] .. hi[p]
            BY <1>6, <5>1, <5>3
          <6>2. memory[B[p][k]].next = B[p][k + 1] /\ B[p][k] # a
            BY <1>7, <5>1, <5>3, <6>1 DEF Chains, Linked
          <6>3. B[p][k] \in Buffers
            BY <1>6, <5>1
          <6> QED
            BY <1>9, <1>17, <5>1, <6>1, <6>2, <6>3
        <5> QED
          BY <5>2, <5>3
      <4> QED
        BY <1>15, <3>1, <3>2, <3>3, <4>1, <4>2
    <3>4. CASE s # p
      <4>1. C[s] = B[s] /\ H[s] = hi[s] /\ tails'[s] = tails[s]
        BY <1>15, <1>19, <3>4
      <4>2. \A k \in lo[s] .. hi[s] : B[s][k] \in Buffers /\ B[s][k] # a
        BY <1>6, <1>7, <3>4 DEF Chains, Linked
      <4>3. \A k \in lo[s] .. hi[s] : memory'[B[s][k]] = memory[B[s][k]]
        BY <1>9, <4>2
      <4>4. \A k \in lo[s] .. hi[s] - 1 : k \in lo[s] .. hi[s]
        BY <1>6
      <4>5. memory[B[s][hi[s]]].next = 0 /\ \A k \in lo[s] .. hi[s] - 1 : memory[B[s][k]].next = B[s][k + 1]
        BY DEF Chains, Linked
      <4> QED
        BY <1>6, <3>1, <3>2, <4>1, <4>3, <4>4, <4>5
    <3> QED
      BY <3>3, <3>4
  <2>2. ASSUME NEW s \in Suppliers, NEW r \in Suppliers, NEW k \in lo[s] .. H[s], NEW j \in lo[r] .. H[r],
               C[s][k] = C[r][j]
        PROVE  s = r /\ k = j
    <3>1. CASE C[s][k] = b
      <4>1. s = p /\ k = hi[p] + 1
        BY <1>16, <3>1
      <4>2. r = p /\ j = hi[p] + 1
        BY <1>16, <2>2, <3>1
      <4> QED
        BY <4>1, <4>2
    <3>2. CASE C[s][k] # b
      <4>1. k \in lo[s] .. hi[s] /\ C[s][k] = B[s][k]
        BY <1>16, <3>2
      <4>2. j \in lo[r] .. hi[r] /\ C[r][j] = B[r][j]
        BY <1>16, <2>2, <3>2
      <4>3. \A u, v \in Suppliers : \A x \in lo[u] .. hi[u], y \in lo[v] .. hi[v] :
              B[u][x] = B[v][y] => u = v /\ x = y
        BY DEF Chains, Linked
      <4>4. B[s][k] = B[r][j]
        BY <2>2, <4>1, <4>2
      <4> QED
        BY <4>1, <4>2, <4>3, <4>4
    <3> QED
      BY <3>1, <3>2
  <2> QED
    BY <1>15, <2>1, <2>2 DEF Linked
<1>24. Loose(C, lo, H)'
  <2>1. InChain(a, B, lo, hi)
    BY <1>7 DEF InChain
  <2>2. step'[0] = step[0] /\ my' = my
    BY <1>2, <1>3, <1>8
  <2>3. ASSUME NEW c \in Buffers
        PROVE  InChain(c, C, lo, H) \/ memory'[c] = Mpsc!NewBuffer \/ (step'[0] = "recycle" /\ c = my'[0].buffer)
    BY <1>9, <1>18, <2>1, <2>2 DEF Chains, Loose
  <2>4. step'[0] = "recycle" => /\ my'[0].buffer \in Buffers /\ ~ InChain(my'[0].buffer, C, lo, H)
           /\ my'[0].index \in Suppliers /\ memory'[my'[0].buffer].next = heads'[my'[0].index]
    <3>1. SUFFICES ASSUME step[0] = "recycle"
          PROVE  /\ my[0].buffer \in Buffers /\ ~ InChain(my[0].buffer, C, lo, H)
                 /\ my[0].index \in Suppliers /\ memory'[my[0].buffer].next = heads[my[0].index]
      BY <1>2, <2>2
    <3>2. /\ my[0].buffer \in Buffers /\ ~ InChain(my[0].buffer, B, lo, hi)
          /\ my[0].index \in Suppliers /\ memory[my[0].buffer].next = heads[my[0].index]
      BY <3>1 DEF Chains, Loose
    <3>3. my[0].buffer # b /\ my[0].buffer # a
      BY <1>1, <2>1, <3>1, <3>2
    <3> QED
      BY <1>9, <1>18, <3>2, <3>3
  <2> QED
    BY <2>3, <2>4 DEF Loose, InChain
<1>25. Writes(C, lo, H)'
  <2>1. ASSUME NEW s \in Suppliers
        PROVE  /\ step'[s] = "pool" => my'[s].buffer = tails'[s] /\ memory'[tails'[s]].write = BufferSize - 1
               /\ step'[s] \in {"draw", "put"} =>
                    \/ my'[s].buffer = tails'[s] /\ memory'[tails'[s]].write < BufferSize - 1
                    \/ /\ lo[s] < H[s] /\ my'[s].buffer = C[s][H[s] - 1]
                       /\ memory'[my'[s].buffer].write = BufferSize - 1 /\ memory'[tails'[s]].write = 0
               /\ memory'[tails'[s]].write <= BufferSize - 1
               /\ \A k \in lo[s] .. H[s] - 1 :
                    memory'[C[s][k]].write = BufferSize
                      \/ (k = H[s] - 1 /\ step'[s] \in {"draw", "put"} /\ my'[s].buffer = C[s][k])
    <3>1. CASE s = p
      <4>1. memory'[tails'[p]].write = 0 /\ 0 <= BufferSize - 1 /\ lo[p] < H[p]
        BY <1>6, <1>8, <1>9, <1>11, <1>15, <1>19
      <4>2. H[p] - 1 = hi[p] /\ C[p][hi[p]] = a /\ my'[p].buffer = a
        BY <1>2, <1>4, <1>6, <1>7, <1>15, <1>17
      <4>3. memory'[a].write = BufferSize - 1
        BY <1>5, <1>7, <1>9
      <4>4. ASSUME NEW k \in lo[p] .. hi[p] - 1 PROVE memory'[C[p][k]].write = BufferSize
        <5>1. memory[B[p][k]].write = BufferSize
          BY <1>2 DEF Chains, Writes, Open
        <5>2. k \in lo[p] .. hi[p] /\ B[p][k] \in Buffers
          BY <1>6
        <5> QED
          BY <1>9, <1>17, <5>1, <5>2
      <4>5. \A k \in lo[p] .. H[p] - 1 : k = hi[p] \/ k \in lo[p] .. hi[p] - 1
        BY <1>6, <1>15
      <4> QED
        BY <1>3, <3>1, <4>1, <4>2, <4>3, <4>4, <4>5
    <3>2. CASE s # p
      <4>1. C[s] = B[s] /\ H[s] = hi[s] /\ tails'[s] = tails[s] /\ step'[s] = step[s] /\ my'[s] = my[s]
        BY <1>2, <1>3, <1>15, <1>19, <3>2
      <4>2. \A k \in lo[s] .. hi[s] : memory'[B[s][k]].write = memory[B[s][k]].write
        BY <1>6, <1>9
      <4>3. memory'[tails[s]].write = memory[tails[s]].write
        BY <1>6, <4>2
      <4>4. \A k \in lo[s] .. hi[s] - 1 : memory'[B[s][k]].write = memory[B[s][k]].write
        BY <1>6, <4>2
      <4>5. lo[s] < hi[s] => memory'[B[s][hi[s] - 1]].write = memory[B[s][hi[s] - 1]].write
        BY <1>6, <4>4
      <4> QED
        BY <4>1, <4>3, <4>4, <4>5 DEF Chains, Writes, Open
    <3> QED
      BY <3>1, <3>2
  <2> QED
    BY <2>1 DEF Writes, Open
<1>26. Packed(C, lo, H)'
  <2>1. ASSUME NEW s \in Suppliers, NEW k \in lo[s] .. H[s]
        PROVE  LET e == memory'[C[s][k]] IN
               /\ e.read <= e.write /\ e.read < BufferSize /\ (k > lo[s] => e.read = 0)
               /\ \A j \in Cells : j >= e.read => (e.count[j] # -1 <=> j < e.write)
    <3>1. CASE C[s][k] = b
      <4>1. memory'[b] = memory[b]
        BY <1>9, <1>13
      <4>2. \A j \in Cells : ~ (j < 0)
        BY DEF Cells
      <4> QED
        BY <1>8, <1>11, <3>1, <4>1, <4>2
    <3>2. CASE C[s][k] # b
      <4>1. k \in lo[s] .. hi[s] /\ C[s][k] = B[s][k] /\ B[s][k] \in Buffers
        BY <1>6, <1>16, <3>2
      <4> QED
        BY <1>9, <4>1 DEF Chains, Packed
    <3> QED
      BY <3>1, <3>2
  <2> QED
    BY <2>1 DEF Packed
<1>27. Rings(C, lo, H)'
  <2>1. ASSUME NEW s \in Suppliers, NEW k \in Mpsc!Ring(s)'
        PROVE  LET c == pool'[s].items[k] IN
               /\ c \in Buffers /\ ~ InChain(c, C, lo, H) /\ (step'[0] = "recycle" => c # my'[0].buffer)
    <3>1. k \in Mpsc!Ring(s) /\ pool'[s].items[k] = pool[s].items[k] /\ pool[s].items[k] # b
      BY <1>1
    <3>2. step'[0] = step[0] /\ my' = my
      BY <1>2, <1>3, <1>8
    <3> QED
      BY <1>18, <3>1, <3>2 DEF Chains, Rings
  <2>2. ASSUME NEW s \in Suppliers, NEW r \in Suppliers, NEW k \in Mpsc!Ring(s)', NEW j \in Mpsc!Ring(r)',
               pool'[s].items[k] = pool'[r].items[j]
        PROVE  s = r /\ k = j
    BY <1>1, <2>2 DEF Chains, Rings
  <2> QED
    BY <2>1, <2>2 DEF Rings, InChain
<1>28. Valued(C, lo, H, O)'
  <2>0. step'[p] # "put" /\ up_to' = up_to /\ lowest_seen' = lowest_seen
        /\ \A s \in Suppliers : step'[s] = "put" => step[s] = "put" /\ my'[s] = my[s]
    BY <1>2, <1>3
  <2>1. ASSUME NEW s \in Suppliers, NEW k \in lo[s] .. H[s], NEW j \in Filled(C[s][k])'
        PROVE  LET e == memory'[C[s][k]].count[j] IN
               /\ lowest_seen <= e /\ e < up_to /\ O[e] = s
               /\ step'[s] = "put" => e < my'[s].min
    <3> DEFINE e == memory[B[s][k]].count[j]
    <3>1. k \in lo[s] .. hi[s] /\ j \in Filled(B[s][k]) /\ memory'[C[s][k]].count[j] = e
      BY <1>22
    <3>2. lowest_seen <= e /\ e < up_to /\ O[e] = s /\ (step[s] = "put" => e < my[s].min)
      BY <3>1 DEF Chains, Valued
    <3> HIDE DEF e
    <3> QED
      BY <2>0, <3>1, <3>2
  <2>2. \A s \in Suppliers : step'[s] = "put" =>
          my'[s].min \in Nat /\ lowest_seen <= my'[s].min /\ my'[s].min < up_to /\ O[my'[s].min] = s
    BY <2>0 DEF Chains, Valued
  <2>3. O \in [Nat -> Suppliers] /\ lowest_seen <= up_to
    BY DEF Chains, Valued
  <2> QED
    BY <2>0, <2>1, <2>2, <2>3 DEF Valued
<1>29. Rising(C, lo, H)'
  BY <1>22, SMTT(40) DEF Chains, Rising
<1>30. Older(C, lo, H)'
  <2>1. ASSUME NEW e, There(e, B, lo, hi) PROVE There(e, C, lo, H)'
    <3>1. PICK s \in Suppliers : \E k \in lo[s] .. hi[s] : \E j \in Filled(B[s][k]) : memory[B[s][k]].count[j] = e
      BY <2>1 DEF There
    <3>2. PICK k \in lo[s] .. hi[s] : \E j \in Filled(B[s][k]) : memory[B[s][k]].count[j] = e
      BY <3>1
    <3>3. PICK j \in Filled(B[s][k]) : memory[B[s][k]].count[j] = e
      BY <3>2
    <3>4. k \in lo[s] .. H[s] /\ C[s][k] = B[s][k] /\ B[s][k] \in Buffers
      BY <1>6, <1>17
    <3>5. j \in Filled(C[s][k])' /\ memory'[C[s][k]].count[j] = e
      BY <1>9, <1>20, <3>3, <3>4
    <3> QED
      BY <3>4, <3>5 DEF There
  <2> QED
    BY <1>2, <2>1 DEF Chains, Older
<1>31. Scanning(O)'
  <2>1. \A s \in Suppliers : heads[s] \in Buffers /\ heads'[s] = heads[s]
    BY <1>2, <1>6
  <2>2. \A s \in Suppliers : Mpsc!First(s) # -1 =>
          memory'[heads'[s]].count[memory'[heads'[s]].read] = Mpsc!First(s)
    BY <1>9, <2>1 DEF Mpsc!First
  <2>3. \A e \in 0 .. up_to - 1 : earlier'[e] = earlier[e] /\ O[e] = O[e]
    BY <1>2
  <2>4. my'[0] = my[0] /\ lowest_seen' = lowest_seen
    BY <1>2
  <2>5. step'[0] = step[0] \/ (step[0] = "asleep" /\ step'[0] = "check")
    BY <1>3, <1>8
  <2> QED
    BY <2>2, <2>3, <2>4, <2>5, ScanKept
<1> QED
  BY <1>10, <1>23, <1>24, <1>25, <1>26, <1>27, <1>28, <1>29, <1>30, <1>31 DEF Chains

\* The first of the chain is taken, and with the last of its buffer the buffer.
LEMMA Takes ==
  ASSUME Supplied, ChainTypes, NEW B, NEW lo, NEW hi, NEW O, Chains(B, lo, hi, O), Mpsc!Take
  PROVE  ChainTypes' /\ \E L : Chains(B, L, hi, O)'
<1>1. PICK x, m, b, r : x = my[0].index /\ m = my[0].min /\ b = heads[x] /\ r = memory[b].read
  OBVIOUS
<1>2. step[0] = "take" /\ step' = [step EXCEPT ![0] = IF r = BufferSize - 1 THEN "recycle" ELSE "idle"]
  BY <1>1 DEF Mpsc!Take, Mpsc!Go
<1>3. /\ memory' = [memory EXCEPT ![b].read = @ + 1]
      /\ heads' = IF r = BufferSize - 1 THEN [heads EXCEPT ![x] = memory[b].next] ELSE heads
      /\ IF r = BufferSize - 1 THEN my' = [my EXCEPT ![0].buffer = b] ELSE my' = [my EXCEPT ![0] = Mpsc!NoCall]
      /\ lowest_seen' = IF m = lowest_seen THEN lowest_seen + 1 ELSE lowest_seen
      /\ earlier' = [n \in DOMAIN earlier |-> earlier[n] \ {m}]
      /\ tails' = tails /\ pool' = pool /\ up_to' = up_to /\ sleeping' = sleeping
  BY <1>1 DEF Mpsc!Take, Mpsc!Forget
<1>4. \A s \in Suppliers : /\ lo[s] \in Nat /\ hi[s] \in Nat /\ lo[s] <= hi[s] /\ \A k \in Nat : B[s][k] \in Buffers
                           /\ heads[s] = B[s][lo[s]] /\ tails[s] = B[s][hi[s]] /\ lo[s] \in lo[s] .. hi[s]
  BY DEF Chains, Linked
<1>5. BufferSize \in Nat \ {0} /\ 0 \notin Suppliers /\ up_to \in Nat /\ lowest_seen \in Nat
  BY Suppliers1 DEF Supplied, ChainTypes
<1>6. x \in Suppliers /\ m # -1 /\ Mpsc!First(x) = m
  BY <1>1, <1>2, <1>5 DEF Chains, Scanning
<1>7. m \in Nat /\ lowest_seen <= m /\ m < up_to /\ O[m] = x
  BY <1>6, FirstIs
<1>8. b = B[x][lo[x]] /\ b \in Buffers /\ memory \in [Buffers -> Pieces] /\ memory[b] \in Pieces
  BY <1>1, <1>4, <1>6 DEF ChainTypes
<1>9. r \in Nat /\ memory[b].write \in Nat /\ memory[b].write <= BufferSize /\ r \in Cells /\ r < BufferSize
  <2>1. memory[b].read < BufferSize
    BY <1>4, <1>6, <1>8 DEF Chains, Packed
  <2>2. memory[b].read \in 0 .. BufferSize /\ memory[b].write \in 0 .. BufferSize
    BY <1>8 DEF Pieces
  <2> QED
    BY <1>1, <1>5, <2>1, <2>2 DEF Cells
<1>10. m = memory[b].count[r]
  BY <1>1, <1>6 DEF Mpsc!First
<1>11. r < memory[b].write /\ r \in Filled(b)
  <2>1. r < memory[b].write
    <3>1. \A j \in Cells : j >= memory[b].read => (memory[b].count[j] # -1 <=> j < memory[b].write)
      BY <1>4, <1>6, <1>8 DEF Chains, Packed
    <3>2. memory[b].count[r] # -1
      BY <1>6, <1>10
    <3>3. r >= memory[b].read
      BY <1>1, <1>9
    <3> QED
      BY <1>9, <3>1, <3>2, <3>3
  <2> QED
    BY <1>1, <1>9, <2>1 DEF Filled
<1>12. /\ memory' \in [Buffers -> Pieces] /\ memory'[b].read = r + 1
       /\ \A c \in Buffers : c # b => memory'[c] = memory[c]
       /\ \A c \in Buffers : /\ memory'[c].count = memory[c].count /\ memory'[c].next = memory[c].next
                             /\ memory'[c].write = memory[c].write
  <2>1. PICK n : n = [memory[b] EXCEPT !.read = r + 1]
    OBVIOUS
  <2>2. memory' = [memory EXCEPT ![b] = n]
    BY <1>1, <1>3, <1>8, <2>1 DEF Pieces
  <2>3. r + 1 \in 0 .. BufferSize
    BY <1>5, <1>9, SMTT(40)
  <2>4. n \in Pieces /\ n.read = r + 1 /\ n.count = memory[b].count /\ n.next = memory[b].next /\ n.write = memory[b].write
    BY <1>8, <2>1, <2>3 DEF Pieces
  <2> QED
    BY <1>8, <2>2, <2>4
<1>13. step' \in [Suppliers \cup {0} -> Stages] /\ step'[0] = (IF r = BufferSize - 1 THEN "recycle" ELSE "idle")
       /\ \A u \in Suppliers : step'[u] = step[u]
  <2>1. PICK to \in {"recycle", "idle"} : to = IF r = BufferSize - 1 THEN "recycle" ELSE "idle"
    OBVIOUS
  <2>2. step' = [step EXCEPT ![0] = to]
    BY <1>2, <2>1
  <2> QED
    BY <1>5, <2>1, <2>2 DEF ChainTypes, Stages
<1>14. /\ my' \in [Suppliers \cup {0} -> Frames] /\ \A u \in Suppliers : my'[u] = my[u]
       /\ r = BufferSize - 1 => my'[0].buffer = b /\ my'[0].index = x
       /\ r # BufferSize - 1 => my'[0] = Mpsc!NoCall
  <2>1. my \in [Suppliers \cup {0} -> Frames] /\ my[0] \in Frames /\ Mpsc!NoCall \in Frames
    BY NoCallTypes DEF ChainTypes
  <2>2. CASE r = BufferSize - 1
    <3>1. PICK n : n = [my[0] EXCEPT !.buffer = b]
      OBVIOUS
    <3>2. n \in Frames /\ n.buffer = b /\ n.index = x
      BY <1>1, <1>8, <2>1, <3>1 DEF Frames
    <3>3. my' = [my EXCEPT ![0] = n]
      BY <1>3, <2>1, <2>2, <3>1 DEF Frames
    <3> QED
      BY <1>5, <2>1, <2>2, <3>2, <3>3
  <2>3. CASE r # BufferSize - 1
    BY <1>3, <1>5, <2>1, <2>3
  <2> QED
    BY <2>2, <2>3
<1>15. lowest_seen' \in Nat
  BY <1>3, <1>5
<1>16. earlier' \in [0 .. up_to' - 1 -> SUBSET Nat] /\ \A n \in 0 .. up_to - 1 : earlier'[n] = earlier[n] \ {m}
  BY <1>3 DEF ChainTypes
<1>17. heads' \in [Suppliers -> Buffers \cup {0}] /\ \A s \in Suppliers : s # x => heads'[s] = heads[s]
  <2>1. heads \in [Suppliers -> Buffers \cup {0}] /\ memory[b].next \in Buffers \cup {0}
    BY <1>8 DEF ChainTypes, Pieces
  <2> QED
    BY <1>3, <2>1
<1>18. ChainTypes'
  BY <1>3, <1>12, <1>13, <1>14, <1>15, <1>16, <1>17 DEF ChainTypes
\* The chain, without its first buffer if that has been read.
<1>19. PICK L : L = IF r = BufferSize - 1 THEN [lo EXCEPT ![x] = lo[x] + 1] ELSE lo
  OBVIOUS
<1>20. /\ L \in [Suppliers -> Nat] /\ \A s \in Suppliers : s # x => L[s] = lo[s]
       /\ L[x] = IF r = BufferSize - 1 THEN lo[x] + 1 ELSE lo[x]
  <2>1. lo \in [Suppliers -> Nat] /\ lo[x] + 1 \in Nat
    BY <1>4, <1>6 DEF Chains, Linked
  <2> QED
    BY <1>6, <1>19, <2>1
<1>21. r = BufferSize - 1 => memory[b].write = BufferSize /\ lo[x] < hi[x]
  <2>1. memory[tails[x]].write <= BufferSize - 1
    BY <1>6 DEF Chains, Writes
  <2>2. r = BufferSize - 1 => memory[b].write = BufferSize
    BY <1>5, <1>9, <1>11
  <2>3. r = BufferSize - 1 => b # tails[x]
    BY <1>5, <2>1, <2>2
  <2> QED
    BY <1>4, <1>6, <1>8, <2>2, <2>3
<1>22. \A s \in Suppliers : L[s] <= hi[s] /\ L[s] >= lo[s] /\ L[s] \in Nat
  BY <1>4, <1>20, <1>21
<1>23. ASSUME NEW s \in Suppliers, NEW k \in L[s] .. hi[s]
       PROVE  k \in lo[s] .. hi[s] /\ B[s][k] \in Buffers /\ (r = BufferSize - 1 => B[s][k] # b)
  <2>1. k \in lo[s] .. hi[s] /\ B[s][k] \in Buffers
    BY <1>4, <1>22
  <2>2. ASSUME r = BufferSize - 1, B[s][k] = b PROVE FALSE
    <3>1. s = x /\ k = lo[x]
      BY <1>4, <1>6, <1>8, <2>1, <2>2 DEF Chains, Linked
    <3> QED
      BY <1>4, <1>20, <2>2, <3>1
  <2> QED
    BY <2>1, <2>2
<1>24. Filled(b)' = r + 1 .. memory[b].write - 1 /\ \A c \in Buffers : c # b => Filled(c)' = Filled(c)
  BY <1>8, <1>12 DEF Filled
<1>25. ASSUME NEW s \in Suppliers, NEW k \in lo[s] .. hi[s], B[s][k] = b PROVE s = x /\ k = lo[x]
  BY <1>4, <1>6, <1>8, <1>25 DEF Chains, Linked
\* What is there to be read.
<1>26. ASSUME NEW s \in Suppliers, NEW k \in L[s] .. hi[s], NEW j \in Filled(B[s][k])'
       PROVE  /\ k \in lo[s] .. hi[s] /\ j \in Filled(B[s][k]) /\ ~ (s = x /\ k = lo[x] /\ j = r)
              /\ memory'[B[s][k]].count[j] = memory[B[s][k]].count[j]
  <2>1. k \in lo[s] .. hi[s] /\ B[s][k] \in Buffers
    BY <1>23
  <2>2. CASE B[s][k] = b
    <3>1. j \in r + 1 .. memory[b].write - 1
      BY <1>24, <2>2
    <3>2. j # r /\ j \in r .. memory[b].write - 1
      BY <1>9, <3>1
    <3>3. j \in Filled(b)
      BY <1>1, <3>2 DEF Filled
    <3> QED
      BY <1>12, <2>1, <2>2, <3>2, <3>3
  <2>3. CASE B[s][k] # b
    BY <1>8, <1>12, <1>24, <2>1, <2>3
  <2> QED
    BY <2>2, <2>3
<1>27. ASSUME NEW s \in Suppliers, NEW k \in lo[s] .. hi[s], NEW j \in Filled(B[s][k]),
              memory[B[s][k]].count[j] # m
       PROVE  /\ k \in L[s] .. hi[s] /\ j \in Filled(B[s][k])'
              /\ memory'[B[s][k]].count[j] = memory[B[s][k]].count[j]
  <2>1. B[s][k] \in Buffers
    BY <1>4
  <2>2. CASE B[s][k] = b
    <3>1. s = x /\ k = lo[x] /\ j # r
      BY <1>10, <1>25, <1>27, <2>2
    <3>2. j \in r .. memory[b].write - 1
      BY <1>1, <2>2 DEF Filled
    <3>3. r # BufferSize - 1
      BY <1>5, <1>9, <3>1, <3>2
    <3>4. j \in r + 1 .. memory[b].write - 1
      BY <1>9, <3>1, <3>2
    <3>5. j \in Filled(B[s][k])'
      BY <1>24, <2>2, <3>4
    <3> QED
      BY <1>12, <1>20, <2>1, <3>1, <3>3, <3>5
  <2>3. CASE B[s][k] # b
    <3>1. j \in Filled(B[s][k])' /\ memory'[B[s][k]].count[j] = memory[B[s][k]].count[j]
      BY <1>12, <1>24, <2>1, <2>3
    <3>2. ~ (s = x /\ k = lo[x])
      BY <1>8, <2>3
    <3>3. k \in L[s] .. hi[s]
      BY <1>4, <1>20, <3>2
    <3> QED
      BY <3>1, <3>3
  <2> QED
    BY <2>2, <2>3
<1>28. ASSUME NEW s \in Suppliers, NEW k \in lo[s] .. hi[s], NEW j \in Filled(B[s][k]),
              ~ (s = x /\ k = lo[x] /\ j = r)
       PROVE  memory[B[s][k]].count[j] # m /\ lowest_seen' <= memory[B[s][k]].count[j]
  <2> DEFINE e == memory[B[s][k]].count[j]
  <2>1. lowest_seen <= e /\ O[e] = s
    BY DEF Chains, Valued
  <2>2. e \in Int
    <3>1. B[s][k] \in Buffers /\ memory[B[s][k]] \in Pieces
      BY <1>4, <1>8
    <3>2. j \in Cells
      BY <1>5, <3>1, SMTT(40) DEF Filled, Pieces, Cells
    <3> QED
      BY <3>1, <3>2 DEF Pieces, Counts
  <2>3. ASSUME e = m PROVE FALSE
    <3>1. s = x
      BY <1>7, <2>1, <2>3
    <3>2. lo[x] < k \/ (lo[x] = k /\ r < j)
      <4>1. k = lo[x] => j \in r .. memory[b].write - 1 /\ j # r
        BY <1>1, <1>8, <1>28, <3>1 DEF Filled
      <4> QED
        BY <1>4, <1>9, <3>1, <4>1, SMTT(40)
    <3>3. memory[B[x][lo[x]]].count[r] < memory[B[x][k]].count[j]
      BY <1>4, <1>8, <1>11, <3>1, <3>2 DEF Chains, Rising
    <3> QED
      BY <1>8, <1>10, <2>2, <2>3, <3>1, <3>3
  <2> HIDE DEF e
  <2>4. lowest_seen' <= e
    BY <1>3, <1>5, <1>7, <2>1, <2>2, <2>3
  <2> QED
    BY <2>3, <2>4 DEF e
<1>29. ASSUME NEW s \in Suppliers, step[s] = "put"
       PROVE  my[s].min \in Nat /\ lowest_seen' <= my[s].min /\ my[s].min < up_to /\ O[my[s].min] = s
  <2>1. my[s].min \in Nat /\ lowest_seen <= my[s].min /\ my[s].min < up_to /\ O[my[s].min] = s
    BY <1>29 DEF Chains, Valued
  <2>2. my[s].min # m
    <3>1. CASE s = x
      <4>1. memory[B[x][lo[x]]].count[r] < my[x].min
        BY <1>4, <1>8, <1>11, <1>29, <3>1 DEF Chains, Valued
      <4> QED
        BY <1>7, <1>8, <1>10, <2>1, <3>1, <4>1
    <3>2. CASE s # x
      BY <1>7, <2>1, <3>2
    <3> QED
      BY <3>1, <3>2
  <2> QED
    BY <1>3, <1>5, <1>7, <2>1, <2>2
<1>30. Linked(B, L, hi)'
  <2>1. ASSUME NEW s \in Suppliers
        PROVE  /\ L[s] <= hi[s] /\ heads'[s] = B[s][L[s]] /\ tails'[s] = B[s][hi[s]]
               /\ memory'[B[s][hi[s]]].next = 0
               /\ \A k \in L[s] .. hi[s] - 1 : memory'[B[s][k]].next = B[s][k + 1]
    <3>1. heads'[s] = B[s][L[s]]
      <4>1. CASE s = x /\ r = BufferSize - 1
        <5>1. lo[x] \in lo[x] .. hi[x] - 1
          BY <1>4, <1>6, <1>21, <4>1
        <5>2. memory[b].next = B[x][lo[x] + 1]
          BY <1>6, <1>8, <5>1 DEF Chains, Linked
        <5>3. heads'[x] = memory[b].next
          BY <1>3, <1>6, <4>1 DEF ChainTypes
        <5> QED
          BY <1>20, <4>1, <5>2, <5>3
      <4>2. CASE s = x /\ r # BufferSize - 1
        BY <1>3, <1>4, <1>20, <4>2
      <4>3. CASE s # x
        BY <1>4, <1>17, <1>20, <4>3
      <4> QED
        BY <4>1, <4>2, <4>3
    <3>2. \A k \in L[s] .. hi[s] - 1 : k \in lo[s] .. hi[s] - 1
      BY <1>4, <1>22
    <3>3. \A k \in lo[s] .. hi[s] : memory'[B[s][k]].next = memory[B[s][k]].next
      BY <1>4, <1>12
    <3>4. \A k \in lo[s] .. hi[s] - 1 : k \in lo[s] .. hi[s]
      BY <1>4
    <3>5. hi[s] \in lo[s] .. hi[s]
      BY <1>4
    <3>6. memory[B[s][hi[s]]].next = 0 /\ \A k \in lo[s] .. hi[s] - 1 : memory[B[s][k]].next = B[s][k + 1]
      BY DEF Chains, Linked
    <3> QED
      BY <1>3, <1>4, <1>22, <3>1, <3>2, <3>3, <3>4, <3>5, <3>6
  <2>2. ASSUME NEW s \in Suppliers, NEW t \in Suppliers, NEW k \in L[s] .. hi[s], NEW j \in L[t] .. hi[t],
               B[s][k] = B[t][j]
        PROVE  s = t /\ k = j
    BY <1>23, <2>2 DEF Chains, Linked
  <2>3. B \in [Suppliers -> [Nat -> Buffers]] /\ hi \in [Suppliers -> Nat]
    BY DEF Chains, Linked
  <2> QED
    BY <1>20, <2>1, <2>2, <2>3 DEF Linked
<1>31. \A c : InChain(c, B, L, hi) => InChain(c, B, lo, hi) /\ (r = BufferSize - 1 => c # b)
  BY <1>23 DEF InChain
<1>32. \A c : InChain(c, B, lo, hi) /\ c # b => InChain(c, B, L, hi)
  <2> SUFFICES ASSUME NEW s \in Suppliers, NEW k \in lo[s] .. hi[s], B[s][k] # b PROVE k \in L[s] .. hi[s]
    BY DEF InChain
  <2>1. ~ (s = x /\ k = lo[x])
    BY <1>8
  <2> QED
    BY <1>4, <1>20, <2>1
<1>33. InChain(b, B, lo, hi) /\ (r # BufferSize - 1 => InChain(b, B, L, hi))
  <2>1. r # BufferSize - 1 => lo[x] \in L[x] .. hi[x]
    BY <1>4, <1>6, <1>20
  <2> QED
    BY <1>4, <1>6, <1>8, <2>1 DEF InChain
<1>34. Loose(B, L, hi)'
  <2>1. ASSUME NEW c \in Buffers
        PROVE  InChain(c, B, L, hi) \/ memory'[c] = Mpsc!NewBuffer \/ (step'[0] = "recycle" /\ c = my'[0].buffer)
    <3>1. InChain(c, B, lo, hi) \/ memory[c] = Mpsc!NewBuffer
      BY <1>2 DEF Chains, Loose
    <3>2. CASE c = b
      BY <1>13, <1>14, <1>33, <3>2
    <3>3. CASE c # b
      BY <1>12, <1>32, <3>1, <3>3
    <3> QED
      BY <3>2, <3>3
  <2>2. ASSUME step'[0] = "recycle"
        PROVE  /\ my'[0].buffer \in Buffers /\ ~ InChain(my'[0].buffer, B, L, hi)
               /\ my'[0].index \in Suppliers /\ memory'[my'[0].buffer].next = heads'[my'[0].index]
    <3>1. r = BufferSize - 1
      BY <1>13, <2>2
    <3>2. my'[0].buffer = b /\ my'[0].index = x /\ memory'[b].next = memory[b].next
      BY <1>8, <1>12, <1>14, <3>1
    <3>3. heads'[x] = memory[b].next
      BY <1>3, <1>6, <3>1 DEF ChainTypes
    <3> QED
      BY <1>6, <1>8, <1>31, <3>1, <3>2, <3>3
  <2> QED
    BY <2>1, <2>2 DEF Loose, InChain
<1>35. Writes(B, L, hi)'
  <2>1. ASSUME NEW s \in Suppliers
        PROVE  /\ step'[s] = "pool" => my'[s].buffer = tails[s] /\ memory'[tails[s]].write = BufferSize - 1
               /\ step'[s] \in {"draw", "put"} =>
                    \/ my'[s].buffer = tails[s] /\ memory'[tails[s]].write < BufferSize - 1
                    \/ /\ L[s] < hi[s] /\ my'[s].buffer = B[s][hi[s] - 1]
                       /\ memory'[my'[s].buffer].write = BufferSize - 1 /\ memory'[tails[s]].write = 0
               /\ memory'[tails[s]].write <= BufferSize - 1
               /\ \A k \in L[s] .. hi[s] - 1 :
                    memory'[B[s][k]].write = BufferSize
                      \/ (k = hi[s] - 1 /\ step'[s] \in {"draw", "put"} /\ my'[s].buffer = B[s][k])
    <3>1. step'[s] = step[s] /\ my'[s] = my[s] /\ tails[s] \in Buffers
      BY <1>4, <1>13, <1>14
    <3>2. \A k \in lo[s] .. hi[s] : memory'[B[s][k]].write = memory[B[s][k]].write
      BY <1>4, <1>12
    <3>3. memory'[tails[s]].write = memory[tails[s]].write
      BY <1>12, <3>1
    <3>4. \A k \in L[s] .. hi[s] - 1 : k \in lo[s] .. hi[s] /\ k \in lo[s] .. hi[s] - 1
      BY <1>4, <1>22
    <3>5. ASSUME lo[s] < hi[s], memory[B[s][hi[s] - 1]].write = BufferSize - 1 PROVE L[s] < hi[s]
      <4>1. CASE s = x /\ r = BufferSize - 1
        <5>1. hi[s] - 1 # lo[s]
          BY <1>5, <1>8, <1>21, <3>5, <4>1
        <5> QED
          BY <1>4, <1>20, <3>5, <4>1, <5>1
      <4>2. CASE ~ (s = x /\ r = BufferSize - 1)
        BY <1>20, <3>5, <4>2
      <4> QED
        BY <4>1, <4>2
    <3>6. lo[s] < hi[s] => memory'[B[s][hi[s] - 1]].write = memory[B[s][hi[s] - 1]].write
      <4>1. lo[s] < hi[s] => hi[s] - 1 \in lo[s] .. hi[s]
        BY <1>4
      <4> QED
        BY <3>2, <4>1
    <3> QED
      BY <3>1, <3>2, <3>3, <3>4, <3>5, <3>6 DEF Chains, Writes, Open
  <2> QED
    BY <1>3, <2>1 DEF Writes, Open
<1>36. Packed(B, L, hi)'
  <2>1. ASSUME NEW s \in Suppliers, NEW k \in L[s] .. hi[s]
        PROVE  LET e == memory'[B[s][k]] IN
               /\ e.read <= e.write /\ e.read < BufferSize /\ (k > L[s] => e.read = 0)
               /\ \A j \in Cells : j >= e.read => (e.count[j] # -1 <=> j < e.write)
    <3>0. k \in lo[s] .. hi[s] /\ B[s][k] \in Buffers
      BY <1>23, SMTT(40)
    <3>1. CASE B[s][k] = b
      <4>1. r # BufferSize - 1 /\ s = x /\ k = lo[x] /\ ~ (k > L[s])
        BY <1>4, <1>20, <1>23, <1>25, <3>0, <3>1
      <4>2. \A j \in Cells : j >= r + 1 => (memory[b].count[j] # -1 <=> j < memory[b].write)
        <5>1. \A j \in Cells : j >= r => (memory[b].count[j] # -1 <=> j < memory[b].write)
          BY <1>1, <3>0, <3>1 DEF Chains, Packed
        <5> QED
          BY <1>9, <5>1 DEF Cells
      <4>3. r + 1 <= memory[b].write /\ r + 1 < BufferSize
        BY <1>5, <1>9, <1>11, <4>1
      <4> QED
        BY <1>8, <1>12, <3>1, <4>1, <4>2, <4>3
    <3>2. CASE B[s][k] # b
      <4>1. k > L[s] => k > lo[s]
        BY <1>4, <1>22, <3>0
      <4> QED
        BY <1>12, <3>0, <3>2, <4>1 DEF Chains, Packed
    <3> QED
      BY <3>1, <3>2
  <2> QED
    BY <2>1 DEF Packed
<1>37. Rings(B, L, hi)'
  <2>1. \A s \in Suppliers : Mpsc!Ring(s)' = Mpsc!Ring(s)
    BY <1>3 DEF Mpsc!Ring
  <2>2. ASSUME NEW s \in Suppliers, NEW k \in Mpsc!Ring(s)
        PROVE  LET c == pool[s].items[k] IN
               /\ c \in Buffers /\ ~ InChain(c, B, L, hi) /\ (step'[0] = "recycle" => c # my'[0].buffer)
    <3>1. pool[s].items[k] \in Buffers /\ ~ InChain(pool[s].items[k], B, lo, hi)
      BY DEF Chains, Rings
    <3>2. step'[0] = "recycle" => my'[0].buffer = b
      BY <1>13, <1>14
    <3> QED
      BY <1>31, <1>33, <3>1, <3>2
  <2> QED
    BY <1>3, <2>1, <2>2 DEF Chains, Rings, InChain
<1>38. Valued(B, L, hi, O)'
  <2>1. ASSUME NEW s \in Suppliers, NEW k \in L[s] .. hi[s], NEW j \in Filled(B[s][k])'
        PROVE  LET e == memory'[B[s][k]].count[j] IN
               /\ lowest_seen' <= e /\ e < up_to /\ O[e] = s
               /\ step'[s] = "put" => e < my'[s].min
    <3> DEFINE e == memory[B[s][k]].count[j]
    <3>1. k \in lo[s] .. hi[s] /\ j \in Filled(B[s][k]) /\ memory'[B[s][k]].count[j] = e
      BY <1>26
    <3>2. e < up_to /\ O[e] = s /\ (step[s] = "put" => e < my[s].min)
      BY <3>1 DEF Chains, Valued
    <3>3. lowest_seen' <= e
      BY <1>26, <1>28
    <3> HIDE DEF e
    <3> QED
      BY <1>13, <1>14, <3>1, <3>2, <3>3
  <2>2. \A s \in Suppliers : step'[s] = "put" =>
          my'[s].min \in Nat /\ lowest_seen' <= my'[s].min /\ my'[s].min < up_to /\ O[my'[s].min] = s
    BY <1>13, <1>14, <1>29
  <2>3. O \in [Nat -> Suppliers] /\ lowest_seen <= up_to
    BY DEF Chains, Valued
  <2>4. lowest_seen' <= up_to /\ up_to' = up_to
    BY <1>3, <1>5, <1>7, <2>3
  <2> QED
    BY <2>1, <2>2, <2>3, <2>4 DEF Valued
<1>39. Rising(B, L, hi)'
  BY <1>26 DEF Chains, Rising
<1>40. Older(B, L, hi)'
  <2>1. ASSUME NEW e, e # m, There(e, B, lo, hi) PROVE There(e, B, L, hi)'
    <3>1. PICK s \in Suppliers : \E k \in lo[s] .. hi[s] : \E j \in Filled(B[s][k]) : memory[B[s][k]].count[j] = e
      BY <2>1 DEF There
    <3>2. PICK k \in lo[s] .. hi[s] : \E j \in Filled(B[s][k]) : memory[B[s][k]].count[j] = e
      BY <3>1
    <3>3. PICK j \in Filled(B[s][k]) : memory[B[s][k]].count[j] = e
      BY <3>2
    <3>4. k \in L[s] .. hi[s] /\ j \in Filled(B[s][k])' /\ memory'[B[s][k]].count[j] = e
      BY <1>27, <2>1, <3>3
    <3> QED
      BY <3>4 DEF There
  <2>2. ASSUME NEW n \in 0 .. up_to - 1, NEW e \in earlier'[n] PROVE e < n /\ There(e, B, L, hi)'
    <3>1. e \in earlier[n] /\ e # m
      BY <1>16
    <3> QED
      BY <2>1, <3>1 DEF Chains, Older
  <2> QED
    BY <1>3, <2>2 DEF Older
<1>41. Scanning(O)'
  <2>1. step'[0] \in {"recycle", "idle"}
    BY <1>13
  <2>2. step'[0] = "idle" => my'[0] = Mpsc!NoCall
    BY <1>13, <1>14
  <2> QED
    BY <2>1, <2>2 DEF Scanning
<1> QED
  BY <1>18, <1>30, <1>34, <1>35, <1>36, <1>37, <1>38, <1>39, <1>40, <1>41 DEF Chains

\* A ring takes in one more, or none.
LEMMA RingPushes ==
  ASSUME Supplied, ChainTypes, NEW p \in Suppliers, NEW n \in Stacks,
         n.read = pool[p].read, pool[p].write + 1 # n.read, n.write = Mpsc!Around(pool[p].write)
  PROVE  LET a == n.read  c == n.write  w == pool[p].write IN
         IF a <= c THEN a .. c - 1 \subseteq Mpsc!Ring(p) \cup {w}
                   ELSE (a .. AllocationSize - 1) \cup (0 .. c - 1) \subseteq Mpsc!Ring(p) \cup {w}
<1>1. AllocationSize \in Nat \ {0}
  BY DEF Supplied
<1>2. PICK a, c, w : a = n.read /\ c = n.write /\ w = pool[p].write
  OBVIOUS
<1>3. a \in 0 .. AllocationSize - 1 /\ w \in 0 .. AllocationSize - 1 /\ a = pool[p].read
  BY <1>2 DEF ChainTypes, Stacks
<1>4. c = IF w + 1 = AllocationSize THEN 0 ELSE w + 1
  <2>1. c = (w + 1) % AllocationSize
    BY <1>2 DEF Mpsc!Around
  <2> QED
    BY <1>1, <1>3, <2>1, NextRemainder
<1>5. Mpsc!Ring(p) = IF a <= w THEN a .. w - 1 ELSE (a .. AllocationSize - 1) \cup (0 .. w - 1)
  BY <1>2, <1>3 DEF Mpsc!Ring
<1>6. w + 1 # a
  BY <1>2
<1>7. IF a <= c THEN a .. c - 1 \subseteq Mpsc!Ring(p) \cup {w}
                ELSE (a .. AllocationSize - 1) \cup (0 .. c - 1) \subseteq Mpsc!Ring(p) \cup {w}
  <2>1. CASE w + 1 = AllocationSize
    <3>1. c = 0 /\ a <= w
      BY <1>1, <1>3, <1>4, <2>1
    <3> QED
      BY <1>1, <1>3, <1>5, <2>1, <3>1
  <2>2. CASE w + 1 # AllocationSize
    <3>1. c = w + 1 /\ (a <= c <=> a <= w)
      BY <1>1, <1>3, <1>4, <1>6, <2>2
    <3> QED
      BY <1>1, <1>3, <1>5, <2>2, <3>1
  <2> QED
    BY <2>1, <2>2
<1> QED
  BY <1>2, <1>7

\* The consumer puts a buffer away.
LEMMA PoolPushes ==
  ASSUME Supplied, ChainTypes, NEW B, NEW lo, NEW hi, NEW O, Chains(B, lo, hi, O), Mpsc!PoolPush
  PROVE  ChainTypes' /\ Chains(B, lo, hi, O)'
<1>1. PICK p, b, w : p = my[0].index /\ b = my[0].buffer /\ w = pool[p].write
  OBVIOUS
<1>2. /\ step[0] = "recycle" /\ step' = [step EXCEPT ![0] = "idle"] /\ my' = [my EXCEPT ![0] = Mpsc!NoCall]
      /\ memory' = [memory EXCEPT ![b] = Mpsc!NewBuffer]
      /\ heads' = heads /\ tails' = tails /\ up_to' = up_to /\ lowest_seen' = lowest_seen
      /\ sleeping' = sleeping /\ earlier' = earlier
  BY <1>1 DEF Mpsc!PoolPush, Mpsc!Go, Mpsc!Forget, Mpsc!shared
<1>3. pool' = IF w + 1 = pool[p].read THEN pool
              ELSE [pool EXCEPT ![p].items[w] = b, ![p].write = Mpsc!Around(w)]
  BY <1>1 DEF Mpsc!PoolPush
<1>4. p \in Suppliers /\ b \in Buffers /\ ~ InChain(b, B, lo, hi) /\ 0 \notin Suppliers
  BY <1>1, <1>2, Suppliers1 DEF Chains, Loose
<1>5. \A s \in Suppliers : \A k \in Mpsc!Ring(s) :
        pool[s].items[k] # b /\ pool[s].items[k] \in Buffers /\ ~ InChain(pool[s].items[k], B, lo, hi)
  BY <1>1, <1>2 DEF Chains, Rings
<1>6. \A s \in Suppliers : /\ lo[s] \in Nat /\ hi[s] \in Nat /\ lo[s] <= hi[s] /\ \A k \in Nat : B[s][k] \in Buffers
                           /\ heads[s] = B[s][lo[s]] /\ tails[s] = B[s][hi[s]]
  BY DEF Chains, Linked
<1>7. Mpsc!NewBuffer \in Pieces
  BY DEF Supplied, Mpsc!NewBuffer, Mpsc!Empty, Mpsc!None, Pieces, Counts, Cells
<1>8. memory' \in [Buffers -> Pieces] /\ memory'[b] = Mpsc!NewBuffer /\ \A c \in Buffers : c # b => memory'[c] = memory[c]
  BY <1>2, <1>4, <1>7 DEF ChainTypes
<1>9. ASSUME NEW s \in Suppliers, NEW k \in lo[s] .. hi[s] PROVE memory'[B[s][k]] = memory[B[s][k]] /\ B[s][k] \in Buffers
  BY <1>4, <1>6, <1>8 DEF InChain
<1>10. step' \in [Suppliers \cup {0} -> Stages] /\ step'[0] = "idle" /\ \A u \in Suppliers : step'[u] = step[u]
  BY <1>2, <1>4 DEF ChainTypes, Stages
<1>11. my' \in [Suppliers \cup {0} -> Frames] /\ my'[0] = Mpsc!NoCall /\ \A u \in Suppliers : my'[u] = my[u]
  BY <1>2, <1>4, NoCallTypes DEF ChainTypes
<1>12. /\ pool' \in [Suppliers -> Stacks]
       /\ \A s \in Suppliers : \A k \in Mpsc!Ring(s)' :
            \/ k \in Mpsc!Ring(s) /\ ~ (s = p /\ k = w) /\ pool'[s].items[k] = pool[s].items[k]
            \/ s = p /\ k = w /\ pool'[s].items[k] = b
  <2>1. pool \in [Suppliers -> Stacks] /\ pool[p] \in Stacks /\ w \in 0 .. AllocationSize - 1
    BY <1>1, <1>4 DEF ChainTypes, Stacks
  <2>2. w \notin Mpsc!Ring(p)
    BY <1>1, <1>4, <2>1, SMTT(40) DEF Mpsc!Ring, Stacks, Supplied
  <2>3. CASE w + 1 = pool[p].read
    <3>1. pool' = pool
      BY <1>3, <2>3
    <3>2. \A s \in Suppliers : Mpsc!Ring(s)' = Mpsc!Ring(s)
      BY <3>1 DEF Mpsc!Ring
    <3> QED
      BY <2>1, <2>2, <3>1, <3>2
  <2>4. CASE w + 1 # pool[p].read
    <3>1. PICK n : n = [pool[p] EXCEPT !.items = [pool[p].items EXCEPT ![w] = b], !.write = Mpsc!Around(w)]
      OBVIOUS
    <3>2. pool' = [pool EXCEPT ![p] = n]
      BY <1>3, <2>1, <2>4, <3>1 DEF Stacks
    <3>3. Mpsc!Around(w) \in 0 .. AllocationSize - 1
      BY <2>1, Remainder DEF Mpsc!Around, Supplied
    <3>4. [pool[p].items EXCEPT ![w] = b] \in [0 .. AllocationSize - 1 -> Buffers \cup {0}]
      BY <1>4, <2>1 DEF Stacks
    <3>5. /\ n \in Stacks /\ n.read = pool[p].read /\ n.write = Mpsc!Around(w)
          /\ n.items[w] = b /\ \A k \in 0 .. AllocationSize - 1 : k # w => n.items[k] = pool[p].items[k]
      BY <2>1, <3>1, <3>3, <3>4 DEF Stacks
    <3>6. pool' \in [Suppliers -> Stacks] /\ pool'[p] = n /\ \A s \in Suppliers : s # p => pool'[s] = pool[s]
      BY <1>4, <2>1, <3>2, <3>5
    <3>7. Mpsc!Ring(p)' \subseteq Mpsc!Ring(p) \cup {w}
      <4>1. Mpsc!Ring(p)' = IF n.read <= n.write THEN n.read .. n.write - 1
                            ELSE (n.read .. AllocationSize - 1) \cup (0 .. n.write - 1)
        BY <3>6 DEF Mpsc!Ring
      <4> QED
        BY <1>1, <1>4, <2>4, <3>5, <4>1, RingPushes
    <3>8. \A s \in Suppliers : s # p => Mpsc!Ring(s)' = Mpsc!Ring(s)
      BY <3>6 DEF Mpsc!Ring
    <3>9. Mpsc!Ring(p) \subseteq 0 .. AllocationSize - 1
      BY <1>4, RingPops
    <3> QED
      BY <1>4, <2>2, <3>5, <3>6, <3>7, <3>8, <3>9
  <2> QED
    BY <2>3, <2>4
<1>13. ChainTypes'
  BY <1>2, <1>8, <1>10, <1>11, <1>12 DEF ChainTypes
<1>14. ASSUME NEW s \in Suppliers, NEW k \in lo[s] .. hi[s]
       PROVE  Filled(B[s][k])' = Filled(B[s][k])
  BY <1>9 DEF Filled
<1>15. Linked(B, lo, hi)'
  <2>1. ASSUME NEW s \in Suppliers
        PROVE  /\ memory'[B[s][hi[s]]].next = 0
               /\ \A k \in lo[s] .. hi[s] - 1 : memory'[B[s][k]].next = B[s][k + 1]
    <3>1. hi[s] \in lo[s] .. hi[s] /\ \A k \in lo[s] .. hi[s] - 1 : k \in lo[s] .. hi[s]
      BY <1>6
    <3> QED
      <4>1. memory[B[s][hi[s]]].next = 0 /\ \A k \in lo[s] .. hi[s] - 1 : memory[B[s][k]].next = B[s][k + 1]
        BY DEF Chains, Linked
      <4> QED
        BY <1>9, <3>1, <4>1
  <2>2. heads' = heads /\ tails' = tails
    BY <1>2
  <2> QED
    BY <2>1, <2>2 DEF Chains, Linked
<1>16. Loose(B, lo, hi)'
  <2>1. ASSUME NEW c \in Buffers PROVE InChain(c, B, lo, hi) \/ memory'[c] = Mpsc!NewBuffer
    BY <1>1, <1>8 DEF Chains, Loose
  <2> QED
    BY <1>10, <2>1 DEF Loose, InChain
<1>17. Writes(B, lo, hi)'
  <2>1. ASSUME NEW s \in Suppliers
        PROVE  /\ step'[s] = "pool" => my'[s].buffer = tails[s] /\ memory'[tails[s]].write = BufferSize - 1
               /\ step'[s] \in {"draw", "put"} =>
                    \/ my'[s].buffer = tails[s] /\ memory'[tails[s]].write < BufferSize - 1
                    \/ /\ lo[s] < hi[s] /\ my'[s].buffer = B[s][hi[s] - 1]
                       /\ memory'[my'[s].buffer].write = BufferSize - 1 /\ memory'[tails[s]].write = 0
               /\ memory'[tails[s]].write <= BufferSize - 1
               /\ \A k \in lo[s] .. hi[s] - 1 :
                    memory'[B[s][k]].write = BufferSize
                      \/ (k = hi[s] - 1 /\ step'[s] \in {"draw", "put"} /\ my'[s].buffer = B[s][k])
    <3>1. step'[s] = step[s] /\ my'[s] = my[s]
      BY <1>10, <1>11
    <3>2. memory'[tails[s]] = memory[tails[s]]
      BY <1>6, <1>9
    <3>3. \A k \in lo[s] .. hi[s] - 1 : memory'[B[s][k]] = memory[B[s][k]]
      BY <1>6, <1>9
    <3>4. lo[s] < hi[s] => memory'[B[s][hi[s] - 1]] = memory[B[s][hi[s] - 1]]
      BY <1>6, <3>3
    <3> QED
      BY <3>1, <3>2, <3>3, <3>4 DEF Chains, Writes, Open
  <2> QED
    BY <1>2, <2>1 DEF Writes, Open
<1>18. Packed(B, lo, hi)'
  BY <1>9 DEF Chains, Packed
<1>19. Rings(B, lo, hi)'
  <2>1. ASSUME NEW s \in Suppliers, NEW k \in Mpsc!Ring(s)'
        PROVE  pool'[s].items[k] \in Buffers /\ ~ InChain(pool'[s].items[k], B, lo, hi)
    BY <1>4, <1>5, <1>12
  <2>2. ASSUME NEW s \in Suppliers, NEW r \in Suppliers, NEW k \in Mpsc!Ring(s)', NEW j \in Mpsc!Ring(r)',
               pool'[s].items[k] = pool'[r].items[j]
        PROVE  s = r /\ k = j
    <3>1. CASE s = p /\ k = w /\ pool'[s].items[k] = b
      BY <1>5, <1>12, <2>2, <3>1
    <3>2. CASE k \in Mpsc!Ring(s) /\ pool'[s].items[k] = pool[s].items[k]
      <4>1. j \in Mpsc!Ring(r) /\ pool'[r].items[j] = pool[r].items[j]
        BY <1>5, <1>12, <2>2, <3>2
      <4>2. \A u, v \in Suppliers : \A x \in Mpsc!Ring(u), y \in Mpsc!Ring(v) :
              pool[u].items[x] = pool[v].items[y] => u = v /\ x = y
        BY DEF Chains, Rings
      <4>3. pool[s].items[k] = pool[r].items[j]
        BY <2>2, <3>2, <4>1
      <4> QED
        BY <3>2, <4>1, <4>2, <4>3
    <3> QED
      BY <1>12, <3>1, <3>2
  <2> QED
    BY <1>10, <2>1, <2>2 DEF Rings, InChain
<1>20. Valued(B, lo, hi, O)'
  <2>1. ASSUME NEW s \in Suppliers, NEW k \in lo[s] .. hi[s], NEW j \in Filled(B[s][k])
        PROVE  LET e == memory'[B[s][k]].count[j] IN
               /\ lowest_seen <= e /\ e < up_to /\ O[e] = s
               /\ step'[s] = "put" => e < my'[s].min
    <3> DEFINE e == memory[B[s][k]].count[j]
    <3>1. memory'[B[s][k]].count[j] = e /\ step'[s] = step[s] /\ my'[s] = my[s]
      BY <1>9, <1>10, <1>11
    <3>2. lowest_seen <= e /\ e < up_to /\ O[e] = s /\ (step[s] = "put" => e < my[s].min)
      BY DEF Chains, Valued
    <3> HIDE DEF e
    <3> QED
      BY <3>1, <3>2
  <2>2. \A s \in Suppliers : step'[s] = "put" =>
          my'[s].min \in Nat /\ lowest_seen <= my'[s].min /\ my'[s].min < up_to /\ O[my'[s].min] = s
    BY <1>10, <1>11 DEF Chains, Valued
  <2>3. O \in [Nat -> Suppliers] /\ lowest_seen <= up_to
    BY DEF Chains, Valued
  <2>4. lowest_seen' = lowest_seen /\ up_to' = up_to
    BY <1>2
  <2> QED
    BY <1>14, <2>1, <2>2, <2>3, <2>4 DEF Valued
<1>21. Rising(B, lo, hi)'
  BY <1>9, <1>14 DEF Chains, Rising
<1>22. Older(B, lo, hi)'
  <2>1. ASSUME NEW e PROVE There(e, B, lo, hi) => There(e, B, lo, hi)'
    BY <1>9, <1>14 DEF There
  <2> QED
    BY <1>2, <2>1 DEF Chains, Older
<1>23. Scanning(O)'
  BY <1>10, <1>11 DEF Scanning
<1> QED
  BY <1>13, <1>15, <1>16, <1>17, <1>18, <1>19, <1>20, <1>21, <1>22, <1>23 DEF Chains

\* The destructor: nothing is left.
LEMMA Destroys ==
  ASSUME Supplied, ChainTypes, NEW B, NEW lo, NEW hi, NEW O, Chains(B, lo, hi, O), Mpsc!Destroy
  PROVE  ChainTypes' /\ Deleted'
<1>1. /\ \A t \in Suppliers \cup {0} : step[t] = "idle"
      /\ step' = [t \in Suppliers \cup {0} |-> "gone"]
      /\ heads' = [p \in Suppliers |-> 0]
      /\ memory' = [b \in Buffers |-> IF b \in Mpsc!Chained THEN Mpsc!NewBuffer ELSE memory[b]]
      /\ pool' = [p \in Suppliers |-> [pool[p] EXCEPT !.read = pool[p].write]]
      /\ tails' = tails /\ my' = my /\ up_to' = up_to /\ lowest_seen' = lowest_seen
      /\ sleeping' = sleeping /\ earlier' = earlier
  BY DEF Mpsc!Destroy, Mpsc!None, Mpsc!shared, ChainTypes
<1>2. \A b \in Buffers : b \in Mpsc!Chained \/ memory[b] = Mpsc!NewBuffer
  <2>1. \A b \in Buffers : InChain(b, B, lo, hi) \/ memory[b] = Mpsc!NewBuffer
    BY <1>1 DEF Chains, Loose
  <2> QED
    BY <2>1, StoredIs DEF Chains
<1>3. \A b \in Buffers : memory'[b] = Mpsc!NewBuffer
  BY <1>1, <1>2
<1>4. Mpsc!NewBuffer \in Pieces
  BY DEF Supplied, Mpsc!NewBuffer, Mpsc!Empty, Mpsc!None, Pieces, Counts, Cells
<1>5. memory' \in [Buffers -> Pieces]
  BY <1>1, <1>3, <1>4
<1>6. pool' \in [Suppliers -> Stacks] /\ \A p \in Suppliers : pool'[p].read = pool'[p].write
  <2>1. ASSUME NEW p \in Suppliers
        PROVE  [pool[p] EXCEPT !.read = pool[p].write] \in Stacks
               /\ [pool[p] EXCEPT !.read = pool[p].write].read = [pool[p] EXCEPT !.read = pool[p].write].write
    BY DEF ChainTypes, Stacks
  <2> QED
    BY <1>1, <2>1
<1>7. step' \in [Suppliers \cup {0} -> Stages] /\ heads' \in [Suppliers -> Buffers \cup {0}]
  BY <1>1 DEF Stages
<1>8. ChainTypes'
  BY <1>1, <1>5, <1>6, <1>7 DEF ChainTypes
<1>9. Deleted'
  BY <1>1, <1>3, <1>6 DEF Deleted
<1> QED
  BY <1>8, <1>9

LEMMA ChainStays == ASSUME Supplied, ChainInv, [Mpsc!Next]_Mpsc!mpscvars PROVE ChainInv'
<1>1. CASE UNCHANGED Mpsc!mpscvars
  <2>1. /\ memory' = memory /\ heads' = heads /\ tails' = tails /\ pool' = pool
        /\ up_to' = up_to /\ sleeping' = sleeping /\ lowest_seen' = lowest_seen
        /\ step' = step /\ my' = my /\ earlier' = earlier
    BY <1>1 DEF Mpsc!mpscvars
  <2>2. ChainTypes'
    BY <2>1 DEF ChainInv, ChainTypes
  <2>3. Deleted => Deleted'
    BY <2>1 DEF Deleted
  <2>4. ASSUME NEW B, NEW lo, NEW hi, NEW O, Chains(B, lo, hi, O) PROVE Chains(B, lo, hi, O)'
    <3>1. Linked(B, lo, hi)' /\ Loose(B, lo, hi)' /\ Packed(B, lo, hi)' /\ Rings(B, lo, hi)'
      BY <2>1, <2>4, StillLinked DEF Chains
    <3>2. Writes(B, lo, hi)'
      BY <2>1, <2>4, StillWrites DEF Chains, Keeps
    <3>3. Valued(B, lo, hi, O)' /\ Rising(B, lo, hi)' /\ Older(B, lo, hi)'
      BY <2>1, <2>4, StillOrdered, SMTT(40) DEF Chains
    <3>4. Scanning(O)'
      BY <2>1, <2>4 DEF Chains, Scanning, Second, Mpsc!First
    <3> QED
      BY <3>1, <3>2, <3>3, <3>4 DEF Chains
  <2> QED
    BY <2>2, <2>3, <2>4 DEF ChainInv
<1>2. CASE Mpsc!Next /\ Deleted
  <2>1. \A t \in Suppliers \cup {0} : step[t] = "gone"
    BY <1>2 DEF Deleted
  <2>2. 0 \in DOMAIN step
    BY SMTT(40) DEF ChainInv, ChainTypes
  <2>3. ~ Mpsc!Consuming /\ ~ Mpsc!Destroy
    BY <2>1, <2>2 DEF Mpsc!Consuming, Mpsc!Dequeue, Mpsc!Scan, Mpsc!Judge, Mpsc!Sleep, Mpsc!Check, Mpsc!Awake,
                      Mpsc!Take, Mpsc!PoolPush, Mpsc!Go, Mpsc!Destroy
  <2>4. \A p \in Suppliers : ~ (Mpsc!Enqueue(p) \/ Mpsc!Producing(p))
    BY <2>1 DEF Mpsc!Enqueue, Mpsc!Producing, Mpsc!PoolPop, Mpsc!Draw, Mpsc!Put, Mpsc!Look, Mpsc!Notify, Mpsc!Go
  <2>5. UNCHANGED Mpsc!mpscvars
    BY <1>2, <2>3, <2>4 DEF Mpsc!Next, Mpsc!Over
  <2> QED
    BY <1>1, <2>5
<1>3. CASE Mpsc!Next /\ \E B, lo, hi, O : Chains(B, lo, hi, O)
  <2>0. PICK B, lo, hi, O : Chains(B, lo, hi, O)
    BY <1>3
  <2>1. Supplied /\ ChainTypes
    BY DEF ChainInv
  <2>2. CASE Mpsc!Dequeue \/ Mpsc!Sleep \/ Mpsc!Check \/ Mpsc!Awake
    BY <2>0, <2>1, <2>2, Dequeues DEF ChainInv
  <2>3. CASE Mpsc!Scan
    BY <2>0, <2>1, <2>3, Scans DEF ChainInv
  <2>4. CASE Mpsc!Judge
    BY <2>0, <2>1, <2>4, Judges DEF ChainInv
  <2>5. CASE Mpsc!Take
    BY <2>0, <2>1, <2>5, Takes DEF ChainInv
  <2>6. CASE Mpsc!PoolPush
    BY <2>0, <2>1, <2>6, PoolPushes DEF ChainInv
  <2>7. CASE Mpsc!Destroy
    BY <2>0, <2>1, <2>7, Destroys DEF ChainInv
  <2>8. ASSUME NEW p \in Suppliers, Mpsc!Enqueue(p) PROVE ChainInv'
    BY <2>0, <2>1, <2>8, Enqueues DEF ChainInv
  <2>9. ASSUME NEW p \in Suppliers, Mpsc!PoolPop(p) PROVE ChainInv'
    BY <2>0, <2>1, <2>9, PoolPops DEF ChainInv
  <2>10. ASSUME NEW p \in Suppliers, Mpsc!Draw(p) PROVE ChainInv'
    BY <2>0, <2>1, <2>10, NumberDrawn DEF ChainInv
  <2>11. ASSUME NEW p \in Suppliers, Mpsc!Put(p) PROVE ChainInv'
    BY <2>0, <2>1, <2>11, Puts DEF ChainInv
  <2>12. ASSUME NEW p \in Suppliers, Mpsc!Look(p) \/ Mpsc!Notify(p) PROVE ChainInv'
    BY <2>0, <2>1, <2>12, LooksAndNotifies DEF ChainInv
  <2>13. CASE Mpsc!Over
    BY <1>1, <2>13 DEF Mpsc!Over
  <2> QED
    BY <1>3, <2>2, <2>3, <2>4, <2>5, <2>6, <2>7, <2>8, <2>9, <2>10, <2>11, <2>12, <2>13
       DEF Mpsc!Next, Mpsc!Consuming, Mpsc!Producing
<1> QED
  BY <1>1, <1>2, <1>3 DEF ChainInv

(* wait_mpsc_queue's consumer never takes an item before one that was in   *)
(* the queue when its number was drawn, though no lock keeps the order; no *)
(* buffer is in two places, and the destructor finds what is left: for any *)
(* number of producers and any sizes of the buffers and of the ring.       *)
THEOREM OldestFirst == ASSUME Supplied PROVE Mpsc!Spec => [](Mpsc!Oldest /\ Mpsc!OneHome)
<1>1. Mpsc!Init => ChainInv
  BY ChainStart
<1>2. ChainInv /\ [Mpsc!Next]_Mpsc!mpscvars => ChainInv'
  BY ChainStays
<1>3. ChainInv => Mpsc!Oldest /\ Mpsc!OneHome
  BY ChainsSound
<1> QED
  BY <1>1, <1>2, <1>3, PTL DEF Mpsc!Spec

-----------------------------------------------------------------------------
(* queue<T>: what is done while the mutex is held is one step, so that the *)
(* deque is first in, first out.                                           *)

BoundTypes == made \in Nat /\ content \in Seq(Nat) /\ popped \in Seq(Nat)

LEMMA BoundInit == Bounded!Init => BoundTypes /\ Bounded!Fifo!Init
BY DEF Bounded!Init, BoundTypes, Bounded!Fifo!Init

LEMMA BoundStep ==
  ASSUME Pushings \in Nat, BoundTypes, [Bounded!Next]_Bounded!boundedvars
  PROVE  BoundTypes' /\ [Bounded!Fifo!Next]_<<content, popped>>
<1>1. CASE UNCHANGED <<content, made, popped>>
  BY <1>1 DEF BoundTypes
<1>2. ASSUME NEW t \in Pushers \cup Poppers, Bounded!Pass(t)
      PROVE  BoundTypes' /\ [Bounded!Fifo!Next]_<<content, popped>>
  <2>1. CASE t \in Pushers
    <3>1. made < Pushings /\ made' = made + 1 /\ content' = Append(content, made + 1) /\ popped' = popped
      BY <1>2, <2>1 DEF Bounded!Pass, Bounded!Move, Bounded!Add
    <3>2. made + 1 \in 1 .. Pushings /\ made + 1 \in Nat
      BY <3>1 DEF BoundTypes
    <3>3. Bounded!Fifo!Put
      BY <3>1, <3>2 DEF Bounded!Fifo!Put
    <3> QED
      BY <3>1, <3>2, <3>3 DEF BoundTypes, Bounded!Fifo!Next
  <2>2. CASE t \notin Pushers
    <3>1. /\ content # <<>> /\ made' = made /\ popped' = Append(popped, Head(content))
          /\ content' = Tail(content)
      BY <1>2, <2>2 DEF Bounded!Pass, Bounded!Able, Bounded!Move, Bounded!Remove
    <3>2. Bounded!Fifo!Get
      BY <3>1 DEF Bounded!Fifo!Get
    <3>3. Tail(content) \in Seq(Nat) /\ Head(content) \in Nat
      BY <3>1, HeadTailProperties DEF BoundTypes
    <3>4. Append(popped, Head(content)) \in Seq(Nat)
      BY <3>3, AppendProperties DEF BoundTypes
    <3> QED
      BY <3>1, <3>2, <3>3, <3>4 DEF BoundTypes, Bounded!Fifo!Next
  <2> QED
    BY <2>1, <2>2
<1>3. ASSUME NEW t \in Pushers \cup Poppers, Bounded!Wait(t) \/ Bounded!Notify(t)
      PROVE  UNCHANGED <<content, made, popped>>
  BY <1>3 DEF Bounded!Wait, Bounded!Notify
<1> QED
  BY <1>1, <1>2, <1>3 DEF Bounded!Next, Bounded!Working, Bounded!Over, Bounded!boundedvars

-----------------------------------------------------------------------------
(* All the queues that may stand in for the loop's keep the order they     *)
(* promise: no item of wait_mpsc_queue overtakes an older one, each pop of *)
(* mpmc::Queue has the item of its ticket, and the two with a lock are     *)
(* FIFO channels as far as safety goes, whatever their sizes, for any      *)
(* threads that use them.                                                  *)
THEOREM OrderKept ==
  ASSUME Supplied, Sized, Locks, Pushings \in Nat
  PROVE  AllSpec => InOrder
<1>1. AllInit => /\ ChainInv /\ Slots /\ LockInv /\ ArrayInv /\ Locked!Fifo!Init
                 /\ BoundTypes /\ Bounded!Fifo!Init
  BY ChainStart, SlotStart, LockInit, ArrayInit, BoundInit DEF AllInit
<1>2. [AllNext]_<<program, vars, testvars, queues>> =>
        /\ [Mpsc!Next]_Mpsc!mpscvars /\ [Mpmc!Next]_Mpmc!mpmcvars
        /\ [Bounded!Next]_Bounded!boundedvars /\ [Locked!Next]_Locked!spinvars
  BY DEF AllNext, queues, mpscvars, mpmcvars, boundedvars, spinvars, Mpsc!mpscvars, Mpmc!mpmcvars,
         Bounded!boundedvars, Locked!spinvars, Locked!lockvars, Locked!queuevars
<1>3. ChainInv /\ [Mpsc!Next]_Mpsc!mpscvars => ChainInv'
  BY ChainStays
<1>4. Slots /\ [Mpmc!Next]_Mpmc!mpmcvars => Slots'
  BY SlotStep
<1>5. LockInv /\ ArrayInv /\ [Locked!Next]_Locked!spinvars
        => LockInv' /\ ArrayInv' /\ [Locked!Fifo!Next]_<<Locked!Content, out>>
  BY LockStep, ArrayStep
<1>6. BoundTypes /\ [Bounded!Next]_Bounded!boundedvars
        => BoundTypes' /\ [Bounded!Fifo!Next]_Bounded!Fifo!vars
  BY BoundStep DEF Bounded!Fifo!vars
<1>7. ChainInv => Mpsc!Oldest /\ Mpsc!OneHome
  BY ChainsSound
<1>8. Slots => Mpmc!OwnItem
  BY SlotImplied
<1> QED
  BY <1>1, <1>2, <1>3, <1>4, <1>5, <1>6, <1>7, <1>8, PTL
  DEF AllSpec, InOrder, Bounded!IsFifo, Bounded!Fifo!Safety, Locked!IsFifo

=============================================================================
