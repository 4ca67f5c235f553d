----------------------------- MODULE MpmcQueue -----------------------------
(***************************************************************************)
(* helper.cpp: rigtorp::mpmc::Queue, one of the queues that may stand in   *)
(* for q.  Threads draw tickets from head_ and tail_; a slot has a turn,   *)
(* even when it waits for the push of a round and odd when it waits for    *)
(* the pop, so that a ticket knows its own.  head_ and tail_ are far from  *)
(* their wrap, where turns would begin again at zero and match no slot.    *)
(***************************************************************************)
EXTENDS Integers

CONSTANTS
  Producers, Consumers,
  Capacity,
  MaxTickets     \* pushes, as many as pops (a bound)

VARIABLES
  head, tail,
  turns,         \* turn of every slot
  storage,       \* the ticket of the push whose item a slot has, or NoItem
  doing,         \* where each thread is
  ticket         \* its head or tail

mpmcvars == <<head, tail, turns, storage, doing, ticket>>

NoItem  == -1
Threads == Producers \cup Consumers

Idx(t)  == t % Capacity
Turn(t) == t \div Capacity
\* The turn at which a thread may use the slot of its ticket.
Own(t, n) == IF t \in Producers THEN Turn(n) * 2 ELSE Turn(n) * 2 + 1
Ready(t, n) == turns[Idx(n)] = Own(t, n)
\* The counter a thread draws from.
Counter(t) == IF t \in Producers THEN head ELSE tail

Init ==
  /\ head = 0 /\ tail = 0
  /\ turns = [s \in 0 .. Capacity - 1 |-> 0] /\ storage = [s \in 0 .. Capacity - 1 |-> NoItem]
  /\ doing = [t \in Threads |-> "idle"] /\ ticket = [t \in Threads |-> 0]

Go(t, from, to) == doing[t] = from /\ doing' = [doing EXCEPT ![t] = to]
Advance(t) == IF t \in Producers THEN head' = head + 1 /\ UNCHANGED tail
              ELSE tail' = tail + 1 /\ UNCHANGED head

\* emplace and pop: fetch_add, and then the wait for the turn.
Draw(t) ==
  /\ Counter(t) < MaxTickets /\ Go(t, "idle", "wait")
  /\ ticket' = [ticket EXCEPT ![t] = Counter(t)] /\ Advance(t)
  /\ UNCHANGED <<turns, storage>>

EnterAnyRound(t) ==   \* a slip: a slot that is empty, or full, will do
  /\ Go(t, "wait", "inside") /\ turns[Idx(ticket[t])] % 2 = Own(t, 0)
  /\ UNCHANGED <<head, tail, turns, storage, ticket>>

Enter(t) ==
  /\ Go(t, "wait", "inside") /\ Ready(t, ticket[t])
  /\ UNCHANGED <<head, tail, turns, storage, ticket>>

\* try_emplace and try_pop: the counter is loaded, ...
Load(t) ==
  /\ Counter(t) < MaxTickets /\ Go(t, "idle", "try")
  /\ ticket' = [ticket EXCEPT ![t] = Counter(t)]
  /\ UNCHANGED <<head, tail, turns, storage>>

\* ... the turn is looked at, ...
Try(t) ==
  /\ Go(t, "try", IF Ready(t, ticket[t]) THEN "exchange" ELSE "reload")
  /\ UNCHANGED <<head, tail, turns, storage, ticket>>

\* ... and the ticket is had when nobody has drawn it since, ...
Exchange(t) ==
  /\ IF Counter(t) = ticket[t] THEN Go(t, "exchange", "inside") /\ Advance(t) /\ UNCHANGED ticket
     ELSE /\ Go(t, "exchange", "try") /\ ticket' = [ticket EXCEPT ![t] = Counter(t)]
          /\ UNCHANGED <<head, tail>>
  /\ UNCHANGED <<turns, storage>>

\* ... or false, unless the counter has moved meanwhile.
Reload(t) ==
  /\ Go(t, "reload", IF Counter(t) = ticket[t] THEN "idle" ELSE "try")
  /\ ticket' = [ticket EXCEPT ![t] = IF Counter(t) = ticket[t] THEN 0 ELSE Counter(t)]
  /\ UNCHANGED <<head, tail, turns, storage>>

\* construct, or move and destroy, and then the store of the next turn.
Use(t) ==
  /\ Go(t, "inside", "leave")
  /\ storage' = [storage EXCEPT ![Idx(ticket[t])] = IF t \in Producers THEN ticket[t] ELSE NoItem]
  /\ UNCHANGED <<head, tail, turns, ticket>>

Leave(t) ==
  /\ Go(t, "leave", "idle") /\ ticket' = [ticket EXCEPT ![t] = 0]
  /\ turns' = [turns EXCEPT ![Idx(ticket[t])] = Own(t, ticket[t]) + 1]
  /\ UNCHANGED <<head, tail, storage>>

Running(t) == Enter(t) \/ Try(t) \/ Exchange(t) \/ Reload(t) \/ Use(t) \/ Leave(t)

Over == head >= MaxTickets /\ tail >= MaxTickets /\ (\A t \in Threads : doing[t] = "idle") /\ UNCHANGED mpmcvars

Next == Over \/ \E t \in Threads : Draw(t) \/ Load(t) \/ Running(t)

(* Threads run on, and consumers call pop again.                           *)
Fairness == /\ \A t \in Threads : WF_mpmcvars(Running(t))
            /\ \A c \in Consumers : WF_mpmcvars(Draw(c))

Spec == Init /\ [][Next]_mpmcvars /\ Fairness
-----------------------------------------------------------------------------
(* Properties *)

TypeOK ==
  /\ head \in Nat /\ tail \in Nat
  /\ turns \in [0 .. Capacity - 1 -> Nat]
  /\ storage \in [0 .. Capacity - 1 -> Nat \cup {NoItem}]
  /\ doing \in [Threads -> {"idle", "wait", "try", "exchange", "reload", "inside", "leave"}]
  /\ ticket \in [Threads -> Nat]

(* Two threads are never inside one slot, a push finds it empty, and a pop *)
(* gets the item of the push with its own ticket: order is kept, as it is  *)
(* not by AtomicQueue2, whose slots do not know their round.               *)
Inside(t) == doing[t] \in {"inside", "leave"}
OwnItem ==
  /\ \A t, u \in Threads : t # u /\ Inside(t) /\ Inside(u) => Idx(ticket[t]) # Idx(ticket[u])
  /\ \A t \in Threads : doing[t] = "inside" =>
       storage[Idx(ticket[t])] = IF t \in Producers THEN NoItem ELSE ticket[t]

(* Who waits for its turn gets it, as long as the other side comes.        *)
TurnComes == \A p \in Producers : doing[p] = "wait" ~> doing[p] = "inside"
=============================================================================
