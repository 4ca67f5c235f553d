--------------------------- MODULE SpinlockQueue ---------------------------
(***************************************************************************)
(* atomic_queue_mutex.h and spinlock.h: a queue in an array, whose every   *)
(* call holds a lock, TicketSpinlock or UnfairSpinlock.  Their words wrap. *)
(* The guard gives its ticket back to unlock, and nothing calls the        *)
(* unlock() that takes none.                                               *)
(***************************************************************************)
EXTENDS Naturals, Sequences

CONSTANTS
  Threads,      \* that push and pop
  Slots,        \* size_, which divides Words
  Words,        \* 2^32
  Most          \* items (a bound)

VARIABLES
  fair,         \* TicketSpinlock, or else UnfairSpinlock
  lastTicket,   \* ticket_
  next,         \* next_
  lock,         \* lock_
  first, last,  \* tail_ and head_
  q,            \* q_
  place, mine,  \* where each thread is, and its ticket
  sent, popped  \* how many items were pushed, and those popped

lockvars  == <<fair, lastTicket, next, lock>>
queuevars == <<first, last, q, sent, popped>>
spinvars  == <<lockvars, queuevars, place, mine>>

Init ==
  /\ fair \in BOOLEAN /\ lastTicket = Words - 1 /\ next = Words - 1 /\ lock = FALSE
  /\ first = Words - 1 /\ last = Words - 1 /\ q = [s \in 0 .. Slots - 1 |-> 0]
  /\ place = [t \in Threads |-> "call"] /\ mine = [t \in Threads |-> 0]
  /\ sent = 0 /\ popped = <<>>

Go(t, from, to) == place[t] = from /\ place' = [place EXCEPT ![t] = to]
Plus(n)         == (n + 1) % Words

-----------------------------------------------------------------------------
(* lock                                                                    *)

DrawTicket(t) ==
  /\ fair /\ Go(t, "call", "spin") /\ lastTicket' = Plus(lastTicket)
  /\ mine' = [mine EXCEPT ![t] = lastTicket]
  /\ UNCHANGED <<fair, next, lock, queuevars>>

\* The distance to next_ says how long to pause, and is read again after it.
MyTurn(t) ==
  /\ fair /\ Go(t, "spin", "locked") /\ next = mine[t]
  /\ UNCHANGED <<lockvars, queuevars, mine>>

\* The load that spares the exchange, ...
LooksFree(t) ==
  /\ ~ fair /\ Go(t, "call", "exchange") /\ ~ lock
  /\ UNCHANGED <<lockvars, queuevars, mine>>

ExchangeBlind(t) ==   \* a slip: what the exchange returns is not looked at
  /\ Go(t, "exchange", "locked") /\ lock' = TRUE
  /\ UNCHANGED <<fair, lastTicket, next, queuevars, mine>>

\* ... and the exchange.
Exchange(t) ==
  /\ Go(t, "exchange", IF lock THEN "call" ELSE "locked") /\ lock' = TRUE
  /\ UNCHANGED <<fair, lastTicket, next, queuevars, mine>>

UnlockTwice(t) ==   \* a slip: the unlock that takes no ticket
  /\ Go(t, "unlock", "call") /\ mine' = [mine EXCEPT ![t] = 0]
  /\ IF fair THEN next' = Plus(Plus(next)) /\ UNCHANGED lock ELSE lock' = FALSE /\ UNCHANGED next
  /\ UNCHANGED <<fair, lastTicket, queuevars>>

Unlock(t) ==
  /\ Go(t, "unlock", "call") /\ mine' = [mine EXCEPT ![t] = 0]
  /\ IF fair THEN next' = Plus(mine[t]) /\ UNCHANGED lock ELSE lock' = FALSE /\ UNCHANGED next
  /\ UNCHANGED <<fair, lastTicket, queuevars>>

-----------------------------------------------------------------------------
(* try_push and try_pop, with the lock                                     *)

Count == (last - first + Words) % Words

TryPush(t) ==
  /\ sent < Most /\ Go(t, "locked", IF Count < Slots THEN "pushed" ELSE "unlock")
  /\ q' = IF Count < Slots THEN [q EXCEPT ![last % Slots] = sent + 1] ELSE q
  /\ UNCHANGED <<lockvars, first, last, sent, popped, mine>>

Pushed(t) ==
  /\ Go(t, "pushed", "unlock") /\ last' = Plus(last) /\ sent' = sent + 1
  /\ UNCHANGED <<lockvars, first, q, popped, mine>>

TryPop(t) ==
  /\ Go(t, "locked", IF last # first THEN "popped" ELSE "unlock")
  /\ UNCHANGED <<lockvars, queuevars, mine>>

Popped(t) ==
  /\ Go(t, "popped", "unlock") /\ first' = Plus(first)
  /\ popped' = Append(popped, q[first % Slots])
  /\ UNCHANGED <<lockvars, last, q, sent, mine>>

Inside(t) == MyTurn(t) \/ Exchange(t) \/ Unlock(t) \/ TryPush(t) \/ Pushed(t) \/ TryPop(t) \/ Popped(t)

\* All that may be pushed is popped (the bound): nobody calls again.
Over == Len(popped) = Most /\ (\A t \in Threads : place[t] = "call") /\ UNCHANGED spinvars

Next ==
  \/ Over
  \/ \E t \in Threads : Inside(t) \/ (Len(popped) < Most /\ (DrawTicket(t) \/ LooksFree(t)))

Fairness == \A t \in Threads : WF_spinvars(Inside(t))

Spec == Init /\ [][Next]_spinvars /\ Fairness
-----------------------------------------------------------------------------
(* Properties *)

(* The lock makes of the two steps of a push, and of a pop, one: what is   *)
(* popped was pushed, first in, first out, whoever pushes and pops.        *)
Content == [i \in 1 .. Count |-> q[(first + i - 1) % Slots]]
Fifo    == INSTANCE FifoChannel WITH Items <- 1 .. Most, inside <- Content, taken <- popped
IsFifo  == Fifo!Init /\ [][Fifo!Next]_<<Content, popped>>

(* Who has drawn a ticket gets the lock, across the wrap.                  *)
InTurn == \A t \in Threads : place[t] = "spin" ~> place[t] = "locked"
=============================================================================
