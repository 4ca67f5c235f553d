--------------------------- MODULE BlockingQueue ---------------------------
(***************************************************************************)
(* blockingconcurrentqueue.h: a ConcurrentQueue, here the number of its    *)
(* items, and a LightweightSemaphore that has a permit for every item.  An *)
(* enqueue signals after it, and a dequeue waits before it, and then asks  *)
(* the queue until it has got as many items as it has permits.             *)
(***************************************************************************)
EXTENDS LightweightSemaphore, Sums

CONSTANTS
  Sizes,       \* of enqueues: 1, and those of bulks
  Calls,       \* of consumers: the most items, and the limit of the wait
  MaxItems     \* enqueued in all (a bound)

ASSUME CallsAssumption ==
  /\ Sizes \subseteq Nat \ {0}
  /\ Calls \subseteq [max: Nat \ {0}, limit: {"none", "once", "zero", "some", "try"}]

VARIABLES
  items,       \* in inner
  enqueued     \* so far

bqvars == <<count, sema, interrupts, at, my, items, enqueued>>

Init == SemaInit /\ items = 0 /\ enqueued = 0

\* enqueue, enqueue_bulk and the try_ ones: one that fails signals nothing.
Enqueue(t) ==
  /\ at[t] = "idle" /\ \E n \in Sizes :
       /\ enqueued + n <= MaxItems /\ enqueued' = enqueued + n
       /\ items' = items + n /\ my' = [my EXCEPT ![t] = n]
  /\ Go(t, "signal") /\ UNCHANGED <<count, sema, interrupts>>

\* The dequeues, by their limit: "try", none or once, zero or some time.
Dequeue(c) ==
  /\ at[c] = "idle" /\ Go(c, "try")
  /\ \E call \in Calls :
       my' = [my EXCEPT ![c] = [max |-> call.max, got |-> 0, limit |-> call.limit, old |-> 0]]
  /\ UNCHANGED <<count, sema, interrupts, items, enqueued>>

\* wait_dequeue waits again; all others return false, or 0.  So do those that wait
\* without a time, wait_dequeue_bulk and the timed ones with a negative time, when
\* the system has interrupted the wait, though the notes at them say they block.
Fail(c) ==
  /\ at[c] = "failed"
  /\ IF my[c].limit = "none" THEN Go(c, "try") /\ UNCHANGED my
     ELSE Go(c, "idle") /\ my' = [my EXCEPT ![c] = NoWait]
  /\ UNCHANGED <<count, sema, interrupts, items, enqueued>>

\* It asks until it gets one, for each permit.
Fetch(c) ==
  /\ at[c] = "served" /\ items > 0 /\ items' = items - 1
  /\ IF my[c].got = 1 THEN Go(c, "idle") /\ my' = [my EXCEPT ![c] = NoWait]
     ELSE UNCHANGED at /\ my' = [my EXCEPT ![c].got = @ - 1]
  /\ UNCHANGED <<count, sema, interrupts, enqueued>>

Working(t) ==
  \/ t \in Signallers /\ Signalling(t) /\ UNCHANGED <<items, enqueued>>
  \/ t \in Waiters /\ Waiting(t) /\ UNCHANGED <<items, enqueued>>
  \/ t \in Waiters /\ (Fail(t) \/ Fetch(t))

\* Nothing more is enqueued (the bound), and who waits without a limit sleeps.
Over ==
  /\ enqueued = MaxItems /\ \A t \in Signallers : at[t] = "idle"
  /\ \A c \in Waiters : at[c] = "wait" /\ sema = 0
  /\ UNCHANGED bqvars

Next ==
  \/ \E t \in Signallers : Enqueue(t)
  \/ \E c \in Waiters : Dequeue(c)
  \/ \E t \in Signallers \cup Waiters : Working(t)
  \/ Over

Fairness == \A t \in Signallers \cup Waiters : WF_bqvars(Working(t))

Spec == Init /\ [][Next]_bqvars /\ Fairness
-----------------------------------------------------------------------------
(* Properties *)

Limits == {"none", "once", "zero", "some", "try"}
Places == {"idle", "try", "spin", "wait", "late", "posted", "undo", "more", "served", "failed"}
TypeOK ==
  /\ count \in Int /\ sema \in Nat /\ interrupts \in Nat /\ items \in Nat /\ enqueued \in Nat
  /\ at \in [Signallers \cup Waiters -> Places \cup {"signal", "release"}]
  /\ DOMAIN my = Signallers \cup Waiters
  /\ \A t \in Signallers : at[t] \in {"idle", "signal", "release"} /\ my[t] \in Nat
  /\ \A c \in Waiters : at[c] \in Places /\ my[c] \in [max: Nat, got: Nat, limit: Limits, old: Int]

Granted  == [c \in Waiters |-> my[c].got]
Permits  == Total(Granted)

(* Once every enqueue has returned, an item nobody has a permit for is in  *)
(* the count, and nobody sleeps while there is one: no signal went to a    *)
(* waiter that had given up, and none that gave up took one with it.       *)
NoneForgotten ==
  (\A t \in Signallers : at[t] = "idle") =>
    /\ items - Permits = Positive(count) + sema
    /\ Cardinality(Registered) = Positive(- count) + sema

(* The semaphore is one.  Its permits are those in the count and those on  *)
(* their way to registered waiters.                                        *)
Abstract ==
  INSTANCE CountingSemaphore WITH Clients <- Waiters,
    value <- count + Cardinality(Registered), has <- Granted
IsCounting == Abstract!Spec

(* A call with a limit returns, unless others spoil its compare-exchange   *)
(* for ever: late, it gets the post that is on its way or takes back its   *)
(* place, and with a permit it gets an item.                               *)
Undisturbed(c) == \A d \in Waiters \ {c} : at[d] \in {"idle", "wait"}
LimitedReturns ==
  \A c \in Waiters : <>[]Undisturbed(c) => []<>(at[c] = "idle" \/ my[c].limit \in {"none", "once"})
=============================================================================
