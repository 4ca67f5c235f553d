---------------------------- MODULE BoundedQueue ----------------------------
(***************************************************************************)
(* helper.cpp: queue<T>, one of the queues that may stand in for q: a      *)
(* deque with a mutex and a condition variable for either side.  What is   *)
(* done while the mutex is held is one step; notify_one comes after it,    *)
(* and a thread that is woken must take the mutex and look again.          *)
(***************************************************************************)
EXTENDS Naturals, Sequences

CONSTANTS
  Pushers, Poppers,
  Room,         \* capacity
  Most          \* items (a bound)

VARIABLES
  content,
  made,         \* items pushed so far, which are its numbers
  popped,       \* in the order they were
  waiting       \* where each thread is: waiting for its condition, or about to notify

boundedvars == <<content, made, popped, waiting>>

Init ==
  /\ content = <<>> /\ made = 0 /\ popped = <<>>
  /\ waiting = [t \in Pushers \cup Poppers |-> "call"]

Go(t, to)     == waiting' = [waiting EXCEPT ![t] = to]
Runs(t)       == waiting[t] \in {"call", "woken"}
Others(t)     == IF t \in Pushers THEN Poppers ELSE Pushers
Able(t)       == IF t \in Pushers THEN Len(content) < Room ELSE content # <<>>

Add == made' = made + 1 /\ content' = Append(content, made + 1) /\ UNCHANGED popped
Remove == popped' = Append(popped, Head(content)) /\ content' = Tail(content) /\ UNCHANGED made
Move(t) == IF t \in Pushers THEN Add ELSE Remove

\* push and pop, with the predicate of wait true, and the try_ ones.
Pass(t) ==
  /\ Runs(t) /\ Able(t) /\ (t \in Pushers => made < Most)
  /\ Move(t) /\ Go(t, "notify")

\* The predicate is false, and wait releases the mutex.
Wait(t) ==
  /\ Runs(t) /\ ~ Able(t) /\ (t \in Pushers => made < Most)
  /\ Go(t, "waits") /\ UNCHANGED <<content, made, popped>>

NotifyOwn(t) ==   \* a slip: one condition variable in place of the other
  /\ waiting[t] = "notify"
  /\ LET W == {u \in {t} \cup (IF t \in Pushers THEN Pushers ELSE Poppers) : waiting[u] = "waits"} IN
     IF W = {} THEN Go(t, "call")
     ELSE \E u \in W : waiting' = [waiting EXCEPT ![t] = "call", ![u] = "woken"]
  /\ UNCHANGED <<content, made, popped>>

\* notify_one wakes one of those that wait, if any.
Notify(t) ==
  /\ waiting[t] = "notify"
  /\ LET W == {u \in Others(t) : waiting[u] = "waits"} IN
     IF W = {} THEN Go(t, "call")
     ELSE \E u \in W : waiting' = [waiting EXCEPT ![t] = "call", ![u] = "woken"]
  /\ UNCHANGED <<content, made, popped>>

Working(t) == Pass(t) \/ Wait(t) \/ Notify(t)

\* No more items (the bound): consumers wait.
Over == made = Most /\ content = <<>> /\ (\A t \in Poppers : waiting[t] = "waits")
        /\ (\A t \in Pushers : waiting[t] # "notify") /\ UNCHANGED boundedvars

Next == Over \/ \E t \in Pushers \cup Poppers : Working(t)

Fairness == \A t \in Pushers \cup Poppers : WF_boundedvars(Working(t))

Spec == Init /\ [][Next]_boundedvars /\ Fairness
-----------------------------------------------------------------------------
(* Properties *)

(* First in, first out, whoever pushes and pops, ...                       *)
Fifo   == INSTANCE FifoChannel WITH Items <- 1 .. Most, inside <- content, taken <- popped
IsFifo == Fifo!Safety

(* ... and all goes in and comes out, whoever sleeps on the other side.    *)
AllThrough == <>(Len(popped) = Most)
=============================================================================
