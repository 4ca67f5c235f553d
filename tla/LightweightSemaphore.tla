------------------------ MODULE LightweightSemaphore ------------------------
(***************************************************************************)
(* lightweightsemaphore.h: a semaphore that enters the system's semaphore  *)
(* only when somebody has to sleep.  m_count is the number of permits, or  *)
(* when it is negative that of the waiters no permit is on its way to.     *)
(*                                                                         *)
(* A compare-exchange that only tries again when it fails is one step, and *)
(* so are the spins before a waiter gives up and registers.  wait and      *)
(* waitMany differ only in how many permits they ask for.                  *)
(***************************************************************************)
EXTENDS Integers, FiniteSets

CONSTANTS
  Signallers, Waiters,
  Interrupts   \* how often a wait without a time limit fails (a bound)

ASSUME ThreadsAssumption ==
  /\ IsFiniteSet(Signallers) /\ IsFiniteSet(Waiters) /\ Signallers \cap Waiters = {}

VARIABLES
  count,       \* m_count
  sema,        \* m_sema
  interrupts,
  at, my       \* where each thread is, and its locals

lwsvars == <<count, sema, interrupts, at, my>>

Smaller(a, b) == IF a < b THEN a ELSE b
Positive(n)   == IF n > 0 THEN n ELSE 0

\* max: permits asked for; got: those it has; limit: "zero" or "some" time, or
\* no time: "once", or "none" for wait_dequeue, which calls wait in a loop.
NoWait == [max |-> 0, got |-> 0, limit |-> "none", old |-> 0]

SemaInit ==
  /\ count = 0 /\ sema = 0 /\ interrupts = 0
  /\ at = [t \in Signallers \cup Waiters |-> "idle"]
  /\ my = [t \in Signallers \cup Waiters |-> IF t \in Waiters THEN NoWait ELSE 0]

Go(t, to) == at' = [at EXCEPT ![t] = to]
Got(c, n) == my' = [my EXCEPT ![c].got = @ + n]

-----------------------------------------------------------------------------
(* signal                                                                  *)

ReleaseLess(old, n) == Smaller(Positive(- old - 1), n)   \* a slip: one too few

\* How many of the n permits are for waiters that have registered.
ToRelease(old, n) == Smaller(Positive(- old), n)

Signal(t) ==
  /\ at[t] = "signal" /\ count' = count + my[t]
  /\ my' = [my EXCEPT ![t] = ToRelease(count, my[t])]
  /\ Go(t, IF my'[t] > 0 THEN "release" ELSE "idle")
  /\ UNCHANGED <<sema, interrupts>>

\* m_sema.signal posts them one by one.
Release(t) ==
  /\ at[t] = "release" /\ sema' = sema + 1
  /\ my' = [my EXCEPT ![t] = @ - 1] /\ Go(t, IF my[t] = 1 THEN "idle" ELSE "release")
  /\ UNCHANGED <<count, interrupts>>

-----------------------------------------------------------------------------
(* tryWait, wait, tryWaitMany, waitMany                                    *)

Acquire(c, n) == count' = count - n /\ Got(c, n) /\ Go(c, "served")

\* tryWaitMany; only a call without "try" goes on when there is nothing.
TryWait(c) ==
  /\ at[c] = "try"
  /\ IF count > 0 THEN Acquire(c, Smaller(count, my[c].max))
     ELSE Go(c, IF my[c].limit = "try" THEN "failed" ELSE "spin") /\ UNCHANGED <<count, my>>
  /\ UNCHANGED <<sema, interrupts>>

Spin(c) ==
  /\ at[c] = "spin" /\ count > 0 /\ Acquire(c, Smaller(count, my[c].max))
  /\ UNCHANGED <<sema, interrupts>>

\* The spins are over: a permit, or a place among the waiters.
Register(c) ==
  /\ at[c] = "spin" /\ count' = count - 1
  /\ IF count > 0 THEN Got(c, 1) /\ Go(c, "more")
     ELSE Go(c, IF my[c].limit = "zero" THEN "late" ELSE "wait") /\ UNCHANGED my
  /\ UNCHANGED <<sema, interrupts>>

Woken(c, from) ==
  /\ at[c] = from /\ sema > 0 /\ sema' = sema - 1 /\ Got(c, 1) /\ Go(c, "more")
  /\ UNCHANGED <<count, interrupts>>

TimesOut(c) ==
  /\ at[c] = "wait" /\ my[c].limit = "some" /\ Go(c, "late")
  /\ UNCHANGED <<count, sema, interrupts, my>>

Interrupted(c) ==
  /\ at[c] = "wait" /\ my[c].limit \in {"none", "once"} /\ Go(c, "late")
  /\ interrupts < Interrupts /\ interrupts' = interrupts + 1
  /\ UNCHANGED <<count, sema, my>>

LateSure(c) ==   \* a slip: no waiter is sure to be posted for at zero
  /\ at[c] = "late" /\ count # 0 /\ my' = [my EXCEPT ![c].old = count]
  /\ Go(c, IF count > 0 THEN "posted" ELSE "undo")
  /\ UNCHANGED <<count, sema, interrupts>>

\* Too late, but still registered: unless a post is sure to come, it takes that back.
Late(c) ==
  /\ at[c] = "late" /\ my' = [my EXCEPT ![c].old = count]
  /\ Go(c, IF count >= 0 THEN "posted" ELSE "undo")
  /\ UNCHANGED <<count, sema, interrupts>>

TryWoken(c) ==
  \/ Woken(c, "posted")
  \/ at[c] = "posted" /\ sema = 0 /\ Go(c, "late") /\ UNCHANGED <<count, sema, interrupts, my>>

UndoBlind(c) ==   \* a slip: a store that does not compare
  /\ at[c] = "undo" /\ count' = my[c].old + 1 /\ Go(c, "failed")
  /\ UNCHANGED <<sema, interrupts, my>>

Undo(c) ==
  /\ at[c] = "undo"
  /\ IF count = my[c].old THEN count' = count + 1 /\ Go(c, "failed")
     ELSE UNCHANGED count /\ Go(c, "late")
  /\ UNCHANGED <<sema, interrupts, my>>

\* waitMany has one and takes what else there is.
More(c) ==
  /\ at[c] = "more" /\ Acquire(c, Smaller(Positive(count), my[c].max - 1))
  /\ UNCHANGED <<sema, interrupts>>

Waiting(c) ==
  \/ TryWait(c) \/ Spin(c) \/ Register(c) \/ Woken(c, "wait") \/ TimesOut(c)
  \/ Interrupted(c) \/ Late(c) \/ TryWoken(c) \/ Undo(c) \/ More(c)
Signalling(t) == Signal(t) \/ Release(t)

\* Waiters that have registered and hold neither a permit nor anything else.
Registered == {c \in Waiters : at[c] \in {"wait", "late", "posted", "undo"}}
=============================================================================
