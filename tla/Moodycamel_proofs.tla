------------------------- MODULE Moodycamel_proofs -------------------------
(***************************************************************************)
(* Proofs about the parts of the moodycamel queue above the queue of one   *)
(* producer.  Of BlockingQueue, for any numbers of threads and any calls:  *)
(* its semaphore is one, and when no enqueue is under way no item is       *)
(* forgotten and no waiter sleeps beside a permit.  Of Registry, for any   *)
(* threads, tokens and hashes: a producer is one thread's, which finds it  *)
(* again, in tables that never fill up.  Of QueueMoves, for any queues,    *)
(* tokens and threads: what a queue holds leads back to it, whichever      *)
(* queues it was moved through.  Of Consumers, for any producers, tokens   *)
(* and threads: who comes back with nothing has asked everyone, and tokens *)
(* stay as far apart as their numbers.                                     *)
(***************************************************************************)
EXTENDS MCMoodycamel, QueueLemmas

(* The strengthening of NoneForgotten. *)

\* Permits still to be posted to the system's semaphore, and those of items
\* that are in the queue and not yet signalled.
Posting   == [t \in Signallers |-> IF at[t] = "release" THEN my[t] ELSE 0]
Announced == [t \in Signallers |-> IF at[t] = "signal" THEN my[t] ELSE 0]

\* Who has been granted permits is where it uses them.
Roles ==
  /\ \A c \in Waiters : at[c] \in {"more", "served"} => my[c].got > 0
  /\ \A c \in Waiters : at[c] \notin {"more", "served"} => my[c].got = 0
  /\ \A c \in Waiters : at[c] # "idle" => my[c].max > 0
  /\ \A c \in Waiters : at[c] = "undo" => my[c].old < 0
  /\ \A t \in Signallers : at[t] # "idle" => my[t] > 0

\* Every registered waiter has a post made, a post to come, or its place in the
\* count; every item has a permit granted, there to be had, or to be signalled.
Balanced ==
  /\ Cardinality(Registered) = Positive(- count) + sema + Total(Posting)
  /\ items = Total(Granted) + count + Cardinality(Registered) + Total(Announced)

Finite == IsFiniteSet(Units(Posting)) /\ IsFiniteSet(Units(Announced)) /\ IsFiniteSet(Units(Granted))

IInv == TypeOK /\ Roles /\ Finite /\ Balanced

-----------------------------------------------------------------------------
(* What a step of one thread can change *)

\* The registered, when one waiter goes elsewhere.
LEMMA RegisteredChange ==
  ASSUME NEW c \in Waiters, \A u \in Waiters : u # c => at'[u] = at[u]
  PROVE  /\ Cardinality(Registered) \in Nat
         /\ Cardinality(Registered)' = Cardinality(Registered)
              + (IF c \in Registered' THEN 1 ELSE 0) - (IF c \in Registered THEN 1 ELSE 0)
<1>1. IsFiniteSet(Registered)
  BY ThreadsAssumption, FS_Subset DEF Registered
<1>2. Registered' = IF c \in Registered' THEN Registered \cup {c} ELSE Registered \ {c}
  BY DEF Registered
<1>3. CASE c \in Registered'
  BY <1>1, <1>2, <1>3, FS_AddElement, FS_CardinalityType
<1>4. CASE c \notin Registered'
  <2>1. Registered' = Registered \ {c} /\ Cardinality(Registered) \in Nat
    BY <1>1, <1>2, <1>4, FS_CardinalityType
  <2>2. Cardinality(Registered \ {c})
          = IF c \in Registered THEN Cardinality(Registered) - 1 ELSE Cardinality(Registered)
    BY <1>1, FS_RemoveElement
  <2> QED
    BY <1>4, <2>1, <2>2
<1> QED
  BY <1>3, <1>4

\* A waiter's step changes the registered and what is granted.
LEMMA WaiterChange ==
  ASSUME TypeOK, TypeOK', Finite, NEW c \in Waiters,
         \A u \in (Signallers \cup Waiters) \ {c} : at'[u] = at[u] /\ my'[u] = my[u]
  PROVE  /\ Finite'
         /\ Total(Posting)' = Total(Posting) /\ Total(Posting) \in Nat
         /\ Total(Announced)' = Total(Announced) /\ Total(Announced) \in Nat
         /\ Total(Granted)' = Total(Granted) + my'[c].got - my[c].got /\ Total(Granted) \in Nat
         /\ Cardinality(Registered) \in Nat
         /\ Cardinality(Registered)' = Cardinality(Registered)
              + (IF c \in Registered' THEN 1 ELSE 0) - (IF c \in Registered THEN 1 ELSE 0)
<1>1. Posting' = Posting /\ Announced' = Announced
  BY ThreadsAssumption DEF Posting, Announced
<1>2. Total(Posting) \in Nat /\ Total(Announced) \in Nat
  BY FS_CardinalityType DEF Total, Finite
<1>3. Granted \in [Waiters -> Nat] /\ Granted' \in [Waiters -> Nat]
  BY DEF Granted, TypeOK
<1>4. \A u \in Waiters : u # c => Granted'[u] = Granted[u]
  BY DEF Granted
<1>5. Granted[c] = my[c].got /\ Granted'[c] = my'[c].got
  BY DEF Granted
<1>6. IsFiniteSet(Units(Granted)) 
  BY DEF Finite
<1>7. /\ IsFiniteSet(Units(Granted')) /\ Total(Granted) \in Nat
      /\ Total(Granted') = Total(Granted) + Granted'[c] - Granted[c]
  BY <1>3, <1>4, <1>6, TotalChange
<1>8. Finite'
  BY <1>1, <1>7 DEF Finite, Units
<1>9. Total(Granted)' = Total(Granted') /\ Total(Posting)' = Total(Posting') /\ Total(Announced)' = Total(Announced')
  BY DEF Total, Units
<1> QED
  BY <1>1, <1>2, <1>5, <1>7, <1>8, <1>9, RegisteredChange

\* A signaller's step changes what is to be posted and to be signalled.
LEMMA SignallerChange ==
  ASSUME TypeOK, TypeOK', Finite, NEW t \in Signallers,
         \A u \in (Signallers \cup Waiters) \ {t} : at'[u] = at[u] /\ my'[u] = my[u]
  PROVE  /\ Finite'
         /\ Total(Posting)' = Total(Posting) + Posting'[t] - Posting[t] /\ Total(Posting) \in Nat
         /\ Total(Announced)' = Total(Announced) + Announced'[t] - Announced[t] /\ Total(Announced) \in Nat
         /\ Granted' = Granted /\ Total(Granted)' = Total(Granted) /\ Total(Granted) \in Nat
         /\ Registered' = Registered /\ Cardinality(Registered)' = Cardinality(Registered)
         /\ Cardinality(Registered) \in Nat
<1>1. Granted' = Granted /\ Registered' = Registered
  BY ThreadsAssumption DEF Granted, Registered
<1>2. Total(Granted) \in Nat
  BY FS_CardinalityType DEF Total, Finite
<1>3. Cardinality(Registered) \in Nat
  BY ThreadsAssumption, FS_Subset, FS_CardinalityType DEF Registered
<1>4. Posting \in [Signallers -> Nat] /\ Posting' \in [Signallers -> Nat]
  BY DEF Posting, TypeOK
<1>5. Announced \in [Signallers -> Nat] /\ Announced' \in [Signallers -> Nat]
  BY DEF Announced, TypeOK
<1>6. \A u \in Signallers : u # t => Posting'[u] = Posting[u] /\ Announced'[u] = Announced[u]
  BY DEF Posting, Announced
<1>7. IsFiniteSet(Units(Posting)) /\ IsFiniteSet(Units(Announced))
  BY DEF Finite
<1>8. /\ IsFiniteSet(Units(Posting')) /\ Total(Posting) \in Nat
      /\ Total(Posting') = Total(Posting) + Posting'[t] - Posting[t]
  BY <1>4, <1>6, <1>7, TotalChange
<1>9. /\ IsFiniteSet(Units(Announced')) /\ Total(Announced) \in Nat
      /\ Total(Announced') = Total(Announced) + Announced'[t] - Announced[t]
  BY <1>5, <1>6, <1>7, TotalChange
<1>10. Finite'
  BY <1>1, <1>8, <1>9 DEF Finite, Units
<1>11. Total(Granted)' = Total(Granted') /\ Total(Posting)' = Total(Posting') /\ Total(Announced)' = Total(Announced')
  BY DEF Total, Units
<1> QED
  BY <1>1, <1>2, <1>3, <1>8, <1>9, <1>10, <1>11
-----------------------------------------------------------------------------
(* The steps *)

\* At the start nobody is registered, and nothing is in the queue.
LEMMA Start == Init => IInv
<1> SUFFICES ASSUME Init PROVE IInv
  OBVIOUS
<1>1. TypeOK /\ Roles
  BY ThreadsAssumption DEF Init, SemaInit, TypeOK, Roles, NoWait, Places, Limits
<1>2. Finite /\ Total(Posting) = 0 /\ Total(Announced) = 0 /\ Total(Granted) = 0
  <2>1. /\ \A t \in DOMAIN Posting : Posting[t] = 0
        /\ \A t \in DOMAIN Announced : Announced[t] = 0
        /\ \A c \in DOMAIN Granted : Granted[c] = 0
    BY ThreadsAssumption DEF Init, SemaInit, Posting, Announced, Granted, NoWait
  <2> QED
    BY <2>1, TotalZero DEF Finite
<1>3. Registered = {}
  BY DEF Init, SemaInit, Registered
<1>4. Balanced
  BY <1>2, <1>3, FS_EmptySet DEF Balanced, Init, SemaInit, Positive
<1> QED
  BY <1>1, <1>2, <1>4 DEF IInv

\* In every step of a waiter the others stay where they are, and its own place,
\* record and share of the counts change in one of these ways.
Granting(c) ==   \* it is granted permits, of those in the count
  /\ at[c] \in {"try", "spin", "more"} /\ at'[c] \in {"more", "served"}
  /\ my'[c].got > 0 /\ my'[c].got >= my[c].got
  /\ my'[c].got - my[c].got <= Positive(count)
  /\ count' = count - (my'[c].got - my[c].got) /\ sema' = sema /\ items' = items
Posted(c) ==     \* it takes the post that a waiter is due
  /\ c \in Registered /\ at'[c] = "more" /\ my'[c].got = my[c].got + 1
  /\ sema > 0 /\ sema' = sema - 1 /\ count' = count /\ items' = items
Registers(c) ==
  /\ at[c] = "spin" /\ c \in Registered' /\ at'[c] # "undo" /\ count <= 0
  /\ count' = count - 1 /\ sema' = sema /\ items' = items /\ my'[c].got = my[c].got
Unregisters(c) ==
  /\ c \in Registered /\ at'[c] = "failed" /\ count < 0
  /\ count' = count + 1 /\ sema' = sema /\ items' = items /\ my'[c].got = my[c].got
Fetches(c) ==
  /\ at[c] = "served" /\ c \notin Registered' /\ items > 0 /\ items' = items - 1
  /\ my'[c].got = my[c].got - 1 /\ UNCHANGED <<count, sema>>
Shifts(c) ==      \* nothing of the counts
  /\ (c \in Registered <=> c \in Registered') /\ my'[c].got = my[c].got
  /\ UNCHANGED <<count, sema, items>>

WaiterStep(c) == Granting(c) \/ Posted(c) \/ Registers(c) \/ Unregisters(c) \/ Fetches(c) \/ Shifts(c)

\* Each step of a waiter is of one of the six kinds, and is the waiter's alone.
LEMMA WaiterSteps ==
  ASSUME IInv, NEW c \in Waiters,
         Dequeue(c) \/ (Waiting(c) /\ UNCHANGED <<items, enqueued>>) \/ Fail(c) \/ Fetch(c)
  PROVE  /\ TypeOK' /\ Roles'
         /\ \A u \in (Signallers \cup Waiters) \ {c} : at'[u] = at[u] /\ my'[u] = my[u]
         /\ WaiterStep(c)
<1> USE ThreadsAssumption, CallsAssumption DEF IInv, Go, Got, Limits
<1> DEFINE Goal == /\ TypeOK' /\ Roles'
                   /\ \A u \in (Signallers \cup Waiters) \ {c} : at'[u] = at[u] /\ my'[u] = my[u]
                   /\ WaiterStep(c)
<1>1. CASE Dequeue(c)
  <2> DEFINE r(call) == [max |-> call.max, got |-> 0, limit |-> call.limit, old |-> 0]
  <2>1. PICK call \in Calls : my' = [my EXCEPT ![c] = r(call)]
    BY <1>1 DEF Dequeue
  <2>2. /\ r(call) \in [max: Nat, got: Nat, limit: Limits, old: Int]
        /\ r(call).max > 0 /\ r(call).got = 0 /\ r(call).old = 0
    OBVIOUS
  <2>3. /\ at[c] = "idle" /\ at' = [at EXCEPT ![c] = "try"]
        /\ UNCHANGED <<count, sema, interrupts, items, enqueued>>
    BY <1>1 DEF Dequeue
  <2> HIDE DEF r
  <2> QED
    BY <2>1, <2>2, <2>3 DEF TypeOK, Roles, WaiterStep, Shifts, Registered, Places
<1>2. CASE Fail(c)
  BY <1>2 DEF Fail, TypeOK, Roles, NoWait, WaiterStep, Shifts, Registered, Places
<1>3. CASE Fetch(c)
  BY <1>3 DEF Fetch, TypeOK, Roles, NoWait, WaiterStep, Fetches, Registered, Places
<1>4. CASE Waiting(c) /\ UNCHANGED <<items, enqueued>>
  <2>1. ASSUME TryWait(c) \/ Spin(c) \/ More(c) PROVE Goal
    BY <1>4, <2>1 DEF TryWait, Spin, More, Acquire, Smaller, Positive, TypeOK, Roles, WaiterStep, Shifts, Granting, Registered, Places
  <2>2. ASSUME Register(c) PROVE Goal
    BY <1>4, <2>2 DEF Register, TypeOK, Roles, WaiterStep, Positive, Granting, Registers, Registered, Places
  <2>3. ASSUME Woken(c, "wait") \/ TryWoken(c) PROVE Goal
    BY <1>4, <2>3 DEF Woken, TryWoken, TypeOK, Roles, WaiterStep, Posted, Shifts, Registered, Places
  <2>4. ASSUME TimesOut(c) \/ Interrupted(c) \/ Late(c) PROVE Goal
    BY <1>4, <2>4 DEF TimesOut, Interrupted, Late, TypeOK, Roles, WaiterStep, Shifts, Registered, Places
  <2>5. ASSUME Undo(c) PROVE Goal
    BY <1>4, <2>5 DEF Undo, TypeOK, Roles, WaiterStep, Unregisters, Shifts, Registered, Places
  <2> QED
    BY <1>4, <2>1, <2>2, <2>3, <2>4, <2>5 DEF Waiting
<1> QED
  BY <1>1, <1>2, <1>3, <1>4

\* The same for a signaller.
Enqueued(t) ==   \* items come, and are to be signalled
  /\ at[t] = "idle" /\ Posting'[t] = 0 /\ items' = items + Announced'[t] /\ UNCHANGED <<count, sema>>
Signalled(t) ==  \* the permits are in the count, and those for the registered to be posted
  /\ Announced[t] > 0 /\ Posting[t] = 0 /\ Announced'[t] = 0
  /\ count' = count + Announced[t] /\ Posting'[t] = ToRelease(count, Announced[t])
  /\ UNCHANGED <<sema, items>>
Released(t) ==
  /\ Announced[t] = 0 /\ Announced'[t] = 0 /\ Posting'[t] = Posting[t] - 1
  /\ sema' = sema + 1 /\ UNCHANGED <<count, items>>

SignallerStep(t) == Enqueued(t) \/ Signalled(t) \/ Released(t)

\* Each step of a signaller is of one of the three kinds, and is the signaller's alone.
LEMMA SignallerSteps ==
  ASSUME IInv, NEW t \in Signallers,
         Enqueue(t) \/ (Signalling(t) /\ UNCHANGED <<items, enqueued>>)
  PROVE  /\ TypeOK' /\ Roles'
         /\ \A u \in (Signallers \cup Waiters) \ {t} : at'[u] = at[u] /\ my'[u] = my[u]
         /\ SignallerStep(t)
<1> USE ThreadsAssumption, CallsAssumption DEF IInv, Go
<1>1. CASE Enqueue(t)
  BY <1>1 DEF Enqueue, TypeOK, Roles, Places, Limits, SignallerStep, Enqueued, Posting, Announced
<1>2. CASE Signal(t) /\ UNCHANGED <<items, enqueued>>
  <2> DEFINE n == ToRelease(count, my[t])
  <2>1. n \in Nat
    BY DEF TypeOK, Roles, ToRelease, Positive, Smaller
  <2>2. /\ at[t] = "signal" /\ count' = count + my[t] /\ my' = [my EXCEPT ![t] = n]
        /\ at' = [at EXCEPT ![t] = IF n > 0 THEN "release" ELSE "idle"]
        /\ UNCHANGED <<sema, interrupts, items, enqueued>>
    BY <1>2 DEF Signal, TypeOK
  <2>3. SignallerStep(t)
    BY <2>1, <2>2 DEF TypeOK, Roles, SignallerStep, Signalled, Posting, Announced
  <2> HIDE DEF n
  <2>4. TypeOK' /\ Roles'
    BY <2>1, <2>2 DEF TypeOK, Roles, Places, Limits
  <2> QED
    BY <2>2, <2>3, <2>4
<1>3. CASE Release(t) /\ UNCHANGED <<items, enqueued>>
  BY <1>3 DEF Release, TypeOK, Roles, Places, Limits, SignallerStep, Released, Posting, Announced
<1> QED
  BY <1>1, <1>2, <1>3 DEF Signalling

\* Whose step it is.
LEMMA Whose ==
  Next => \/ \E c \in Waiters : Dequeue(c) \/ (Waiting(c) /\ UNCHANGED <<items, enqueued>>) \/ Fail(c) \/ Fetch(c)
          \/ \E t \in Signallers : Enqueue(t) \/ (Signalling(t) /\ UNCHANGED <<items, enqueued>>)
          \/ UNCHANGED bqvars
<1>1. ASSUME Over PROVE UNCHANGED bqvars
  BY <1>1 DEF Over
<1> QED
  BY <1>1 DEF Next, Working

\* Nothing that the invariant or the semaphore is about changes.
LEMMA Stutter ==
  UNCHANGED bqvars => /\ IInv => IInv'
                      /\ UNCHANGED <<count, Granted, Registered, Cardinality(Registered)>>
<1> SUFFICES ASSUME UNCHANGED bqvars
             PROVE  (IInv => IInv') /\ UNCHANGED <<count, Granted, Registered, Cardinality(Registered)>>
  OBVIOUS
<1>1. Posting' = Posting /\ Announced' = Announced /\ Granted' = Granted /\ Registered' = Registered
  BY DEF bqvars, Posting, Announced, Granted, Registered
<1> QED
  BY <1>1 DEF bqvars, IInv, TypeOK, Roles, Finite, Balanced, Units, Total

\* What both theorems rest on: a step keeps the invariant.
LEMMA WaiterKeeps ==
  ASSUME IInv, NEW c \in Waiters,
         Dequeue(c) \/ (Waiting(c) /\ UNCHANGED <<items, enqueued>>) \/ Fail(c) \/ Fetch(c)
  PROVE  IInv'
<1>1. /\ TypeOK' /\ Roles' /\ WaiterStep(c)
      /\ \A u \in (Signallers \cup Waiters) \ {c} : at'[u] = at[u] /\ my'[u] = my[u]
  BY WaiterSteps
<1>2. /\ Finite'
      /\ Total(Posting)' = Total(Posting) /\ Total(Posting) \in Nat
      /\ Total(Announced)' = Total(Announced) /\ Total(Announced) \in Nat
      /\ Total(Granted)' = Total(Granted) + my'[c].got - my[c].got /\ Total(Granted) \in Nat
      /\ Cardinality(Registered) \in Nat
      /\ Cardinality(Registered)' = Cardinality(Registered)
           + (IF c \in Registered' THEN 1 ELSE 0) - (IF c \in Registered THEN 1 ELSE 0)
  BY <1>1, WaiterChange DEF IInv
<1>3. my[c].got \in Nat /\ my'[c].got \in Nat /\ count \in Int /\ sema \in Nat /\ items \in Nat
  BY <1>1 DEF IInv, TypeOK
<1>4. Balanced'
  <2> DEFINE reg == Cardinality(Registered)
             P == Total(Posting)
             A == Total(Announced)
             G == Total(Granted)
  <2>1. reg = Positive(- count) + sema + P /\ items = G + count + reg + A
    BY DEF IInv, Balanced
  <2>2. reg' = Positive(- count') + sema' + P' /\ items' = G' + count' + reg' + A'
    <3> HIDE DEF reg, P, A, G
    <3>0. /\ P' = P /\ P \in Nat /\ A' = A /\ A \in Nat /\ G \in Nat /\ reg \in Nat
          /\ G' = G + my'[c].got - my[c].got
          /\ reg' = reg + (IF c \in Registered' THEN 1 ELSE 0) - (IF c \in Registered THEN 1 ELSE 0)
      BY <1>2 DEF reg, P, A, G
    <3>1. CASE Granting(c)
      <4>1. c \notin Registered /\ c \notin Registered'
        BY <3>1 DEF Granting, Registered
      <4> QED
        BY <1>3, <2>1, <3>0, <3>1, <4>1 DEF Granting, Positive
    <3>2. CASE Posted(c)
      <4>1. c \in Registered /\ c \notin Registered'
        BY <3>2 DEF Posted, Registered
      <4> QED
        BY <1>3, <2>1, <3>0, <3>2, <4>1 DEF Posted, Positive
    <3>3. CASE Registers(c)
      <4>1. c \notin Registered /\ c \in Registered'
        BY <3>3 DEF Registers, Registered
      <4>2. /\ reg' = reg + 1 /\ G' = G /\ count <= 0 /\ count' = count - 1
            /\ sema' = sema /\ items' = items
        BY <1>3, <3>0, <3>3, <4>1 DEF Registers
      <4>3. Positive(- count) = - count /\ Positive(- count') = 1 - count
        BY <1>3, <4>2 DEF Positive
      <4>4. P' = P /\ A' = A /\ P \in Nat /\ A \in Nat /\ G \in Nat /\ reg \in Nat
        BY <3>0
      <4> QED
        BY <1>3, <2>1, <4>2, <4>3, <4>4, SMTT(30)
    <3>4. CASE Unregisters(c)
      <4>1. c \in Registered /\ c \notin Registered'
        BY <3>4 DEF Unregisters, Registered
      <4> QED
        BY <1>3, <2>1, <3>0, <3>4, <4>1 DEF Unregisters, Positive
    <3>5. CASE Fetches(c)
      <4>1. c \notin Registered /\ c \notin Registered'
        BY <3>5 DEF Fetches, Registered
      <4> QED
        BY <1>3, <2>1, <3>0, <3>5, <4>1 DEF Fetches
    <3>6. CASE Shifts(c)
      BY <1>3, <2>1, <3>0, <3>6 DEF Shifts
    <3> QED
      BY <1>1, <3>1, <3>2, <3>3, <3>4, <3>5, <3>6 DEF WaiterStep
  <2> QED
    BY <2>2 DEF Balanced, Positive
<1> QED
  BY <1>1, <1>2, <1>4 DEF IInv

\* A step of a signaller keeps the balance.
LEMMA SignallerKeeps ==
  ASSUME IInv, NEW t \in Signallers,
         Enqueue(t) \/ (Signalling(t) /\ UNCHANGED <<items, enqueued>>)
  PROVE  IInv'
<1>1. /\ TypeOK' /\ Roles' /\ SignallerStep(t)
      /\ \A u \in (Signallers \cup Waiters) \ {t} : at'[u] = at[u] /\ my'[u] = my[u]
  BY SignallerSteps
<1>2. /\ Finite'
      /\ Total(Posting)' = Total(Posting) + Posting'[t] - Posting[t] /\ Total(Posting) \in Nat
      /\ Total(Announced)' = Total(Announced) + Announced'[t] - Announced[t] /\ Total(Announced) \in Nat
      /\ Granted' = Granted /\ Total(Granted)' = Total(Granted) /\ Total(Granted) \in Nat
      /\ Registered' = Registered /\ Cardinality(Registered)' = Cardinality(Registered)
      /\ Cardinality(Registered) \in Nat
  BY <1>1, SignallerChange DEF IInv
<1>3. /\ count \in Int /\ sema \in Nat /\ items \in Nat
      /\ Posting[t] \in Nat /\ Posting'[t] \in Nat /\ Announced[t] \in Nat /\ Announced'[t] \in Nat
      /\ at[t] = "idle" => Posting[t] = 0 /\ Announced[t] = 0
  BY <1>1 DEF IInv, TypeOK, Posting, Announced
<1>4. Balanced'
  <2> DEFINE reg == Cardinality(Registered)
             P == Total(Posting)
             A == Total(Announced)
             G == Total(Granted)
  <2>1. reg = Positive(- count) + sema + P /\ items = G + count + reg + A
    BY DEF IInv, Balanced
  <2>2. reg' = Positive(- count') + sema' + P' /\ items' = G' + count' + reg' + A'
    <3> HIDE DEF reg, P, A, G
    <3>0. /\ P' = P + Posting'[t] - Posting[t] /\ P \in Nat
          /\ A' = A + Announced'[t] - Announced[t] /\ A \in Nat
          /\ G' = G /\ G \in Nat /\ reg' = reg /\ reg \in Nat
      BY <1>2 DEF reg, P, A, G
    <3>1. CASE Enqueued(t)
      BY <1>3, <2>1, <3>0, <3>1 DEF Enqueued
    <3>2. CASE Signalled(t)
      <4>1. \A c \in Int, n \in Nat : Positive(- c) = Positive(- (c + n)) + ToRelease(c, n)
        BY DEF ToRelease, Smaller, Positive
      <4>2. /\ Posting[t] = 0 /\ Announced'[t] = 0 /\ count' = count + Announced[t]
            /\ Posting'[t] = ToRelease(count, Announced[t]) /\ sema' = sema /\ items' = items
        BY <3>2 DEF Signalled
      <4>3. Positive(- count) = Positive(- count') + Posting'[t]
        BY <1>3, <4>1, <4>2
      <4>4. Positive(- count) \in Nat /\ Positive(- count') \in Nat
        BY <1>3, <4>2 DEF Positive
      <4>5. reg' = Positive(- count') + sema' + P'
        BY <1>3, <2>1, <3>0, <4>2, <4>3, <4>4, SMTT(30)
      <4> QED
        BY <1>3, <2>1, <3>0, <4>2, <4>5, SMTT(30)
    <3>3. CASE Released(t)
      <4>1. /\ Announced[t] = 0 /\ Announced'[t] = 0 /\ Posting'[t] = Posting[t] - 1
            /\ sema' = sema + 1 /\ count' = count /\ items' = items
        BY <3>3 DEF Released
      <4>2. Positive(- count') = Positive(- count) /\ Positive(- count) \in Nat
        BY <1>3, <4>1 DEF Positive
      <4>3. P' = P - 1 /\ A' = A /\ sema' + P' = sema + P
        BY <1>3, <3>0, <4>1
      <4>4. sema' \in Int /\ P' \in Int
        BY <1>3, <3>0, <4>1, <4>3
      <4>5. reg' = Positive(- count') + sema' + P'
        BY <1>3, <2>1, <3>0, <4>2, <4>3, <4>4
      <4> QED
        BY <2>1, <3>0, <4>1, <4>3, <4>5
    <3> QED
      BY <1>1, <3>1, <3>2, <3>3 DEF SignallerStep
  <2> QED
    BY <2>2 DEF Balanced, Positive
<1> QED
  BY <1>1, <1>2, <1>4 DEF IInv

\* The strengthening is inductive.
LEMMA Kept == IInv /\ [Next]_bqvars => IInv'
  BY Whose, Stutter, WaiterKeeps, SignallerKeeps

-----------------------------------------------------------------------------
(* The theorems *)

\* When no enqueue of blockingconcurrentqueue.h is between its two calls, every
\* item nobody has a permit for can be had at once, and every waiter that the
\* semaphore has not counted out has its post: none was lost to one that gave up.
THEOREM NothingForgotten == Spec => []NoneForgotten
<1>1. IInv => NoneForgotten
  <2> SUFFICES ASSUME IInv, \A t \in Signallers : at[t] = "idle"
               PROVE  /\ items - Permits = Positive(count) + sema
                      /\ Cardinality(Registered) = Positive(- count) + sema
    BY DEF NoneForgotten
  <2>1. (\A t \in DOMAIN Posting : Posting[t] = 0) /\ (\A t \in DOMAIN Announced : Announced[t] = 0)
    BY DEF Posting, Announced
  <2>2. Total(Posting) = 0 /\ Total(Announced) = 0
    BY <2>1, TotalZero
  <2>3. Total(Granted) \in Nat /\ Cardinality(Registered) \in Nat
    BY ThreadsAssumption, FS_Subset, FS_CardinalityType DEF IInv, Finite, Total, Registered
  <2>4. count \in Int /\ sema \in Nat /\ items \in Nat
    BY DEF IInv, TypeOK
  <2>5. /\ Cardinality(Registered) = Positive(- count) + sema
        /\ items = Total(Granted) + count + Cardinality(Registered)
    BY <2>2, <2>3, <2>4 DEF IInv, Balanced, Positive
  <2> QED
    BY <2>3, <2>4, <2>5 DEF Permits, Positive
<1> QED
  BY <1>1, Start, Kept, PTL DEF Spec

\* The permits of the abstract semaphore.
Value == count + Cardinality(Registered)

\* A step of a waiter acquires, spends what it has acquired, or does neither.
LEMMA WaiterRefines ==
  ASSUME IInv, NEW c \in Waiters,
         Dequeue(c) \/ (Waiting(c) /\ UNCHANGED <<items, enqueued>>) \/ Fail(c) \/ Fetch(c)
  PROVE  Abstract!Acquire(c) \/ Abstract!Spend(c) \/ UNCHANGED <<Value, Granted>>
<1>1. /\ TypeOK' /\ WaiterStep(c)
      /\ \A u \in (Signallers \cup Waiters) \ {c} : at'[u] = at[u] /\ my'[u] = my[u]
  BY WaiterSteps
<1>2. /\ Cardinality(Registered) \in Nat /\ Total(Posting) \in Nat
      /\ Cardinality(Registered)' = Cardinality(Registered)
           + (IF c \in Registered' THEN 1 ELSE 0) - (IF c \in Registered THEN 1 ELSE 0)
  BY <1>1, WaiterChange DEF IInv
<1>3. my[c].got \in Nat /\ my'[c].got \in Nat /\ count \in Int /\ count' \in Int /\ sema \in Nat
  BY <1>1 DEF IInv, TypeOK
<1>4. Value \in Nat /\ Positive(count) \in Nat /\ Positive(count) <= Value /\ sema <= Value
  BY <1>2, <1>3 DEF IInv, Balanced, Positive, Value
<1>5. Granted' = [Granted EXCEPT ![c] = my'[c].got] /\ Granted[c] = my[c].got
  BY <1>1 DEF Granted
<1>6. Value' = count' + Cardinality(Registered)'
  BY DEF Value
<1>7. CASE Granting(c) \/ Posted(c)
  <2> DEFINE n == my'[c].got - my[c].got
  <2>1. n \in Int /\ n >= 0 /\ n <= Value /\ Value' = Value - n
    <3>1. c \notin Registered' /\ (Granting(c) => c \notin Registered)
      BY <1>7 DEF Granting, Posted, Registered
    <3>2. CASE Granting(c)
      <4>1. Cardinality(Registered)' = Cardinality(Registered)
        BY <1>2, <3>1, <3>2
      <4> QED
        BY <1>2, <1>3, <1>4, <1>6, <3>2, <4>1 DEF Granting, Value
    <3>3. CASE Posted(c)
      <4>1. Cardinality(Registered)' = Cardinality(Registered) - 1
        BY <1>2, <3>1, <3>3 DEF Posted
      <4> QED
        BY <1>2, <1>3, <1>4, <1>6, <3>3, <4>1 DEF Posted, Value
    <3> QED
      BY <1>7, <3>2, <3>3
  <2>2. my'[c].got = my[c].got + n
    BY <1>3
  <2> HIDE DEF n
  <2>3. CASE n = 0
    <3>0. my'[c].got = my[c].got
      BY <1>3, <2>2, <2>3
    <3>1. Granted' = Granted
      BY <1>5, <3>0 DEF Granted
    <3> QED
      BY <1>4, <2>1, <2>3, <3>1
  <2>4. CASE n # 0
    <3>1. n \in 1 .. Value
      BY <1>4, <2>1, <2>4
    <3>2. Granted' = [Granted EXCEPT ![c] = @ + n]
      BY <1>5, <2>2
    <3> QED
      BY <2>1, <3>1, <3>2 DEF Abstract!Acquire, Value
  <2> QED
    BY <2>3, <2>4
<1>8. CASE Fetches(c)
  <2>1. c \notin Registered /\ c \notin Registered' /\ my[c].got > 0
    BY <1>8 DEF Fetches, Registered, IInv, Roles
  <2>2. Value' = Value
    BY <1>2, <1>3, <1>6, <1>8, <2>1 DEF Fetches, Value
  <2>3. Granted' = [Granted EXCEPT ![c] = @ - 1] /\ Granted[c] > 0
    BY <1>5, <1>8, <2>1 DEF Fetches
  <2> QED
    BY <2>2, <2>3 DEF Abstract!Spend, Value
<1>9. CASE Registers(c) \/ Unregisters(c) \/ Shifts(c)
  <2>1. my'[c].got = my[c].got
    BY <1>9 DEF Registers, Unregisters, Shifts
  <2>2. Granted' = Granted
    BY <1>5, <2>1 DEF Granted
  <2>3. Value' = Value
    BY <1>2, <1>3, <1>6, <1>9 DEF Registers, Unregisters, Shifts, Value, Registered
  <2> QED
    BY <2>2, <2>3
<1> QED
  BY <1>1, <1>7, <1>8, <1>9 DEF WaiterStep

\* A step of a signaller signals, or changes nothing of the semaphore it stands for.
LEMMA SignallerRefines ==
  ASSUME IInv, NEW t \in Signallers,
         Enqueue(t) \/ (Signalling(t) /\ UNCHANGED <<items, enqueued>>)
  PROVE  Abstract!Signal \/ UNCHANGED <<Value, Granted>>
<1>1. /\ TypeOK' /\ SignallerStep(t)
      /\ \A u \in (Signallers \cup Waiters) \ {t} : at'[u] = at[u] /\ my'[u] = my[u]
  BY SignallerSteps
<1>2. /\ Granted' = Granted /\ Cardinality(Registered)' = Cardinality(Registered)
      /\ Cardinality(Registered) \in Nat /\ Total(Posting) \in Nat
  BY <1>1, SignallerChange DEF IInv
<1>3. count \in Int /\ Announced[t] \in Nat /\ sema \in Nat
  BY <1>1 DEF IInv, TypeOK, Announced
<1>4. Value \in Nat /\ Value' = count' + Cardinality(Registered)
  BY <1>2, <1>3 DEF IInv, Balanced, Positive, Value
<1>5. CASE Enqueued(t) \/ Released(t)
  BY <1>2, <1>4, <1>5 DEF Enqueued, Released, Value
<1>6. CASE Signalled(t)
  <2>1. Value' = Value + Announced[t] /\ Announced[t] > 0
    BY <1>2, <1>3, <1>4, <1>6 DEF Signalled, Value
  <2>2. Value' \in Nat /\ Value' > Value
    BY <1>3, <1>4, <2>1
  <2> QED
    BY <1>2, <2>2 DEF Abstract!Signal, Value
<1> QED
  BY <1>1, <1>5, <1>6 DEF SignallerStep

\* LightweightSemaphore implements the semaphore of CountingSemaphore: a dequeue
\* has as many permits as signal() has given it, whichever waiters were counted
\* on, gave up and were posted for in between.
THEOREM Counting == Spec => IsCounting
<1>1. Init => Abstract!Init
  <2> SUFFICES ASSUME Init PROVE Abstract!Init
    OBVIOUS
  <2>1. Registered = {} /\ Granted = [c \in Waiters |-> 0]
    BY DEF Init, SemaInit, Registered, Granted, NoWait
  <2> QED
    BY <2>1, FS_EmptySet DEF Abstract!Init, Init, SemaInit
<1>2. IInv /\ [Next]_bqvars => [Abstract!Next]_<<Value, Granted>>
  <2> SUFFICES ASSUME IInv, [Next]_bqvars PROVE [Abstract!Next]_<<Value, Granted>>
    OBVIOUS
  <2>1. CASE UNCHANGED bqvars
    BY <2>1, Stutter DEF Value
  <2>2. ASSUME NEW c \in Waiters,
               Dequeue(c) \/ (Waiting(c) /\ UNCHANGED <<items, enqueued>>) \/ Fail(c) \/ Fetch(c)
        PROVE  [Abstract!Next]_<<Value, Granted>>
    BY <2>2, WaiterRefines DEF Abstract!Next
  <2>3. ASSUME NEW t \in Signallers,
               Enqueue(t) \/ (Signalling(t) /\ UNCHANGED <<items, enqueued>>)
        PROVE  [Abstract!Next]_<<Value, Granted>>
    BY <2>3, SignallerRefines DEF Abstract!Next
  <2> QED
    BY <2>1, <2>2, <2>3, Whose
<1> QED
  BY <1>1, <1>2, Start, Kept, PTL DEF Spec, IsCounting, Abstract!Spec, Value
-----------------------------------------------------------------------------
(* Registry                                                                *)

(* Between calls, and in one: before the producer is a thread's, while the *)
(* thread is in hashCount and no producer of its own yet is, and past the  *)
(* question whether the table has room.                                    *)
Admitted == {"visit", "catch", "create", "push", "uncreate", "uncount", "insert"}
Counted  == (Admitted \ {"insert"}) \cup {"grow", "resize", "clear", "fail", "room"}
Settling == Counted \cup {"count", "lower", "insert"}
Calling  == Settling \cup {"lookup", "readd"}
Everyone == Users!Users

\* A thread's slots in the tables.
Filed(t, i, p) == \E k \in DOMAIN tables[i] : tables[i][k].key = t /\ tables[i][k].value = p
InTable(t, i)  == \E k \in DOMAIN tables[i] : tables[i][k].key = t
Absent(t)      == \A i \in DOMAIN tables : ~ InTable(t, i)
Above(t, n)    == \A i \in DOMAIN tables : i > n => ~ InTable(t, i)

Entry  == [key : Hashed \cup {Users!Empty, Users!Gone}, value : Nat]
Slotted == UNION {[0 .. c - 1 -> Entry] : c \in Nat \ {0}}
Locals == [main : Nat, at : Nat, n : Nat, p : Nat]
RegTypeOK ==
  /\ listens \in BOOLEAN /\ list \in Seq(BOOLEAN) /\ inactive \subseteq 1 .. Len(list)
  /\ tables \in Seq(Slotted) /\ Len(tables) > 0
  /\ pc \in [Everyone -> {"new", "ready", "bury", "leave", "use"} \cup Calling]
  /\ kept \in [Everyone -> Locals] /\ mine \in [Everyone -> Nat]

(* The tables: each at least as large as the one before; a search that     *)
(* comes to an empty slot has missed nothing; a thread is found once.      *)
Search(i, t) ==
  \A k \in 0 .. Users!Cap(i) - 1 : tables[i][Users!Slot(i, t, k)].key = t =>
    \A j \in 0 .. k - 1 : tables[i][Users!Slot(i, t, j)].key # Users!Empty
Tabled ==
  /\ \A i, j \in DOMAIN tables : i <= j => Users!Cap(i) <= Users!Cap(j)
  /\ \A i \in DOMAIN tables, t \in Hashed :
       /\ Search(i, t)
       /\ \A k, j \in DOMAIN tables[i] : tables[i][k].key = t /\ tables[i][j].key = t => k = j
  /\ ~ listens => \A i \in DOMAIN tables : \A k \in DOMAIN tables[i] : tables[i][k].key # Users!Gone

(* What a thread knows of itself at x with locals r, when it has been given *)
(* the producer m.                                                         *)
Phase(t, x, r, m) ==
  /\ x # "use"
  /\ x \in Settling \cup {"new"} => m = 0
  /\ x \in Settling \cup {"leave"} => Absent(t)
  /\ listens /\ m = 0 => Absent(t)
  /\ m # 0 /\ x \in {"ready", "lookup", "readd"} => ~ Absent(t)
  /\ x \in Calling => r.main \in DOMAIN tables
  /\ x = "lookup" => r.at <= r.main /\ Above(t, r.at)
  /\ x = "readd" => Above(t, r.main - 1) /\ \E i \in DOMAIN tables : Filed(t, i, r.p)
  /\ x \in {"bury", "leave"} => listens /\ m # 0
  /\ x = "bury" => r.at <= Len(tables) /\ Above(t, r.at)
TokenPhase(x, m) ==
  /\ x \in {"new", "visit", "catch", "create", "push", "use"}
  /\ x # "use" => m = 0
OnTheList(t, x, r) ==
  /\ x = "visit" => r.p <= Len(list)
  /\ x = "catch" => r.p \in DOMAIN list /\ list[r.p] = (t \in Tokens)
  /\ x \in {"uncount", "insert"} => r.p # 0
  /\ t \in Hashed => \A i \in DOMAIN tables, p \in Nat : Filed(t, i, p) => p # 0
Phases ==
  /\ \A t \in Hashed : Phase(t, pc[t], kept[t], mine[t])
  /\ \A t \in Tokens : TokenPhase(pc[t], mine[t])
  /\ \A t \in Everyone : OnTheList(t, pc[t], kept[t])

(* The producers that are a thread's, or will be found to be. *)
Owns(t, x, r, m, p) ==
  \/ p # 0 /\ m = p
  \/ x \in {"uncount", "insert"} /\ r.p = p
  \/ t \in Hashed /\ \E i \in DOMAIN tables : Filed(t, i, p)
Belongs(t, p) == Owns(t, pc[t], kept[t], mine[t], p)
Apart ==
  \A t \in Everyone, p \in Nat : Belongs(t, p) =>
    /\ p \in DOMAIN list /\ p \notin inactive /\ list[p] = (t \in Tokens)
    /\ \A u \in Everyone : Belongs(u, p) => u = t
    /\ \A q \in Nat : Belongs(t, q) => q = p

RInv == RegTypeOK /\ Tabled /\ Phases /\ Apart

(* Counting *)
Implicit == {p \in DOMAIN list : ~ list[p]}
InCount  == {t \in Hashed : pc[t] \in Counted}
Counts   == hashCount = Cardinality(Implicit) + Cardinality(InCount)

(* Every thread in a table has had a number, below what the table takes,   *)
(* and no more than m have a number up to m.                               *)
Limit(i) == (Users!Cap(i) \div 2) + (Users!Cap(i) \div 4)
Numbered == {t \in Hashed : pc[t] \in Counted \cup {"insert"} \/ ~ Absent(t)}
Ranks(r) ==
  /\ \A t \in Hashed : pc[t] \in Counted \cup {"insert"} => r[t] = kept[t].n
  /\ \A t \in Hashed : pc[t] \in Admitted => kept[t].n < Limit(kept[t].main)
  /\ \A t \in Hashed, i \in DOMAIN tables : InTable(t, i) => r[t] < Limit(i)
  /\ \A m \in Nat : Cardinality({t \in Numbered : r[t] <= m}) <= m
Ranked == \E r \in [Hashed -> Nat] : Ranks(r)
-----------------------------------------------------------------------------
(* Tables *)

\* Every slot is one step of a probe, and one only.
LEMMA ProbeSlots ==
  ASSUME NEW h \in Nat, NEW c \in Nat \ {0}
  PROVE  /\ \A k \in Nat : (h + k) % c \in 0 .. c - 1
         /\ \A s \in 0 .. c - 1 : \E k \in 0 .. c - 1 : (h + k) % c = s
         /\ \A j, k \in 0 .. c - 1 : (h + j) % c = (h + k) % c => j = k
<1>1. \A n \in Nat : n = c * (n \div c) + (n % c) /\ n \div c \in Nat /\ n % c \in 0 .. c - 1
  OBVIOUS
<1>2. ASSUME NEW q \in Nat, NEW s \in 0 .. c - 1 PROVE (c * q + s) % c = s
  OBVIOUS
<1>3. ASSUME NEW s \in 0 .. c - 1 PROVE \E k \in 0 .. c - 1 : (h + k) % c = s
  <2>1. PICK q \in Nat, r \in 0 .. c - 1 : h = c * q + r
    BY <1>1
  <2>2. CASE s >= r
    <3>1. h + (s - r) = c * q + s /\ s - r \in 0 .. c - 1
      BY <2>1, <2>2
    <3> QED
      BY <1>2, <2>1, <3>1
  <2>3. CASE s < r
    <3>1. h + (s - r + c) = c * (q + 1) + s /\ s - r + c \in 0 .. c - 1 /\ q + 1 \in Nat
      BY <2>1, <2>3
    <3> QED
      BY <1>2, <3>1
  <2> QED
    BY <2>1, <2>2, <2>3
<1>4. ASSUME NEW j \in 0 .. c - 1, NEW k \in 0 .. c - 1, (h + j) % c = (h + k) % c PROVE j = k
  <2>0. h + j \in Nat /\ h + k \in Nat
    OBVIOUS
  <2>1. PICK q \in Nat, r \in 0 .. c - 1 : h + j = c * q + r /\ r = (h + j) % c
    BY <1>1, <2>0
  <2>2. PICK p \in Nat : h + k = c * p + r
    BY <1>1, <1>4, <2>0, <2>1
  <2>3. j - k = c * (q - p)
    BY <2>1, <2>2
  <2>4. ~ (q > p) /\ ~ (q < p)
    <3>1. q > p => c * (q - p) >= c
      OBVIOUS
    <3>2. q < p => c * (q - p) <= - c
      OBVIOUS
    <3> QED
      BY <2>3, <3>1, <3>2
  <2> QED
    BY <2>3, <2>4
<1> QED
  BY <1>1, <1>3, <1>4

\* The number of elements is the same operator in the instance.
LEMMA SameCount == ASSUME NEW S PROVE Users!Cardinality(S) = Cardinality(S)
  BY Zenon DEF Users!Cardinality, Cardinality

\* A table and its size.
LEMMA TableShape ==
  ASSUME RegTypeOK, NEW i \in DOMAIN tables
  PROVE  /\ Users!Cap(i) \in Nat \ {0}
         /\ DOMAIN tables[i] = 0 .. Users!Cap(i) - 1
         /\ tables[i] \in [0 .. Users!Cap(i) - 1 -> Entry]
<1>1. PICK c \in Nat \ {0} : tables[i] \in [0 .. c - 1 -> Entry]
  BY DEF RegTypeOK, Slotted
<1>2. Users!Cap(i) = Cardinality(0 .. c - 1)
  BY <1>1, SameCount DEF Users!Cap
<1>3. Users!Cap(i) = c
  BY <1>2, FS_Interval
<1> QED
  BY <1>1, <1>3

\* A probe of a table comes to each slot, and to each once.
LEMMA SlotsOfProbe ==
  ASSUME RegTypeOK, NEW i \in DOMAIN tables, NEW t \in Hashed
  PROVE  /\ \A k \in 0 .. Users!Cap(i) - 1 : Users!Slot(i, t, k) \in DOMAIN tables[i]
         /\ \A s \in DOMAIN tables[i] : \E k \in 0 .. Users!Cap(i) - 1 : Users!Slot(i, t, k) = s
         /\ \A j, k \in 0 .. Users!Cap(i) - 1 : Users!Slot(i, t, j) = Users!Slot(i, t, k) => j = k
<1>1. PICK h \in Nat : h = Hash[t]
  BY RegistryAssumption
<1>2. PICK c \in Nat \ {0} : c = Users!Cap(i) /\ DOMAIN tables[i] = 0 .. c - 1
  BY TableShape
<1>3. \A k : Users!Slot(i, t, k) = (h + k) % c
  BY <1>1, <1>2 DEF Users!Slot
<1>4. /\ \A k \in Nat : (h + k) % c \in 0 .. c - 1
      /\ \A s \in 0 .. c - 1 : \E k \in 0 .. c - 1 : (h + k) % c = s
      /\ \A j, k \in 0 .. c - 1 : (h + j) % c = (h + k) % c => j = k
  BY ProbeSlots
<1>5. \A k \in 0 .. c - 1 : Users!Slot(i, t, k) \in DOMAIN tables[i]
  <2> SUFFICES ASSUME NEW k \in 0 .. c - 1 PROVE Users!Slot(i, t, k) \in 0 .. c - 1
    BY <1>2
  <2>1. (h + k) % c \in 0 .. c - 1
    BY <1>4
  <2> QED
    BY <1>3, <2>1
<1>6. \A s \in DOMAIN tables[i] : \E k \in 0 .. c - 1 : Users!Slot(i, t, k) = s
  <2> SUFFICES ASSUME NEW s \in 0 .. c - 1 PROVE \E k \in 0 .. c - 1 : Users!Slot(i, t, k) = s
    BY <1>2
  <2>1. PICK k \in 0 .. c - 1 : (h + k) % c = s
    BY <1>4
  <2> QED
    BY <1>3, <2>1
<1>7. \A j, k \in 0 .. c - 1 : Users!Slot(i, t, j) = Users!Slot(i, t, k) => j = k
  BY <1>3, <1>4
<1> QED
  BY <1>2, <1>5, <1>6, <1>7

\* A search that ends at an empty slot has missed nothing.
LEMMA NotFound ==
  ASSUME RegTypeOK, Tabled, NEW i \in DOMAIN tables, NEW t \in Hashed,
         NEW k \in Users!Probe(i, t, {t, Users!Empty}),
         tables[i][Users!Slot(i, t, k)].key = Users!Empty
  PROVE  ~ InTable(t, i)
<1> SUFFICES ASSUME NEW s \in DOMAIN tables[i], tables[i][s].key = t PROVE FALSE
  BY DEF InTable
<1>1. PICK j \in 0 .. Users!Cap(i) - 1 : Users!Slot(i, t, j) = s
  BY SlotsOfProbe
<1>2. k \in 0 .. Users!Cap(i) - 1 /\ \A n \in 0 .. k - 1 : tables[i][Users!Slot(i, t, n)].key # t
  BY DEF Users!Probe
<1>3. ~ (j < k) /\ j # k
  BY <1>1, <1>2, RegistryAssumption
<1>4. Search(i, t) /\ Users!Cap(i) \in Nat
  BY TableShape DEF Tabled
<1> QED
  BY <1>1, <1>2, <1>3, <1>4 DEF Search

\* One slot is written.
LEMMA Written ==
  ASSUME RegTypeOK, NEW i \in DOMAIN tables, NEW s \in DOMAIN tables[i], NEW e \in Entry,
         tables' = [tables EXCEPT ![i][s] = e]
  PROVE  /\ tables' \in Seq(Slotted) /\ Len(tables') = Len(tables) /\ DOMAIN tables' = DOMAIN tables
         /\ \A j \in DOMAIN tables :
              /\ DOMAIN tables'[j] = DOMAIN tables[j] /\ Users!Cap(j)' = Users!Cap(j)
              /\ \A n \in DOMAIN tables[j] :
                   tables'[j][n] = IF j = i /\ n = s THEN e ELSE tables[j][n]
              /\ \A t, k : Users!Slot(j, t, k)' = Users!Slot(j, t, k)
<1>1. tables \in Seq(Slotted)
  BY DEF RegTypeOK
<1>2. PICK c \in Nat \ {0} : tables[i] \in [0 .. c - 1 -> Entry]
  BY TableShape
<1>3. [tables[i] EXCEPT ![s] = e] \in [0 .. c - 1 -> Entry]
  BY <1>2
<1>4. [tables[i] EXCEPT ![s] = e] \in Slotted
  BY <1>3 DEF Slotted
<1>5. tables' = [tables EXCEPT ![i] = [tables[i] EXCEPT ![s] = e]]
  OBVIOUS
<1>6. tables' \in Seq(Slotted) /\ Len(tables') = Len(tables) /\ DOMAIN tables' = DOMAIN tables
  BY <1>1, <1>4, <1>5
<1>7. ASSUME NEW j \in DOMAIN tables
      PROVE  /\ DOMAIN tables'[j] = DOMAIN tables[j]
             /\ \A n \in DOMAIN tables[j] :
                  tables'[j][n] = IF j = i /\ n = s THEN e ELSE tables[j][n]
  BY <1>2, <1>5
<1>8. ASSUME NEW j \in DOMAIN tables PROVE Users!Cap(j)' = Users!Cap(j)
  BY <1>7 DEF Users!Cap
<1>9. ASSUME NEW j \in DOMAIN tables, NEW t, NEW k PROVE Users!Slot(j, t, k)' = Users!Slot(j, t, k)
  BY <1>8 DEF Users!Slot
<1> QED
  BY <1>6, <1>7, <1>8, <1>9

\* What a probe comes to.
LEMMA Probed ==
  ASSUME RegTypeOK, NEW i \in DOMAIN tables, NEW t \in Hashed, NEW keys, NEW k \in Users!Probe(i, t, keys)
  PROVE  /\ k \in 0 .. Users!Cap(i) - 1 /\ Users!Slot(i, t, k) \in DOMAIN tables[i]
         /\ tables[i][Users!Slot(i, t, k)].key \in keys
         /\ \A j \in 0 .. k - 1 : tables[i][Users!Slot(i, t, j)].key \notin keys
<1>1. /\ k \in 0 .. Users!Cap(i) - 1 /\ tables[i][Users!Slot(i, t, k)].key \in keys
      /\ \A j \in 0 .. k - 1 : tables[i][Users!Slot(i, t, j)].key \notin keys
  BY DEF Users!Probe
<1> QED
  BY <1>1, SlotsOfProbe

\* A vacant slot is given to a thread that is not in the table.
LEMMA FillStep ==
  ASSUME RegTypeOK, Tabled, listens' = listens,
         NEW i \in DOMAIN tables, NEW t \in Hashed, ~ InTable(t, i), NEW p \in Nat,
         NEW k \in Users!Probe(i, t, Users!Vacant), Users!Fill(i, t, k, p)
  PROVE  /\ tables' \in Seq(Slotted) /\ Len(tables') = Len(tables) /\ Tabled'
         /\ \A j \in DOMAIN tables : Users!Cap(j)' = Users!Cap(j)
         /\ \A u \in Hashed, j \in DOMAIN tables :
              /\ InTable(u, j)' <=> InTable(u, j) \/ (u = t /\ j = i)
              /\ \A q \in Nat : Filed(u, j, q)' <=> Filed(u, j, q) \/ (u = t /\ j = i /\ q = p)
<1> DEFINE e == [key |-> t, value |-> p]
<1>1. PICK s \in DOMAIN tables[i] : s = Users!Slot(i, t, k)
  BY Probed
<1>2. tables[i][s].key \in Users!Vacant /\ tables[i][s].key \notin Hashed
  BY <1>1, Probed, RegistryAssumption DEF Users!Vacant
<1>3. e \in Entry /\ tables' = [tables EXCEPT ![i][s] = e] /\ e.key = t /\ e.value = p
  BY <1>1 DEF Entry, Users!Fill
<1> HIDE DEF e
<1>4. /\ tables' \in Seq(Slotted) /\ Len(tables') = Len(tables) /\ DOMAIN tables' = DOMAIN tables
      /\ \A j \in DOMAIN tables :
           /\ DOMAIN tables'[j] = DOMAIN tables[j] /\ Users!Cap(j)' = Users!Cap(j)
           /\ \A n \in DOMAIN tables[j] :
                tables'[j][n] = IF j = i /\ n = s THEN e ELSE tables[j][n]
           /\ \A u, n : Users!Slot(j, u, n)' = Users!Slot(j, u, n)
  BY <1>3, Written
<1>5. \A u \in Hashed, j \in DOMAIN tables :
        /\ InTable(u, j)' <=> InTable(u, j) \/ (u = t /\ j = i)
        /\ \A q \in Nat : Filed(u, j, q)' <=> Filed(u, j, q) \/ (u = t /\ j = i /\ q = p)
  BY <1>2, <1>3, <1>4 DEF InTable, Filed
<1>6. ASSUME NEW j \in DOMAIN tables, NEW u \in Hashed PROVE Search(j, u)'
  <2> SUFFICES ASSUME NEW m \in 0 .. Users!Cap(j) - 1, NEW n \in 0 .. m - 1,
                      tables'[j][Users!Slot(j, u, m)].key = u
               PROVE  tables'[j][Users!Slot(j, u, n)].key # Users!Empty
    BY <1>4 DEF Search
  <2>1. Users!Cap(j) \in Nat \ {0} /\ n \in 0 .. Users!Cap(j) - 1
    BY TableShape
  <2>2. Users!Slot(j, u, m) \in DOMAIN tables[j] /\ Users!Slot(j, u, n) \in DOMAIN tables[j]
    BY <2>1, SlotsOfProbe
  <2>3. CASE j = i /\ Users!Slot(j, u, m) = s
    <3>1. u = t
      BY <1>3, <1>4, <2>2, <2>3
    <3>2. m = k
      BY <1>1, <2>3, <3>1, Probed, SlotsOfProbe
    <3>3. tables[i][Users!Slot(i, t, n)].key \notin Users!Vacant
      BY <3>2, Probed
    <3>4. tables[i][Users!Slot(i, t, n)].key # Users!Empty
      BY <3>3 DEF Users!Vacant
    <3> QED
      BY <1>3, <1>4, <2>2, <2>3, <3>1, <3>4, RegistryAssumption
  <2>4. CASE ~ (j = i /\ Users!Slot(j, u, m) = s)
    <3>1. tables[j][Users!Slot(j, u, m)].key = u
      BY <1>4, <2>2, <2>4
    <3>2. tables[j][Users!Slot(j, u, n)].key # Users!Empty
      BY <3>1 DEF Tabled, Search
    <3> QED
      BY <1>3, <1>4, <2>2, <3>2, RegistryAssumption
  <2> QED
    BY <2>3, <2>4
<1>7. ASSUME NEW j \in DOMAIN tables, NEW u \in Hashed, NEW m \in DOMAIN tables[j], NEW n \in DOMAIN tables[j],
             tables'[j][m].key = u, tables'[j][n].key = u
      PROVE  m = n
  BY <1>3, <1>4, <1>7 DEF Tabled, InTable
<1>8. ~ listens => \A j \in DOMAIN tables : \A n \in DOMAIN tables[j] : tables'[j][n].key # Users!Gone
  BY <1>3, <1>4, RegistryAssumption DEF Tabled
<1>9. Tabled'
  BY <1>4, <1>6, <1>7, <1>8 DEF Tabled
<1> QED
  BY <1>4, <1>5, <1>9

\* A thread's key in a table becomes a tombstone, or it has none there.
LEMMA BuryStep ==
  ASSUME RegTypeOK, Tabled, listens, listens' = listens, NEW i \in DOMAIN tables, NEW t \in Hashed,
         NEW k \in Users!Probe(i, t, {t, Users!Empty}),
         tables' = IF tables[i][Users!Slot(i, t, k)].key = t
                   THEN [tables EXCEPT ![i][Users!Slot(i, t, k)].key = Users!Gone] ELSE tables
  PROVE  /\ tables' \in Seq(Slotted) /\ Len(tables') = Len(tables) /\ Tabled'
         /\ \A j \in DOMAIN tables : Users!Cap(j)' = Users!Cap(j)
         /\ \A u \in Hashed, j \in DOMAIN tables :
              /\ InTable(u, j)' <=> InTable(u, j) /\ ~ (u = t /\ j = i)
              /\ \A q \in Nat : Filed(u, j, q)' <=> Filed(u, j, q) /\ ~ (u = t /\ j = i)
<1>1. PICK s \in DOMAIN tables[i] : s = Users!Slot(i, t, k)
  BY Probed
<1>2. CASE tables[i][s].key # t
  <2>1. tables' = tables
    BY <1>1, <1>2
  <2>2. tables[i][s].key = Users!Empty
    BY <1>1, <1>2, Probed
  <2>3. ~ InTable(t, i) /\ \A q : ~ Filed(t, i, q)
    BY <1>1, <2>2, NotFound DEF InTable, Filed
  <2> QED
    BY <2>1, <2>3, ZenonT(30) DEF RegTypeOK, Tabled, Search, Filed, InTable, Users!Cap, Users!Slot
<1>3. CASE tables[i][s].key = t
  <2> DEFINE e == [key |-> Users!Gone, value |-> tables[i][s].value]
  <2>1. tables[i][s] \in Entry
    BY TableShape
  <2>2. e \in Entry /\ e.key = Users!Gone /\ e = [tables[i][s] EXCEPT !.key = Users!Gone]
    BY <2>1 DEF Entry
  <2>3. tables' = [tables EXCEPT ![i][s] = e]
    BY <1>1, <1>3, <2>2
  <2>0. e \in Entry
    BY <2>2
  <2> HIDE DEF e
  <2>4. /\ tables' \in Seq(Slotted) /\ Len(tables') = Len(tables) /\ DOMAIN tables' = DOMAIN tables
        /\ \A j \in DOMAIN tables :
             /\ DOMAIN tables'[j] = DOMAIN tables[j] /\ Users!Cap(j)' = Users!Cap(j)
             /\ \A n \in DOMAIN tables[j] :
                  tables'[j][n] = IF j = i /\ n = s THEN e ELSE tables[j][n]
             /\ \A u, n : Users!Slot(j, u, n)' = Users!Slot(j, u, n)
    BY <2>0, <2>3, Written, ZenonT(40)
  <2>5. \A n \in DOMAIN tables[i] : tables[i][n].key = t => n = s
    BY <1>3 DEF Tabled
  <2>6. \A u \in Hashed, j \in DOMAIN tables :
          /\ InTable(u, j)' <=> InTable(u, j) /\ ~ (u = t /\ j = i)
          /\ \A q \in Nat : Filed(u, j, q)' <=> Filed(u, j, q) /\ ~ (u = t /\ j = i)
    <3>1. e.key # t /\ \A u \in Hashed : e.key # u
      BY <2>2, RegistryAssumption
    <3> SUFFICES ASSUME NEW u \in Hashed, NEW j \in DOMAIN tables
                 PROVE  /\ InTable(u, j)' <=> InTable(u, j) /\ ~ (u = t /\ j = i)
                        /\ \A q \in Nat : Filed(u, j, q)' <=> Filed(u, j, q) /\ ~ (u = t /\ j = i)
      OBVIOUS
    <3>2. CASE u = t /\ j = i
      BY <2>4, <2>5, <3>1, <3>2, ZenonT(40) DEF InTable, Filed
    <3>3. CASE ~ (u = t /\ j = i)
      <4>1. \A n \in DOMAIN tables[j] :
              /\ tables'[j][n].key = u <=> tables[j][n].key = u
              /\ tables[j][n].key = u => tables'[j][n] = tables[j][n]
        BY <1>3, <2>4, <3>1, <3>3, ZenonT(40)
      <4> QED
        BY <2>4, <3>3, <4>1 DEF InTable, Filed
    <3> QED
      BY <3>2, <3>3
  <2>7. ASSUME NEW j \in DOMAIN tables, NEW u \in Hashed PROVE Search(j, u)'
    <3> SUFFICES ASSUME NEW m \in 0 .. Users!Cap(j) - 1, NEW n \in 0 .. m - 1,
                        tables'[j][Users!Slot(j, u, m)].key = u
                 PROVE  tables'[j][Users!Slot(j, u, n)].key # Users!Empty
      BY <2>4 DEF Search
    <3>1. Users!Cap(j) \in Nat \ {0} /\ n \in 0 .. Users!Cap(j) - 1
      BY TableShape
    <3>2. Users!Slot(j, u, m) \in DOMAIN tables[j] /\ Users!Slot(j, u, n) \in DOMAIN tables[j]
      BY <3>1, SlotsOfProbe
    <3>3. tables[j][Users!Slot(j, u, m)].key = u
      BY <2>2, <2>4, <3>2, RegistryAssumption
    <3>4. tables[j][Users!Slot(j, u, n)].key # Users!Empty
      BY <3>3 DEF Tabled, Search
    <3>5. Users!Gone # Users!Empty
      BY DEF Users!Gone, Users!Empty
    <3> QED
      BY <2>2, <2>4, <3>2, <3>4, <3>5
  <2>8. ASSUME NEW j \in DOMAIN tables, NEW u \in Hashed, NEW m \in DOMAIN tables[j], NEW n \in DOMAIN tables[j],
               tables'[j][m].key = u, tables'[j][n].key = u
        PROVE  m = n
    BY <2>2, <2>4, <2>8, RegistryAssumption DEF Tabled
  <2>9. Tabled'
    BY <2>4, <2>7, <2>8 DEF Tabled
  <2> QED
    BY <2>4, <2>6, <2>9
<1> QED
  BY <1>2, <1>3

\* A larger table, that is empty.
LEMMA AppendStep ==
  ASSUME RegTypeOK, Tabled, listens' = listens, NEW c \in Nat \ {0}, Users!Cap(Len(tables)) <= c,
         tables' = Append(tables, Users!NewTable(c))
  PROVE  /\ tables' \in Seq(Slotted) /\ Len(tables') = Len(tables) + 1 /\ Tabled'
         /\ \A j \in DOMAIN tables : Users!Cap(j)' = Users!Cap(j)
         /\ Users!Cap(Len(tables))' = c
         /\ \A u \in Hashed, j \in DOMAIN tables' :
              /\ InTable(u, j)' <=> j \in DOMAIN tables /\ InTable(u, j)
              /\ \A q \in Nat : Filed(u, j, q)' <=> j \in DOMAIN tables /\ Filed(u, j, q)
<1> DEFINE l == Len(tables) + 1
           T == Users!NewTable(c)
<1>1. T \in [0 .. c - 1 -> Entry] /\ \A k \in DOMAIN T : T[k].key = Users!Empty
  BY DEF Users!NewTable, Entry
<1>2. T \in Slotted
  BY <1>1 DEF Slotted
<1>3. tables \in Seq(Slotted) /\ Len(tables) \in Nat \ {0} /\ DOMAIN tables = 1 .. Len(tables)
  BY DEF RegTypeOK
<1>p. PICK T0 \in [0 .. c - 1 -> Entry] : T0 = T
  BY <1>1
<1>4. tables' = Append(tables, T0) /\ T0 \in Slotted /\ DOMAIN T0 = 0 .. c - 1
      /\ \A k \in DOMAIN T0 : T0[k].key = Users!Empty
  BY <1>1, <1>2, <1>p
<1>5. PICK n \in Nat \ {0} : n = Len(tables)
  BY <1>3
<1> HIDE DEF T
<1>6. /\ tables' \in Seq(Slotted) /\ Len(tables') = n + 1 /\ DOMAIN tables' = 1 .. n + 1
      /\ tables'[n + 1] = T0 /\ \A j \in 1 .. n : tables'[j] = tables[j]
  BY <1>3, <1>4, <1>5
<1>7. /\ \A j \in 1 .. n : Users!Cap(j)' = Users!Cap(j)
      /\ \A j \in 1 .. n : \A u, k : Users!Slot(j, u, k)' = Users!Slot(j, u, k)
  BY <1>6 DEF Users!Cap, Users!Slot
<1>8. Users!Cap(n + 1)' = c
  <2>1. Cardinality(0 .. c - 1) = c
    BY FS_Interval
  <2>2. Users!Cap(n + 1)' = Cardinality(0 .. c - 1)
    BY <1>4, <1>6, SameCount DEF Users!Cap
  <2> QED
    BY <2>1, <2>2
<1>9. \A u \in Hashed, j \in DOMAIN tables' :
        /\ InTable(u, j)' <=> j \in DOMAIN tables /\ InTable(u, j)
        /\ \A q \in Nat : Filed(u, j, q)' <=> j \in DOMAIN tables /\ Filed(u, j, q)
  BY <1>3, <1>4, <1>5, <1>6, RegistryAssumption DEF InTable, Filed
<1>10. \A j, k \in DOMAIN tables' : j <= k => Users!Cap(j)' <= Users!Cap(k)'
  <2>1. \A j \in 1 .. n : Users!Cap(j) <= c
    <3>1. \A j \in 1 .. n : Users!Cap(j) <= Users!Cap(n) /\ Users!Cap(j) \in Nat /\ Users!Cap(n) \in Nat
      BY <1>3, <1>5, TableShape, SMTT(40) DEF Tabled
    <3> QED
      BY <1>5, <3>1
  <2> QED
    BY <1>3, <1>5, <1>6, <1>7, <1>8, <2>1, SMTT(40) DEF Tabled
<1>11. ASSUME NEW j \in DOMAIN tables', NEW u \in Hashed
       PROVE  /\ Search(j, u)'
              /\ \A k, m \in DOMAIN tables'[j] : tables'[j][k].key = u /\ tables'[j][m].key = u => k = m
  <2>1. CASE j = n + 1
    <3>1. \A k : ~ (k \in DOMAIN tables'[j] /\ tables'[j][k].key = u)
      BY <1>4, <1>6, <2>1, RegistryAssumption
    <3>2. \A k \in 0 .. c - 1 : Users!Slot(j, u, k)' \in 0 .. c - 1
      <4>1. PICK h \in Nat : h = Hash[u]
        BY RegistryAssumption
      <4>2. \A k \in Nat : (h + k) % c \in 0 .. c - 1
        BY ProbeSlots
      <4>3. \A k : Users!Slot(j, u, k)' = (h + k) % c
        BY <1>8, <2>1, <4>1 DEF Users!Slot
      <4> QED
        BY <4>2, <4>3
    <3> QED
      BY <1>4, <1>6, <1>8, <2>1, <3>1, <3>2 DEF Search
  <2>2. CASE j \in 1 .. n
    <3>1. j \in DOMAIN tables /\ tables'[j] = tables[j] /\ Users!Cap(j)' = Users!Cap(j)
          /\ \A k : Users!Slot(j, u, k)' = Users!Slot(j, u, k)
      BY <1>3, <1>5, <1>6, <1>7, <2>2
    <3>2. Search(j, u)
      BY <3>1 DEF Tabled
    <3>3. Search(j, u)'
      BY <3>1, <3>2 DEF Search
    <3> QED
      BY <3>1, <3>3 DEF Tabled
  <2> QED
    BY <1>6, <2>1, <2>2
<1>12. ~ listens => \A j \in DOMAIN tables' : \A k \in DOMAIN tables'[j] : tables'[j][k].key # Users!Gone
  <2>1. Users!Gone # Users!Empty
    BY DEF Users!Gone, Users!Empty
  <2> QED
    BY <1>3, <1>4, <1>5, <1>6, <2>1 DEF Tabled
<1>13. Tabled'
  BY <1>10, <1>11, <1>12 DEF Tabled
<1>14. Users!Cap(Len(tables))' = c
  BY <1>6, <1>8 DEF Users!Cap
<1> QED
  BY <1>3, <1>5, <1>6, <1>7, <1>9, <1>13, <1>14
-----------------------------------------------------------------------------
(* One thread's step *)

Same(u) == pc'[u] = pc[u] /\ kept'[u] = kept[u] /\ mine'[u] = mine[u]
SameFiles(u) ==
  \A j \in DOMAIN tables' :
    /\ InTable(u, j)' <=> j \in DOMAIN tables /\ InTable(u, j)
    /\ \A q \in Nat : Filed(u, j, q)' <=> j \in DOMAIN tables /\ Filed(u, j, q)
Longer ==
  /\ Len(tables) <= Len(tables') /\ listens' = listens
  /\ Len(list) <= Len(list') /\ \A p \in DOMAIN list : list'[p] = list[p]

\* The tables and the list as sequences.
LEMMA Lengths ==
  ASSUME RegTypeOK
  PROVE  /\ DOMAIN tables = 1 .. Len(tables) /\ Len(tables) \in Nat \ {0}
         /\ DOMAIN list = 1 .. Len(list) /\ Len(list) \in Nat
  BY DEF RegTypeOK

\* What is known of a thread that is not filed, or taken out, by a step.
LEMMA Carried ==
  ASSUME RegTypeOK, RegTypeOK', Longer, NEW u \in Everyone, u \in Hashed => SameFiles(u),
         NEW x, NEW r \in Locals, NEW m \in Nat
  PROVE  /\ u \in Hashed /\ Phase(u, x, r, m) => Phase(u, x, r, m)'
         /\ OnTheList(u, x, r) => OnTheList(u, x, r)'
         /\ \A p \in Nat : Owns(u, x, r, m, p)' <=> Owns(u, x, r, m, p)
<1>1. r.main \in Nat /\ r.at \in Nat /\ r.p \in Nat /\ listens' = listens
  BY DEF Locals, Longer
<1>2. DOMAIN tables \subseteq DOMAIN tables' /\ DOMAIN list \subseteq DOMAIN list'
  BY Lengths DEF Longer, RegTypeOK
<1>3. u \in Hashed => /\ Absent(u)' <=> Absent(u)
                      /\ \A n \in Nat : Above(u, n)' <=> Above(u, n)
                      /\ \A p \in Nat : (\E i \in DOMAIN tables' : Filed(u, i, p)') <=> \E i \in DOMAIN tables : Filed(u, i, p)
  BY <1>2 DEF SameFiles, Absent, Above
<1>4. ASSUME u \in Hashed, Phase(u, x, r, m) PROVE Phase(u, x, r, m)'
  <2>1. x = "bury" => r.at <= Len(tables')
    BY <1>1, <1>4, Lengths DEF Phase, Longer, RegTypeOK
  <2>2. x = "readd" => Above(u, r.main - 1)' /\ \E i \in DOMAIN tables' : Filed(u, i, r.p)'
    <3>1. x = "readd" => r.main - 1 \in Nat
      BY <1>1, <1>4, Lengths DEF Phase, Calling
    <3> QED
      BY <1>1, <1>3, <1>4, <3>1 DEF Phase
  <2> QED
    BY <1>1, <1>2, <1>3, <1>4, <2>1, <2>2 DEF Phase
<1>5. ASSUME OnTheList(u, x, r) PROVE OnTheList(u, x, r)'
  <2>1. u \in Hashed => \A i \in DOMAIN tables', p \in Nat : Filed(u, i, p)' => p # 0
    BY <1>5 DEF OnTheList, SameFiles
  <2>2. x = "visit" => r.p <= Len(list')
    BY <1>1, <1>5, Lengths DEF OnTheList, Longer, RegTypeOK
  <2> QED
    BY <1>1, <1>2, <1>5, <2>1, <2>2 DEF OnTheList, Longer
<1>6. \A p \in Nat : Owns(u, x, r, m, p)' <=> Owns(u, x, r, m, p)
  BY <1>3 DEF Owns
<1> QED
  BY <1>4, <1>5, <1>6

\* The thread t goes to x, with the locals r and the producer m.
Turns(t, x, r, m) ==
  /\ pc' = [pc EXCEPT ![t] = x]
  /\ kept' = [kept EXCEPT ![t] = r]
  /\ mine' = [mine EXCEPT ![t] = m]
Stages == {"new", "ready", "bury", "leave", "use"} \cup Calling

\* What such a step leaves.
LEMMA Turning ==
  ASSUME RegTypeOK, NEW t \in Everyone, NEW x \in Stages, NEW r \in Locals, NEW m \in Nat,
         Turns(t, x, r, m)
  PROVE  /\ pc' \in [Everyone -> Stages] /\ kept' \in [Everyone -> Locals] /\ mine' \in [Everyone -> Nat]
         /\ pc'[t] = x /\ kept'[t] = r /\ mine'[t] = m
         /\ \A u \in Everyone \ {t} : Same(u)
  BY DEF RegTypeOK, Turns, Same, Stages

\* No step disturbs what others know; it is left to see what t does.
LEMMA StepOf ==
  ASSUME RInv, RegTypeOK', Tabled', Longer,
         NEW t \in Everyone, NEW x \in Stages, NEW r \in Locals, NEW m \in Nat, Turns(t, x, r, m),
         \A u \in Hashed \ {t} : SameFiles(u),
         t \in Hashed => Phase(t, x, r, m)',
         t \in Tokens => TokenPhase(x, m), OnTheList(t, x, r)'
  PROVE  /\ Phases'
         /\ \A u \in Everyone \ {t}, p \in Nat : Belongs(u, p)' <=> Belongs(u, p)
         /\ \A p \in Nat : Belongs(t, p)' <=> Owns(t, x, r, m, p)'
<1>1. /\ pc'[t] = x /\ kept'[t] = r /\ mine'[t] = m
      /\ \A u \in Everyone \ {t} : Same(u)
  BY Turning DEF RInv
<1>2. ASSUME NEW u \in Everyone \ {t}
      PROVE  /\ u \in Hashed => Phase(u, pc[u], kept[u], mine[u])'
             /\ u \in Tokens => TokenPhase(pc[u], mine[u])'
             /\ OnTheList(u, pc[u], kept[u])'
             /\ \A p \in Nat : Belongs(u, p)' <=> Belongs(u, p)
  <2>1. PICK y \in Stages, l \in Locals, n \in Nat : y = pc[u] /\ l = kept[u] /\ n = mine[u]
    BY DEF RInv, RegTypeOK, Stages
  <2>2. y = pc'[u] /\ l = kept'[u] /\ n = mine'[u]
    BY <1>1, <2>1 DEF Same
  <2>3. /\ u \in Hashed /\ Phase(u, y, l, n) => Phase(u, y, l, n)'
        /\ OnTheList(u, y, l) => OnTheList(u, y, l)'
        /\ \A p \in Nat : Owns(u, y, l, n, p)' <=> Owns(u, y, l, n, p)
    BY Carried DEF RInv
  <2>4. /\ u \in Hashed => Phase(u, y, l, n)
        /\ u \in Tokens => TokenPhase(y, n)
        /\ OnTheList(u, y, l)
    BY <2>1 DEF RInv, Phases
  <2> QED
    BY <2>1, <2>2, <2>3, <2>4 DEF Belongs
<1>3. \A u \in Hashed \cup Tokens : u \in Everyone
  BY DEF Everyone, Users!Users
<1>4. Phases'
  BY <1>1, <1>2, <1>3 DEF Phases
<1>5. \A p \in Nat : Belongs(t, p)' <=> Owns(t, x, r, m, p)'
  BY <1>1 DEF Belongs
<1> QED
  BY <1>2, <1>4, <1>5

\* A thread has what it had, or less, and what is inactive is nobody's.
LEMMA KeepsApart ==
  ASSUME RInv, RegTypeOK', Longer, NEW t \in Everyone,
         \A u \in Everyone \ {t}, p \in Nat : Belongs(u, p)' <=> Belongs(u, p),
         \A p \in Nat : Belongs(t, p)' => Belongs(t, p),
         \A p \in inactive' : p \in inactive \/ (Belongs(t, p) /\ ~ Belongs(t, p)')
  PROVE  Apart'
<1>1. DOMAIN list \subseteq DOMAIN list' /\ \A p \in DOMAIN list : list'[p] = list[p]
  BY Lengths DEF RInv, Longer, RegTypeOK
<1>2. \A u \in Everyone, p \in Nat : Belongs(u, p)' => Belongs(u, p)
  OBVIOUS
<1>3. ASSUME NEW u \in Everyone, NEW p \in Nat, Belongs(u, p)'
      PROVE  /\ p \in DOMAIN list' /\ p \notin inactive' /\ list'[p] = (u \in Tokens)
             /\ \A v \in Everyone : Belongs(v, p)' => v = u
             /\ \A q \in Nat : Belongs(u, q)' => q = p
  <2>1. /\ p \in DOMAIN list /\ p \notin inactive /\ list[p] = (u \in Tokens)
        /\ \A v \in Everyone : Belongs(v, p) => v = u
        /\ \A q \in Nat : Belongs(u, q) => q = p
    BY <1>2, <1>3 DEF RInv, Apart
  <2>2. p \notin inactive'
    BY <1>3, <2>1
  <2> QED
    BY <1>1, <1>2, <2>1, <2>2
<1> QED
  BY <1>3 DEF Apart

\* A thread that has nothing gets what is nobody's.
LEMMA GetsApart ==
  ASSUME RInv, RegTypeOK', Longer, NEW t \in Everyone, inactive' \subseteq inactive,
         \A u \in Everyone \ {t}, p \in Nat : Belongs(u, p)' <=> Belongs(u, p),
         NEW n \in DOMAIN list', n \notin inactive', list'[n] = (t \in Tokens),
         \A u \in Everyone : ~ Belongs(u, n),
         \A p \in Nat : Belongs(t, p)' => p = n
  PROVE  Apart'
<1>1. DOMAIN list \subseteq DOMAIN list' /\ \A p \in DOMAIN list : list'[p] = list[p]
  BY Lengths DEF RInv, Longer, RegTypeOK
<1>2. ASSUME NEW u \in Everyone, NEW p \in Nat, Belongs(u, p)'
      PROVE  /\ p \in DOMAIN list' /\ p \notin inactive' /\ list'[p] = (u \in Tokens)
             /\ \A v \in Everyone : Belongs(v, p)' => v = u
             /\ \A q \in Nat : Belongs(u, q)' => q = p
  <2>1. CASE u = t
    BY <1>2, <2>1
  <2>2. CASE u # t
    <3>1. /\ p \in DOMAIN list /\ p \notin inactive /\ list[p] = (u \in Tokens)
          /\ \A v \in Everyone : Belongs(v, p) => v = u
          /\ \A q \in Nat : Belongs(u, q) => q = p
      BY <1>2, <2>2 DEF RInv, Apart
    <3>2. p # n
      BY <1>2, <2>2
    <3> QED
      BY <1>1, <1>2, <2>2, <3>1, <3>2
  <2> QED
    BY <2>1, <2>2
<1> QED
  BY <1>2 DEF Apart

\* A step that leaves tables, list and what is inactive alone.
Lawful(t, x, r, m) ==
  /\ t \in Hashed => Phase(t, x, r, m)
  /\ t \in Tokens => TokenPhase(x, m)
  /\ OnTheList(t, x, r)
  /\ \A p \in Nat : Owns(t, x, r, m, p) => Belongs(t, p)
Quiet(t) == \E x \in Stages, r \in Locals, m \in Nat : Turns(t, x, r, m) /\ Lawful(t, x, r, m)

\* A step that leaves the tables and the list alone keeps the invariant, if it is lawful.
LEMMA Quietly ==
  ASSUME RInv, UNCHANGED <<listens, tables, list, inactive>>, NEW t \in Everyone, Quiet(t)
  PROVE  RInv'
<1>0. PICK x \in Stages, r \in Locals, m \in Nat : Turns(t, x, r, m) /\ Lawful(t, x, r, m)
  BY DEF Quiet
<1>1. RegTypeOK'
  BY <1>0, Turning DEF RInv, RegTypeOK, Stages
<1>2. Longer /\ \A u \in Hashed : SameFiles(u)
  BY Lengths DEF RInv, Longer, SameFiles, Filed, InTable
<1>3. Tabled'
  BY DEF RInv, Tabled, Search, Users!Cap, Users!Slot
<1>4. /\ t \in Hashed => Phase(t, x, r, m)'
      /\ OnTheList(t, x, r)'
      /\ \A p \in Nat : Owns(t, x, r, m, p)' <=> Owns(t, x, r, m, p)
  BY <1>0, <1>1, <1>2, Carried DEF RInv, Lawful
<1>5. /\ Phases'
      /\ \A u \in Everyone \ {t}, p \in Nat : Belongs(u, p)' <=> Belongs(u, p)
      /\ \A p \in Nat : Belongs(t, p)' <=> Owns(t, x, r, m, p)'
  BY <1>0, <1>1, <1>2, <1>3, <1>4, StepOf DEF Lawful
<1>6. Apart'
  BY <1>0, <1>1, <1>2, <1>4, <1>5, KeepsApart DEF Lawful
<1> QED
  BY <1>1, <1>3, <1>5, <1>6 DEF RInv
-----------------------------------------------------------------------------
(* The actions *)

\* One local is set.
LEMMA SetOne ==
  ASSUME RegTypeOK, NEW t \in Everyone, NEW v \in Nat
  PROVE  /\ Users!Set(t, "main", v) => \E r \in Locals :
              kept' = [kept EXCEPT ![t] = r] /\ r.main = v /\ r.at = kept[t].at /\ r.n = kept[t].n /\ r.p = kept[t].p
         /\ Users!Set(t, "at", v) => \E r \in Locals :
              kept' = [kept EXCEPT ![t] = r] /\ r.main = kept[t].main /\ r.at = v /\ r.n = kept[t].n /\ r.p = kept[t].p
         /\ Users!Set(t, "n", v) => \E r \in Locals :
              kept' = [kept EXCEPT ![t] = r] /\ r.main = kept[t].main /\ r.at = kept[t].at /\ r.n = v /\ r.p = kept[t].p
         /\ Users!Set(t, "p", v) => \E r \in Locals :
              kept' = [kept EXCEPT ![t] = r] /\ r.main = kept[t].main /\ r.at = kept[t].at /\ r.n = kept[t].n /\ r.p = v
<1>1. PICK l \in Locals : l = kept[t]
  BY DEF RegTypeOK
<1>2. /\ Users!Set(t, "main", v) => kept' = [kept EXCEPT ![t] = [l EXCEPT !.main = v]]
      /\ Users!Set(t, "at", v) => kept' = [kept EXCEPT ![t] = [l EXCEPT !.at = v]]
      /\ Users!Set(t, "n", v) => kept' = [kept EXCEPT ![t] = [l EXCEPT !.n = v]]
      /\ Users!Set(t, "p", v) => kept' = [kept EXCEPT ![t] = [l EXCEPT !.p = v]]
  BY <1>1 DEF Users!Set, Locals
<1>3. [l EXCEPT !.main = v] \in Locals /\ [l EXCEPT !.at = v] \in Locals
      /\ [l EXCEPT !.n = v] \in Locals /\ [l EXCEPT !.p = v] \in Locals
  BY DEF Locals
<1>4. /\ [l EXCEPT !.main = v].main = v /\ [l EXCEPT !.main = v].at = l.at
        /\ [l EXCEPT !.main = v].n = l.n /\ [l EXCEPT !.main = v].p = l.p
      /\ [l EXCEPT !.at = v].main = l.main /\ [l EXCEPT !.at = v].at = v
        /\ [l EXCEPT !.at = v].n = l.n /\ [l EXCEPT !.at = v].p = l.p
      /\ [l EXCEPT !.n = v].main = l.main /\ [l EXCEPT !.n = v].at = l.at
        /\ [l EXCEPT !.n = v].n = v /\ [l EXCEPT !.n = v].p = l.p
      /\ [l EXCEPT !.p = v].main = l.main /\ [l EXCEPT !.p = v].at = l.at
        /\ [l EXCEPT !.p = v].n = l.n /\ [l EXCEPT !.p = v].p = v
  BY DEF Locals
<1> QED
  BY <1>1, <1>2, <1>3, <1>4, ZenonT(30)

\* What a thread remembers at first is nothing.
LEMMA Nothing ==
  /\ Users!NoLocals \in Locals /\ Users!NoLocals.main = 0 /\ Users!NoLocals.at = 0
  /\ Users!NoLocals.n = 0 /\ Users!NoLocals.p = 0
  BY DEF Users!NoLocals, Locals

\* What the invariant says of one thread.
LEMMA Knows ==
  ASSUME RInv, NEW t \in Everyone
  PROVE  /\ pc[t] \in Stages /\ kept[t] \in Locals /\ mine[t] \in Nat
         /\ kept[t].main \in Nat /\ kept[t].at \in Nat /\ kept[t].n \in Nat /\ kept[t].p \in Nat
         /\ Lawful(t, pc[t], kept[t], mine[t])
         /\ t \in Hashed <=> t \notin Tokens
         /\ kept = [kept EXCEPT ![t] = kept[t]] /\ mine = [mine EXCEPT ![t] = mine[t]]
         /\ pc = [pc EXCEPT ![t] = pc[t]]
<1>1. pc[t] \in Stages /\ kept[t] \in Locals /\ mine[t] \in Nat
  BY DEF RInv, RegTypeOK, Stages
<1>2. kept[t].main \in Nat /\ kept[t].at \in Nat /\ kept[t].n \in Nat /\ kept[t].p \in Nat
  BY <1>1 DEF Locals
<1>3. Lawful(t, pc[t], kept[t], mine[t])
  BY DEF RInv, Phases, Lawful, Belongs
<1>4. t \in Hashed <=> t \notin Tokens
  BY RegistryAssumption DEF Everyone, Users!Users
<1> QED
  BY <1>1, <1>2, <1>3, <1>4 DEF RInv, RegTypeOK

\* Where a thread may go without ado: to x, with another p, or with nothing.
LEMMA VisitStep ==
  ASSUME RInv, NEW t \in Everyone, Users!Visit(t)
  PROVE  RInv'
<1>1. pc[t] = "visit" /\ UNCHANGED <<listens, tables, list, inactive, mine>>
  BY DEF Users!Visit, Users!register, Users!hashes
<1>2. list \in Seq(BOOLEAN) /\ inactive \subseteq DOMAIN list /\ DOMAIN list = 1 .. Len(list) /\ Len(list) \in Nat
  BY DEF RInv, RegTypeOK
<1>3. CASE kept[t].p = 0
  <2>1. Turns(t, "create", kept[t], mine[t])
    BY <1>1, <1>3, Knows DEF Users!Visit, Users!Jump, Turns
  <2>2. Lawful(t, "create", kept[t], mine[t])
    BY <1>1, Knows DEF Lawful, Phase, TokenPhase, OnTheList, Owns, Belongs, Calling, Settling, Counted, Admitted
  <2> QED
    BY <1>1, <2>1, <2>2, Knows, Quietly DEF Quiet, Stages, Calling, Settling, Counted, Admitted
<1>4. CASE kept[t].p # 0 /\ kept[t].p \in inactive /\ list[kept[t].p] = (t \in Tokens)
  <2>1. Turns(t, "catch", kept[t], mine[t])
    BY <1>1, <1>4, Knows DEF Users!Visit, Users!Jump, Turns
  <2>2. Lawful(t, "catch", kept[t], mine[t])
    BY <1>1, <1>2, <1>4, Knows DEF Lawful, Phase, TokenPhase, OnTheList, Owns, Belongs, Calling, Settling, Counted, Admitted
  <2> QED
    BY <1>1, <2>1, <2>2, Knows, Quietly DEF Quiet, Stages, Calling, Settling, Counted, Admitted
<1>5. CASE kept[t].p # 0 /\ ~ (kept[t].p \in inactive /\ list[kept[t].p] = (t \in Tokens))
  <2>1. kept[t].p - 1 \in Nat
    BY <1>5, Knows
  <2>2. Users!Set(t, "p", kept[t].p - 1) /\ pc' = pc
    BY <1>5 DEF Users!Visit
  <2>3. PICK r \in Locals : kept' = [kept EXCEPT ![t] = r] /\ r.main = kept[t].main /\ r.p = kept[t].p - 1
    BY <2>1, <2>2, SetOne DEF RInv
  <2>4. Turns(t, "visit", r, mine[t])
    BY <1>1, <2>2, <2>3, Knows DEF Turns
  <2>5. Lawful(t, "visit", r, mine[t])
    BY <1>1, <1>2, <1>5, <2>3, Knows DEF Lawful, Phase, TokenPhase, OnTheList, Owns, Belongs, Calling, Settling, Counted, Admitted
  <2> QED
    BY <1>1, <2>4, <2>5, Knows, Quietly DEF Quiet, Stages, Calling, Settling, Counted, Admitted
<1> QED
  BY <1>3, <1>4, <1>5

\* To start a call, with the tables there are.
LEMMA LookFrom ==
  ASSUME RInv, NEW t \in Hashed, pc[t] \in {"new", "ready"},
         UNCHANGED <<listens, tables, list, inactive, mine>>, pc' = [pc EXCEPT ![t] = "lookup"],
         kept' = [kept EXCEPT ![t] = [Users!NoLocals EXCEPT !.main = Len(tables), !.at = Len(tables)]]
  PROVE  RInv'
<1>1. t \in Everyone
  BY DEF Everyone, Users!Users
<1>2. Len(tables) \in Nat \ {0} /\ DOMAIN tables = 1 .. Len(tables)
  BY Lengths DEF RInv
<1>3. PICK l \in Nat \ {0} : l = Len(tables)
  BY <1>2
<1>4. PICK r \in Locals : r = [Users!NoLocals EXCEPT !.main = l, !.at = l] /\ r.main = l /\ r.at = l
  <2>1. [Users!NoLocals EXCEPT !.main = l, !.at = l] = [main |-> l, at |-> l, n |-> 0, p |-> 0]
    <3>1. [Users!NoLocals EXCEPT !.main = l, !.at = l] = [[Users!NoLocals EXCEPT !.main = l] EXCEPT !.at = l]
      OBVIOUS
    <3>2. [Users!NoLocals EXCEPT !.main = l] = [main |-> l, at |-> 0, n |-> 0, p |-> 0]
      BY DEF Users!NoLocals
    <3>3. [[main |-> l, at |-> 0, n |-> 0, p |-> 0] EXCEPT !.at = l] = [main |-> l, at |-> l, n |-> 0, p |-> 0]
      OBVIOUS
    <3> QED
      BY <3>1, <3>2, <3>3
  <2>2. [main |-> l, at |-> l, n |-> 0, p |-> 0] \in Locals
    BY DEF Locals
  <2> QED
    BY <2>1, <2>2
<1>5. Turns(t, "lookup", r, mine[t])
  BY <1>1, <1>3, <1>4, Knows DEF Turns
<1>6. Above(t, l)
  BY <1>2, <1>3 DEF Above
<1>7. Lawful(t, "lookup", r, mine[t])
  BY <1>1, <1>2, <1>3, <1>4, <1>6, Knows
  DEF Lawful, Phase, TokenPhase, OnTheList, Owns, Belongs, Calling, Settling, Counted, Admitted
<1> QED
  BY <1>1, <1>5, <1>7, Knows, Quietly DEF Quiet, Stages, Calling

\* A thread starts, or a token is made.
LEMMA StartStep ==
  ASSUME RInv, NEW t \in Everyone, Users!Start(t)
  PROVE  RInv'
<1>1. pc[t] = "new" /\ UNCHANGED <<listens, tables, list, inactive, mine>>
  BY DEF Users!Start, Users!Go, Users!register, Users!hashes
<1>2. CASE t \in Tokens
  <2>1. PICK l \in Nat : l = Len(list)
    BY Lengths DEF RInv
  <2>2. PICK r \in Locals : r = [Users!NoLocals EXCEPT !.p = l] /\ r.p = l
    <3>1. [Users!NoLocals EXCEPT !.p = l] = [main |-> 0, at |-> 0, n |-> 0, p |-> l]
      BY DEF Users!NoLocals
    <3>2. [main |-> 0, at |-> 0, n |-> 0, p |-> l] \in Locals
      BY DEF Locals
    <3> QED
      BY <3>1, <3>2
  <2>3. Turns(t, "visit", r, mine[t])
    BY <1>1, <1>2, <2>1, <2>2, Knows DEF Users!Start, Users!Go, Turns
  <2>4. Lawful(t, "visit", r, mine[t])
    BY <1>1, <1>2, <2>1, <2>2, Knows DEF Lawful, TokenPhase, OnTheList, Owns, Belongs
  <2> QED
    BY <1>1, <2>3, <2>4, Knows, Quietly, SMTT(40) DEF Quiet, Stages, Calling, Settling, Counted, Admitted
<1>3. CASE t \notin Tokens
  <2>1. t \in Hashed
    BY <1>3, Knows
  <2> QED
    BY <1>1, <1>3, <2>1, LookFrom DEF Users!Start, Users!Go
<1> QED
  BY <1>2, <1>3

\* A thread that has a producer enqueues again.
LEMMA AgainStep ==
  ASSUME RInv, NEW t \in Hashed, Users!Again(t)
  PROVE  RInv'
  BY LookFrom DEF Users!Again, Users!Go, Users!register, Users!hashes

\* Steps that only go on.
LEMMA GoOnStep ==
  ASSUME RInv, NEW t \in Everyone,
         \/ Users!Create(t) \/ Users!CreateFails(t) \/ Users!Grow(t) \/ Users!Clear(t) \/ Users!Fail(t)
         \/ Users!Lower(t) \/ Users!Uncount(t)
  PROVE  RInv'
<1>0. UNCHANGED <<listens, tables, list, inactive, mine>>
  BY DEF Users!Create, Users!CreateFails, Users!Grow, Users!Clear, Users!Fail, Users!Lower, Users!Uncount,
         Users!register, Users!hashes
<1>a. ASSUME NEW x \in Stages, Turns(t, x, kept[t], mine[t]), Lawful(t, x, kept[t], mine[t]) PROVE RInv'
  BY <1>0, <1>a, Knows, Quietly DEF Quiet
<1>b. ASSUME Turns(t, "ready", Users!NoLocals, mine[t]), Lawful(t, "ready", Users!NoLocals, mine[t]) PROVE RInv'
  BY <1>0, <1>b, Knows, Quietly, Nothing DEF Quiet, Stages
<1>1. CASE Users!Create(t)
  <2>1. (pc[t] = "create" /\ Turns(t, "push", kept[t], mine[t]))
    BY <1>0, <1>1, Knows DEF Users!Create, Users!Go, Turns
  <2>2. pc[t] = "create" => "push" \in Stages /\ Lawful(t, "push", kept[t], mine[t])
    BY Knows
    DEF Lawful, Phase, TokenPhase, OnTheList, Owns, Belongs, Stages, Calling, Settling, Counted, Admitted
  <2> QED
    BY <2>1, <2>2, <1>a, <1>b
<1>2. CASE Users!CreateFails(t)
  <2>1. pc[t] = "create" /\ Turns(t, IF t \in Tokens THEN "use" ELSE "uncreate", kept[t], mine[t])
    BY <1>0, <1>2, Knows DEF Users!CreateFails, Users!Go, Turns
  <2>2. t \in Tokens => "use" \in Stages /\ Lawful(t, "use", kept[t], mine[t])
    BY <2>1, Knows
    DEF Lawful, Phase, TokenPhase, OnTheList, Owns, Belongs, Stages, Calling, Settling, Counted, Admitted
  <2>3. t \notin Tokens => "uncreate" \in Stages /\ Lawful(t, "uncreate", kept[t], mine[t])
    BY <2>1, Knows
    DEF Lawful, Phase, TokenPhase, OnTheList, Owns, Belongs, Stages, Calling, Settling, Counted, Admitted
  <2> QED
    BY <2>1, <2>2, <2>3, <1>a
<1>3. CASE Users!Grow(t)
  <2>1. (pc[t] = "grow" /\ Turns(t, "room", kept[t], mine[t])) \/ (pc[t] = "grow" /\ Turns(t, "resize", kept[t], mine[t]))
    BY <1>0, <1>3, Knows DEF Users!Grow, Users!Jump, Turns
  <2>2. pc[t] = "grow" => "room" \in Stages /\ Lawful(t, "room", kept[t], mine[t])
    BY Knows
    DEF Lawful, Phase, TokenPhase, OnTheList, Owns, Belongs, Stages, Calling, Settling, Counted, Admitted
  <2>3. pc[t] = "grow" => "resize" \in Stages /\ Lawful(t, "resize", kept[t], mine[t])
    BY Knows
    DEF Lawful, Phase, TokenPhase, OnTheList, Owns, Belongs, Stages, Calling, Settling, Counted, Admitted
  <2> QED
    BY <2>1, <2>2, <2>3, <1>a, <1>b
<1>4. CASE Users!Clear(t)
  <2>1. (pc[t] = "clear" /\ Turns(t, "room", kept[t], mine[t]))
    BY <1>0, <1>4, Knows DEF Users!Clear, Users!Go, Turns
  <2>2. pc[t] = "clear" => "room" \in Stages /\ Lawful(t, "room", kept[t], mine[t])
    BY Knows
    DEF Lawful, Phase, TokenPhase, OnTheList, Owns, Belongs, Stages, Calling, Settling, Counted, Admitted
  <2> QED
    BY <2>1, <2>2, <1>a, <1>b
<1>5. CASE Users!Fail(t)
  <2>1. (pc[t] = "fail" /\ Turns(t, "lower", kept[t], mine[t]))
    BY <1>0, <1>5, Knows DEF Users!Fail, Users!Go, Turns
  <2>2. pc[t] = "fail" => "lower" \in Stages /\ Lawful(t, "lower", kept[t], mine[t])
    BY Knows
    DEF Lawful, Phase, TokenPhase, OnTheList, Owns, Belongs, Stages, Calling, Settling, Counted, Admitted
  <2> QED
    BY <2>1, <2>2, <1>a, <1>b
<1>6. CASE Users!Lower(t)
  <2>1. (pc[t] = "lower" /\ Turns(t, "ready", Users!NoLocals, mine[t]))
    BY <1>0, <1>6, Knows DEF Users!Lower, Users!Go, Users!Forget, Turns
  <2>2. pc[t] = "lower" => "ready" \in Stages /\ Lawful(t, "ready", Users!NoLocals, mine[t])
    BY Knows, Nothing
    DEF Lawful, Phase, TokenPhase, OnTheList, Owns, Belongs, Stages, Calling, Settling, Counted, Admitted
  <2> QED
    BY <2>1, <2>2, <1>a, <1>b
<1>7. CASE Users!Uncount(t)
  <2>1. (pc[t] = "uncount" /\ Turns(t, "insert", kept[t], mine[t])) \/ (pc[t] = "uncreate" /\ Turns(t, "ready", Users!NoLocals, mine[t]))
    BY <1>0, <1>7, Knows DEF Users!Uncount, Users!Go, Users!Forget, Turns
  <2>2. pc[t] = "uncount" => "insert" \in Stages /\ Lawful(t, "insert", kept[t], mine[t])
    BY Knows
    DEF Lawful, Phase, TokenPhase, OnTheList, Owns, Belongs, Stages, Calling, Settling, Counted, Admitted
  <2>3. pc[t] = "uncreate" => "ready" \in Stages /\ Lawful(t, "ready", Users!NoLocals, mine[t])
    BY Knows, Nothing
    DEF Lawful, Phase, TokenPhase, OnTheList, Owns, Belongs, Stages, Calling, Settling, Counted, Admitted
  <2> QED
    BY <2>1, <2>2, <2>3, <1>a, <1>b
<1> QED
  BY <1>1, <1>2, <1>3, <1>4, <1>5, <1>6, <1>7

\* Count, and the question whether there is room, set one local.
LEMMA CountStep ==
  ASSUME RInv, hashCount \in Nat, NEW t \in Everyone, Users!Count(t) \/ Users!Room(t)
  PROVE  RInv'
<1>0. UNCHANGED <<listens, tables, list, inactive, mine>>
  BY DEF Users!Count, Users!Room, Users!register, Users!hashes
<1>1. PICK n \in Nat, l \in Nat, q \in Nat :
         n = hashCount + 1 /\ l = Len(tables) /\ q = Len(list) /\ l \in DOMAIN tables
  <2>1. Len(tables) \in Nat /\ Len(list) \in Nat /\ Len(tables) \in DOMAIN tables
    BY Lengths DEF RInv
  <2>2. hashCount + 1 \in Nat
    OBVIOUS
  <2> QED
    BY <2>1, <2>2
<1>a. ASSUME NEW x \in Stages, NEW r \in Locals, pc' = [pc EXCEPT ![t] = x], kept' = [kept EXCEPT ![t] = r],
             Lawful(t, x, r, mine[t])
      PROVE  RInv'
  BY <1>0, <1>a, Knows, Quietly DEF Quiet, Turns
<1>2. CASE Users!Count(t)
  <2>1. PICK r \in Locals : kept' = [kept EXCEPT ![t] = r] /\ r.main = kept[t].main
    BY <1>1, <1>2, SetOne DEF Users!Count, RInv
  <2>2. pc[t] = "count" /\ pc' = [pc EXCEPT ![t] = "grow"]
    BY <1>2 DEF Users!Count, Users!Go
  <2>3. "grow" \in Stages /\ Lawful(t, "grow", r, mine[t])
    BY <2>1, <2>2, Knows
    DEF Lawful, Phase, TokenPhase, OnTheList, Owns, Belongs, Stages, Calling, Settling, Counted, Admitted
  <2> QED
    BY <1>a, <2>1, <2>2, <2>3
<1>3. CASE Users!Room(t) /\ pc' = [pc EXCEPT ![t] = "visit"] /\ Users!Set(t, "p", Len(list))
  <2>1. PICK r \in Locals : kept' = [kept EXCEPT ![t] = r] /\ r.main = kept[t].main /\ r.p = Len(list)
    BY <1>1, <1>3, SetOne DEF RInv
  <2>2. pc[t] = "room"
    BY <1>3 DEF Users!Room
  <2>3. "visit" \in Stages /\ Lawful(t, "visit", r, mine[t])
    BY <1>1, <2>1, <2>2, Knows
    DEF Lawful, Phase, TokenPhase, OnTheList, Owns, Belongs, Stages, Calling, Settling, Counted, Admitted
  <2> QED
    BY <1>a, <1>3, <2>1, <2>3
<1>4. CASE Users!Room(t) /\ pc' = [pc EXCEPT ![t] = "grow"] /\ Users!Set(t, "main", Len(tables))
  <2>1. PICK r \in Locals : kept' = [kept EXCEPT ![t] = r] /\ r.main = l
    BY <1>1, <1>4, SetOne DEF RInv
  <2>2. pc[t] = "room"
    BY <1>4 DEF Users!Room
  <2>3. "grow" \in Stages /\ Lawful(t, "grow", r, mine[t])
    BY <1>1, <2>1, <2>2, Knows
    DEF Lawful, Phase, TokenPhase, OnTheList, Owns, Belongs, Stages, Calling, Settling, Counted, Admitted
  <2> QED
    BY <1>a, <1>4, <2>1, <2>3
<1> QED
  BY <1>2, <1>3, <1>4 DEF Users!Room, Users!Jump

\* A thread ends, and goes to bury its key.
LEMMA ExitStep ==
  ASSUME RInv, NEW t \in Hashed, Users!Exit(t)
  PROVE  RInv'
<1>0. t \in Everyone /\ pc[t] = "ready" /\ UNCHANGED <<listens, tables, list, inactive>>
  BY SMTT(40) DEF Everyone, Users!Users, Users!Exit, Users!Go, Users!register, Users!hashes
<1>1. PICK l \in Nat : l = Len(tables) /\ DOMAIN tables = 1 .. l
  BY Lengths DEF RInv
<1>2. Above(t, l)
  BY <1>1 DEF Above
<1>3. CASE listens
  <2>1. PICK r \in Locals : kept' = [kept EXCEPT ![t] = r] /\ r.at = l
    BY <1>0, <1>1, <1>3, SetOne DEF Users!Exit, RInv
  <2>2. CASE mine[t] # 0
    <3>1. Turns(t, "bury", r, mine[t])
      BY <1>0, <1>3, <2>1, <2>2, Knows DEF Users!Exit, Users!Go, Turns
    <3>2. "bury" \in Stages /\ Lawful(t, "bury", r, mine[t])
      BY <1>0, <1>1, <1>2, <1>3, <2>1, <2>2, Knows
      DEF Lawful, Phase, TokenPhase, OnTheList, Owns, Belongs, Stages, Calling, Settling, Counted, Admitted
    <3> QED
      BY <1>0, <3>1, <3>2, Knows, Quietly DEF Quiet
  <2>3. CASE mine[t] = 0
    <3>1. Turns(t, "new", r, mine[t])
      BY <1>0, <1>3, <2>1, <2>3, Knows DEF Users!Exit, Users!Go, Turns
    <3>2. "new" \in Stages /\ Lawful(t, "new", r, mine[t])
      BY <1>0, <1>1, <1>2, <1>3, <2>1, <2>3, Knows
      DEF Lawful, Phase, TokenPhase, OnTheList, Owns, Belongs, Stages, Calling, Settling, Counted, Admitted
    <3> QED
      BY <1>0, <3>1, <3>2, Knows, Quietly DEF Quiet
  <2> QED
    BY <2>2, <2>3
<1>4. CASE ~ listens
  <2>1. Turns(t, "new", kept[t], 0)
    BY <1>0, <1>4, Knows DEF Users!Exit, Users!Go, Turns
  <2>2. "new" \in Stages /\ Lawful(t, "new", kept[t], 0)
    BY <1>0, <1>4, Knows
    DEF Lawful, Phase, TokenPhase, OnTheList, Owns, Belongs, Stages, Calling, Settling, Counted, Admitted
  <2> QED
    BY <1>0, <2>1, <2>2, Knows, Quietly DEF Quiet
<1> QED
  BY <1>3, <1>4

\* A thread looks in one slot of one table.
LEMMA LookupStep ==
  ASSUME RInv, NEW t \in Everyone, Users!Lookup(t)
  PROVE  RInv'
<1>0. pc[t] = "lookup" /\ t \in Hashed /\ UNCHANGED <<listens, tables, list, inactive>>
  BY Knows DEF Users!Lookup, Users!register, Users!hashes, Lawful, TokenPhase
<1>a. ASSUME NEW x \in Stages, NEW r \in Locals, NEW m \in Nat, Turns(t, x, r, m), Lawful(t, x, r, m)
      PROVE  RInv'
  BY <1>0, <1>a, Quietly DEF Quiet
<1>1. Lawful(t, "lookup", kept[t], mine[t]) /\ kept[t].at \in Nat /\ kept[t].main \in Nat /\ RInv
  BY <1>0, Knows
<1>2. PICK i \in Nat : i = kept[t].at
  BY <1>1
<1>3. i <= kept[t].main /\ kept[t].main \in DOMAIN tables /\ Above(t, i)
  BY <1>0, <1>1, <1>2 DEF Lawful, Phase, Calling
<1>4. CASE i = 0
  <2>1. Absent(t)
    BY <1>3, <1>4, Lengths DEF Above, Absent, RInv
  <2>2. Turns(t, "count", kept[t], mine[t])
    BY <1>0, <1>2, <1>4, Knows DEF Users!Lookup, Users!Jump, Turns
  <2>3. "count" \in Stages /\ Lawful(t, "count", kept[t], mine[t])
    BY <1>0, <1>1, <2>1
    DEF Lawful, Phase, TokenPhase, OnTheList, Owns, Belongs, Stages, Calling, Settling, Counted, Admitted
  <2> QED
    BY <1>a, <2>2, <2>3, Knows
<1>5. CASE i # 0
  <2>1. i \in DOMAIN tables
    BY <1>3, <1>5, Lengths DEF RInv
  <2>2. PICK k \in Users!Probe(i, t, {t, Users!Empty}) :
          IF tables[i][Users!Slot(i, t, k)].key = Users!Empty
          THEN Users!Set(t, "at", i - 1) /\ UNCHANGED <<pc, mine>>
          ELSE IF i = kept[t].main THEN Users!Give(t, tables[i][Users!Slot(i, t, k)].value)
          ELSE Users!Jump(t, "readd") /\ Users!Set(t, "p", tables[i][Users!Slot(i, t, k)].value) /\ UNCHANGED mine
    BY <1>2, <1>5 DEF Users!Lookup
  <2>3. PICK s \in DOMAIN tables[i] : s = Users!Slot(i, t, k) /\ tables[i][s].key \in {t, Users!Empty}
    BY <1>0, <2>1, Probed DEF RInv
  <2>4. CASE tables[i][s].key = Users!Empty
    <3>1. ~ InTable(t, i)
      BY <1>0, <2>1, <2>3, <2>4, NotFound DEF RInv
    <3>2. Above(t, i - 1)
      BY <1>3, <3>1, Lengths DEF Above, RInv
    <3>3. PICK r \in Locals : kept' = [kept EXCEPT ![t] = r] /\ r.main = kept[t].main /\ r.at = i - 1
      BY <1>5, <2>2, <2>3, <2>4, SetOne DEF RInv
    <3>4. Turns(t, "lookup", r, mine[t])
      BY <1>0, <2>2, <2>3, <2>4, <3>3, Knows DEF Turns
    <3>5. "lookup" \in Stages /\ Lawful(t, "lookup", r, mine[t])
      BY <1>0, <1>1, <1>3, <1>5, <3>2, <3>3
      DEF Lawful, Phase, TokenPhase, OnTheList, Owns, Belongs, Stages, Calling, Settling, Counted, Admitted
    <3> QED
      BY <1>a, <3>4, <3>5, Knows
  <2>5. CASE tables[i][s].key # Users!Empty
    <3>1. tables[i][s].key = t /\ tables[i][s].value \in Nat
      BY <2>1, <2>3, <2>5, TableShape DEF RInv, Entry
    <3>2. PICK v \in Nat : v = tables[i][s].value
      BY <3>1
    <3>3. Filed(t, i, v) /\ InTable(t, i) /\ ~ Absent(t) /\ v # 0
      BY <1>0, <1>1, <2>1, <3>1, <3>2 DEF Filed, InTable, Absent, Lawful, OnTheList
    <3>4. CASE i = kept[t].main
      <4>1. Turns(t, "ready", Users!NoLocals, v)
        BY <2>2, <2>3, <2>5, <3>2, <3>4 DEF Users!Give, Users!Jump, Users!Forget, Turns
      <4>2. "ready" \in Stages /\ Lawful(t, "ready", Users!NoLocals, v)
        BY <1>0, <1>1, <2>1, <3>3
        DEF Lawful, Phase, TokenPhase, OnTheList, Owns, Belongs, Stages, Calling, Settling, Counted, Admitted
      <4> QED
        BY <1>a, <4>1, <4>2, Nothing
    <3>5. CASE i # kept[t].main
      <4>1. PICK r \in Locals : kept' = [kept EXCEPT ![t] = r] /\ r.main = kept[t].main /\ r.p = v
        BY <2>2, <2>3, <2>5, <3>2, <3>5, SetOne DEF RInv
      <4>2. Turns(t, "readd", r, mine[t])
        BY <2>2, <2>3, <2>5, <3>5, <4>1, Knows DEF Users!Jump, Turns
      <4>3. Above(t, r.main - 1)
        BY <1>1, <1>3, <3>5, <4>1, Lengths DEF Above, RInv
      <4>4. "readd" \in Stages /\ Lawful(t, "readd", r, mine[t])
        BY <1>0, <1>1, <1>3, <2>1, <3>3, <4>1, <4>3
        DEF Lawful, Phase, TokenPhase, OnTheList, Owns, Belongs, Stages, Calling, Settling, Counted, Admitted
      <4> QED
        BY <1>a, <4>2, <4>4, Knows
    <3> QED
      BY <3>4, <3>5
  <2> QED
    BY <2>4, <2>5
<1> QED
  BY <1>4, <1>5

\* A thread gets a producer that was inactive, or a new one.
LEMMA TakenStep ==
  ASSUME RInv, UNCHANGED <<listens, tables, list>>,
         NEW t \in Everyone, NEW x \in Stages, NEW r \in Locals, NEW m \in Nat, Turns(t, x, r, m),
         NEW p \in inactive, inactive' = inactive \ {p}, p \in Nat, list[p] = (t \in Tokens),
         t \in Hashed => Phase(t, x, r, m), t \in Tokens => TokenPhase(x, m), OnTheList(t, x, r),
         \A q \in Nat : Owns(t, x, r, m, q) => q = p
  PROVE  RInv'
<1>1. RegTypeOK' /\ p \in DOMAIN list'
  BY Turning DEF RInv, RegTypeOK, Stages
<1>2. Longer /\ \A u \in Hashed : SameFiles(u)
  BY Lengths DEF RInv, Longer, SameFiles, Filed, InTable
<1>3. Tabled'
  BY DEF RInv, Tabled, Search, Users!Cap, Users!Slot
<1>4. /\ t \in Hashed => Phase(t, x, r, m)'
      /\ OnTheList(t, x, r)'
      /\ \A q \in Nat : Owns(t, x, r, m, q)' <=> Owns(t, x, r, m, q)
  BY <1>1, <1>2, Carried DEF RInv
<1>5. /\ Phases'
      /\ \A u \in Everyone \ {t}, q \in Nat : Belongs(u, q)' <=> Belongs(u, q)
      /\ \A q \in Nat : Belongs(t, q)' <=> Owns(t, x, r, m, q)'
  BY <1>1, <1>2, <1>3, <1>4, StepOf
<1>6. \A u \in Everyone : ~ Belongs(u, p)
  BY DEF RInv, Apart
<1>7. Apart'
  BY <1>1, <1>2, <1>4, <1>5, <1>6, GetsApart
<1> QED
  BY <1>1, <1>3, <1>5, <1>7 DEF RInv

\* A producer is made, and put on the list.
LEMMA NewStep ==
  ASSUME RInv, UNCHANGED <<listens, tables, inactive>>,
         NEW t \in Everyone, NEW x \in Stages, NEW r \in Locals, NEW m \in Nat, Turns(t, x, r, m),
         list' = Append(list, t \in Tokens), NEW p \in Nat, p = Len(list) + 1,
         t \in Hashed => Phase(t, x, r, m), t \in Tokens => TokenPhase(x, m), OnTheList(t, x, r),
         \A q \in Nat : Owns(t, x, r, m, q) => q = p
  PROVE  RInv'
<1>1. PICK b \in BOOLEAN : b = (t \in Tokens)
  <2>1. CASE t \in Tokens
    <3>1. TRUE = (t \in Tokens)
      BY <2>1
    <3> QED
      BY <3>1
  <2>2. CASE t \notin Tokens
    <3>1. FALSE = (t \in Tokens)
      BY <2>2
    <3> QED
      BY <3>1
  <2> QED
    BY <2>1, <2>2
<1>2. list \in Seq(BOOLEAN) /\ Len(list) \in Nat /\ list' = Append(list, b)
  BY <1>1 DEF RInv, RegTypeOK
<1>3. /\ list' \in Seq(BOOLEAN) /\ Len(list') = Len(list) + 1 /\ list'[p] = b /\ p \in DOMAIN list'
      /\ \A q \in DOMAIN list : list'[q] = list[q]
  BY <1>2
<1>4. RegTypeOK'
  <2>1. inactive \subseteq 1 .. Len(list')
    BY <1>2, <1>3 DEF RInv, RegTypeOK
  <2> QED
    BY <1>3, <2>1, Turning DEF RInv, RegTypeOK, Stages
<1>5. Longer /\ \A u \in Hashed : SameFiles(u)
  BY <1>2, <1>3, Lengths DEF RInv, Longer, SameFiles, Filed, InTable
<1>6. Tabled'
  BY DEF RInv, Tabled, Search, Users!Cap, Users!Slot
<1>7. /\ t \in Hashed => Phase(t, x, r, m)'
      /\ OnTheList(t, x, r)'
      /\ \A q \in Nat : Owns(t, x, r, m, q)' <=> Owns(t, x, r, m, q)
  BY <1>4, <1>5, Carried DEF RInv
<1>8. /\ Phases'
      /\ \A u \in Everyone \ {t}, q \in Nat : Belongs(u, q)' <=> Belongs(u, q)
      /\ \A q \in Nat : Belongs(t, q)' <=> Owns(t, x, r, m, q)'
  BY <1>4, <1>5, <1>6, <1>7, StepOf
<1>9. (\A u \in Everyone : ~ Belongs(u, p)) /\ p \notin inactive'
  <2>1. p \notin DOMAIN list
    BY Lengths DEF RInv
  <2> QED
    BY <2>1 DEF RInv, Apart, RegTypeOK
<1>10. Apart'
  BY <1>1, <1>3, <1>4, <1>5, <1>7, <1>8, <1>9, GetsApart
<1> QED
  BY <1>4, <1>6, <1>8, <1>10 DEF RInv

\* A producer that was free is taken.
LEMMA CatchStep ==
  ASSUME RInv, NEW t \in Everyone, Users!Catch(t)
  PROVE  RInv'
<1>0. pc[t] = "catch" /\ UNCHANGED <<listens, tables, list>>
  BY DEF Users!Catch, Users!hashes
<1>1. PICK p \in Nat : p = kept[t].p
  BY Knows
<1>2. p \in DOMAIN list /\ p # 0 /\ list[p] = (t \in Tokens) /\ mine[t] = 0 /\ (t \in Hashed => Absent(t))
  BY <1>0, <1>1, Knows, Lengths DEF Lawful, Phase, TokenPhase, OnTheList, Settling, Counted, Admitted, RInv
<1>3. CASE p \in inactive
  <2>0. inactive' = inactive \ {p}
    BY <1>1, <1>3 DEF Users!Catch
  <2>1. CASE t \in Tokens
    <3>1. Turns(t, "use", kept[t], p)
      BY <1>1, <1>3, <2>1, Knows DEF Users!Catch, Users!Jump, Turns
    <3>2. "use" \in Stages /\ TokenPhase("use", p) /\ OnTheList(t, "use", kept[t])
      BY <1>0, <2>1, Knows DEF Stages, TokenPhase, OnTheList, Lawful
    <3>3. \A q \in Nat : Owns(t, "use", kept[t], p, q) => q = p
      BY <2>1, Knows DEF Owns
    <3> QED
      BY <1>0, <1>2, <1>3, <2>0, <2>1, <3>1, <3>2, <3>3, Knows, TakenStep
  <2>2. CASE t \notin Tokens
    <3>1. Turns(t, "uncount", kept[t], 0)
      BY <1>1, <1>2, <1>3, <2>2, Knows DEF Users!Catch, Users!Jump, Turns
    <3>2. "uncount" \in Stages /\ Phase(t, "uncount", kept[t], 0) /\ OnTheList(t, "uncount", kept[t])
      BY <1>0, <1>1, <1>2, <2>2, Knows
      DEF Phase, OnTheList, Lawful, Stages, Calling, Settling, Counted, Admitted
    <3>3. \A q \in Nat : Owns(t, "uncount", kept[t], 0, q) => q = p
      BY <1>1, <1>2, <2>2, Knows DEF Owns, Absent, Filed, InTable
    <3> QED
      BY <1>0, <1>2, <1>3, <2>0, <2>2, <3>1, <3>2, <3>3, Knows, TakenStep
  <2> QED
    BY <2>1, <2>2
<1>4. CASE p \notin inactive
  <2>1. Users!Set(t, "p", p - 1) /\ p - 1 \in Nat /\ pc' = [pc EXCEPT ![t] = "visit"]
        /\ UNCHANGED <<inactive, mine>>
    BY <1>1, <1>2, <1>4 DEF Users!Catch, Users!Jump
  <2>2. PICK r \in Locals : kept' = [kept EXCEPT ![t] = r] /\ r.main = kept[t].main /\ r.p = p - 1
    BY <2>1, SetOne DEF RInv
  <2>3. Turns(t, "visit", r, mine[t])
    BY <2>1, <2>2, Knows DEF Turns
  <2>4. Len(list) \in Nat /\ p <= Len(list)
    BY <1>2, Lengths DEF RInv
  <2>5. "visit" \in Stages /\ Lawful(t, "visit", r, mine[t])
    BY <1>0, <1>1, <2>2, <2>4, Knows
    DEF Lawful, Phase, TokenPhase, OnTheList, Owns, Belongs, Stages, Calling, Settling, Counted, Admitted
  <2> QED
    BY <1>0, <2>1, <2>3, <2>5, Knows, Quietly DEF Quiet
<1> QED
  BY <1>3, <1>4

\* A new producer comes into the list.
LEMMA PushStep ==
  ASSUME RInv, NEW t \in Everyone, Users!Push(t)
  PROVE  RInv'
<1>0. pc[t] = "push" /\ UNCHANGED <<listens, tables, inactive>> /\ list' = Append(list, t \in Tokens)
  BY DEF Users!Push, Users!Go, Users!hashes
<1>1. PICK p \in Nat : p = Len(list) + 1 /\ p # 0
  BY Lengths DEF RInv
<1>2. mine[t] = 0 /\ (t \in Hashed => Absent(t))
  BY <1>0, Knows DEF Lawful, Phase, TokenPhase, Settling, Counted, Admitted
<1>3. PICK r \in Locals : kept' = [kept EXCEPT ![t] = r] /\ r.main = kept[t].main /\ r.p = p
  BY <1>1, SetOne DEF Users!Push, RInv
<1>4. CASE t \in Tokens
  <2>1. Turns(t, "use", r, p)
    BY <1>1, <1>3, <1>4, Knows DEF Users!Push, Users!Go, Turns
  <2>2. "use" \in Stages /\ TokenPhase("use", p) /\ OnTheList(t, "use", r)
    BY <1>0, <1>4, Knows DEF Stages, TokenPhase, OnTheList, Lawful
  <2>3. \A q \in Nat : Owns(t, "use", r, p, q) => q = p
    BY <1>4, Knows DEF Owns
  <2> QED
    BY <1>0, <1>1, <1>4, <2>1, <2>2, <2>3, Knows, NewStep
<1>5. CASE t \notin Tokens
  <2>1. Turns(t, "insert", r, 0)
    BY <1>1, <1>2, <1>3, <1>5, Knows DEF Users!Push, Users!Go, Turns
  <2>2. "insert" \in Stages /\ Phase(t, "insert", r, 0) /\ OnTheList(t, "insert", r)
    BY <1>0, <1>1, <1>2, <1>3, <1>5, Knows
    DEF Phase, OnTheList, Lawful, Stages, Calling, Settling, Counted, Admitted
  <2>3. \A q \in Nat : Owns(t, "insert", r, 0, q) => q = p
    BY <1>2, <1>3, <1>5, Knows DEF Owns, Absent, Filed, InTable
  <2> QED
    BY <1>0, <1>1, <1>5, <2>1, <2>2, <2>3, Knows, NewStep
<1> QED
  BY <1>4, <1>5

\* The thread exits, or the token is destroyed: what it had is inactive.
LEMMA LeaveStep ==
  ASSUME RInv, NEW t \in Everyone, Users!Leave(t) \/ Users!DropToken(t)
  PROVE  RInv'
<1>0. /\ UNCHANGED <<listens, tables, list>> /\ inactive' = inactive \cup ({mine[t]} \ {0})
      /\ pc[t] \in {"leave", "use"} /\ Turns(t, "new", Users!NoLocals, 0)
  <2>1. CASE Users!Leave(t)
    <3>1. pc[t] = "leave"
      BY <2>1 DEF Users!Leave, Users!Go
    <3>2. mine[t] # 0
      BY <3>1, Knows DEF Lawful, TokenPhase, Phase
    <3> QED
      BY <2>1, <3>2 DEF Users!Leave, Users!Go, Users!Forget, Users!hashes, Turns
  <2>2. CASE Users!DropToken(t)
    BY <2>2 DEF Users!DropToken, Users!Go, Users!Forget, Users!hashes, Turns
  <2> QED
    BY <2>1, <2>2
<1>1. "new" \in Stages /\ Lawful(t, "new", Users!NoLocals, 0) /\ \A q \in Nat : ~ Owns(t, "new", Users!NoLocals, 0, q)
  BY <1>0, Knows, Nothing
  DEF Lawful, Phase, TokenPhase, OnTheList, Owns, Belongs, Stages, Calling, Settling, Counted, Admitted,
      Absent, Filed, InTable
<1>2. mine[t] # 0 => Belongs(t, mine[t])
  BY Knows DEF Belongs, Owns
<1>3. mine[t] # 0 => mine[t] \in 1 .. Len(list)
  BY <1>2, Knows, Lengths DEF RInv, Apart
<1>4. RegTypeOK'
  <2>1. inactive' \subseteq 1 .. Len(list')
    BY <1>0, <1>3 DEF RInv, RegTypeOK
  <2> QED
    BY <1>0, <1>1, <2>1, Turning, Nothing DEF RInv, RegTypeOK, Stages
<1>5. Longer /\ \A u \in Hashed : SameFiles(u)
  BY <1>0, Lengths DEF RInv, Longer, SameFiles, Filed, InTable
<1>6. Tabled'
  BY <1>0 DEF RInv, Tabled, Search, Users!Cap, Users!Slot
<1>7. PICK r \in Locals : r = Users!NoLocals
  BY Nothing
<1>8. /\ t \in Hashed => Phase(t, "new", r, 0)'
      /\ OnTheList(t, "new", r)'
      /\ \A q \in Nat : Owns(t, "new", r, 0, q)' <=> Owns(t, "new", r, 0, q)
  BY <1>1, <1>4, <1>5, <1>7, Carried DEF RInv, Lawful
<1>9. /\ Phases'
      /\ \A u \in Everyone \ {t}, q \in Nat : Belongs(u, q)' <=> Belongs(u, q)
      /\ \A q \in Nat : Belongs(t, q)' <=> Owns(t, "new", r, 0, q)'
  BY <1>0, <1>1, <1>4, <1>5, <1>6, <1>7, <1>8, StepOf DEF Lawful
<1>10. Apart'
  <2>1. \A q \in Nat : ~ Belongs(t, q)'
    BY <1>1, <1>7, <1>8, <1>9
  <2>2. \A q \in inactive' : q \in inactive \/ (Belongs(t, q) /\ ~ Belongs(t, q)')
    BY <1>0, <1>2, <2>1, Knows
  <2> QED
    BY <1>4, <1>5, <1>9, <2>1, <2>2, KeepsApart
<1> QED
  BY <1>4, <1>6, <1>9, <1>10 DEF RInv

\* The exiting thread's keys are removed, from table to table.
LEMMA BuriedStep ==
  ASSUME RInv, NEW t \in Everyone, Users!Bury(t)
  PROVE  RInv'
<1>0. pc[t] = "bury" /\ t \in Hashed /\ UNCHANGED <<listens, list, inactive, mine>>
  BY Knows DEF Users!Bury, Users!register, Lawful, TokenPhase
<1>1. PICK i \in Nat : i = kept[t].at
  BY Knows
<1>2. i <= Len(tables) /\ Above(t, i) /\ listens /\ mine[t] # 0
  BY <1>0, <1>1, Knows DEF Lawful, Phase
<1>3. CASE i = 0
  <2>1. Absent(t)
    BY <1>2, <1>3, Lengths DEF Above, Absent, RInv
  <2>2. Turns(t, "leave", kept[t], mine[t]) /\ tables' = tables
    BY <1>0, <1>1, <1>3, Knows DEF Users!Bury, Users!Jump, Turns
  <2>3. "leave" \in Stages /\ Lawful(t, "leave", kept[t], mine[t])
    BY <1>0, <1>2, <2>1, Knows
    DEF Lawful, Phase, TokenPhase, OnTheList, Owns, Belongs, Stages, Calling, Settling, Counted, Admitted
  <2> QED
    BY <1>0, <2>2, <2>3, Knows, Quietly DEF Quiet
<1>4. CASE i # 0
  <2>1. i \in DOMAIN tables /\ i - 1 \in Nat
    BY <1>2, <1>4, Lengths DEF RInv
  <2>2. PICK k \in Users!Probe(i, t, {t, Users!Empty}) :
          tables' = IF tables[i][Users!Slot(i, t, k)].key = t
                    THEN [tables EXCEPT ![i][Users!Slot(i, t, k)].key = Users!Gone] ELSE tables
    BY <1>1, <1>4 DEF Users!Bury
  <2>3. Users!Set(t, "at", i - 1) /\ pc' = pc
    BY <1>1, <1>4 DEF Users!Bury
  <2>4. PICK r \in Locals : kept' = [kept EXCEPT ![t] = r] /\ r.at = i - 1
    BY <2>1, <2>3, SetOne DEF RInv
  <2>5. PICK m \in Nat : m = mine[t] /\ m # 0
    BY <1>2, Knows
  <2>6. Turns(t, "bury", r, m) /\ "bury" \in Stages
    BY <1>0, <2>3, <2>4, <2>5, Knows DEF Turns, Stages
  <2>7. /\ tables' \in Seq(Slotted) /\ Len(tables') = Len(tables) /\ Tabled'
        /\ \A u \in Hashed, j \in DOMAIN tables :
              /\ InTable(u, j)' <=> InTable(u, j) /\ ~ (u = t /\ j = i)
              /\ \A q \in Nat : Filed(u, j, q)' <=> Filed(u, j, q) /\ ~ (u = t /\ j = i)
    BY <1>0, <1>2, <2>1, <2>2, BuryStep DEF RInv
  <2>8. RegTypeOK'
    BY <1>0, <2>6, <2>7, Turning DEF RInv, RegTypeOK, Stages
  <2>9. DOMAIN tables' = DOMAIN tables
    BY <2>7, <2>8, Lengths DEF RInv
  <2>10. Longer /\ \A u \in Hashed \ {t} : SameFiles(u)
    BY <1>0, <2>7, <2>9, Lengths DEF RInv, Longer, SameFiles
  <2>11. \A j \in DOMAIN tables', q \in Nat : Filed(t, j, q)' => Filed(t, j, q)
    BY <1>0, <2>7, <2>9
  <2>12. Phase(t, "bury", r, m)'
    <3>1. Above(t, i - 1)'
      BY <1>0, <1>2, <2>1, <2>7, <2>9, Lengths DEF Above, RInv
    <3> QED
      BY <1>0, <1>2, <2>1, <2>4, <2>5, <2>7, <3>1, Lengths
      DEF Phase, Calling, Settling, Counted, Admitted, RInv
  <2>13. OnTheList(t, "bury", r)'
    BY <1>0, <2>9, <2>11, Knows DEF OnTheList, Lawful
  <2>14. /\ Phases'
         /\ \A u \in Everyone \ {t}, q \in Nat : Belongs(u, q)' <=> Belongs(u, q)
         /\ \A q \in Nat : Belongs(t, q)' <=> Owns(t, "bury", r, m, q)'
    BY <1>0, <2>6, <2>7, <2>8, <2>10, <2>12, <2>13, Knows, StepOf
  <2>15. \A q \in Nat : Belongs(t, q)' => Belongs(t, q)
    BY <1>0, <2>5, <2>9, <2>11, <2>14 DEF Owns, Belongs
  <2>16. Apart'
    BY <1>0, <2>8, <2>10, <2>14, <2>15, KeepsApart
  <2> QED
    BY <2>7, <2>8, <2>14, <2>16 DEF RInv
<1> QED
  BY <1>3, <1>4

\* The thread is put in a table with its producer.
LEMMA FilledStep ==
  ASSUME RInv, NEW t \in Everyone, Users!ReAdd(t) \/ Users!Insert(t)
  PROVE  RInv'
<1>0. /\ pc[t] \in {"readd", "insert"} /\ t \in Hashed /\ UNCHANGED <<listens, list, inactive>>
      /\ Turns(t, "ready", Users!NoLocals, kept[t].p)
  BY Knows DEF Users!ReAdd, Users!Insert, Users!Give, Users!Jump, Users!Forget, Users!register,
     Lawful, TokenPhase, Turns
<1>1. PICK i \in Nat, p \in Nat : i = kept[t].main /\ p = kept[t].p
  BY Knows
<1>2. i \in DOMAIN tables /\ ~ InTable(t, i)
  <2>1. Phase(t, pc[t], kept[t], mine[t]) /\ i \in DOMAIN tables
    BY <1>0, <1>1, Knows DEF Lawful, Phase, Calling, Settling
  <2>2. pc[t] = "readd" => Above(t, i - 1)
    BY <1>1, <2>1 DEF Phase
  <2>3. pc[t] = "insert" => Absent(t)
    BY <2>1 DEF Phase, Settling
  <2> QED
    BY <1>0, <2>1, <2>2, <2>3 DEF Above, Absent
<1>3. Belongs(t, p) /\ p # 0
  BY <1>0, <1>1, Knows DEF Belongs, Owns, Lawful, Phase, OnTheList
<1>4. PICK k \in Users!Probe(i, t, Users!Vacant) : Users!Fill(i, t, k, p)
  BY <1>1 DEF Users!ReAdd, Users!Insert
<1>5. /\ tables' \in Seq(Slotted) /\ Len(tables') = Len(tables) /\ Tabled'
      /\ \A u \in Hashed, j \in DOMAIN tables :
            /\ InTable(u, j)' <=> InTable(u, j) \/ (u = t /\ j = i)
            /\ \A q \in Nat : Filed(u, j, q)' <=> Filed(u, j, q) \/ (u = t /\ j = i /\ q = p)
  BY <1>0, <1>2, <1>4, FillStep DEF RInv
<1>6. PICK r \in Locals : r = Users!NoLocals
  BY Nothing
<1>7. Turns(t, "ready", r, p) /\ "ready" \in Stages
  BY <1>0, <1>1, <1>6 DEF Stages
<1>8. RegTypeOK'
  BY <1>0, <1>5, <1>7, Turning DEF RInv, RegTypeOK, Stages
<1>9. DOMAIN tables' = DOMAIN tables
  BY <1>5, <1>8, Lengths DEF RInv
<1>10. Longer /\ \A u \in Hashed \ {t} : SameFiles(u)
  BY <1>0, <1>5, <1>9, Lengths DEF RInv, Longer, SameFiles
<1>11. \A j \in DOMAIN tables', q \in Nat : Filed(t, j, q)' => Filed(t, j, q) \/ q = p
  BY <1>0, <1>5, <1>9
<1>12. Phase(t, "ready", r, p)'
  <2>1. ~ Absent(t)'
    BY <1>0, <1>2, <1>5, <1>9 DEF Absent
  <2> QED
    BY <1>3, <2>1 DEF Phase, Calling, Settling, Counted, Admitted
<1>13. OnTheList(t, "ready", r)'
  BY <1>0, <1>3, <1>9, <1>11, Knows DEF OnTheList, Lawful
<1>14. /\ Phases'
       /\ \A u \in Everyone \ {t}, q \in Nat : Belongs(u, q)' <=> Belongs(u, q)
       /\ \A q \in Nat : Belongs(t, q)' <=> Owns(t, "ready", r, p, q)'
  BY <1>0, <1>5, <1>7, <1>8, <1>10, <1>12, <1>13, Knows, StepOf
<1>15. \A q \in Nat : Belongs(t, q)' => Belongs(t, q)
  <2>1. \A q \in Nat : (\E j \in DOMAIN tables : Filed(t, j, q)) => Belongs(t, q)
    BY <1>0 DEF Belongs, Owns
  <2> QED
    BY <1>0, <1>3, <1>9, <1>11, <1>14, <2>1 DEF Owns
<1>16. Apart'
  BY <1>0, <1>8, <1>10, <1>14, <1>15, KeepsApart
<1> QED
  BY <1>5, <1>8, <1>14, <1>16 DEF RInv

\* The table that replaces one is larger.
LEMMA LargerIs ==
  ASSUME NEW n, NEW c \in Nat \ {0}, NEW d \in Users!Larger(n, c)
  PROVE  d \in Nat \ {0} /\ c <= d
<1>1. PICK f \in Users!Doublings : d = c * f
  BY DEF Users!Larger
<1>2. f \in {2, 4, 8, 16, 32, 64, 128, 256}
  BY DEF Users!Doublings
<1> QED
  BY <1>1, <1>2

\* A larger table, one that somebody else has made, or none.
LEMMA ResizeStep ==
  ASSUME RInv, NEW t \in Everyone, Users!Resize(t)
  PROVE  RInv'
<1>0. pc[t] = "resize" /\ t \in Hashed /\ UNCHANGED <<listens, list, inactive, mine>>
  BY Knows, SMTT(40) DEF Users!Resize, Lawful, TokenPhase
<1>1. PICK l \in Nat \ {0}, c \in Nat \ {0} :
         l = Len(tables) /\ DOMAIN tables = 1 .. l /\ c = Users!Cap(l) /\ l \in DOMAIN tables
  <2>1. PICK l \in Nat \ {0} : l = Len(tables) /\ DOMAIN tables = 1 .. l /\ l \in DOMAIN tables
    <3>1. DOMAIN tables = 1 .. Len(tables) /\ Len(tables) \in Nat \ {0}
      BY Lengths DEF RInv
    <3>2. Len(tables) \in 1 .. Len(tables)
      BY <3>1
    <3> QED
      BY <3>1, <3>2
  <2>2. Users!Cap(l) \in Nat \ {0}
    BY <2>1, TableShape DEF RInv
  <2> QED
    BY <2>1, <2>2
<1>2. CASE tables' = tables /\ Users!Set(t, "main", Len(tables)) /\ Users!Jump(t, "clear")
  <2>1. PICK r \in Locals : kept' = [kept EXCEPT ![t] = r] /\ r.main = l
    BY <1>1, <1>2, SetOne DEF RInv
  <2>2. Turns(t, "clear", r, mine[t])
    BY <1>0, <1>2, <2>1, Knows DEF Users!Jump, Turns
  <2>3. "clear" \in Stages /\ Lawful(t, "clear", r, mine[t])
    BY <1>0, <1>1, <2>1, Knows
    DEF Lawful, Phase, TokenPhase, OnTheList, Owns, Belongs, Stages, Calling, Settling, Counted, Admitted
  <2> QED
    BY <1>0, <1>2, <2>2, <2>3, Knows, Quietly DEF Quiet
<1>3. CASE UNCHANGED <<kept, tables>> /\ Users!Jump(t, "fail")
  <2>1. Turns(t, "fail", kept[t], mine[t])
    BY <1>0, <1>3, Knows DEF Users!Jump, Turns
  <2>2. "fail" \in Stages /\ Lawful(t, "fail", kept[t], mine[t])
    BY <1>0, Knows
    DEF Lawful, Phase, TokenPhase, OnTheList, Owns, Belongs, Stages, Calling, Settling, Counted, Admitted
  <2> QED
    BY <1>0, <1>3, <2>1, <2>2, Knows, Quietly DEF Quiet
<1>4. ASSUME NEW d \in Users!Larger(kept[t].n, Users!Cap(Len(tables))),
             tables' = Append(tables, Users!NewTable(d)),
             Users!Set(t, "main", Len(tables) + 1), Users!Jump(t, "clear")
      PROVE  RInv'
  <2>1. d \in Nat \ {0} /\ Users!Cap(Len(tables)) <= d
    BY <1>1, <1>4, LargerIs
  <2>2. /\ tables' \in Seq(Slotted) /\ Len(tables') = Len(tables) + 1 /\ Tabled'
        /\ \A u \in Hashed, j \in DOMAIN tables' :
             /\ InTable(u, j)' <=> j \in DOMAIN tables /\ InTable(u, j)
             /\ \A q \in Nat : Filed(u, j, q)' <=> j \in DOMAIN tables /\ Filed(u, j, q)
    BY <1>0, <1>4, <2>1, AppendStep DEF RInv
  <2>3. PICK r \in Locals : kept' = [kept EXCEPT ![t] = r] /\ r.main = l + 1
    BY <1>1, <1>4, SetOne DEF RInv
  <2>4. PICK m \in Nat : m = mine[t]
    BY Knows
  <2>5. Turns(t, "clear", r, m) /\ "clear" \in Stages
    BY <1>0, <1>4, <2>3, <2>4, Knows DEF Users!Jump, Turns, Stages, Calling, Settling, Counted
  <2>6. RegTypeOK'
    BY <1>0, <1>1, <2>2, <2>5, Turning DEF RInv, RegTypeOK, Stages
  <2>7. DOMAIN tables' = 1 .. l + 1 /\ Longer /\ \A u \in Hashed : SameFiles(u)
    BY <1>0, <1>1, <2>2, <2>6, Lengths DEF Longer, SameFiles
  <2>8. Phase(t, "clear", r, m)'
    <3>1. Absent(t) /\ m = 0
      BY <1>0, <2>4, Knows DEF Lawful, Phase, Settling, Counted
    <3>2. Absent(t)'
      BY <1>0, <2>2, <3>1 DEF Absent
    <3> QED
      BY <1>1, <2>3, <2>7, <3>1, <3>2 DEF Phase
  <2>9. OnTheList(t, "clear", r)'
    BY <1>0, <2>2, Knows DEF OnTheList, Lawful
  <2>10. /\ Phases'
         /\ \A u \in Everyone \ {t}, q \in Nat : Belongs(u, q)' <=> Belongs(u, q)
         /\ \A q \in Nat : Belongs(t, q)' <=> Owns(t, "clear", r, m, q)'
    BY <1>0, <2>2, <2>5, <2>6, <2>7, <2>8, <2>9, Knows, StepOf
  <2>11. \A q \in Nat : Belongs(t, q)' => Belongs(t, q)
    BY <1>0, <2>2, <2>4, <2>10 DEF Belongs, Owns
  <2>12. Apart'
    BY <1>0, <2>6, <2>7, <2>10, <2>11, KeepsApart
  <2> QED
    BY <2>2, <2>6, <2>10, <2>12 DEF RInv
<1> QED
  BY <1>2, <1>3, <1>4 DEF Users!Resize
-----------------------------------------------------------------------------
(* How many are in the tables *)

\* Only where t is and what is on the list change what is counted.
LEMMA CountChange ==
  ASSUME RegTypeOK, NEW t \in Everyone, NEW x, pc' = [pc EXCEPT ![t] = x]
  PROVE  /\ Cardinality(InCount) \in Nat /\ IsFiniteSet(InCount)
         /\ Cardinality(InCount)' = Cardinality(InCount)
              + (IF t \in Hashed /\ x \in Counted THEN 1 ELSE 0)
              - (IF t \in Hashed /\ pc[t] \in Counted THEN 1 ELSE 0)
<1>1. IsFiniteSet(InCount) /\ Cardinality(InCount) \in Nat
  BY RegistryAssumption, FS_Subset, FS_CardinalityType DEF InCount
<1>2. pc'[t] = x /\ \A u \in Hashed : u # t => pc'[u] = pc[u]
  BY DEF RegTypeOK, Everyone, Users!Users
<1>3. CASE t \in Hashed /\ x \in Counted
  <2>1. InCount' = InCount \cup {t} /\ (t \in InCount <=> pc[t] \in Counted)
    BY <1>2, <1>3 DEF InCount
  <2>2. Cardinality(InCount \cup {t}) = IF t \in InCount THEN Cardinality(InCount) ELSE Cardinality(InCount) + 1
    BY <1>1, FS_AddElement
  <2> QED
    BY <1>1, <1>3, <2>1, <2>2
<1>4. CASE ~ (t \in Hashed /\ x \in Counted)
  <2>1. InCount' = InCount \ {t} /\ (t \in InCount <=> t \in Hashed /\ pc[t] \in Counted)
    BY <1>2, <1>4 DEF InCount
  <2>2. Cardinality(InCount \ {t}) = IF t \in InCount THEN Cardinality(InCount) - 1 ELSE Cardinality(InCount)
    BY <1>1, FS_RemoveElement
  <2> QED
    BY <1>1, <1>4, <2>1, <2>2
<1> QED
  BY <1>1, <1>3, <1>4

\* The implicit ones among the producers can be counted.
LEMMA ImplicitFinite ==
  ASSUME NEW l \in Seq(BOOLEAN)
  PROVE  LET I == {p \in DOMAIN l : ~ l[p]} IN IsFiniteSet(I) /\ Cardinality(I) \in Nat
<1> DEFINE I == {p \in DOMAIN l : ~ l[p]}
<1>1. IsFiniteSet(1 .. Len(l)) /\ I \subseteq 1 .. Len(l)
  BY FS_Interval
<1> QED
  BY <1>1, FS_Subset, FS_CardinalityType

\* What t did to the count, from where and to where.
In(x) == IF x \in Counted THEN 1 ELSE 0
CountedOn(t) ==
  \E x \in Stages, c \in Nat, d \in Nat, n \in Nat, h \in Int :
    /\ pc' = [pc EXCEPT ![t] = x]
    /\ c = Cardinality(Implicit) /\ d = Cardinality(Implicit)' /\ n = hashCount /\ h = hashCount'
    /\ h - d = n - c + (IF t \in Hashed THEN In(x) - In(pc[t]) ELSE 0)

\* A step that says what it adds to either side keeps the counts.
LEMMA CountsKept ==
  ASSUME RegTypeOK, Counts, NEW t \in Everyone, CountedOn(t)
  PROVE  Counts'
<1>1. PICK x \in Stages, c \in Nat, d \in Nat, n \in Nat, h \in Int :
         /\ pc' = [pc EXCEPT ![t] = x]
         /\ c = Cardinality(Implicit) /\ d = Cardinality(Implicit)' /\ n = hashCount /\ h = hashCount'
         /\ h - d = n - c + (IF t \in Hashed THEN In(x) - In(pc[t]) ELSE 0)
  BY DEF CountedOn
<1>2. /\ Cardinality(InCount) \in Nat
      /\ Cardinality(InCount)' = Cardinality(InCount)
           + (IF t \in Hashed /\ x \in Counted THEN 1 ELSE 0)
           - (IF t \in Hashed /\ pc[t] \in Counted THEN 1 ELSE 0)
  BY <1>1, CountChange
<1>3. PICK k \in Nat : k = Cardinality(InCount)
  BY <1>2
<1>4. n = c + k
  BY <1>1, <1>3 DEF Counts
<1>5. h = d + Cardinality(InCount)'
  BY <1>1, <1>2, <1>3, <1>4 DEF In
<1> QED
  BY <1>1, <1>5 DEF Counts

\* The two sides of the counts are numbers.
LEMMA CountIsNat ==
  ASSUME RegTypeOK, Counts
  PROVE  hashCount \in Nat /\ Cardinality(Implicit) \in Nat /\ Cardinality(InCount) \in Nat
<1>1. Cardinality(Implicit) \in Nat
  BY ImplicitFinite DEF Implicit, RegTypeOK
<1>2. Cardinality(InCount) \in Nat
  BY RegistryAssumption, FS_Subset, FS_CardinalityType DEF InCount
<1> QED
  BY <1>1, <1>2 DEF Counts

\* A push counts one more producer without a token.
LEMMA OneMore ==
  ASSUME NEW l \in Seq(BOOLEAN)
  PROVE  /\ Cardinality({p \in DOMAIN Append(l, TRUE) : ~ Append(l, TRUE)[p]})
              = Cardinality({p \in DOMAIN l : ~ l[p]})
         /\ Cardinality({p \in DOMAIN Append(l, FALSE) : ~ Append(l, FALSE)[p]})
              = Cardinality({p \in DOMAIN l : ~ l[p]}) + 1
<1> DEFINE I == {p \in DOMAIN l : ~ l[p]}
           n == Len(l) + 1
<1>1. /\ DOMAIN l = 1 .. Len(l) /\ Len(l) \in Nat
      /\ \A b \in BOOLEAN : /\ DOMAIN Append(l, b) = 1 .. Len(l) + 1 /\ Append(l, b)[n] = b
                           /\ \A p \in DOMAIN l : Append(l, b)[p] = l[p]
  OBVIOUS
<1>2. IsFiniteSet(I) /\ Cardinality(I) \in Nat
  BY ImplicitFinite
<1>3. n \notin I
  BY <1>1
<1>4. /\ {p \in DOMAIN Append(l, TRUE) : ~ Append(l, TRUE)[p]} = I
      /\ {p \in DOMAIN Append(l, FALSE) : ~ Append(l, FALSE)[p]} = I \cup {n}
  BY <1>1
<1>5. Cardinality(I \cup {n}) = Cardinality(I) + 1
  BY <1>2, <1>3, FS_AddElement
<1> QED
  BY <1>2, <1>4, <1>5

\* Each step of a thread keeps the counts.
LEMMA CountsStep ==
  ASSUME RInv, Counts, NEW t \in Everyone,
         Users!Start(t) \/ Users!Working(t) \/ Users!DropToken(t) \/ (t \in Hashed /\ (Users!Again(t) \/ Users!Exit(t)))
  PROVE  Counts'
<1>0. pc[t] \in Stages /\ (t \in Hashed <=> t \notin Tokens) /\ Lawful(t, pc[t], kept[t], mine[t])
      /\ pc = [pc EXCEPT ![t] = pc[t]]
  BY Knows
<1>1. hashCount \in Nat /\ Cardinality(Implicit) \in Nat
  BY CountIsNat DEF RInv
<1>2. t \in Tokens => pc[t] \in {"new", "visit", "catch", "create", "push", "use"}
  BY <1>0 DEF Lawful, TokenPhase
<1> USE DEF Stages, Calling, Settling, Counted, Admitted
<1>c. PICK c \in Nat, n \in Nat : c = Cardinality(Implicit) /\ n = hashCount
  BY <1>1
<1>d. ASSUME NEW x \in Stages, pc' = [pc EXCEPT ![t] = x],
             NEW d \in Nat, NEW h \in Int, d = Cardinality(Implicit)', h = hashCount',
             h - d = n - c + (IF t \in Hashed THEN In(x) - In(pc[t]) ELSE 0)
      PROVE  CountedOn(t)
  BY <1>c, <1>d DEF CountedOn
<1>3. ASSUME UNCHANGED <<hashCount, list>>, NEW x \in Stages, pc' = [pc EXCEPT ![t] = x],
             t \in Hashed => (x \in Counted <=> pc[t] \in Counted)
      PROVE  CountedOn(t)
  <2>1. Cardinality(Implicit)' = c /\ hashCount' = n
    BY <1>3, <1>c DEF Implicit
  <2>2. n - c = n - c + (IF t \in Hashed THEN In(x) - In(pc[t]) ELSE 0)
    BY <1>3 DEF In
  <2>3. PICK d \in Nat, h \in Int : d = Cardinality(Implicit)' /\ h = hashCount' /\ d = c /\ h = n
    BY <2>1
  <2> QED
    BY <1>3, <1>d, <2>2, <2>3
<1>4. ASSUME Users!Start(t) \/ Users!Visit(t) \/ Users!Catch(t) \/ Users!Create(t) \/ Users!CreateFails(t)
      PROVE  CountedOn(t)
  <2>1. UNCHANGED <<hashCount, list>>
    BY <1>4 DEF Users!Start, Users!Visit, Users!Catch, Users!Create, Users!CreateFails, Users!hashes, Users!register
  <2>2. \/ pc[t] = "new" /\ pc' = [pc EXCEPT ![t] = IF t \in Tokens THEN "visit" ELSE "lookup"]
        \/ pc[t] = "visit" /\ (pc' = pc \/ pc' = [pc EXCEPT ![t] = "create"] \/ pc' = [pc EXCEPT ![t] = "catch"])
        \/ pc[t] = "catch" /\ pc' = [pc EXCEPT ![t] = IF t \in Tokens THEN "use" ELSE "uncount"]
        \/ pc[t] = "catch" /\ pc' = [pc EXCEPT ![t] = "visit"]
        \/ pc[t] = "create" /\ pc' = [pc EXCEPT ![t] = "push"]
        \/ pc[t] = "create" /\ pc' = [pc EXCEPT ![t] = IF t \in Tokens THEN "use" ELSE "uncreate"]
    BY <1>4 DEF Users!Start, Users!Visit, Users!Catch, Users!Create, Users!CreateFails, Users!Go, Users!Jump
  <2> QED
    BY <1>0, <1>3, <2>1, <2>2
<1>5. ASSUME Users!Lookup(t) \/ Users!Grow(t) \/ Users!Resize(t) \/ Users!Clear(t) \/ Users!Lower(t) \/ Users!Room(t)
      PROVE  CountedOn(t)
  <2>1. UNCHANGED <<hashCount, list>>
    BY <1>5, SMTT(40) DEF Users!Lookup, Users!Grow, Users!Resize, Users!Clear, Users!Lower, Users!Room, Users!hashes, Users!register
  <2>2. \/ pc[t] = "lookup" /\ (pc' = pc \/ \E x \in {"count", "readd", "ready"} : pc' = [pc EXCEPT ![t] = x])
        \/ pc[t] = "lower" /\ pc' = [pc EXCEPT ![t] = "ready"]
        \/ /\ pc[t] \in {"grow", "resize", "clear", "room"}
           /\ \E x \in {"room", "resize", "clear", "fail", "visit", "grow"} : pc' = [pc EXCEPT ![t] = x]
    BY <1>5 DEF Users!Lookup, Users!Grow, Users!Resize, Users!Clear, Users!Lower, Users!Room, Users!Go, Users!Jump, Users!Give
  <2> QED
    BY <1>0, <1>3, <2>1, <2>2, SMTT(40)
<1>6. ASSUME \/ Users!ReAdd(t) \/ Users!Insert(t) \/ Users!Bury(t) \/ Users!Leave(t) \/ Users!DropToken(t)
             \/ Users!Again(t) \/ Users!Exit(t)
      PROVE  CountedOn(t)
  <2>1. UNCHANGED <<hashCount, list>>
    BY <1>6, SMTT(40) DEF Users!ReAdd, Users!Insert, Users!Bury, Users!Leave, Users!DropToken, Users!Again, Users!Exit,
       Users!hashes, Users!register
  <2>2. /\ pc[t] \in {"readd", "insert", "bury", "leave", "use", "ready"}
        /\ pc' = pc \/ \E x \in {"ready", "leave", "new", "lookup", "bury"} : pc' = [pc EXCEPT ![t] = x]
    BY <1>6 DEF Users!ReAdd, Users!Insert, Users!Bury, Users!Leave, Users!DropToken, Users!Again, Users!Exit,
       Users!Go, Users!Jump, Users!Give
  <2> QED
    BY <1>0, <1>3, <2>1, <2>2, SMTT(40)
<1>7. ASSUME Users!Count(t) \/ Users!Fail(t) \/ Users!Uncount(t)
      PROVE  CountedOn(t)
  <2>1. list' = list
    BY <1>7 DEF Users!Count, Users!Fail, Users!Uncount, Users!register
  <2>2. Implicit' = Implicit
    BY <2>1 DEF Implicit
  <2>3. \/ pc[t] = "count" /\ pc' = [pc EXCEPT ![t] = "grow"] /\ hashCount' = hashCount + 1
        \/ pc[t] = "fail" /\ pc' = [pc EXCEPT ![t] = "lower"] /\ hashCount' = hashCount - 1
        \/ pc[t] = "uncount" /\ pc' = [pc EXCEPT ![t] = "insert"] /\ hashCount' = hashCount - 1
        \/ pc[t] = "uncreate" /\ pc' = [pc EXCEPT ![t] = "ready"] /\ hashCount' = hashCount - 1
    BY <1>7 DEF Users!Count, Users!Fail, Users!Uncount, Users!Go
  <2>4. t \in Hashed
    BY <1>0, <1>2, <2>3
  <2>5. PICK x \in Stages, h \in Int :
          /\ pc' = [pc EXCEPT ![t] = x] /\ hashCount' = h
          /\ h = n + (IF x \in Counted THEN 1 ELSE 0) - (IF pc[t] \in Counted THEN 1 ELSE 0)
    BY <1>c, <2>3
  <2>6. h - c = n - c + (IF t \in Hashed THEN In(x) - In(pc[t]) ELSE 0)
    BY <2>4, <2>5 DEF In
  <2> QED
    BY <1>c, <1>d, <2>2, <2>5, <2>6
<1>8. ASSUME Users!Push(t)
      PROVE  CountedOn(t)
  <2>1. pc[t] = "push" /\ hashCount' = n /\ list' = Append(list, t \in Tokens)
        /\ pc' = [pc EXCEPT ![t] = IF t \in Tokens THEN "use" ELSE "insert"]
    BY <1>8, <1>c DEF Users!Push, Users!Go, Users!hashes
  <2>2. PICK l \in Seq(BOOLEAN) : l = list
    BY DEF RInv, RegTypeOK
  <2>3. CASE t \in Tokens
    <3>1. list' = Append(l, TRUE)
      <4>1. TRUE = (t \in Tokens)
        BY <2>3
      <4> QED
        BY <2>1, <2>2, <4>1
    <3>2. Cardinality(Implicit)' = c
      BY <1>c, <2>2, <3>1, OneMore DEF Implicit
    <3>3. "use" \in Stages /\ t \notin Hashed /\ pc' = [pc EXCEPT ![t] = "use"]
      BY <1>0, <2>1, <2>3
    <3>4. PICK d \in Nat, h \in Int : d = Cardinality(Implicit)' /\ h = hashCount' /\ d = c /\ h = n
      BY <2>1, <3>2
    <3>5. h - d = n - c + (IF t \in Hashed THEN In("use") - In(pc[t]) ELSE 0)
      BY <3>3, <3>4
    <3> QED
      BY <1>d, <3>3, <3>4, <3>5
  <2>4. CASE t \notin Tokens
    <3>1. list' = Append(l, FALSE)
      <4>1. FALSE = (t \in Tokens)
        BY <2>4
      <4> QED
        BY <2>1, <2>2, <4>1
    <3>2. Cardinality(Implicit)' = c + 1
      BY <1>c, <2>2, <3>1, OneMore DEF Implicit
    <3>3. "insert" \in Stages /\ t \in Hashed /\ pc' = [pc EXCEPT ![t] = "insert"]
          /\ n - (c + 1) = n - c + (In("insert") - In(pc[t]))
      BY <1>0, <2>1, <2>4 DEF In
    <3>4. pc' = [pc EXCEPT ![t] = "insert"]
      BY <2>1, <2>4
    <3>5. PICK d \in Nat, h \in Int : d = Cardinality(Implicit)' /\ h = hashCount' /\ d = c + 1 /\ h = n
      BY <2>1, <3>2
    <3>6. h - d = n - c + (IF t \in Hashed THEN In("insert") - In(pc[t]) ELSE 0)
      BY <3>3, <3>5
    <3> QED
      BY <1>d, <3>3, <3>4, <3>5, <3>6
  <2> QED
    BY <2>3, <2>4
<1>9. CountedOn(t)
  BY <1>4, <1>5, <1>6, <1>7, <1>8 DEF Users!Working
<1> QED
  BY <1>9, CountsKept DEF RInv

-----------------------------------------------------------------------------
(* Numbers *)

\* A set of threads can be counted.
LEMMA NumberedFinite ==
  ASSUME NEW T \in SUBSET Hashed
  PROVE  IsFiniteSet(T) /\ Cardinality(T) \in Nat
  BY RegistryAssumption, FS_Subset, FS_CardinalityType

\* Nobody gets a number, nor goes past the question, nor into a table that
\* the number does not allow.
LEMMA RankStep ==
  ASSUME RInv, RegTypeOK', NEW t \in Everyone, NEW r \in [Hashed -> Nat], Ranks(r),
         \A u \in Hashed \ {t} : pc'[u] = pc[u] /\ kept'[u] = kept[u],
         \A i \in DOMAIN tables : i \in DOMAIN tables' /\ Users!Cap(i)' = Users!Cap(i),
         \A u \in Hashed, i \in DOMAIN tables' : InTable(u, i)' =>
           i \in DOMAIN tables /\ (InTable(u, i) \/ (u = t /\ t \in Numbered /\ r[t] < Limit(i))),
         t \in Hashed /\ pc'[t] \in Counted \cup {"insert"} =>
           pc[t] \in Counted \cup {"insert"} /\ kept'[t].n = kept[t].n,
         t \in Hashed /\ pc'[t] \in Admitted =>
           kept'[t].main \in DOMAIN tables /\ kept'[t].n < Limit(kept'[t].main)
  PROVE  Ranks(r)'
<1>1. \A i \in DOMAIN tables : Limit(i)' = Limit(i)
  BY DEF Limit
<1>2. \A u \in Hashed : pc'[u] \in Counted \cup {"insert"} => r[u] = kept'[u].n
  BY DEF Ranks
<1>3. ASSUME NEW u \in Hashed, pc'[u] \in Admitted
      PROVE  (kept[u].n < Limit(kept[u].main))'
  <2>1. \E i \in DOMAIN tables : i = kept'[u].main /\ kept'[u].n < Limit(i)
    <3>1. CASE u = t
      BY <1>3, <3>1
    <3>2. CASE u # t
      <4>1. u \in Everyone
        BY DEF Everyone, Users!Users
      <4>2. kept[u].main \in DOMAIN tables
        BY <1>3, <3>2, <4>1, Knows DEF Lawful, Phase, Calling, Settling, Counted, Admitted
      <4>3. kept[u].n < Limit(kept[u].main)
        BY <1>3, <3>2 DEF Ranks
      <4> QED
        BY <3>2, <4>2, <4>3
    <3> QED
      BY <3>1, <3>2
  <2>2. PICK i \in DOMAIN tables : i = kept'[u].main /\ kept'[u].n < Limit(i)
    BY <2>1
  <2>3. kept'[u].n < Limit(i)'
    BY <1>1, <2>2
  <2> QED
    BY <2>2, <2>3 DEF Limit
<1>4. ASSUME NEW u \in Hashed, NEW i \in DOMAIN tables', InTable(u, i)'
      PROVE  r[u] < Limit(i)'
  BY <1>1, <1>4 DEF Ranks
<1>5. Numbered' \subseteq Numbered
  <2> SUFFICES ASSUME NEW u \in Hashed, pc'[u] \in Counted \cup {"insert"} \/ ~ Absent(u)'
               PROVE  u \in Numbered
    BY DEF Numbered
  <2>1. CASE pc'[u] \in Counted \cup {"insert"}
    BY <2>1 DEF Numbered
  <2>2. CASE ~ Absent(u)'
    BY <2>2 DEF Numbered, Absent
  <2> QED
    BY <2>1, <2>2
<1>6. ASSUME NEW m \in Nat
      PROVE  Cardinality({u \in Numbered' : r[u] <= m}) <= m
  <2>1. {u \in Numbered' : r[u] <= m} \subseteq {u \in Numbered : r[u] <= m}
    BY <1>5
  <2>2. {u \in Numbered : r[u] <= m} \in SUBSET Hashed
    BY DEF Numbered
  <2>3. /\ Cardinality({u \in Numbered' : r[u] <= m}) \in Nat
        /\ Cardinality({u \in Numbered : r[u] <= m}) \in Nat
        /\ Cardinality({u \in Numbered' : r[u] <= m}) <= Cardinality({u \in Numbered : r[u] <= m})
    BY <2>1, <2>2, NumberedFinite, FS_Subset, FS_CardinalityType
  <2>4. Cardinality({u \in Numbered : r[u] <= m}) <= m
    BY DEF Ranks
  <2> QED
    BY <2>3, <2>4
<1> QED
  BY <1>2, <1>3, <1>4, <1>6 DEF Ranks

\* No more have a number than have been counted: one that has a producer has
\* one that nobody else has.
LEMMA NumberedCounted ==
  ASSUME RInv, Counts
  PROVE  /\ IsFiniteSet(Numbered) /\ Cardinality(Numbered) \in Nat
         /\ Cardinality(Numbered) <= hashCount
<1> DEFINE Owners == {t \in Hashed : pc[t] = "insert" \/ ~ Absent(t)}
           f == [t \in Owners |-> CHOOSE p \in Nat : Belongs(t, p)]
<1>1. \A t \in Hashed : t \in Everyone /\ t \notin Tokens
  BY RegistryAssumption DEF Everyone, Users!Users
<1>2. ASSUME NEW t \in Owners
      PROVE  \E p \in Nat : Belongs(t, p)
  <2>1. CASE pc[t] = "insert"
    BY <1>1, <2>1, Knows DEF Belongs, Owns
  <2>2. CASE ~ Absent(t)
    <3>0. PICK i \in DOMAIN tables : InTable(t, i)
      BY <2>2 DEF Absent
    <3>1. PICK k \in DOMAIN tables[i] : tables[i][k].key = t
      BY <3>0 DEF InTable
    <3>2. tables[i][k] \in Entry
      BY <3>1, TableShape DEF RInv
    <3>3. tables[i][k].value \in Nat
      BY <3>2 DEF Entry
    <3> QED
      BY <3>1, <3>3 DEF Belongs, Owns, Filed
  <2> QED
    BY <2>1, <2>2
<1>3. \A t \in Owners : f[t] \in Nat /\ Belongs(t, f[t])
  BY <1>2
<1> HIDE DEF f
<1>4. ASSUME NEW t \in Owners PROVE f[t] \in Implicit
  <2>1. f[t] \in DOMAIN list /\ list[f[t]] = (t \in Tokens)
    BY <1>1, <1>3 DEF RInv, Apart
  <2> QED
    BY <1>1, <2>1 DEF Implicit
<1>5. \A t, u \in Owners : f[t] = f[u] => t = u
  BY <1>1, <1>3 DEF RInv, Apart
<1>6. f \in Injection(Owners, Implicit)
  BY <1>4, <1>5, Zenon DEF Injection, IsInjective, f
<1>7. IsFiniteSet(Implicit) /\ Cardinality(Implicit) \in Nat
  BY ImplicitFinite DEF Implicit, RInv, RegTypeOK
<1>8. IsFiniteSet(Owners) /\ Cardinality(Owners) \in Nat /\ Cardinality(Owners) <= Cardinality(Implicit)
  BY <1>6, <1>7, FS_Injection, FS_CardinalityType
<1>9. Numbered = InCount \cup Owners /\ InCount \in SUBSET Hashed /\ Owners \in SUBSET Hashed
  BY DEF Numbered, InCount
<1> HIDE DEF Owners
<1>10. IsFiniteSet(InCount) /\ Cardinality(InCount) \in Nat
  BY <1>9, NumberedFinite
<1>11. IsFiniteSet(InCount \cap Owners) /\ Cardinality(InCount \cap Owners) \in Nat
  BY <1>10, FS_Subset, FS_CardinalityType
<1>12. /\ IsFiniteSet(InCount \cup Owners)
       /\ Cardinality(InCount \cup Owners)
            = Cardinality(InCount) + Cardinality(Owners) - Cardinality(InCount \cap Owners)
  BY <1>8, <1>10, FS_Union
<1> QED
  BY <1>7, <1>8, <1>9, <1>10, <1>11, <1>12, FS_CardinalityType DEF Counts

\* The next number is given out.
LEMMA RankCount ==
  ASSUME RInv, RInv', Counts, NEW t \in Everyone, NEW r \in [Hashed -> Nat], Ranks(r), Users!Count(t)
  PROVE  Ranked'
<1>1. t \in Hashed /\ pc[t] = "count" /\ pc' = [pc EXCEPT ![t] = "grow"] /\ tables' = tables
  BY Knows DEF Users!Count, Users!Go, Lawful, TokenPhase
<1>2. PICK n \in Nat : n = hashCount
  BY CountIsNat DEF RInv
<1>3. \E e \in Locals : kept' = [kept EXCEPT ![t] = e] /\ e.n = n + 1
  BY <1>2, SetOne DEF Users!Count, RInv
<1>4. /\ \A u \in Hashed \ {t} : pc'[u] = pc[u] /\ kept'[u] = kept[u]
      /\ pc'[t] = "grow" /\ kept'[t].n = n + 1
  BY <1>1, <1>3 DEF RInv, RegTypeOK, Everyone, Users!Users
<1>5. Absent(t)
  BY <1>1, Knows DEF Lawful, Phase, Settling
<1>6. t \notin Numbered
  BY <1>1, <1>5 DEF Numbered, Counted, Admitted
<1> DEFINE s == [r EXCEPT ![t] = n + 1]
<1>7. s \in [Hashed -> Nat] /\ s[t] = n + 1 /\ \A u \in Hashed \ {t} : s[u] = r[u]
  BY <1>1
<1> HIDE DEF s
<1>8. \A u \in Hashed : pc'[u] \in Counted \cup {"insert"} => s[u] = kept'[u].n
  BY <1>4, <1>7 DEF Ranks
<1>9. \A u \in Hashed : pc'[u] \in Admitted => u # t /\ pc[u] \in Admitted
  BY <1>4 DEF Admitted
<1>10. \A u \in Hashed : (pc[u] \in Admitted => kept[u].n < Limit(kept[u].main))'
  BY <1>1, <1>4, <1>9 DEF Ranks, Limit, Users!Cap
<1>11. \A u \in Hashed, i \in DOMAIN tables' : (InTable(u, i) => s[u] < Limit(i))'
  BY <1>1, <1>5, <1>7 DEF Ranks, Limit, Users!Cap, InTable, Absent
<1>12. Numbered' = Numbered \cup {t}
  <2>1. \A u \in Hashed : Absent(u)' <=> Absent(u)
    BY <1>1 DEF Absent, InTable
  <2> QED
    BY <1>1, <1>4, <2>1 DEF Numbered, Counted, Admitted
<1>13. IsFiniteSet(Numbered) /\ Cardinality(Numbered) \in Nat /\ Cardinality(Numbered) <= n
  BY <1>2, NumberedCounted
<1>14. ASSUME NEW m \in Nat
       PROVE  Cardinality({u \in Numbered' : s[u] <= m}) <= m
  <2>0. Numbered \in SUBSET Hashed
    BY DEF Numbered
  <2>1. CASE m > n
    <3>1. Cardinality(Numbered \cup {t}) = Cardinality(Numbered) + 1 /\ IsFiniteSet(Numbered \cup {t})
      BY <1>6, <1>13, FS_AddElement
    <3>2. {u \in Numbered' : s[u] <= m} \subseteq Numbered \cup {t}
      BY <1>12
    <3>3. Cardinality({u \in Numbered' : s[u] <= m}) <= Cardinality(Numbered) + 1
          /\ Cardinality({u \in Numbered' : s[u] <= m}) \in Nat
      BY <3>1, <3>2, FS_Subset, FS_CardinalityType
    <3> QED
      BY <1>2, <1>13, <2>1, <3>3
  <2>2. CASE ~ (m > n)
    <3>1. {u \in Numbered' : s[u] <= m} = {u \in Numbered : r[u] <= m}
      BY <1>2, <1>6, <1>7, <1>12, <2>0, <2>2
    <3> QED
      BY <3>1 DEF Ranks
  <2> QED
    BY <2>1, <2>2
<1>15. Ranks(s)'
  BY <1>8, <1>10, <1>11, <1>14 DEF Ranks
<1> QED
  BY <1>7, <1>15 DEF Ranked

\* Each step of a thread keeps the ranks.
LEMMA RankedStep ==
  ASSUME RInv, RInv', Counts, Ranked, NEW t \in Everyone,
         Users!Start(t) \/ Users!Working(t) \/ Users!DropToken(t) \/ (t \in Hashed /\ (Users!Again(t) \/ Users!Exit(t)))
  PROVE  Ranked'
<1>0. /\ pc[t] \in Stages /\ kept[t] \in Locals /\ (t \in Hashed <=> t \notin Tokens)
      /\ Lawful(t, pc[t], kept[t], mine[t])
      /\ kept = [kept EXCEPT ![t] = kept[t]] /\ pc = [pc EXCEPT ![t] = pc[t]]
      /\ RegTypeOK /\ RegTypeOK'
  BY Knows DEF RInv
<1>1. PICK r \in [Hashed -> Nat] : Ranks(r)
  BY DEF Ranked
<1>2. t \in Tokens => pc[t] \in {"new", "visit", "catch", "create", "push", "use"}
  BY <1>0 DEF Lawful, TokenPhase
<1>3. pc[t] \in Admitted /\ t \in Hashed => kept[t].main \in DOMAIN tables /\ kept[t].n < Limit(kept[t].main)
  BY <1>0, <1>1 DEF Ranks, Lawful, Phase, Calling, Settling, Counted, Admitted
\* What others know is as before; enough is what t knows, when the tables are too.
<1>4. ASSUME tables' = tables, \A u \in Hashed \ {t} : pc'[u] = pc[u] /\ kept'[u] = kept[u],
             t \in Hashed /\ pc'[t] \in Counted \cup {"insert"} =>
               pc[t] \in Counted \cup {"insert"} /\ kept'[t].n = kept[t].n,
             t \in Hashed /\ pc'[t] \in Admitted =>
               kept'[t].main \in DOMAIN tables /\ kept'[t].n < Limit(kept'[t].main)
      PROVE  Ranked'
  <2>1. \A i \in DOMAIN tables : i \in DOMAIN tables' /\ Users!Cap(i)' = Users!Cap(i)
    BY <1>4 DEF Users!Cap
  <2>2. \A u \in Hashed, i \in DOMAIN tables' : InTable(u, i)' => i \in DOMAIN tables /\ InTable(u, i)
    BY <1>4 DEF InTable
  <2>3. Ranks(r)'
    BY <1>0, <1>1, <1>4, <2>1, <2>2, RankStep
  <2> QED
    BY <2>3 DEF Ranked
<1>5. /\ \A x : pc' = [pc EXCEPT ![t] = x] => pc'[t] = x /\ \A u \in Hashed \ {t} : pc'[u] = pc[u]
      /\ \A e : kept' = [kept EXCEPT ![t] = e] => kept'[t] = e /\ \A u \in Hashed \ {t} : kept'[u] = kept[u]
  BY <1>0 DEF RegTypeOK, Everyone, Users!Users
<1>6. ASSUME \/ Users!Start(t) \/ Users!Lookup(t) \/ Users!Again(t) \/ Users!Exit(t) \/ Users!Leave(t)
             \/ Users!DropToken(t) \/ Users!Lower(t) \/ Users!Fail(t)
      PROVE  Ranked'
  <2>1. tables' = tables
    BY <1>6, SMTT(40) DEF Users!Start, Users!Lookup, Users!Again, Users!Exit, Users!Leave, Users!DropToken, Users!Lower,
       Users!Fail, Users!hashes
  <2>2. \E e : kept' = [kept EXCEPT ![t] = e]
    BY <1>0, <1>6 DEF Users!Start, Users!Lookup, Users!Again, Users!Exit, Users!Leave, Users!DropToken, Users!Lower,
       Users!Fail, Users!Give, Users!Forget, Users!Set
  <2>3. \/ t \in Tokens /\ pc' = [pc EXCEPT ![t] = "visit"]
        \/ \E x \in {"lookup", "count", "readd", "ready", "bury", "new", "lower"} : pc' = [pc EXCEPT ![t] = x]
    <3>1. Users!Start(t) => \/ t \in Tokens /\ pc' = [pc EXCEPT ![t] = "visit"]
                            \/ pc' = [pc EXCEPT ![t] = "lookup"]
      BY DEF Users!Start, Users!Go
    <3>2. Users!Lookup(t) => \/ pc' = pc /\ pc[t] = "lookup"
                             \/ \E x \in {"count", "readd", "ready"} : pc' = [pc EXCEPT ![t] = x]
      BY DEF Users!Lookup, Users!Jump, Users!Give
    <3>3. Users!Again(t) \/ Users!Exit(t) \/ Users!Leave(t) \/ Users!DropToken(t) \/ Users!Lower(t) \/ Users!Fail(t)
          => \E x \in {"lookup", "bury", "new", "ready", "lower"} : pc' = [pc EXCEPT ![t] = x]
      BY DEF Users!Again, Users!Exit, Users!Leave, Users!DropToken, Users!Lower, Users!Fail, Users!Go
    <3> QED
      BY <1>0, <1>6, <3>1, <3>2, <3>3
  <2>4. t \in Hashed => \E x \in {"lookup", "count", "readd", "ready", "bury", "new", "lower"} : pc'[t] = x
    BY <1>0, <1>5, <2>3
  <2>5. t \in Hashed => pc'[t] \notin Counted \cup {"insert"} /\ pc'[t] \notin Admitted
    BY <2>4 DEF Counted, Admitted
  <2>6. \A u \in Hashed \ {t} : pc'[u] = pc[u] /\ kept'[u] = kept[u]
    BY <1>5, <2>2, <2>3
  <2> QED
    BY <1>4, <2>1, <2>5, <2>6
<1>7. ASSUME tables' = tables, t \in Hashed => pc[t] \in Admitted,
             \E x \in Stages : pc' = [pc EXCEPT ![t] = x],
             \/ pc'[t] = "ready" /\ Users!Forget(t)
             \/ kept' = kept
             \/ \E v \in Nat : Users!Set(t, "p", v)
      PROVE  Ranked'
  <2>1. \A u \in Hashed \ {t} : pc'[u] = pc[u] /\ kept'[u] = kept[u]
    BY <1>0, <1>5, <1>7 DEF Users!Forget, Users!Set
  <2>2. CASE pc'[t] = "ready"
    BY <1>4, <1>7, <2>1, <2>2 DEF Counted, Admitted
  <2>3. CASE pc'[t] # "ready"
    <3>1. kept'[t].n = kept[t].n /\ kept'[t].main = kept[t].main
      BY <1>0, <1>5, <1>7, <2>3, SetOne
    <3>2. t \in Hashed => pc[t] \in Counted \cup {"insert"}
      BY <1>7 DEF Counted
    <3> QED
      BY <1>3, <1>4, <1>7, <2>1, <3>1, <3>2
  <2> QED
    BY <2>2, <2>3
<1>8. ASSUME \/ Users!Visit(t) \/ Users!Catch(t) \/ Users!Create(t) \/ Users!CreateFails(t) \/ Users!Push(t)
             \/ Users!Uncount(t)
      PROVE  Ranked'
  <2>1. tables' = tables
    BY <1>8 DEF Users!Visit, Users!Catch, Users!Create, Users!CreateFails, Users!Push, Users!Uncount, Users!hashes
  <2>2. pc[t] \in {"visit", "catch", "create", "push", "uncount", "uncreate"}
        /\ \E x \in {"create", "catch", "visit", "use", "uncount", "push", "uncreate", "insert", "ready"} :
             pc' = [pc EXCEPT ![t] = x]
    <3>1. Users!Visit(t) => pc[t] = "visit" /\ (pc' = pc \/ \E x \in {"create", "catch"} : pc' = [pc EXCEPT ![t] = x])
      BY DEF Users!Visit, Users!Jump
    <3>2. Users!Catch(t) => pc[t] = "catch" /\ \E x \in {"use", "uncount", "visit"} : pc' = [pc EXCEPT ![t] = x]
      BY DEF Users!Catch, Users!Jump
    <3>3. Users!Create(t) \/ Users!CreateFails(t) =>
            pc[t] = "create" /\ \E x \in {"push", "use", "uncreate"} : pc' = [pc EXCEPT ![t] = x]
      BY DEF Users!Create, Users!CreateFails, Users!Go
    <3>4. Users!Push(t) => pc[t] = "push" /\ \E x \in {"use", "insert"} : pc' = [pc EXCEPT ![t] = x]
      BY DEF Users!Push, Users!Go
    <3>5. Users!Uncount(t) => pc[t] \in {"uncount", "uncreate"} /\ \E x \in {"insert", "ready"} : pc' = [pc EXCEPT ![t] = x]
      BY DEF Users!Uncount, Users!Go
    <3> QED
      BY <1>0, <1>8, <3>1, <3>2, <3>3, <3>4, <3>5
  <2>3. pc[t] \in Admitted /\ \E x \in Stages : pc' = [pc EXCEPT ![t] = x]
    BY <2>2 DEF Stages, Calling, Settling, Counted, Admitted
  <2>4. \/ pc'[t] = "ready" /\ Users!Forget(t)
        \/ kept' = kept
        \/ \E v \in Nat : Users!Set(t, "p", v)
    <3>1. Users!Visit(t) => kept' = kept \/ (kept[t].p - 1 \in Nat /\ Users!Set(t, "p", kept[t].p - 1))
      BY Knows DEF Users!Visit
    <3>2. Users!Catch(t) => kept' = kept \/ (kept[t].p - 1 \in Nat /\ Users!Set(t, "p", kept[t].p - 1))
      <4>1. pc[t] = "catch" => kept[t].p \in DOMAIN list
        BY <1>0 DEF Lawful, OnTheList
      <4>2. pc[t] = "catch" => kept[t].p - 1 \in Nat
        BY <1>0, <4>1, Lengths
      <4> QED
        BY <4>2 DEF Users!Catch
    <3>3. Users!Create(t) \/ Users!CreateFails(t) => kept' = kept
      BY DEF Users!Create, Users!CreateFails
    <3>4. Users!Push(t) => Len(list) + 1 \in Nat /\ Users!Set(t, "p", Len(list) + 1)
      BY <1>0, Lengths DEF Users!Push
    <3>5. Users!Uncount(t) => kept' = kept \/ (pc' = [pc EXCEPT ![t] = "ready"] /\ Users!Forget(t))
      BY DEF Users!Uncount, Users!Go
    <3> QED
      BY <1>5, <1>8, <3>1, <3>2, <3>3, <3>4, <3>5
  <2> QED
    BY <1>7, <2>1, <2>3, <2>4
<1>9. ASSUME Users!Grow(t) \/ Users!Clear(t) PROVE Ranked'
  <2>1. /\ tables' = tables /\ kept' = kept /\ pc[t] \in {"grow", "clear"}
        /\ \E x \in {"resize", "room"} : pc' = [pc EXCEPT ![t] = x]
    BY <1>9 DEF Users!Grow, Users!Clear, Users!Go, Users!Jump
  <2>2. pc'[t] \in {"resize", "room"} /\ \A u \in Hashed \ {t} : pc'[u] = pc[u]
    BY <1>5, <2>1
  <2> QED
    BY <1>4, <2>1, <2>2 DEF Counted, Admitted
<1>10. ASSUME Users!Room(t) PROVE Ranked'
  <2>1. pc[t] = "room" /\ tables' = tables
    BY <1>10 DEF Users!Room, Users!hashes
  <2>2. t \in Hashed /\ kept[t].main \in DOMAIN tables
    BY <1>0, <1>2, <2>1 DEF Lawful, Phase, Calling, Settling, Counted
  <2>3. Len(list) \in Nat /\ Len(tables) \in Nat
    BY <1>0, Lengths
  <2>4. CASE kept[t].n < Limit(kept[t].main)
    <3>1. Users!Set(t, "p", Len(list)) /\ pc' = [pc EXCEPT ![t] = "visit"]
      BY <1>10, <2>4 DEF Users!Room, Users!Jump, Limit
    <3>2. PICK e \in Locals : kept' = [kept EXCEPT ![t] = e] /\ e.main = kept[t].main /\ e.n = kept[t].n
      BY <1>0, <2>3, <3>1, SetOne
    <3> QED
      BY <1>4, <1>5, <2>1, <2>2, <2>4, <3>1, <3>2 DEF Counted, Admitted
  <2>5. CASE ~ (kept[t].n < Limit(kept[t].main))
    <3>1. Users!Set(t, "main", Len(tables)) /\ pc' = [pc EXCEPT ![t] = "grow"]
      BY <1>10, <2>5 DEF Users!Room, Users!Jump, Limit
    <3>2. PICK e \in Locals : kept' = [kept EXCEPT ![t] = e] /\ e.n = kept[t].n
      BY <1>0, <2>3, <3>1, SetOne
    <3> QED
      BY <1>4, <1>5, <2>1, <3>1, <3>2 DEF Counted, Admitted
  <2> QED
    BY <2>4, <2>5
<1>11. ASSUME Users!Resize(t) PROVE Ranked'
  <2>1. pc[t] = "resize" /\ Len(tables) \in Nat /\ Len(tables) + 1 \in Nat
        /\ Len(tables) \in DOMAIN tables /\ DOMAIN tables = 1 .. Len(tables)
    BY <1>0, <1>11, Lengths DEF Users!Resize
  <2>2. \E x \in {"clear", "fail"} : pc' = [pc EXCEPT ![t] = x]
    BY <1>11 DEF Users!Resize, Users!Jump
  <2>3. kept' = kept \/ \E v \in Nat : Users!Set(t, "main", v)
    BY <1>11, <2>1 DEF Users!Resize
  <2>4. (\A u \in Hashed \ {t} : kept'[u] = kept[u]) /\ kept'[t].n = kept[t].n
    BY <1>0, <1>5, <2>3, SetOne
  <2>5. pc'[t] \in {"clear", "fail"} /\ \A u \in Hashed \ {t} : pc'[u] = pc[u]
    BY <1>5, <2>2
  <2>6. pc'[t] \notin Admitted /\ pc[t] \in Counted \cup {"insert"}
    BY <2>1, <2>5 DEF Counted, Admitted
  <2>7. CASE tables' = tables
    BY <1>4, <2>4, <2>5, <2>6, <2>7
  <2>8. ASSUME NEW d \in Users!Larger(kept[t].n, Users!Cap(Len(tables))),
               tables' = Append(tables, Users!NewTable(d))
        PROVE  Ranked'
    <3>1. Users!Cap(Len(tables)) \in Nat \ {0}
      BY <1>0, <2>1, TableShape
    <3>2. d \in Nat \ {0} /\ Users!Cap(Len(tables)) <= d /\ listens' = listens
      BY <1>11, <2>8, <3>1, LargerIs DEF Users!Resize
    <3>3. /\ \A j \in DOMAIN tables : Users!Cap(j)' = Users!Cap(j)
          /\ Len(tables') = Len(tables) + 1
          /\ \A u \in Hashed, j \in DOMAIN tables' : InTable(u, j)' => j \in DOMAIN tables /\ InTable(u, j)
      BY <2>8, <3>2, AppendStep DEF RInv
    <3>4. DOMAIN tables' = 1 .. Len(tables')
      BY <1>0 DEF RegTypeOK
    <3>5. \A j \in DOMAIN tables : j \in DOMAIN tables'
      BY <2>1, <3>3, <3>4
    <3>6. Ranks(r)'
      BY <1>0, <1>1, <2>4, <2>5, <2>6, <3>3, <3>5, RankStep
    <3> QED
      BY <3>6 DEF Ranked
  <2> QED
    BY <1>11, <2>7, <2>8 DEF Users!Resize
<1>12. ASSUME Users!Bury(t) PROVE Ranked'
  <2>1. pc[t] = "bury" /\ t \in Hashed /\ listens' = listens /\ listens
    BY <1>0, <1>2, <1>12 DEF Users!Bury, Lawful, Phase
  <2>2. PICK i \in Nat : i = kept[t].at /\ i <= Len(tables)
    BY <1>0, <2>1, Knows DEF Lawful, Phase
  <2>3. (\E x \in {"bury", "leave"} : pc' = [pc EXCEPT ![t] = x]) /\ \E e : kept' = [kept EXCEPT ![t] = e]
    BY <1>0, <1>12, <2>1 DEF Users!Bury, Users!Jump, Users!Set
  <2>4. pc'[t] \in {"bury", "leave"} /\ \A u \in Hashed \ {t} : pc'[u] = pc[u] /\ kept'[u] = kept[u]
    BY <1>5, <2>3
  <2>5. pc'[t] \notin Counted \cup {"insert"} /\ pc'[t] \notin Admitted
    BY <2>4 DEF Counted, Admitted
  <2>6. CASE i = 0
    BY <1>4, <1>12, <2>2, <2>4, <2>5, <2>6 DEF Users!Bury
  <2>7. CASE i # 0
    <3>1. i \in DOMAIN tables
      BY <1>0, <2>2, <2>7, Lengths, SMTT(40)
    <3>2. PICK k \in Users!Probe(i, t, {t, Users!Empty}) :
            tables' = IF tables[i][Users!Slot(i, t, k)].key = t
                      THEN [tables EXCEPT ![i][Users!Slot(i, t, k)].key = Users!Gone] ELSE tables
      BY <1>12, <2>2, <2>7 DEF Users!Bury
    <3>3. /\ Len(tables') = Len(tables) /\ \A j \in DOMAIN tables : Users!Cap(j)' = Users!Cap(j)
          /\ \A u \in Hashed, j \in DOMAIN tables : InTable(u, j)' <=> InTable(u, j) /\ ~ (u = t /\ j = i)
      BY <2>1, <3>1, <3>2, BuryStep DEF RInv
    <3>4. DOMAIN tables' = DOMAIN tables
      BY <1>0, <3>3 DEF RegTypeOK
    <3>5. Ranks(r)'
      BY <1>0, <1>1, <2>4, <2>5, <3>3, <3>4, RankStep
    <3> QED
      BY <3>5 DEF Ranked
  <2> QED
    BY <2>6, <2>7
<1>13. ASSUME Users!ReAdd(t) \/ Users!Insert(t) PROVE Ranked'
  <2>1. pc[t] \in {"readd", "insert"} /\ t \in Hashed /\ listens' = listens
        /\ pc' = [pc EXCEPT ![t] = "ready"] /\ \E e : kept' = [kept EXCEPT ![t] = e]
    BY <1>0, <1>2, <1>13 DEF Users!ReAdd, Users!Insert, Users!Give, Users!Jump, Users!Forget
  <2>2. PICK i \in Nat, p \in Nat : i = kept[t].main /\ p = kept[t].p
    BY Knows
  <2>3. Phase(t, pc[t], kept[t], mine[t]) /\ i \in DOMAIN tables
    BY <1>0, <2>1, <2>2 DEF Lawful, Phase, Calling, Settling
  <2>4. Users!Cap(i) \in Nat
    BY <1>0, <2>3, TableShape
  <2>5. t \in Numbered /\ ~ InTable(t, i) /\ r[t] < Limit(i)
    <3>1. CASE pc[t] = "insert"
      <4>1. Absent(t)
        BY <2>3, <3>1 DEF Phase, Settling
      <4>2. kept[t].n < Limit(i) /\ r[t] = kept[t].n
        BY <1>1, <2>1, <2>2, <3>1 DEF Ranks, Admitted
      <4> QED
        BY <2>1, <2>3, <3>1, <4>1, <4>2 DEF Numbered, Absent
    <3>2. CASE pc[t] = "readd"
      <4>1. Above(t, i - 1) /\ \E j \in DOMAIN tables : Filed(t, j, p)
        BY <2>2, <2>3, <3>2 DEF Phase
      <4>2. PICK j \in DOMAIN tables : InTable(t, j)
        BY <4>1 DEF Filed, InTable
      <4>3. j \in Nat /\ j < i /\ Users!Cap(j) \in Nat
        BY <1>0, <2>2, <2>3, <4>1, <4>2, Lengths, TableShape, SMTT(30) DEF Above
      <4>4. PICK c \in Nat, d \in Nat : c = Users!Cap(j) /\ d = Users!Cap(i) /\ c <= d
        BY <2>3, <2>4, <4>2, <4>3 DEF RInv, Tabled
      <4>5. Limit(j) <= Limit(i) /\ Limit(j) \in Nat /\ Limit(i) \in Nat
        BY <4>4 DEF Limit
      <4>6. r[t] < Limit(j) /\ r[t] \in Nat
        BY <1>1, <2>1, <4>2 DEF Ranks
      <4>7. t \in Numbered
        BY <2>1, <4>2 DEF Numbered, Absent
      <4>8. ~ InTable(t, i)
        BY <2>2, <2>3, <4>1 DEF Above
      <4> QED
        BY <4>5, <4>6, <4>7, <4>8
    <3> QED
      BY <2>1, <3>1, <3>2
  <2>6. PICK k \in Users!Probe(i, t, Users!Vacant) : Users!Fill(i, t, k, p)
    BY <1>13, <2>2 DEF Users!ReAdd, Users!Insert
  <2>7. /\ Len(tables') = Len(tables) /\ \A j \in DOMAIN tables : Users!Cap(j)' = Users!Cap(j)
        /\ \A u \in Hashed, j \in DOMAIN tables : InTable(u, j)' <=> InTable(u, j) \/ (u = t /\ j = i)
    BY <2>1, <2>2, <2>3, <2>5, <2>6, FillStep DEF RInv
  <2>8. DOMAIN tables' = DOMAIN tables
    BY <1>0, <2>7 DEF RegTypeOK
  <2>9. pc'[t] = "ready" /\ \A u \in Hashed \ {t} : pc'[u] = pc[u] /\ kept'[u] = kept[u]
    BY <1>5, <2>1
  <2>10. pc'[t] \notin Counted \cup {"insert"} /\ pc'[t] \notin Admitted
    BY <2>9 DEF Counted, Admitted
  <2>11. \A u \in Hashed, j \in DOMAIN tables' : InTable(u, j)' =>
           j \in DOMAIN tables /\ (InTable(u, j) \/ (u = t /\ t \in Numbered /\ r[t] < Limit(j)))
    BY <2>5, <2>7, <2>8
  <2>12. Ranks(r)'
    BY <1>0, <1>1, <2>7, <2>8, <2>9, <2>10, <2>11, RankStep
  <2> QED
    BY <2>12 DEF Ranked
<1>14. ASSUME Users!Count(t) PROVE Ranked'
  BY <1>1, <1>14, RankCount
<1> QED
  BY <1>6, <1>8, <1>9, <1>10, <1>11, <1>12, <1>13, <1>14 DEF Users!Working

\* Each step of a thread keeps what the threads have apart, and where they find it.
LEMMA RInvStep ==
  ASSUME RInv, Counts, NEW t \in Everyone,
         Users!Start(t) \/ Users!Working(t) \/ Users!DropToken(t) \/ (t \in Hashed /\ (Users!Again(t) \/ Users!Exit(t)))
  PROVE  RInv'
<1>1. hashCount \in Nat
  BY CountIsNat DEF RInv
<1> QED
  BY <1>1, StartStep, AgainStep, ExitStep, VisitStep, CatchStep, GoOnStep, PushStep, LookupStep, FilledStep, CountStep,
     ResizeStep, BuriedStep, LeaveStep DEF Users!Working

-----------------------------------------------------------------------------
RegInv == RInv /\ Counts /\ Ranked

\* What the invariant is for: a producer is in the hands of one, ...
LEMMA HeldByOne == ASSUME RegInv PROVE OneUser
<1>1. ASSUME NEW t \in Everyone, NEW p \in Users!Holds(t)
      PROVE  p \in Nat /\ Belongs(t, p)
  <2>1. CASE mine[t] # 0
    BY <1>1, <2>1, Knows DEF RegInv, Users!Holds, Belongs, Owns
  <2>2. CASE mine[t] = 0
    BY <1>1, <2>2, Knows DEF RegInv, Users!Holds, Belongs, Owns
  <2> QED
    BY <2>1, <2>2
<1>2. \A t \in Everyone, p \in Nat : Belongs(t, p) => p \notin inactive /\ \A u \in Everyone : Belongs(u, p) => u = t
  BY DEF RegInv, RInv, Apart
<1> QED
  BY <1>1, <1>2 DEF OneUser, Users!OneUser, Everyone

\* ... a thread finds its own, ...
LEMMA FindsItsOwn == ASSUME RegInv PROVE Users!SameProducer
<1> SUFFICES ASSUME NEW t \in Hashed
             PROVE  /\ mine[t] # 0 => pc[t] # "count"
                    /\ mine[t] # 0 => \A i \in DOMAIN tables : Users!Values(i, t) \subseteq {mine[t]}
                    /\ listens /\ pc[t] = "new" => \A i \in DOMAIN tables : Users!Values(i, t) = {}
  BY DEF Users!SameProducer
<1>1. t \in Everyone /\ Phase(t, pc[t], kept[t], mine[t]) /\ mine[t] \in Nat
  BY Knows DEF RegInv, Everyone, Users!Users, Lawful
<1>2. mine[t] # 0 => pc[t] # "count"
  BY <1>1 DEF Phase, Settling
<1>3. ASSUME mine[t] # 0, NEW i \in DOMAIN tables, NEW k \in DOMAIN tables[i], tables[i][k].key = t
      PROVE  tables[i][k].value = mine[t]
  <2>1. tables[i][k] \in Entry
    BY <1>3, TableShape DEF RegInv, RInv
  <2>2. tables[i][k].value \in Nat
    BY <2>1 DEF Entry
  <2>3. Belongs(t, mine[t]) /\ Belongs(t, tables[i][k].value)
    BY <1>1, <1>3, <2>2 DEF Belongs, Owns, Filed
  <2> QED
    BY <1>1, <2>2, <2>3 DEF RegInv, RInv, Apart
<1>4. listens /\ pc[t] = "new" => Absent(t)
  BY <1>1 DEF Phase
<1> QED
  BY <1>2, <1>3, <1>4 DEF Users!Values, Absent, InTable

\* ... and the search for it ends.
LEMMA RoomThere == ASSUME RegInv PROVE Users!RoomForAll
<1> SUFFICES ASSUME NEW i \in DOMAIN tables, \A k \in DOMAIN tables[i] : tables[i][k].key \notin Users!Vacant
             PROVE  FALSE
  BY DEF Users!RoomForAll
<1>1. PICK r \in [Hashed -> Nat] : Ranks(r)
  BY DEF RegInv, Ranked
<1>2. PICK c \in Nat \ {0} : c = Users!Cap(i) /\ DOMAIN tables[i] = 0 .. c - 1 /\ tables[i] \in [0 .. c - 1 -> Entry]
  BY TableShape DEF RegInv, RInv
<1>3. PICK l \in Nat : l = Limit(i) /\ l <= c
  BY <1>2 DEF Limit
<1>4. ASSUME NEW k \in 0 .. c - 1
      PROVE  tables[i][k].key \in Hashed
  <2>1. tables[i][k].key \in Hashed \cup {Users!Empty, Users!Gone}
    BY <1>2 DEF Entry
  <2>2. tables[i][k].key # Users!Empty
    BY <1>2 DEF Users!Vacant
  <2>3. tables[i][k].key # Users!Gone
    BY <1>2 DEF Users!Vacant, RegInv, RInv, Tabled
  <2> QED
    BY <2>1, <2>2, <2>3
<1> DEFINE T == {u \in Numbered : r[u] <= l - 1}
           f == [k \in 0 .. c - 1 |-> tables[i][k].key]
<1>5. ASSUME NEW k \in 0 .. c - 1
      PROVE  f[k] \in T /\ l > 0
  <2>1. f[k] \in Hashed /\ InTable(f[k], i)
    BY <1>2, <1>4 DEF InTable
  <2>2. f[k] \in Numbered
    BY <2>1 DEF Numbered, Absent
  <2>3. r[f[k]] < l /\ r[f[k]] \in Nat
    BY <1>1, <1>3, <2>1 DEF Ranks
  <2> QED
    BY <2>2, <2>3
<1>6. \A j, k \in 0 .. c - 1 : f[j] = f[k] => j = k
  BY <1>2, <1>4 DEF RegInv, RInv, Tabled
<1>7. f \in [0 .. c - 1 -> T] /\ DOMAIN f = 0 .. c - 1
  BY <1>5
<1>8. l - 1 \in Nat
  BY <1>5
<1>9. Cardinality(T) <= l - 1
  BY <1>1, <1>8 DEF Ranks
<1>10. IsFiniteSet(T)
  BY NumberedFinite DEF Numbered
<1> HIDE DEF f, T
<1>11. f \in Injection(0 .. c - 1, T)
  BY <1>6, <1>7 DEF Injection, IsInjective
<1>12. Cardinality(0 .. c - 1) <= Cardinality(T) /\ Cardinality(0 .. c - 1) = c /\ Cardinality(T) \in Nat
  BY <1>10, <1>11, FS_Injection, FS_Interval, FS_CardinalityType
<1> QED
  BY <1>3, <1>9, <1>12

-----------------------------------------------------------------------------
\* At the start there is one table, and nobody has a producer.
LEMMA RegInit == ASSUME Users!Init PROVE RegInv
<1>1. /\ listens \in BOOLEAN /\ list = <<>> /\ inactive = {} /\ hashCount = 0
      /\ pc = [t \in Everyone |-> "new"] /\ kept = [t \in Everyone |-> Users!NoLocals]
      /\ mine = [t \in Everyone |-> 0] /\ tables = <<Users!NewTable(FirstCap)>>
  BY DEF Users!Init, Everyone
<1>2. PICK c \in Nat \ {0} : c = FirstCap
  BY RegistryAssumption
<1>3. PICK T : T = Users!NewTable(c)
  OBVIOUS
<1>4. /\ T \in [0 .. c - 1 -> Entry] /\ T \in Slotted
      /\ \A k \in 0 .. c - 1 : T[k].key = Users!Empty /\ T[k].value = 0
  BY <1>3 DEF Users!NewTable, Entry, Slotted
<1>5. tables = <<T>> /\ DOMAIN tables = {1} /\ Len(tables) = 1 /\ tables[1] = T /\ tables \in Seq(Slotted)
  BY <1>1, <1>2, <1>3, <1>4
<1>6. RegTypeOK
  <2>1. kept \in [Everyone -> Locals]
    BY <1>1, Nothing
  <2>2. list \in Seq(BOOLEAN) /\ inactive \subseteq 1 .. Len(list)
    BY <1>1
  <2> QED
    BY <1>1, <1>5, <2>1, <2>2 DEF RegTypeOK
<1>7. \A t \in Hashed, k \in 0 .. c - 1 : T[k].key # t
  BY <1>4, RegistryAssumption
<1>8. DOMAIN tables[1] = 0 .. c - 1 /\ Users!Cap(1) \in Nat
  BY <1>4, <1>5, <1>6, TableShape
<1>9. \A t \in Hashed : Absent(t)
  BY <1>5, <1>7, <1>8 DEF Absent, InTable
<1>10. Tabled
  <2>1. \A t \in Hashed : Search(1, t)
    BY <1>5, <1>6, <1>9, SlotsOfProbe DEF Search, Absent, InTable
  <2>2. Users!Empty # Users!Gone
    BY DEF Users!Empty, Users!Gone
  <2>3. \A k \in DOMAIN tables[1] : tables[1][k].key # Users!Gone
    BY <1>4, <1>5, <1>8, <2>2
  <2>4. \A t \in Hashed : \A k \in DOMAIN tables[1] : tables[1][k].key # t
    BY <1>5, <1>7, <1>8
  <2> QED
    BY <1>5, <1>8, <2>1, <2>3, <2>4 DEF Tabled
<1>11. \A t \in Everyone : pc[t] = "new" /\ mine[t] = 0
  BY <1>1
<1>12. \A t \in Hashed : t \in Everyone
  BY DEF Everyone, Users!Users
<1>13. \A t \in Tokens : t \in Everyone
  BY DEF Everyone, Users!Users
<1>14. \A t \in Hashed, i \in DOMAIN tables, p \in Nat : ~ Filed(t, i, p)
  BY <1>9 DEF Absent, InTable, Filed
<1>15. Phases
  <2>1. \A t \in Hashed : Phase(t, pc[t], kept[t], mine[t])
    BY <1>9, <1>11, <1>12 DEF Phase, Calling, Settling, Counted, Admitted
  <2>2. \A t \in Tokens : TokenPhase(pc[t], mine[t])
    BY <1>11, <1>13 DEF TokenPhase
  <2>3. \A t \in Everyone : OnTheList(t, pc[t], kept[t])
    BY <1>11, <1>14 DEF OnTheList
  <2> QED
    BY <2>1, <2>2, <2>3 DEF Phases
<1>16. Apart
  <2>1. \A t \in Everyone, p \in Nat : ~ Belongs(t, p)
    BY <1>11, <1>14 DEF Belongs, Owns
  <2> QED
    BY <2>1 DEF Apart
<1>17. Counts
  <2>1. Implicit = {} /\ InCount = {}
    BY <1>1, <1>11, <1>12 DEF Implicit, InCount, Counted, Admitted
  <2> QED
    BY <1>1, <2>1, FS_EmptySet DEF Counts
<1>18. Ranked
  <2>1. Numbered = {}
    BY <1>9, <1>11, <1>12 DEF Numbered, Counted, Admitted
  <2> DEFINE r == [t \in Hashed |-> 0]
  <2>2. \A m \in Nat : Cardinality({t \in Numbered : r[t] <= m}) <= m
    <3> SUFFICES ASSUME NEW m \in Nat PROVE Cardinality({t \in Numbered : r[t] <= m}) <= m
      OBVIOUS
    <3>1. {t \in Numbered : r[t] <= m} = {}
      BY <2>1
    <3>2. Cardinality({}) = 0
      BY FS_EmptySet
    <3> QED
      BY <3>1, <3>2
  <2>3. \A t \in Hashed : pc[t] \notin Counted \cup {"insert"} /\ pc[t] \notin Admitted
    BY <1>11, <1>12 DEF Counted, Admitted
  <2>4. \A t \in Hashed, i \in DOMAIN tables : ~ InTable(t, i)
    BY <1>9 DEF Absent
  <2>5. Ranks(r)
    BY <2>2, <2>3, <2>4 DEF Ranks
  <2> QED
    BY <2>5 DEF Ranked
<1> QED
  BY <1>6, <1>10, <1>15, <1>16, <1>17, <1>18 DEF RegInv, RInv

\* A step of another part keeps it.
LEMMA RegSame == ASSUME RegInv, UNCHANGED regvars PROVE RegInv'
<1> USE DEF regvars
<1>1. RegTypeOK'
  BY DEF RegInv, RInv, RegTypeOK
<1>2. Tabled'
  BY DEF RegInv, RInv, Tabled, Search, Users!Cap, Users!Slot
<1>3. Phases'
  BY DEF RegInv, RInv, Phases, Phase, TokenPhase, OnTheList, Absent, Above, InTable, Filed
<1>4. Apart'
  BY DEF RegInv, RInv, Apart, Belongs, Owns, Filed
<1>5. Counts'
  BY DEF RegInv, Counts, Implicit, InCount
<1>6. Ranked'
  BY DEF RegInv, Ranked, Ranks, Limit, Numbered, Absent, InTable, Users!Cap
<1> QED
  BY <1>1, <1>2, <1>3, <1>4, <1>5, <1>6 DEF RegInv, RInv

\* The strengthening is inductive.
LEMMA RegNext == ASSUME RegInv, [AllNext]_<<part, bqvars, regvars, convars, movevars>> PROVE RegInv'
<1>1. CASE UNCHANGED regvars
  BY <1>1, RegSame
<1>2. CASE Users!Next
  <2>1. CASE Users!Over
    BY <2>1, RegSame DEF Users!Over, Users!regvars, regvars
  <2>2. ASSUME NEW t \in Everyone,
               Users!Start(t) \/ Users!Working(t) \/ Users!DropToken(t) \/ (t \in Hashed /\ (Users!Again(t) \/ Users!Exit(t)))
        PROVE  RegInv'
    <3>1. RInv'
      BY <2>2, RInvStep DEF RegInv
    <3>2. Counts'
      BY <2>2, CountsStep DEF RegInv
    <3>3. Ranked'
      BY <2>2, <3>1, RankedStep DEF RegInv
    <3> QED
      BY <3>1, <3>2, <3>3 DEF RegInv
  <2>3. \A t \in Hashed : t \in Everyone
    BY DEF Everyone, Users!Users
  <2> QED
    BY <1>2, <2>1, <2>2, <2>3 DEF Users!Next, Everyone
<1> QED
  BY <1>1, <1>2 DEF AllNext

\* RegInv is an invariant of the behaviours in which threads look for producers.
THEOREM RegCorrect == AllSpec => []RegInv
<1>1. AllInit => RegInv
  BY RegInit DEF AllInit
<1>2. RegInv /\ [AllNext]_<<part, bqvars, regvars, convars, movevars>> => RegInv'
  BY RegNext
<1> QED
  BY <1>1, <1>2, PTL DEF AllSpec

\* A producer is never used by two at once: not by two threads, two tokens, nor by
\* one that has ended and one that was given its producer.
THEOREM OneUserAlways == AllSpec => []OneUser
<1>1. RegInv => OneUser
  BY HeldByOne
<1> QED
  BY <1>1, RegCorrect, PTL

\* A thread that enqueues again finds the producer it has; an insertion finds a slot
\* in each table that is free or a tombstone; and where the queue does not hear of
\* threads that exit, each table has a free slot, so that no search of it goes on for
\* ever.
THEOREM FoundAgainAlways == AllSpec => []FoundAgain
<1>1. RegInv => Users!SameProducer /\ Users!RoomForAll
  BY FindsItsOwn, RoomThere
<1>2. Users!RoomForAll => (~ listens => Users!SlotFree)
  BY DEF Users!RoomForAll, Users!Vacant, Users!SlotFree
<1>3. RegInv => FoundAgain
  BY <1>1, <1>2 DEF FoundAgain
<1> QED
  BY <1>3, RegCorrect, PTL
-----------------------------------------------------------------------------
(* Queues that are moved: what a queue holds points back to it. *)

Entries == [parent : Objects, owner : Movers \cup {Moves!None},
            token : Handles \cup {Moves!None}, inactive : BOOLEAN]
Holdings == [list : Seq(1 .. MaxMade), count : Nat, chain : Seq(Moves!Tables), hashCount : Nat]

MoveTypes ==
  /\ alive \subseteq Objects
  /\ producers \in Seq(Entries) /\ Len(producers) <= MaxMade
  /\ queue \in [Objects -> Holdings]
  /\ slots \in [Moves!Tables -> [Movers -> 0 .. MaxMade]]
  /\ holder \in [Handles -> {Moves!NoObject} \cup 0 .. MaxMade]

\* What a queue named q has when P are the producers and S the tables.

Owned(Q, P) == {i \in DOMAIN Q.list : P[Q.list[i]].owner # Moves!None}
\* Its chain of tables: dynamic ones, and at the end its own.
ChainOf(q, Q, P) ==
  /\ Len(Q.chain) \in Nat \ {0} /\ Q.chain[Len(Q.chain)] = q
  /\ \A j \in 1 .. Len(Q.chain) - 1 : Q.chain[j] \in 1 .. Len(P)
  /\ \A i, j \in DOMAIN Q.chain : Q.chain[i] = Q.chain[j] => i = j
\* Its list: each is its own and, if it is a thread's, in one of the tables.
ListOf(q, Q, P, S) ==
  /\ \A i \in DOMAIN Q.list : Q.list[i] \in 1 .. Len(P) /\ P[Q.list[i]].parent = q
  /\ \A i \in Owned(Q, P) : \E j \in DOMAIN Q.chain : S[Q.chain[j]][P[Q.list[i]].owner] = Q.list[i]
\* The tables: a thread is in one of them, with a producer of the list.
TablesOf(Q, S) ==
  /\ \A j \in DOMAIN Q.chain : \A t \in Movers :
       S[Q.chain[j]][t] # 0 => \E i \in DOMAIN Q.list : Q.list[i] = S[Q.chain[j]][t]
  /\ \A j, k \in DOMAIN Q.chain : \A t \in Movers :
       S[Q.chain[j]][t] # 0 /\ S[Q.chain[k]][t] # 0 => j = k
CountsOf(Q, P) == Q.count = Len(Q.list) /\ Q.hashCount = Moves!Cardinality(Owned(Q, P))

QueueOK(q, Q, P, S) == ChainOf(q, Q, P) /\ ListOf(q, Q, P, S) /\ TablesOf(Q, S) /\ CountsOf(Q, P)

OwnChains == \A q, r \in alive : q # r =>
  \A i \in DOMAIN queue[q].chain, j \in DOMAIN queue[r].chain : queue[q].chain[i] # queue[r].chain[j]

Blank == \A h \in 1 .. MaxMade : h > Len(producers) => slots[h] = Moves!Unused

Pointed ==
  \A k \in Handles : holder[k] \notin {0, Moves!NoObject} =>
    /\ holder[k] \in 1 .. Len(producers) /\ producers[holder[k]].token = k
    /\ ~ producers[holder[k]].inactive
    /\ \E q \in alive : \E i \in DOMAIN queue[q].list : queue[q].list[i] = holder[k]

MoveInv ==
  /\ MoveTypes /\ OwnChains /\ Blank /\ Pointed
  /\ \A q \in alive : QueueOK(q, queue[q], producers, slots)

-----------------------------------------------------------------------------
\* Putting one in front of a sequence.
LEMMA InFront ==
  ASSUME NEW S, NEW s \in Seq(S), NEW x \in S
  PROVE  /\ <<x>> \o s \in Seq(S) /\ Len(<<x>> \o s) = Len(s) + 1
         /\ DOMAIN (<<x>> \o s) = 1 .. Len(s) + 1
         /\ (<<x>> \o s)[1] = x
         /\ \A i \in 1 .. Len(s) : (<<x>> \o s)[i + 1] = s[i]
         /\ \A i \in 2 .. Len(s) + 1 : i - 1 \in 1 .. Len(s) /\ (<<x>> \o s)[i] = s[i - 1]
<1>1. <<x>> \in Seq(S) /\ Len(<<x>>) = 1 /\ <<x>>[1] = x
  OBVIOUS
<1>2. <<x>> \o s \in Seq(S) /\ Len(<<x>> \o s) = Len(s) + 1
  BY <1>1
<1>3. \A i \in 1 .. Len(s) + 1 : (<<x>> \o s)[i] = IF i <= 1 THEN <<x>>[i] ELSE s[i - 1]
  BY <1>1
<1> QED
  BY <1>1, <1>2, <1>3

\* Where a queue's list and chain are left alone, so is what it has.
LEMMA Unmoved ==
  ASSUME NEW q, NEW Q, NEW P, NEW R, NEW S, NEW T, QueueOK(q, Q, P, S),
         Len(P) \in Nat, Len(R) \in Nat, Len(P) <= Len(R),
         \A j \in DOMAIN Q.chain : T[Q.chain[j]] = S[Q.chain[j]],
         \A i \in DOMAIN Q.list : /\ R[Q.list[i]].parent = P[Q.list[i]].parent
                                  /\ R[Q.list[i]].owner = P[Q.list[i]].owner
  PROVE  QueueOK(q, Q, R, T)
<1>1. Owned(Q, R) = Owned(Q, P) /\ Owned(Q, P) \subseteq DOMAIN Q.list
  BY DEF Owned
<1>2. ChainOf(q, Q, R)
  BY DEF QueueOK, ChainOf
<1>3. ListOf(q, Q, R, T)
  <2>1. \A i \in DOMAIN Q.list : Q.list[i] \in 1 .. Len(R) /\ R[Q.list[i]].parent = q
    BY DEF QueueOK, ListOf
  <2>2. \A i \in Owned(Q, R) : \E j \in DOMAIN Q.chain : T[Q.chain[j]][R[Q.list[i]].owner] = Q.list[i]
    BY <1>1 DEF QueueOK, ListOf
  <2> QED
    BY <2>1, <2>2 DEF ListOf
<1>4. TablesOf(Q, T)
  BY DEF QueueOK, TablesOf
<1>5. CountsOf(Q, R)
  BY <1>1 DEF QueueOK, CountsOf
<1> QED
  BY <1>2, <1>3, <1>4, <1>5 DEF QueueOK

\* What the queue b has, under the name a, with the contents of its own table.
WithName(a, b, Q, P, R, S, T, N) ==
  /\ a \in Objects /\ b \in Objects /\ Q \in Holdings /\ QueueOK(b, Q, P, S)
  /\ Len(R) = Len(P) /\ Len(P) \in Nat /\ Len(P) <= MaxMade
  /\ T[a] = S[b] /\ \A h \in 1 .. MaxMade : T[h] = S[h]
  /\ \A i \in DOMAIN Q.list : R[Q.list[i]].parent = a /\ R[Q.list[i]].owner = P[Q.list[i]].owner
  /\ N = [Q EXCEPT !.chain = Moves!Repoint(@, b, a)]

\* It has what it should then.
LEMMA Renamed ==
  ASSUME NEW a, NEW b, NEW Q, NEW P, NEW R, NEW S, NEW T, NEW N, WithName(a, b, Q, P, R, S, T, N)
  PROVE  /\ N \in Holdings /\ QueueOK(a, N, R, T) /\ N.list = Q.list /\ DOMAIN N.chain = DOMAIN Q.chain
         /\ \A j \in DOMAIN Q.chain : N.chain[j] = IF j = Len(Q.chain) THEN a ELSE Q.chain[j]
         /\ \A j \in DOMAIN Q.chain : j = Len(Q.chain) \/ N.chain[j] \in 1 .. MaxMade
<1>13. /\ a \in Objects /\ b \in Objects /\ Q \in Holdings /\ QueueOK(b, Q, P, S)
       /\ Len(R) = Len(P) /\ Len(P) \in Nat /\ Len(P) <= MaxMade
       /\ T[a] = S[b] /\ \A h \in 1 .. MaxMade : T[h] = S[h]
       /\ \A i \in DOMAIN Q.list : R[Q.list[i]].parent = a /\ R[Q.list[i]].owner = P[Q.list[i]].owner
  BY DEF WithName
<1>14. N = [Q EXCEPT !.chain = Moves!Repoint(@, b, a)]
  BY DEF WithName
<1>1. /\ Q.chain \in Seq(Moves!Tables) /\ Q.list \in Seq(1 .. MaxMade)
      /\ DOMAIN Q.chain = 1 .. Len(Q.chain) /\ DOMAIN Q.list = 1 .. Len(Q.list)
  BY <1>13 DEF Holdings
<1>2. /\ N.list = Q.list /\ N.count = Q.count /\ N.hashCount = Q.hashCount
      /\ N.chain = Moves!Repoint(Q.chain, b, a)
  BY <1>13, <1>14 DEF Holdings
<1>3. \A j \in DOMAIN Q.chain : j # Len(Q.chain) => Q.chain[j] \in 1 .. MaxMade /\ Q.chain[j] # b
  BY <1>13, <1>1, MovesAssumption DEF QueueOK, ChainOf
<1>4. \A j \in DOMAIN Q.chain : N.chain[j] = IF j = Len(Q.chain) THEN a ELSE Q.chain[j]
  BY <1>13, <1>1, <1>2, <1>3 DEF QueueOK, ChainOf, Moves!Repoint
<1>5. N.chain \in Seq(Moves!Tables) /\ Len(N.chain) = Len(Q.chain) /\ DOMAIN N.chain = DOMAIN Q.chain
  <2>1. N.chain = [i \in 1 .. Len(Q.chain) |-> IF Q.chain[i] = b THEN a ELSE Q.chain[i]]
    BY <1>13, <1>1, <1>2 DEF Moves!Repoint
  <2>2. \A i \in 1 .. Len(Q.chain) : (IF Q.chain[i] = b THEN a ELSE Q.chain[i]) \in Moves!Tables
    BY <1>13, <1>1 DEF Moves!Tables
  <2>3. Len(Q.chain) \in Nat
    BY <1>13, <1>1
  <2> QED
    BY <1>13, <1>1, <2>1, <2>2, <2>3
<1>6. N \in Holdings
  <2>1. N = [list |-> Q.list, count |-> Q.count, chain |-> N.chain, hashCount |-> Q.hashCount]
    BY <1>13, <1>14 DEF Holdings
  <2>2. Q.count \in Nat /\ Q.hashCount \in Nat
    BY <1>13 DEF Holdings
  <2> QED
    BY <1>13, <1>1, <1>5, <2>1, <2>2 DEF Holdings
<1>7. Owned(N, R) = Owned(Q, P)
  BY <1>13, <1>2 DEF Owned
<1>8. \A j \in DOMAIN Q.chain : T[N.chain[j]] = S[Q.chain[j]]
  BY <1>13, <1>3, <1>4 DEF QueueOK, ChainOf
<1>9. ChainOf(a, N, R)
  <2>1. \A i, j \in DOMAIN Q.chain : N.chain[i] = N.chain[j] => i = j
    <3>1. a \notin 1 .. MaxMade
      BY <1>13, MovesAssumption
    <3>2. \A i, j \in DOMAIN Q.chain : Q.chain[i] = Q.chain[j] => i = j
      BY <1>13 DEF QueueOK, ChainOf
    <3> QED
      BY <1>13, <1>3, <1>4, <3>1, <3>2
  <2>2. \A j \in 1 .. Len(Q.chain) - 1 : j \in DOMAIN Q.chain /\ j # Len(Q.chain)
    BY <1>13, <1>1 DEF QueueOK, ChainOf
  <2>3. Len(Q.chain) \in DOMAIN Q.chain
    BY <1>13, <1>1 DEF QueueOK, ChainOf
  <2> QED
    BY <1>13, <1>4, <1>5, <2>1, <2>2, <2>3 DEF QueueOK, ChainOf
<1>10. ListOf(a, N, R, T)
  <2>1. \A i \in DOMAIN N.list : N.list[i] \in 1 .. Len(R) /\ R[N.list[i]].parent = a
    BY <1>13, <1>2 DEF QueueOK, ListOf
  <2>2. \A i \in Owned(N, R) : \E j \in DOMAIN N.chain : T[N.chain[j]][R[N.list[i]].owner] = N.list[i]
    BY <1>13, <1>2, <1>5, <1>7, <1>8, SMTT(30) DEF QueueOK, ListOf, Owned
  <2> QED
    BY <1>13, <2>1, <2>2 DEF ListOf
<1>11. TablesOf(N, T)
  BY <1>13, <1>2, <1>5, <1>8 DEF QueueOK, TablesOf
<1>12. CountsOf(N, R)
  BY <1>13, <1>2, <1>7 DEF QueueOK, CountsOf
<1> QED
  BY <1>13, <1>2, <1>3, <1>4, <1>5, <1>6, <1>9, <1>10, <1>11, <1>12 DEF QueueOK

\* The number of elements is the same operator in the instance.
LEMMA CountMoved == ASSUME NEW S PROVE Moves!Cardinality(S) = Cardinality(S)
  BY Zenon DEF Moves!Cardinality, Cardinality

\* Shifting a finite set of indexes keeps its size.
LEMMA ShiftedCount ==
  ASSUME NEW n \in Nat, NEW A \in SUBSET (1 .. n)
  PROVE  LET B == {i \in 2 .. n + 1 : i - 1 \in A}
         IN  /\ Moves!Cardinality(B) = Moves!Cardinality(A)
             /\ Moves!Cardinality(B \cup {1}) = Moves!Cardinality(A) + 1
             /\ Moves!Cardinality(A) \in Nat
<1> DEFINE B == {i \in 2 .. n + 1 : i - 1 \in A}
           f == [i \in A |-> i + 1]
<1>1. IsFiniteSet(A)
  <2>1. IsFiniteSet(1 .. n)
    BY FS_Interval
  <2> QED
    BY <2>1, FS_Subset
<1>2. ExistsBijection(A, B)
  <2>1. f \in [A -> B] /\ \A i \in A : f[i] = i + 1
    OBVIOUS
  <2>2. \A i, j \in A : f[i] = f[j] => i = j
    BY <2>1
  <2>3. \A b \in B : b - 1 \in A /\ f[b - 1] = b
    OBVIOUS
  <2> HIDE DEF f, B
  <2>4. f \in Bijection(A, B)
    BY <2>1, <2>2, <2>3 DEF Bijection, Injection, Surjection, IsInjective
  <2> QED
    BY <2>4 DEF ExistsBijection
<1>3. IsFiniteSet(B) /\ Cardinality(B) = Cardinality(A)
  BY <1>1, <1>2, FS_Bijection
<1>4. Cardinality(B \cup {1}) = Cardinality(B) + 1
  <2>1. 1 \notin B
    OBVIOUS
  <2> QED
    BY <1>3, <2>1, FS_AddElement
<1>5. Cardinality(A) \in Nat
  BY <1>1, FS_CardinalityType
<1> QED
  BY <1>3, <1>4, <1>5, CountMoved

\* A blank table h in front of a queue's chain, N with it.
WithTable(q, Q, P, S, h, N) ==
  /\ Q \in Holdings /\ QueueOK(q, Q, P, S) /\ Len(P) \in Nat /\ Len(P) <= MaxMade
  /\ h \in 1 .. Len(P) /\ (\A j \in DOMAIN Q.chain : Q.chain[j] # h) /\ \A t \in Movers : S[h][t] = 0
  /\ N = [Q EXCEPT !.chain = <<h>> \o @]

\* It has what it should then.
LEMMA ChainLonger ==
  ASSUME NEW q, NEW Q, NEW P, NEW S, NEW h, NEW N, WithTable(q, Q, P, S, h, N)
  PROVE  N \in Holdings /\ N.list = Q.list /\ N.chain = <<h>> \o Q.chain /\ QueueOK(q, N, P, S)
<1> DEFINE n == Len(Q.chain)
<1>9. /\ Q \in Holdings /\ QueueOK(q, Q, P, S) /\ Len(P) \in Nat /\ Len(P) <= MaxMade
      /\ h \in 1 .. Len(P) /\ (\A j \in DOMAIN Q.chain : Q.chain[j] # h) /\ \A t \in Movers : S[h][t] = 0
  BY DEF WithTable
<1>10. N = [Q EXCEPT !.chain = <<h>> \o @]
  BY DEF WithTable
<1>1. h \in Moves!Tables /\ Q.chain \in Seq(Moves!Tables) /\ n \in Nat /\ DOMAIN Q.chain = 1 .. n
  <2>1. Q.chain \in Seq(Moves!Tables)
    BY <1>9 DEF Holdings
  <2>2. h \in 1 .. MaxMade
    BY <1>9, MovesAssumption
  <2> QED
    BY <2>1, <2>2 DEF Moves!Tables
<1>2. /\ N.list = Q.list /\ N.count = Q.count /\ N.hashCount = Q.hashCount /\ N.chain = <<h>> \o Q.chain
      /\ N = [list |-> Q.list, count |-> Q.count, chain |-> <<h>> \o Q.chain, hashCount |-> Q.hashCount]
  <2> DEFINE C == <<h>> \o Q.chain
  <2>1. N = [Q EXCEPT !.chain = C]
    BY <1>10
  <2> HIDE DEF C
  <2>2. N = [list |-> Q.list, count |-> Q.count, chain |-> C, hashCount |-> Q.hashCount]
    BY <1>9, <2>1 DEF Holdings
  <2> QED
    BY <2>2 DEF C
<1>3. /\ N.chain \in Seq(Moves!Tables) /\ Len(N.chain) = n + 1 /\ DOMAIN N.chain = 1 .. n + 1
      /\ N.chain[1] = h
      /\ \A i \in 1 .. n : N.chain[i + 1] = Q.chain[i]
      /\ \A i \in 2 .. n + 1 : i - 1 \in 1 .. n /\ N.chain[i] = Q.chain[i - 1]
  <2>1. /\ <<h>> \o Q.chain \in Seq(Moves!Tables) /\ Len(<<h>> \o Q.chain) = n + 1
        /\ DOMAIN (<<h>> \o Q.chain) = 1 .. n + 1 /\ (<<h>> \o Q.chain)[1] = h
        /\ \A i \in 1 .. n : (<<h>> \o Q.chain)[i + 1] = Q.chain[i]
        /\ \A i \in 2 .. n + 1 : i - 1 \in 1 .. n /\ (<<h>> \o Q.chain)[i] = Q.chain[i - 1]
    BY <1>1, InFront
  <2> QED
    BY <1>2, <2>1
<1>4. N \in Holdings
  <2>1. Q.list \in Seq(1 .. MaxMade) /\ Q.count \in Nat /\ Q.hashCount \in Nat
    BY <1>9 DEF Holdings
  <2>2. <<h>> \o Q.chain \in Seq(Moves!Tables)
    BY <1>2, <1>3
  <2> QED
    BY <1>2, <2>1, <2>2 DEF Holdings
<1>5. ChainOf(q, N, P)
  <2>1. n # 0 /\ Q.chain[n] = q /\ \A j \in 1 .. n - 1 : Q.chain[j] \in 1 .. Len(P)
    BY <1>9 DEF QueueOK, ChainOf
  <2>2. N.chain[n + 1] = q
    BY <1>1, <1>3, <2>1
  <2>3. \A j \in 1 .. n : N.chain[j] \in 1 .. Len(P)
    <3> SUFFICES ASSUME NEW j \in 1 .. n PROVE N.chain[j] \in 1 .. Len(P)
      OBVIOUS
    <3>1. CASE j = 1
      BY <1>3, <1>9, <3>1
    <3>2. CASE j # 1
      <4>1. j \in 2 .. n + 1 /\ j - 1 \in 1 .. n - 1
        BY <1>1, <3>2
      <4> QED
        BY <1>3, <2>1, <4>1
    <3> QED
      BY <3>1, <3>2
  <2>4. \A i, j \in 1 .. n + 1 : N.chain[i] = N.chain[j] => i = j
    <3>1. \A i, j \in 1 .. n : Q.chain[i] = Q.chain[j] => i = j
      BY <1>1, <1>9 DEF QueueOK, ChainOf
    <3>2. \A i \in 2 .. n + 1 : N.chain[i] # h
      <4>1. \A i \in 1 .. n : Q.chain[i] # h
        BY <1>1, <1>9
      <4> QED
        BY <1>3, <4>1, ZenonT(30)
    <3>3. \A i, j \in 2 .. n + 1 : N.chain[i] = N.chain[j] => i = j
      <4>1. \A i, j \in 2 .. n + 1 : N.chain[i] = N.chain[j] => i - 1 = j - 1
        <5> SUFFICES ASSUME NEW i \in 2 .. n + 1, NEW j \in 2 .. n + 1, N.chain[i] = N.chain[j]
                     PROVE  i - 1 = j - 1
          OBVIOUS
        <5>1. i - 1 \in 1 .. n /\ j - 1 \in 1 .. n
          BY <1>3
        <5>2. Q.chain[i - 1] = Q.chain[j - 1]
          BY <1>3
        <5> QED
          BY <3>1, <5>1, <5>2
      <4> QED
        BY <1>1, <4>1
    <3>4. \A i \in 1 .. n + 1 : i = 1 \/ i \in 2 .. n + 1
      BY <1>1
    <3> QED
      BY <1>3, <3>2, <3>3, <3>4
  <2>5. (n + 1) - 1 = n /\ n + 1 \in Nat \ {0}
    BY <1>1
  <2> QED
    BY <1>3, <2>2, <2>3, <2>4, <2>5 DEF ChainOf
<1>6. ListOf(q, N, P, S)
  <2>1. Owned(N, P) = Owned(Q, P)
    BY <1>2 DEF Owned
  <2>2. \A i \in Owned(N, P) : \E j \in DOMAIN N.chain : S[N.chain[j]][P[N.list[i]].owner] = N.list[i]
    <3> SUFFICES ASSUME NEW i \in Owned(N, P)
                 PROVE  \E j \in DOMAIN N.chain : S[N.chain[j]][P[N.list[i]].owner] = N.list[i]
      BY SMTT(40)
    <3>1. PICK j \in 1 .. n : S[Q.chain[j]][P[Q.list[i]].owner] = Q.list[i]
      BY <1>1, <1>9, <2>1 DEF QueueOK, ListOf
    <3>2. j + 1 \in DOMAIN N.chain /\ N.chain[j + 1] = Q.chain[j]
      BY <1>1, <1>3, SMTT(40)
    <3> QED
      BY <1>2, <3>1, <3>2
  <2>3. \A i \in DOMAIN N.list : N.list[i] \in 1 .. Len(P) /\ P[N.list[i]].parent = q
    BY <1>2, <1>9 DEF QueueOK, ListOf
  <2> QED
    BY <2>2, <2>3 DEF ListOf
<1>7. TablesOf(N, S)
  <2>1. \A j \in DOMAIN N.chain : \A t \in Movers :
          S[N.chain[j]][t] # 0 => j - 1 \in DOMAIN Q.chain /\ N.chain[j] = Q.chain[j - 1]
    BY <1>1, <1>3, <1>9, SMTT(30)
  <2>2. \A j \in DOMAIN N.chain : j \in Int
    BY <1>1, <1>3
  <2>3. \A j \in DOMAIN N.chain : \A t \in Movers :
          S[N.chain[j]][t] # 0 => \E i \in DOMAIN N.list : N.list[i] = S[N.chain[j]][t]
    <3> SUFFICES ASSUME NEW j \in DOMAIN N.chain, NEW t \in Movers, S[N.chain[j]][t] # 0
                 PROVE  \E i \in DOMAIN N.list : N.list[i] = S[N.chain[j]][t]
      OBVIOUS
    <3>1. j - 1 \in DOMAIN Q.chain /\ N.chain[j] = Q.chain[j - 1]
      BY <2>1
    <3>2. \E i \in DOMAIN Q.list : Q.list[i] = S[Q.chain[j - 1]][t]
      BY <1>9, <3>1 DEF QueueOK, TablesOf
    <3> QED
      BY <1>2, <3>1, <3>2
  <2>4. \A j, k \in DOMAIN N.chain : \A t \in Movers :
          S[N.chain[j]][t] # 0 /\ S[N.chain[k]][t] # 0 => j - 1 = k - 1
    BY <1>9, <2>1 DEF QueueOK, TablesOf
  <2>5. \A j, k \in DOMAIN N.chain : \A t \in Movers :
          S[N.chain[j]][t] # 0 /\ S[N.chain[k]][t] # 0 => j = k
    BY <2>2, <2>4
  <2> QED
    BY <2>3, <2>5 DEF TablesOf
<1>8. CountsOf(N, P)
  BY <1>2, <1>9, SMTT(40) DEF QueueOK, CountsOf, Owned
<1> QED
  BY <1>2, <1>4, <1>5, <1>6, <1>7, <1>8 DEF QueueOK

\* A producer p in front of a queue's list, N with it; and its thread, if it
\* is one's, which was in none of the tables, in the first of them.
WithProducer(q, Q, P, S, T, p, N) ==
  /\ Q \in Holdings /\ QueueOK(q, Q, P, S) /\ Len(P) \in Nat /\ Len(P) <= MaxMade
  /\ \A i \in DOMAIN Q.list : P[Q.list[i]].owner \in Movers \cup {Moves!None}
  /\ p \in 1 .. Len(P) /\ P[p].parent = q /\ P[p].owner \in Movers \cup {Moves!None}
  /\ \A j \in DOMAIN Q.chain : \A t \in Movers \ {P[p].owner} : T[Q.chain[j]][t] = S[Q.chain[j]][t]
  /\ P[p].owner # Moves!None =>
       /\ T[Q.chain[1]][P[p].owner] = p
       /\ \A j \in DOMAIN Q.chain : S[Q.chain[j]][P[p].owner] = 0
       /\ \A j \in DOMAIN Q.chain : j # 1 => T[Q.chain[j]][P[p].owner] = 0
  /\ N = [list |-> <<p>> \o Q.list, count |-> Q.count + 1, chain |-> Q.chain,
          hashCount |-> IF P[p].owner = Moves!None THEN Q.hashCount ELSE Q.hashCount + 1]

\* It has what it should then.
LEMMA Listed ==
  ASSUME NEW q, NEW Q, NEW P, NEW S, NEW T, NEW p, NEW N, WithProducer(q, Q, P, S, T, p, N)
  PROVE  N \in Holdings /\ QueueOK(q, N, P, T) /\ DOMAIN N.list = 1 .. Len(Q.list) + 1 /\ N.list[1] = p
         /\ \A i \in DOMAIN Q.list : i + 1 \in DOMAIN N.list /\ N.list[i + 1] = Q.list[i]
<1> USE DEF WithProducer
<1> DEFINE n == Len(Q.list)
           o == P[p].owner
<1>1. /\ p \in 1 .. MaxMade /\ Q.list \in Seq(1 .. MaxMade) /\ n \in Nat /\ DOMAIN Q.list = 1 .. n
      /\ Q.chain \in Seq(Moves!Tables) /\ Q.count \in Nat /\ Q.hashCount \in Nat
  <2>1. /\ Q.list \in Seq(1 .. MaxMade) /\ Q.chain \in Seq(Moves!Tables)
        /\ Q.count \in Nat /\ Q.hashCount \in Nat
    BY DEF Holdings
  <2> QED
    BY <2>1, MovesAssumption
<1>2. /\ N.list = <<p>> \o Q.list /\ N.count = Q.count + 1 /\ N.chain = Q.chain
      /\ N.hashCount = IF o = Moves!None THEN Q.hashCount ELSE Q.hashCount + 1
  OBVIOUS
<1>3. /\ N.list \in Seq(1 .. MaxMade) /\ Len(N.list) = n + 1 /\ DOMAIN N.list = 1 .. n + 1
      /\ N.list[1] = p
      /\ \A i \in 1 .. n : N.list[i + 1] = Q.list[i]
      /\ \A i \in 2 .. n + 1 : i - 1 \in 1 .. n /\ N.list[i] = Q.list[i - 1]
  <2>1. /\ <<p>> \o Q.list \in Seq(1 .. MaxMade) /\ Len(<<p>> \o Q.list) = n + 1
        /\ DOMAIN (<<p>> \o Q.list) = 1 .. n + 1 /\ (<<p>> \o Q.list)[1] = p
        /\ \A i \in 1 .. n : (<<p>> \o Q.list)[i + 1] = Q.list[i]
        /\ \A i \in 2 .. n + 1 : i - 1 \in 1 .. n /\ (<<p>> \o Q.list)[i] = Q.list[i - 1]
    BY <1>1, InFront
  <2> QED
    BY <1>2, <2>1
<1>4. N \in Holdings
  <2>1. N.count \in Nat /\ N.hashCount \in Nat
    BY <1>1, <1>2, SMTT(30)
  <2>2. N = [list |-> N.list, count |-> N.count, chain |-> N.chain, hashCount |-> N.hashCount]
    BY <1>2
  <2> QED
    BY <1>1, <1>2, <1>3, <2>1, <2>2 DEF Holdings
<1>5. \A i \in 1 .. n + 1 : i = 1 \/ i \in 2 .. n + 1
  BY <1>1
<1>6. ChainOf(q, N, P)
  BY <1>2 DEF QueueOK, ChainOf
<1>7. 1 \in DOMAIN Q.chain
  BY <1>1, SMTT(40) DEF QueueOK, ChainOf
<1>8. \A i \in Owned(Q, P) : P[Q.list[i]].owner # o \/ o = Moves!None
  <2> SUFFICES ASSUME NEW i \in Owned(Q, P), P[Q.list[i]].owner = o, o # Moves!None PROVE FALSE
    BY SMTT(40)
  <2>1. i \in DOMAIN Q.list /\ Q.list[i] \in 1 .. Len(P)
    BY SMTT(40) DEF Owned, QueueOK, ListOf
  <2>2. PICK j \in DOMAIN Q.chain : S[Q.chain[j]][P[Q.list[i]].owner] = Q.list[i]
    BY DEF QueueOK, ListOf
  <2>3. S[Q.chain[j]][o] = 0
    BY <2>2
  <2> QED
    BY <2>1, <2>2, <2>3
<1>9. /\ Owned(Q, P) \in SUBSET (1 .. n)
      /\ Owned(N, P) = {i \in 2 .. n + 1 : i - 1 \in Owned(Q, P)} \cup (IF o = Moves!None THEN {} ELSE {1})
  <2>1. Owned(Q, P) \in SUBSET (1 .. n) /\ 1 \in 1 .. n + 1
    BY <1>1 DEF Owned
  <2>2. \A i \in 2 .. n + 1 : i \in Owned(N, P) <=> i - 1 \in Owned(Q, P)
    BY <1>1, <1>3 DEF Owned
  <2>3. 1 \in Owned(N, P) <=> o # Moves!None
    BY <1>3, <2>1 DEF Owned
  <2>4. Owned(N, P) \subseteq 1 .. n + 1 /\ 1 \notin 2 .. n + 1
    BY <1>3, SMTT(40) DEF Owned
  <2> QED
    BY <1>5, <2>1, <2>2, <2>3, <2>4, ZenonT(40)
<1>10. ListOf(q, N, P, T)
  <2>1. \A i \in DOMAIN N.list : N.list[i] \in 1 .. Len(P) /\ P[N.list[i]].parent = q
    <3>1. \A i \in 1 .. n : Q.list[i] \in 1 .. Len(P) /\ P[Q.list[i]].parent = q
      BY <1>1 DEF QueueOK, ListOf
    <3> QED
      BY <1>3, <1>5, <3>1, SMTT(40)
  <2>2. ASSUME NEW i \in Owned(N, P)
        PROVE  \E j \in DOMAIN N.chain : T[N.chain[j]][P[N.list[i]].owner] = N.list[i]
    <3>1. CASE i = 1
      <4>1. o # Moves!None
        BY <1>3, <2>2, <3>1, SMTT(40) DEF Owned
      <4> QED
        BY <1>2, <1>3, <1>7, <3>1, <4>1
    <3>2. CASE i # 1
      <4>1. i - 1 \in Owned(Q, P) /\ N.list[i] = Q.list[i - 1]
        BY <1>3, <1>9, <2>2, <3>2
      <4>2. PICK j \in DOMAIN Q.chain : S[Q.chain[j]][P[Q.list[i - 1]].owner] = Q.list[i - 1]
        BY <4>1 DEF QueueOK, ListOf
      <4>3. P[Q.list[i - 1]].owner # Moves!None
        BY <4>1 DEF Owned
      <4>4. P[Q.list[i - 1]].owner # o
        BY <1>8, <4>1, <4>3, SMTT(40)
      <4>5. T[Q.chain[j]][P[Q.list[i - 1]].owner] = S[Q.chain[j]][P[Q.list[i - 1]].owner]
        <5>1. i - 1 \in DOMAIN Q.list
          BY <4>1 DEF Owned
        <5> QED
          BY <4>3, <4>4, <5>1
      <4> QED
        BY <1>2, <4>1, <4>2, <4>5, ZenonT(40)
    <3> QED
      BY <3>1, <3>2, ZenonT(40)
  <2> QED
    BY <2>1, <2>2 DEF ListOf
<1>11. TablesOf(N, T)
  <2>1. ASSUME NEW j \in DOMAIN N.chain, NEW t \in Movers, T[N.chain[j]][t] # 0
        PROVE  \E i \in DOMAIN N.list : N.list[i] = T[N.chain[j]][t]
    <3>1. CASE t = o
      <4>1. o # Moves!None
        BY <3>1, MovesAssumption
      <4>2. j = 1 /\ T[N.chain[j]][t] = p
        BY <1>2, <2>1, <3>1, <4>1
      <4>3. 1 \in DOMAIN N.list
        BY <1>1, <1>3, SMTT(40)
      <4> QED
        BY <1>3, <4>2, <4>3, ZenonT(40)
    <3>2. CASE t # o
      <4>1. T[N.chain[j]][t] = S[Q.chain[j]][t] /\ j \in DOMAIN Q.chain
        BY <1>2, <3>2
      <4>2. PICK i \in 1 .. n : Q.list[i] = S[Q.chain[j]][t]
        BY <1>1, <2>1, <4>1, ZenonT(40) DEF QueueOK, TablesOf
      <4>3. i + 1 \in DOMAIN N.list /\ N.list[i + 1] = Q.list[i]
        BY <1>1, <1>3, SMTT(40)
      <4> QED
        BY <4>1, <4>2, <4>3
    <3> QED
      BY <3>1, <3>2
  <2>2. ASSUME NEW j \in DOMAIN N.chain, NEW k \in DOMAIN N.chain, NEW t \in Movers,
               T[N.chain[j]][t] # 0, T[N.chain[k]][t] # 0
        PROVE  j = k
    <3>1. CASE t = o
      <4>1. o # Moves!None
        BY <3>1, MovesAssumption
      <4> QED
        BY <1>2, <2>2, <3>1, <4>1
    <3>2. CASE t # o
      <4>1. j \in DOMAIN Q.chain /\ k \in DOMAIN Q.chain
        BY <1>2
      <4>2. S[Q.chain[j]][t] # 0 /\ S[Q.chain[k]][t] # 0
        BY <1>2, <2>2, <3>2
      <4> QED
        BY <4>1, <4>2 DEF QueueOK, TablesOf
    <3> QED
      BY <3>1, <3>2
  <2> QED
    BY <2>1, <2>2, SMTT(30) DEF TablesOf
<1>12. CountsOf(N, P)
  <2> DEFINE B == {i \in 2 .. n + 1 : i - 1 \in Owned(Q, P)}
  <2>1. /\ Moves!Cardinality(B) = Moves!Cardinality(Owned(Q, P))
        /\ Moves!Cardinality(B \cup {1}) = Moves!Cardinality(Owned(Q, P)) + 1
    BY <1>1, <1>9, ShiftedCount
  <2>2. Owned(N, P) = IF o = Moves!None THEN B ELSE B \cup {1}
    BY <1>9
  <2>3. Q.count = n /\ Q.hashCount = Moves!Cardinality(Owned(Q, P))
    BY DEF QueueOK, CountsOf
  <2> HIDE DEF B
  <2> QED
    BY <1>2, <1>3, <2>1, <2>2, <2>3 DEF CountsOf
<1>13. \A i \in DOMAIN Q.list : i + 1 \in DOMAIN N.list /\ N.list[i + 1] = Q.list[i]
  BY <1>1, <1>3, SMTT(30)
<1> QED
  BY <1>3, <1>4, <1>6, <1>10, <1>11, <1>12, <1>13 DEF QueueOK

-----------------------------------------------------------------------------
\* What is kept of a producer when other fields of it are written.
LEMMA EntryTyped ==
  ASSUME NEW q \in Objects, NEW o \in Movers \cup {Moves!None}, NEW k \in Handles \cup {Moves!None},
         NEW b \in BOOLEAN
  PROVE  [parent |-> q, owner |-> o, token |-> k, inactive |-> b] \in Entries
  BY Zenon DEF Entries

\* The four fields of a producer.
LEMMA EntryFields ==
  ASSUME NEW e \in Entries
  PROVE  /\ e.parent \in Objects /\ e.owner \in Movers \cup {Moves!None}
         /\ e.token \in Handles \cup {Moves!None} /\ e.inactive \in BOOLEAN
         /\ e = [parent |-> e.parent, owner |-> e.owner, token |-> e.token, inactive |-> e.inactive]
  BY DEF Entries

\* Moved to another queue, and to another token.
LEMMA EntryMoved ==
  ASSUME NEW e \in Entries, NEW q \in Objects, NEW m, m = [e EXCEPT !.parent = q]
  PROVE  /\ m \in Entries /\ m.parent = q
         /\ m.owner = e.owner /\ m.token = e.token /\ m.inactive = e.inactive
<1>1. m = [parent |-> q, owner |-> e.owner, token |-> e.token, inactive |-> e.inactive]
  BY EntryFields
<1> QED
  BY <1>1, EntryFields, EntryTyped

\* Given to another token.
LEMMA EntryPointed ==
  ASSUME NEW e \in Entries, NEW k \in Handles \cup {Moves!None}, NEW m, m = [e EXCEPT !.token = k]
  PROVE  /\ m \in Entries /\ m.token = k
         /\ m.parent = e.parent /\ m.owner = e.owner /\ m.inactive = e.inactive
<1>1. m = [parent |-> e.parent, owner |-> e.owner, token |-> k, inactive |-> e.inactive]
  BY EntryFields
<1> QED
  BY <1>1, EntryFields, EntryTyped

\* One producer of them replaced.
LEMMA EntryUpdated ==
  ASSUME NEW P \in Seq(Entries), NEW p \in 1 .. Len(P), NEW e \in Entries,
         NEW R, R = [P EXCEPT ![p] = e]
  PROVE  /\ R \in Seq(Entries) /\ Len(R) = Len(P) /\ R[p] = e
         /\ \A r \in 1 .. Len(P) : r # p => R[r] = P[r]
  OBVIOUS

\* A step of tokens: of the queues' producers only the token changes, and
\* whether they are used.
LEMMA TokensOnly ==
  ASSUME MoveInv, UNCHANGED <<alive, queue, slots>>,
         producers' \in Seq(Entries), Len(producers') = Len(producers),
         \A p \in 1 .. Len(producers) : /\ producers'[p].parent = producers[p].parent
                                        /\ producers'[p].owner = producers[p].owner,
         holder' \in [Handles -> {Moves!NoObject} \cup 0 .. MaxMade], Pointed'
  PROVE  MoveInv'
<1>1. MoveTypes' /\ OwnChains' /\ Blank'
  BY DEF MoveInv, MoveTypes, OwnChains, Blank
<1>2. Len(producers) \in Nat
  BY DEF MoveInv, MoveTypes
<1>3. ASSUME NEW q \in alive' PROVE QueueOK(q, queue[q], producers', slots)
  <2>1. QueueOK(q, queue[q], producers, slots)
    BY <1>3 DEF MoveInv
  <2>2. \A i \in DOMAIN queue[q].list : queue[q].list[i] \in 1 .. Len(producers)
    BY <2>1 DEF QueueOK, ListOf
  <2>3. \A i \in DOMAIN queue[q].list :
          /\ producers'[queue[q].list[i]].parent = producers[queue[q].list[i]].parent
          /\ producers'[queue[q].list[i]].owner = producers[queue[q].list[i]].owner
    BY <2>2
  <2> QED
    BY <1>2, <2>1, <2>3, Unmoved
<1> QED
  BY <1>1, <1>3 DEF MoveInv

\* A token destroyed lets its producer go.
LEMMA DestroyTokenStep == ASSUME MoveInv, NEW k \in Handles, Moves!DestroyToken(k) PROVE MoveInv'
<1> DEFINE p == holder[k]
<1>1. holder \in [Handles -> {Moves!NoObject} \cup 0 .. MaxMade] /\ producers \in Seq(Entries)
  BY DEF MoveInv, MoveTypes
<1>2. /\ p # Moves!NoObject /\ holder' = [holder EXCEPT ![k] = Moves!NoObject]
      /\ UNCHANGED <<alive, queue, slots>>
  BY DEF Moves!DestroyToken
<1>3. holder' \in [Handles -> {Moves!NoObject} \cup 0 .. MaxMade]
  BY <1>1, <1>2
<1>4. \A j \in Handles : j # k => holder'[j] = holder[j]
  BY <1>1, <1>2
<1>5. CASE p = 0
  <2>1. producers' = producers
    BY <1>5 DEF Moves!DestroyToken
  <2>2. Pointed'
    BY <1>1, <1>2, <1>4, <2>1 DEF MoveInv, Pointed
  <2> QED
    BY <1>1, <1>2, <1>3, <2>1, <2>2, TokensOnly
<1>6. CASE p # 0
  <2>1. p \in 1 .. Len(producers) /\ producers[p].token = k
    BY <1>2, <1>6 DEF MoveInv, Pointed
  <2>2. producers' = [producers EXCEPT ![p].token = Moves!None, ![p].inactive = TRUE]
    BY <1>6 DEF Moves!DestroyToken
  <2>3. PICK b \in BOOLEAN : b = TRUE
    BY Zenon
  <2>4. PICK R : R = producers'
    OBVIOUS
  <2>7. PICK m \in Handles \cup {Moves!None} : m = Moves!None
    OBVIOUS
  <2>8. PICK e : e = [producers[p] EXCEPT !.token = m, !.inactive = b]
    OBVIOUS
  <2>9. e \in Entries /\ e.parent = producers[p].parent /\ e.owner = producers[p].owner
    <3>1. PICK d \in Entries : d = producers[p]
      BY <1>1, <2>1
    <3>2. e = [d EXCEPT !.token = m, !.inactive = b]
      BY <2>8, <3>1
    <3>3. e = [parent |-> d.parent, owner |-> d.owner, token |-> m, inactive |-> b]
      BY <3>2 DEF Entries
    <3>4. [parent |-> d.parent, owner |-> d.owner, token |-> m, inactive |-> b] \in Entries
      BY EntryFields, EntryTyped
    <3> QED
      BY <3>1, <3>3, <3>4
  <2>10. R = [producers EXCEPT ![p] = e]
    BY <1>1, <2>1, <2>2, <2>3, <2>4, <2>7, <2>8
  <2>12. /\ R \in Seq(Entries) /\ Len(R) = Len(producers) /\ R[p] = e
         /\ \A i \in 1 .. Len(producers) : i # p => R[i] = producers[i]
    BY <1>1, <2>1, <2>9, <2>10, EntryUpdated
  <2>11. /\ producers' \in Seq(Entries) /\ Len(producers') = Len(producers)
         /\ producers'[p].parent = producers[p].parent /\ producers'[p].owner = producers[p].owner
         /\ \A i \in 1 .. Len(producers) : i # p => producers'[i] = producers[i]
    BY <2>4, <2>9, <2>12
  <2>5. Pointed'
    <3>1. \A j \in Handles : j # k /\ holder[j] \notin {0, Moves!NoObject} => holder[j] # p
      BY <2>1 DEF MoveInv, Pointed
    <3>2. holder'[k] = Moves!NoObject
      BY <1>1, <1>2
    <3> QED
      BY <1>2, <1>4, <2>11, <3>1, <3>2 DEF MoveInv, Pointed
  <2>6. \A r \in 1 .. Len(producers) : /\ producers'[r].parent = producers[r].parent
                                       /\ producers'[r].owner = producers[r].owner
    BY <2>11
  <2> QED
    BY <1>2, <1>3, <2>5, <2>6, <2>11, TokensOnly
<1> QED
  BY <1>5, <1>6

\* producer->token = this: each producer that one of the tokens has points at it.
LEMMA PointedBack ==
  ASSUME MoveInv, NEW K \in SUBSET Handles, Moves!PointBack(K), UNCHANGED <<alive, queue, slots>>,
         holder' \in [Handles -> {Moves!NoObject} \cup 0 .. MaxMade],
         \A j \in Handles \ K : holder'[j] \in {0, Moves!NoObject, holder[j]},
         \A j \in K : holder'[j] \in {0, Moves!NoObject} \/ \E k \in Handles : holder'[j] = holder[k],
         \A j, k \in Handles : holder'[j] = holder'[k] /\ holder'[j] \notin {0, Moves!NoObject} => j = k
  PROVE  MoveInv'
<1>1. /\ holder \in [Handles -> {Moves!NoObject} \cup 0 .. MaxMade] /\ producers \in Seq(Entries)
      /\ Len(producers) \in Nat /\ DOMAIN producers = 1 .. Len(producers)
  BY DEF MoveInv, MoveTypes
<1> DEFINE Of(p) == CHOOSE k \in K : holder'[k] = p
           Has(p) == \E k \in K : holder'[k] = p
<1>2. producers' = [p \in 1 .. Len(producers) |->
                      IF Has(p) THEN [producers[p] EXCEPT !.token = Of(p)] ELSE producers[p]]
  BY <1>1 DEF Moves!PointBack
<1>3. \A p \in 1 .. Len(producers) : Has(p) => Of(p) \in K /\ holder'[Of(p)] = p
  OBVIOUS
<1> HIDE DEF Of, Has
<1>4. ASSUME NEW p \in 1 .. Len(producers)
      PROVE  /\ producers'[p] \in Entries /\ producers'[p].parent = producers[p].parent
             /\ producers'[p].owner = producers[p].owner /\ producers'[p].inactive = producers[p].inactive
             /\ producers'[p].token = IF Has(p) THEN Of(p) ELSE producers[p].token
  <2>1. producers[p] \in Entries
    BY <1>1
  <2>2. CASE Has(p)
    <3>1. Of(p) \in Handles \cup {Moves!None}
      BY <1>3, <2>2
    <3>2. producers'[p] = [producers[p] EXCEPT !.token = Of(p)]
      BY <1>2, <2>2
    <3>3. PICK m \in Handles \cup {Moves!None} : m = Of(p)
      BY <3>1
    <3>4. PICK e \in Entries : e = producers[p]
      BY <2>1
    <3>5. producers'[p] = [e EXCEPT !.token = m]
      BY <3>2, <3>3, <3>4
    <3>6. PICK d : d = [e EXCEPT !.token = m]
      OBVIOUS
    <3>9. d \in Entries /\ d.token = m /\ d.parent = e.parent /\ d.owner = e.owner /\ d.inactive = e.inactive
      BY <3>6, EntryPointed
    <3>7. /\ producers'[p] \in Entries /\ producers'[p].parent = producers[p].parent
          /\ producers'[p].owner = producers[p].owner /\ producers'[p].inactive = producers[p].inactive
      BY <3>4, <3>5, <3>6, <3>9
    <3>8. producers'[p].token = Of(p)
      BY <3>3, <3>5, <3>6, <3>9
    <3> QED
      BY <2>2, <3>7, <3>8
  <2>3. CASE ~ Has(p)
    BY <1>2, <2>1, <2>3
  <2> QED
    BY <2>2, <2>3
<1>5. producers' \in Seq(Entries) /\ Len(producers') = Len(producers)
  <2>1. producers' = [p \in 1 .. Len(producers) |-> producers'[p]]
    BY <1>2
  <2> QED
    BY <1>1, <1>4, <2>1
<1>6. Pointed'
  <2> SUFFICES ASSUME NEW k \in Handles, holder'[k] \notin {0, Moves!NoObject}
               PROVE  /\ holder'[k] \in 1 .. Len(producers) /\ producers'[holder'[k]].token = k
                      /\ ~ producers'[holder'[k]].inactive
                      /\ \E q \in alive : \E i \in DOMAIN queue[q].list : queue[q].list[i] = holder'[k]
    BY <1>5 DEF Pointed
  <2>1. PICK j \in Handles : holder'[k] = holder[j]
    BY <1>1
  <2>2. /\ holder'[k] \in 1 .. Len(producers) /\ producers[holder'[k]].token = j
        /\ ~ producers[holder'[k]].inactive
        /\ \E q \in alive : \E i \in DOMAIN queue[q].list : queue[q].list[i] = holder'[k]
    BY <2>1 DEF MoveInv, Pointed
  <2>3. CASE k \in K
    <3>1. Has(holder'[k])
      BY <2>3 DEF Has
    <3>2. Of(holder'[k]) = k
      BY <1>3, <2>2, <3>1
    <3> QED
      BY <1>4, <2>2, <3>1, <3>2
  <2>4. CASE k \notin K
    <3>1. ~ Has(holder'[k])
      BY <2>4 DEF Has
    <3>2. holder'[k] = holder[k]
      BY <2>4
    <3>3. producers[holder'[k]].token = k
      BY <2>2, <3>2 DEF MoveInv, Pointed
    <3> QED
      BY <1>4, <2>2, <3>1, <3>3
  <2> QED
    BY <2>3, <2>4
<1> QED
  BY <1>4, <1>5, <1>6, TokensOnly

\* Tokens moved and swapped: their producers follow.
LEMMA MoveTokensStep ==
  ASSUME MoveInv, NEW a \in Handles, NEW b \in Handles, Moves!MoveToken(a, b) \/ Moves!SwapTokens(a, b)
  PROVE  MoveInv'
<1>1. holder \in [Handles -> {Moves!NoObject} \cup 0 .. MaxMade]
  BY DEF MoveInv, MoveTypes
<1>2. \A j, k \in Handles : holder[j] = holder[k] /\ holder[j] \notin {0, Moves!NoObject} => j = k
  BY DEF MoveInv, Pointed
<1>3. CASE Moves!MoveToken(a, b)
  <2>1. /\ a # b /\ holder' = [holder EXCEPT ![a] = holder[b], ![b] = 0]
        /\ holder[a] = Moves!NoObject
        /\ Moves!PointBack({a}) /\ UNCHANGED <<alive, queue, slots>>
    BY <1>3 DEF Moves!MoveToken
  <2>2. /\ holder'[a] = holder[b] /\ holder'[b] = 0 /\ \A j \in Handles \ {a, b} : holder'[j] = holder[j]
        /\ holder' \in [Handles -> {Moves!NoObject} \cup 0 .. MaxMade]
    BY <1>1, <2>1, MovesAssumption
  <2>3. \A j, k \in Handles : holder'[j] = holder'[k] /\ holder'[j] \notin {0, Moves!NoObject} => j = k
    BY <1>2, <2>1, <2>2
  <2>4. {a} \in SUBSET Handles /\ \A j \in Handles \ {a} : holder'[j] \in {0, Moves!NoObject, holder[j]}
    BY <2>2
  <2>5. \A j \in {a} : holder'[j] \in {0, Moves!NoObject} \/ \E k \in Handles : holder'[j] = holder[k]
    BY <2>2
  <2> QED
    BY <2>1, <2>2, <2>3, <2>4, <2>5, PointedBack
<1>4. CASE Moves!SwapTokens(a, b)
  <2>1. /\ a # b /\ holder' = [holder EXCEPT ![a] = holder[b], ![b] = holder[a]]
        /\ Moves!PointBack({a, b}) /\ UNCHANGED <<alive, queue, slots>>
    BY <1>4 DEF Moves!SwapTokens
  <2>2. /\ holder'[a] = holder[b] /\ holder'[b] = holder[a] /\ \A j \in Handles \ {a, b} : holder'[j] = holder[j]
        /\ holder' \in [Handles -> {Moves!NoObject} \cup 0 .. MaxMade]
    BY <1>1, <2>1
  <2>3. \A j, k \in Handles : holder'[j] = holder'[k] /\ holder'[j] \notin {0, Moves!NoObject} => j = k
    BY <1>2, <2>1, <2>2
  <2>4. {a, b} \in SUBSET Handles /\ \A j \in Handles \ {a, b} : holder'[j] \in {0, Moves!NoObject, holder[j]}
    BY <2>2
  <2>5. \A j \in {a, b} : holder'[j] \in {0, Moves!NoObject} \/ \E k \in Handles : holder'[j] = holder[k]
    BY <2>2
  <2> QED
    BY <2>1, <2>2, <2>3, <2>4, <2>5, PointedBack
<1> QED
  BY <1>3, <1>4

-----------------------------------------------------------------------------
\* A queue's chain has its own table, and beside it numbered ones.
LEMMA OwnOrNumbered ==
  ASSUME NEW q, NEW Q, NEW P, NEW S, QueueOK(q, Q, P, S), Q \in Holdings, Len(P) \in Nat, Len(P) <= MaxMade,
         NEW j \in DOMAIN Q.chain
  PROVE  Q.chain[j] = q \/ Q.chain[j] \in 1 .. Len(P)
<1>1. Q.chain \in Seq(Moves!Tables) /\ DOMAIN Q.chain = 1 .. Len(Q.chain)
  BY DEF Holdings
<1> QED
  BY <1>1 DEF QueueOK, ChainOf

\* Whom a search of a queue's tables finds.
LEMMA FoundThere ==
  ASSUME NEW q, QueueOK(q, queue[q], producers, slots), queue[q] \in Holdings, NEW t \in Movers
  PROVE  /\ \A j \in DOMAIN queue[q].chain :
              slots[queue[q].chain[j]][t] # 0 => Moves!Found(q, t) = slots[queue[q].chain[j]][t]
         /\ Moves!Found(q, t) # 0 =>
              \E j \in DOMAIN queue[q].chain : Moves!Found(q, t) = slots[queue[q].chain[j]][t]
<1> DEFINE C == queue[q].chain
           hits == {i \in DOMAIN C : slots[C[i]][t] # 0}
<1>1. Moves!Found(q, t) = IF hits = {} THEN 0
                          ELSE slots[C[CHOOSE i \in hits : \A j \in hits : i <= j]][t]
  BY DEF Moves!Found
<1>2. \A i, j \in hits : i = j
  BY DEF QueueOK, TablesOf
<1>3. hits \subseteq DOMAIN C /\ DOMAIN C \subseteq Nat
  <2>1. C \in Seq(Moves!Tables)
    BY DEF Holdings
  <2> QED
    BY <2>1
<1>4. \A j \in DOMAIN C : slots[C[j]][t] # 0 => j \in hits
  OBVIOUS
<1> HIDE DEF hits
<1>5. ASSUME NEW j \in hits PROVE Moves!Found(q, t) = slots[C[j]][t]
  <2>1. hits = {j}
    BY <1>2
  <2>2. (CHOOSE i \in {j} : \A k \in {j} : i <= k) = j
    <3>1. j \in Nat
      BY <1>3
    <3> QED
      BY <3>1
  <2> QED
    BY <1>1, <2>1, <2>2
<1>6. hits = {} => Moves!Found(q, t) = 0
  BY <1>1
<1>7. hits # {} => \E j \in DOMAIN C : Moves!Found(q, t) = slots[C[j]][t]
  BY <1>3, <1>5
<1> QED
  BY <1>4, <1>5, <1>6, <1>7

\* A queue that is made has what it should.
LEMMA FreshOK ==
  ASSUME NEW q \in Objects, NEW P, NEW S, S[q] = Moves!Unused
  PROVE  Moves!Fresh(q) \in Holdings /\ QueueOK(q, Moves!Fresh(q), P, S)
<1> DEFINE Q == Moves!Fresh(q)
<1>1. Q = [list |-> <<>>, count |-> 0, chain |-> <<q>>, hashCount |-> 0]
  BY DEF Moves!Fresh
<1>2. Q.list = <<>> /\ Q.count = 0 /\ Q.chain = <<q>> /\ Q.hashCount = 0
  BY <1>1
<1>3. /\ DOMAIN Q.list = {} /\ Len(Q.list) = 0 /\ Len(Q.chain) = 1 /\ DOMAIN Q.chain = {1}
      /\ Q.chain[1] = q
  BY <1>2
<1>4. Q.list \in Seq(1 .. MaxMade) /\ Q.chain \in Seq(Moves!Tables)
  BY <1>2 DEF Moves!Tables
<1>5. Q \in Holdings
  BY <1>1, <1>2, <1>4 DEF Holdings
<1> HIDE DEF Q
<1>6. Owned(Q, P) = {} /\ Moves!Cardinality({}) = 0
  BY <1>3, CountMoved, FS_EmptySet DEF Owned
<1>7. ChainOf(q, Q, P)
  BY <1>3 DEF ChainOf
<1>8. ListOf(q, Q, P, S)
  BY <1>3, <1>6 DEF ListOf
<1>9. TablesOf(Q, S)
  BY <1>3 DEF TablesOf, Moves!Unused
<1>10. CountsOf(Q, P)
  BY <1>2, <1>3, <1>6 DEF CountsOf
<1> QED
  BY <1>5, <1>7, <1>8, <1>9, <1>10 DEF QueueOK, Q

\* A queue made: its own table, which the name was not in use for, is blank.
LEMMA ConstructStep == ASSUME MoveInv, NEW q \in Objects, Moves!Construct(q) PROVE MoveInv'
<1> DEFINE F == Moves!Fresh(q)
<1>1. /\ q \notin alive /\ alive' = alive \cup {q} /\ queue' = [queue EXCEPT ![q] = F]
      /\ slots' = [slots EXCEPT ![q] = Moves!Unused] /\ UNCHANGED <<producers, holder>>
  BY DEF Moves!Construct
<1>2. /\ alive \subseteq Objects /\ queue \in [Objects -> Holdings]
      /\ slots \in [Moves!Tables -> [Movers -> 0 .. MaxMade]] /\ producers \in Seq(Entries)
      /\ Len(producers) <= MaxMade /\ Len(producers) \in Nat
  BY DEF MoveInv, MoveTypes
<1>3. q \in Moves!Tables /\ Moves!Unused \in [Movers -> 0 .. MaxMade]
  BY MovesAssumption DEF Moves!Tables, Moves!Unused
<1>4. slots'[q] = Moves!Unused /\ \A h \in Moves!Tables : h # q => slots'[h] = slots[h]
  BY <1>1, <1>2, <1>3
<1>5. F \in Holdings /\ QueueOK(q, F, producers, slots') /\ F.chain = <<q>>
  <2>1. PICK S : S = slots'
    OBVIOUS
  <2>2. F \in Holdings /\ QueueOK(q, F, producers, S)
    BY <1>4, <2>1, FreshOK
  <2>3. F.chain = <<q>>
    BY DEF Moves!Fresh
  <2> QED
    BY <2>1, <2>2, <2>3
<1> HIDE DEF F
<1>6. queue' \in [Objects -> Holdings] /\ queue'[q] = F /\ \A r \in alive : queue'[r] = queue[r]
  BY <1>1, <1>2, <1>5
<1>7. MoveTypes'
  <2>1. slots' \in [Moves!Tables -> [Movers -> 0 .. MaxMade]]
    BY <1>1, <1>2, <1>3
  <2>2. alive' \subseteq Objects
    BY <1>1, <1>2
  <2> QED
    BY <1>1, <1>6, <2>1, <2>2 DEF MoveInv, MoveTypes
<1>8. \A r \in alive : \A j \in DOMAIN queue[r].chain : queue[r].chain[j] # q
  <2> SUFFICES ASSUME NEW r \in alive, NEW j \in DOMAIN queue[r].chain PROVE queue[r].chain[j] # q
    OBVIOUS
  <2>1. QueueOK(r, queue[r], producers, slots) /\ queue[r] \in Holdings
    BY <1>2 DEF MoveInv
  <2>2. queue[r].chain[j] = r \/ queue[r].chain[j] \in 1 .. MaxMade
    BY <1>2, <2>1, OwnOrNumbered, MovesAssumption
  <2> QED
    BY <1>1, <2>2, MovesAssumption
<1>9. OwnChains'
  <2>1. DOMAIN F.chain = {1} /\ F.chain[1] = q
    BY <1>5
  <2> QED
    BY <1>1, <1>6, <1>8, <2>1 DEF MoveInv, OwnChains
<1>10. Blank'
  <2>1. \A h \in 1 .. MaxMade : slots'[h] = slots[h]
    BY <1>4, MovesAssumption DEF Moves!Tables
  <2> QED
    BY <1>1, <2>1 DEF MoveInv, Blank
<1>11. Pointed'
  BY <1>1, <1>6 DEF MoveInv, Pointed
<1>12. ASSUME NEW r \in alive' PROVE QueueOK(r, queue'[r], producers, slots')
  <2>1. CASE r = q
    BY <1>5, <1>6, <2>1
  <2>2. CASE r # q
    <3>1. r \in alive /\ queue'[r] = queue[r] /\ queue[r] \in Holdings
      BY <1>1, <1>2, <1>6, <2>2
    <3>2. QueueOK(r, queue[r], producers, slots)
      BY <3>1 DEF MoveInv
    <3>3. \A j \in DOMAIN queue[r].chain : slots'[queue[r].chain[j]] = slots[queue[r].chain[j]]
      <4>1. \A j \in DOMAIN queue[r].chain : queue[r].chain[j] \in Moves!Tables
        BY <3>1 DEF Holdings
      <4> QED
        BY <1>4, <1>8, <3>1, <4>1
    <3> QED
      BY <1>2, <3>1, <3>2, <3>3, Unmoved
  <2> QED
    BY <2>1, <2>2
<1> QED
  BY <1>1, <1>7, <1>9, <1>10, <1>11, <1>12 DEF MoveInv

\* A queue destroyed: its tokens are not valid any more.
LEMMA DestroyStep == ASSUME MoveInv, NEW q \in Objects, Moves!Destroy(q) PROVE MoveInv'
<1>1. /\ q \in alive /\ alive' = alive \ {q} /\ UNCHANGED <<queue, slots, producers>>
      /\ holder' = [k \in Handles |->
                      IF \E p \in Moves!ToSet(queue[q].list) : producers[p].token = k THEN 0 ELSE holder[k]]
  BY DEF Moves!Destroy
<1>2. holder \in [Handles -> {Moves!NoObject} \cup 0 .. MaxMade]
  BY DEF MoveInv, MoveTypes
<1>3. MoveTypes'
  BY <1>1, <1>2, MovesAssumption DEF MoveInv, MoveTypes
<1>4. OwnChains' /\ Blank' /\ \A r \in alive' : QueueOK(r, queue[r], producers, slots)
  BY <1>1 DEF MoveInv, OwnChains, Blank
<1>5. Pointed'
  <2> SUFFICES ASSUME NEW k \in Handles, holder'[k] \notin {0, Moves!NoObject}
               PROVE  /\ holder'[k] \in 1 .. Len(producers) /\ producers[holder'[k]].token = k
                      /\ ~ producers[holder'[k]].inactive
                      /\ \E r \in alive' : \E i \in DOMAIN queue[r].list : queue[r].list[i] = holder'[k]
    BY <1>1 DEF Pointed
  <2>1. /\ holder'[k] = holder[k]
        /\ \A i \in DOMAIN queue[q].list : producers[queue[q].list[i]].token # k
    BY <1>1 DEF Moves!ToSet
  <2>2. /\ holder[k] \in 1 .. Len(producers) /\ producers[holder[k]].token = k
        /\ ~ producers[holder[k]].inactive
        /\ \E r \in alive : \E i \in DOMAIN queue[r].list : queue[r].list[i] = holder[k]
    BY <2>1 DEF MoveInv, Pointed
  <2>3. \A i \in DOMAIN queue[q].list : queue[q].list[i] # holder[k]
    BY <2>1, <2>2
  <2> QED
    BY <1>1, <2>1, <2>2, <2>3
<1> QED
  BY <1>1, <1>3, <1>4, <1>5 DEF MoveInv

-----------------------------------------------------------------------------
\* A producer more, e, in one of the queues, which has N then.
Grows(q, e, N) ==
  /\ q \in alive /\ e \in Entries /\ N \in Holdings /\ Len(producers) + 1 <= MaxMade
  /\ alive' = alive /\ producers' = Append(producers, e) /\ queue' = [queue EXCEPT ![q] = N]
  /\ QueueOK(q, N, producers', slots')
  /\ slots' \in [Moves!Tables -> [Movers -> 0 .. MaxMade]]
  /\ \A h \in 1 .. MaxMade : h > Len(producers) + 1 => slots'[h] = slots[h]
  /\ \A r \in alive \ {q} : \A j \in DOMAIN queue[r].chain :
       slots'[queue[r].chain[j]] = slots[queue[r].chain[j]]
  /\ \A i \in DOMAIN N.chain :
       N.chain[i] = Len(producers) + 1 \/ \E j \in DOMAIN queue[q].chain : N.chain[i] = queue[q].chain[j]
  /\ \A i \in DOMAIN queue[q].list : \E j \in DOMAIN N.list : N.list[j] = queue[q].list[i]
  /\ \E j \in DOMAIN N.list : N.list[j] = Len(producers) + 1
  /\ holder' \in [Handles -> {Moves!NoObject} \cup 0 .. MaxMade]
  /\ \A k \in Handles :
       holder'[k] = holder[k] \/ (holder'[k] = Len(producers) + 1 /\ e.token = k /\ ~ e.inactive)

\* What there was is kept then, and the new producer is its queue's.
LEMMA Grown == ASSUME MoveInv, NEW q, NEW e, NEW N, Grows(q, e, N) PROVE MoveInv'
<1> USE DEF Grows
<1> DEFINE n == Len(producers)
<1>1. /\ alive \subseteq Objects /\ queue \in [Objects -> Holdings] /\ producers \in Seq(Entries)
      /\ n \in Nat /\ n <= MaxMade
  BY DEF MoveInv, MoveTypes
<1>2. /\ producers' \in Seq(Entries) /\ Len(producers') = n + 1 /\ producers'[n + 1] = e
      /\ \A p \in 1 .. n : producers'[p] = producers[p]
  BY <1>1
<1>3. queue' \in [Objects -> Holdings] /\ queue'[q] = N /\ \A r \in alive \ {q} : queue'[r] = queue[r]
  BY <1>1
<1>4. MoveTypes'
  BY <1>1, <1>2, <1>3 DEF MoveTypes
<1>5. \A r \in alive : \A j \in DOMAIN queue[r].chain : queue[r].chain[j] # n + 1
  <2> SUFFICES ASSUME NEW r \in alive, NEW j \in DOMAIN queue[r].chain PROVE queue[r].chain[j] # n + 1
    OBVIOUS
  <2>1. QueueOK(r, queue[r], producers, slots) /\ queue[r] \in Holdings
    BY <1>1 DEF MoveInv
  <2>2. queue[r].chain[j] = r \/ queue[r].chain[j] \in 1 .. n
    BY <1>1, <2>1, OwnOrNumbered
  <2>3. n + 1 \in 1 .. MaxMade /\ r \in Objects
    BY <1>1, MovesAssumption
  <2>4. r # n + 1
    BY <2>3, MovesAssumption
  <2> QED
    BY <1>1, <2>2, <2>4
<1>6. OwnChains'
  <2>1. ASSUME NEW r \in alive \ {q}, NEW i \in DOMAIN N.chain, NEW j \in DOMAIN queue[r].chain
        PROVE  N.chain[i] # queue[r].chain[j]
    <3>1. CASE N.chain[i] = n + 1
      BY <1>5, <3>1
    <3>2. CASE N.chain[i] # n + 1
      <4>1. PICK l \in DOMAIN queue[q].chain : N.chain[i] = queue[q].chain[l]
        BY <3>2
      <4> QED
        BY <4>1 DEF MoveInv, OwnChains
    <3> QED
      BY <3>1, <3>2
  <2> QED
    BY <1>3, <2>1 DEF MoveInv, OwnChains
<1>7. Blank'
  BY <1>1, <1>2 DEF MoveInv, Blank
<1>8. Pointed'
  <2> SUFFICES ASSUME NEW k \in Handles, holder'[k] \notin {0, Moves!NoObject}
               PROVE  /\ holder'[k] \in 1 .. Len(producers') /\ producers'[holder'[k]].token = k
                      /\ ~ producers'[holder'[k]].inactive
                      /\ \E r \in alive : \E i \in DOMAIN queue'[r].list : queue'[r].list[i] = holder'[k]
    BY DEF Pointed
  <2>1. CASE holder'[k] = holder[k]
    <3>1. /\ holder[k] \in 1 .. n /\ producers[holder[k]].token = k /\ ~ producers[holder[k]].inactive
          /\ \E r \in alive : \E i \in DOMAIN queue[r].list : queue[r].list[i] = holder[k]
      BY <2>1 DEF MoveInv, Pointed
    <3>2. PICK r \in alive : \E i \in DOMAIN queue[r].list : queue[r].list[i] = holder[k]
      BY <3>1
    <3>3. \E i \in DOMAIN queue'[r].list : queue'[r].list[i] = holder[k]
      <4>1. CASE r = q
        BY <1>3, <3>2, <4>1
      <4>2. CASE r # q
        BY <1>3, <3>2, <4>2
      <4> QED
        BY <4>1, <4>2
    <3>4. holder[k] \in 1 .. n + 1
      BY <1>1, <3>1
    <3> QED
      BY <1>2, <2>1, <3>1, <3>3, <3>4
  <2>2. CASE holder'[k] # holder[k]
    <3>1. holder'[k] = n + 1 /\ e.token = k /\ ~ e.inactive /\ n + 1 \in 1 .. n + 1
      BY <1>1, <2>2
    <3> QED
      BY <1>2, <1>3, <3>1
  <2> QED
    BY <2>1, <2>2
<1>9. ASSUME NEW r \in alive PROVE QueueOK(r, queue'[r], producers', slots')
  <2>1. CASE r = q
    BY <1>3, <2>1
  <2>2. CASE r # q
    <3>1. QueueOK(r, queue[r], producers, slots) /\ queue'[r] = queue[r]
      BY <1>3, <2>2 DEF MoveInv
    <3>2. \A i \in DOMAIN queue[r].list : queue[r].list[i] \in 1 .. n
      BY <3>1 DEF QueueOK, ListOf
    <3>3. \A i \in DOMAIN queue[r].list :
            /\ producers'[queue[r].list[i]].parent = producers[queue[r].list[i]].parent
            /\ producers'[queue[r].list[i]].owner = producers[queue[r].list[i]].owner
      BY <1>2, <3>2
    <3>4. Len(producers) <= Len(producers') /\ Len(producers') \in Nat
      BY <1>1, <1>2
    <3>5. \A j \in DOMAIN queue[r].chain : slots'[queue[r].chain[j]] = slots[queue[r].chain[j]]
      BY <2>2
    <3> QED
      BY <1>1, <3>1, <3>3, <3>4, <3>5, Unmoved
  <2> QED
    BY <2>1, <2>2
<1> QED
  BY <1>4, <1>6, <1>7, <1>8, <1>9 DEF MoveInv

\* A token made that takes over a producer of its queue: nobody else has it.
LEMMA RecycleStep ==
  ASSUME MoveInv, NEW k \in Handles, NEW q \in Objects, Moves!MakeToken(k, q), Moves!Recyclable(q) # {}
  PROVE  MoveInv'
<1> DEFINE i == CHOOSE i \in Moves!Recyclable(q) : \A j \in Moves!Recyclable(q) : i <= j
           p == queue[q].list[i]
<1>18. q \in alive /\ alive' = alive /\ queue' = queue /\ slots' = slots
  BY DEF Moves!MakeToken
<1>19. i \in Moves!Recyclable(q)
  <2>1. Moves!Recyclable(q) \subseteq Nat
    <3>1. queue[q].list \in Seq(1 .. MaxMade)
      BY <1>18 DEF MoveInv, MoveTypes, Holdings
    <3> QED
      BY <3>1 DEF Moves!Recyclable
  <2>2. \E n \in Moves!Recyclable(q) : \A j \in Moves!Recyclable(q) : n <= j
    BY <2>1, Least, SMTT(40)
  <2> QED
    BY <2>2
<1>20. producers' = [producers EXCEPT ![p].inactive = FALSE, ![p].token = k]
  BY DEF Moves!MakeToken
<1>21. holder' = [holder EXCEPT ![k] = p]
  BY DEF Moves!MakeToken
<1> HIDE DEF i
<1>1. /\ holder \in [Handles -> {Moves!NoObject} \cup 0 .. MaxMade] /\ producers \in Seq(Entries)
      /\ Len(producers) \in Nat /\ Len(producers) <= MaxMade
  BY DEF MoveInv, MoveTypes
<1>2. i \in DOMAIN queue[q].list /\ producers[p].owner = Moves!None /\ producers[p].inactive
  BY <1>19 DEF Moves!Recyclable
<1>3. QueueOK(q, queue[q], producers, slots)
  BY <1>18, SMTT(40) DEF MoveInv
<1>4. p \in 1 .. Len(producers)
  BY <1>2, <1>3 DEF QueueOK, ListOf
<1>5. \E r \in alive : \E j \in DOMAIN queue[r].list : queue[r].list[j] = p
  BY <1>2, <1>18
<1> HIDE DEF p
<1>6. PICK b \in BOOLEAN : b = FALSE
  BY Zenon
<1>7. PICK m \in Handles \cup {Moves!None} : m = k
  OBVIOUS
<1>8. PICK d \in Entries : d = producers[p]
  BY <1>1, <1>4
<1>9. PICK e : e = [d EXCEPT !.inactive = b, !.token = m]
  OBVIOUS
<1>10. e = [parent |-> d.parent, owner |-> d.owner, token |-> m, inactive |-> b]
  BY <1>9 DEF Entries
<1>11. e \in Entries /\ e.parent = d.parent /\ e.owner = d.owner /\ e.token = k /\ ~ e.inactive
  <2>1. [parent |-> d.parent, owner |-> d.owner, token |-> m, inactive |-> b] \in Entries
    BY EntryFields, EntryTyped
  <2> QED
    BY <1>6, <1>7, <1>10, <2>1
<1>12. PICK R : R = producers'
  OBVIOUS
<1>13. R = [producers EXCEPT ![p] = e]
  BY <1>1, <1>4, <1>6, <1>7, <1>8, <1>9, <1>12, <1>20
<1>14. /\ R \in Seq(Entries) /\ Len(R) = Len(producers) /\ R[p] = e
       /\ \A r \in 1 .. Len(producers) : r # p => R[r] = producers[r]
  BY <1>1, <1>4, <1>11, <1>13, EntryUpdated
<1>15. /\ producers' \in Seq(Entries) /\ Len(producers') = Len(producers)
       /\ producers'[p].token = k /\ ~ producers'[p].inactive
       /\ \A r \in 1 .. Len(producers) : r # p => producers'[r] = producers[r]
       /\ \A r \in 1 .. Len(producers) : /\ producers'[r].parent = producers[r].parent
                                         /\ producers'[r].owner = producers[r].owner
  BY <1>8, <1>11, <1>12, <1>14
<1>16. /\ holder'[k] = p /\ \A j \in Handles : j # k => holder'[j] = holder[j]
       /\ holder' \in [Handles -> {Moves!NoObject} \cup 0 .. MaxMade]
  BY <1>1, <1>4, <1>21, MovesAssumption
<1>17. Pointed'
  <2>1. \A j \in Handles : j # k /\ holder[j] \notin {0, Moves!NoObject} => holder[j] # p
    BY <1>2 DEF MoveInv, Pointed
  <2> SUFFICES ASSUME NEW j \in Handles, holder'[j] \notin {0, Moves!NoObject}
               PROVE  /\ holder'[j] \in 1 .. Len(producers) /\ producers'[holder'[j]].token = j
                      /\ ~ producers'[holder'[j]].inactive
                      /\ \E r \in alive : \E l \in DOMAIN queue[r].list : queue[r].list[l] = holder'[j]
    BY <1>15, <1>18 DEF Pointed
  <2>2. CASE j = k
    BY <1>4, <1>5, <1>15, <1>16, <2>2
  <2>3. CASE j # k
    <3>1. /\ holder[j] \in 1 .. Len(producers) /\ producers[holder[j]].token = j
          /\ ~ producers[holder[j]].inactive
          /\ \E r \in alive : \E l \in DOMAIN queue[r].list : queue[r].list[l] = holder[j]
      BY <1>16, <2>3 DEF MoveInv, Pointed
    <3>2. holder'[j] = holder[j] /\ holder[j] # p
      BY <1>16, <2>1, <2>3
    <3> QED
      BY <1>15, <3>1, <3>2
  <2> QED
    BY <2>2, <2>3
<1> QED
  BY <1>15, <1>16, <1>17, <1>18, TokensOnly, SMTT(40)

\* A token made that finds none, and gets a new one.
LEMMA NewTokenStep ==
  ASSUME MoveInv, NEW k \in Handles, NEW q \in Objects, Moves!MakeToken(k, q), Moves!Recyclable(q) = {}
  PROVE  MoveInv'
<1> DEFINE p == Len(producers) + 1
           Q == queue[q]
           N == [list |-> <<p>> \o Q.list, count |-> Q.count + 1, chain |-> Q.chain,
                 hashCount |-> Q.hashCount]
<1>25. /\ q \in alive /\ alive' = alive /\ slots' = slots /\ p <= MaxMade
       /\ holder' = [holder EXCEPT ![k] = p]
       /\ producers' = Append(producers, Moves!New(q, Moves!None, k))
  BY DEF Moves!MakeToken
<1>26. queue' = [queue EXCEPT ![q].list = <<p>> \o @, ![q].count = @ + 1]
  BY DEF Moves!MakeToken
<1>1. /\ alive \subseteq Objects /\ queue \in [Objects -> Holdings] /\ producers \in Seq(Entries)
      /\ Len(producers) \in Nat /\ Q \in Holdings
      /\ slots \in [Moves!Tables -> [Movers -> 0 .. MaxMade]]
      /\ holder \in [Handles -> {Moves!NoObject} \cup 0 .. MaxMade]
  BY DEF MoveInv, MoveTypes
<1>2. PICK b \in BOOLEAN : b = FALSE
  BY Zenon
<1>3. PICK e : e = [parent |-> q, owner |-> Moves!None, token |-> k, inactive |-> b]
  OBVIOUS
<1>4. e \in Entries /\ e.parent = q /\ e.owner = Moves!None /\ e.token = k /\ ~ e.inactive
  BY <1>1, <1>2, <1>3, EntryTyped
<1>5. e = Moves!New(q, Moves!None, k)
  BY <1>2, <1>3 DEF Moves!New
<1>6. PICK R : R = producers'
  OBVIOUS
<1>7. /\ R = Append(producers, e) /\ R \in Seq(Entries) /\ Len(R) = p /\ R[p] = e /\ p \in 1 .. Len(R)
      /\ Len(R) \in Nat /\ Len(R) <= MaxMade /\ Len(producers) <= Len(R)
      /\ \A r \in 1 .. Len(producers) : R[r] = producers[r]
  BY <1>1, <1>4, <1>5, <1>6, <1>25
<1>8. QueueOK(q, Q, producers, slots)
  BY <1>25, SMTT(40) DEF MoveInv
<1>9. \A i \in DOMAIN Q.list : Q.list[i] \in 1 .. Len(producers)
  BY <1>8 DEF QueueOK, ListOf
<1>10. QueueOK(q, Q, R, slots)
  BY <1>1, <1>7, <1>8, <1>9, Unmoved
<1>11. \A i \in DOMAIN Q.list : R[Q.list[i]].owner \in Movers \cup {Moves!None}
  <2>1. \A i \in DOMAIN Q.list : R[Q.list[i]] \in Entries
    BY <1>1, <1>7, <1>9
  <2> QED
    BY <2>1, EntryFields
<1>12. queue' = [queue EXCEPT ![q] = N]
  <2>1. PICK d \in Holdings : d = queue[q]
    BY <1>1
  <2>2. PICK l : l = <<p>> \o Q.list
    OBVIOUS
  <2>3. PICK c : c = Q.count + 1
    OBVIOUS
  <2>4. queue' = [queue EXCEPT ![q] = [d EXCEPT !.list = l, !.count = c]]
    BY <1>1, <1>26, <2>1, <2>2, <2>3 DEF Holdings
  <2>5. [d EXCEPT !.list = l, !.count = c]
          = [list |-> l, count |-> c, chain |-> d.chain, hashCount |-> d.hashCount]
    <3>1. PICK f : f = [d EXCEPT !.list = l]
      OBVIOUS
    <3>2. f = [list |-> l, count |-> d.count, chain |-> d.chain, hashCount |-> d.hashCount]
      BY <3>1 DEF Holdings
    <3>3. [f EXCEPT !.count = c] = [list |-> l, count |-> c, chain |-> d.chain, hashCount |-> d.hashCount]
      BY <3>2
    <3> QED
      BY <3>1, <3>3
  <2> QED
    BY <2>1, <2>2, <2>3, <2>4, <2>5
<1>13. PICK M : M = N
  OBVIOUS
<1>14. /\ M = [list |-> <<p>> \o Q.list, count |-> Q.count + 1, chain |-> Q.chain,
               hashCount |-> IF R[p].owner = Moves!None THEN Q.hashCount ELSE Q.hashCount + 1]
       /\ queue' = [queue EXCEPT ![q] = M] /\ M.chain = Q.chain
  BY <1>4, <1>7, <1>12, <1>13
<1> HIDE DEF N
<1>15. /\ M \in Holdings /\ QueueOK(q, M, R, slots) /\ DOMAIN M.list = 1 .. Len(Q.list) + 1
       /\ M.list[1] = p
       /\ \A i \in DOMAIN Q.list : i + 1 \in DOMAIN M.list /\ M.list[i + 1] = Q.list[i]
  <2>1. /\ R[p].parent = q /\ R[p].owner = Moves!None /\ R[p].owner \in Movers \cup {Moves!None}
    BY <1>4, <1>7
  <2>2. PICK S : S = slots
    OBVIOUS
  <2>3. PICK d \in Holdings : d = Q
    BY <1>1
  <2>4. PICK z \in 1 .. Len(R) : z = p
    BY <1>7
  <2>5. QueueOK(q, d, R, S)
    BY <1>10, <2>2, <2>3
  <2>6. M = [list |-> <<z>> \o d.list, count |-> d.count + 1, chain |-> d.chain,
             hashCount |-> IF R[z].owner = Moves!None THEN d.hashCount ELSE d.hashCount + 1]
    BY <1>14, <2>3, <2>4
  <2>7. \A i \in DOMAIN d.list : R[d.list[i]].owner \in Movers \cup {Moves!None}
    BY <1>11, <2>3
  <2>8. R[z].parent = q /\ R[z].owner = Moves!None /\ R[z].owner \in Movers \cup {Moves!None}
    BY <2>1, <2>4
  <2>9. /\ M \in Holdings /\ QueueOK(q, M, R, S) /\ DOMAIN M.list = 1 .. Len(d.list) + 1
        /\ M.list[1] = z
        /\ \A i \in DOMAIN d.list : i + 1 \in DOMAIN M.list /\ M.list[i + 1] = d.list[i]
    <3>1. Len(R) \in Nat /\ Len(R) <= MaxMade
      BY <1>7
    <3>2. \A j \in DOMAIN d.chain : \A t \in Movers \ {R[z].owner} : S[d.chain[j]][t] = S[d.chain[j]][t]
      OBVIOUS
    <3>3. R[z].owner # Moves!None =>
            /\ S[d.chain[1]][R[z].owner] = z
            /\ \A j \in DOMAIN d.chain : S[d.chain[j]][R[z].owner] = 0
            /\ \A j \in DOMAIN d.chain : j # 1 => S[d.chain[j]][R[z].owner] = 0
      BY <2>8
    <3> QED
      <4>1. WithProducer(q, d, R, S, S, z, M)
        BY <2>5, <2>6, <2>7, <2>8, <3>1, <3>2, <3>3 DEF WithProducer
      <4> QED
        BY <4>1, Listed
  <2> QED
    BY <2>2, <2>3, <2>4, <2>9
<1>16. Len(Q.list) \in Nat
  BY <1>1 DEF Holdings
<1>17. /\ holder'[k] = p /\ \A j \in Handles : j # k => holder'[j] = holder[j]
       /\ holder' \in [Handles -> {Moves!NoObject} \cup 0 .. MaxMade]
  BY <1>1, <1>25
<1>18. \E j \in DOMAIN M.list : M.list[j] = p
  BY <1>15, <1>16
<1>19. \A i \in DOMAIN Q.list : \E j \in DOMAIN M.list : M.list[j] = Q.list[i]
  BY <1>15
<1>20. \A i \in DOMAIN M.chain : M.chain[i] = p \/ (\E j \in DOMAIN Q.chain : M.chain[i] = Q.chain[j])
  BY <1>14
<1>21. producers' = Append(producers, e) /\ QueueOK(q, M, producers', slots')
  BY <1>6, <1>7, <1>15, <1>25
<1>22. slots' \in [Moves!Tables -> [Movers -> 0 .. MaxMade]]
  BY <1>1, <1>25
<1>23. /\ \A h \in 1 .. MaxMade : h > p => slots'[h] = slots[h]
       /\ \A r \in alive \ {q} : \A j \in DOMAIN queue[r].chain :
            slots'[queue[r].chain[j]] = slots[queue[r].chain[j]]
  BY <1>25
<1>24. \A j \in Handles : holder'[j] = holder[j] \/ (holder'[j] = p /\ e.token = j /\ ~ e.inactive)
  BY <1>4, <1>17, SMTT(40)
<1>27. Grows(q, e, M)
  BY <1>4, <1>14, <1>15, <1>17, <1>18, <1>19, <1>20, <1>21, <1>22, <1>23, <1>24, <1>25 DEF Grows
<1> QED
  BY <1>27, Grown

\* A token made.
LEMMA MakeTokenStep ==
  ASSUME MoveInv, NEW k \in Handles, NEW q \in Objects, Moves!MakeToken(k, q) PROVE MoveInv'
  BY RecycleStep, NewTokenStep

\* What a thread's first enqueue makes of a queue: Q, before the producer is
\* in its list, with a longer chain if the last table is half full.
Lengthens(t, q, Q) ==
  /\ QueueOK(q, Q, producers', slots) /\ Q.list = queue[q].list
  /\ queue' = [queue EXCEPT ![q] = [list |-> <<Len(producers) + 1>> \o Q.list, count |-> Q.count + 1,
                                    chain |-> Q.chain, hashCount |-> Q.hashCount + 1]]
  /\ slots' = [slots EXCEPT ![Q.chain[1]][t] = Len(producers) + 1]
  /\ \A j \in DOMAIN Q.chain : slots[Q.chain[j]][t] = 0
  /\ \A j \in DOMAIN Q.chain :
       Q.chain[j] = Len(producers) + 1 \/ \E i \in DOMAIN queue[q].chain : Q.chain[j] = queue[q].chain[i]

\* There is such a Q, with the tables as they were.
LEMMA TableStep ==
  ASSUME MoveInv, NEW t \in Movers, NEW q \in Objects, Moves!FirstEnqueue(t, q)
  PROVE  \E Q \in Holdings : Lengthens(t, q, Q)
<1>10. PICK R : R = producers'
  OBVIOUS
<1>11. PICK S : S = slots
  OBVIOUS
<1> DEFINE p == Len(producers) + 1
           Q == queue[q]
           full == Q.hashCount + 1 >= (OwnCap * 2 ^ (Len(Q.chain) - 1)) \div 2
           chain == IF full THEN <<p>> \o Q.chain ELSE Q.chain
<1>1. /\ q \in alive /\ Moves!Found(q, t) = 0 /\ p <= MaxMade
      /\ producers' = Append(producers, Moves!New(q, t, Moves!None))
      /\ slots' = [slots EXCEPT ![chain[1]][t] = p]
  BY DEF Moves!FirstEnqueue
<1>2. queue' = [queue EXCEPT ![q] = [list |-> <<p>> \o Q.list, count |-> Q.count + 1,
                                     chain |-> chain, hashCount |-> Q.hashCount + 1]]
  BY DEF Moves!FirstEnqueue
<1>3. /\ queue \in [Objects -> Holdings] /\ producers \in Seq(Entries) /\ Len(producers) \in Nat
      /\ Q \in Holdings
  BY DEF MoveInv, MoveTypes
<1>4. /\ Len(R) = p /\ Len(R) \in Nat /\ Len(producers) <= Len(R) /\ Len(R) <= MaxMade /\ p \in 1 .. Len(R)
      /\ \A r \in 1 .. Len(producers) : R[r] = producers[r]
  BY <1>1, <1>3, <1>10
<1>5. QueueOK(q, Q, producers, S)
  BY <1>1, <1>11 DEF MoveInv
<1>6. QueueOK(q, Q, R, S)
  <2>1. \A i \in DOMAIN Q.list : /\ R[Q.list[i]].parent = producers[Q.list[i]].parent
                                 /\ R[Q.list[i]].owner = producers[Q.list[i]].owner
    BY <1>4, <1>5 DEF QueueOK, ListOf
  <2> QED
    BY <1>3, <1>4, <1>5, <2>1, Unmoved, SMTT(40)
<1>7. \A j \in DOMAIN Q.chain : S[Q.chain[j]][t] = 0
  <2>1. \A j \in DOMAIN Q.chain : slots[Q.chain[j]][t] # 0 => Moves!Found(q, t) = slots[Q.chain[j]][t]
    BY <1>3, <1>5, <1>11, FoundThere
  <2> QED
    BY <1>1, <1>11, <2>1
<1> HIDE DEF full
<1>8. CASE full
  <2>1. chain = <<p>> \o Q.chain
    BY <1>8
  <2>2. \A j \in DOMAIN Q.chain : Q.chain[j] # p
    <3> SUFFICES ASSUME NEW j \in DOMAIN Q.chain PROVE Q.chain[j] # p
      OBVIOUS
    <3>1. Len(producers) <= MaxMade
      BY DEF MoveInv, MoveTypes
    <3>2. Q.chain[j] = q \/ Q.chain[j] \in 1 .. Len(producers)
      BY <1>3, <1>5, <3>1, OwnOrNumbered
    <3>3. p \in 1 .. MaxMade
      BY <1>1, <1>3, MovesAssumption
    <3> QED
      BY <1>3, <3>2, <3>3, MovesAssumption
  <2>3. \A u \in Movers : S[p][u] = 0
    <3>1. p \in 1 .. MaxMade /\ p > Len(producers)
      BY <1>1, <1>3, MovesAssumption
    <3> QED
      BY <1>11, <3>1 DEF MoveInv, Blank, Moves!Unused
  <2>4. PICK d \in Holdings : d = Q
    BY <1>3
  <2>5. PICK h \in 1 .. Len(R) : h = p
    BY <1>4
  <2>6. PICK N : N = [d EXCEPT !.chain = <<h>> \o @]
    OBVIOUS
  <2>7. N \in Holdings /\ N.list = d.list /\ N.chain = <<h>> \o d.chain /\ QueueOK(q, N, R, S)
    <3>1. /\ QueueOK(q, d, R, S) /\ \A j \in DOMAIN d.chain : d.chain[j] # h
          /\ \A u \in Movers : S[h][u] = 0
      BY <1>6, <2>2, <2>3, <2>4, <2>5
    <3>2. WithTable(q, d, R, S, h, N)
      BY <1>4, <2>6, <3>1 DEF WithTable
    <3> QED
      BY <3>2, ChainLonger
  <2>8. N.count = d.count /\ N.hashCount = d.hashCount
    BY <2>6 DEF Holdings
  <2>9. queue' = [queue EXCEPT ![q] = [list |-> <<p>> \o N.list, count |-> N.count + 1,
                                       chain |-> N.chain, hashCount |-> N.hashCount + 1]]
    BY <1>2, <2>1, <2>4, <2>5, <2>7, <2>8
  <2>10. slots' = [slots EXCEPT ![N.chain[1]][t] = p]
    BY <1>1, <2>1, <2>4, <2>5, <2>7
  <2>11. /\ DOMAIN N.chain = 1 .. Len(d.chain) + 1 /\ N.chain[1] = p /\ DOMAIN d.chain = 1 .. Len(d.chain)
         /\ \A i \in 2 .. Len(d.chain) + 1 : i - 1 \in 1 .. Len(d.chain) /\ N.chain[i] = d.chain[i - 1]
    <3>1. d.chain \in Seq(Moves!Tables) /\ h \in Moves!Tables
      <4>1. h \in 1 .. MaxMade
        BY <1>4, MovesAssumption
      <4> QED
        BY <4>1 DEF Holdings, Moves!Tables
    <3>2. /\ DOMAIN (<<h>> \o d.chain) = 1 .. Len(d.chain) + 1 /\ (<<h>> \o d.chain)[1] = h
          /\ \A i \in 2 .. Len(d.chain) + 1 : i - 1 \in 1 .. Len(d.chain) /\ (<<h>> \o d.chain)[i] = d.chain[i - 1]
      BY <3>1, InFront
    <3> QED
      BY <2>5, <2>7, <3>1, <3>2
  <2>12. \A j \in DOMAIN N.chain : N.chain[j] = p \/ \E i \in DOMAIN Q.chain : N.chain[j] = Q.chain[i]
    <3> SUFFICES ASSUME NEW j \in DOMAIN N.chain, N.chain[j] # p
                 PROVE  \E i \in DOMAIN Q.chain : N.chain[j] = Q.chain[i]
      OBVIOUS
    <3>1. Len(d.chain) \in Nat
      BY DEF Holdings
    <3>2. j \in 2 .. Len(d.chain) + 1
      BY <2>11, <3>1
    <3>3. j - 1 \in DOMAIN d.chain /\ N.chain[j] = d.chain[j - 1]
      BY <2>11, <3>2
    <3> QED
      BY <2>4, <3>3
  <2>13. \A j \in DOMAIN N.chain : slots[N.chain[j]][t] = 0
    BY <1>7, <1>11, <2>3, <2>12
  <2> HIDE DEF Q, chain
  <2>14. QueueOK(q, N, producers', slots) /\ N.list = queue[q].list
    BY <1>10, <1>11, <2>4, <2>7 DEF Q
  <2>15. Lengthens(t, q, N)
    BY <2>9, <2>10, <2>12, <2>13, <2>14 DEF Lengthens, Q
  <2> QED
    BY <2>7, <2>15
<1>9. CASE ~ full
  <2>1. chain = Q.chain
    BY <1>9
  <2> HIDE DEF chain
  <2>2. PICK N \in Holdings : N = Q
    BY <1>3
  <2>3. Lengthens(t, q, N)
    BY <1>1, <1>2, <1>6, <1>7, <1>10, <1>11, <2>1, <2>2 DEF Lengthens
  <2> QED
    BY <2>3
<1> QED
  BY <1>8, <1>9

\* A thread's first enqueue.
LEMMA FirstEnqueueStep ==
  ASSUME MoveInv, NEW t \in Movers, NEW q \in Objects, Moves!FirstEnqueue(t, q) PROVE MoveInv'
<1> DEFINE p == Len(producers) + 1
<1>1. /\ q \in alive /\ p <= MaxMade /\ alive' = alive /\ holder' = holder
      /\ producers' = Append(producers, Moves!New(q, t, Moves!None))
  BY DEF Moves!FirstEnqueue
<1>2. /\ alive \subseteq Objects /\ queue \in [Objects -> Holdings] /\ producers \in Seq(Entries)
      /\ Len(producers) \in Nat /\ slots \in [Moves!Tables -> [Movers -> 0 .. MaxMade]]
      /\ holder \in [Handles -> {Moves!NoObject} \cup 0 .. MaxMade]
  BY DEF MoveInv, MoveTypes
<1>3. PICK R : R = producers'
  OBVIOUS
<1>4. PICK S : S = slots
  OBVIOUS
<1>5. PICK T : T = slots'
  OBVIOUS
<1>29. PICK Q \in Holdings : Lengthens(t, q, Q)
  BY TableStep
<1>6. /\ QueueOK(q, Q, R, S) /\ Q.list = queue[q].list
      /\ queue' = [queue EXCEPT ![q] = [list |-> <<p>> \o Q.list, count |-> Q.count + 1,
                                        chain |-> Q.chain, hashCount |-> Q.hashCount + 1]]
      /\ slots' = [slots EXCEPT ![Q.chain[1]][t] = p]
      /\ \A j \in DOMAIN Q.chain : slots[Q.chain[j]][t] = 0
      /\ \A j \in DOMAIN Q.chain :
           Q.chain[j] = p \/ \E i \in DOMAIN queue[q].chain : Q.chain[j] = queue[q].chain[i]
  BY <1>3, <1>4, <1>29 DEF Lengthens
<1>7. PICK b \in BOOLEAN : b = FALSE
  BY Zenon
<1>8. PICK e : e = [parent |-> q, owner |-> t, token |-> Moves!None, inactive |-> b]
  OBVIOUS
<1>9. e \in Entries /\ e.parent = q /\ e.owner = t /\ ~ e.inactive
  BY <1>7, <1>8, EntryTyped
<1>10. e = Moves!New(q, t, Moves!None)
  BY <1>7, <1>8 DEF Moves!New
<1>11. /\ R = Append(producers, e) /\ Len(R) = p /\ R[p] = e /\ p \in 1 .. Len(R)
       /\ Len(R) \in Nat /\ Len(R) <= MaxMade
       /\ \A r \in 1 .. Len(producers) : R[r] = producers[r]
  BY <1>1, <1>2, <1>3, <1>9, <1>10
<1>12. PICK h : h = Q.chain[1]
  OBVIOUS
<1>13. /\ Q.chain \in Seq(Moves!Tables) /\ DOMAIN Q.chain = 1 .. Len(Q.chain) /\ 1 \in DOMAIN Q.chain
       /\ h \in Moves!Tables /\ h = Q.chain[1]
       /\ \A i, j \in DOMAIN Q.chain : Q.chain[i] = Q.chain[j] => i = j
  <2>1. Q.chain \in Seq(Moves!Tables)
    BY DEF Holdings
  <2>2. Len(Q.chain) \in Nat \ {0} /\ \A i, j \in DOMAIN Q.chain : Q.chain[i] = Q.chain[j] => i = j
    BY <1>6 DEF QueueOK, ChainOf
  <2> QED
    BY <1>12, <2>1, <2>2
<1>14. /\ T \in [Moves!Tables -> [Movers -> 0 .. MaxMade]] /\ T[h][t] = p
       /\ \A g \in Moves!Tables : \A u \in Movers : g # h \/ u # t => T[g][u] = S[g][u]
       /\ \A g \in Moves!Tables : g # h => T[g] = S[g]
  <2>1. T = [S EXCEPT ![h][t] = p] /\ p \in 0 .. MaxMade /\ S \in [Moves!Tables -> [Movers -> 0 .. MaxMade]]
    BY <1>1, <1>2, <1>4, <1>5, <1>6, <1>12, MovesAssumption
  <2> QED
    BY <1>13, <2>1
<1>15. PICK M : M = [list |-> <<p>> \o Q.list, count |-> Q.count + 1,
                     chain |-> Q.chain, hashCount |-> Q.hashCount + 1]
  OBVIOUS
<1>16. t # Moves!None
  BY MovesAssumption
<1>17. \A i \in DOMAIN Q.list : R[Q.list[i]].owner \in Movers \cup {Moves!None}
  <2>1. \A i \in DOMAIN Q.list : Q.list[i] \in 1 .. Len(R)
    BY <1>6 DEF QueueOK, ListOf
  <2>2. \A r \in 1 .. Len(R) : R[r] \in Entries
    BY <1>2, <1>9, <1>11, SMTT(40)
  <2> QED
    BY <2>1, <2>2, EntryFields
<1>18. WithProducer(q, Q, R, S, T, p, M)
  <2>1. R[p].parent = q /\ R[p].owner = t
    BY <1>9, <1>11
  <2>2. \A j \in DOMAIN Q.chain : Q.chain[j] \in Moves!Tables
    BY <1>13
  <2>3. \A j \in DOMAIN Q.chain : \A u \in Movers \ {t} : T[Q.chain[j]][u] = S[Q.chain[j]][u]
    BY <1>14, <2>2
  <2>4. \A j \in DOMAIN Q.chain : S[Q.chain[j]][t] = 0
    BY <1>4, <1>6
  <2>5. \A j \in DOMAIN Q.chain : j # 1 => T[Q.chain[j]][t] = 0
    <3>1. \A j \in DOMAIN Q.chain : j # 1 => Q.chain[j] # h
      BY <1>13
    <3> QED
      BY <1>14, <2>2, <2>4, <3>1
  <2>6. T[Q.chain[1]][t] = p
    BY <1>13, <1>14
  <2>7. M = [list |-> <<p>> \o Q.list, count |-> Q.count + 1, chain |-> Q.chain,
             hashCount |-> IF R[p].owner = Moves!None THEN Q.hashCount ELSE Q.hashCount + 1]
    BY <1>15, <1>16, <2>1
  <2> HIDE DEF p
  <2> QED
    BY <1>6, <1>11, <1>16, <1>17, <2>1, <2>3, <2>4, <2>5, <2>6, <2>7 DEF WithProducer
<1>19. /\ M \in Holdings /\ QueueOK(q, M, R, T) /\ DOMAIN M.list = 1 .. Len(Q.list) + 1 /\ M.list[1] = p
       /\ \A i \in DOMAIN Q.list : i + 1 \in DOMAIN M.list /\ M.list[i + 1] = Q.list[i]
  BY <1>18, Listed
<1>20. M.chain = Q.chain /\ queue' = [queue EXCEPT ![q] = M]
  BY <1>6, <1>15
<1>21. \A r \in alive \ {q} : \A j \in DOMAIN queue[r].chain :
         slots'[queue[r].chain[j]] = slots[queue[r].chain[j]]
  <2> SUFFICES ASSUME NEW r \in alive \ {q}, NEW j \in DOMAIN queue[r].chain
               PROVE  slots'[queue[r].chain[j]] = slots[queue[r].chain[j]]
    OBVIOUS
  <2>1. QueueOK(r, queue[r], producers, slots) /\ queue[r] \in Holdings
    BY <1>2 DEF MoveInv
  <2>2. queue[r].chain[j] \in Moves!Tables
    BY <2>1 DEF Holdings
  <2>3. queue[r].chain[j] # p
    <3>1. Len(producers) <= MaxMade
      BY DEF MoveInv, MoveTypes
    <3>2. queue[r].chain[j] = r \/ queue[r].chain[j] \in 1 .. Len(producers)
      BY <1>2, <2>1, <3>1, OwnOrNumbered
    <3>3. p \in 1 .. MaxMade /\ r \in Objects
      BY <1>1, <1>2, MovesAssumption
    <3> QED
      BY <1>2, <3>2, <3>3, MovesAssumption
  <2>4. queue[r].chain[j] # h
    <3>1. CASE h = p
      BY <2>3, <3>1
    <3>2. CASE h # p
      <4>1. PICK i \in DOMAIN queue[q].chain : h = queue[q].chain[i]
        BY <1>6, <1>13, <3>2
      <4> QED
        BY <1>1, <4>1 DEF MoveInv, OwnChains
    <3> QED
      BY <3>1, <3>2
  <2> QED
    BY <1>4, <1>5, <1>14, <2>2, <2>4
<1>22. \A g \in 1 .. MaxMade : g > p => slots'[g] = slots[g]
  <2> SUFFICES ASSUME NEW g \in 1 .. MaxMade, g > p PROVE slots'[g] = slots[g]
    OBVIOUS
  <2>1. h # g
    <3>1. Len(producers) <= MaxMade
      BY DEF MoveInv, MoveTypes
    <3>2. h = q \/ h \in 1 .. Len(R)
      BY <1>6, <1>11, <1>13, OwnOrNumbered
    <3> QED
      BY <1>2, <1>11, <3>2, MovesAssumption
  <2>2. g \in Moves!Tables
    BY DEF Moves!Tables
  <2> QED
    BY <1>4, <1>5, <1>14, <2>1, <2>2
<1>23. \E j \in DOMAIN M.list : M.list[j] = p
  <2>1. Len(Q.list) \in Nat
    BY DEF Holdings
  <2> QED
    BY <1>19, <2>1
<1>24. \A i \in DOMAIN queue[q].list : \E j \in DOMAIN M.list : M.list[j] = queue[q].list[i]
  BY <1>6, <1>19
<1>25. \A i \in DOMAIN M.chain : M.chain[i] = p \/ \E j \in DOMAIN queue[q].chain : M.chain[i] = queue[q].chain[j]
  BY <1>6, <1>20
<1>26. /\ producers' = Append(producers, e) /\ QueueOK(q, M, producers', slots')
       /\ slots' \in [Moves!Tables -> [Movers -> 0 .. MaxMade]]
  BY <1>3, <1>5, <1>11, <1>14, <1>19
<1>27. holder' \in [Handles -> {Moves!NoObject} \cup 0 .. MaxMade] /\ \A k \in Handles : holder'[k] = holder[k]
  BY <1>1, <1>2
<1>28. Grows(q, e, M)
  BY <1>1, <1>9, <1>19, <1>20, <1>21, <1>22, <1>23, <1>24, <1>25, <1>26, <1>27 DEF Grows
<1> QED
  BY <1>28, Grown, SMTT(40)

-----------------------------------------------------------------------------
\* Two queues a and b, of which b is there and a may be made now, change
\* places; S are the tables before, with a's where it is made.
Exchanges(a, b, qa, qb, S) ==
  /\ a \in Objects /\ b \in alive \ {a} /\ alive' = alive \cup {a} /\ holder' = holder
  /\ qa \in Holdings /\ qb \in Holdings /\ qb = queue[b] /\ (a \in alive => qa = queue[a])
  /\ Moves!Exchange(a, b, qa, qb) /\ QueueOK(a, qa, producers, S) /\ QueueOK(b, qb, producers, S)
  /\ slots' \in [Moves!Tables -> [Movers -> 0 .. MaxMade]] /\ slots'[a] = S[b] /\ slots'[b] = S[a]
  /\ \A h \in 1 .. MaxMade : S[h] = slots[h] /\ slots'[h] = slots[h]
  /\ \A r \in Objects \ {a, b} : slots'[r] = slots[r]
  /\ \A i \in DOMAIN qa.chain : \A j \in DOMAIN qb.chain : qa.chain[i] # qb.chain[j]
  /\ \A r \in alive \ {a, b} : \A i \in DOMAIN qa.chain : \A j \in DOMAIN queue[r].chain :
       qa.chain[i] # queue[r].chain[j]

\* Whom the producers have then as their parents.
LEMMA Reowned ==
  ASSUME MoveInv, NEW a, NEW b, NEW qa, NEW qb, NEW S, Exchanges(a, b, qa, qb, S)
  PROVE  /\ producers' \in Seq(Entries) /\ Len(producers') = Len(producers)
         /\ \A p \in 1 .. Len(producers) : /\ producers'[p].owner = producers[p].owner
                                           /\ producers'[p].token = producers[p].token
                                           /\ producers'[p].inactive = producers[p].inactive
         /\ \A i \in DOMAIN qb.list : producers'[qb.list[i]].parent = a
         /\ \A i \in DOMAIN qa.list : producers'[qa.list[i]].parent = b
         /\ \A p \in 1 .. Len(producers) :
              producers[p].parent \notin {a, b} => producers'[p].parent = producers[p].parent
<1> DEFINE n == Len(producers)
           InA(p) == \E i \in DOMAIN qa.list : qa.list[i] = p
           InB(p) == \E i \in DOMAIN qb.list : qb.list[i] = p
<1>1. producers \in Seq(Entries) /\ n \in Nat /\ DOMAIN producers = 1 .. n /\ alive \subseteq Objects
  BY DEF MoveInv, MoveTypes
<1>2. a \in Objects /\ b \in Objects /\ a # b
  BY <1>1, SMTT(40) DEF Exchanges
<1>3. /\ \A i \in DOMAIN qa.list : qa.list[i] \in 1 .. n /\ producers[qa.list[i]].parent = a
      /\ \A i \in DOMAIN qb.list : qb.list[i] \in 1 .. n /\ producers[qb.list[i]].parent = b
  BY DEF Exchanges, QueueOK, ListOf
<1>4. producers' = [p \in 1 .. n |-> IF InB(p) THEN [producers[p] EXCEPT !.parent = a]
                                     ELSE IF InA(p) THEN [producers[p] EXCEPT !.parent = b]
                                     ELSE producers[p]]
  <2>1. producers' = [p \in DOMAIN producers |->
                        IF p \in Moves!ToSet(qb.list) THEN [producers[p] EXCEPT !.parent = a]
                        ELSE IF p \in Moves!ToSet(qa.list) THEN [producers[p] EXCEPT !.parent = b]
                        ELSE producers[p]]
    BY DEF Exchanges, Moves!Exchange
  <2>2. \A p : (p \in Moves!ToSet(qb.list) <=> InB(p)) /\ (p \in Moves!ToSet(qa.list) <=> InA(p))
    BY DEF Moves!ToSet
  <2> HIDE DEF InA, InB
  <2> QED
    BY <1>1, <2>1, <2>2
<1>5. \A p \in 1 .. n : /\ InB(p) => producers[p].parent = b
                        /\ InA(p) => producers[p].parent = a
  BY <1>3
<1>6. /\ \A i \in DOMAIN qa.list : qa.list[i] \in 1 .. n /\ InA(qa.list[i])
      /\ \A i \in DOMAIN qb.list : qb.list[i] \in 1 .. n /\ InB(qb.list[i])
  BY <1>3
<1> HIDE DEF InA, InB
<1>7. ASSUME NEW p \in 1 .. n
      PROVE  /\ producers'[p] \in Entries /\ producers'[p].owner = producers[p].owner
             /\ producers'[p].token = producers[p].token /\ producers'[p].inactive = producers[p].inactive
             /\ producers'[p].parent = IF InB(p) THEN a ELSE IF InA(p) THEN b ELSE producers[p].parent
  <2>1. PICK e \in Entries : e = producers[p]
    BY <1>1
  <2>2. ASSUME NEW c \in Objects, producers'[p] = [producers[p] EXCEPT !.parent = c]
        PROVE  /\ producers'[p] \in Entries /\ producers'[p].owner = producers[p].owner
               /\ producers'[p].token = producers[p].token /\ producers'[p].inactive = producers[p].inactive
               /\ producers'[p].parent = c
    <3>1. PICK m : m = [e EXCEPT !.parent = c]
      OBVIOUS
    <3>2. m \in Entries /\ m.parent = c /\ m.owner = e.owner /\ m.token = e.token /\ m.inactive = e.inactive
      BY <3>1, EntryMoved
    <3>3. producers'[p] = m
      BY <2>1, <2>2, <3>1
    <3> QED
      BY <2>1, <3>2, <3>3
  <2>3. CASE InB(p)
    <3>1. producers'[p] = [producers[p] EXCEPT !.parent = a]
      BY <1>4, <2>3
    <3> QED
      BY <1>2, <2>2, <2>3, <3>1
  <2>4. CASE ~ InB(p) /\ InA(p)
    <3>1. producers'[p] = [producers[p] EXCEPT !.parent = b]
      BY <1>4, <2>4
    <3> QED
      BY <1>2, <2>2, <2>4, <3>1
  <2>5. CASE ~ InB(p) /\ ~ InA(p)
    <3>1. producers'[p] = producers[p]
      BY <1>4, <2>5
    <3> QED
      BY <2>1, <2>5, <3>1
  <2> QED
    BY <2>3, <2>4, <2>5
<1>8. producers' \in Seq(Entries) /\ Len(producers') = n
  <2>1. producers' = [p \in 1 .. n |-> producers'[p]]
    BY <1>4
  <2> QED
    BY <1>1, <1>7, <2>1
<1>9. \A i \in DOMAIN qb.list : producers'[qb.list[i]].parent = a
  BY <1>6, <1>7
<1>10. \A i \in DOMAIN qa.list : producers'[qa.list[i]].parent = b
  BY <1>2, <1>5, <1>6, <1>7
<1>11. \A p \in 1 .. n : producers[p].parent \notin {a, b} => producers'[p].parent = producers[p].parent
  BY <1>5, <1>7
<1> QED
  BY <1>7, <1>8, <1>9, <1>10, <1>11

\* What each of the two has leads to it then.
LEMMA ExchangeStep ==
  ASSUME MoveInv, NEW a, NEW b, NEW qa, NEW qb, NEW S, Exchanges(a, b, qa, qb, S)
  PROVE  MoveInv'
<1> DEFINE n == Len(producers)
<1>1. /\ alive \subseteq Objects /\ queue \in [Objects -> Holdings] /\ producers \in Seq(Entries)
      /\ n \in Nat /\ n <= MaxMade
  BY DEF MoveInv, MoveTypes
<1>2. /\ a \in Objects /\ b \in Objects /\ a # b /\ b \in alive /\ alive' = alive \cup {a} /\ holder' = holder
      /\ qa \in Holdings /\ qb \in Holdings /\ qb = queue[b] /\ (a \in alive => qa = queue[a])
      /\ QueueOK(a, qa, producers, S) /\ QueueOK(b, qb, producers, S)
  BY <1>1 DEF Exchanges
<1>3. /\ slots' \in [Moves!Tables -> [Movers -> 0 .. MaxMade]] /\ slots'[a] = S[b] /\ slots'[b] = S[a]
      /\ \A h \in 1 .. MaxMade : S[h] = slots[h] /\ slots'[h] = slots[h]
      /\ \A r \in Objects \ {a, b} : slots'[r] = slots[r]
  BY DEF Exchanges
<1>4. /\ \A i \in DOMAIN qa.chain : \A j \in DOMAIN qb.chain : qa.chain[i] # qb.chain[j]
      /\ \A r \in alive \ {a, b} : \A i \in DOMAIN qa.chain : \A j \in DOMAIN queue[r].chain :
           qa.chain[i] # queue[r].chain[j]
      /\ \A r \in alive \ {a, b} : \A i \in DOMAIN qb.chain : \A j \in DOMAIN queue[r].chain :
           qb.chain[i] # queue[r].chain[j]
  <2>1. \A r \in alive \ {a, b} : \A i \in DOMAIN qb.chain : \A j \in DOMAIN queue[r].chain :
           qb.chain[i] # queue[r].chain[j]
    BY <1>2 DEF MoveInv, OwnChains
  <2> QED
    BY <2>1 DEF Exchanges
<1>5. /\ producers' \in Seq(Entries) /\ Len(producers') = n
      /\ \A p \in 1 .. n : /\ producers'[p].owner = producers[p].owner
                           /\ producers'[p].token = producers[p].token
                           /\ producers'[p].inactive = producers[p].inactive
      /\ \A i \in DOMAIN qb.list : producers'[qb.list[i]].parent = a
      /\ \A i \in DOMAIN qa.list : producers'[qa.list[i]].parent = b
      /\ \A p \in 1 .. n : producers[p].parent \notin {a, b} => producers'[p].parent = producers[p].parent
  BY Reowned
<1>6. PICK R : R = producers'
  OBVIOUS
<1>7. PICK T : T = slots'
  OBVIOUS
<1>8. PICK Na : Na = [qb EXCEPT !.chain = Moves!Repoint(@, b, a)]
  OBVIOUS
<1>9. PICK Nb : Nb = [qa EXCEPT !.chain = Moves!Repoint(@, a, b)]
  OBVIOUS
<1>10. /\ Na \in Holdings /\ QueueOK(a, Na, R, T) /\ Na.list = qb.list /\ DOMAIN Na.chain = DOMAIN qb.chain
       /\ \A j \in DOMAIN qb.chain : Na.chain[j] = IF j = Len(qb.chain) THEN a ELSE qb.chain[j]
       /\ \A j \in DOMAIN qb.chain : j = Len(qb.chain) \/ Na.chain[j] \in 1 .. MaxMade
  <2>1. \A i \in DOMAIN qb.list : R[qb.list[i]].parent = a /\ R[qb.list[i]].owner = producers[qb.list[i]].owner
    <3>1. \A i \in DOMAIN qb.list : qb.list[i] \in 1 .. n
      BY <1>2 DEF QueueOK, ListOf
    <3> QED
      BY <1>5, <1>6, <3>1, SMTT(40)
  <2>2. WithName(a, b, qb, producers, R, S, T, Na)
    BY <1>1, <1>2, <1>3, <1>5, <1>6, <1>7, <1>8, <2>1 DEF WithName
  <2> QED
    BY <2>2, Renamed
<1>11. /\ Nb \in Holdings /\ QueueOK(b, Nb, R, T) /\ Nb.list = qa.list /\ DOMAIN Nb.chain = DOMAIN qa.chain
       /\ \A j \in DOMAIN qa.chain : Nb.chain[j] = IF j = Len(qa.chain) THEN b ELSE qa.chain[j]
       /\ \A j \in DOMAIN qa.chain : j = Len(qa.chain) \/ Nb.chain[j] \in 1 .. MaxMade
  <2>1. \A i \in DOMAIN qa.list : R[qa.list[i]].parent = b /\ R[qa.list[i]].owner = producers[qa.list[i]].owner
    <3>1. \A i \in DOMAIN qa.list : qa.list[i] \in 1 .. n
      BY <1>2 DEF QueueOK, ListOf
    <3> QED
      BY <1>5, <1>6, <3>1, SMTT(40)
  <2>2. WithName(b, a, qa, producers, R, S, T, Nb)
    BY <1>1, <1>2, <1>3, <1>5, <1>6, <1>7, <1>9, <2>1 DEF WithName
  <2> QED
    BY <2>2, Renamed
<1>12. /\ queue' \in [Objects -> Holdings] /\ queue'[a] = Na /\ queue'[b] = Nb
       /\ \A r \in Objects \ {a, b} : queue'[r] = queue[r]
  <2>1. queue' = [queue EXCEPT ![a] = Na, ![b] = Nb]
    BY <1>8, <1>9 DEF Exchanges, Moves!Exchange
  <2> QED
    BY <1>1, <1>2, <1>10, <1>11, <2>1
<1>13. ASSUME NEW r \in alive \ {a, b} PROVE QueueOK(r, queue[r], R, T)
  <2>1. QueueOK(r, queue[r], producers, slots) /\ queue[r] \in Holdings /\ r \in Objects
    BY <1>1, SMTT(40) DEF MoveInv
  <2>2. \A i \in DOMAIN queue[r].list : queue[r].list[i] \in 1 .. n /\ producers[queue[r].list[i]].parent = r
    BY <2>1 DEF QueueOK, ListOf
  <2>3. \A i \in DOMAIN queue[r].list :
          /\ R[queue[r].list[i]].parent = producers[queue[r].list[i]].parent
          /\ R[queue[r].list[i]].owner = producers[queue[r].list[i]].owner
    BY <1>5, <1>6, <2>2
  <2>4. \A j \in DOMAIN queue[r].chain : T[queue[r].chain[j]] = slots[queue[r].chain[j]]
    <3>1. \A j \in DOMAIN queue[r].chain : queue[r].chain[j] = r \/ queue[r].chain[j] \in 1 .. n
      BY <1>1, <2>1, OwnOrNumbered
    <3>2. \A p \in 1 .. n : p \in 1 .. MaxMade
      BY <1>1, MovesAssumption
    <3> QED
      BY <1>3, <1>7, <2>1, <3>1, <3>2
  <2>5. Len(R) \in Nat /\ Len(producers) <= Len(R)
    BY <1>1, <1>5, <1>6
  <2> QED
    BY <1>1, <2>1, <2>3, <2>4, <2>5, Unmoved
<1>14. OwnChains'
  <2>1. /\ Len(qa.chain) \in DOMAIN qa.chain /\ qa.chain[Len(qa.chain)] = a
        /\ Len(qb.chain) \in DOMAIN qb.chain /\ qb.chain[Len(qb.chain)] = b
    <3>1. qa.chain \in Seq(Moves!Tables) /\ qb.chain \in Seq(Moves!Tables)
      BY <1>2 DEF Holdings
    <3> QED
      BY <1>2, <3>1 DEF QueueOK, ChainOf
  <2>2. \A r \in alive : \A j \in DOMAIN queue[r].chain : queue[r].chain[j] = r \/ queue[r].chain[j] \in 1 .. MaxMade
    <3> SUFFICES ASSUME NEW r \in alive, NEW j \in DOMAIN queue[r].chain
                 PROVE  queue[r].chain[j] = r \/ queue[r].chain[j] \in 1 .. MaxMade
      OBVIOUS
    <3>1. QueueOK(r, queue[r], producers, slots) /\ queue[r] \in Holdings
      BY <1>1 DEF MoveInv
    <3>2. queue[r].chain[j] = r \/ queue[r].chain[j] \in 1 .. n
      BY <1>1, <3>1, OwnOrNumbered
    <3> QED
      BY <1>1, <3>2, MovesAssumption
  <2>3. /\ \A j \in DOMAIN Na.chain : Na.chain[j] = a \/
             (Na.chain[j] \in 1 .. MaxMade /\ Na.chain[j] = qb.chain[j] /\ j \in DOMAIN qb.chain)
        /\ \A j \in DOMAIN Nb.chain : Nb.chain[j] = b \/
             (Nb.chain[j] \in 1 .. MaxMade /\ Nb.chain[j] = qa.chain[j] /\ j \in DOMAIN qa.chain)
    BY <1>10, <1>11
  <2>4. \A i \in DOMAIN Na.chain : \A j \in DOMAIN Nb.chain : Na.chain[i] # Nb.chain[j]
    BY <1>2, <1>4, <2>3, MovesAssumption
  <2>5. ASSUME NEW r \in alive \ {a, b}, NEW j \in DOMAIN queue[r].chain
        PROVE  /\ \A i \in DOMAIN Na.chain : Na.chain[i] # queue[r].chain[j]
               /\ \A i \in DOMAIN Nb.chain : Nb.chain[i] # queue[r].chain[j]
    <3>1. r \in Objects /\ (queue[r].chain[j] = r \/ queue[r].chain[j] \in 1 .. MaxMade)
      BY <1>1, <2>2
    <3>2. a # queue[r].chain[j] /\ b # queue[r].chain[j]
      BY <1>2, <3>1, MovesAssumption
    <3> QED
      BY <1>4, <2>3, <3>2
  <2> SUFFICES ASSUME NEW q \in alive', NEW r \in alive', q # r,
                      NEW i \in DOMAIN queue'[q].chain, NEW j \in DOMAIN queue'[r].chain
               PROVE  queue'[q].chain[i] # queue'[r].chain[j]
    BY DEF OwnChains
  <2>6. /\ q \in {a, b} \/ (q \in alive \ {a, b} /\ queue'[q] = queue[q])
        /\ r \in {a, b} \/ (r \in alive \ {a, b} /\ queue'[r] = queue[r])
    BY <1>1, <1>2, <1>12
  <2>7. CASE q \in alive \ {a, b} /\ r \in alive \ {a, b}
    <3>1. queue'[q] = queue[q] /\ queue'[r] = queue[r]
      BY <2>6, <2>7
    <3> QED
      BY <2>7, <3>1 DEF MoveInv, OwnChains
  <2>8. CASE q \in {a, b} /\ r \in {a, b}
    BY <1>12, <2>4, <2>8
  <2>9. CASE q \in {a, b} /\ r \in alive \ {a, b}
    BY <1>12, <2>5, <2>6, <2>9
  <2>10. CASE q \in alive \ {a, b} /\ r \in {a, b}
    BY <1>12, <2>5, <2>6, <2>10
  <2> QED
    BY <2>6, <2>7, <2>8, <2>9, <2>10
<1>15. Blank'
  <2>1. \A h \in 1 .. MaxMade : slots'[h] = slots[h]
    BY <1>3
  <2> QED
    BY <1>5, <2>1 DEF MoveInv, Blank
<1>16. Pointed'
  <2> SUFFICES ASSUME NEW k \in Handles, holder[k] \notin {0, Moves!NoObject}
               PROVE  /\ holder[k] \in 1 .. n /\ producers'[holder[k]].token = k
                      /\ ~ producers'[holder[k]].inactive
                      /\ \E r \in alive' : \E i \in DOMAIN queue'[r].list : queue'[r].list[i] = holder[k]
    BY <1>2, <1>5 DEF Pointed
  <2>1. /\ holder[k] \in 1 .. n /\ producers[holder[k]].token = k /\ ~ producers[holder[k]].inactive
        /\ \E r \in alive : \E i \in DOMAIN queue[r].list : queue[r].list[i] = holder[k]
    BY DEF MoveInv, Pointed
  <2>2. PICK r \in alive : \E i \in DOMAIN queue[r].list : queue[r].list[i] = holder[k]
    BY <2>1
  <2>3. \E q \in alive' : \E i \in DOMAIN queue'[q].list : queue'[q].list[i] = holder[k]
    <3>1. CASE r = a
      <4>1. queue'[b].list = queue[r].list /\ b \in alive'
        BY <1>2, <1>11, <1>12, <3>1
      <4> QED
        BY <2>2, <4>1
    <3>2. CASE r = b
      <4>1. queue'[a].list = queue[r].list /\ a \in alive'
        BY <1>2, <1>10, <1>12, <3>2
      <4> QED
        BY <2>2, <4>1
    <3>3. CASE r \notin {a, b}
      <4>1. queue'[r].list = queue[r].list /\ r \in alive'
        BY <1>1, <1>2, <1>12, <3>3
      <4> QED
        BY <2>2, <4>1
    <3> QED
      BY <3>1, <3>2, <3>3
  <2> QED
    BY <1>5, <2>1, <2>3
<1>17. MoveTypes'
  <2>1. alive' \subseteq Objects
    BY <1>1, <1>2
  <2>2. holder' \in [Handles -> {Moves!NoObject} \cup 0 .. MaxMade]
    BY <1>2 DEF MoveInv, MoveTypes
  <2> QED
    BY <1>1, <1>3, <1>5, <1>12, <2>1, <2>2 DEF MoveTypes
<1>18. ASSUME NEW r \in alive' PROVE QueueOK(r, queue'[r], producers', slots')
  <2>1. CASE r = a
    BY <1>6, <1>7, <1>10, <1>12, <2>1
  <2>2. CASE r = b
    BY <1>6, <1>7, <1>11, <1>12, <2>2
  <2>3. CASE r \notin {a, b}
    <3>1. r \in alive \ {a, b} /\ queue'[r] = queue[r]
      BY <1>1, <1>2, <1>12, <2>3
    <3> QED
      BY <1>6, <1>7, <1>13, <3>1
  <2> QED
    BY <2>1, <2>2, <2>3
<1> QED
  BY <1>14, <1>15, <1>16, <1>17, <1>18 DEF MoveInv

\* The move constructor: the new queue is made and changes places with the other.
LEMMA MoveStep == ASSUME MoveInv, NEW a \in Objects, NEW b \in Objects, Moves!Move(a, b) PROVE MoveInv'
<1> DEFINE F == Moves!Fresh(a)
<1>1. /\ a \notin alive /\ b \in alive /\ alive' = alive \cup {a} /\ holder' = holder
      /\ Moves!Exchange(a, b, F, queue[b])
      /\ slots' = [slots EXCEPT ![a] = slots[b], ![b] = Moves!Unused]
  BY DEF Moves!Move
<1>2. /\ queue \in [Objects -> Holdings] /\ slots \in [Moves!Tables -> [Movers -> 0 .. MaxMade]]
      /\ Len(producers) \in Nat /\ Len(producers) <= MaxMade /\ alive \subseteq Objects
  BY DEF MoveInv, MoveTypes
<1>3. /\ a \in Moves!Tables /\ b \in Moves!Tables /\ Moves!Unused \in [Movers -> 0 .. MaxMade]
      /\ a # b /\ \A h \in 1 .. MaxMade : h \in Moves!Tables /\ h # a /\ h # b
  BY <1>1, MovesAssumption DEF Moves!Tables, Moves!Unused
<1>4. PICK S : S = [slots EXCEPT ![a] = Moves!Unused]
  OBVIOUS
<1>5. S[a] = Moves!Unused /\ \A h \in Moves!Tables : h # a => S[h] = slots[h]
  BY <1>2, <1>3, <1>4
<1>6. /\ slots' \in [Moves!Tables -> [Movers -> 0 .. MaxMade]] /\ slots'[a] = S[b] /\ slots'[b] = S[a]
      /\ \A h \in 1 .. MaxMade : S[h] = slots[h] /\ slots'[h] = slots[h]
      /\ \A r \in Objects \ {a, b} : slots'[r] = slots[r]
  <2>1. slots[b] \in [Movers -> 0 .. MaxMade]
    BY <1>2, <1>3
  <2>2. \A r \in Objects : r \in Moves!Tables
    BY DEF Moves!Tables
  <2> HIDE DEF Moves!Unused
  <2> QED
    BY <1>1, <1>2, <1>3, <1>5, <2>1, <2>2
<1>7. F \in Holdings /\ QueueOK(a, F, producers, S)
  <2>1. PICK P : P = producers
    OBVIOUS
  <2>2. F \in Holdings /\ QueueOK(a, F, P, S)
    BY <1>5, FreshOK
  <2> QED
    BY <2>1, <2>2
<1>8. DOMAIN F.chain = {1} /\ F.chain[1] = a
  BY DEF Moves!Fresh
<1> HIDE DEF F
<1>9. \A r \in alive : \A j \in DOMAIN queue[r].chain : queue[r].chain[j] \in Moves!Tables /\ queue[r].chain[j] # a
  <2> SUFFICES ASSUME NEW r \in alive, NEW j \in DOMAIN queue[r].chain
               PROVE  queue[r].chain[j] \in Moves!Tables /\ queue[r].chain[j] # a
    OBVIOUS
  <2>1. QueueOK(r, queue[r], producers, slots) /\ queue[r] \in Holdings
    BY <1>2 DEF MoveInv
  <2>2. queue[r].chain[j] = r \/ queue[r].chain[j] \in 1 .. Len(producers)
    BY <1>2, <2>1, OwnOrNumbered
  <2>3. queue[r].chain[j] = r \/ queue[r].chain[j] \in 1 .. MaxMade
    BY <1>2, <2>2, MovesAssumption
  <2> QED
    BY <1>1, <1>2, <1>3, <2>3 DEF Moves!Tables
<1>10. QueueOK(b, queue[b], producers, S)
  <2>1. QueueOK(b, queue[b], producers, slots)
    BY <1>1 DEF MoveInv
  <2>2. \A j \in DOMAIN queue[b].chain : S[queue[b].chain[j]] = slots[queue[b].chain[j]]
    BY <1>1, <1>5, <1>9
  <2> QED
    BY <1>2, <2>1, <2>2, Unmoved
<1>11. /\ \A i \in DOMAIN F.chain : \A j \in DOMAIN queue[b].chain : F.chain[i] # queue[b].chain[j]
       /\ \A r \in alive \ {a, b} : \A i \in DOMAIN F.chain : \A j \in DOMAIN queue[r].chain :
            F.chain[i] # queue[r].chain[j]
  BY <1>1, <1>8, <1>9
<1>12. PICK qb \in Holdings : qb = queue[b]
  BY <1>2
<1>13. Exchanges(a, b, F, qb, S)
  BY <1>1, <1>3, <1>6, <1>7, <1>10, <1>11, <1>12, ZenonT(30) DEF Exchanges
<1> QED
  BY <1>13, ExchangeStep

\* Queues swapped, and assigned.
LEMMA SwapStep == ASSUME MoveInv, NEW a \in Objects, NEW b \in Objects, Moves!Swap(a, b) PROVE MoveInv'
<1>1. /\ a \in alive /\ b \in alive \ {a} /\ alive' = alive /\ holder' = holder
      /\ Moves!Exchange(a, b, queue[a], queue[b])
      /\ slots' = [slots EXCEPT ![a] = slots[b], ![b] = slots[a]]
  BY DEF Moves!Swap
<1>2. /\ queue \in [Objects -> Holdings] /\ slots \in [Moves!Tables -> [Movers -> 0 .. MaxMade]]
  BY DEF MoveInv, MoveTypes
<1>3. /\ a \in Moves!Tables /\ b \in Moves!Tables
      /\ a # b /\ \A h \in 1 .. MaxMade : h \in Moves!Tables /\ h # a /\ h # b
  BY <1>1, MovesAssumption DEF Moves!Tables
<1>4. PICK S : S = slots
  OBVIOUS
<1>5. /\ slots' \in [Moves!Tables -> [Movers -> 0 .. MaxMade]] /\ slots'[a] = S[b] /\ slots'[b] = S[a]
      /\ \A h \in 1 .. MaxMade : S[h] = slots[h] /\ slots'[h] = slots[h]
      /\ \A r \in Objects \ {a, b} : slots'[r] = slots[r]
  <2>1. slots[a] \in [Movers -> 0 .. MaxMade] /\ slots[b] \in [Movers -> 0 .. MaxMade]
    BY <1>2, <1>3
  <2>2. \A r \in Objects : r \in Moves!Tables
    BY DEF Moves!Tables
  <2> QED
    BY <1>1, <1>2, <1>3, <1>4, <2>1, <2>2
<1>6. QueueOK(a, queue[a], producers, S) /\ QueueOK(b, queue[b], producers, S)
  BY <1>1, <1>4 DEF MoveInv
<1>7. /\ \A i \in DOMAIN queue[a].chain : \A j \in DOMAIN queue[b].chain : queue[a].chain[i] # queue[b].chain[j]
      /\ \A r \in alive \ {a, b} : \A i \in DOMAIN queue[a].chain : \A j \in DOMAIN queue[r].chain :
            queue[a].chain[i] # queue[r].chain[j]
  BY <1>1 DEF MoveInv, OwnChains
<1>8. PICK qa \in Holdings : qa = queue[a]
  BY <1>2
<1>9. PICK qb \in Holdings : qb = queue[b]
  BY <1>2
<1>10. alive' = alive \cup {a}
  BY <1>1
<1>12. /\ Moves!Exchange(a, b, qa, qb) /\ QueueOK(a, qa, producers, S) /\ QueueOK(b, qb, producers, S)
       /\ \A i \in DOMAIN qa.chain : \A j \in DOMAIN qb.chain : qa.chain[i] # qb.chain[j]
       /\ \A r \in alive \ {a, b} : \A i \in DOMAIN qa.chain : \A j \in DOMAIN queue[r].chain :
            qa.chain[i] # queue[r].chain[j]
  BY <1>1, <1>6, <1>7, <1>8, <1>9
<1>13. b \in alive \ {a} /\ holder' = holder
  BY <1>1
<1>11. Exchanges(a, b, qa, qb, S)
  BY <1>5, <1>8, <1>9, <1>10, <1>12, <1>13 DEF Exchanges
<1> QED
  BY <1>11, ExchangeStep

\* At the start there is no queue, and no producer.
LEMMA MoveStart == ASSUME Moves!Init PROVE MoveInv
<1>1. /\ alive = {} /\ producers = <<>> /\ queue = [q \in Objects |-> Moves!Fresh(q)]
      /\ slots = [h \in Moves!Tables |-> Moves!Unused] /\ holder = [k \in Handles |-> Moves!NoObject]
  BY DEF Moves!Init
<1>2. \A q \in Objects : Moves!Fresh(q) \in Holdings
  <2> SUFFICES ASSUME NEW q \in Objects PROVE Moves!Fresh(q) \in Holdings
    OBVIOUS
  <2>1. PICK S : S = [h \in Moves!Tables |-> Moves!Unused]
    OBVIOUS
  <2>2. S[q] = Moves!Unused
    BY <2>1 DEF Moves!Tables
  <2> QED
    BY <2>2, FreshOK
<1>3. MoveTypes
  <2>1. Moves!Unused \in [Movers -> 0 .. MaxMade]
    BY MovesAssumption DEF Moves!Unused
  <2>2. queue \in [Objects -> Holdings]
    BY <1>1, <1>2
  <2>3. slots \in [Moves!Tables -> [Movers -> 0 .. MaxMade]] /\ holder \in [Handles -> {Moves!NoObject} \cup 0 .. MaxMade]
    BY <1>1, <2>1
  <2>4. producers \in Seq(Entries) /\ Len(producers) <= MaxMade
    BY <1>1, MovesAssumption
  <2> QED
    BY <1>1, <2>2, <2>3, <2>4 DEF MoveTypes
<1>4. Blank
  BY <1>1 DEF Blank, Moves!Tables
<1>5. Pointed
  BY <1>1 DEF Pointed
<1> QED
  BY <1>1, <1>3, <1>4, <1>5 DEF MoveInv, OwnChains

\* Each step of a program that moves queues and tokens keeps the invariant,
\* and so does a step of another part.
LEMMA MoveNext == ASSUME MoveInv, Moves!Next \/ UNCHANGED movevars PROVE MoveInv'
<1>1. CASE UNCHANGED movevars
  BY <1>1 DEF movevars, MoveInv, MoveTypes, OwnChains, Blank, Pointed
<1>2. CASE Moves!Next
  <2>1. ASSUME NEW q \in Objects, Moves!Construct(q) PROVE MoveInv'
    BY <2>1, ConstructStep
  <2>2. ASSUME NEW q \in Objects, Moves!Destroy(q) PROVE MoveInv'
    BY <2>2, DestroyStep
  <2>3. ASSUME NEW a \in Objects, NEW b \in Objects, Moves!Move(a, b) PROVE MoveInv'
    BY <2>3, MoveStep
  <2>4. ASSUME NEW a \in Objects, NEW b \in Objects, Moves!Swap(a, b) PROVE MoveInv'
    BY <2>4, SwapStep
  <2>5. ASSUME NEW k \in Handles, NEW q \in Objects, Moves!MakeToken(k, q) PROVE MoveInv'
    BY <2>5, MakeTokenStep
  <2>6. ASSUME NEW t \in Movers, NEW q \in Objects, Moves!FirstEnqueue(t, q) PROVE MoveInv'
    BY <2>6, FirstEnqueueStep
  <2>7. ASSUME NEW k \in Handles, Moves!DestroyToken(k) PROVE MoveInv'
    BY <2>7, DestroyTokenStep
  <2>8. ASSUME NEW a \in Handles, NEW b \in Handles, Moves!MoveToken(a, b) \/ Moves!SwapTokens(a, b)
        PROVE  MoveInv'
    BY <2>8, MoveTokensStep
  <2> QED
    BY <1>2, <2>1, <2>2, <2>3, <2>4, <2>5, <2>6, <2>7, <2>8 DEF Moves!Next
<1> QED
  BY <1>1, <1>2

\* The invariant says of each queue what Whole says.
LEMMA WholeHolds == ASSUME MoveInv PROVE Whole
<1>1. queue \in [Objects -> Holdings] /\ alive \subseteq Objects /\ producers \in Seq(Entries)
  BY DEF MoveInv, MoveTypes
<1>2. ASSUME NEW q \in alive
      PROVE  LET Q == queue[q] IN
             /\ \A i \in DOMAIN Q.list : producers[Q.list[i]].parent = q
             /\ \A i \in DOMAIN Q.list : producers[Q.list[i]].owner # Moves!None =>
                                         Moves!Found(q, producers[Q.list[i]].owner) = Q.list[i]
             /\ \A t \in Movers : Moves!Found(q, t) # 0 => Moves!Found(q, t) \in Moves!ToSet(Q.list)
             /\ Moves!Last(Q.chain) = q /\ Q.count = Len(Q.list)
             /\ Q.hashCount = Moves!Cardinality({i \in DOMAIN Q.list : producers[Q.list[i]].owner # Moves!None})
             /\ \A r \in alive \ {q} : Moves!ToSet(Q.chain) \cap Moves!ToSet(queue[r].chain) = {}
  <2> DEFINE Q == queue[q]
  <2>1. QueueOK(q, Q, producers, slots) /\ Q \in Holdings
    BY <1>1, SMTT(40) DEF MoveInv
  <2>2. \A i \in DOMAIN Q.list : Q.list[i] \in 1 .. Len(producers) /\ producers[Q.list[i]].parent = q
    BY <2>1, SMTT(40) DEF QueueOK, ListOf
  <2>3. ASSUME NEW i \in DOMAIN Q.list, producers[Q.list[i]].owner # Moves!None
        PROVE  Moves!Found(q, producers[Q.list[i]].owner) = Q.list[i]
    <3>1. producers[Q.list[i]] \in Entries /\ Q.list[i] # 0
      BY <1>1, <2>2
    <3>2. PICK t \in Movers : t = producers[Q.list[i]].owner
      BY <2>3, <3>1, EntryFields, SMTT(40)
    <3>3. PICK j \in DOMAIN Q.chain : slots[Q.chain[j]][t] = Q.list[i]
      BY <2>1, <2>3, <3>2 DEF QueueOK, ListOf, Owned
    <3> QED
      BY <2>1, <3>1, <3>2, <3>3, FoundThere
  <2>4. ASSUME NEW t \in Movers, Moves!Found(q, t) # 0 PROVE Moves!Found(q, t) \in Moves!ToSet(Q.list)
    <3>1. PICK j \in DOMAIN Q.chain : Moves!Found(q, t) = slots[Q.chain[j]][t]
      BY <2>1, <2>4, FoundThere
    <3>2. \E i \in DOMAIN Q.list : Q.list[i] = slots[Q.chain[j]][t]
      BY <2>1, <2>4, <3>1 DEF QueueOK, TablesOf
    <3> QED
      BY <3>1, <3>2 DEF Moves!ToSet
  <2>5. Moves!Last(Q.chain) = q
    BY <2>1 DEF QueueOK, ChainOf, Moves!Last
  <2>6. /\ Q.count = Len(Q.list)
        /\ Q.hashCount = Moves!Cardinality({i \in DOMAIN Q.list : producers[Q.list[i]].owner # Moves!None})
    BY <2>1 DEF QueueOK, CountsOf, Owned
  <2>7. \A r \in alive \ {q} : Moves!ToSet(Q.chain) \cap Moves!ToSet(queue[r].chain) = {}
    BY DEF MoveInv, OwnChains, Moves!ToSet
  <2> QED
    BY <2>2, <2>3, <2>4, <2>5, <2>6, <2>7
<1>3. \A k \in Handles : holder[k] \notin {0, Moves!NoObject} =>
        /\ producers[holder[k]].token = k
        /\ \E q \in alive : holder[k] \in Moves!ToSet(queue[q].list)
  BY DEF MoveInv, Pointed, Moves!ToSet
<1> QED
  BY <1>2, <1>3 DEF Whole, Moves!Whole

\* "When a queue is moved, its tokens are still valid but can only be used
\* with the destination queue": however queues and tokens are made, moved,
\* swapped and destroyed, what a queue has leads back to it and to no other.
THEOREM WholeAlways == AllSpec => []Whole
<1>1. AllInit => MoveInv
  BY MoveStart DEF AllInit
<1>2. MoveInv /\ [AllNext]_<<part, bqvars, regvars, convars, movevars>> => MoveInv'
  <2>1. [AllNext]_<<part, bqvars, regvars, convars, movevars>> => Moves!Next \/ UNCHANGED movevars
    BY DEF AllNext
  <2> QED
    BY <2>1, MoveNext
<1> QED
  BY <1>1, <1>2, WholeHolds, PTL DEF AllSpec
-----------------------------------------------------------------------------
(* Consumers that go round the producers.                                  *)

\* A place on a round of t, k steps on from p.
Steps(p, k, t) == 1 + ((p - 1 - k) % t)

\* Remainders of what lies before another.
LEMMA Before ==
  ASSUME NEW t \in Nat \ {0}, NEW x \in Int
  PROVE  /\ x % t \in 0 .. t - 1
         /\ (x - 1) % t = IF x % t = 0 THEN t - 1 ELSE (x % t) - 1
<1>1. x % t \in 0 .. t - 1 /\ (x - 1) % t \in 0 .. t - 1
  OBVIOUS
<1>2. PICK q \in Int : x = t * q + (x % t)
  <2>1. x \div t \in Int /\ x = t * (x \div t) + (x % t)
    OBVIOUS
  <2> QED
    BY <2>1
<1>3. PICK r \in Int : x - 1 = t * r + ((x - 1) % t)
  <2>1. (x - 1) \div t \in Int /\ x - 1 = t * ((x - 1) \div t) + ((x - 1) % t)
    OBVIOUS
  <2> QED
    BY <2>1
<1>4. t * (q - r) = 1 + ((x - 1) % t) - (x % t)
  BY <1>1, <1>2, <1>3
<1>5. q - r \in {0, 1}
  BY <1>1, <1>4
<1> QED
  BY <1>1, <1>4, <1>5

\* Hop goes so many steps on, whatever their number: of the places where the loop
\* and the steps would differ none is the first.
LEMMA HopSteps ==
  ASSUME NEW t \in Nat \ {0}, NEW p \in 1 .. t, NEW n \in Nat
  PROVE  Takes!Hop(p, n, t) = Steps(p, n, t)
<1> DEFINE G(hop) == [k \in 0 .. n |-> IF k = 0 THEN p ELSE Takes!Round(hop[k - 1], t)]
           s == [k \in 0 .. n |-> Steps(p, k, t)]
<1>0. /\ \A k \in 0 .. n : Steps(p, k, t) \in 1 .. t
      /\ Steps(p, 0, t) = p
      /\ \A k \in 1 .. n : Steps(p, k, t) = Takes!Round(Steps(p, k - 1, t), t)
  <2>1. ASSUME NEW k \in 0 .. n PROVE Steps(p, k, t) \in 1 .. t
    BY Before DEF Steps
  <2>2. Steps(p, 0, t) = p
    BY DEF Steps
  <2>3. ASSUME NEW k \in 1 .. n PROVE Steps(p, k, t) = Takes!Round(Steps(p, k - 1, t), t)
    <3>1. PICK x \in Int : x = p - 1 - (k - 1)
      OBVIOUS
    <3>2. p - 1 - k = x - 1
      BY <3>1
    <3>3. x % t \in 0 .. t - 1 /\ (x - 1) % t = IF x % t = 0 THEN t - 1 ELSE (x % t) - 1
      BY Before
    <3>4. Steps(p, k, t) = 1 + ((x - 1) % t) /\ Steps(p, k - 1, t) = 1 + (x % t)
      BY <3>1, <3>2 DEF Steps
    <3> HIDE <3>1
    <3> QED
      BY <3>3, <3>4 DEF Takes!Round, Takes!NextProd
  <2> QED
    BY <2>1, <2>2, <2>3
<1>1. s = G(s)
  BY <1>0
<1> DEFINE h == CHOOSE hop : hop = G(hop)
<1>2. h = G(h)
  BY <1>1
<1>3. Takes!Hop(p, n, t) = h[n]
  BY DEF Takes!Hop
<1> HIDE DEF h, s
<1>4. /\ h[0] = p
      /\ \A k \in 1 .. n : h[k] = Takes!Round(h[k - 1], t)
  BY <1>2
<1>5. \A k \in 0 .. n : h[k] = Steps(p, k, t)
  <2> SUFFICES ASSUME {k \in 0 .. n : h[k] # Steps(p, k, t)} # {} PROVE FALSE
    OBVIOUS
  <2>1. PICK k \in 0 .. n : h[k] # Steps(p, k, t) /\ \A j \in 0 .. n : h[j] # Steps(p, j, t) => k <= j
    <3> DEFINE B == {k \in 0 .. n : h[k] # Steps(p, k, t)}
    <3>1. B \subseteq Nat /\ B # {}
      OBVIOUS
    <3>2. PICK i \in B : \A j \in B : i <= j
      <4> HIDE DEF B
      <4> QED
        BY <3>1, Least
    <3> QED
      BY <3>2
  <2>2. k # 0
    BY <1>0, <1>4, <2>1
  <2>3. k \in 1 .. n /\ k - 1 \in 0 .. n /\ ~ (k <= k - 1)
    BY <2>2
  <2>4. h[k - 1] = Steps(p, k - 1, t)
    BY <2>1, <2>3
  <2>5. h[k] = Steps(p, k, t)
    BY <1>0, <1>4, <2>3, <2>4
  <2> QED
    BY <2>1, <2>5
<1> QED
  BY <1>3, <1>5

-----------------------------------------------------------------------------

ConLocals == [max : Nat, bulk : BOOLEAN, got : BOOLEAN, ptr : Nat,
              tail : Nat, count : Nat, best : Nat, found : Nat]
ConTokens == [known : Nat, consumed : Nat, current : Nat, desired : Nat]
ConPlaces == {"idle", "none", "tail", "count", "offset", "own", "raise", "around", "others",
              "load", "score", "best", "walktail", "walk"}

ConTypes ==
  /\ tail \in Nat /\ counted \in Nat /\ tail <= counted /\ grows \in BOOLEAN
  /\ globalOffset \in Nat /\ (~ grows => tail = counted)
  /\ token \in [Takes!Bearers -> ConTokens]
  /\ doing \in [Takes!Takers -> ConPlaces]
  /\ locals \in [Takes!Takers -> ConLocals]
  /\ unasked \in [Takes!Takers -> SUBSET Nat]

\* Which producers a walk down the list, and one round it, has still to ask.
AskedDown(c) ==
  LET l == locals[c] IN
  /\ unasked[c] \subseteq 1 .. tail
  /\ doing[c] \in {"idle", "none"} => l = Takes!NoLocals
  /\ doing[c] = "none" => unasked[c] = {}
  /\ doing[c] = "load" => l.found = 0
  /\ doing[c] = "score" /\ l.found = 0 => unasked[c] \subseteq 1 .. l.ptr
  /\ doing[c] = "walktail" => l.best \notin unasked[c]
  /\ doing[c] = "walk" => l.best \notin unasked[c] /\ unasked[c] \subseteq 1 .. l.ptr

AskedRound(c) ==
  LET l == locals[c]  k == token[c] IN
  /\ k.desired # 0 => k.desired \in 1 .. tail /\ k.current \in 1 .. tail
  /\ doing[c] \in {"count", "offset"} =>
       l.tail \in 1 .. tail /\ k.desired <= l.tail /\ (~ grows => l.tail = tail)
  /\ doing[c] = "offset" => l.tail <= l.count /\ l.count <= counted
  /\ doing[c] \in {"own", "raise", "around", "others"} => k.desired # 0
  /\ doing[c] = "around" => k.current \notin unasked[c]
  /\ doing[c] = "others" =>
       /\ l.tail \in 1 .. tail /\ l.ptr \in 1 .. l.tail /\ unasked[c] \subseteq 1 .. l.tail
       /\ ~ l.got =>
            /\ k.current \in 1 .. l.tail /\ l.ptr # k.current
            /\ l.ptr > k.current => unasked[c] \subseteq (k.current + 1) .. l.ptr
            /\ l.ptr < k.current => unasked[c] \subseteq (1 .. l.ptr) \cup ((k.current + 1) .. l.tail)

\* The place of a token: its own, and as many on as there were rotations.
Placed(c) ==
  LET k == token[c] IN
  IF k.desired = 0 THEN k.known = Word - 1
  ELSE /\ k.known <= globalOffset
       /\ ~ grows => k.desired = 1 + ((InitialOffset[c] - k.known - 1) % tail)

\* Each call may rotate once more.
InCall == {c \in Takes!Bearers : doing[c] \notin {"idle", "none"}}
Unwrapped == globalOffset + Cardinality(InCall) <= MaxOffset + Cardinality(Takes!Bearers)

ConInv ==
  /\ ConTypes /\ Unwrapped
  /\ \A c \in Takes!Takers : AskedDown(c)
  /\ \A c \in Takes!Bearers : AskedRound(c) /\ Placed(c)

\* A step of c is nobody else's.
OneTaker(c) ==
  /\ tail' = tail /\ counted' = counted /\ grows' = grows /\ globalOffset' \in Nat
  /\ globalOffset <= globalOffset'
  /\ \A d \in Takes!Takers \ {c} :
       doing'[d] = doing[d] /\ locals'[d] = locals[d] /\ unasked'[d] = unasked[d]
  /\ \A d \in Takes!Bearers \ {c} : token'[d] = token[d]

\* The numbers of calls.
LEMMA CallCount ==
  ASSUME InCall' \subseteq InCall
  PROVE  /\ Cardinality(InCall) \in Nat /\ Cardinality(InCall') \in Nat
         /\ Cardinality(InCall') <= Cardinality(InCall)
         /\ \A c \in InCall : c \notin InCall' => Cardinality(InCall') <= Cardinality(InCall) - 1
<1> DEFINE A == InCall
           B == InCall'
<1>1. IsFiniteSet(A) /\ IsFiniteSet(B)
  BY ConsumersAssumption, FS_Subset DEF InCall
<1> HIDE DEF A, B
<1>2. Cardinality(A) \in Nat /\ Cardinality(B) \in Nat /\ (B \subseteq A => Cardinality(B) <= Cardinality(A))
  BY <1>1, FS_CardinalityType, FS_Subset
<1>3. ASSUME NEW c \in A, c \notin B, B \subseteq A PROVE Cardinality(B) <= Cardinality(A) - 1
  <2>1. IsFiniteSet(A \ {c}) /\ Cardinality(A \ {c}) = Cardinality(A) - 1
    BY <1>1, <1>3, FS_RemoveElement
  <2>2. B \subseteq A \ {c}
    BY <1>3
  <2>3. Cardinality(B) <= Cardinality(A \ {c})
    BY <2>1, <2>2, FS_Subset
  <2> QED
    BY <2>1, <2>3
<1>4. B \subseteq A
  BY DEF A, B
<1> QED
  BY <1>2, <1>3, <1>4 DEF A, B

\* What a step of c has to leave.
LEMMA TakerStep ==
  ASSUME ConInv, ConTypes', Unwrapped', NEW c \in Takes!Takers, OneTaker(c), AskedDown(c)',
         c \in Takes!Bearers => AskedRound(c)' /\ Placed(c)'
  PROVE  ConInv'
<1>1. ASSUME NEW d \in Takes!Takers PROVE AskedDown(d)'
  <2>1. CASE d # c
    BY <2>1 DEF ConInv, OneTaker, AskedDown
  <2> QED
    BY <2>1
<1>2. ASSUME NEW d \in Takes!Bearers PROVE AskedRound(d)' /\ Placed(d)'
  <2>1. CASE d # c
    <3>1. AskedRound(d)'
      BY <2>1 DEF ConInv, OneTaker, AskedRound, Takes!Takers
    <3>2. Placed(d)'
      BY <2>1 DEF ConInv, ConTypes, ConTokens, OneTaker, Placed
    <3> QED
      BY <3>1, <3>2
  <2> QED
    BY <2>1
<1> QED
  BY <1>1, <1>2 DEF ConInv

\* And when it stays in its call, or ends it, and does not rotate.
LEMMA StillUnwrapped ==
  ASSUME ConInv, ConTypes', NEW c \in Takes!Takers, OneTaker(c), globalOffset' = globalOffset,
         c \in Takes!Bearers => doing[c] \notin {"idle", "none"}
  PROVE  Unwrapped'
<1>1. InCall' \subseteq InCall
  BY DEF InCall, OneTaker, Takes!Takers
<1>2. globalOffset \in Nat /\ {MaxOffset, Cardinality(Takes!Bearers)} \subseteq Nat
  BY ConsumersAssumption, FS_CardinalityType DEF ConInv, ConTypes
<1> QED
  BY <1>1, <1>2, CallCount DEF ConInv, Unwrapped

\* What is known of a consumer.
LEMMA Knowing ==
  ASSUME ConInv, NEW c \in Takes!Takers
  PROVE  /\ ConTypes /\ AskedDown(c) /\ locals[c] \in ConLocals /\ unasked[c] \subseteq 1 .. tail
         /\ tail \in Nat /\ counted \in Nat /\ tail <= counted /\ globalOffset \in Nat
         /\ c \in Takes!Bearers =>
              c \notin Plain /\ token[c] \in ConTokens /\ AskedRound(c) /\ Placed(c)
  BY ConsumersAssumption DEF ConInv, ConTypes, AskedDown

\* What a consumer remembers between calls is nothing.
LEMMA NoneTaken == Takes!NoLocals \in ConLocals
  BY DEF Takes!NoLocals, ConLocals

\* A walk that goes on.
LEMMA Advances ==
  ASSUME NEW l \in ConLocals, NEW n \in 0 .. l.max, NEW p \in Nat
  PROVE  /\ Takes!Advanced(l, n, p) \in ConLocals
         /\ Takes!Advanced(l, n, p).ptr = p /\ Takes!Advanced(l, n, p).tail = l.tail
         /\ Takes!Advanced(l, n, p).best = l.best
         /\ ~ Takes!Advanced(l, n, p).got => ~ l.got /\ n = 0
<1> DEFINE A == Takes!Advanced(l, n, p)
           R(b) == [l EXCEPT !.max = @ - n, !.got = b, !.ptr = p]
<1>0. l.max - n \in Nat /\ n \in Nat /\ l.got \in BOOLEAN
  BY DEF ConLocals
<1>1. /\ R(TRUE) \in ConLocals /\ R(TRUE).ptr = p /\ R(TRUE).tail = l.tail
      /\ R(TRUE).best = l.best /\ R(TRUE).got = TRUE
  BY <1>0 DEF ConLocals
<1>2. /\ R(FALSE) \in ConLocals /\ R(FALSE).ptr = p /\ R(FALSE).tail = l.tail
      /\ R(FALSE).best = l.best
  BY <1>0 DEF ConLocals
<1>3. A = R(l.got \/ n > 0)
  BY DEF Takes!Advanced
<1> HIDE DEF A, R
<1>5. CASE l.got \/ n > 0
  <2>1. (l.got \/ n > 0) = TRUE
    BY <1>0, <1>5
  <2>2. A = R(TRUE)
    BY <1>3, <2>1, Zenon
  <2> QED
    BY <1>1, <2>2 DEF A
<1>6. CASE ~ (l.got \/ n > 0)
  <2>1. (l.got \/ n > 0) = FALSE
    BY <1>0, <1>6
  <2>2. A = R(FALSE)
    BY <1>3, <2>1, Zenon
  <2>3. ~ l.got /\ n = 0
    BY <1>0, <1>6
  <2> QED
    BY <1>2, <2>2, <2>3 DEF A
<1> QED
  BY <1>5, <1>6

\* update_current_producer_after_rotation: the tail is read, ...
LEMMA LoadTailKeeps == ASSUME ConInv, NEW c \in Takes!Bearers, Takes!LoadTail(c) PROVE ConInv'
<1>1. c \in Takes!Takers
  BY DEF Takes!Takers
<1>2. doing[c] = "tail" /\ globalOffset' = globalOffset
  BY DEF Takes!LoadTail
<1>3. OneTaker(c)
  BY <1>1, <1>2, Knowing DEF Takes!LoadTail, Takes!Go, Takes!producers, Takes!Leave, OneTaker, ConTypes
<1>4. ConTypes'
  <2>1. doing' \in [Takes!Takers -> ConPlaces]
    BY <1>1, Knowing DEF Takes!LoadTail, Takes!Go, Takes!producers, Takes!Leave, ConTypes, ConPlaces
  <2>2. unasked' \in [Takes!Takers -> SUBSET Nat]
    BY <1>1, Knowing DEF Takes!LoadTail, Takes!Go, Takes!producers, Takes!Leave, ConTypes
  <2>3. token' \in [Takes!Bearers -> ConTokens]
    BY <1>1, Knowing DEF Takes!LoadTail, Takes!Go, Takes!producers, Takes!Leave, ConTypes, ConTokens, ConLocals
  <2>4. locals' \in [Takes!Takers -> ConLocals]
    <3>1. [locals[c] EXCEPT !.tail = tail] \in ConLocals
      BY <1>1, Knowing DEF ConLocals
    <3>2. \E l \in {Takes!NoLocals, [locals[c] EXCEPT !.tail = tail]} : locals' = [locals EXCEPT ![c] = l]
      BY <1>1, Knowing DEF Takes!LoadTail, Takes!Leave
    <3> QED
      BY <1>1, <3>1, <3>2, NoneTaken, Knowing DEF ConTypes
  <2> QED
    BY <1>1, <1>3, <2>1, <2>2, <2>3, <2>4, Knowing DEF OneTaker, ConTypes
<1>5. Unwrapped'
  BY <1>1, <1>2, <1>3, <1>4, StillUnwrapped
<1>6. AskedDown(c)'
  BY <1>1, Knowing DEF Takes!LoadTail, Takes!Go, Takes!producers, Takes!Leave, ConTypes, ConLocals, AskedDown
<1>7. AskedRound(c)'
  BY <1>1, Knowing DEF Takes!LoadTail, Takes!Go, Takes!producers, Takes!Leave, ConTypes, ConLocals, ConTokens, AskedRound
<1>8. Placed(c)'
  BY <1>1, Knowing DEF Takes!LoadTail, Takes!Go, Takes!producers, Takes!Leave, ConTypes, ConTokens, Placed
<1> QED
  BY <1>1, <1>3, <1>4, <1>5, <1>6, <1>7, <1>8, TakerStep

\* then the number of producers.
LEMMA LoadCountKeeps == ASSUME ConInv, NEW c \in Takes!Bearers, Takes!LoadCount(c) PROVE ConInv'
<1>1. c \in Takes!Takers
  BY DEF Takes!Takers
<1>2. doing[c] = "count" /\ globalOffset' = globalOffset
  BY DEF Takes!LoadCount
<1>3. OneTaker(c)
  BY <1>1, <1>2, Knowing DEF Takes!LoadCount, Takes!Go, Takes!producers, OneTaker, ConTypes
<1>4. ConTypes'
  <2>1. doing' \in [Takes!Takers -> ConPlaces]
    BY <1>1, Knowing DEF Takes!LoadCount, Takes!Go, Takes!producers, ConTypes, ConPlaces
  <2>2. unasked' \in [Takes!Takers -> SUBSET Nat]
    BY <1>1, Knowing DEF Takes!LoadCount, Takes!Go, Takes!producers, ConTypes
  <2>3. token' \in [Takes!Bearers -> ConTokens]
    BY <1>1, Knowing DEF Takes!LoadCount, Takes!Go, Takes!producers, ConTypes, ConTokens, ConLocals
  <2>4. locals' \in [Takes!Takers -> ConLocals]
    BY <1>1, Knowing, NoneTaken DEF Takes!LoadCount, Takes!Go, Takes!producers, ConTypes, ConLocals
  <2> QED
    BY <1>1, <1>3, <2>1, <2>2, <2>3, <2>4, Knowing DEF OneTaker, ConTypes
<1>5. Unwrapped'
  BY <1>1, <1>2, <1>3, <1>4, StillUnwrapped
<1>6. AskedDown(c)'
  BY <1>1, Knowing DEF Takes!LoadCount, Takes!Go, Takes!producers, ConTypes, ConLocals, AskedDown
<1>7. AskedRound(c)'
  BY <1>1, Knowing DEF Takes!LoadCount, Takes!Go, Takes!producers, ConTypes, ConLocals, ConTokens, AskedRound
<1>8. Placed(c)'
  BY <1>1, Knowing DEF Takes!LoadCount, Takes!Go, Takes!producers, ConTypes, ConTokens, Placed
<1> QED
  BY <1>1, <1>3, <1>4, <1>5, <1>6, <1>7, <1>8, TakerStep

\* Its own producer is asked.
LEMMA OwnKeeps == ASSUME ConInv, NEW c \in Takes!Bearers, Takes!Own(c) PROVE ConInv'
<1>1. c \in Takes!Takers
  BY DEF Takes!Takers
<1>2. doing[c] = "own" /\ globalOffset' = globalOffset
  BY DEF Takes!Own
<1>3. PICK got \in 0 .. locals[c].max :
        /\ token' = [token EXCEPT ![c].consumed = Takes!Capped(token[c].consumed + got)]
        /\ \/ /\ doing' = [doing EXCEPT ![c] = "around"]
              /\ unasked' = [unasked EXCEPT ![c] = @ \ {token[c].current}]
              /\ locals' = [locals EXCEPT ![c] = Takes!Advanced(@, got, @.ptr)]
           \/ doing' = [doing EXCEPT ![c] = "raise"] /\ locals' = locals /\ unasked' = unasked
           \/ Takes!Success(c)
  BY DEF Takes!Own, Takes!Go, Takes!Refused
<1>4. OneTaker(c)
  BY <1>1, <1>2, <1>3, Knowing DEF Takes!Own, Takes!producers, Takes!Success, Takes!Leave, Takes!Go,
     OneTaker, ConTypes
<1>5. ConTypes'
  <2>1. doing' \in [Takes!Takers -> ConPlaces] /\ unasked' \in [Takes!Takers -> SUBSET Nat]
    BY <1>1, <1>3, Knowing DEF Takes!Success, Takes!Leave, Takes!Go, ConTypes, ConPlaces
  <2>2. Takes!Capped(token[c].consumed + got) \in Nat
    BY <1>1, ConsumersAssumption, Knowing DEF ConTokens, ConLocals, Takes!Capped
  <2>3. token' \in [Takes!Bearers -> ConTokens]
    BY <1>1, <1>3, <2>2, Knowing DEF ConTypes, ConTokens
  <2>4. locals[c].ptr \in Nat
    BY <1>1, Knowing DEF ConLocals
  <2>5. Takes!Advanced(locals[c], got, locals[c].ptr) \in ConLocals
    BY <1>1, <2>4, Knowing, Advances
  <2>6. locals' \in [Takes!Takers -> ConLocals]
    BY <1>1, <1>3, <2>5, NoneTaken, Knowing DEF Takes!Success, Takes!Leave, ConTypes
  <2> QED
    BY <1>1, <1>4, <2>1, <2>3, <2>6, Knowing DEF OneTaker, ConTypes
<1>6. Unwrapped'
  BY <1>1, <1>2, <1>4, <1>5, StillUnwrapped
<1>7. AskedDown(c)'
  BY <1>1, <1>2, <1>3, <1>4, Knowing DEF Takes!Success, Takes!Leave, Takes!Go, ConTypes, AskedDown, OneTaker
<1>8. AskedRound(c)'
  BY <1>1, <1>2, <1>3, <1>4, Knowing DEF Takes!Success, Takes!Leave, Takes!Go, ConTypes, ConTokens, AskedRound, OneTaker
<1>9. Placed(c)'
  BY <1>1, <1>2, <1>3, <1>4, Knowing DEF ConTypes, ConTokens, Placed, OneTaker
<1> QED
  BY <1>1, <1>4, <1>5, <1>6, <1>7, <1>8, <1>9, TakerStep

\* It turns to the next, if there is another.
LEMMA AroundKeeps == ASSUME ConInv, NEW c \in Takes!Bearers, Takes!Around(c) PROVE ConInv'
<1>1. c \in Takes!Takers
  BY DEF Takes!Takers
<1>2. doing[c] = "around" /\ globalOffset' = globalOffset
  BY DEF Takes!Around
<1>3. OneTaker(c)
  BY <1>1, <1>2, Knowing DEF Takes!Around, Takes!Go, Takes!producers, Takes!Leave, Takes!Success, Takes!End, Takes!Refused, Takes!Round, Takes!NextProd, OneTaker, ConTypes
<1>4. ConTypes'
  <2>1. doing' \in [Takes!Takers -> ConPlaces]
    BY <1>1, Knowing DEF Takes!Around, Takes!Go, Takes!producers, Takes!Leave, Takes!Success, Takes!End, Takes!Refused, Takes!Round, Takes!NextProd, ConTypes, ConPlaces
  <2>2. unasked' \in [Takes!Takers -> SUBSET Nat]
    BY <1>1, Knowing DEF Takes!Around, Takes!Go, Takes!producers, Takes!Leave, Takes!Success, Takes!End, Takes!Refused, Takes!Round, Takes!NextProd, ConTypes
  <2>3. token' \in [Takes!Bearers -> ConTokens]
    BY <1>1, Knowing DEF Takes!Around, Takes!Go, Takes!producers, Takes!Leave, Takes!Success, Takes!End, Takes!Refused, Takes!Round, Takes!NextProd, ConTypes, ConTokens, ConLocals
  <2>4. locals' \in [Takes!Takers -> ConLocals]
    <3> DEFINE first == Takes!Round(token[c].current, tail)
    <3>1. first \in Nat
      BY <1>1, <1>2, Knowing DEF AskedRound, Takes!Round, Takes!NextProd
    <3>2. [locals[c] EXCEPT !.tail = tail, !.ptr = first] \in ConLocals
      BY <1>1, <3>1, Knowing DEF ConLocals
    <3>3. \E l \in {locals[c], Takes!NoLocals, [locals[c] EXCEPT !.tail = tail, !.ptr = first]} :
            locals' = [locals EXCEPT ![c] = l]
      BY <1>1, Knowing DEF Takes!Around, Takes!End, Takes!Success, Takes!Leave
    <3> HIDE DEF first
    <3> QED
      BY <1>1, <3>2, <3>3, NoneTaken, Knowing DEF ConTypes
  <2> QED
    BY <1>1, <1>3, <2>1, <2>2, <2>3, <2>4, Knowing DEF OneTaker, ConTypes
<1>5. Unwrapped'
  BY <1>1, <1>2, <1>3, <1>4, StillUnwrapped
<1>6. AskedDown(c)'
  <2>1. token[c].current \in 1 .. tail /\ unasked[c] \subseteq (1 .. tail) \ {token[c].current}
    BY <1>1, <1>2, Knowing DEF AskedRound
  <2> DEFINE first == Takes!Round(token[c].current, tail)
  <2>2. CASE first = token[c].current
    <3>1. tail = 1 /\ unasked[c] = {}
      BY <1>1, <2>1, <2>2, Knowing DEF Takes!Round, Takes!NextProd
    <3>2. unasked'[c] = {} /\ locals'[c] = Takes!NoLocals /\ doing'[c] \in {"idle", "none"}
      BY <1>1, <2>2, <3>1, Knowing
      DEF Takes!Around, Takes!End, Takes!Success, Takes!Leave, Takes!Go, Takes!Refused, ConTypes
    <3> QED
      BY <3>2 DEF AskedDown
  <2>3. CASE first # token[c].current
    <3>1. unasked'[c] = unasked[c] /\ doing'[c] = "others"
      BY <1>1, <2>3, Knowing DEF Takes!Around, Takes!Go, ConTypes
    <3> QED
      BY <1>1, <1>3, <3>1, Knowing DEF OneTaker, AskedDown
  <2> QED
    BY <2>2, <2>3
<1>7. AskedRound(c)'
  BY <1>1, Knowing, SMTT(40) DEF Takes!Around, Takes!Go, Takes!producers, Takes!Leave, Takes!Success, Takes!End, Takes!Refused, Takes!Round, Takes!NextProd, ConTypes, ConLocals, ConTokens, AskedRound
<1>8. Placed(c)'
  BY <1>1, Knowing DEF Takes!Around, Takes!Go, Takes!producers, Takes!Leave, Takes!Success, Takes!End, Takes!Refused, Takes!Round, Takes!NextProd, ConTypes, ConTokens, Placed
<1> QED
  BY <1>1, <1>3, <1>4, <1>5, <1>6, <1>7, <1>8, TakerStep

\* And goes round.
LEMMA OthersKeeps == ASSUME ConInv, NEW c \in Takes!Bearers, Takes!Others(c) PROVE ConInv'
<1>1. c \in Takes!Takers
  BY DEF Takes!Takers
<1>2. doing[c] = "others" /\ globalOffset' = globalOffset
  BY DEF Takes!Others
<1>3. PICK got \in 0 .. locals[c].max, next \in Nat, current \in Nat :
        /\ next = Takes!Round(locals[c].ptr, locals[c].tail)
        /\ current = IF got > 0 THEN locals[c].ptr ELSE token[c].current
        /\ \/ got = 0 /\ token' = token
           \/ got > 0 /\ token' = [token EXCEPT ![c].current = locals[c].ptr, ![c].consumed = Takes!Capped(got)]
        /\ \/ Takes!Success(c)
           \/ next = current /\ Takes!End(c, locals[c].got \/ got > 0, locals[c].ptr)
           \/ /\ next # current /\ doing' = doing
              /\ unasked' = [unasked EXCEPT ![c] = @ \ {locals[c].ptr}]
              /\ locals' = [locals EXCEPT ![c] = Takes!Advanced(locals[c], got, next)]
  <2>1. /\ locals[c].tail \in Nat \ {0} /\ locals[c].ptr \in 1 .. locals[c].tail
        /\ token[c].current \in Nat
    BY <1>1, <1>2, Knowing DEF AskedRound, ConLocals, ConTokens
  <2>2. Takes!Round(locals[c].ptr, locals[c].tail) \in Nat
    BY <2>1 DEF Takes!Round, Takes!NextProd
  <2>3. PICK got \in 0 .. locals[c].max :
          LET following == Takes!Round(locals[c].ptr, locals[c].tail)
              current == IF got > 0 THEN locals[c].ptr ELSE token[c].current
          IN  /\ token' = IF got > 0 THEN [token EXCEPT ![c].current = locals[c].ptr,
                                                         ![c].consumed = Takes!Capped(got)] ELSE token
              /\ IF got = locals[c].max THEN Takes!Success(c)
                 ELSE IF following = current THEN Takes!End(c, locals[c].got \/ got > 0, locals[c].ptr)
                 ELSE /\ UNCHANGED doing /\ Takes!Refused(c, locals[c].ptr)
                      /\ locals' = [locals EXCEPT ![c] = Takes!Advanced(locals[c], got, following)]
    BY DEF Takes!Others
  <2>4. got \in Nat /\ (got = 0 \/ got > 0)
    BY <1>1, Knowing DEF ConLocals
  <2>5. PICK next \in Nat : next = Takes!Round(locals[c].ptr, locals[c].tail)
    BY <2>2
  <2>6. PICK current \in Nat : current = IF got > 0 THEN locals[c].ptr ELSE token[c].current
    BY <2>1
  <2> QED
    BY <2>3, <2>4, <2>5, <2>6 DEF Takes!Refused
<1>4. OneTaker(c)
  BY <1>1, <1>2, <1>3, Knowing DEF Takes!Others, Takes!producers, Takes!Success, Takes!End,
     Takes!Leave, Takes!Go, Takes!Refused, OneTaker, ConTypes
<1>5. ConTypes'
  <2>1. Takes!Advanced(locals[c], got, next) \in ConLocals
    BY <1>1, Knowing, Advances
  <2>2. /\ doing' \in [Takes!Takers -> ConPlaces] /\ unasked' \in [Takes!Takers -> SUBSET Nat]
        /\ locals' \in [Takes!Takers -> ConLocals]
    BY <1>1, <1>3, <2>1, NoneTaken, Knowing DEF Takes!Success, Takes!End,
       Takes!Leave, Takes!Go, Takes!Refused, ConTypes, ConPlaces
  <2>3. Takes!Capped(got) \in Nat /\ locals[c].ptr \in Nat
    BY <1>1, ConsumersAssumption, Knowing DEF ConLocals, Takes!Capped
  <2>4. token' \in [Takes!Bearers -> ConTokens]
    BY <1>1, <1>3, <2>3, Knowing DEF ConTypes, ConTokens
  <2> QED
    BY <1>1, <1>4, <2>2, <2>4, Knowing DEF OneTaker, ConTypes
<1>6. Unwrapped'
  BY <1>1, <1>2, <1>4, <1>5, StillUnwrapped
<1>7. /\ token'[c].desired = token[c].desired /\ token'[c].known = token[c].known
      /\ token'[c].current = current
  BY <1>1, <1>3, Knowing DEF ConTypes, ConTokens
<1>8. /\ locals[c].tail \in 1 .. tail /\ locals[c].ptr \in 1 .. locals[c].tail
      /\ unasked[c] \subseteq 1 .. locals[c].tail
      /\ token[c].desired # 0 /\ token[c].desired \in 1 .. tail /\ current \in 1 .. tail
      /\ next = IF locals[c].ptr = 1 THEN locals[c].tail ELSE locals[c].ptr - 1
  BY <1>1, <1>2, <1>3, Knowing DEF AskedRound, Takes!Round, Takes!NextProd
<1>9. ASSUME ~ locals[c].got, got = 0
      PROVE  /\ current = token[c].current /\ current \in 1 .. locals[c].tail
             /\ next = current => unasked[c] \subseteq {locals[c].ptr}
             /\ next > current => unasked[c] \ {locals[c].ptr} \subseteq (current + 1) .. next
             /\ next < current => unasked[c] \ {locals[c].ptr}
                                    \subseteq (1 .. next) \cup ((current + 1) .. locals[c].tail)
  <2>1. PICK ptr \in Nat, t \in Nat, U \in SUBSET Nat :
          ptr = locals[c].ptr /\ t = locals[c].tail /\ U = unasked[c]
    BY <1>1, Knowing DEF ConLocals, ConTypes
  <2>2. current = token[c].current
    BY <1>3, <1>9
  <2>3. /\ current \in 1 .. t /\ ptr # current /\ ptr \in 1 .. t /\ U \subseteq 1 .. t
        /\ ptr > current => U \subseteq (current + 1) .. ptr
        /\ ptr < current => U \subseteq (1 .. ptr) \cup ((current + 1) .. t)
        /\ next = IF ptr = 1 THEN t ELSE ptr - 1
    BY <1>1, <1>2, <1>8, <1>9, <2>1, <2>2, Knowing DEF AskedRound
  <2>4. next = current => U \subseteq {ptr}
    BY <2>3
  <2>5. next > current => U \ {ptr} \subseteq (current + 1) .. next
    BY <2>3
  <2>6. next < current => U \ {ptr} \subseteq (1 .. next) \cup ((current + 1) .. t)
    BY <2>3
  <2> QED
    BY <2>1, <2>2, <2>3, <2>4, <2>5, <2>6
<1>10. Placed(c)'
  BY <1>1, <1>2, <1>4, <1>7, Knowing DEF Placed, OneTaker
<1>11. CASE Takes!Success(c) \/ (next = current /\ Takes!End(c, locals[c].got \/ got > 0, locals[c].ptr))
  <2>1. doing'[c] \in {"idle", "none"} /\ locals'[c] = Takes!NoLocals /\ unasked'[c] = {}
    <3>1. CASE Takes!Success(c)
      BY <1>1, <3>1, Knowing DEF Takes!Success, Takes!Leave, Takes!Go, ConTypes
    <3>2. CASE next = current /\ Takes!End(c, locals[c].got \/ got > 0, locals[c].ptr) /\ ~ Takes!Success(c)
      <4>1. ~ (locals[c].got \/ got > 0) /\ Takes!Leave(c, "none") /\ Takes!Refused(c, locals[c].ptr)
        BY <3>2 DEF Takes!End
      <4>2. ~ locals[c].got /\ got = 0
        BY <1>1, <4>1, Knowing DEF ConLocals
      <4>3. unasked[c] \ {locals[c].ptr} = {}
        BY <1>9, <3>2, <4>2
      <4> QED
        BY <1>1, <4>1, <4>3, Knowing DEF Takes!Leave, Takes!Go, Takes!Refused, ConTypes
    <3> QED
      BY <1>11, <3>1, <3>2
  <2>2. AskedDown(c)'
    BY <2>1 DEF AskedDown
  <2>3. AskedRound(c)'
    BY <1>1, <1>4, <1>7, <1>8, <2>1 DEF AskedRound, OneTaker
  <2> QED
    BY <1>1, <1>4, <1>5, <1>6, <1>10, <2>2, <2>3, TakerStep
<1>12. CASE /\ next # current /\ doing' = doing
            /\ unasked' = [unasked EXCEPT ![c] = @ \ {locals[c].ptr}]
            /\ locals' = [locals EXCEPT ![c] = Takes!Advanced(locals[c], got, next)]
  <2>1. PICK l \in ConLocals :
          /\ l = locals'[c] /\ l.ptr = next /\ l.tail = locals[c].tail
          /\ ~ l.got => ~ locals[c].got /\ got = 0
    BY <1>1, <1>12, Knowing, Advances DEF ConTypes
  <2>2. doing'[c] = "others" /\ unasked'[c] = unasked[c] \ {locals[c].ptr}
    BY <1>1, <1>2, <1>12, Knowing DEF ConTypes
  <2>3. AskedDown(c)'
    BY <1>1, <1>4, <2>2, Knowing DEF AskedDown, OneTaker
  <2>4. next \in 1 .. l.tail /\ l.tail \in 1 .. tail
    BY <1>1, <1>8, <2>1, Knowing
  <2>5. AskedRound(c)'
    <3>1. ~ l.got => /\ current \in 1 .. l.tail /\ next # current
                     /\ next > current => unasked'[c] \subseteq (current + 1) .. next
                     /\ next < current => unasked'[c] \subseteq (1 .. next) \cup ((current + 1) .. l.tail)
      BY <1>9, <1>12, <2>1, <2>2
    <3>2. unasked'[c] \subseteq 1 .. l.tail
      BY <1>8, <2>1, <2>2
    <3>3. tail' = tail
      BY <1>4 DEF OneTaker
    <3> QED
      BY <1>7, <1>8, <2>1, <2>2, <2>4, <3>1, <3>2, <3>3 DEF AskedRound
  <2> QED
    BY <1>1, <1>4, <1>5, <1>6, <1>10, <2>3, <2>5, TakerStep
<1> QED
  BY <1>3, <1>11, <1>12

\* Without a token: the tail is read.
LEMMA LoadKeeps == ASSUME ConInv, NEW c \in Plain, Takes!Load(c) PROVE ConInv'
<1>1. c \in Takes!Takers
  BY DEF Takes!Takers
<1>2. doing[c] = "load" /\ globalOffset' = globalOffset
  BY DEF Takes!Load
<1>3. OneTaker(c)
  BY <1>1, <1>2, Knowing DEF Takes!Load, Takes!Go, Takes!producers, OneTaker, ConTypes
<1>4. ConTypes'
  <2>1. doing' \in [Takes!Takers -> ConPlaces]
    BY <1>1, Knowing DEF Takes!Load, Takes!Go, Takes!producers, ConTypes, ConPlaces
  <2>2. unasked' \in [Takes!Takers -> SUBSET Nat]
    BY <1>1, Knowing DEF Takes!Load, Takes!Go, Takes!producers, ConTypes
  <2>3. token' \in [Takes!Bearers -> ConTokens]
    BY <1>1, Knowing DEF Takes!Load, Takes!Go, Takes!producers, ConTypes, ConTokens, ConLocals
  <2>4. locals' \in [Takes!Takers -> ConLocals]
    BY <1>1, Knowing, NoneTaken DEF Takes!Load, Takes!Go, Takes!producers, ConTypes, ConLocals
  <2> QED
    BY <1>1, <1>3, <2>1, <2>2, <2>3, <2>4, Knowing DEF OneTaker, ConTypes
<1>5. Unwrapped'
  BY <1>1, <1>2, <1>3, <1>4, Knowing, StillUnwrapped
<1>6. AskedDown(c)'
  BY <1>1, Knowing DEF Takes!Load, Takes!Go, Takes!producers, ConTypes, ConLocals, AskedDown
<1> QED
  BY <1>1, <1>3, <1>4, <1>5, <1>6, Knowing, TakerStep

\* The sizes of producers are asked for.
LEMMA ScoreKeeps == ASSUME ConInv, NEW c \in Plain, Takes!Score(c) PROVE ConInv'
<1>1. c \in Takes!Takers
  BY DEF Takes!Takers
<1>2. doing[c] = "score" /\ globalOffset' = globalOffset
  BY ZenonT(30) DEF Takes!Score
<1>3. PICK l \in ConLocals : l = locals[c]
  BY <1>1, Knowing
<1>4. PICK m \in ConLocals :
        /\ locals' = [locals EXCEPT ![c] = m] /\ token' = token
        /\ \/ /\ doing' = [doing EXCEPT ![c] = "none"] /\ m = Takes!NoLocals
              /\ unasked' = unasked /\ l.ptr = 0 /\ l.found = 0
           \/ doing' = [doing EXCEPT ![c] = "best"] /\ m = l /\ unasked' = unasked
           \/ /\ doing' = doing /\ l.ptr # 0 /\ m.ptr = l.ptr - 1 /\ m.found = l.found
              /\ unasked' = [unasked EXCEPT ![c] = @ \ {l.ptr}]
           \/ doing' = doing /\ m.found = l.found + 1 /\ unasked' = unasked
  <2>1. CASE (l.ptr = 0 \/ l.found = 3) /\ l.found = 0
    <3>1. l.ptr = 0 /\ Takes!Leave(c, "none") /\ unasked' = unasked /\ token' = token
      <4>1. l.ptr = 0
        BY <2>1
      <4>2. token' = token
        BY ZenonT(30) DEF Takes!Score
      <4> QED
        BY <1>3, <2>1, <4>1, <4>2 DEF Takes!Score
    <3> QED
      BY <2>1, <3>1, NoneTaken DEF Takes!Leave, Takes!Go
  <2>2. CASE (l.ptr = 0 \/ l.found = 3) /\ l.found # 0
    <3>1. locals' = locals /\ locals = [locals EXCEPT ![c] = l]
      BY <1>1, <1>3, <2>2, Knowing, ZenonT(30) DEF Takes!Score, ConTypes
    <3> QED
      BY <1>1, <1>3, <2>2, <3>1, ZenonT(30) DEF Takes!Score, Takes!Go
  <2>3. CASE ~ (l.ptr = 0 \/ l.found = 3)
    <3>1. l.ptr \in Nat /\ l.ptr # 0 /\ l.ptr - 1 \in Nat /\ l.found + 1 \in Nat /\ l.best \in Nat
      BY <2>3 DEF ConLocals
    <3>2. CASE locals' = [locals EXCEPT ![c].ptr = @ - 1] /\ Takes!Refused(c, l.ptr)
      <4>1. [l EXCEPT !.ptr = @ - 1] \in ConLocals
        BY <3>1 DEF ConLocals
      <4>2. [l EXCEPT !.ptr = @ - 1].ptr = l.ptr - 1 /\ [l EXCEPT !.ptr = @ - 1].found = l.found
        BY DEF ConLocals
      <4>3. PICK m \in ConLocals :
              m = [l EXCEPT !.ptr = @ - 1] /\ m.ptr = l.ptr - 1 /\ m.found = l.found
        BY <4>1, <4>2
      <4>4. locals' = [locals EXCEPT ![c] = m]
        BY <1>3, <3>2, <4>3
      <4>5. token' = token /\ doing' = doing
        BY <1>3, <2>3, ZenonT(30) DEF Takes!Score
      <4>6. unasked' = [unasked EXCEPT ![c] = @ \ {l.ptr}]
        BY <3>2 DEF Takes!Refused
      <4> QED
        BY <3>1, <4>3, <4>4, <4>5, <4>6
    <3>3. CASE \E b \in {l.ptr} \cup ({l.best} \ {0}) :
                 /\ locals' = [locals EXCEPT ![c].ptr = @ - 1, ![c].best = b, ![c].found = @ + 1]
                 /\ UNCHANGED unasked
      <4>1. PICK b \in Nat :
              locals' = [locals EXCEPT ![c].ptr = @ - 1, ![c].best = b, ![c].found = @ + 1]
        BY <3>1, <3>3, ZenonT(30)
      <4>2. [l EXCEPT !.ptr = @ - 1, !.best = b, !.found = @ + 1] \in ConLocals
        BY <3>1 DEF ConLocals
      <4>3. [l EXCEPT !.ptr = @ - 1, !.best = b, !.found = @ + 1].found = l.found + 1
        BY DEF ConLocals
      <4>4. PICK m \in ConLocals :
              m = [l EXCEPT !.ptr = @ - 1, !.best = b, !.found = @ + 1] /\ m.found = l.found + 1
        BY <4>2, <4>3
      <4>5. locals' = [locals EXCEPT ![c] = m]
        BY <1>3, <4>1, <4>4
      <4>6. token' = token /\ doing' = doing
        BY <1>3, <2>3, ZenonT(30) DEF Takes!Score
      <4> QED
        BY <3>3, <4>4, <4>5, <4>6
    <3> QED
      BY <1>3, <2>3, <3>2, <3>3, ZenonT(30) DEF Takes!Score, Takes!NextProd
  <2> QED
    BY <2>1, <2>2, <2>3
<1>5. OneTaker(c)
  <2>1. tail' = tail /\ counted' = counted /\ grows' = grows /\ globalOffset' = globalOffset
    BY ZenonT(30) DEF Takes!Score, Takes!producers
  <2> QED
    BY <1>1, <1>4, <2>1, Knowing DEF OneTaker, ConTypes
<1>6. ConTypes'
  BY <1>1, <1>4, <1>5, Knowing DEF OneTaker, ConTypes, ConPlaces
<1>7. Unwrapped'
  BY <1>1, <1>2, <1>5, <1>6, Knowing, StillUnwrapped
<1>8. AskedDown(c)'
  <2>1. /\ unasked[c] \subseteq 1 .. tail /\ (l.found = 0 => unasked[c] \subseteq 1 .. l.ptr)
        /\ l.found \in Nat /\ l.ptr \in Nat /\ tail' = tail
    BY <1>1, <1>2, <1>3, <1>5, Knowing DEF AskedDown, ConLocals, OneTaker
  <2> QED
    BY <1>1, <1>2, <1>4, <2>1, Knowing DEF AskedDown, ConTypes
<1> QED
  BY <1>1, <1>5, <1>6, <1>7, <1>8, Knowing, TakerStep

\* The fullest is asked.
LEMMA BestKeeps == ASSUME ConInv, NEW c \in Plain, Takes!Best(c) PROVE ConInv'
<1>1. c \in Takes!Takers
  BY DEF Takes!Takers
<1>2. doing[c] = "best" /\ globalOffset' = globalOffset
  BY DEF Takes!Best
<1>3. OneTaker(c)
  BY <1>1, <1>2, Knowing DEF Takes!Best, Takes!Go, Takes!producers, Takes!Leave, Takes!Success, Takes!Refused, OneTaker, ConTypes
<1>4. ConTypes'
  <2>1. doing' \in [Takes!Takers -> ConPlaces]
    BY <1>1, Knowing DEF Takes!Best, Takes!Go, Takes!producers, Takes!Leave, Takes!Success, Takes!Refused, ConTypes, ConPlaces
  <2>2. unasked' \in [Takes!Takers -> SUBSET Nat]
    BY <1>1, Knowing DEF Takes!Best, Takes!Go, Takes!producers, Takes!Leave, Takes!Success, Takes!Refused, ConTypes
  <2>3. token' \in [Takes!Bearers -> ConTokens]
    BY <1>1, Knowing DEF Takes!Best, Takes!Go, Takes!producers, Takes!Leave, Takes!Success, Takes!Refused, ConTypes, ConTokens, ConLocals
  <2>4. locals' \in [Takes!Takers -> ConLocals]
    BY <1>1, Knowing, NoneTaken DEF Takes!Best, Takes!Go, Takes!producers, Takes!Leave, Takes!Success, Takes!Refused, ConTypes, ConLocals
  <2> QED
    BY <1>1, <1>3, <2>1, <2>2, <2>3, <2>4, Knowing DEF OneTaker, ConTypes
<1>5. Unwrapped'
  BY <1>1, <1>2, <1>3, <1>4, Knowing, StillUnwrapped
<1>6. AskedDown(c)'
  BY <1>1, Knowing DEF Takes!Best, Takes!Go, Takes!producers, Takes!Leave, Takes!Success, Takes!Refused, ConTypes, ConLocals, AskedDown
<1> QED
  BY <1>1, <1>3, <1>4, <1>5, <1>6, Knowing, TakerStep

\* The tail is read again.
LEMMA WalkTailKeeps == ASSUME ConInv, NEW c \in Plain, Takes!WalkTail(c) PROVE ConInv'
<1>1. c \in Takes!Takers
  BY DEF Takes!Takers
<1>2. doing[c] = "walktail" /\ globalOffset' = globalOffset
  BY DEF Takes!WalkTail
<1>3. OneTaker(c)
  BY <1>1, <1>2, Knowing DEF Takes!WalkTail, Takes!Go, Takes!producers, OneTaker, ConTypes
<1>4. ConTypes'
  <2>1. doing' \in [Takes!Takers -> ConPlaces]
    BY <1>1, Knowing DEF Takes!WalkTail, Takes!Go, Takes!producers, ConTypes, ConPlaces
  <2>2. unasked' \in [Takes!Takers -> SUBSET Nat]
    BY <1>1, Knowing DEF Takes!WalkTail, Takes!Go, Takes!producers, ConTypes
  <2>3. token' \in [Takes!Bearers -> ConTokens]
    BY <1>1, Knowing DEF Takes!WalkTail, Takes!Go, Takes!producers, ConTypes, ConTokens, ConLocals
  <2>4. locals' \in [Takes!Takers -> ConLocals]
    BY <1>1, Knowing, NoneTaken DEF Takes!WalkTail, Takes!Go, Takes!producers, ConTypes, ConLocals
  <2> QED
    BY <1>1, <1>3, <2>1, <2>2, <2>3, <2>4, Knowing DEF OneTaker, ConTypes
<1>5. Unwrapped'
  BY <1>1, <1>2, <1>3, <1>4, Knowing, StillUnwrapped
<1>6. AskedDown(c)'
  BY <1>1, Knowing DEF Takes!WalkTail, Takes!Go, Takes!producers, ConTypes, ConLocals, AskedDown
<1> QED
  BY <1>1, <1>3, <1>4, <1>5, <1>6, Knowing, TakerStep

\* And all are asked.
LEMMA WalkKeeps == ASSUME ConInv, NEW c \in Plain, Takes!Walk(c) PROVE ConInv'
<1>1. c \in Takes!Takers
  BY DEF Takes!Takers
<1>2. doing[c] = "walk" /\ globalOffset' = globalOffset
  BY DEF Takes!Walk
<1>3. PICK l \in ConLocals : l = locals[c]
  BY <1>1, Knowing
<1>4. PICK m \in ConLocals :
        /\ locals' = [locals EXCEPT ![c] = m] /\ token' = token
        /\ \/ doing' = [doing EXCEPT ![c] = "idle"] /\ m = Takes!NoLocals /\ unasked' = [unasked EXCEPT ![c] = {}]
           \/ /\ doing' = [doing EXCEPT ![c] = "none"] /\ m = Takes!NoLocals
              /\ unasked' = [unasked EXCEPT ![c] = @ \ {0}] /\ l.ptr = 0
           \/ /\ doing' = doing /\ l.ptr # 0 /\ m.ptr = l.ptr - 1 /\ m.best = l.best
              /\ unasked' = [unasked EXCEPT ![c] = @ \ {l.ptr}]
           \/ /\ doing' = doing /\ l.ptr # 0 /\ m.ptr = l.ptr - 1 /\ m.best = l.best
              /\ unasked' = unasked /\ l.ptr = l.best
  <2>1. CASE l.ptr = 0
    BY <1>1, <1>3, <2>1, NoneTaken
    DEF Takes!Walk, Takes!End, Takes!Success, Takes!Leave, Takes!Go, Takes!Refused
  <2>2. CASE l.ptr # 0 /\ l.ptr = l.best
    <3>1. l.ptr - 1 \in Nat
      BY <2>2 DEF ConLocals
    <3>2. [l EXCEPT !.ptr = @ - 1] \in ConLocals
      BY <3>1 DEF ConLocals
    <3>3. [l EXCEPT !.ptr = @ - 1].ptr = l.ptr - 1 /\ [l EXCEPT !.ptr = @ - 1].best = l.best
      BY DEF ConLocals
    <3> QED
      BY <1>1, <1>3, <2>2, <3>2, <3>3 DEF Takes!Walk, Takes!NextProd
  <2>3. CASE l.ptr # 0 /\ l.ptr # l.best
    <3>1. PICK got \in 0 .. l.max :
            IF got = l.max THEN Takes!Success(c)
            ELSE /\ doing' = doing /\ Takes!Refused(c, l.ptr)
                 /\ locals' = [locals EXCEPT ![c] = Takes!Advanced(l, got, l.ptr - 1)]
      BY <1>3, <2>3 DEF Takes!Walk, Takes!NextProd
    <3>2. l.ptr - 1 \in Nat
      BY <2>3 DEF ConLocals
    <3>3. PICK m \in ConLocals : /\ m = Takes!Advanced(l, got, l.ptr - 1)
                                 /\ m.ptr = l.ptr - 1 /\ m.best = l.best
      BY <3>2, Advances
    <3> QED
      BY <1>1, <1>3, <2>3, <3>1, <3>3, NoneTaken DEF Takes!Walk, Takes!Success, Takes!Leave, Takes!Go, Takes!Refused
  <2> QED
    BY <2>1, <2>2, <2>3
<1>5. OneTaker(c)
  BY <1>1, <1>2, <1>4, Knowing DEF Takes!Walk, Takes!producers, OneTaker, ConTypes
<1>6. ConTypes'
  BY <1>1, <1>4, <1>5, Knowing DEF OneTaker, ConTypes, ConPlaces
<1>7. Unwrapped'
  BY <1>1, <1>2, <1>5, <1>6, Knowing, StillUnwrapped
<1>8. AskedDown(c)'
  <2>1. /\ unasked[c] \subseteq 1 .. tail /\ unasked[c] \subseteq 1 .. l.ptr /\ l.best \notin unasked[c]
        /\ l.ptr \in Nat /\ tail' = tail
    BY <1>1, <1>2, <1>3, <1>5, Knowing DEF AskedDown, ConLocals, OneTaker
  <2> QED
    BY <1>1, <1>2, <1>4, <2>1, Knowing, SMTT(30) DEF AskedDown, ConTypes
<1> QED
  BY <1>1, <1>5, <1>6, <1>7, <1>8, Knowing, TakerStep

\* A place is on the round.
LEMMA StepsPlace ==
  ASSUME NEW t \in Nat \ {0}, NEW p \in Int, NEW k \in Int
  PROVE  Steps(p, k, t) \in 1 .. t
<1>1. (p - 1 - k) % t \in 0 .. t - 1
  BY Before
<1> QED
  BY <1>1 DEF Steps

\* "From the tail" and "counted from the first" are the same.
LEMMA FirstPlaceIs ==
  ASSUME NEW c, locals[c].tail \in Nat \ {0}, locals[c].count \in Nat,
         locals[c].count >= locals[c].tail, InitialOffset[c] \in Nat
  PROVE  /\ Takes!FirstPlace(c) \in 1 .. locals[c].tail
         /\ locals[c].count = locals[c].tail =>
              Takes!FirstPlace(c) = 1 + (InitialOffset[c] % locals[c].tail)
<1>1. PICK t \in Nat \ {0}, n \in Nat \ {0}, i \in Nat :
        t = locals[c].tail /\ n = locals[c].count /\ i = InitialOffset[c]
  OBVIOUS
<1>2. PICK r \in 0 .. n - 1 : r = i % n
  OBVIOUS
<1>3. n - 1 - r \in Nat
  BY <1>2
<1>4. Takes!FirstPlace(c) = Steps(t, n - 1 - r, t)
  <2>1. Takes!FirstPlace(c) = Takes!Hop(t, n - 1 - r, t)
    BY <1>1, <1>2 DEF Takes!FirstPlace
  <2> QED
    BY <1>3, <2>1, HopSteps
<1>5. ASSUME n = t PROVE Steps(t, n - 1 - r, t) = 1 + r
  <2>1. t - 1 - (n - 1 - r) = r /\ r \in 0 .. t - 1
    BY <1>5
  <2>2. r % t = r
    BY <2>1
  <2> QED
    BY <2>1, <2>2 DEF Steps
<1>6. Steps(t, n - 1 - r, t) \in 1 .. t
  BY StepsPlace
<1> QED
  BY <1>1, <1>2, <1>4, <1>5, <1>6

\* The token comes to its place.
LEMMA RehomeKeeps == ASSUME ConInv, NEW c \in Takes!Bearers, Takes!Rehome(c) PROVE ConInv'
<1>1. c \in Takes!Takers
  BY DEF Takes!Takers
<1>2. doing[c] = "offset" /\ globalOffset' = globalOffset
  BY DEF Takes!Rehome
<1>3. PICK t \in Nat \ {0}, n \in Nat, g \in Nat, i \in Nat, known \in Nat, desired \in Nat :
        /\ t = locals[c].tail /\ n = locals[c].count /\ g = globalOffset /\ i = InitialOffset[c]
        /\ known = token[c].known /\ desired = token[c].desired
        /\ n >= t /\ t <= tail /\ desired <= t /\ n <= counted
        /\ ~ grows => t = tail
  <2>1. /\ locals[c].tail \in 1 .. tail /\ token[c].desired <= locals[c].tail
        /\ locals[c].tail <= locals[c].count /\ locals[c].count <= counted
        /\ ~ grows => locals[c].tail = tail
    BY <1>1, <1>2, Knowing DEF AskedRound
  <2>2. /\ locals[c].tail \in Nat /\ locals[c].count \in Nat /\ tail \in Nat
        /\ token[c].known \in Nat /\ token[c].desired \in Nat /\ globalOffset \in Nat
    BY <1>1, Knowing DEF ConLocals, ConTokens
  <2>3. InitialOffset[c] \in Nat /\ locals[c].tail \in Nat \ {0}
    BY <2>1, <2>2, ConsumersAssumption
  <2> QED
    BY <2>1, <2>2, <2>3, SMTT(40)
<1>4. Word \in Nat /\ g + 1 < Word
  <2>1. Cardinality(InCall) \in Nat /\ Cardinality(Takes!Bearers) \in Nat
        /\ Cardinality(InCall) >= 1
    <3>1. IsFiniteSet(InCall) /\ c \in InCall
      BY <1>2, ConsumersAssumption, FS_Subset DEF InCall
    <3> QED
      BY <3>1, ConsumersAssumption, FS_CardinalityType, FS_EmptySet
  <2> QED
    BY <1>3, <2>1, ConsumersAssumption DEF ConInv, Unwrapped
<1>5. PICK d \in 0 .. n - 1 : d = ((g - known) % Word) % n
  BY <1>3, <1>4
<1> DEFINE from == IF desired = 0 THEN Takes!FirstPlace(c) ELSE desired
<1>6. /\ from \in 1 .. t
      /\ n = t /\ desired = 0 => from = 1 + (i % t)
  BY <1>3, FirstPlaceIs
<1>7. PICK p \in 1 .. t : p = Takes!Hop(from, d, t) /\ p = 1 + ((from - 1 - d) % t)
  <2>1. PICK f \in 1 .. t : f = from
    BY <1>6
  <2>2. Takes!Hop(f, d, t) = Steps(f, d, t)
    BY HopSteps
  <2>3. Steps(f, d, t) \in 1 .. t
    BY StepsPlace
  <2> QED
    BY <2>1, <2>2, <2>3 DEF Steps
<1>8. token' = [token EXCEPT ![c] = [known |-> g, consumed |-> 0, current |-> p, desired |-> p]]
  BY <1>3, <1>5, <1>7 DEF Takes!Rehome
<1>9. /\ doing' = [doing EXCEPT ![c] = "own"] /\ locals' = [locals EXCEPT ![c].count = 0]
      /\ unasked' = unasked /\ tail' = tail /\ counted' = counted /\ grows' = grows
  BY DEF Takes!Rehome, Takes!Go, Takes!producers
<1>10. OneTaker(c)
  BY <1>1, <1>2, <1>8, <1>9, Knowing DEF OneTaker, ConTypes
<1>11. ConTypes'
  <2>1. [known |-> g, consumed |-> 0, current |-> p, desired |-> p] \in ConTokens
    BY DEF ConTokens
  <2>2. [locals[c] EXCEPT !.count = 0] \in ConLocals
    BY <1>1, Knowing DEF ConLocals
  <2>3. token' \in [Takes!Bearers -> ConTokens]
    BY <1>8, <2>1, Knowing, <1>1 DEF ConTypes
  <2>4. locals' \in [Takes!Takers -> ConLocals]
    BY <1>1, <1>9, <2>2, Knowing DEF ConTypes
  <2>5. doing' \in [Takes!Takers -> ConPlaces]
    BY <1>1, <1>9, Knowing DEF ConTypes, ConPlaces
  <2> QED
    BY <1>1, <1>2, <1>9, <2>3, <2>4, <2>5, Knowing DEF ConTypes
<1>12. Unwrapped'
  BY <1>1, <1>2, <1>10, <1>11, StillUnwrapped
<1>13. /\ token'[c].desired = p /\ token'[c].current = p /\ token'[c].known = g
       /\ doing'[c] = "own"
  BY <1>1, <1>8, <1>9, Knowing DEF ConTypes
<1>14. AskedDown(c)'
  BY <1>1, <1>9, <1>13, Knowing DEF AskedDown
<1>15. AskedRound(c)'
  BY <1>1, <1>3, <1>9, <1>13, Knowing DEF AskedRound
<1>16. Placed(c)'
  <2>1. ASSUME ~ grows PROVE p = 1 + ((i - g - 1) % tail)
    <3>1. t = tail /\ n = t
      BY <1>1, <1>3, <2>1, Knowing DEF ConTypes
    <3>2. PICK f \in 1 .. t : f = from
      BY <1>6
    <3>3. CASE desired = 0
      <4>1. known = Word - 1
        BY <1>1, <1>3, <3>3, Knowing DEF Placed
      <4>2. (g - known) % Word = g + 1
        <5>1. PICK u \in Int, v \in Int, k \in Int : u = g - known /\ v = g + 1 /\ k = -1
          OBVIOUS
        <5>2. Word \in Nat \ {0} /\ u - v = Word * k /\ v % Word = v
          BY <1>4, <4>1, <5>1
        <5>3. u % Word = v % Word
          BY <5>2, SameRemainder
        <5> QED
          BY <5>1, <5>2, <5>3
      <4>3. d = (g + 1) % t /\ f = 1 + (i % t)
        BY <1>5, <1>6, <3>1, <3>2, <3>3, <4>2
      <4>4. PICK x \in Int, z \in Int : x = i /\ z = g + 1
        OBVIOUS
      <4>5. ((x % t) - (z % t)) % t = (x - z) % t
        BY StepsOn
      <4>6. f - 1 - d = (x % t) - (z % t) /\ x - z = i - g - 1
        BY <4>3, <4>4
      <4> QED
        BY <1>7, <3>1, <3>2, <4>5, <4>6
    <3>4. CASE desired # 0
      <4>1. known <= g /\ desired = 1 + ((i - known - 1) % t)
        BY <1>1, <1>3, <2>1, <3>1, <3>4, Knowing DEF Placed
      <4>2. (g - known) % Word = g - known
        BY <1>4, <4>1
      <4>3. PICK x \in Int, y \in Int : x = i - known - 1 /\ y = g - known
        OBVIOUS
      <4>4. d = y % t /\ f - 1 = x % t
        BY <1>5, <3>1, <3>2, <3>4, <4>1, <4>2, <4>3
      <4>5. ((x % t) - (y % t)) % t = (x - y) % t
        BY StepsOn
      <4>6. f - 1 - d = (x % t) - (y % t) /\ x - y = i - g - 1
        BY <4>3, <4>4
      <4> QED
        BY <1>7, <3>1, <3>2, <4>5, <4>6
    <3> QED
      BY <3>3, <3>4
  <2> QED
    BY <1>2, <1>3, <1>9, <1>13, <2>1 DEF Placed
<1> QED
  BY <1>1, <1>10, <1>11, <1>12, <1>14, <1>15, <1>16, TakerStep

\* All tokens are told to move on.
LEMMA RaiseKeeps == ASSUME ConInv, NEW c \in Takes!Bearers, Takes!Raise(c) PROVE ConInv'
<1>1. c \in Takes!Takers
  BY DEF Takes!Takers
<1>2. /\ doing[c] = "raise" /\ globalOffset' = globalOffset + 1 /\ globalOffset \in Nat
      /\ token' = token /\ tail' = tail /\ counted' = counted /\ grows' = grows
      /\ doing' = [doing EXCEPT ![c] = "idle"] /\ locals' = [locals EXCEPT ![c] = Takes!NoLocals]
      /\ unasked' = [unasked EXCEPT ![c] = {}]
  BY <1>1, Knowing DEF Takes!Raise, Takes!Success, Takes!Leave, Takes!Go, Takes!producers
<1>3. OneTaker(c)
  BY <1>1, <1>2, Knowing DEF OneTaker, ConTypes
<1>4. ConTypes'
  BY <1>1, <1>2, NoneTaken, Knowing DEF ConTypes, ConPlaces
<1>5. Unwrapped'
  <2>1. InCall' \subseteq InCall /\ c \in InCall /\ c \notin InCall'
    BY <1>1, <1>2, Knowing DEF InCall, ConTypes, Takes!Takers
  <2>2. Cardinality(InCall) \in Nat /\ Cardinality(InCall') \in Nat
        /\ Cardinality(InCall') <= Cardinality(InCall) - 1
    BY <2>1, CallCount
  <2>3. MaxOffset \in Nat /\ Cardinality(Takes!Bearers) \in Nat
    BY ConsumersAssumption, FS_CardinalityType
  <2> QED
    BY <1>2, <2>2, <2>3 DEF ConInv, Unwrapped
<1>6. AskedDown(c)'
  BY <1>1, <1>2, Knowing DEF AskedDown, ConTypes
<1>7. AskedRound(c)'
  BY <1>1, <1>2, Knowing DEF AskedRound, ConTypes
<1>8. Placed(c)'
  BY <1>1, <1>2, Knowing DEF Placed, ConTokens
<1> QED
  BY <1>1, <1>3, <1>4, <1>5, <1>6, <1>7, <1>8, TakerStep

\* A call begins.
LEMMA Begins ==
  ASSUME ConInv, NEW c \in Takes!Takers, NEW to \in ConPlaces \ {"idle", "none"}, Takes!Start(c, to)
  PROVE  /\ OneTaker(c) /\ ConTypes' /\ globalOffset' = globalOffset /\ token' = token
         /\ doing[c] \in {"idle", "none"} /\ doing'[c] = to
         /\ unasked'[c] = 1 .. tail /\ locals'[c].found = 0 /\ locals'[c].best = 0
<1>1. locals[c] = Takes!NoLocals /\ doing[c] \in {"idle", "none"}
  BY Knowing DEF AskedDown, Takes!Start
<1>2. PICK l \in ConLocals :
        locals' = [locals EXCEPT ![c] = l] /\ l.found = 0 /\ l.best = 0
  <2>1. PICK m \in ConLocals : m = locals[c] /\ m.found = 0 /\ m.best = 0
    BY <1>1, NoneTaken, Knowing DEF Takes!NoLocals
  <2>2. CASE locals' = [locals EXCEPT ![c].max = 1]
    <3>1. PICK l \in ConLocals : l = [m EXCEPT !.max = 1] /\ l.found = 0 /\ l.best = 0
      <4>1. [m EXCEPT !.max = 1] \in ConLocals
        BY DEF ConLocals
      <4>2. [m EXCEPT !.max = 1].found = 0 /\ [m EXCEPT !.max = 1].best = 0
        BY <2>1 DEF ConLocals
      <4> QED
        BY <4>1, <4>2
    <3> QED
      BY <2>1, <2>2, <3>1
  <2>3. CASE \E w \in Wants : locals' = [locals EXCEPT ![c].max = w, ![c].bulk = TRUE]
    <3>1. PICK w \in Nat : locals' = [locals EXCEPT ![c].max = w, ![c].bulk = TRUE]
      BY <2>3, ConsumersAssumption
    <3>2. PICK l \in ConLocals : l = [m EXCEPT !.max = w, !.bulk = TRUE] /\ l.found = 0 /\ l.best = 0
      <4>1. [m EXCEPT !.max = w, !.bulk = TRUE] \in ConLocals
        BY DEF ConLocals
      <4>2. [m EXCEPT !.max = w, !.bulk = TRUE].found = 0 /\ [m EXCEPT !.max = w, !.bulk = TRUE].best = 0
        BY <2>1 DEF ConLocals
      <4> QED
        BY <4>1, <4>2
    <3> QED
      BY <2>1, <3>1, <3>2
  <2> QED
    BY <2>2, <2>3 DEF Takes!Start
<1>3. /\ doing' = [doing EXCEPT ![c] = to] /\ unasked' = [unasked EXCEPT ![c] = 1 .. tail]
      /\ token' = token /\ globalOffset' = globalOffset
      /\ tail' = tail /\ counted' = counted /\ grows' = grows
  BY DEF Takes!Start, Takes!Go, Takes!producers
<1>4. OneTaker(c)
  BY <1>2, <1>3, Knowing DEF OneTaker, ConTypes
<1>5. ConTypes'
  <2>1. (1 .. tail) \in SUBSET Nat
    BY Knowing
  <2> QED
    BY <1>2, <1>3, <2>1, Knowing DEF ConTypes
<1> QED
  BY <1>1, <1>2, <1>3, <1>4, <1>5, Knowing DEF ConTypes

\* With a token, ...
LEMMA TokenCallKeeps == ASSUME ConInv, NEW c \in Takes!Bearers, Takes!TokenCall(c) PROVE ConInv'
<1>1. c \in Takes!Takers
  BY DEF Takes!Takers
<1>2. PICK to \in {"tail", "own"} :
        Takes!Start(c, to) /\ globalOffset < MaxOffset /\ (to = "own" => token[c].desired # 0)
  BY DEF Takes!TokenCall, Takes!MayRotate
<1>3. /\ OneTaker(c) /\ ConTypes' /\ globalOffset' = globalOffset /\ token' = token
      /\ doing'[c] = to /\ unasked'[c] = 1 .. tail
  BY <1>1, <1>2, Begins DEF ConPlaces
<1>4. Unwrapped'
  <2>1. IsFiniteSet(Takes!Bearers) /\ InCall' \subseteq Takes!Bearers
    BY ConsumersAssumption DEF InCall
  <2>2. Cardinality(InCall') \in Nat /\ Cardinality(InCall') <= Cardinality(Takes!Bearers)
        /\ Cardinality(Takes!Bearers) \in Nat
    BY <2>1, FS_Subset, FS_CardinalityType
  <2>3. globalOffset \in Nat /\ MaxOffset \in Nat
    BY <1>1, ConsumersAssumption, Knowing
  <2> QED
    BY <1>2, <1>3, <2>2, <2>3 DEF Unwrapped
<1>5. AskedDown(c)'
  BY <1>1, <1>3, Knowing DEF AskedDown, OneTaker
<1>6. AskedRound(c)'
  BY <1>1, <1>2, <1>3, Knowing DEF AskedRound, OneTaker
<1>7. Placed(c)'
  BY <1>1, <1>3, Knowing DEF Placed, OneTaker
<1> QED
  BY <1>1, <1>3, <1>4, <1>5, <1>6, <1>7, TakerStep

\* or without.
LEMMA PlainCallKeeps == ASSUME ConInv, NEW c \in Plain, Takes!PlainCall(c) PROVE ConInv'
<1>1. c \in Takes!Takers /\ c \notin Takes!Bearers
  BY ConsumersAssumption DEF Takes!Takers
<1>2. PICK to \in {"load", "walktail"} : Takes!Start(c, to)
  BY DEF Takes!PlainCall
<1>3. /\ OneTaker(c) /\ ConTypes' /\ globalOffset' = globalOffset /\ doing'[c] = to
      /\ unasked'[c] = 1 .. tail /\ locals'[c].found = 0 /\ locals'[c].best = 0
  BY <1>1, <1>2, Begins DEF ConPlaces
<1>4. Unwrapped'
  BY <1>1, <1>3, StillUnwrapped
<1>5. AskedDown(c)'
  BY <1>1, <1>3, Knowing DEF AskedDown, OneTaker
<1> QED
  BY <1>1, <1>3, <1>4, <1>5, TakerStep

\* Producers are added.
LEMMA AddedKeeps == ASSUME ConInv, Takes!Count \/ Takes!Push PROVE ConInv'
<1>1. /\ globalOffset' = globalOffset /\ token' = token /\ doing' = doing /\ locals' = locals
      /\ unasked' = unasked /\ grows' = grows
  BY DEF Takes!Count, Takes!Push
<1>2. /\ tail \in Nat /\ counted \in Nat /\ tail' \in Nat /\ counted' \in Nat
      /\ tail <= tail' /\ counted <= counted' /\ tail' <= counted' /\ grows
  BY DEF ConInv, ConTypes, Takes!Count, Takes!Push
<1>3. ConTypes'
  BY <1>1, <1>2 DEF ConInv, ConTypes
<1>4. Unwrapped'
  BY <1>1 DEF ConInv, Unwrapped, InCall
<1>5. ASSUME NEW c \in Takes!Takers PROVE AskedDown(c)'
  BY <1>1, <1>2, Knowing DEF AskedDown
<1>6. ASSUME NEW c \in Takes!Bearers PROVE AskedRound(c)' /\ Placed(c)'
  <2>1. c \in Takes!Takers
    BY DEF Takes!Takers
  <2>2. Placed(c)'
    BY <1>1, <1>2, <2>1, Knowing DEF Placed
  <2>3. AskedRound(c)'
    BY <1>1, <1>2, <2>1, Knowing DEF AskedRound, ConLocals, ConTokens
  <2> QED
    BY <2>2, <2>3
<1> QED
  BY <1>3, <1>4, <1>5, <1>6 DEF ConInv

\* At the start nobody calls.
LEMMA ConStart == Takes!Init => ConInv
<1> SUFFICES ASSUME Takes!Init PROVE ConInv
  OBVIOUS
<1>1. ConTypes
  <2>1. tail \in Nat /\ counted = tail /\ grows \in BOOLEAN /\ globalOffset = 0
    BY ConsumersAssumption DEF Takes!Init
  <2>2. [known |-> Word - 1, consumed |-> 0, current |-> 0, desired |-> 0] \in ConTokens
    <3>1. Word - 1 \in Nat
      BY ConsumersAssumption, FS_CardinalityType
    <3> QED
      BY <3>1 DEF ConTokens
  <2> QED
    BY <2>1, <2>2, NoneTaken DEF Takes!Init, ConTypes, ConPlaces
<1>2. Unwrapped
  <2>1. InCall = {}
    BY DEF Takes!Init, InCall, Takes!Takers
  <2>2. MaxOffset \in Nat /\ Cardinality(Takes!Bearers) \in Nat /\ Cardinality(InCall) = 0
    BY <2>1, ConsumersAssumption, FS_CardinalityType, FS_EmptySet
  <2> QED
    BY <2>2 DEF Takes!Init, Unwrapped
<1>3. \A c \in Takes!Takers : AskedDown(c)
  BY DEF Takes!Init, AskedDown
<1>4. \A c \in Takes!Bearers : AskedRound(c) /\ Placed(c)
  BY DEF Takes!Init, AskedRound, Placed, Takes!Takers
<1> QED
  BY <1>1, <1>2, <1>3, <1>4 DEF ConInv

\* Nothing that it is about changes.
LEMMA ConSame == ASSUME ConInv, UNCHANGED convars PROVE ConInv'
<1>1. /\ tail' = tail /\ counted' = counted /\ grows' = grows /\ globalOffset' = globalOffset
      /\ token' = token /\ doing' = doing /\ locals' = locals /\ unasked' = unasked
  BY DEF convars
<1>2. ConTypes' /\ Unwrapped'
  BY <1>1 DEF ConInv, ConTypes, Unwrapped, InCall
<1>3. ASSUME NEW c \in Takes!Takers PROVE AskedDown(c)'
  BY <1>1 DEF ConInv, AskedDown
<1>4. ASSUME NEW c \in Takes!Bearers PROVE AskedRound(c)' /\ Placed(c)'
  BY <1>1 DEF ConInv, AskedRound, Placed
<1> QED
  BY <1>2, <1>3, <1>4 DEF ConInv

\* The strengthening is inductive, with the other parts beside.
LEMMA ConNext == ConInv /\ [AllNext]_<<part, bqvars, regvars, convars, movevars>> => ConInv'
<1> SUFFICES ASSUME ConInv, [AllNext]_<<part, bqvars, regvars, convars, movevars>> PROVE ConInv'
  OBVIOUS
<1>1. CASE Takes!Next
  <2>1. ASSUME NEW c \in Takes!Bearers,
               \/ Takes!LoadTail(c) \/ Takes!LoadCount(c) \/ Takes!Rehome(c) \/ Takes!Own(c)
               \/ Takes!Raise(c) \/ Takes!Around(c) \/ Takes!Others(c) \/ Takes!TokenCall(c)
        PROVE  ConInv'
    BY <2>1, LoadTailKeeps, LoadCountKeeps, RehomeKeeps, OwnKeeps, RaiseKeeps, AroundKeeps,
       OthersKeeps, TokenCallKeeps
  <2>2. ASSUME NEW c \in Plain,
               \/ Takes!Load(c) \/ Takes!Score(c) \/ Takes!Best(c) \/ Takes!WalkTail(c)
               \/ Takes!Walk(c) \/ Takes!PlainCall(c)
        PROVE  ConInv'
    BY <2>2, LoadKeeps, ScoreKeeps, BestKeeps, WalkTailKeeps, WalkKeeps, PlainCallKeeps
  <2>3. Takes!Over => UNCHANGED convars
    BY DEF Takes!Over, Takes!convars, convars
  <2> QED
    BY <1>1, <2>1, <2>2, <2>3, AddedKeeps, ConSame DEF Takes!Next, Takes!Working
<1>2. CASE UNCHANGED convars
  BY <1>2, ConSame
<1> QED
  BY <1>1, <1>2 DEF AllNext

\* "Returns false if all producer streams appeared empty at the time they were
\* checked": who comes back with nothing has asked every producer that was on the
\* list when it called, for any numbers of producers, tokens and threads.
THEOREM EveryoneAskedAlways == AllSpec => []EveryoneAsked
<1>1. AllInit => ConInv
  BY ConStart DEF AllInit
<1>2. ConInv => EveryoneAsked
  BY DEF ConInv, AskedDown, EveryoneAsked, Takes!EveryoneAsked
<1> QED
  BY <1>1, <1>2, ConNext, PTL DEF AllSpec

\* The numbers of tokens spread them over the producers, and rotations keep them
\* apart, as long as no producer is added and the rotations fit into their word.
THEOREM SpreadAlways == AllSpec => []Spread
<1>1. AllInit => ConInv
  BY ConStart DEF AllInit
<1>2. ConInv => Spread
  <2> SUFFICES ASSUME ConInv, ~ grows, NEW c \in Takes!Bearers, NEW d \in Takes!Bearers,
                      token[c].desired # 0, token[d].desired # 0, token[c].known = token[d].known
               PROVE  token[c].desired = token[d].desired
                        <=> (InitialOffset[c] - InitialOffset[d]) % tail = 0
    BY DEF Spread, Takes!Spread
  <2>1. c \in Takes!Takers /\ d \in Takes!Takers
    BY DEF Takes!Takers
  <2>2. PICK n \in Nat \ {0}, x \in Int, y \in Int :
          /\ n = tail /\ x = InitialOffset[c] - token[c].known - 1
          /\ y = InitialOffset[d] - token[d].known - 1
    BY <2>1, ConsumersAssumption, Knowing DEF AskedRound, ConTokens
  <2>3. token[c].desired = 1 + (x % n) /\ token[d].desired = 1 + (y % n)
    BY <2>1, <2>2, Knowing DEF Placed
  <2>4. x - y = InitialOffset[c] - InitialOffset[d]
    BY <2>1, <2>2, ConsumersAssumption, Knowing DEF ConTokens
  <2>5. x % n = y % n <=> (x - y) % n = 0
    BY SamePlace
  <2>6. x % n \in Int /\ y % n \in Int
    OBVIOUS
  <2> QED
    BY <2>2, <2>3, <2>4, <2>5, <2>6
<1> QED
  BY <1>1, <1>2, ConNext, PTL DEF AllSpec
=============================================================================
