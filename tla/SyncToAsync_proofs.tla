------------------------- MODULE SyncToAsync_proofs -------------------------
(***************************************************************************)
(* Proofs about SyncToAsync, for any set of clients: invoke returns only   *)
(* when its own work has resumed, no wakeup is lost, sent work stays until *)
(* it is taken, and every step is a step of SerialCalls.                   *)
(***************************************************************************)
EXTENDS SyncToAsync, TLAPS

Running == iter \in {"run", "event", "resume"}
Sent(c) == pc[c] \in {"notify", "wait"}

\* invokeMutex is held from its lock_guard to the return of invoke, and
\* mutex by the child alone.
Locks ==
  /\ \A c \in Callers : pc[c] \in {"send", "notify", "wait", "leave"} <=> invokeMutex = c
  /\ mutex = Child <=> Running

\* Whoever sleeps is inside a condition.wait.
Asleep ==
  /\ \A c \in Callers : c \in sleepers => pc[c] = "wait"
  /\ Child \in sleepers => iter = "take"

\* The work that is sent or runs is that of the caller inside invoke.
Current ==
  /\ readyToWork \/ Running => work \in Callers /\ Sent(work)
  /\ \A c \in Callers : Sent(c) => work = c

\* How far the work of a caller's current call has come.
Stages ==
  /\ readyToWork => ~Running /\ ~finishedWork /\ ran[work] = 0
  /\ iter \in {"run", "event"} => ~finishedWork /\ ran[work] = 0
  /\ iter = "resume" => ~finishedWork /\ ran[work] = 1
  /\ \A c \in Callers : Sent(c) =>
       /\ finishedWork => ran[c] = 1
       /\ ~finishedWork => readyToWork \/ Running
  /\ \A c \in Callers : pc[c] \in {"enter", "send"} => ran[c] = 0

\* The work that sets quit is the destructor's, and only that.
Kinds ==
  /\ pc[Owner] # "idle" => kind[Owner] = "quit"
  /\ \A c \in Clients : kind[c] # "quit"
  /\ iter = "event" => kind[work] = "async"

IInv == /\ TypeOK /\ Locks /\ Asleep /\ Current /\ Stages /\ Kinds
        /\ NoLostWakeup /\ ReturnsWhenDone

-----------------------------------------------------------------------------

\* It holds once the constructor has returned.
LEMMA Initially == Init => IInv
<1> SUFFICES ASSUME Init PROVE IInv
  OBVIOUS
<1>1. TypeOK
  <2>1. readyToWork \in BOOLEAN /\ finishedWork \in BOOLEAN /\ quit \in BOOLEAN
    BY Zenon DEF Init
  <2>2. depth \in 0 .. MaxDepth
    BY DepthAssumption DEF Init
  <2> QED
    BY <2>1, <2>2 DEF Init, TypeOK
<1>2. Locks /\ Asleep /\ Kinds
  BY CallersAssumption DEF Init, Locks, Asleep, Kinds, Running, Callers
<1>3. Current /\ Stages
  BY DEF Init, Current, Stages, Running, Sent
<1>4. NoLostWakeup /\ ReturnsWhenDone
  BY SMTT(40) DEF Init, NoLostWakeup, ReturnsWhenDone
<1> QED
  BY <1>1, <1>2, <1>3, <1>4 DEF IInv

\* Every step preserves the invariant.
LEMMA Inductive == IInv /\ [Next]_vars => IInv'
<1> SUFFICES ASSUME IInv, [Next]_vars PROVE IInv'
  OBVIOUS
<1> USE CallersAssumption, DepthAssumption
        DEF IInv, TypeOK, Locks, Asleep, Current, Stages, Kinds, NoLostWakeup,
            ReturnsWhenDone, Running, Sent, Callers, Step, GoTo, callerVars,
            childVars, sentVars
<1>1. ASSUME NEW c \in Clients, Call(c, "sync") \/ Call(c, "async") \/ Leave(c) PROVE IInv'
  BY <1>1 DEF Call, Leave
<1>2. ASSUME NEW c \in Callers, Enter(c) PROVE IInv'
  BY <1>2 DEF Enter
<1>3. ASSUME NEW c \in Callers, Send(c) PROVE IInv'
  BY <1>3, ZenonT(40) DEF Send
<1>4. ASSUME NEW c \in Callers, Notify(c) PROVE IInv'
  BY <1>4 DEF Notify, NotifyOne
<1>5. ASSUME NEW c \in Callers, Sleep(c) PROVE IInv'
  BY <1>5 DEF Sleep
<1>6. ASSUME NEW c \in Callers, SeeFinished(c) PROVE IInv'
  BY <1>6 DEF SeeFinished
<1>7. ASSUME NEW c \in Callers, Unlock(c) PROVE IInv'
  BY <1>7 DEF Unlock
<1>8. ASSUME NEW c \in Callers, ReadResult(c) PROVE IInv'
  BY <1>8 DEF ReadResult
<1>9. CASE Destroy \/ Join
  BY <1>9 DEF Destroy, Call, Join
<1>10. CASE Exit \/ Proceed
  BY <1>10 DEF Exit, Proceed
<1>11. CASE Idle
  BY <1>11 DEF Idle
<1>12. CASE Take
  BY <1>12, ZenonT(40) DEF Take
<1>13. CASE RunSync
  BY <1>13 DEF RunSync, Report
<1>14. CASE RunQuit
  BY <1>14 DEF RunQuit
<1>15. CASE RunAsync
  BY <1>15 DEF RunAsync
<1>16. CASE Complete
  BY <1>16 DEF Complete, Report
<1>17. CASE Resume
  BY <1>17 DEF Resume
<1>18. CASE NotifyAndIter
  BY <1>18 DEF NotifyAndIter, NotifyOne
<1>19. CASE SpuriousWakeup
  BY <1>19 DEF SpuriousWakeup
<1>20. CASE Gone \/ UNCHANGED vars
  BY <1>20 DEF Gone, vars
<1> QED
  BY <1>1, <1>2, <1>3, <1>4, <1>5, <1>6, <1>7, <1>8, <1>9, <1>10, <1>11, <1>12, <1>13, <1>14, <1>15, <1>16, <1>17, <1>18, <1>19, <1>20
  DEF Next, Invoke, ChildThread

-----------------------------------------------------------------------------
(* The theorems *)

(* One condition variable and notify_one lose no wakeup.                   *)
THEOREM WakeupsKept == Spec => [](TypeOK /\ NoLostWakeup)
<1>1. IInv => TypeOK /\ NoLostWakeup
  BY DEF IInv
<1> QED
  BY Initially, Inductive, <1>1, PTL DEF Spec

(* invoke returns only when the work of this very call has resumed, once.  *)
THEOREM Synchronous == Spec => []ReturnsWhenDone
<1>1. IInv => ReturnsWhenDone
  BY DEF IInv
<1> QED
  BY Initially, Inductive, <1>1, PTL DEF Spec

(* The child holds the mutex while it has work, and that work is the one   *)
(* of the caller that holds invokeMutex.                                   *)
THEOREM MutexHeld == Spec => []HeldWhileRunning
<1>1. IInv => HeldWhileRunning
  BY DEF IInv, HeldWhileRunning, Locks, Current, Running, Sent
<1> QED
  BY Initially, Inductive, <1>1, PTL DEF Spec

(* No caller replaces work the child has not taken yet.                    *)
THEOREM WorkStays == Spec => SentWorkStays
<1>1. IInv /\ [Next]_vars => [readyToWork => work' = work]_vars
  <2> SUFFICES ASSUME IInv, Next PROVE readyToWork => work' = work
    OBVIOUS
  <2>1. CASE \E c \in Callers : Send(c)
    BY <2>1 DEF IInv, Locks, Current, Sent, Send, Step
  <2>2. CASE UNCHANGED work
    BY <2>2
  <2>3. (\E c \in Callers : Send(c)) \/ UNCHANGED work
    BY DEF Next, Invoke, ChildThread, Call, Leave, Enter, Notify, Sleep,
       SeeFinished, Unlock, ReadResult, Destroy, Join, Exit, Proceed, Idle,
       Take, RunSync, RunQuit, RunAsync, Complete, Resume, NotifyAndIter,
       SpuriousWakeup, Gone, sentVars, vars
  <2> QED
    BY <2>1, <2>2, <2>3
<1> QED
  BY Initially, Inductive, <1>1, PTL DEF Spec, SentWorkStays

-----------------------------------------------------------------------------
(* Refinement *)

\* The phase of one caller changes from one value to another, or none does.
Phases == [c \in Callers |-> Phase(c)]

\* One caller goes from a phase to another.
LEMMA OneMoves ==
  ASSUME NEW c \in Callers, NEW a, NEW b, Phase(c) = a, Phase(c)' = b,
         \A d \in Callers \ {c} : Phase(d)' = Phase(d)
  PROVE  Serial!Move(c, a, b)
  BY DEF Serial!Move

\* Nobody does.
LEMMA NoneMoves ==
  ASSUME \A d \in Callers : Phase(d)' = Phase(d)
  PROVE  UNCHANGED Phases
  BY DEF Phases

\* Every step is a step of SerialCalls, or leaves every phase alone.
LEMMA StepSerial == IInv /\ [Next]_vars => [Serial!Next]_Phases
<1> SUFFICES ASSUME IInv, [Next]_vars PROVE [Serial!Next]_Phases
  OBVIOUS
<1> USE CallersAssumption
        DEF IInv, TypeOK, Locks, Current, Stages, Kinds, ReturnsWhenDone,
            Running, Sent, Phase, Step, GoTo, callerVars, childVars, sentVars
<1>1. ASSUME NEW c \in Callers, NEW k, Call(c, k) PROVE Serial!Call(c)
  <2>1. Phase(c) = "idle" /\ Phase(c)' = "asked"
    BY <1>1 DEF Call
  <2>2. \A d \in Callers \ {c} : Phase(d)' = Phase(d)
    BY <1>1 DEF Call
  <2> QED
    BY <2>1, <2>2, OneMoves DEF Serial!Call
<1>2. ASSUME Take PROVE \E w \in Callers : Serial!Start(w)
  <2>1. PICK w \in Callers : w = work
    BY <1>2 DEF Take
  <2>2. Phase(w) = "asked" /\ Phase(w)' = "running"
    BY <1>2, <2>1 DEF Take
  <2>3. \A d \in Callers \ {w} : Phase(d)' = Phase(d)
    BY <1>2, <2>1 DEF Take
  <2>4. \A d \in Callers : Phase(d) # "running"
    BY <1>2 DEF Take
  <2>5. Serial!Move(w, "asked", "running")
    BY <2>2, <2>3, OneMoves
  <2> QED
    BY <2>4, <2>5, Zenon DEF Serial!Start
<1>3. ASSUME Resume PROVE \E w \in Callers : Serial!Finish(w)
  <2>1. PICK w \in Callers : w = work
    BY <1>3 DEF Resume
  <2>2. Phase(w) = "running" /\ Phase(w)' = "served"
    BY <1>3, <2>1 DEF Resume
  <2>3. \A d \in Callers \ {w} : Phase(d)' = Phase(d)
    BY <1>3, <2>1 DEF Resume
  <2> QED
    BY <2>2, <2>3, OneMoves DEF Serial!Finish
<1>4. ASSUME NEW c \in Callers, ReadResult(c) PROVE Serial!Return(c)
  <2>1. Phase(c) = "served" /\ Phase(c)' = "idle"
    BY <1>4 DEF ReadResult
  <2>2. \A d \in Callers \ {c} : Phase(d)' = Phase(d)
    BY <1>4 DEF ReadResult
  <2> QED
    BY <2>1, <2>2, OneMoves DEF Serial!Return
<1>5. ASSUME Join PROVE Serial!Return(Owner)
  <2>1. Phase(Owner) = "served" /\ Phase(Owner)' = "idle" /\ Owner \in Callers
    BY <1>5 DEF Join, Callers
  <2>2. \A d \in Callers \ {Owner} : Phase(d)' = Phase(d)
    BY <1>5 DEF Join
  <2> QED
    BY <2>1, <2>2, OneMoves DEF Serial!Return
<1>6. ASSUME NEW c \in Callers,
             Enter(c) \/ Send(c) \/ Notify(c) \/ Sleep(c) \/ SeeFinished(c)
               \/ Unlock(c) \/ (c \in Clients /\ Leave(c))
      PROVE  UNCHANGED Phases
  <2>1. \A d \in Callers : Phase(d)' = Phase(d)
    BY <1>6 DEF Enter, Send, Notify, Sleep, SeeFinished, Unlock, Leave
  <2> QED
    BY <2>1, NoneMoves
<1>7. ASSUME \/ Exit \/ Proceed \/ Idle \/ RunSync \/ RunQuit \/ RunAsync
             \/ Complete \/ NotifyAndIter \/ SpuriousWakeup \/ Gone
             \/ UNCHANGED vars
      PROVE  UNCHANGED Phases
  <2>1. \A d \in Callers : Phase(d)' = Phase(d)
    BY <1>7 DEF Exit, Proceed, Idle, RunSync, RunQuit, RunAsync, Complete,
       Report, NotifyAndIter, SpuriousWakeup, Gone, vars
  <2> QED
    BY <2>1, NoneMoves
<1>8. (\E c \in Callers : \/ Serial!Call(c) \/ Serial!Start(c)
                          \/ Serial!Finish(c) \/ Serial!Return(c))
        => Serial!Next
  BY DEF Serial!Next
<1>9. CASE \E c \in Clients : Call(c, "sync") \/ Call(c, "async") \/ Leave(c)
  <2>1. (\E c \in Callers : Serial!Call(c)) \/ UNCHANGED Phases
    BY ONLY <1>1, <1>6, <1>9 DEF Callers
  <2> QED
    BY ONLY <2>1, <1>8
<1>10. CASE \E c \in Callers : Invoke(c)
  <2>1. (\E c \in Callers : Serial!Return(c)) \/ UNCHANGED Phases
    BY ONLY <1>4, <1>6, <1>10 DEF Invoke
  <2> QED
    BY ONLY <2>1, <1>8
<1>11. CASE Destroy \/ Join
  <2>1. Owner \in Callers
    BY DEF Callers
  <2>2. \E c \in Callers : Serial!Call(c) \/ Serial!Return(c)
    BY ONLY <2>1, <1>1, <1>5, <1>11 DEF Destroy
  <2> QED
    BY ONLY <2>2, <1>8
<1>12. CASE ChildThread \/ SpuriousWakeup \/ Gone \/ UNCHANGED vars
  <2>1. \/ \E c \in Callers : Serial!Start(c) \/ Serial!Finish(c)
        \/ UNCHANGED Phases
    BY ONLY <1>2, <1>3, <1>7, <1>12 DEF ChildThread
  <2> QED
    BY ONLY <2>1, <1>8
<1> QED
  BY ONLY <1>9, <1>10, <1>11, <1>12, [Next]_vars DEF Next

(* sync_to_async implements serial blocking calls, as far as safety goes.  *)
THEOREM ImplementsSerial == Spec => Serial!Safety
<1>1. Init => Serial!Init
  BY DEF Init, Serial!Init, Phase
<1>2. IInv /\ [Next]_vars => [Serial!Next]_([c \in Callers |-> Phase(c)])
  BY StepSerial DEF Phases
<1> QED
  BY Initially, Inductive, <1>1, <1>2, PTL DEF Spec, Serial!Safety
=============================================================================
