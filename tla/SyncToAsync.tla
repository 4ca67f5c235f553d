---------------------------- MODULE SyncToAsync ----------------------------
(***************************************************************************)
(* src/src/pthreadfs.cpp: emscripten::sync_to_async, and the file system   *)
(* calls of src/src/pthreadfs.h that invoke it.  A caller hands its work   *)
(* to a child thread and blocks; the work runs on the child and calls      *)
(* resume, at once (synchronous work) or from a later turn of the child's  *)
(* event loop (asynchronous work).  The child keeps the mutex from taking  *)
(* the work until resume.                                                  *)
(*                                                                         *)
(* A critical section of a caller is one step, since all it touches is     *)
(* touched under the mutex.  condition.wait puts the thread into sleepers  *)
(* and releases the mutex in one step; notify_one takes any sleeper out,   *)
(* and a sleeper may leave by itself.                                      *)
(***************************************************************************)
EXTENDS Naturals, FiniteSets

CONSTANTS
  Clients,   \* the threads that make file system calls
  Owner,     \* the thread that runs the destructor
  Child,     \* the thread sync_to_async creates
  MaxDepth   \* threadIter frames are counted up to here (a bound)

VARIABLES
  pc,           \* where each caller is
  kind,         \* "sync", "async" or "quit": the work of its current call
  invokeMutex,  \* its holder, or None
  mutex,        \* mutex, which childLock locks for the child
  sleepers,     \* who waits on condition
  work,         \* the caller whose work was sent last
  readyToWork, finishedWork, quit,
  iter,         \* where the child is
  depth,        \* frames of threadIter on the child's stack
  result,       \* resume_result_long: the caller whose work set it
  ran,          \* how often the work of a caller's current call has resumed
  got           \* what a caller's last call returned

vars == <<pc, kind, invokeMutex, mutex, sleepers, work, readyToWork,
          finishedWork, quit, iter, depth, result, ran, got>>
callerVars == <<pc, kind, invokeMutex, got>>
childVars  == <<quit, iter, depth, result, ran>>
sentVars   == <<work, readyToWork, finishedWork>>

Callers == Clients \cup {Owner}
None    == "none"

ASSUME CallersAssumption ==
  /\ Owner \notin Clients /\ Child \notin Callers /\ None \notin Callers \cup {Child}
ASSUME DepthAssumption == MaxDepth \in Nat \ {0}

\* The constructor has returned: the mutex is free, the child was created
\* and threadMain has scheduled threadIter.  finishedWork has no initializer.
Init ==
  /\ pc = [c \in Callers |-> "idle"] /\ kind = [c \in Callers |-> "sync"]
  /\ invokeMutex = None /\ mutex = None /\ sleepers = {}
  /\ work = None /\ readyToWork = FALSE /\ finishedWork \in BOOLEAN
  /\ quit = FALSE /\ iter = "top" /\ depth = 1
  /\ result = None
  /\ ran = [c \in Callers |-> 0] /\ got = [c \in Callers |-> None]

Step(c, from, to) == pc[c] = from /\ pc' = [pc EXCEPT ![c] = to]

\* condition.notify_one
NotifyOne == IF sleepers = {} THEN UNCHANGED sleepers
             ELSE \E t \in sleepers : sleepers' = sleepers \ {t}

SpuriousWakeup ==
  /\ \E t \in sleepers : sleepers' = sleepers \ {t}
  /\ UNCHANGED <<callerVars, mutex, sentVars, childVars>>

-----------------------------------------------------------------------------
(* invoke, and the call around it *)

\* A file system call on a file of PThreadFS, whose work is of kind k.
Call(c, k) ==
  /\ Step(c, "idle", "enter")
  /\ kind' = [kind EXCEPT ![c] = k] /\ ran' = [ran EXCEPT ![c] = 0]
  /\ UNCHANGED <<invokeMutex, mutex, sleepers, sentVars, quit, iter, depth,
                 result, got>>

\* The client makes no further call.
Leave(c) ==
  /\ Step(c, "idle", "gone")
  /\ UNCHANGED <<kind, invokeMutex, mutex, sleepers, sentVars, childVars, got>>

\* std::lock_guard invokeLock(invokeMutex)
Enter(c) ==
  /\ Step(c, "enter", "send") /\ invokeMutex = None /\ invokeMutex' = c
  /\ UNCHANGED <<kind, mutex, sleepers, sentVars, childVars, got>>

SendUnreset(c) ==   \* a slip: finishedWork keeps its value of the last call
  /\ Step(c, "send", "notify") /\ mutex = None
  /\ work' = c /\ readyToWork' = TRUE
  /\ UNCHANGED <<kind, invokeMutex, mutex, sleepers, finishedWork, childVars, got>>

\* Send the work over.
Send(c) ==
  /\ Step(c, "send", "notify") /\ mutex = None
  /\ work' = c /\ finishedWork' = FALSE /\ readyToWork' = TRUE
  /\ UNCHANGED <<kind, invokeMutex, mutex, sleepers, childVars, got>>

Notify(c) ==
  /\ Step(c, "notify", "wait") /\ NotifyOne
  /\ UNCHANGED <<kind, invokeMutex, mutex, sentVars, childVars, got>>

\* condition.wait: with the mutex, either sleep ...
Sleep(c) ==
  /\ pc[c] = "wait" /\ c \notin sleepers /\ mutex = None
  /\ ~finishedWork /\ sleepers' = sleepers \cup {c}
  /\ UNCHANGED <<callerVars, mutex, sentVars, childVars>>

\* ... or find the work finished.
SeeFinished(c) ==
  /\ Step(c, "wait", "leave") /\ c \notin sleepers /\ mutex = None
  /\ finishedWork
  /\ UNCHANGED <<kind, invokeMutex, mutex, sleepers, sentVars, childVars, got>>

\* invoke returns and its guards unlock.
Unlock(c) ==
  /\ Step(c, "leave", "read") /\ invokeMutex' = None
  /\ UNCHANGED <<kind, mutex, sleepers, sentVars, childVars, got>>

\* return resume_result_long, a global read after invoke has returned.
ReadResult(c) ==
  /\ c \in Clients /\ Step(c, "read", "idle")
  /\ got' = [got EXCEPT ![c] = result]
  /\ UNCHANGED <<kind, invokeMutex, mutex, sleepers, sentVars, childVars>>

\* ~sync_to_async, once no client can call: invoke the work that sets quit,
Destroy ==
  /\ \A c \in Clients : pc[c] = "gone"
  /\ Call(Owner, "quit")

\* and join the child.
Join ==
  /\ iter = "exited" /\ Step(Owner, "read", "gone")
  /\ UNCHANGED <<kind, invokeMutex, mutex, sleepers, sentVars, childVars, got>>

Invoke(c) == \/ Enter(c) \/ Send(c) \/ Notify(c) \/ Sleep(c) \/ SeeFinished(c)
             \/ Unlock(c) \/ ReadResult(c)

-----------------------------------------------------------------------------
(* The child *)

GoTo(from, to) == iter = from /\ iter' = to

\* threadIter exits the thread once quit is set ...
Exit ==
  /\ quit /\ GoTo("top", "exited")
  /\ UNCHANGED <<callerVars, mutex, sleepers, sentVars, quit, depth, result, ran>>

\* ... and otherwise waits until there is something to do.
Proceed ==
  /\ ~quit /\ GoTo("top", "take")
  /\ UNCHANGED <<callerVars, mutex, sleepers, sentVars, quit, depth, result, ran>>

Idle ==
  /\ iter = "take" /\ Child \notin sleepers /\ mutex = None
  /\ ~readyToWork /\ sleepers' = sleepers \cup {Child}
  /\ UNCHANGED <<callerVars, mutex, sentVars, childVars>>

TakeAgain ==   \* a slip: readyToWork is not lowered
  /\ GoTo("take", "run") /\ Child \notin sleepers /\ mutex = None
  /\ readyToWork /\ mutex' = Child
  /\ UNCHANGED <<callerVars, sleepers, sentVars, quit, depth, result, ran>>

\* It takes the work and keeps the mutex.
Take ==
  /\ GoTo("take", "run") /\ Child \notin sleepers /\ mutex = None
  /\ readyToWork /\ readyToWork' = FALSE /\ mutex' = Child
  /\ UNCHANGED <<callerVars, sleepers, work, finishedWork, quit, depth, result, ran>>

\* The work reports its result: resumeWrapper_l, which calls resume.
Report == result' = work /\ ran' = [ran EXCEPT ![work] = @ + 1]

\* Synchronous work calls resume before it returns ...
RunSync ==
  /\ GoTo("run", "resume") /\ kind[work] = "sync" /\ Report
  /\ UNCHANGED <<callerVars, mutex, sleepers, sentVars, quit, depth>>

RunQuitUnset ==   \* a slip: the destructor's work does not set quit
  /\ GoTo("run", "resume") /\ kind[work] = "quit"
  /\ ran' = [ran EXCEPT ![work] = @ + 1]
  /\ UNCHANGED <<callerVars, mutex, sleepers, sentVars, quit, depth, result>>

\* ... and so does the destructor's, which sets quit.
RunQuit ==
  /\ GoTo("run", "resume") /\ kind[work] = "quit" /\ quit' = TRUE
  /\ ran' = [ran EXCEPT ![work] = @ + 1]
  /\ UNCHANGED <<callerVars, mutex, sleepers, sentVars, depth, result>>

\* Asynchronous work returns, and with it every frame of threadIter; ...
RunAsync ==
  /\ GoTo("run", "event") /\ kind[work] = "async" /\ depth' = 0
  /\ UNCHANGED <<callerVars, mutex, sleepers, sentVars, quit, result, ran>>

\* ... the event loop calls resume when the operation completes.
Complete ==
  /\ GoTo("event", "resume") /\ Report
  /\ UNCHANGED <<callerVars, mutex, sleepers, sentVars, quit, depth>>

\* resume: finish and unlock, ...
Resume ==
  /\ GoTo("resume", "notify") /\ finishedWork' = TRUE /\ mutex' = None
  /\ UNCHANGED <<callerVars, sleepers, work, readyToWork, quit, depth, result, ran>>

IterSilently ==   \* a slip: resume does not notify
  /\ GoTo("notify", "top")
  /\ depth' = IF depth < MaxDepth THEN depth + 1 ELSE depth
  /\ UNCHANGED <<callerVars, mutex, sleepers, sentVars, quit, result, ran>>

\* ... notify the caller, and call threadIter for more work.
NotifyAndIter ==
  /\ GoTo("notify", "top") /\ NotifyOne
  /\ depth' = IF depth < MaxDepth THEN depth + 1 ELSE depth
  /\ UNCHANGED <<callerVars, mutex, sentVars, quit, result, ran>>

ChildThread == \/ Exit \/ Proceed \/ Idle \/ Take \/ RunSync \/ RunQuit
               \/ RunAsync \/ Complete \/ Resume \/ NotifyAndIter

-----------------------------------------------------------------------------

\* The object is destroyed.
Gone == pc[Owner] = "gone" /\ UNCHANGED vars

Next ==
  \/ \E c \in Clients : Call(c, "sync") \/ Call(c, "async") \/ Leave(c)
  \/ \E c \in Callers : Invoke(c)
  \/ Destroy \/ Join \/ ChildThread \/ SpuriousWakeup \/ Gone

(* A thread that can go on does, and an asynchronous operation completes.  *)
(* No client need call again, and of several clients at invokeMutex any    *)
(* may be the one to get it: std::mutex is not fair.                       *)
Fairness ==
  /\ WF_vars(\E c \in Callers : Enter(c))
  /\ \A c \in Callers : WF_vars(pc[c] # "enter" /\ Invoke(c))
  /\ WF_vars(ChildThread) /\ WF_vars(Join)

Spec == Init /\ [][Next]_vars /\ Fairness
-----------------------------------------------------------------------------
(* Properties *)

TypeOK ==
  /\ pc \in [Callers -> {"idle", "enter", "send", "notify", "wait", "leave",
                         "read", "gone"}]
  /\ kind \in [Callers -> {"sync", "async", "quit"}]
  /\ invokeMutex \in Callers \cup {None} /\ mutex \in {Child, None}
  /\ sleepers \subseteq Callers \cup {Child}
  /\ work \in Callers \cup {None}
  /\ readyToWork \in BOOLEAN /\ finishedWork \in BOOLEAN /\ quit \in BOOLEAN
  /\ iter \in {"top", "take", "run", "event", "resume", "notify", "exited"}
  /\ depth \in 0 .. MaxDepth
  /\ result \in Clients \cup {None}
  /\ ran \in [Callers -> Nat] /\ got \in [Callers -> Clients \cup {None}]

(* One condition variable serves both directions with notify_one: whoever  *)
(* sleeps on a condition that holds already has its notification coming.   *)
NoLostWakeup ==
  /\ Child \in sleepers /\ readyToWork => \E c \in Callers : pc[c] = "notify"
  /\ \A c \in Callers : c \in sleepers /\ finishedWork => iter = "notify"

(* invoke returns only when the work of this very call has resumed, and it *)
(* resumed once: neither the finishedWork of an earlier call nor a stray   *)
(* wakeup ends the wait.                                                   *)
ReturnsWhenDone == \A c \in Callers : pc[c] \in {"leave", "read"} => ran[c] = 1

(* The child holds the mutex from taking the work to resume, and the work  *)
(* it holds is that of the one caller inside invoke.                       *)
HeldWhileRunning ==
  iter \in {"run", "event", "resume"} =>
    mutex = Child /\ invokeMutex = work /\ pc[work] \in {"notify", "wait"}

(* Work that was sent stays until the child takes it.                      *)
SentWorkStays == [][readyToWork => work' = work]_vars

(* The object can be destroyed: the child takes the work that sets quit,   *)
(* leaves its loop, and the destructor's join returns.                     *)
Destroyed == pc[Owner] = "enter" ~> pc[Owner] = "gone"

(* sync_to_async implements serial blocking calls.                         *)
Phase(c) == IF pc[c] \in {"idle", "gone"} THEN "idle"
            ELSE IF work = c /\ iter \in {"run", "event", "resume"} THEN "running"
            ELSE IF ran[c] > 0 THEN "served" ELSE "asked"
Serial == INSTANCE SerialCalls WITH phase <- [c \in Callers |-> Phase(c)]
IsSerial == Serial!Spec

(* "It is safe to call this method from multiple threads, as it locks      *)
(* itself": a call then returns the result of its own work.                *)
OwnResult == \A c \in Clients : got[c] \in {None, c}

(* "This is an asynchronous call": threadIter is not called from within    *)
(* another threadIter.                                                     *)
StackFlat == depth <= 1
=============================================================================
