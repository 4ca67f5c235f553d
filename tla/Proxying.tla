------------------------------ MODULE Proxying ------------------------------
(***************************************************************************)
(* src/em_test_cpp.cpp over src/proxying.h: the main thread proxies seven  *)
(* lambdas to itself, to looper, which polls the queue, and to returner,   *)
(* which sits in its event loop.  Emscripten's em_proxying_queue is not in *)
(* the repository: it is a sequence of tasks for each thread.              *)
(*                                                                         *)
(* A lambda writes the locals i and executor of the test function it was   *)
(* made in.  They are plain variables, so another thread may see the two   *)
(* writes in either order.  Only the main thread takes the mutex: it is    *)
(* left out, and the test of the predicate and the sleep are two steps.    *)
(***************************************************************************)
EXTENDS Naturals, Sequences

Threads == {"main", "looper", "returner"}

\* What the tests proxy, in order; "async" calls wait on a condition variable.
Calls == <<
  [how |-> "async", to |-> "main",     i |-> 1],
  [how |-> "async", to |-> "looper",   i |-> 2],
  [how |-> "async", to |-> "returner", i |-> 3],
  [how |-> "sync",  to |-> "looper",   i |-> 2],
  [how |-> "sync",  to |-> "returner", i |-> 3],
  [how |-> "ctx",   to |-> "looper",   i |-> 2],
  [how |-> "ctx",   to |-> "returner", i |-> 3] >>

VARIABLES
  main,         \* where the main thread is in the test
  call,         \* which of Calls it is at
  i, executor,  \* the locals of the test function
  queue,        \* the tasks proxied to each thread
  at,           \* where each thread is in executing its queue
  task,         \* the call whose lambda it runs, or 0
  todo,         \* the writes that lambda has still to do
  timer,        \* calls that returner finishes in a later turn
  finished,     \* calls that proxySync and proxySyncWithCtx may return from
  heap,         \* calls whose copy of the lambda proxyAsync allocated
  should_quit, has_begun

locals == <<i, executor>>
remote == <<queue, at, task, todo, timer, finished, heap>>
vars   == <<main, call, locals, remote, should_quit, has_begun>>

Init ==
  /\ main = "start" /\ call = 1 /\ i = 0 /\ executor = "none"
  /\ queue = [t \in Threads |-> <<>>]
  /\ at = [main |-> "idle", looper |-> "test", returner |-> "new"]
  /\ task = [t \in Threads |-> 0] /\ todo = [t \in Threads |-> {}]
  /\ timer = {} /\ finished = {} /\ heap = {}
  /\ should_quit = FALSE /\ has_begun = FALSE

This       == Calls[call]
Enqueue(t) == queue' = [queue EXCEPT ![t] = Append(@, call)]

-----------------------------------------------------------------------------
(* The main thread *)

\* main: returner has started.
Begun == /\ main = "start" /\ has_begun
         /\ main' = "call"
         /\ UNCHANGED <<call, locals, remote, should_quit, has_begun>>

\* proxyAsync: a copy of the lambda is allocated; and, of the one proxied to
\* the main thread itself, assert(i == 0).
ProxyAsync ==
  /\ main = "call" /\ This.how = "async"
  /\ Enqueue(This.to) /\ heap' = heap \cup {call}
  /\ main' = IF This.to # "main" THEN "check"
             ELSE IF i = 0 THEN "execute" ELSE "aborted"
  /\ UNCHANGED <<call, locals, at, task, todo, timer, finished, should_quit, has_begun>>

\* queue.execute() returns when it finds the queue empty.
Executed == /\ main = "execute" /\ at["main"] = "idle" /\ queue["main"] = <<>>
            /\ main' = "assert"
            /\ UNCHANGED <<call, locals, remote, should_quit, has_begun>>

\* cond.wait: the predicate, ...
Check == /\ main = "check"
         /\ main' = IF i = This.i THEN "assert" ELSE "sleep"
         /\ UNCHANGED <<call, locals, remote, should_quit, has_begun>>

\* ... the sleep, and waking for no reason.
Sleep == /\ main = "sleep" /\ main' = "asleep"
         /\ UNCHANGED <<call, locals, remote, should_quit, has_begun>>

Wake == /\ main = "asleep" /\ main' = "check"
        /\ UNCHANGED <<call, locals, remote, should_quit, has_begun>>

\* proxySync and proxySyncWithCtx return when the call is finished.
ProxySync ==
  /\ main = "call" /\ This.how \in {"sync", "ctx"}
  /\ Enqueue(This.to) /\ main' = "wait"
  /\ UNCHANGED <<call, locals, at, task, todo, timer, finished, heap,
                 should_quit, has_begun>>

SyncReturns == /\ main = "wait" /\ call \in finished
               /\ main' = "assert"
               /\ UNCHANGED <<call, locals, remote, should_quit, has_begun>>

\* The test function of a call, and the locals when the next call is made.
Test(k) == IF k <= 3 THEN 1 ELSE IF k <= 5 THEN 2 ELSE 3

Advance ==
  /\ main' = IF call = Len(Calls) THEN "quit" ELSE "call"
  /\ call' = IF call = Len(Calls) THEN call ELSE call + 1
  /\ IF Test(call') = Test(call) THEN UNCHANGED locals
     ELSE i' = 0 /\ executor' = "none"

AssertI ==   \* a slip: nobody asks who executed
  /\ main = "assert"
  /\ IF i = This.i THEN Advance
     ELSE main' = "aborted" /\ UNCHANGED <<call, locals>>
  /\ UNCHANGED <<remote, should_quit, has_begun>>

\* assert(i == ...) and assert(executor == ...)
Assert ==
  /\ main = "assert"
  /\ IF i = This.i /\ executor = This.to THEN Advance
     ELSE main' = "aborted" /\ UNCHANGED <<call, locals>>
  /\ UNCHANGED <<remote, should_quit, has_begun>>

\* main: stop looper and join it; cancel returner, which hears of it between
\* two tasks, and join it.
Quit == /\ main = "quit" /\ should_quit' = TRUE /\ main' = "join"
        /\ UNCHANGED <<call, locals, remote, has_begun>>

Join == /\ main = "join" /\ at["looper"] = "exited" /\ main' = "cancel"
        /\ UNCHANGED <<call, locals, remote, should_quit, has_begun>>

Cancel == /\ main = "cancel" /\ at["returner"] = "idle"
          /\ at' = [at EXCEPT !["returner"] = "exited"] /\ main' = "done"
          /\ UNCHANGED <<call, locals, queue, task, todo, timer, finished, heap,
                         should_quit, has_begun>>

Main == \/ Begun \/ ProxyAsync \/ Executed \/ Check \/ Sleep \/ ProxySync
        \/ SyncReturns \/ Assert \/ Quit \/ Join \/ Cancel

-----------------------------------------------------------------------------
(* A thread that executes its queue *)

\* The next task.
Take(t) ==
  /\ at[t] = "idle" /\ queue[t] # <<>> /\ (t = "main" => main = "execute")
  /\ at' = [at EXCEPT ![t] = "run"]
  /\ task' = [task EXCEPT ![t] = Head(queue[t])]
  /\ queue' = [queue EXCEPT ![t] = Tail(@)]
  /\ todo' = [todo EXCEPT ![t] = {"i", "executor"}]
  /\ UNCHANGED <<main, call, locals, timer, finished, heap, should_quit, has_begun>>

\* The lambda's assignments.
Write(t) ==
  /\ at[t] = "run"
  /\ \/ /\ "i" \in todo[t] /\ i' = Calls[task[t]].i /\ UNCHANGED executor
        /\ todo' = [todo EXCEPT ![t] = @ \ {"i"}]
     \/ /\ "executor" \in todo[t] /\ executor' = t /\ UNCHANGED i
        /\ todo' = [todo EXCEPT ![t] = @ \ {"executor"}]
  /\ UNCHANGED <<main, call, queue, at, task, timer, finished, heap,
                 should_quit, has_begun>>

FinishMute(t) ==   \* a slip: the end is not signalled
  /\ at[t] = "run" /\ todo[t] = {} /\ at' = [at EXCEPT ![t] = "return"]
  /\ UNCHANGED <<main, call, locals, queue, task, todo, timer, finished, heap,
                 should_quit, has_begun>>

\* What a lambda does last: an async one notifies cond, if it was not proxied
\* to the main thread; one with a ctx finishes it, at once or, in returner,
\* in a later turn; a sync one returns.
Finish(t) ==
  LET k == task[t]
  IN  /\ at[t] = "run" /\ todo[t] = {} /\ at' = [at EXCEPT ![t] = "return"]
      /\ main' = IF Calls[k].how = "async" /\ main = "asleep" THEN "check" ELSE main
      /\ finished' = IF Calls[k].how = "ctx" /\ t = "looper"
                     THEN finished \cup {k} ELSE finished
      /\ timer' = IF Calls[k].how = "ctx" /\ t = "returner"
                  THEN timer \cup {k} ELSE timer
      /\ UNCHANGED <<call, locals, queue, task, todo, heap, should_quit, has_begun>>

\* runAndFree deletes its copy; what run was called for is finished.
Return(t) ==
  /\ at[t] = "return" /\ at' = [at EXCEPT ![t] = "idle"]
  /\ task' = [task EXCEPT ![t] = 0]
  /\ heap' = heap \ {task[t]}
  /\ finished' = IF Calls[task[t]].how = "sync"
                 THEN finished \cup {task[t]} ELSE finished
  /\ UNCHANGED <<main, call, locals, queue, todo, timer, should_quit, has_begun>>

Execute(t) == Take(t) \/ Write(t) \/ Finish(t) \/ Return(t)

\* looper_main: look at should_quit, then execute until the queue is empty.
LooperTest ==
  /\ at["looper"] = "test"
  /\ at' = [at EXCEPT !["looper"] = IF should_quit THEN "exited" ELSE "idle"]
  /\ UNCHANGED <<main, call, locals, queue, task, todo, timer, finished, heap,
                 should_quit, has_begun>>

LooperYield ==
  /\ at["looper"] = "idle" /\ queue["looper"] = <<>>
  /\ at' = [at EXCEPT !["looper"] = "test"]
  /\ UNCHANGED <<main, call, locals, queue, task, todo, timer, finished, heap,
                 should_quit, has_begun>>

\* returner_main: into the event loop, where tasks and timers are executed.
Begin ==
  /\ at["returner"] = "new" /\ has_begun' = TRUE
  /\ at' = [at EXCEPT !["returner"] = "idle"]
  /\ UNCHANGED <<main, call, locals, queue, task, todo, timer, finished, heap,
                 should_quit>>

Timer ==
  /\ at["returner"] = "idle" /\ timer # {}
  /\ finished' = finished \cup timer /\ timer' = {}
  /\ UNCHANGED <<main, call, locals, queue, at, task, todo, heap,
                 should_quit, has_begun>>

Running  == main \notin {"done", "aborted"}
Looper   == Execute("looper") \/ LooperTest \/ LooperYield
Returner == Execute("returner") \/ Begin \/ Timer

\* The end of the main thread ends the program.
Ended == ~Running /\ UNCHANGED vars

Next == \/ Running /\ (Main \/ Wake \/ Execute("main") \/ Looper \/ Returner)
        \/ Ended

(* The threads are preemptively scheduled; nobody counts on waking without *)
(* a notification.                                                         *)
Fairness == /\ WF_vars(Running /\ (Main \/ Execute("main")))
            /\ WF_vars(Running /\ Looper) /\ WF_vars(Running /\ Returner)

Spec == Init /\ [][Next]_vars /\ Fairness
-----------------------------------------------------------------------------
(* Properties *)

(* The asserts after a synchronous call hold in every interleaving, also   *)
(* when a lambda finishes its context turns later; so do those after the   *)
(* call to the main thread itself.                                         *)
OnlyAsyncAborts == main = "aborted" => call \in {2, 3}

(* A lambda that outlives the test function whose locals it refers to has  *)
(* nothing left to write there: all it may still do is notify.             *)
LateOnlyNotify ==
  \A t \in Threads : task[t] # 0 /\ Test(task[t]) # Test(call) => todo[t] = {}

(* When the program is done nothing proxied is pending, and every lambda   *)
(* that was allocated has been freed.                                      *)
Drained == main = "done" => heap = {} /\ timer = {} /\ \A t \in Threads : queue[t] = <<>>

(* The program ends, unless the main thread sleeps on a condition whose    *)
(* only notification has been sent.                                        *)
Missed == main = "asleep" /\ call \notin heap
Ends   == <>(~Running \/ Missed)

(* What the test asserts of its asynchronous calls.                        *)
AssertsHold == main # "aborted"
=============================================================================
