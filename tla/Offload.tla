------------------------------ MODULE Offload ------------------------------
(***************************************************************************)
(* src/src/main.cpp: a detached std::thread runs dispatch() once and       *)
(* redraw() for ever.  WebGPU objects belong to the main browser thread,   *)
(* so each body between WEBGPU_START and WEBGPU_END is mailed through the  *)
(* one-word mailbox func_and_type2 and run there by loop00().  The mailed  *)
(* value yieldPtr sends loop00 back to the event loop, which presents the  *)
(* frame, delivers the buffer-mapping callback and re-enters loop00 by a   *)
(* MessageChannel message.                                                 *)
(*                                                                         *)
(* A function pointer is the name of the function whose lambda it is.      *)
(* Atomic accesses of wasm are sequentially consistent, whatever order the *)
(* source names; a spin loop is a guard.                                   *)
(***************************************************************************)
EXTENDS Naturals

VARIABLES
  boot,      \* __main__: "main", "created", "spawned", then "started" or "failed"
  slot,      \* func_and_type2
  doing,     \* bodies begun by WEBGPU_START and not ended by WEBGPU_END
  waiting,   \* a buffer mapping is outstanding
  fn,        \* the function the detached thread is in
  pc,        \* and the statement it is about to run
  loop,      \* where the main browser thread is
  task,      \* the function whose body it runs, or Nil
  msgs,      \* messages in Module.channel
  map,       \* the state of readBuf's wgpuBufferMapAsync
  drawn      \* frames recorded since loop00 last returned to the browser

vars == <<boot, slot, doing, waiting, fn, pc, loop, task, msgs, map, drawn>>

Nil   == "nil"      \* the mailbox word 0
Yield == "yield"    \* yieldPtr
Tasks == {"dispatch", "redraw"}

threadVars == <<fn, pc>>
loopVars   == <<loop, task, msgs, map, drawn>>

Init ==
  /\ boot = "main" /\ slot = Nil /\ doing = 0 /\ waiting = FALSE
  /\ fn = "dispatch" /\ pc = "unborn"
  /\ loop = "main" /\ task = Nil /\ msgs = 0 /\ map = "idle" /\ drawn = 0

-----------------------------------------------------------------------------
(* __main__, on the main browser thread *)

\* window::create or webgpu::create returns null: nothing is started.
CreateFails ==
  /\ boot = "main" /\ boot' = "failed" /\ loop' = "event"
  /\ UNCHANGED <<slot, doing, waiting, fn, pc, task, msgs, map, drawn>>

\* The queue, the swap chain, both pipelines and their buffers are created.
CreateResources ==
  /\ boot = "main" /\ boot' = "created"
  /\ UNCHANGED <<slot, doing, waiting, threadVars, loopVars>>

\* The thread is spawned and detached before the loop it talks to exists.
Spawn ==
  /\ boot = "created" /\ boot' = "spawned" /\ pc' = "start"
  /\ UNCHANGED <<slot, doing, waiting, fn, loopVars>>

\* loop1_start: open the channel, post the first message, leave __main__.
Loop1Start ==
  /\ boot = "spawned" /\ boot' = "started"
  /\ loop' = "event" /\ msgs' = msgs + 1
  /\ UNCHANGED <<slot, doing, waiting, threadVars, task, map, drawn>>

-----------------------------------------------------------------------------
(* The detached thread.  f is the function it is in. *)

\* WEBGPU_START: the body is counted before it is mailed.
Start(f) ==
  /\ fn = f /\ pc = "start" /\ pc' = "wait2" /\ doing' = doing + 1
  /\ UNCHANGED <<boot, slot, waiting, fn, loopVars>>

Wait2Blind(f) ==   \* a slip: getTypeV_atomic without wait2
  /\ fn = f /\ pc = "wait2" /\ pc' = "store"
  /\ UNCHANGED <<boot, slot, doing, waiting, fn, loopVars>>

\* getTypeV_atomic spins in wait2 until the mailbox is empty ...
Wait2(f) ==
  /\ fn = f /\ pc = "wait2" /\ slot = Nil /\ pc' = "store"
  /\ UNCHANGED <<boot, slot, doing, waiting, fn, loopVars>>

\* ... and then stores without looking again.  dispatch goes on to test
\* waiting, redraw to WEBGPU_YIELD.
Store(f) ==
  /\ fn = f /\ pc = "store" /\ slot' = f
  /\ pc' = IF f = "dispatch" THEN "test" ELSE "drain"
  /\ UNCHANGED <<boot, doing, waiting, fn, loopVars>>

\* while (waiting) of dispatch; it returns, perhaps before its body ran.
TestWaiting ==
  /\ fn = "dispatch" /\ pc = "test"
  /\ \/ waiting  /\ pc' = "drain" /\ UNCHANGED fn
     \/ ~waiting /\ pc' = "start" /\ fn' = "redraw"
  /\ UNCHANGED <<boot, slot, doing, waiting, loopVars>>

\* WEBGPU_WAIT
Drain(f) ==
  /\ fn = f /\ pc = "drain" /\ ~(doing > 0) /\ pc' = "yield"
  /\ UNCHANGED <<boot, slot, doing, waiting, fn, loopVars>>

YieldOnceOnly(f) ==   \* a slip: only dispatch yields
  /\ fn = f /\ pc = "yield"
  /\ slot' = IF f = "dispatch" THEN Yield ELSE slot
  /\ pc' = IF f = "dispatch" THEN "test" ELSE "start"
  /\ UNCHANGED <<boot, doing, waiting, fn, loopVars>>

\* yieldToJS: an unconditional store.
YieldToJS(f) ==
  /\ fn = f /\ pc = "yield" /\ slot' = Yield
  /\ pc' = IF f = "dispatch" THEN "test" ELSE "start"
  /\ UNCHANGED <<boot, doing, waiting, fn, loopVars>>

Thread == \/ \E f \in Tasks : \/ Start(f) \/ Wait2(f) \/ Store(f)
                              \/ Drain(f) \/ YieldToJS(f)
          \/ TestWaiting

-----------------------------------------------------------------------------
(* loop00, on the main browser thread *)

\* wait1 spins until the mailbox is not empty.
Wait1 ==
  /\ loop = "wait1" /\ slot # Nil /\ loop' = "exchange"
  /\ UNCHANGED <<boot, slot, doing, waiting, threadVars, task, msgs, map, drawn>>

ReturnMute ==   \* a slip: loop00 returns without posting the message
  /\ loop = "exchange" /\ slot = Yield /\ slot' = Nil
  /\ loop' = "event" /\ drawn' = 0
  /\ UNCHANGED <<boot, doing, waiting, threadVars, task, msgs, map>>

\* The exchange took yieldPtr: post the message that re-enters loop00 and
\* return, which lets the browser present what was drawn.
ReturnToJS ==
  /\ loop = "exchange" /\ slot = Yield /\ slot' = Nil
  /\ loop' = "event" /\ msgs' = msgs + 1 /\ drawn' = 0
  /\ UNCHANGED <<boot, doing, waiting, threadVars, task, map>>

\* The exchange took a function pointer, which loop00 calls.
Take ==
  /\ loop = "exchange" /\ slot # Yield /\ slot' = Nil
  /\ loop' = "body" /\ task' = slot
  /\ UNCHANGED <<boot, doing, waiting, threadVars, msgs, map, drawn>>

\* dispatch's body submits the compute pass and raises waiting ...
RaiseWaiting ==
  /\ loop = "body" /\ task = "dispatch" /\ waiting' = TRUE /\ loop' = "map"
  /\ UNCHANGED <<boot, slot, doing, threadVars, task, msgs, map, drawn>>

\* ... before it asks for the mapping.
MapAsync ==
  /\ loop = "map" /\ map' = "pending" /\ loop' = "end"
  /\ UNCHANGED <<boot, slot, doing, waiting, threadVars, task, msgs, drawn>>

\* redraw's body records one render pass into the current texture.
Draw ==
  /\ loop = "body" /\ task = "redraw" /\ drawn' = drawn + 1 /\ loop' = "end"
  /\ UNCHANGED <<boot, slot, doing, waiting, threadVars, task, msgs, map>>

EndUncounted ==   \* a slip: WEBGPU_END without doing--
  /\ loop = "end" /\ loop' = "wait1" /\ task' = Nil
  /\ UNCHANGED <<boot, slot, doing, waiting, threadVars, msgs, map, drawn>>

\* WEBGPU_END
End ==
  /\ loop = "end" /\ doing' = doing - 1 /\ loop' = "wait1" /\ task' = Nil
  /\ UNCHANGED <<boot, slot, waiting, threadVars, msgs, map, drawn>>

LoopThread == Wait1 \/ ReturnToJS \/ Take \/ RaiseWaiting \/ MapAsync
              \/ Draw \/ End

-----------------------------------------------------------------------------
(* The event loop of the main browser thread *)

\* port1.onmessage calls loop00.
OnMessage ==
  /\ loop = "event" /\ msgs > 0 /\ msgs' = msgs - 1 /\ loop' = "wait1"
  /\ UNCHANGED <<boot, slot, doing, waiting, threadVars, task, map, drawn>>

\* cb copies the pixels out on success, logs on error ...
Callback ==
  /\ loop = "event" /\ map = "pending" /\ loop' = "cb"
  /\ map' \in {"success", "error"}
  /\ UNCHANGED <<boot, slot, doing, waiting, threadVars, task, msgs, drawn>>

LowerOnSuccess ==   \* a slip: cb lowers waiting in the success branch only
  /\ loop = "cb" /\ waiting' = (map = "error") /\ loop' = "event"
  /\ UNCHANGED <<boot, slot, doing, threadVars, task, msgs, map, drawn>>

\* ... and lowers waiting in both cases.
LowerWaiting ==
  /\ loop = "cb" /\ waiting' = FALSE /\ loop' = "event"
  /\ UNCHANGED <<boot, slot, doing, threadVars, task, msgs, map, drawn>>

\* Nothing was started: the page stays as it is.
Stopped == boot = "failed" /\ UNCHANGED vars

Next == \/ CreateFails \/ CreateResources \/ Spawn \/ Loop1Start
        \/ Thread \/ LoopThread
        \/ OnMessage \/ Callback \/ LowerWaiting \/ Stopped

(* Both threads are preemptively scheduled and run on.  The event loop     *)
(* chooses among its task sources: a source that has a task again and      *)
(* again is served in the end, hence SF for the callback, which is enabled *)
(* only between two runs of loop00.                                        *)
Fairness ==
  /\ WF_vars(CreateFails \/ CreateResources \/ Spawn \/ Loop1Start)
  /\ WF_vars(Thread) /\ WF_vars(LoopThread) /\ WF_vars(LowerWaiting)
  /\ WF_vars(OnMessage) /\ SF_vars(Callback)

Spec == Init /\ [][Next]_vars /\ Fairness
-----------------------------------------------------------------------------
(* Properties *)

TypeOK ==
  /\ boot \in {"main", "created", "spawned", "started", "failed"}
  /\ slot \in Tasks \cup {Nil, Yield}
  /\ doing \in Nat /\ waiting \in BOOLEAN
  /\ fn \in Tasks
  /\ pc \in {"unborn", "start", "wait2", "store", "test", "drain", "yield"}
  /\ loop \in {"main", "event", "cb", "wait1", "exchange", "body", "map", "end"}
  /\ task \in Tasks \cup {Nil}
  /\ msgs \in Nat /\ drawn \in Nat
  /\ map \in {"idle", "pending", "success", "error"}

One(b) == IF b THEN 1 ELSE 0
InLoop00 == loop \in {"wait1", "exchange", "body", "map", "end"}
Running  == loop \in {"body", "map", "end"}

(* doing counts exactly the bodies that are begun and not yet mailed,      *)
(* mailed, or running: WEBGPU_WAIT cannot pass over one of them and cannot *)
(* hang on a count nothing will lower.                                     *)
Accounting ==
  doing = One(pc \in {"wait2", "store"}) + One(slot \in Tasks) + One(Running)

(* A yield lies in the mailbox only when every body mailed before it has   *)
(* ended: loop00 never leaves for the event loop with work in hand.        *)
YieldIsQuiet == slot = Yield => ~Running

(* Exactly one thing can re-enter loop00: the message on its way, or the   *)
(* loop00 that runs and will post it.  Two would run bodies recursively,   *)
(* none would leave the thread spinning for ever in wait2.                 *)
OneToken == boot = "started" => msgs + One(InLoop00) = 1

(* The swap chain's texture is valid for one turn of the event loop: no    *)
(* two frames are recorded into one turn.                                  *)
OneFramePerTurn == drawn <= 1

(* The flag dispatch spins on and the mapping the browser holds agree:     *)
(* while a mapping is outstanding the flag is up, and the flag is down in  *)
(* the event loop once the mapping has an outcome.                         *)
WaitingMatchesMap ==
  /\ map = "pending" => waiting
  /\ waiting => map = "pending" \/ loop \in {"map", "cb"}

(* A mailed function pointer is replaced by nothing but the 0 of loop00's  *)
(* exchange, which then calls it: neither the blind store of               *)
(* getTypeV_atomic nor that of yieldToJS overwrites it.                    *)
NothingOverwritten ==
  [][(slot \in Tasks) => \/ slot' = slot
                         \/ slot' = Nil /\ task' = slot]_vars

(* Every mailed body is run to its end, and then the mailbox is free.      *)
MailIsRun == \A t \in Tasks : slot = t ~> (task = Nil /\ doing = 0)

(* Once the loop is started the mapping is answered, and dispatch, which   *)
(* spins until then, is left for redraw.                                   *)
Progress ==
  boot = "started" ~> /\ map \in {"success", "error"} /\ ~waiting
                      /\ fn = "redraw"
(* The two threads implement the pacing the browser relies on.             *)
Pacing == INSTANCE FramePacing WITH
  stage    <- CASE boot # "started" -> "off"
                [] boot = "started" /\ drawn = 0 -> "open"
                [] boot = "started" /\ drawn = 1 -> "recorded"
                [] OTHER -> "torn",
  readback <- map
PacedFrames == Pacing!Spec
=============================================================================
