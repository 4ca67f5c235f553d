----------------------------- MODULE LoopAtomic -----------------------------
(***************************************************************************)
(* src/helper.cpp and src/test.cpp: threads push lambdas into the queue q  *)
(* and now and then ask for a turn of the event loop by raising the flag   *)
(* yielding; loop_atomic pops and runs the lambdas, and returns to the     *)
(* event loop when it sees the flag.  The queue is the bag AtomicQueue2    *)
(* implements, and since all lambdas are alike only their number is kept.  *)
(***************************************************************************)
EXTENDS Naturals, FiniteSets

CONSTANTS
  Producers,   \* the threads that run threadTest
  Size,        \* the size of q
  Freq         \* YIELD_FREQ

ASSUME LoopAssumption ==
  IsFiniteSet(Producers) /\ Size \in Nat \ {0} /\ Freq \in Nat \ {0}

VARIABLES
  yielding,   \* the flag
  queued,     \* how many lambdas are in q
  pc, tick,   \* of each producer; tick is counted modulo Freq
  loop,       \* where the loop thread is
  msgs,       \* messages in Module.channel
  owed,       \* a yieldToJS was called since the last return to JS
  late,       \* how many lambdas started since then (up to 2)
  served      \* how many started in this turn of the event loop (to a bound)

(* What was queued when a turn of the event loop began, what all producers *)
(* push before they next ask for a turn, and one lambda more.              *)
TurnBound == Size + Freq * Cardinality(Producers) + 1

vars == <<yielding, queued, pc, tick, loop, msgs, owed, late, served>>
producerVars == <<pc, tick>>
history      == <<owed, late, served>>

\* thread1 has run loop_atomic_start: the channel holds its first message.
Init ==
  /\ yielding = FALSE /\ queued = 0
  /\ pc = [p \in Producers |-> "push"] /\ tick = [p \in Producers |-> 0]
  /\ loop = "event" /\ msgs = 1
  /\ owed = FALSE /\ late = 0 /\ served = 0

-----------------------------------------------------------------------------
(* threadTest *)

\* simpleTest's WEBGPU_EXEC: push waits for a free slot.
Push(p) ==
  /\ pc[p] = "push" /\ queued < Size /\ queued' = queued + 1
  /\ pc' = [pc EXCEPT ![p] = "tick"]
  /\ UNCHANGED <<yielding, tick, loop, msgs, history>>

TickNever(p) ==   \* a slip: the tick never reaches YIELD_FREQ
  /\ pc[p] = "tick" /\ tick' = [tick EXCEPT ![p] = (@ + 1) % Freq]
  /\ pc' = [pc EXCEPT ![p] = IF tick[p] = Freq THEN "yield" ELSE "push"]
  /\ UNCHANGED <<yielding, queued, loop, msgs, history>>

\* if (tick++ % YIELD_FREQ == 0) WEBGPU_YIELD
Tick(p) ==
  /\ pc[p] = "tick" /\ tick' = [tick EXCEPT ![p] = (@ + 1) % Freq]
  /\ pc' = [pc EXCEPT ![p] = IF tick[p] = 0 THEN "yield" ELSE "push"]
  /\ UNCHANGED <<yielding, queued, loop, msgs, history>>

\* yieldToJS: yielding.store(true)
YieldToJS(p) ==
  /\ pc[p] = "yield" /\ yielding' = TRUE
  /\ pc' = [pc EXCEPT ![p] = "push"]
  /\ owed' = TRUE /\ late' = IF owed THEN late ELSE 0
  /\ UNCHANGED <<queued, tick, loop, msgs, served>>

-----------------------------------------------------------------------------
(* loop_atomic, on the loop thread *)

\* port1.onmessage calls loop_atomic.
OnMessage ==
  /\ loop = "event" /\ msgs > 0 /\ msgs' = msgs - 1 /\ loop' = "load"
  /\ UNCHANGED <<yielding, queued, producerVars, history>>

NeverLoad ==   \* a slip: the flag is not looked at
  /\ loop = "load" /\ loop' = "pop"
  /\ UNCHANGED <<yielding, queued, producerVars, msgs, history>>

\* auto v = yielding.load()
LoadYielding ==
  /\ loop = "load" /\ loop' = IF yielding THEN "clear" ELSE "pop"
  /\ UNCHANGED <<yielding, queued, producerVars, msgs, history>>

\* yielding = false, whatever was stored since the load.
Clear ==
  /\ loop = "clear" /\ yielding' = FALSE /\ loop' = "post"
  /\ UNCHANGED <<queued, producerVars, msgs, history>>

\* Post the message that re-enters loop_atomic, and return.
PostAndReturn ==
  /\ loop = "post" /\ msgs' = msgs + 1 /\ loop' = "event"
  /\ owed' = FALSE /\ late' = 0 /\ served' = 0
  /\ UNCHANGED <<yielding, queued, producerVars>>

RunAndClear ==   \* a slip: the flag is lowered after every lambda
  /\ loop = "pop" /\ queued > 0 /\ queued' = queued - 1 /\ loop' = "load"
  /\ yielding' = FALSE
  /\ late' = IF owed /\ late < 2 THEN late + 1 ELSE late
  /\ served' = IF served <= TurnBound THEN served + 1 ELSE served
  /\ UNCHANGED <<producerVars, msgs, owed>>

\* q.pop() waits for a lambda, and then it is called.
PopAndRun ==
  /\ loop = "pop" /\ queued > 0 /\ queued' = queued - 1 /\ loop' = "load"
  /\ late' = IF owed /\ late < 2 THEN late + 1 ELSE late
  /\ served' = IF served <= TurnBound THEN served + 1 ELSE served
  /\ UNCHANGED <<yielding, producerVars, msgs, owed>>

LoopThread == OnMessage \/ LoadYielding \/ Clear \/ PostAndReturn \/ PopAndRun

Producer(p) == Push(p) \/ Tick(p) \/ YieldToJS(p)

Next == LoopThread \/ \E p \in Producers : Producer(p)

(* The threads run on; a producer that waits for a slot gets one when      *)
(* slots keep becoming free, for it has a ticket (AtomicQueue2).           *)
Fairness == /\ WF_vars(LoopThread)
            /\ \A p \in Producers : WF_vars(Producer(p)) /\ SF_vars(Push(p))

Spec == Init /\ [][Next]_vars /\ Fairness
-----------------------------------------------------------------------------
(* Properties *)

TypeOK ==
  /\ yielding \in BOOLEAN /\ queued \in 0 .. Size
  /\ pc \in [Producers -> {"push", "tick", "yield"}]
  /\ tick \in [Producers -> 0 .. Freq - 1]
  /\ loop \in {"event", "load", "clear", "post", "pop"} /\ msgs \in Nat
  /\ owed \in BOOLEAN /\ late \in 0 .. 2
  /\ served \in 0 .. TurnBound + 1

(* The load and the store of yielding in loop_atomic are two accesses: a   *)
(* yieldToJS that falls between them leaves no flag, but no request is     *)
(* lost, because the return it asked for is then under way.                *)
NoYieldLost == owed => yielding \/ loop \in {"clear", "post"}

(* After a yieldToJS at most one more lambda starts before the loop thread *)
(* returns to the event loop: the one whose pop had passed the flag.       *)
PromptYield == late <= 1

(* However the producers' yields fall, one turn of the event loop runs no  *)
(* more lambdas than were queued when it began, than all producers push    *)
(* before they next ask for a turn, and the one of PromptYield.            *)
BoundedTurn == served <= TurnBound

(* One message or one loop_atomic, never both and never neither.           *)
OneToken == msgs + (IF loop = "event" THEN 0 ELSE 1) = 1

(* For ever, the browser gets its thread back and calls loop_atomic again. *)
TurnsForever == []<>(loop = "event") /\ []<>(loop # "event")
=============================================================================
