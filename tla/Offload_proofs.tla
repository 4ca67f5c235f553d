-------------------------- MODULE Offload_proofs ---------------------------
(***************************************************************************)
(* Proofs about Offload: its type invariant, the accounting of doing, the  *)
(* single token, one frame per turn, that no mailed body is overwritten,   *)
(* and that every step is a step of FramePacing.  In the last part, about  *)
(* WinWindow: how a window looks is what the code has noted of it.         *)
(***************************************************************************)
EXTENDS MCOffload, Sequences, TLAPS

(* What the invariants of Offload need to become inductive. *)

\* Where loop00 is says whether it has a body in hand.
Hands ==
  /\ task # Nil <=> Running
  /\ loop = "map" => task = "dispatch" /\ waiting
  /\ loop = "exchange" => slot # Nil

\* The thread's blind stores find the mailbox without a body.
Mailbox ==
  /\ pc = "store" => slot = Nil
  /\ pc = "yield" => doing = 0
  /\ pc = "test" => fn = "dispatch"

\* The message and loop00 exist only once the loop is started.
Token ==
  /\ boot # "started" => /\ msgs = 0 /\ map = "idle" /\ drawn = 0
                         /\ loop \in {"main", "event"}
  /\ boot \in {"main", "created"} => pc = "unborn" /\ fn = "dispatch"
  /\ OneToken

\* The thread waits in redraw's WEBGPU_WAIT while its frame is mailed or
\* drawn, and its yield is taken before it can mail the next one.
Frames ==
  /\ slot = "redraw" => fn = "redraw" /\ pc = "drain"
  /\ task = "redraw" => fn = "redraw" /\ pc = "drain" /\ slot = Nil
  /\ drawn # 0 => /\ drawn = 1 /\ fn = "redraw" /\ slot # "redraw"
                  /\ loop = "body" => task # "redraw"
                  /\ \/ pc \in {"drain", "yield"}
                     \/ pc \in {"start", "wait2"} /\ slot = Yield

\* dispatch mails its body once, and the mapping is asked for once.
Once ==
  /\ fn = "dispatch" /\ pc \in {"unborn", "start", "wait2", "store"}
       => map = "idle" /\ slot # "dispatch" /\ task # "dispatch"
  /\ slot = "dispatch" => map = "idle" /\ task # "dispatch"
  /\ loop \in {"body", "map"} /\ task = "dispatch" => map = "idle"
  /\ loop = "cb" => map \in {"success", "error"}

IInv == /\ TypeOK /\ Accounting /\ YieldIsQuiet /\ WaitingMatchesMap
        /\ Hands /\ Mailbox /\ Token /\ Frames /\ Once

-----------------------------------------------------------------------------

USE DEF Nil, Yield, Tasks, One, InLoop00, Running

\* The strengthened invariant implies the ones the model checker looks at.
LEMMA Strengthened == IInv => OneToken /\ OneFramePerTurn
  BY DEF IInv, Token, Frames, OneFramePerTurn, TypeOK

\* It holds of the state main.cpp's globals are initialised to.
LEMMA Initially == Init => IInv
<1> SUFFICES ASSUME Init PROVE IInv
  OBVIOUS
<1>1. TypeOK /\ Accounting /\ YieldIsQuiet
  <2>1. waiting \in BOOLEAN
    BY Zenon DEF Init
  <2> QED
    BY <2>1, SMT DEF Init, TypeOK, Accounting, YieldIsQuiet
<1>2. WaitingMatchesMap
  BY DEF Init, WaitingMatchesMap
<1>3. Hands /\ Mailbox /\ Token /\ Frames /\ Once
  BY SMTT(40) DEF Init, Hands, Mailbox, Token, OneToken, Frames, Once
<1> QED
  BY <1>1, <1>2, <1>3 DEF IInv

\* Every step of either thread and of the event loop preserves it.
LEMMA Inductive == IInv /\ [Next]_vars => IInv'
<1> SUFFICES ASSUME IInv, [Next]_vars PROVE IInv'
  OBVIOUS
<1> USE DEF IInv, TypeOK, Accounting, YieldIsQuiet, WaitingMatchesMap,
            Hands, Mailbox, Token, OneToken, Frames, Once,
            threadVars, loopVars
<1>1. CASE CreateFails
  BY <1>1 DEF CreateFails
<1>2. CASE CreateResources
  BY <1>2 DEF CreateResources
<1>3. CASE Spawn
  BY <1>3 DEF Spawn
<1>4. CASE Loop1Start
  BY <1>4 DEF Loop1Start
<1>5. ASSUME NEW f \in Tasks, Start(f) PROVE IInv'
  BY <1>5 DEF Start
<1>6. ASSUME NEW f \in Tasks, Wait2(f) PROVE IInv'
  BY <1>6 DEF Wait2
<1>7. ASSUME NEW f \in Tasks, Store(f) PROVE IInv'
  BY <1>7 DEF Store
<1>8. ASSUME NEW f \in Tasks, Drain(f) PROVE IInv'
  BY <1>8 DEF Drain
<1>9. ASSUME NEW f \in Tasks, YieldToJS(f) PROVE IInv'
  BY <1>9 DEF YieldToJS
<1>10. CASE TestWaiting
  BY <1>10 DEF TestWaiting
<1>11. CASE Wait1
  BY <1>11 DEF Wait1
<1>12. CASE ReturnToJS
  BY <1>12 DEF ReturnToJS
<1>13. CASE Take
  BY <1>13 DEF Take
<1>14. CASE RaiseWaiting
  BY <1>14 DEF RaiseWaiting
<1>15. CASE MapAsync
  BY <1>15 DEF MapAsync
<1>16. CASE Draw
  BY <1>16 DEF Draw
<1>17. CASE End
  BY <1>17 DEF End
<1>18. CASE OnMessage
  BY <1>18 DEF OnMessage
<1>19. CASE Callback
  BY <1>19 DEF Callback
<1>20. CASE LowerWaiting
  BY <1>20, ZenonT(40) DEF LowerWaiting
<1>21. CASE Stopped \/ UNCHANGED vars
  BY <1>21 DEF Stopped, vars
<1> QED
  BY <1>1, <1>2, <1>3, <1>4, <1>5, <1>6, <1>7, <1>8, <1>9, <1>10, <1>11,
     <1>12, <1>13, <1>14, <1>15, <1>16, <1>17, <1>18, <1>19, <1>20, <1>21
  DEF Next, Thread, LoopThread

(* The mailbox protocol keeps its books in every reachable state.          *)
THEOREM Correct == Spec => [](TypeOK /\ Accounting)
<1>1. IInv => TypeOK /\ Accounting
  BY DEF IInv
<1> QED
  BY Initially, Inductive, <1>1, PTL DEF Spec

(* loop00 never leaves for the event loop with a body in hand.             *)
THEOREM Quiet == Spec => []YieldIsQuiet
<1>1. IInv => YieldIsQuiet
  BY DEF IInv
<1> QED
  BY Initially, Inductive, <1>1, PTL DEF Spec

(* One message or one loop00, and one frame between two presentations.     *)
THEOREM TokenAndFrame == Spec => [](OneToken /\ OneFramePerTurn)
  BY Initially, Inductive, Strengthened, PTL DEF Spec

(* dispatch's flag and the browser's mapping agree.                        *)
THEOREM FlagMatchesMap == Spec => []WaitingMatchesMap
<1>1. IInv => WaitingMatchesMap
  BY DEF IInv
<1> QED
  BY Initially, Inductive, <1>1, PTL DEF Spec

(* Neither blind store of the thread ever replaces a mailed body.          *)
THEOREM Delivered == Spec => NothingOverwritten
<1> DEFINE Kept == (slot \in Tasks) =>
                     (slot' = slot \/ (slot' = Nil /\ task' = slot))
<1>1. IInv /\ [Next]_vars => [Kept]_vars
  <2> SUFFICES ASSUME IInv, Next PROVE Kept
    OBVIOUS
  <2>1. CASE \E f \in Tasks : Store(f)
    BY <2>1 DEF Store, IInv, Mailbox
  <2>2. CASE \E f \in Tasks : YieldToJS(f)
    BY <2>2 DEF YieldToJS, IInv, Mailbox, Accounting, TypeOK
  <2>3. CASE Take
    BY <2>3 DEF Take
  <2>4. CASE ReturnToJS
    BY <2>4 DEF ReturnToJS
  <2>5. CASE UNCHANGED slot
    BY <2>5
  <2>6. \/ \E f \in Tasks : Store(f)
        \/ \E f \in Tasks : YieldToJS(f)
        \/ Take \/ ReturnToJS \/ UNCHANGED slot
    BY DEF Next, Thread, LoopThread, CreateFails, CreateResources, Spawn,
       Loop1Start, Start, Wait2, Drain, TestWaiting, Wait1, RaiseWaiting,
       MapAsync, Draw, End, OnMessage, Callback, LowerWaiting, Stopped, vars
  <2> QED
    BY <2>1, <2>2, <2>3, <2>4, <2>5, <2>6
<1> QED
  BY Initially, Inductive, <1>1, PTL DEF Spec, NothingOverwritten

-----------------------------------------------------------------------------
(* Refinement *)

\* Every step is a step of FramePacing, or leaves it alone.
LEMMA StepPaced == IInv /\ [Next]_vars => [Pacing!Next]_Pacing!vars
<1> SUFFICES ASSUME IInv, [Next]_vars PROVE [Pacing!Next]_Pacing!vars
  OBVIOUS
<1> USE DEF IInv, TypeOK, Hands, Token, Frames, Once, threadVars, loopVars,
            Pacing!Next, Pacing!vars
<1>1. CASE Loop1Start
  BY <1>1 DEF Loop1Start, Pacing!Start
<1>2. CASE ReturnToJS
  BY <1>2 DEF ReturnToJS, Pacing!Present
<1>3. CASE MapAsync
  BY <1>3 DEF MapAsync, Pacing!Request
<1>4. CASE Draw
  BY <1>4 DEF Draw, Pacing!Record
<1>5. CASE Callback
  BY <1>5 DEF Callback, Pacing!Deliver, Pacing!Outcomes
<1>6. CASE UNCHANGED <<map, drawn>> /\ (boot' = "started" <=> boot = "started")
  BY <1>6
<1>7. ~(Loop1Start \/ ReturnToJS \/ MapAsync \/ Draw \/ Callback)
        => UNCHANGED <<map, drawn>> /\ (boot' = "started" <=> boot = "started")
  BY DEF Next, Thread, LoopThread, CreateFails, CreateResources, Spawn,
     Start, Wait2, Store, Drain, YieldToJS, TestWaiting, Wait1, Take,
     RaiseWaiting, End, OnMessage, LowerWaiting, Stopped, vars
<1> QED
  BY <1>1, <1>2, <1>3, <1>4, <1>5, <1>6, <1>7

(* The two threads implement FramePacing: one frame per turn of the event  *)
(* loop, and one answer to the one mapping.                                *)
THEOREM ImplementsPacing == Spec => Pacing!Safety
<1>1. Init => Pacing!Init
  BY DEF Init, Pacing!Init
<1> QED
  BY Initially, Inductive, StepPaced, <1>1, PTL DEF Spec, Pacing!Safety

-----------------------------------------------------------------------------
(* The window on Windows *)

FSState == [fullscrn : BOOLEAN, style : {"framed", "bare"},
            place : Win!Places \cup {Win!Monitor}]

\* What StyleMatches needs.  The notes of toggleFullscreen are those of the
\* one window there ever is: until the class is registered nobody has written
\* them, and what they keep for the way back is a frame off the monitor's
\* bounds.
Noted ==
  /\ class \in BOOLEAN /\ window \in BOOLEAN
  /\ state \in FSState
  /\ window => class
  /\ ~ class => at = "create" /\ ~ state.fullscrn
  /\ state.fullscrn => style = "bare" /\ state.style = "framed" /\ state.place \in Win!Places
  /\ ~ state.fullscrn => style = "framed" /\ place \in Win!Places

\* What toggleFullscreen notes is of the type of FSState.
LEMMA NoteTyped ==
  ASSUME NEW b \in BOOLEAN, NEW s \in {"framed", "bare"}, NEW p \in Win!Places
  PROVE  [fullscrn |-> b, style |-> s, place |-> p] \in FSState
  BY Zenon DEF FSState

\* It holds of the static FSState and of a program without a window.
LEMMA NotedInit == Win!Init => Noted
<1>1. [fullscrn |-> FALSE, style |-> "framed", place |-> "left"] \in FSState
  BY NoteTyped DEF Win!Places
<1>2. Win!Init => class \in BOOLEAN /\ window \in BOOLEAN
  BY Zenon DEF Win!Init
<1> QED
  BY <1>1, <1>2 DEF Win!Init, Noted, Win!Places

\* Every step of the program, of the user and of the system keeps it.
LEMMA NotedStep == Noted /\ [Win!Next]_winvars => Noted'
<1> SUFFICES ASSUME Noted, [Win!Next]_winvars PROVE Noted'
  OBVIOUS
<1> USE DEF Noted, Win!Go, Win!looks
<1>1. CASE Win!Create
  BY <1>1 DEF Win!Create
<1>2. CASE Win!CreateFails
  BY <1>2 DEF Win!CreateFails
<1>3. CASE Win!Destroy
  BY <1>3 DEF Win!Destroy
<1>4. CASE Win!Dispatch
  <2> DEFINE m == Head(inbox)
  <2>1. /\ at = "pump" /\ Win!WindowEvents(m)
        /\ UNCHANGED <<at, class, window>>
    BY <1>4 DEF Win!Dispatch
  <2>2. UNCHANGED Win!looks => Noted'
    BY <2>1
  <2>3. ASSUME NEW exit \in BOOLEAN, Win!ToggleFullscreen(exit) PROVE Noted'
    <3>1. class /\ UNCHANGED <<at, class, window>>
      BY <2>1
    <3>2. CASE ~ state.fullscrn /\ ~ exit
      <4>1. style = "framed" /\ place \in Win!Places
        BY <3>2
      <4>2. /\ [fullscrn |-> TRUE, style |-> style, place |-> place] \in FSState
            /\ [fullscrn |-> FALSE, style |-> style, place |-> place] \in FSState
        BY <4>1, NoteTyped
      <4>3. CASE style' = "bare" /\ state' = [fullscrn |-> TRUE, style |-> style, place |-> place]
        BY <3>1, <4>1, <4>2, <4>3
      <4>4. CASE /\ state' = [fullscrn |-> FALSE, style |-> style, place |-> place]
                 /\ UNCHANGED <<style, place>>
        BY <3>1, <4>1, <4>2, <4>4
      <4> QED
        BY <2>3, <3>2, <4>3, <4>4 DEF Win!ToggleFullscreen
    <3>3. CASE ~ state.fullscrn /\ exit
      BY <2>2, <2>3, <3>3 DEF Win!ToggleFullscreen
    <3>4. CASE state.fullscrn
      <4>1. /\ style' = "framed" /\ place' \in Win!Places
            /\ state' = [state EXCEPT !.fullscrn = FALSE]
        BY <2>3, <3>4 DEF Win!ToggleFullscreen
      <4>2. ~ state'.fullscrn /\ state' \in FSState
        BY <4>1 DEF FSState
      <4> QED
        BY <3>1, <4>1, <4>2
    <3> QED
      BY <3>2, <3>3, <3>4
  <2>4. place' \in Win!Places /\ UNCHANGED <<style, state>> => Noted'
    BY <2>1
  <2> QED
    BY <2>1, <2>2, <2>3, <2>4 DEF Win!WindowEvents
<1>5. CASE Win!NoteQuit
  BY <1>5 DEF Win!NoteQuit
<1>6. CASE Win!EndYield
  BY <1>6 DEF Win!EndYield
<1>7. CASE Win!Redraw
  BY <1>7 DEF Win!Redraw
<1>8. CASE Win!Input
  BY <1>8 DEF Win!Input
<1>9. CASE UNCHANGED winvars
  BY <1>9 DEF winvars
<1> QED
  BY <1>1, <1>2, <1>3, <1>4, <1>5, <1>6, <1>7, <1>8, <1>9
  DEF Win!Next, Win!Program, Win!Over, Win!winvars, winvars

(* A window has its frame, off the bounds of the monitor, exactly when     *)
(* FSState says that it is not in fullscreen, for any number of windows    *)
(* the program asks for and of messages they are sent.                     *)
THEOREM WindowLooksAsNoted == AllSpec => []StyleMatches
<1>1. AllInit => Noted
  BY NotedInit DEF AllInit
<1>2. Noted /\ [AllNext]_<<part, vars, winvars, macvars>> => Noted'
  <2>1. [AllNext]_<<part, vars, winvars, macvars>> => [Win!Next]_winvars
    BY DEF AllNext, winvars, vars, macvars
  <2> QED
    BY <2>1, NotedStep
<1>3. Noted => StyleMatches
  BY DEF Noted, StyleMatches, Win!StyleMatches
<1> QED
  BY <1>1, <1>2, <1>3, PTL DEF AllSpec
=============================================================================
