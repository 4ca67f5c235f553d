----------------------------- MODULE MCOffload -----------------------------
(* The program of main.cpp and the windows it may run in, side by side:    *)
(* Offload, which has no parameter (one detached thread, one loop thread), *)
(* and the redraw loops on Windows and macOS.  A behaviour is of one of    *)
(* them, and the others stay where they start.                             *)
EXTENDS Offload

CONSTANTS
  MaxStarts, MaxInputs   \* as in WinWindow

VARIABLES
  part,   \* "web", "win" or "mac"
  at, class, window, running, inbox, quit, style, place, state, starts,
  inputs,                             \* as in WinWindow
  stopWaits, main, back, going, redrawFunc, started, asked, events,
  sent                                \* as in MacWindow, where going is running

Win == INSTANCE WinWindow
Mac == INSTANCE MacWindow WITH MaxEvents <- 3, running <- going

winvars == <<at, class, window, running, inbox, quit, style, place, state, starts, inputs>>
macvars == <<stopWaits, main, back, going, redrawFunc, started, asked, events, sent>>

AllInit ==
  /\ Init /\ Win!Init /\ Mac!Init /\ part \in {"web", "win", "mac"}
  /\ part # "mac" => stopWaits

AllNext ==
  \/ part = "web" /\ Next     /\ UNCHANGED <<part, winvars, macvars>>
  \/ part = "win" /\ Win!Next /\ UNCHANGED <<part, vars, macvars>>
  \/ part = "mac" /\ Mac!Next /\ UNCHANGED <<part, vars, winvars>>

\* The fairness of each, where the behaviour is of that one.
AllFairness ==
  /\ WF_vars(part = "web" /\ (CreateFails \/ CreateResources \/ Spawn \/ Loop1Start))
  /\ WF_vars(part = "web" /\ Thread) /\ WF_vars(part = "web" /\ LoopThread)
  /\ WF_vars(part = "web" /\ LowerWaiting)
  /\ WF_vars(part = "web" /\ OnMessage) /\ SF_vars(part = "web" /\ Callback)
  /\ WF_winvars(part = "win" /\ Win!Program)
  /\ WF_macvars(part = "mac" /\ Mac!Main) /\ WF_macvars(part = "mac" /\ Mac!SendEvent)

AllSpec == AllInit /\ [][AllNext]_<<part, vars, winvars, macvars>> /\ AllFairness

(* Every body that is mailed is run, and the mapping is answered.          *)
BodiesRun == MailIsRun /\ Progress

(* The windows' properties; a window that is to close does, see MacWindow  *)
(* for the two exceptions.                                                 *)
StyleMatches == Win!StyleMatches
LoopsEnd     == Win!Closes /\ Mac!Closes
=============================================================================
