----------------------------- MODULE WinWindow -----------------------------
(***************************************************************************)
(* src/src/win/window.cpp: the window on Windows, from create to destroy,  *)
(* for a program that makes it, shows it, runs the loop of a redraw        *)
(* function and destroys it, and may do so again.  yield handles every     *)
(* message there is before the next redraw.                                *)
(*                                                                         *)
(* Of Win32 the model keeps what the code relies on: a class is registered *)
(* once, PostQuitMessage raises a flag of the thread that PeekMessage      *)
(* hands out as WM_QUIT, once and among the messages, and the messages of  *)
(* a window go with it.  Messages that change nothing here (WM_SIZE,       *)
(* WM_ERASEBKGND and the like) are one.                                    *)
(***************************************************************************)
EXTENDS Naturals, Sequences

CONSTANTS
  MaxStarts,   \* how often the program creates a window (a bound)
  MaxInputs    \* how many messages a window is sent (a bound)

VARIABLES
  at,          \* where the program is
  class,       \* "AppWin" is registered
  window,      \* there is a window
  running,     \* of yield
  inbox, quit, \* the messages of the window, and the flag of the thread
  style, place, \* of the window; extStyle goes with style
  state,       \* the static FSState of toggleFullscreen
  starts, inputs

winvars == <<at, class, window, running, inbox, quit, style, place, state, starts, inputs>>
looks   == <<style, place, state>>

\* Where a window with a frame is, and the bounds of the monitor.
Places  == {"left", "right"}
Monitor == "monitor"
Inputs  == {"close", "f11", "esc", "dpi", "other"}

Init ==
  /\ at = "create" /\ class = FALSE /\ window = FALSE
  /\ running = TRUE /\ inbox = <<>> /\ quit = FALSE
  /\ style = "framed" /\ place = "left"
  /\ state = [fullscrn |-> FALSE, style |-> "framed", place |-> "left"]
  /\ starts = 0 /\ inputs = 0

Go(from, to) == at = from /\ at' = to

-----------------------------------------------------------------------------
(* create and destroy *)

CreateAnyway ==   \* a slip: a class that is registered already will do
  /\ Go("create", "pump") /\ starts < MaxStarts
  /\ class' = TRUE /\ window' = TRUE /\ running' = TRUE
  /\ style' = "framed" /\ place' \in Places
  /\ inputs' = 0 /\ starts' = starts + 1 /\ UNCHANGED <<inbox, quit, state>>

\* The class is registered and stays so with the window ...
Create ==
  /\ Go("create", "pump") /\ starts < MaxStarts /\ ~ class
  /\ class' = TRUE /\ window' = TRUE /\ running' = TRUE
  /\ style' = "framed" /\ place' \in Places
  /\ inputs' = 0 /\ starts' = starts + 1 /\ UNCHANGED <<inbox, quit, state>>

\* ... and is not when there is none; registering it again fails.
CreateFails ==
  /\ Go("create", "create") /\ starts < MaxStarts /\ starts' = starts + 1
  /\ UNCHANGED <<class, window, running, inbox, quit, looks, inputs>>

Destroy ==
  /\ Go("destroy", "create") /\ window' = FALSE /\ inbox' = <<>>
  /\ UNCHANGED <<class, running, quit, looks, starts, inputs>>

-----------------------------------------------------------------------------
(* The user, and the system *)

Input ==
  /\ window /\ inputs < MaxInputs /\ inputs' = inputs + 1
  /\ \E m \in Inputs : inbox' = Append(inbox, m)
  /\ UNCHANGED <<at, class, window, running, quit, looks, starts>>

-----------------------------------------------------------------------------
(* windowEvents *)

\* Into fullscreen, unless the monitor is not known, and back.
ToggleFullscreen(exit) ==
  \/ /\ ~ state.fullscrn /\ ~ exit
     /\ \/ /\ style' = "bare" /\ place' = Monitor
           /\ state' = [fullscrn |-> TRUE, style |-> style, place |-> place]
        \/ /\ state' = [fullscrn |-> FALSE, style |-> style, place |-> place]
           /\ UNCHANGED <<style, place>>
  \/ ~ state.fullscrn /\ exit /\ UNCHANGED looks
  \/ /\ state.fullscrn
     /\ style' = state.style /\ place' = state.place
     /\ state' = [state EXCEPT !.fullscrn = FALSE]

WindowEvents(m) ==
  \/ m = "close" /\ quit' = TRUE /\ UNCHANGED looks
  \/ m = "f11"   /\ ToggleFullscreen(FALSE) /\ UNCHANGED quit
  \/ m = "esc"   /\ ToggleFullscreen(TRUE)  /\ UNCHANGED quit
  \/ m = "dpi"   /\ place' \in Places /\ UNCHANGED <<quit, style, state>>
  \/ m = "other" /\ UNCHANGED <<quit, looks>>

-----------------------------------------------------------------------------
(* yield and loop *)

DispatchLast ==   \* a slip: running is what the last message says
  /\ at = "pump" /\ inbox # <<>> /\ inbox' = Tail(inbox) /\ WindowEvents(Head(inbox))
  /\ running' = TRUE
  /\ UNCHANGED <<at, class, window, starts, inputs>>

Dispatch ==
  /\ at = "pump" /\ inbox # <<>> /\ inbox' = Tail(inbox) /\ WindowEvents(Head(inbox))
  /\ UNCHANGED <<at, class, window, running, starts, inputs>>

\* WM_QUIT is noted, and the messages behind it are still handled.
NoteQuit ==
  /\ at = "pump" /\ quit /\ quit' = FALSE /\ running' = FALSE
  /\ UNCHANGED <<at, class, window, inbox, looks, starts, inputs>>

EndYield ==
  /\ Go("pump", IF running THEN "redraw" ELSE "destroy") /\ inbox = <<>> /\ ~ quit
  /\ UNCHANGED <<class, window, running, inbox, quit, looks, starts, inputs>>

\* The function says whether it is to be called again; a null one is not asked.
Redraw ==
  /\ \E more \in BOOLEAN : Go("redraw", IF more THEN "pump" ELSE "destroy")
  /\ running' = TRUE
  /\ UNCHANGED <<class, window, inbox, quit, looks, starts, inputs>>

-----------------------------------------------------------------------------
Program == Create \/ CreateFails \/ Destroy \/ Dispatch \/ NoteQuit \/ EndYield \/ Redraw

Over == at = "create" /\ starts = MaxStarts /\ UNCHANGED winvars

Next == Program \/ Input \/ Over

Spec == Init /\ [][Next]_winvars /\ WF_winvars(Program)
-----------------------------------------------------------------------------
(* Properties *)

(* A window is as FSState says: without a frame in fullscreen, and with    *)
(* its frame and off the bounds of the monitor otherwise.  FSState is kept *)
(* from one window to the next, but there is no next: the class of the     *)
(* first stays registered.                                                 *)
StyleMatches ==
  window => IF state.fullscrn THEN style = "bare"
            ELSE style = "framed" /\ place \in Places

(* A window that is told to close is destroyed, whatever is told it after. *)
Closes == window /\ (quit \/ \E n \in DOMAIN inbox : inbox[n] = "close") ~> ~ window
=============================================================================
