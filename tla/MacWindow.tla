----------------------------- MODULE MacWindow -----------------------------
(***************************************************************************)
(* src/src/mac/window.mm: the redraw loop on macOS.  The display link's    *)
(* own thread asks for a frame and waits until the main thread has drawn   *)
(* it (performSelectorOnMainThread, waitUntilDone); the main thread blocks *)
(* in nextEventMatchingMask, where it serves such requests, and looks at   *)
(* running only when it has been given an event.                           *)
(*                                                                         *)
(* Of Cocoa the model keeps what the code relies on: a request is not an   *)
(* event, and CVDisplayLinkStop, on a link that runs, returns at once or   *)
(* after the link's callback.  The source says that it is "freezing        *)
(* sometime"; which of the two it is stays open.                           *)
(***************************************************************************)
EXTENDS Naturals, Sequences

CONSTANT MaxEvents   \* how many events the user causes (a bound)

VARIABLES
  stopWaits,   \* CVDisplayLinkStop returns after the callback
  main,        \* where the main thread is
  back,        \* and where it goes from setRedraw(NULLPTR)
  running,
  redrawFunc,  \* is set
  started,     \* dispLink runs
  asked,       \* its thread is in update, waiting for the main thread
  events,      \* of the window, "close" and others
  sent

macvars == <<stopWaits, main, back, running, redrawFunc, started, asked, events, sent>>

Init ==
  /\ stopWaits \in BOOLEAN /\ main = "first" /\ back = "out"
  /\ running = TRUE /\ redrawFunc = FALSE /\ started = FALSE /\ asked = FALSE
  /\ events = <<>> /\ sent = 0

ClearMuted(to) ==   \* a slip: the loop is not told
  UNCHANGED running /\ redrawFunc' = FALSE /\ main' = "stop" /\ back' = to

\* setRedraw(NULLPTR), up to CVDisplayLinkStop, from where it goes on to to.
ClearRedraw(to) ==
  running' = FALSE /\ redrawFunc' = FALSE /\ main' = "stop" /\ back' = to

-----------------------------------------------------------------------------
(* window::loop: one frame first, then setRedraw(func) and wait.           *)
FirstFrame ==
  /\ main = "first"
  /\ \/ main' = "wait" /\ redrawFunc' = TRUE /\ started' = TRUE
     \/ main' = "out" /\ UNCHANGED <<redrawFunc, started>>
  /\ UNCHANGED <<stopWaits, back, running, asked, events, sent>>

Wait ==
  /\ main = "wait" /\ main' = IF running THEN "next" ELSE "out"
  /\ UNCHANGED <<stopWaits, back, running, redrawFunc, started, asked, events, sent>>

\* nextEventMatchingMask returns an event, and sendEvent may close the window.
SendEvent ==
  /\ main = "next" /\ events # <<>> /\ events' = Tail(events)
  /\ IF Head(events) = "close" THEN ClearRedraw("wait")
     ELSE main' = "wait" /\ UNCHANGED <<back, running, redrawFunc>>
  /\ UNCHANGED <<stopWaits, started, asked, sent>>

\* Meanwhile it serves the link's request: doRedraw, whose function says
\* whether it is to be called again.
DoRedraw ==
  /\ main = "next" /\ asked
  /\ \/ redrawFunc /\ asked' = FALSE /\ UNCHANGED <<main, back, running, redrawFunc>>
     \/ ClearRedraw("redrawn") /\ UNCHANGED asked
  /\ UNCHANGED <<stopWaits, started, events, sent>>

\* The link's thread is in update, and the main thread waits for it to leave.
Frozen == main = "stop" /\ started /\ stopWaits /\ asked

Stop ==
  /\ main = "stop" /\ ~ Frozen /\ started' = FALSE /\ main' = back
  /\ UNCHANGED <<stopWaits, back, running, redrawFunc, asked, events, sent>>

\* doRedraw is done, and its caller goes on; the main thread is where it was.
Redrawn ==
  /\ main = "redrawn" /\ main' = "next" /\ asked' = FALSE
  /\ UNCHANGED <<stopWaits, back, running, redrawFunc, started, events, sent>>

\* window::destroy closes the window, which stops the link again.
Destroy ==
  /\ main = "out" /\ ClearRedraw("gone")
  /\ UNCHANGED <<stopWaits, started, asked, events, sent>>

Main == FirstFrame \/ Wait \/ SendEvent \/ DoRedraw \/ Stop \/ Redrawn \/ Destroy

-----------------------------------------------------------------------------
(* update, on the display link's thread, and the user *)

Update ==
  /\ started /\ ~ asked /\ main # "gone" /\ asked' = TRUE
  /\ UNCHANGED <<stopWaits, main, back, running, redrawFunc, started, events, sent>>

User ==
  /\ main # "gone" /\ sent < MaxEvents /\ sent' = sent + 1
  /\ \E e \in {"close", "other"} : events' = Append(events, e)
  /\ UNCHANGED <<stopWaits, main, back, running, redrawFunc, started, asked>>

\* The end, a freeze, or nothing to do but wait for the user.
Idle ==
  /\ main = "gone" \/ Frozen \/ (main = "next" /\ events = <<>>)
  /\ UNCHANGED macvars

Next == Main \/ Update \/ User \/ Idle

\* An event that is there is handed out, however often the link asks.
Spec == Init /\ [][Next]_macvars /\ WF_macvars(Main) /\ WF_macvars(SendEvent)
-----------------------------------------------------------------------------
(* Properties *)

(* wait returns after the window is closed or a redraw has said that it is *)
(* the last, and the window is destroyed, but for two ends the code has:   *)
(* CVDisplayLinkStop waits for a callback that waits for the main thread,  *)
(* and a last redraw is noticed only at the next event.                    *)
Closes ==
  /\ (\E n \in DOMAIN events : events[n] = "close") ~> main = "gone" \/ Frozen
  /\ ~ running ~> main = "gone" \/ Frozen \/ (main = "next" /\ events = <<>>)
=============================================================================
