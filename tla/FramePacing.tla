---------------------------- MODULE FramePacing ----------------------------
(***************************************************************************)
(* What the threaded renderer of src/src/main.cpp promises, seen from the  *)
(* browser: the swap chain offers one texture per turn of the event loop,  *)
(* so at most one frame is recorded between two presentations, frames keep *)
(* coming, and the pixels asked for with wgpuBufferMapAsync are delivered  *)
(* exactly once.  How the two threads arrange it is in Offload.            *)
(***************************************************************************)

VARIABLES
  stage,     \* "off" before the loop starts, "open", or "recorded"
  readback   \* the state of the one asynchronous buffer mapping

vars == <<stage, readback>>

Outcomes == {"success", "error"}

Init == stage = "off" /\ readback = "idle"

Start   == stage = "off"      /\ stage' = "open"     /\ UNCHANGED readback
Record  == stage = "open"     /\ stage' = "recorded" /\ UNCHANGED readback
Present == stage = "recorded" /\ stage' = "open"     /\ UNCHANGED readback

Request == stage # "off" /\ readback = "idle" /\ readback' = "pending"
           /\ UNCHANGED stage
Deliver == readback = "pending" /\ readback' \in Outcomes /\ UNCHANGED stage

Next == Start \/ Record \/ Present \/ Request \/ Deliver

(* A browser that never gets a device leaves the stage "off" for ever;     *)
(* once open, recording, presenting and delivering are never put off.      *)
Fairness == WF_vars(Record) /\ WF_vars(Present) /\ WF_vars(Deliver)

Safety == Init /\ [][Next]_vars
Spec   == Safety /\ Fairness
=============================================================================
