---------------------------- MODULE SerialCalls ----------------------------
(***************************************************************************)
(* What sync_to_async promises its callers: a blocking call whose work is  *)
(* run once, by one server, one call at a time, and which returns after    *)
(* its own work has finished and not before.                               *)
(***************************************************************************)

CONSTANT Callers

VARIABLE phase   \* of each caller's current call

Init == phase = [c \in Callers |-> "idle"]

Move(c, from, to) == phase[c] = from /\ phase' = [phase EXCEPT ![c] = to]

Call(c)   == Move(c, "idle", "asked")
Start(c)  == /\ \A d \in Callers : phase[d] # "running"
             /\ Move(c, "asked", "running")
Finish(c) == Move(c, "running", "served")
Return(c) == Move(c, "served", "idle")

Next == \E c \in Callers : Call(c) \/ Start(c) \/ Finish(c) \/ Return(c)

Safety == Init /\ [][Next]_phase

(* Some call that was asked for starts; a call that started is finished    *)
(* and returned from.  Which of several calls starts is not promised.      *)
Spec ==
  /\ Safety
  /\ WF_phase(\E c \in Callers : Start(c))
  /\ \A c \in Callers : WF_phase(Finish(c)) /\ WF_phase(Return(c))
=============================================================================
