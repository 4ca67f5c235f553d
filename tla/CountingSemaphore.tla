------------------------- MODULE CountingSemaphore -------------------------
(***************************************************************************)
(* What a semaphore promises: permits are signalled and acquired, and none *)
(* is acquired that has not been signalled.                                *)
(***************************************************************************)
EXTENDS Naturals

CONSTANTS Clients

VARIABLES value, has

Init == value = 0 /\ has = [c \in Clients |-> 0]

Signal == value' \in Nat /\ value' > value /\ UNCHANGED has

Acquire(c) ==
  \E n \in 1 .. value : value' = value - n /\ has' = [has EXCEPT ![c] = @ + n]

\* A client spends what it has.
Spend(c) ==
  /\ has[c] > 0 /\ has' = [has EXCEPT ![c] = @ - 1] /\ UNCHANGED value

Next == Signal \/ \E c \in Clients : Acquire(c) \/ Spend(c)

Spec == Init /\ [][Next]_<<value, has>>
=============================================================================
