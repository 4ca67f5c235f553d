--------------------------- MODULE MCAtomicQueue2 ---------------------------
(***************************************************************************)
(* Small instances of AtomicQueue2.  Wrap is 16 in place of 2^32, and head *)
(* and tail start one short of it, so that both wrap in each run; it is   *)
(* more than twice Size plus the threads, as 2^32 is.                      *)
(***************************************************************************)
EXTENDS AtomicQueue2

CONSTANTS p1, p2, c1, c2

Identity == [s \in Slots |-> s]            \* SHUFFLE_BITS = 0
LastTicket == {15}

ASSUME FewAssumption == FewTickets
=============================================================================
