--------------------------- MODULE MCAtomicQueue ---------------------------
(* The element queue in its two modes, and the index arithmetic of all the *)
(* queues, side by side: a behaviour is one of the three, and the other    *)
(* two stay in their initial states.  The queues' words start one short of *)
(* their wrap.  The arithmetic has words of 7 bits; sizes about the powers *)
(* of two and the wrap; lines of 1, 2, 4, 5 and 8 elements, whose least    *)
(* shuffled sizes are 1, 4, 16 and 64 (5 is not a power of two: such a     *)
(* queue is not shuffled).                                                 *)
EXTENDS AtomicQueue

CONSTANTS p1, p2, c1, c2

VARIABLES
  part,         \* which of the three the behaviour is of
  head1, tail1, elements1, pc1, ticket1, item1, pushed1, got1,  \* the SPSC mode
  kind, size, per, at   \* the arithmetic

LastTicket == {15}
SmallSizes == {0, 1, 2, 3, 5, 8, 16, 17, 33, 64, 65}
Lines      == {1, 2, 4, 5, 8}

Single == INSTANCE AtomicQueue WITH
  Producers <- {p1}, Consumers <- {c1}, MaxPush <- 6, Spsc <- TRUE,
  head <- head1, tail <- tail1, elements <- elements1, pc <- pc1,
  ticket <- ticket1, item <- item1, pushed <- pushed1, got <- got1

Math == INSTANCE IndexMath WITH
  Width <- 7, Sizes <- SmallSizes, PerLines <- Lines, ticket <- at

singlevars == <<head1, tail1, elements1, pc1, ticket1, item1, pushed1, got1>>
mathvars   == <<kind, size, per, at>>
allvars    == <<part, vars, singlevars, mathvars>>

AllInit ==
  /\ Init /\ Single!Init
  /\ \/ part \in {"many", "single"} /\ kind = "inline" /\ size = 1 /\ per = 1 /\ at = 0
     \/ part = "math" /\ Math!Init

AllNext ==
  \/ part = "many"   /\ Next        /\ UNCHANGED <<part, singlevars, mathvars>>
  \/ part = "single" /\ Single!Next /\ UNCHANGED <<part, vars, mathvars>>
  \/ part = "math"   /\ Math!Next   /\ UNCHANGED <<part, vars, singlevars>>

(* The fairness of each queue, where the behaviour is of that queue.       *)
AllFairness ==
  /\ \A p \in Producers : WF_vars(part = "many" /\ pc[p] # "idle" /\ Producer(p))
  /\ \A c \in Consumers : WF_vars(part = "many" /\ (Pop(c) \/ Running(c)))
  /\ WF_singlevars(part = "single" /\ pc1[p1] # "idle" /\ Single!Producer(p1))
  /\ WF_singlevars(part = "single" /\ (Single!Pop(c1) \/ Single!Running(c1)))

AllSpec == AllInit /\ [][AllNext]_allvars /\ AllFairness

(* IsFifo of the SPSC mode: what one thread pushes the other pops, in the  *)
(* order in which it was pushed.                                           *)
SingleIsFifo == Single!IsFifo

(* Of the arithmetic: the capacity is the least power of two that fits;    *)
(* any Cap tickets in a row have different slots; and neighbours of a      *)
(* shuffled queue lie on different cache lines.                            *)
SlotsApart == part = "math" => Math!Rounded /\ Math!SlotsApart
=============================================================================
