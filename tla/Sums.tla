-------------------------------- MODULE Sums --------------------------------
(***************************************************************************)
(* Sums over threads as cardinalities: what a function counts, unit by     *)
(* unit, is a set.                                                         *)
(***************************************************************************)
EXTENDS Naturals, FiniteSets

Units(f) == UNION {{t} \X (1 .. f[t]) : t \in DOMAIN f}
Total(f) == Cardinality(Units(f))
=============================================================================
