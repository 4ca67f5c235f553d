---------------------------- MODULE FifoChannel ----------------------------
(***************************************************************************)
(* What a queue promises to one producer and one consumer: what is taken   *)
(* out is what was put in, in the order it was put.                        *)
(***************************************************************************)
EXTENDS Sequences

CONSTANT Items   \* the values that can be put

VARIABLES
  inside,   \* put and not yet taken, oldest first
  taken     \* taken, in the order it was

vars == <<inside, taken>>

Init == inside = <<>> /\ taken = <<>>

Put == \E i \in Items : inside' = Append(inside, i) /\ UNCHANGED taken
Get == /\ inside # <<>>
       /\ inside' = Tail(inside) /\ taken' = Append(taken, Head(inside))

Next == Put \/ Get

Safety == Init /\ [][Next]_vars
Spec   == Safety /\ WF_vars(Get)
=============================================================================
