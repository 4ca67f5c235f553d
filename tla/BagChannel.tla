----------------------------- MODULE BagChannel -----------------------------
(***************************************************************************)
(* What a concurrent queue promises whatever the number of its producers   *)
(* and consumers: what is taken out was put in, once, in some order.       *)
(***************************************************************************)

CONSTANT Items   \* the values that can be put, each at most once

VARIABLES
  inside,   \* put and not yet taken
  taken     \* taken

vars == <<inside, taken>>

Init == inside = {} /\ taken = {}

Put == \E i \in Items \ (inside \cup taken) :
         inside' = inside \cup {i} /\ UNCHANGED taken
Get == \E i \in inside :
         inside' = inside \ {i} /\ taken' = taken \cup {i}

Next == Put \/ Get

Safety == Init /\ [][Next]_vars
Spec   == Safety /\ WF_vars(Get)
=============================================================================
