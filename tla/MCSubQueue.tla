----------------------------- MODULE MCSubQueue -----------------------------
(***************************************************************************)
(* For TLC: a queue of either kind and its consumers, from the constructor *)
(* to the destructor; and, side by side with it, the free list its blocks  *)
(* go to, step by step (SubQueue takes a block in one step).  A behaviour  *)
(* is of the queue or of the list, and the other stays where it starts.    *)
(***************************************************************************)
EXTENDS ExplicitProducer, ImplicitProducer, FreeList

VARIABLE part   \* "queue" or "list"

Produce == ProduceExplicit \/ ProduceImplicit \/ Publish
Destroy == DestroyExplicit \/ DestroyImplicit
Ended   == pc = "gone" /\ UNCHANGED vars

Next ==
  \/ Produce
  \/ pc # "gone" /\ \E c \in Consumers : DequeueExplicit(c) \/ DequeueImplicit(c)
  \/ Destroy
  \/ Ended

AllInit ==
  /\ Init /\ ListInit
  /\ \/ part = "queue" /\ held[CHOOSE t \in Users : TRUE] = Nodes
     \/ part = "list" /\ setup = CHOOSE s \in Setups : TRUE

AllNext ==
  \/ part = "queue" /\ Next      /\ UNCHANGED <<part, flvars>>
  \/ part = "list"  /\ ListNext /\ UNCHANGED <<part, vars>>

\* The threads run, and one consumer calls again and again.
Fairness ==
  /\ WF_vars(part = "queue" /\ pc \notin {"idle", "gone"} /\ Produce)
  /\ \A c \in 1 .. 2 :
       WF_vars(part = "queue" /\ c \in Consumers /\ pc # "gone"
                /\ (c = 1 \/ at[c] # "idle") /\ Dequeue(c))

Spec == AllInit /\ [][AllNext]_<<part, vars, flvars>> /\ Fairness

\* Two consumers, and blocks enough.
Pair == [kind |-> "explicit", wrap |-> 16, pool |-> 0, heap |-> 4, indexes |-> 2,
         limit |-> NoLimit, throws |-> FALSE, bulks |-> {2}, items |-> 4, callers |-> 2,
         wants |-> {1, 3}]
\* One consumer: so many items that the index must grow, ...
Long == [Pair EXCEPT !.items = 9, !.callers = 1, !.wants = {3}]
\* ... so small a word that it wraps, ...
Word == [Long EXCEPT !.heap = 3, !.items = 17, !.indexes = 1]
\* ... and a limit.
Tight == [Long EXCEPT !.limit = 4, !.heap = 2]

Queues ==
  {Pair, Long, Word, Tight, [Long EXCEPT !.items = 6, !.bulks = {3}, !.pool = 3, !.heap = 0]}
  \cup
  {[s EXCEPT !.kind = "implicit", !.bulks = {3}] : s \in {Pair, Long, [Word EXCEPT !.wrap = 8, !.items = 9], Tight}}
  \cup
  {[Long EXCEPT !.kind = "implicit", !.items = 5, !.bulks = {3}, !.throws = TRUE,
                !.pool = 1, !.heap = 2, !.limit = 4]}

\* A bulk of more blocks than are left; a constructor that throws.
Short    == {[Long EXCEPT !.bulks = {3, 5}, !.items = 16, !.heap = 3]}
Throwing == {[Long EXCEPT !.throws = TRUE]}
=============================================================================
