------------------------------ MODULE FreeList ------------------------------
(***************************************************************************)
(* concurrentqueue.h, FreeList: where blocks wait to be used again.  It is *)
(* a stack that threads push to and pop from without a lock; a node that   *)
(* some thread refers to may not be pushed, so that the next pointer it    *)
(* has read stays true, and the last thread to let go of it pushes it.     *)
(* Every atomic access is a step.                                          *)
(***************************************************************************)
EXTENDS Naturals, FiniteSets

CONSTANTS
  Users, Nodes, NoNode,
  SHOULD_BE_ON_FREELIST   \* the bit of freeListRefs above REFS_MASK

\* There are fewer threads than the references that can be counted below
\* that bit, 2^31 in the code.
ASSUME BitAssumption ==
  /\ SHOULD_BE_ON_FREELIST \in Nat
  /\ IsFiniteSet(Users) /\ Cardinality(Users) < SHOULD_BE_ON_FREELIST
  /\ NoNode \notin Nodes

VARIABLES
  top,        \* freeListHead
  refs, link, \* freeListRefs and freeListNext of every node
  held,       \* the nodes each thread has taken
  doing, locals      \* where each thread is, and its locals

flvars == <<top, refs, link, held, doing, locals>>

\* freeListRefs & REFS_MASK
Count(r) == r % SHOULD_BE_ON_FREELIST
NoLocals == [h |-> NoNode, n |-> NoNode, s |-> NoNode, r |-> 0]

\* At first the nodes are in use.
ListInit ==
  /\ top = NoNode
  /\ refs = [n \in Nodes |-> 0] /\ link = [n \in Nodes |-> NoNode]
  /\ held \in [Users -> SUBSET Nodes]
  /\ \A n \in Nodes : \E t \in Users : \A u \in Users : n \in held[u] <=> u = t
  /\ doing = [t \in Users |-> "idle"] /\ locals = [t \in Users |-> NoLocals]

GoOn(t, from, to) == doing[t] = from /\ doing' = [doing EXCEPT ![t] = to]
Jump(t, to)     == doing' = [doing EXCEPT ![t] = to]
Local(t, f, x)  == locals' = [locals EXCEPT ![t][f] = x]
Leave(t)        == doing' = [doing EXCEPT ![t] = "idle"] /\ locals' = [locals EXCEPT ![t] = NoLocals]

-----------------------------------------------------------------------------
(* add *)

\* The bit is set; the thread that finds no reference pushes the node.
Add(t, n) ==
  /\ doing[t] = "idle" /\ n \in held[t]
  /\ held' = [held EXCEPT ![t] = @ \ {n}]
  /\ refs' = [refs EXCEPT ![n] = @ + SHOULD_BE_ON_FREELIST]
  /\ IF refs[n] = 0 THEN Jump(t, "load") /\ Local(t, "n", n) ELSE UNCHANGED <<doing, locals>>
  /\ UNCHANGED <<top, link>>

\* add_knowing_refcount_is_zero: the head, the link, the reference of the list, ...
LoadTop(t) ==
  /\ GoOn(t, "load", "link") /\ Local(t, "h", top)
  /\ UNCHANGED <<top, refs, link, held>>

Link(t) ==
  /\ GoOn(t, "link", "ref") /\ link' = [link EXCEPT ![locals[t].n] = locals[t].h]
  /\ UNCHANGED <<top, refs, held, locals>>

SetRef(t) ==
  /\ GoOn(t, "ref", "push") /\ refs' = [refs EXCEPT ![locals[t].n] = 1]
  /\ UNCHANGED <<top, link, held, locals>>

\* add returns; try_get goes on with the head it has seen last, if there is one.
Resume(t) ==
  IF locals[t].s = NoNode THEN Leave(t)
  ELSE Jump(t, "look") /\ locals' = [locals EXCEPT ![t] = [NoLocals EXCEPT !.h = locals[t].s]]

\* ... the compare-exchange of the head, ...
Push(t) ==
  /\ doing[t] = "push"
  /\ IF top = locals[t].h
     THEN top' = locals[t].n /\ Resume(t)
     ELSE Jump(t, "back") /\ Local(t, "h", top) /\ UNCHANGED top
  /\ UNCHANGED <<refs, link, held>>

\* ... and if that fails, the reference taken back: again, or by the last one.
Back(t) ==
  /\ doing[t] = "back"
  /\ refs' = [refs EXCEPT ![locals[t].n] = @ + SHOULD_BE_ON_FREELIST - 1]
  /\ IF refs[locals[t].n] = 1 THEN Jump(t, "link") /\ UNCHANGED locals ELSE Resume(t)
  /\ UNCHANGED <<top, link, held>>

-----------------------------------------------------------------------------
(* try_get *)

\* The load of the head, first or again; NULL is returned for an empty list.
TryGet(t) ==
  /\ doing[t] \in {"idle", "reload"}
  /\ IF top = NoNode THEN Leave(t) ELSE Jump(t, "look") /\ Local(t, "h", top)
  /\ UNCHANGED <<top, refs, link, held>>

\* A node without references is not on the list; ...
LookAt(t) ==
  /\ doing[t] = "look"
  /\ IF Count(refs[locals[t].h]) = 0 THEN Jump(t, "reload") /\ UNCHANGED locals
     ELSE Jump(t, "grab") /\ Local(t, "r", refs[locals[t].h])
  /\ UNCHANGED <<top, refs, link, held>>

GrabBlind(t) ==   \* a slip: an increment in place of the compare-exchange
  /\ GoOn(t, "grab", "next") /\ refs' = [refs EXCEPT ![locals[t].h] = @ + 1]
  /\ locals' = [locals EXCEPT ![t] = [NoLocals EXCEPT !.h = locals[t].h]]
  /\ UNCHANGED <<top, link, held>>

\* ... else one is taken, if nobody has changed them.
Grab(t) ==
  /\ doing[t] = "grab"
  /\ IF refs[locals[t].h] = locals[t].r
     THEN refs' = [refs EXCEPT ![locals[t].h] = @ + 1] /\ Jump(t, "next")
     ELSE UNCHANGED refs /\ Jump(t, "reload")
  /\ locals' = [locals EXCEPT ![t] = [NoLocals EXCEPT !.h = locals[t].h]]
  /\ UNCHANGED <<top, link, held>>

Next1(t) ==
  /\ GoOn(t, "next", "pop") /\ Local(t, "n", link[locals[t].h])
  /\ UNCHANGED <<top, refs, link, held>>

\* The node is this thread's, or the head has changed: it lets go of it.
Pop(t) ==
  /\ doing[t] = "pop"
  /\ IF top = locals[t].h THEN top' = locals[t].n /\ Jump(t, "got") /\ UNCHANGED locals
                      ELSE Jump(t, "undo") /\ Local(t, "s", top) /\ UNCHANGED top
  /\ UNCHANGED <<refs, link, held>>

\* Its own reference and that of the list.
Got(t) ==
  /\ doing[t] = "got" /\ refs' = [refs EXCEPT ![locals[t].h] = @ - 2]
  /\ held' = [held EXCEPT ![t] = @ \cup {locals[t].h}] /\ Leave(t)
  /\ UNCHANGED <<top, link>>

UndoLast(t) ==   \* a slip: nobody pushes the node
  /\ doing[t] = "undo" /\ refs' = [refs EXCEPT ![locals[t].h] = @ - 1] /\ Resume(t)
  /\ UNCHANGED <<top, link, held>>

\* The last reference to a node that should be on the list: it is pushed.
Undo(t) ==
  /\ doing[t] = "undo" /\ refs' = [refs EXCEPT ![locals[t].h] = @ - 1]
  /\ IF refs[locals[t].h] = SHOULD_BE_ON_FREELIST + 1
     THEN Jump(t, "load") /\ Local(t, "n", locals[t].h)
     ELSE Resume(t)
  /\ UNCHANGED <<top, link, held>>

Step(t) ==
  \/ LoadTop(t) \/ Link(t) \/ SetRef(t) \/ Push(t) \/ Back(t)
  \/ LookAt(t) \/ Grab(t) \/ Next1(t) \/ Pop(t) \/ Got(t) \/ Undo(t)

ListNext == \E t \in Users : TryGet(t) \/ Step(t) \/ \E n \in Nodes : Add(t, n)

ListFairness == \A t \in Users : WF_flvars(Step(t) \/ (doing[t] = "reload" /\ TryGet(t)))

ListSpec == ListInit /\ [][ListNext]_flvars /\ ListFairness
-----------------------------------------------------------------------------
(* Properties *)

Places    == {"idle", "load", "link", "ref", "push", "back", "reload", "look", "grab",
              "next", "pop", "got", "undo"}
MaybeNode == Nodes \cup {NoNode}
Locals    == [h : MaybeNode, n : MaybeNode, s : MaybeNode, r : Nat]

ListTypeOK ==
  /\ top \in MaybeNode /\ link \in [Nodes -> MaybeNode] /\ refs \in [Nodes -> Nat]
  /\ held \in [Users -> SUBSET Nodes]
  /\ doing \in [Users -> Places] /\ locals \in [Users -> Locals]
  /\ \A t \in Users :
       /\ doing[t] \in {"look", "grab", "next", "pop", "got", "undo"} => locals[t].h \in Nodes
       /\ doing[t] \in {"load", "link", "ref", "push", "back"} => locals[t].n \in Nodes

\* The nodes of the list: those in every set that has the head and, with a
\* node, the next one.
Closed(S) == top \in S \cup {NoNode} /\ \A n \in S : link[n] \in S \cup {NoNode}
Listed    == {n \in Nodes : \A S \in SUBSET Nodes : Closed(S) => n \in S}

(* A node is taken by one thread at a time, and while it is on the list by *)
(* none: a thread that has read the link of a node, and been overtaken by  *)
(* others that took that node and put it back, must not take a stale link. *)
Owned(t) == held[t] \cup (IF doing[t] = "got" THEN {locals[t].h} ELSE {})
OneOwner ==
  /\ \A t, u \in Users : t # u => Owned(t) \cap Owned(u) = {}
  /\ \A t \in Users : Owned(t) \cap Listed = {}

(* No node is lost: when the threads are done, one that nobody has taken   *)
(* is on the list, whoever was left to push it.                            *)
NoneLost ==
  (\A t \in Users : doing[t] = "idle") => Listed = Nodes \ UNION {held[t] : t \in Users}
=============================================================================
