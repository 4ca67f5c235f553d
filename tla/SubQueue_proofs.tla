--------------------------- MODULE SubQueue_proofs ---------------------------
(***************************************************************************)
(* The queue of one producer and the free list of blocks, for any numbers  *)
(* of threads, blocks, items and any width of the words.  First the list:  *)
(* a node on it has no owner, no two threads own one node, and no node is  *)
(* lost.  Then the queue: consumers never claim past the tail.  Last the   *)
(* blocks of an implicit producer: a consumer comes to the block that has  *)
(* its items, an item has one block, and the destructor leaves none.       *)
(***************************************************************************)
EXTENDS MCSubQueue, QueueLemmas

\* A thread answers for a node that it has taken, that it has to push, with
\* its bit or no longer, or that it has just popped; or it has counted itself
\* among the references of the node.
Has(t, n)    == n \in held[t]
Clears(t, n) == doing[t] \in {"load", "link", "ref"} /\ locals[t].n = n
Pushes(t, n) == doing[t] \in {"push", "back"} /\ locals[t].n = n
Gets(t, n)   == doing[t] = "got" /\ locals[t].h = n
Answers(t, n) == Has(t, n) \/ Clears(t, n) \/ Pushes(t, n) \/ Gets(t, n)
Refers(t, n) == doing[t] \in {"next", "pop", "got", "undo"} /\ locals[t].h = n

Refs(n) == Cardinality({t \in Users : Refers(t, n)})

\* Nobody answers for the nodes on the list, which has one reference to each;
\* nor for those that wait, with their bit, for the last thread that refers to
\* them.
Loose(n) == \A t \in Users : ~ Answers(t, n)
OnList   == {n \in Nodes : Loose(n) /\ refs[n] = 1 + Refs(n)}

\* One thread answers for a node, and for one reason.
Sole(n) ==
  /\ \A t, u \in Users : Answers(t, n) /\ Answers(u, n) => t = u
  /\ \A t \in Users : Has(t, n) => ~ (Clears(t, n) \/ Pushes(t, n) \/ Gets(t, n))

\* freeListRefs counts the threads that refer to the node, and the list, which
\* has its reference from SetRef to Got.
Counted(n) ==
  /\ \A t \in Users :
       /\ Has(t, n) => refs[n] = Refs(n)
       /\ Clears(t, n) => Refs(n) = 0 /\ refs[n] = SHOULD_BE_ON_FREELIST
       /\ Pushes(t, n) \/ Gets(t, n) => refs[n] = 1 + Refs(n)
  /\ Loose(n) => \/ refs[n] = 1 + Refs(n)
                 \/ Refs(n) # 0 /\ refs[n] = SHOULD_BE_ON_FREELIST + Refs(n)

\* What a thread remembers is still so: the references it compares with were
\* some; a link changes for nobody who refers to the node, and for nobody but
\* the one that pushes it.
Remembered ==
  \A t \in Users :
    /\ doing[t] = "grab" => Count(locals[t].r) # 0
    /\ doing[t] = "pop" => locals[t].n = link[locals[t].h]
    /\ doing[t] \in {"ref", "push"} => locals[t].h = link[locals[t].n]

\* The list goes from its head through all its nodes, each once.
Linked ==
  /\ Closed(OnList)
  /\ \A n \in OnList : link[n] # top \/ top = NoNode
  /\ \A m, n \in OnList : m # n /\ link[m] = link[n] => link[m] = NoNode
Reached == \A S \in SUBSET Nodes : Closed(S) => OnList \subseteq S

ListInv == ListTypeOK /\ (\A n \in Nodes : Sole(n) /\ Counted(n)) /\ Remembered /\ Linked /\ Reached

-----------------------------------------------------------------------------
\* A number of references that is one or the bit alone counts none.
LEMMA NoCount ==
  /\ Count(0) = 0 /\ Count(SHOULD_BE_ON_FREELIST) = 0
         /\ SHOULD_BE_ON_FREELIST \in Nat \ {0} /\ Cardinality(Users) \in Nat
<1>1. SHOULD_BE_ON_FREELIST \in Nat \ {0} /\ Cardinality(Users) \in Nat
  BY BitAssumption, FS_CardinalityType
<1> QED
  BY <1>1 DEF Count

\* The references to a node are at most the threads, and none if there is none.
LEMMA RefsBound ==
  ASSUME NEW n
  PROVE  /\ Refs(n) \in 0 .. Cardinality(Users) /\ Cardinality(Users) \in Nat
         /\ Refs(n) = 0 <=> \A t \in Users : ~ Refers(t, n)
<1> DEFINE H == {t \in Users : Refers(t, n)}
<1>1. IsFiniteSet(Users) /\ H \subseteq Users
  BY BitAssumption
<1>2. IsFiniteSet(H) /\ Cardinality(H) \in Nat /\ Cardinality(Users) \in Nat /\ Cardinality(H) <= Cardinality(Users)
  BY <1>1, FS_Subset, FS_CardinalityType
<1>3. Cardinality(H) = 0 <=> H = {}
  BY <1>2, FS_EmptySet
<1> QED
  BY <1>2, <1>3 DEF Refs

\* What a thread remembers at first is nothing.
LEMMA NoLocal ==
  NoLocals \in Locals /\ NoLocals.h = NoNode /\ NoLocals.n = NoNode /\ NoLocals.s = NoNode
  BY DEF NoLocals, Locals, MaybeNode

\* And then a head.
LEMMA LocalHead ==
  ASSUME NEW n \in MaybeNode
  PROVE  [NoLocals EXCEPT !.h = n] \in Locals /\ [NoLocals EXCEPT !.h = n].h = n
  BY DEF NoLocals, Locals, MaybeNode

\* What a step changes for a node: nothing, ...
Same(n) ==
  /\ refs'[n] = refs[n]
  /\ \A u \in Users : /\ Has(u, n)' <=> Has(u, n)
                      /\ Clears(u, n)' <=> Clears(u, n)
                      /\ Pushes(u, n)' <=> Pushes(u, n)
                      /\ Gets(u, n)' <=> Gets(u, n)
                      /\ Refers(u, n)' <=> Refers(u, n)

\* A step that changes nobody's reference to a node keeps their number.
LEMMA RefsSame ==
  ASSUME NEW n, \A u \in Users : Refers(u, n)' <=> Refers(u, n)
  PROVE  Refs(n)' = Refs(n)
<1>1. {u \in Users : Refers(u, n)}' = {u \in Users : Refers(u, n)}
  OBVIOUS
<1> QED
  BY <1>1 DEF Refs

\* ... one reference more, ...
LEMMA RefsMore ==
  ASSUME NEW t \in Users, NEW n, ~ Refers(t, n), Refers(t, n)',
         \A u \in Users : u # t => (Refers(u, n)' <=> Refers(u, n))
  PROVE  Refs(n)' = Refs(n) + 1
<1> DEFINE H == {u \in Users : Refers(u, n)}
<1>1. H' = H \cup {t} /\ t \notin H
  OBVIOUS
<1>2. IsFiniteSet(H)
  BY BitAssumption, FS_Subset
<1> QED
  BY <1>1, <1>2, FS_AddElement DEF Refs

\* ... or one less.
LEMMA RefsLess ==
  ASSUME NEW t \in Users, NEW n, Refers(t, n), ~ Refers(t, n)',
         \A u \in Users : u # t => (Refers(u, n)' <=> Refers(u, n))
  PROVE  Refs(n)' = Refs(n) - 1
<1> DEFINE H == {u \in Users : Refers(u, n)}
<1>1. H' = H \ {t} /\ t \in H
  OBVIOUS
<1>2. IsFiniteSet(H)
  BY BitAssumption, FS_Subset
<1> QED
  BY <1>1, <1>2, FS_RemoveElement DEF Refs

\* Where nothing changes the invariant stays.
LEMMA Elsewhere ==
  ASSUME NEW n \in Nodes, Same(n)
  PROVE  /\ Sole(n) /\ Counted(n) => (Sole(n) /\ Counted(n))'
         /\ Loose(n)' <=> Loose(n)
         /\ n \in OnList' <=> n \in OnList
<1>1. Refs(n)' = Refs(n)
  BY RefsSame DEF Same
<1>2. \A u \in Users : Answers(u, n)' <=> Answers(u, n)
  BY DEF Same, Answers
<1>3. Loose(n)' <=> Loose(n)
  BY <1>2 DEF Loose
<1>4. Sole(n) => Sole(n)'
  BY <1>2 DEF Same, Sole
<1>5. Counted(n) => Counted(n)'
  BY <1>1, <1>3 DEF Same, Counted
<1> QED
  BY <1>1, <1>3, <1>4, <1>5 DEF Same, OnList

\* A step that leaves the list alone keeps how it is linked.
LEMMA ListSame ==
  ASSUME Linked, Reached, OnList' = OnList, top' = top, link' = link
  PROVE  Linked' /\ Reached'
<1>1. \A S : Closed(S)' <=> Closed(S)
  BY DEF Closed
<1> QED
  BY <1>1 DEF Linked, Reached, Closed

-----------------------------------------------------------------------------
\* At the start the list is empty.
LEMMA ListStarts == ListInit => ListInv
<1> SUFFICES ASSUME ListInit PROVE ListInv
  OBVIOUS
<1>1. ListTypeOK
  BY DEF ListInit, ListTypeOK, MaybeNode, Places, NoLocals, Locals
<1>2. \A n, t : t \in Users => ~ Refers(t, n) /\ ~ Clears(t, n) /\ ~ Pushes(t, n) /\ ~ Gets(t, n)
  BY DEF ListInit, Refers, Clears, Pushes, Gets
<1>3. \A n \in Nodes : Refs(n) = 0
  BY <1>2, RefsBound
<1>4. ASSUME NEW n \in Nodes PROVE Sole(n) /\ Counted(n) /\ n \notin OnList
  <2>1. PICK t \in Users : \A u \in Users : Has(u, n) <=> u = t
    BY DEF ListInit, Has
  <2> QED
    BY <1>2, <1>3, <2>1 DEF Sole, Counted, OnList, Answers, Loose, ListInit
<1>5. OnList = {}
  BY <1>4 DEF OnList
<1>6. Remembered
  BY DEF ListInit, Remembered
<1>7. Linked /\ Reached
  BY <1>5 DEF Linked, Reached, Closed, ListInit
<1> QED
  BY <1>1, <1>4, <1>6, <1>7 DEF ListInv
-----------------------------------------------------------------------------
(* Steps that leave the list as it is. *)

\* Of one node at most the step changes something, ...
LEMMA Moved ==
  ASSUME ListInv, NEW m \in Nodes, \A n \in Nodes : n # m => Same(n), Sole(m)', Counted(m)'
  PROVE  /\ \A n \in Nodes : Sole(n)' /\ Counted(n)'
         /\ \A n \in Nodes : n # m => (n \in OnList' <=> n \in OnList)
  BY Elsewhere DEF ListInv

\* ... and the node stays where it is.
LEMMA Kept ==
  ASSUME ListInv, NEW m \in Nodes, \A n \in Nodes : n # m => Same(n), Sole(m)', Counted(m)',
         m \in OnList' <=> m \in OnList,
         top' = top, link' = link, ListTypeOK', Remembered'
  PROVE  ListInv'
<1>1. (\A n \in Nodes : Sole(n) /\ Counted(n))'
  BY Moved
<1>2. OnList' = OnList
  <2>1. \A n \in Nodes : n \in OnList' <=> n \in OnList
    BY Moved
  <2> QED
    BY <2>1 DEF OnList
<1> QED
  BY <1>1, <1>2, ListSame DEF ListInv

\* No node is concerned.
LEMMA Quiet ==
  ASSUME ListInv, \A n \in Nodes : Same(n), top' = top, link' = link, ListTypeOK', Remembered'
  PROVE  ListInv'
<1>1. (\A n \in Nodes : Sole(n) /\ Counted(n))'
  BY Elsewhere DEF ListInv
<1>2. OnList' = OnList
  <2>1. \A n \in Nodes : n \in OnList' <=> n \in OnList
    BY Elsewhere
  <2> QED
    BY <2>1 DEF OnList
<1> QED
  BY <1>1, <1>2, ListSame DEF ListInv

\* The steps of add_knowing_refcount_is_zero: the head is read, ...
LEMMA LoadTopKeeps == ASSUME ListInv, NEW t \in Users, LoadTop(t) PROVE ListInv'
<1>1. ListTypeOK' /\ Remembered'
  BY DEF ListInv, ListTypeOK, Remembered, LoadTop, GoOn, Local, Places, Locals
<1>2. \A n \in Nodes : Same(n)
  BY DEF ListInv, ListTypeOK, LoadTop, GoOn, Local, Same, Has, Clears, Pushes, Gets, Refers
<1> QED
  BY <1>1, <1>2, Quiet DEF LoadTop

\* try_get: the head is read, or there is none.
LEMMA TryGetKeeps == ASSUME ListInv, NEW t \in Users, TryGet(t) PROVE ListInv'
<1>1. ListTypeOK' /\ Remembered'
  <2>1. CASE top = NoNode
    BY <2>1, NoLocal DEF ListInv, ListTypeOK, Remembered, TryGet, Leave, Places
  <2>2. CASE top # NoNode
    BY <2>2, SMTT(40) DEF ListInv, ListTypeOK, Remembered, TryGet, Jump, Local, Places, MaybeNode, Locals
  <2> QED
    BY <2>1, <2>2
<1>2. \A n \in Nodes : Same(n)
  BY DEF ListInv, ListTypeOK, TryGet, Leave, NoLocals, Jump, Local, Same, Has, Clears, Pushes, Gets, Refers
<1> QED
  BY <1>1, <1>2, Quiet DEF TryGet

\* The count of the head is read.
LEMMA LookKeeps == ASSUME ListInv, NEW t \in Users, LookAt(t) PROVE ListInv'
<1>1. ListTypeOK' /\ Remembered'
  BY SMTT(40) DEF ListInv, ListTypeOK, Remembered, LookAt, Jump, Local, Places, Locals
<1>2. \A n \in Nodes : Same(n)
  BY DEF ListInv, ListTypeOK, LookAt, Jump, Local, Same, Has, Clears, Pushes, Gets, Refers
<1> QED
  BY <1>1, <1>2, Quiet DEF LookAt

\* Its next is read.
LEMMA NextKeeps == ASSUME ListInv, NEW t \in Users, Next1(t) PROVE ListInv'
<1>1. ListTypeOK' /\ Remembered'
  BY DEF ListInv, ListTypeOK, Remembered, Next1, GoOn, Local, Places, Locals
<1>2. \A n \in Nodes : Same(n)
  BY DEF ListInv, ListTypeOK, Next1, GoOn, Local, Same, Has, Clears, Pushes, Gets, Refers
<1> QED
  BY <1>1, <1>2, Quiet DEF Next1

\* add: the bit is set.
LEMMA AddKeeps == ASSUME ListInv, NEW t \in Users, NEW m \in Nodes, Add(t, m) PROVE ListInv'
<1>1. /\ doing[t] = "idle" /\ Has(t, m) /\ ~ Has(t, m)' /\ refs' = [refs EXCEPT ![m] = @ + SHOULD_BE_ON_FREELIST]
      /\ top' = top /\ link' = link
      /\ refs \in [Nodes -> Nat] /\ Sole(m) /\ Counted(m)
  BY DEF Add, Has, ListInv, ListTypeOK
<1>2. ListTypeOK' /\ Remembered'
  <2>1. refs' \in [Nodes -> Nat] /\ held' \in [Users -> SUBSET Nodes]
    BY NoCount DEF ListInv, ListTypeOK, Add
  <2>2. CASE refs[m] = 0
    BY <2>1, <2>2, SMTT(40) DEF ListInv, ListTypeOK, Remembered, Add, Jump, Local, Places, MaybeNode, Locals
  <2>3. CASE refs[m] # 0
    BY <2>1, <2>3 DEF ListInv, ListTypeOK, Remembered, Add
  <2> QED
    BY <2>2, <2>3
<1>3. \A n \in Nodes : n # m => Same(n)
  BY DEF ListInv, ListTypeOK, Locals, Add, Jump, Local, Same, Has, Clears, Pushes, Gets, Refers
<1>4. \A u \in Users : /\ Refers(u, m)' <=> Refers(u, m)
                       /\ Pushes(u, m)' <=> Pushes(u, m)
                       /\ Gets(u, m)' <=> Gets(u, m)
                       /\ Has(u, m)' <=> Has(u, m) /\ u # t
                       /\ Clears(u, m)' <=> Clears(u, m) \/ (u = t /\ refs[m] = 0)
  BY DEF ListInv, ListTypeOK, Locals, Add, Jump, Local, Has, Clears, Pushes, Gets, Refers
<1>5. Refs(m)' = Refs(m) /\ refs[m] = Refs(m) /\ refs'[m] = Refs(m) + SHOULD_BE_ON_FREELIST
  BY <1>1, <1>4, RefsSame DEF Counted
<1>6. \A u \in Users : u # t => ~ Answers(u, m)
  BY <1>1 DEF Sole, Answers
<1>7. Sole(m)'
  BY <1>1, <1>4, <1>6 DEF Sole, Answers
<1>8. Counted(m)'
  <2>1. \A u \in Users : ~ Has(u, m)' /\ ~ Pushes(u, m)' /\ ~ Gets(u, m)'
    BY <1>1, <1>4, <1>6 DEF Sole, Answers
  <2>2. \A u \in Users : Clears(u, m)' => Refs(m)' = 0 /\ refs'[m] = SHOULD_BE_ON_FREELIST
    BY <1>1, <1>4, <1>5, <1>6, NoCount DEF Sole, Answers
  <2>3. Loose(m)' => Refs(m)' # 0
    BY <1>4, <1>5 DEF Loose, Answers
  <2> QED
    BY <1>5, <2>1, <2>2, <2>3, RefsBound, NoCount DEF Counted
<1>9. m \notin OnList /\ m \notin OnList'
  <2>1. ~ Loose(m)
    BY <1>1 DEF Loose, Answers
  <2>2. Loose(m)' => Refs(m)' # 0
    BY <1>4, <1>5 DEF Loose, Answers
  <2>3. Loose(m)' => refs'[m] # 1 + Refs(m)'
    BY <1>5, <2>2, RefsBound, NoCount, BitAssumption
  <2> QED
    BY <2>1, <2>3 DEF OnList
<1> QED
  BY <1>1, <1>2, <1>3, <1>7, <1>8, <1>9, Kept

\* the count is set to one, ...
LEMMA SetRefKeeps == ASSUME ListInv, NEW t \in Users, SetRef(t) PROVE ListInv'
<1>0. PICK m \in Nodes : m = locals[t].n
  BY DEF SetRef, GoOn, ListInv, ListTypeOK
<1>1. /\ m = locals[t].n /\ Clears(t, m) /\ refs' = [refs EXCEPT ![m] = 1] /\ top' = top /\ link' = link
      /\ refs \in [Nodes -> Nat] /\ Sole(m) /\ Counted(m)
  BY <1>0 DEF SetRef, GoOn, Clears, ListInv, ListTypeOK
<1>2. ListTypeOK' /\ Remembered'
  BY DEF ListInv, ListTypeOK, Remembered, SetRef, GoOn, Places
<1>3. \A n \in Nodes : n # m => Same(n)
  BY <1>1 DEF ListInv, ListTypeOK, SetRef, GoOn, Same, Has, Clears, Pushes, Gets, Refers
<1>4. \A u \in Users : /\ Refers(u, m)' <=> Refers(u, m)
                       /\ Gets(u, m)' <=> Gets(u, m)
                       /\ Has(u, m)' <=> Has(u, m)
                       /\ Clears(u, m)' <=> Clears(u, m) /\ u # t
                       /\ Pushes(u, m)' <=> Pushes(u, m) \/ u = t
  BY <1>1 DEF ListInv, ListTypeOK, SetRef, GoOn, Has, Clears, Pushes, Gets, Refers
<1>5. Refs(m)' = Refs(m) /\ Refs(m) = 0 /\ refs'[m] = 1
  BY <1>1, <1>4, RefsSame DEF Counted
<1>6. \A u \in Users : (u # t => ~ Answers(u, m)) /\ ~ Has(u, m)
  BY <1>1 DEF Sole, Answers
<1>7. Sole(m)'
  BY <1>4, <1>6 DEF Sole, Answers
<1>8. ~ Loose(m) /\ ~ Loose(m)'
  BY <1>1, <1>4 DEF Loose, Answers
<1>9. Counted(m)'
  BY <1>4, <1>5, <1>6, <1>8 DEF Counted, Answers
<1> QED
  BY <1>1, <1>2, <1>3, <1>7, <1>8, <1>9, Kept DEF OnList
\* No thread refers to a node whose link is written.
LEMMA LinkKeeps == ASSUME ListInv, NEW t \in Users, Link(t) PROVE ListInv'
<1>0. PICK m \in Nodes : m = locals[t].n
  BY DEF Link, GoOn, ListInv, ListTypeOK
<1>1. /\ Clears(t, m) /\ Sole(m) /\ Counted(m) /\ top' = top /\ locals' = locals
      /\ doing[t] = "link" /\ doing' = [doing EXCEPT ![t] = "ref"]
      /\ link \in [Nodes -> MaybeNode] /\ doing \in [Users -> Places] /\ locals[t].h \in MaybeNode
      /\ link' = [link EXCEPT ![m] = locals[t].h]
  BY <1>0 DEF Link, GoOn, Clears, ListInv, ListTypeOK, Locals
<1>2. ListTypeOK'
  BY <1>0 DEF ListInv, ListTypeOK, Locals, Link, GoOn, Places
<1>3. \A n \in Nodes : Same(n)
  BY <1>0 DEF ListInv, ListTypeOK, Link, GoOn, Same, Has, Clears, Pushes, Gets, Refers
<1>4. (\A n \in Nodes : Sole(n) /\ Counted(n))'
  BY <1>3, Elsewhere DEF ListInv
<1>5. OnList' = OnList /\ m \notin OnList
  <2>1. \A n \in Nodes : n \in OnList' <=> n \in OnList
    BY <1>3, Elsewhere
  <2> QED
    BY <1>1, <2>1 DEF OnList, Loose, Answers
<1>6. Remembered'
  <2>1. ASSUME NEW u \in Users, doing'[u] = "pop" PROVE locals'[u].n = link'[locals'[u].h]
    <3>1. doing[u] = "pop" /\ locals[u].n = link[locals[u].h] /\ locals[u].h \in Nodes
      BY <1>1, <2>1 DEF ListInv, ListTypeOK, Remembered
    <3>2. Refs(m) = 0
      BY <1>1 DEF Counted
    <3>3. locals[u].h # m
      BY <3>1, <3>2, RefsBound DEF Refers
    <3> QED
      BY <1>1, <3>1, <3>3
  <2>2. ASSUME NEW u \in Users, doing'[u] \in {"ref", "push"} PROVE locals'[u].h = link'[locals'[u].n]
    <3>1. CASE u = t
      BY <1>0, <1>1, <3>1
    <3>2. CASE u # t
      <4>1. doing[u] \in {"ref", "push"} /\ locals[u].h = link[locals[u].n] /\ locals[u].n \in Nodes
        BY <1>1, <2>2, <3>2 DEF ListInv, ListTypeOK, Remembered
      <4>2. locals[u].n # m
        BY <1>1, <3>2, <4>1 DEF Sole, Answers, Clears, Pushes
      <4> QED
        BY <1>1, <4>1, <4>2
    <3> QED
      BY <3>1, <3>2
  <2>3. ASSUME NEW u \in Users, doing'[u] = "grab" PROVE Count(locals'[u].r) # 0
    BY <1>1, <2>3 DEF ListInv, Remembered
  <2> QED
    BY <2>1, <2>2, <2>3 DEF Remembered
<1>7. Linked'
  BY <1>1, <1>5 DEF ListInv, Linked, Closed, OnList
<1>8. Reached'
  <2>1. ASSUME NEW S \in SUBSET Nodes, Closed(S)' PROVE OnList \subseteq S
    <3>1. Closed(S \cap OnList)
      BY <1>1, <1>5, <2>1 DEF ListInv, Linked, Closed, OnList
    <3>2. S \cap OnList \in SUBSET Nodes
      OBVIOUS
    <3> QED
      BY <3>1, <3>2 DEF ListInv, Reached
  <2> QED
    BY <1>5, <2>1 DEF Reached
<1> QED
  BY <1>2, <1>4, <1>6, <1>7, <1>8 DEF ListInv

\* A reference to it is taken, if it has one.
LEMMA GrabKeeps == ASSUME ListInv, NEW t \in Users, Grab(t) PROVE ListInv'
<1>0. PICK m \in Nodes : m = locals[t].h
  BY DEF Grab, ListInv, ListTypeOK
<1>1. /\ doing[t] = "grab" /\ top' = top /\ link' = link /\ held' = held /\ Sole(m) /\ Counted(m)
      /\ locals' = [locals EXCEPT ![t] = [NoLocals EXCEPT !.h = m]]
      /\ doing \in [Users -> Places] /\ locals \in [Users -> Locals] /\ refs \in [Nodes -> Nat]
  BY <1>0 DEF Grab, ListInv, ListTypeOK
<1>2. [NoLocals EXCEPT !.h = m] \in Locals /\ [NoLocals EXCEPT !.h = m].h = m
  BY LocalHead DEF MaybeNode
<1>3. CASE refs[m] # locals[t].r
  <2>1. doing' = [doing EXCEPT ![t] = "reload"] /\ refs' = refs
    BY <1>0, <1>3 DEF Grab, Jump
  <2>2. ListTypeOK' /\ Remembered'
    BY <1>1, <1>2, <2>1 DEF ListInv, ListTypeOK, Remembered, Places
  <2>3. \A n \in Nodes : Same(n)
    BY <1>1, <2>1 DEF Same, Has, Clears, Pushes, Gets, Refers
  <2> QED
    BY <1>1, <2>2, <2>3, Quiet
<1>4. CASE refs[m] = locals[t].r
  <2>1. doing' = [doing EXCEPT ![t] = "next"] /\ refs' = [refs EXCEPT ![m] = @ + 1]
    BY <1>0, <1>4 DEF Grab, Jump
  <2>2. ListTypeOK' /\ Remembered'
    BY <1>1, <1>2, <2>1 DEF ListInv, ListTypeOK, Remembered, Places
  <2>3. \A n \in Nodes : n # m => Same(n)
    BY <1>0, <1>1, <2>1 DEF Same, Has, Clears, Pushes, Gets, Refers
  <2>4. \A u \in Users : /\ Refers(u, m)' <=> Refers(u, m) \/ u = t
                         /\ Pushes(u, m)' <=> Pushes(u, m)
                         /\ Gets(u, m)' <=> Gets(u, m)
                         /\ Has(u, m)' <=> Has(u, m)
                         /\ Clears(u, m)' <=> Clears(u, m)
    BY <1>0, <1>1, <2>1 DEF Has, Clears, Pushes, Gets, Refers
  <2>5. Refs(m)' = Refs(m) + 1 /\ refs'[m] = refs[m] + 1
    <3>1. ~ Refers(t, m)
      BY <1>1 DEF Refers
    <3> QED
      BY <1>1, <2>1, <2>4, <3>1, RefsMore
  <2>6. \A u \in Users : ~ Clears(u, m)
    <3>1. Count(refs[m]) # 0
      BY <1>1, <1>4 DEF ListInv, Remembered
    <3> QED
      BY <1>1, <3>1, NoCount DEF Counted
  <2>7. Sole(m)' /\ (Loose(m)' <=> Loose(m))
    BY <1>1, <2>4 DEF Sole, Loose, Answers
  <2>8. Counted(m)' /\ (m \in OnList' <=> m \in OnList)
    <3>1. Refs(m) \in Nat /\ refs[m] \in Nat
      BY <1>1, RefsBound
    <3> QED
      BY <1>1, <2>4, <2>5, <2>6, <2>7, <3>1, NoCount DEF Counted, OnList
  <2> QED
    BY <1>1, <2>2, <2>3, <2>7, <2>8, Kept
<1> QED
  BY <1>3, <1>4
\* The end of add, for the thread.
LEMMA Resumed ==
  ASSUME ListTypeOK, NEW t \in Users, Resume(t)
  PROVE  /\ doing' \in [Users -> Places] /\ locals' \in [Users -> Locals]
         /\ doing'[t] \in {"idle", "look"} /\ (doing'[t] = "look" => locals'[t].h \in Nodes)
         /\ \A u \in Users : u # t => doing'[u] = doing[u] /\ locals'[u] = locals[u]
<1>1. locals[t].s \in MaybeNode /\ doing \in [Users -> Places] /\ locals \in [Users -> Locals]
  BY DEF ListTypeOK, Locals
<1>2. CASE locals[t].s = NoNode
  <2>1. doing' = [doing EXCEPT ![t] = "idle"] /\ locals' = [locals EXCEPT ![t] = NoLocals]
    BY <1>2 DEF Resume, Leave
  <2> QED
    BY <1>1, <2>1, NoLocal DEF Places
<1>3. CASE locals[t].s # NoNode
  <2>1. doing' = [doing EXCEPT ![t] = "look"] /\ locals' = [locals EXCEPT ![t] = [NoLocals EXCEPT !.h = locals[t].s]]
    BY <1>3 DEF Resume, Jump
  <2> DEFINE x == [NoLocals EXCEPT !.h = locals[t].s]
  <2>2. x \in Locals /\ x.h = locals[t].s
    BY <1>1, LocalHead
  <2>3. locals[t].s \in Nodes
    BY <1>1, <1>3 DEF MaybeNode
  <2> HIDE DEF x
  <2> QED
    BY <1>1, <2>1, <2>2, <2>3 DEF Places, x
<1> QED
  BY <1>2, <1>3

\* after a failed push the count is put back.
LEMMA BackKeeps == ASSUME ListInv, NEW t \in Users, Back(t) PROVE ListInv'
<1>0. PICK m \in Nodes : m = locals[t].n
  BY DEF Back, ListInv, ListTypeOK
<1>1. /\ doing[t] = "back" /\ top' = top /\ link' = link /\ held' = held /\ Sole(m) /\ Counted(m)
      /\ refs' = [refs EXCEPT ![m] = @ + SHOULD_BE_ON_FREELIST - 1]
      /\ doing \in [Users -> Places] /\ locals \in [Users -> Locals] /\ refs \in [Nodes -> Nat]
      /\ Pushes(t, m)
  BY <1>0 DEF Back, ListInv, ListTypeOK, Pushes
<1>2. \A u \in Users : (u # t => ~ Answers(u, m)) /\ ~ Has(u, m)
  BY <1>1 DEF Sole, Answers
<1>3. refs[m] = 1 + Refs(m) /\ Refs(m) \in Nat /\ SHOULD_BE_ON_FREELIST \in Nat \ {0}
  BY <1>1, RefsBound, NoCount DEF Counted
<1>4. /\ refs'[m] = Refs(m) + SHOULD_BE_ON_FREELIST /\ refs' \in [Nodes -> Nat]
      /\ \A n \in Nodes : n # m => refs'[n] = refs[n]
  BY <1>1, <1>3
<1>5. /\ doing' \in [Users -> Places] /\ locals' \in [Users -> Locals]
      /\ \A u \in Users : u # t => doing'[u] = doing[u] /\ locals'[u] = locals[u]
      /\ IF refs[m] = 1 THEN doing'[t] = "link" /\ locals'[t] = locals[t]
         ELSE doing'[t] \in {"idle", "look"} /\ (doing'[t] = "look" => locals'[t].h \in Nodes)
  <2>1. CASE refs[m] = 1
    BY <1>0, <1>1, <2>1 DEF Back, Jump, Places
  <2>2. CASE refs[m] # 1
    BY <1>0, <2>2, Resumed DEF Back, ListInv
  <2> QED
    BY <2>1, <2>2
<1>6. ListTypeOK' /\ Remembered'
  BY <1>0, <1>1, <1>4, <1>5 DEF ListInv, ListTypeOK, Remembered
<1>7. \A n \in Nodes : n # m => Same(n)
  BY <1>0, <1>1, <1>4, <1>5 DEF Same, Has, Clears, Pushes, Gets, Refers
<1>8. \A u \in Users : /\ Refers(u, m)' <=> Refers(u, m)
                       /\ ~ Has(u, m)' /\ ~ Pushes(u, m)' /\ ~ Gets(u, m)'
                       /\ Clears(u, m)' <=> u = t /\ refs[m] = 1
  BY <1>0, <1>1, <1>2, <1>5 DEF Answers, Has, Clears, Pushes, Gets, Refers
<1>9. Refs(m)' = Refs(m)
  BY <1>8, RefsSame
<1>10. Sole(m)' /\ (Loose(m)' <=> refs[m] # 1)
  BY <1>8 DEF Sole, Loose, Answers
<1>11. Counted(m)'
  BY <1>3, <1>4, <1>8, <1>9, <1>10 DEF Counted
<1>12. m \notin OnList /\ m \notin OnList'
  <2>1. ~ Loose(m)
    BY <1>1 DEF Loose, Answers
  <2>2. Refs(m) # 0 => SHOULD_BE_ON_FREELIST # 1
    BY RefsBound, BitAssumption
  <2> QED
    BY <1>3, <1>4, <1>9, <1>10, <2>1, <2>2 DEF OnList
<1> QED
  BY <1>1, <1>6, <1>7, <1>10, <1>11, <1>12, Kept
\* The node is got, and two references to it are given up.
LEMMA GotKeeps == ASSUME ListInv, NEW t \in Users, Got(t) PROVE ListInv'
<1>0. PICK m \in Nodes : m = locals[t].h
  BY DEF Got, ListInv, ListTypeOK
<1>1. /\ doing[t] = "got" /\ top' = top /\ link' = link /\ Sole(m) /\ Counted(m)
      /\ held' = [held EXCEPT ![t] = @ \cup {m}] /\ refs' = [refs EXCEPT ![m] = @ - 2]
      /\ doing' = [doing EXCEPT ![t] = "idle"] /\ locals' = [locals EXCEPT ![t] = NoLocals]
      /\ held \in [Users -> SUBSET Nodes] /\ refs \in [Nodes -> Nat]
      /\ doing \in [Users -> Places] /\ locals \in [Users -> Locals]
      /\ Gets(t, m) /\ Refers(t, m)
  BY <1>0 DEF Got, Leave, ListInv, ListTypeOK, Gets, Refers
<1>2. \A u \in Users : (u # t => ~ Answers(u, m)) /\ ~ Has(u, m)
  BY <1>1 DEF Sole, Answers
<1>3. refs[m] = 1 + Refs(m) /\ Refs(m) \in Nat \ {0}
  BY <1>1, RefsBound DEF Counted
<1>4. /\ refs'[m] = Refs(m) - 1 /\ refs' \in [Nodes -> Nat]
      /\ \A n \in Nodes : n # m => refs'[n] = refs[n]
  BY <1>1, <1>3
<1>5. ListTypeOK' /\ Remembered'
  BY <1>0, <1>1, <1>4, NoLocal DEF ListInv, ListTypeOK, Remembered, Places
<1>6. \A n \in Nodes : n # m => Same(n)
  BY <1>0, <1>1, <1>4 DEF Same, Has, Clears, Pushes, Gets, Refers
<1>7. \A u \in Users : /\ Refers(u, m)' <=> Refers(u, m) /\ u # t
                       /\ ~ Clears(u, m)' /\ ~ Pushes(u, m)' /\ ~ Gets(u, m)'
                       /\ Has(u, m)' <=> u = t
  BY <1>0, <1>1, <1>2 DEF Answers, Has, Clears, Pushes, Gets, Refers
<1>8. Refs(m)' = Refs(m) - 1
  BY <1>1, <1>7, RefsLess
<1>9. Sole(m)' /\ ~ Loose(m) /\ ~ Loose(m)'
  BY <1>1, <1>7 DEF Sole, Loose, Answers
<1>10. Counted(m)'
  BY <1>4, <1>7, <1>8, <1>9 DEF Counted
<1> QED
  BY <1>1, <1>5, <1>6, <1>9, <1>10, Kept DEF OnList

\* The last one to let go of a node pushes it.
LEMMA UndoKeeps == ASSUME ListInv, NEW t \in Users, Undo(t) PROVE ListInv'
<1>0. PICK m \in Nodes : m = locals[t].h
  BY DEF Undo, ListInv, ListTypeOK
<1>1. /\ doing[t] = "undo" /\ top' = top /\ link' = link /\ held' = held /\ Sole(m) /\ Counted(m)
      /\ refs' = [refs EXCEPT ![m] = @ - 1] /\ refs \in [Nodes -> Nat]
      /\ doing \in [Users -> Places] /\ locals \in [Users -> Locals]
      /\ Refers(t, m)
  BY <1>0 DEF Undo, ListInv, ListTypeOK, Refers
<1>2. Refs(m) \in Nat \ {0} /\ Refs(m) < SHOULD_BE_ON_FREELIST /\ SHOULD_BE_ON_FREELIST \in Nat
  BY <1>1, RefsBound, BitAssumption
<1>3. \A u \in Users : ~ Clears(u, m)
  BY <1>1, <1>2 DEF Counted
<1>4. refs[m] \in {Refs(m), 1 + Refs(m), SHOULD_BE_ON_FREELIST + Refs(m)}
  BY <1>1, <1>3 DEF Counted, Loose, Answers
<1> DEFINE last == refs[m] = SHOULD_BE_ON_FREELIST + 1
<1>5. last => Loose(m) /\ Refs(m) = 1
  <2>1. ASSUME last, NEW u \in Users, Answers(u, m) PROVE FALSE
    BY <1>1, <1>2, <1>3, <2>1 DEF Counted, Answers
  <2>2. last => Loose(m)
    BY <2>1 DEF Loose
  <2> QED
    BY <1>1, <1>2, <2>2 DEF Counted
<1>6. /\ refs'[m] = refs[m] - 1 /\ refs' \in [Nodes -> Nat]
      /\ \A n \in Nodes : n # m => refs'[n] = refs[n]
  BY <1>1, <1>2, <1>4
<1>7. /\ doing' \in [Users -> Places] /\ locals' \in [Users -> Locals]
      /\ \A u \in Users : u # t => doing'[u] = doing[u] /\ locals'[u] = locals[u]
      /\ IF last THEN doing'[t] = "load" /\ locals'[t].n = m
         ELSE doing'[t] \in {"idle", "look"} /\ (doing'[t] = "look" => locals'[t].h \in Nodes)
  <2>1. CASE last
    BY <1>0, <1>1, <2>1 DEF Undo, Jump, Local, Places, Locals, MaybeNode
  <2>2. CASE ~ last
    BY <1>0, <2>2, Resumed DEF Undo, ListInv
  <2> QED
    BY <2>1, <2>2
<1>8. ListTypeOK' /\ Remembered'
  BY <1>0, <1>1, <1>6, <1>7 DEF ListInv, ListTypeOK, Remembered
<1>9. \A n \in Nodes : n # m => Same(n)
  BY <1>0, <1>1, <1>6, <1>7 DEF Same, Has, Clears, Pushes, Gets, Refers
<1>10. \A u \in Users : /\ Refers(u, m)' <=> Refers(u, m) /\ u # t
                        /\ Clears(u, m)' <=> u = t /\ last
                        /\ Pushes(u, m)' <=> Pushes(u, m)
                        /\ Gets(u, m)' <=> Gets(u, m)
                        /\ Has(u, m)' <=> Has(u, m)
  BY <1>0, <1>1, <1>3, <1>7 DEF Has, Clears, Pushes, Gets, Refers
<1>11. Refs(m)' = Refs(m) - 1
  BY <1>1, <1>10, RefsLess
<1>12. Sole(m)' /\ (Loose(m)' <=> Loose(m) /\ ~ last)
  BY <1>1, <1>3, <1>5, <1>10 DEF Sole, Loose, Answers
<1>13. last => refs'[m] = SHOULD_BE_ON_FREELIST
  BY <1>2, <1>6
<1>14. Counted(m)'
  <2>1. CASE last
    BY <1>1, <1>5, <1>10, <1>11, <1>12, <1>13, <2>1 DEF Counted, Loose, Answers
  <2>2. CASE ~ last
    BY <1>1, <1>2, <1>6, <1>10, <1>11, <1>12, <2>2 DEF Counted
  <2> QED
    BY <2>1, <2>2
<1>15. m \in OnList' <=> m \in OnList
  BY <1>1, <1>2, <1>5, <1>6, <1>11, <1>12 DEF OnList
<1> QED
  BY <1>1, <1>8, <1>9, <1>12, <1>14, <1>15, Kept
-----------------------------------------------------------------------------
(* The compare-exchanges of the head. *)

\* A node that has been pushed is first, before the one that was.
LEMMA PushKeeps == ASSUME ListInv, NEW t \in Users, Push(t) PROVE ListInv'
<1>0. PICK m \in Nodes : m = locals[t].n
  BY DEF Push, ListInv, ListTypeOK
<1>1. /\ doing[t] = "push" /\ link' = link /\ held' = held /\ refs' = refs /\ Sole(m) /\ Counted(m)
      /\ doing \in [Users -> Places] /\ locals \in [Users -> Locals] /\ link \in [Nodes -> MaybeNode]
      /\ top \in MaybeNode /\ Pushes(t, m) /\ locals[t].h = link[m]
  BY <1>0 DEF Push, ListInv, ListTypeOK, Pushes, Remembered
<1>2. CASE top # locals[t].h
  <2>1. top' = top /\ doing' = [doing EXCEPT ![t] = "back"] /\ locals' = [locals EXCEPT ![t]["h"] = top]
    BY <1>2 DEF Push, Jump, Local
  <2>2. ListTypeOK' /\ Remembered'
    BY <1>0, <1>1, <2>1 DEF ListInv, ListTypeOK, Remembered, Places, Locals
  <2>3. \A n \in Nodes : Same(n)
    BY <1>0, <1>1, <2>1 DEF Same, Has, Clears, Pushes, Gets, Refers, Locals
  <2> QED
    BY <1>1, <2>1, <2>2, <2>3, Quiet
<1>3. CASE top = locals[t].h
  <2>1. /\ top' = m
        /\ doing' \in [Users -> Places] /\ locals' \in [Users -> Locals]
        /\ doing'[t] \in {"idle", "look"} /\ (doing'[t] = "look" => locals'[t].h \in Nodes)
        /\ \A u \in Users : u # t => doing'[u] = doing[u] /\ locals'[u] = locals[u]
    BY <1>0, <1>3, Resumed DEF Push, ListInv
  <2>2. ListTypeOK' /\ Remembered'
    BY <1>0, <1>1, <2>1 DEF ListInv, ListTypeOK, Remembered, MaybeNode
  <2>3. \A n \in Nodes : n # m => Same(n)
    BY <1>0, <1>1, <2>1 DEF Same, Has, Clears, Pushes, Gets, Refers
  <2>4. \A u \in Users : /\ Refers(u, m)' <=> Refers(u, m)
                         /\ ~ Has(u, m)' /\ ~ Clears(u, m)' /\ ~ Pushes(u, m)' /\ ~ Gets(u, m)'
    BY <1>0, <1>1, <2>1 DEF Sole, Answers, Has, Clears, Pushes, Gets, Refers
  <2>5. Refs(m)' = Refs(m)
    BY <2>4, RefsSame
  <2>6. Sole(m)' /\ Loose(m)' /\ ~ Loose(m)
    BY <1>1, <2>4 DEF Sole, Loose, Answers
  <2>7. Counted(m)' /\ refs'[m] = 1 + Refs(m)'
    BY <1>1, <2>4, <2>5 DEF Counted
  <2>8. (\A n \in Nodes : Sole(n) /\ Counted(n))'
    BY <2>3, <2>6, <2>7, Moved
  <2>9. OnList' = OnList \cup {m} /\ m \notin OnList
    <3>1. \A n \in Nodes : n # m => (n \in OnList' <=> n \in OnList)
      BY <2>3, <2>6, <2>7, Moved
    <3>2. m \in OnList' /\ m \notin OnList
      BY <2>6, <2>7 DEF OnList
    <3> QED
      BY <3>1, <3>2 DEF OnList
  <2>10. top \in OnList \cup {NoNode} /\ link[m] = top /\ OnList \subseteq Nodes /\ m # NoNode
    BY <1>1, <1>3, BitAssumption DEF ListInv, Linked, Closed, OnList
  <2>11. Linked'
    BY <1>1, <2>1, <2>9, <2>10 DEF ListInv, Linked, Closed
  <2>12. Reached'
    <3>1. ASSUME NEW S \in SUBSET Nodes, Closed(S)' PROVE OnList \cup {m} \subseteq S
      <4>1. m \in S /\ Closed(S)
        BY <1>1, <2>1, <2>10, <3>1 DEF Closed
      <4> QED
        BY <4>1 DEF ListInv, Reached
    <3> QED
      BY <2>9, <3>1 DEF Reached
  <2> QED
    BY <2>2, <2>8, <2>11, <2>12 DEF ListInv
<1> QED
  BY <1>2, <1>3

\* The link that is the new head is the one the node has.
LEMMA PopKeeps == ASSUME ListInv, NEW t \in Users, Pop(t) PROVE ListInv'
<1>0. PICK m \in Nodes : m = locals[t].h
  BY DEF Pop, ListInv, ListTypeOK
<1>1. /\ doing[t] = "pop" /\ link' = link /\ held' = held /\ refs' = refs /\ Sole(m) /\ Counted(m)
      /\ doing \in [Users -> Places] /\ locals \in [Users -> Locals] /\ link \in [Nodes -> MaybeNode]
      /\ top \in MaybeNode /\ locals[t].n = link[m]
  BY <1>0 DEF Pop, ListInv, ListTypeOK, Remembered
<1>2. CASE top # m
  <2>1. top' = top /\ doing' = [doing EXCEPT ![t] = "undo"] /\ locals' = [locals EXCEPT ![t]["s"] = top]
    BY <1>0, <1>2 DEF Pop, Jump, Local
  <2>2. ListTypeOK' /\ Remembered'
    BY <1>0, <1>1, <2>1 DEF ListInv, ListTypeOK, Remembered, Places, Locals
  <2>3. \A n \in Nodes : Same(n)
    BY <1>0, <1>1, <2>1 DEF Same, Has, Clears, Pushes, Gets, Refers, Locals
  <2> QED
    BY <1>1, <2>1, <2>2, <2>3, Quiet
<1>3. CASE top = m
  <2>1. top' = link[m] /\ doing' = [doing EXCEPT ![t] = "got"] /\ locals' = locals
    BY <1>0, <1>1, <1>3 DEF Pop, Jump
  <2>2. ListTypeOK' /\ Remembered'
    BY <1>0, <1>1, <2>1 DEF ListInv, ListTypeOK, Remembered, Places
  <2>3. \A n \in Nodes : n # m => Same(n)
    BY <1>0, <1>1, <2>1 DEF Same, Has, Clears, Pushes, Gets, Refers
  <2>4. m # NoNode /\ m \in OnList /\ OnList \subseteq Nodes
    BY <1>3, BitAssumption DEF ListInv, Linked, Closed, OnList
  <2>5. Loose(m) /\ refs[m] = 1 + Refs(m)
    BY <2>4 DEF OnList
  <2>6. \A u \in Users : /\ Refers(u, m)' <=> Refers(u, m)
                         /\ Gets(u, m)' <=> u = t
                         /\ ~ Has(u, m)' /\ ~ Clears(u, m)' /\ ~ Pushes(u, m)'
    BY <1>0, <1>1, <2>1, <2>5 DEF Loose, Answers, Has, Clears, Pushes, Gets, Refers
  <2>7. Refs(m)' = Refs(m)
    BY <2>6, RefsSame
  <2>8. Sole(m)' /\ ~ Loose(m)'
    BY <2>6 DEF Sole, Loose, Answers
  <2>9. Counted(m)'
    BY <1>1, <2>5, <2>6, <2>7, <2>8 DEF Counted
  <2>10. (\A n \in Nodes : Sole(n) /\ Counted(n))'
    BY <2>3, <2>8, <2>9, Moved
  <2>11. OnList' = OnList \ {m}
    <3>1. \A n \in Nodes : n # m => (n \in OnList' <=> n \in OnList)
      BY <2>3, <2>8, <2>9, Moved
    <3>2. m \notin OnList'
      BY <2>8 DEF OnList
    <3> QED
      BY <3>1, <3>2 DEF OnList
  <2>12. \A n \in OnList : link[n] # m
    BY <1>3, <2>4 DEF ListInv, Linked
  <2>13. Linked'
    BY <1>1, <1>3, <2>1, <2>4, <2>11, <2>12 DEF ListInv, Linked, Closed
  <2>14. Reached'
    <3>1. ASSUME NEW S \in SUBSET Nodes, Closed(S)' PROVE OnList \ {m} \subseteq S
      <4>1. Closed(S \cup {m})
        BY <1>1, <1>3, <2>1, <3>1 DEF Closed
      <4>2. S \cup {m} \in SUBSET Nodes
        OBVIOUS
      <4>3. OnList \subseteq S \cup {m}
        BY <4>1, <4>2 DEF ListInv, Reached
      <4> QED
        BY <4>3
    <3> QED
      BY <2>11, <3>1 DEF Reached
  <2> QED
    BY <2>2, <2>10, <2>13, <2>14 DEF ListInv
<1> QED
  BY <1>2, <1>3

-----------------------------------------------------------------------------
\* The strengthening is inductive.
LEMMA ListStays == ListInv /\ [ListNext]_flvars => ListInv'
<1> SUFFICES ASSUME ListInv, [ListNext]_flvars PROVE ListInv'
  OBVIOUS
<1>1. ASSUME UNCHANGED flvars PROVE ListInv'
  <2>1. ListTypeOK' /\ Remembered'
    BY <1>1 DEF ListInv, ListTypeOK, Remembered, flvars
  <2>2. \A n \in Nodes : Same(n)
    BY <1>1 DEF Same, Has, Clears, Pushes, Gets, Refers, flvars
  <2> QED
    BY <1>1, <2>1, <2>2, Quiet DEF flvars
<1>2. ASSUME NEW t \in Users, Step(t) PROVE ListInv'
  BY <1>2, LoadTopKeeps, LinkKeeps, SetRefKeeps, PushKeeps, BackKeeps, LookKeeps, GrabKeeps,
     NextKeeps, PopKeeps, GotKeeps, UndoKeeps DEF Step
<1> QED
  BY <1>1, <1>2, TryGetKeeps, AddKeeps DEF ListNext

\* It holds in every behaviour of the free list.
LEMMA ListAlways == ListSpec => []ListInv
<1>1. ListInit => ListInv
  BY ListStarts
<1>2. ListInv /\ [ListNext]_flvars => ListInv'
  BY ListStays
<1> QED
  BY <1>1, <1>2, PTL DEF ListSpec

\* What is found from the head on is what the invariant says of the list.
LEMMA ListedIs == ListInv => Listed = OnList
  BY DEF ListInv, Linked, Reached, Listed, OnList

(* A node is taken by one thread at a time, and by none while it can be    *)
(* found on the list: that the link a thread has read may be stale when it *)
(* pops the node hurts nobody, because the node is not pushed as long as   *)
(* the thread refers to it.                                                *)
THEOREM OneTaker == ListSpec => []OneOwner
<1>1. ListInv => OneOwner
  <2> SUFFICES ASSUME ListInv PROVE OneOwner
    OBVIOUS
  <2>1. \A t \in Users : \A n \in Owned(t) : n \in Nodes /\ (Has(t, n) \/ Gets(t, n))
    BY DEF Owned, Has, Gets, ListInv, ListTypeOK
  <2>2. \A t \in Users : \A n \in Owned(t) : n \in Nodes /\ Answers(t, n) /\ n \notin Listed
    BY <2>1, ListedIs DEF Answers, OnList, Loose
  <2> QED
    BY <2>2 DEF OneOwner, ListInv, Sole
<1> QED
  BY <1>1, ListAlways, PTL

(* When no thread is in add or try_get, every node that none has taken can *)
(* be found on the list: whoever was left to push it has done so.          *)
THEOREM NothingLost == ListSpec => []NoneLost
<1>1. ListInv => NoneLost
  <2> SUFFICES ASSUME ListInv, \A t \in Users : doing[t] = "idle"
               PROVE  Listed = Nodes \ UNION {held[t] : t \in Users}
    BY DEF NoneLost
  <2>1. \A n \in Nodes, t \in Users : ~ Refers(t, n) /\ (Answers(t, n) <=> n \in held[t])
    BY DEF Refers, Answers, Has, Clears, Pushes, Gets
  <2>2. \A n \in Nodes : Refs(n) = 0
    BY <2>1, RefsBound
  <2>3. \A n \in Nodes : n \in OnList <=> \A t \in Users : n \notin held[t]
    BY <2>1, <2>2 DEF OnList, Loose, ListInv, Counted
  <2>4. \A n : n \in Listed <=> n \in Nodes /\ \A t \in Users : n \notin held[t]
    BY <2>3, ListedIs DEF OnList
  <2> QED
    BY <2>4
<1> QED
  BY <1>1, ListAlways, PTL

-----------------------------------------------------------------------------
(* The claims of consumers.  A consumer that has claimed, and not yet      *)
(* looked at the tail again, stands in line behind those that claimed      *)
(* before it.  Whoever finds an item there has the line up to itself       *)
(* covered: the tail is past all they can find.  The others, behind the    *)
(* cut, know where their claims would begin if all before them failed as   *)
(* far as was known when they looked; and that is not too early.           *)

\* What a consumer has claimed in vain and not yet settled, or still hopes for.
Vain(c)        == IF at[c] = "settle" THEN my[c].extra ELSE 0
Hope(c, R, j)  == IF at[c] = "check" /\ R[c] < j THEN my[c].n ELSE 0
AllVain        == Total([c \in Consumers |-> Vain(c)])
Before(R, j)   == Total([c \in Consumers |-> Hope(c, R, j)])

ClaimTypes ==
  /\ setup \in Setups /\ tail \in Nat /\ head \in Nat /\ opt \in Nat /\ over \in Nat
  /\ at = [c \in Consumers |-> at[c]] /\ my = [c \in Consumers |-> my[c]]
  /\ pc \notin {"idle", "gone"} => "n" \in DOMAIN job /\ job.n \in Nat
  /\ \A c \in Consumers :
       /\ at[c] = "call" => my[c].want \in Nat /\ my[c].tail \in Nat
       /\ at[c] = "look" => my[c].want \in Nat /\ my[c].tail \in Nat /\ my[c].over \in Nat
       /\ at[c] = "claim" => my[c].n \in Nat /\ my[c].over \in Nat
       /\ at[c] = "check" => my[c].n \in Nat /\ my[c].first \in Nat
       /\ at[c] = "settle" => my[c].n \in Nat /\ my[c].extra \in Nat
       /\ at[c] = "take" => my[c].n \in Nat

\* R is the line, m its end and k the cut; F is where the claims would begin.
InLine(R, F, k, m) ==
  /\ k <= m
  /\ \A c \in Consumers : at[c] = "check" => R[c] < m
  /\ \A c, d \in Consumers : at[c] = "check" /\ at[d] = "check" /\ R[c] = R[d] => c = d
  /\ AllClaimed = AllSure + AllVain + Before(R, m)
  /\ head + AllSure + Before(R, k) <= tail
  /\ \A c \in Consumers : at[c] = "check" /\ R[c] >= k =>
       /\ head + AllSure + Before(R, R[c]) <= F[c] /\ F[c] <= tail + Wrap \div 2
       /\ my[c].first = W(F[c])

Balanced == W(opt - over) = W(head + AllClaimed)
Lined    == \E R, F \in [Consumers -> Nat], k, m \in Nat : InLine(R, F, k, m)
ClaimInv == ClaimTypes /\ Balanced /\ Lined

-----------------------------------------------------------------------------
(* Words and sums *)

\* Equal remainders stay equal.
LEMMA Shift ==
  ASSUME NEW n \in Nat \ {0}, NEW x \in Int, NEW y \in Int, NEW z \in Int, x % n = y % n
  PROVE  (x + z) % n = (y + z) % n
<1>1. ((x % n) + z) % n = (x + z) % n
  BY ONLY n \in Nat \ {0}, x \in Int, z \in Int, RoundOn
<1>2. ((y % n) + z) % n = (y + z) % n
  BY ONLY n \in Nat \ {0}, y \in Int, z \in Int, RoundOn
<1> QED
  BY <1>1, <1>2

\* A remainder may be subtracted in place of the number.
LEMMA LessRound ==
  ASSUME NEW n \in Nat \ {0}, NEW x \in Int, NEW y \in Int
  PROVE  (x - (y % n)) % n = (x - y) % n
<1>1. PICK a \in Int, b \in Int : a = y % n /\ b = 0 - a /\ x - a = x + b
  OBVIOUS
<1>2. ((x % n) + b) % n = (x + b) % n
  BY ONLY n \in Nat \ {0}, x \in Int, b \in Int, RoundOn
<1>3. ((x % n) - (y % n)) % n = (x - y) % n
  BY ONLY n \in Nat \ {0}, x \in Int, y \in Int, StepsOn
<1>4. PICK c \in Int : c = x % n /\ c - a = c + b
  BY <1>1
<1> QED
  BY <1>1, <1>2, <1>3, <1>4

\* The distance that a word shows to be ahead is the distance.
LEMMA ThereIs ==
  ASSUME NEW w \in Nat \ {0}, NEW t \in Nat, NEW f \in Nat, NEW x,
         x = (t - (f % w)) % w, (0 - x) % w > w \div 2, t - f < w, f <= t + w \div 2
  PROVE  x = t - f
<1>1. PICK h \in Nat : h = w \div 2 /\ h < w
  OBVIOUS
<1>2. PICK d \in Int : d = t - f
  OBVIOUS
<1>3. x = d % w
  <2>1. (t - (f % w)) % w = (t - f) % w
    <3>1. t \in Int /\ f \in Int
      OBVIOUS
    <3> QED
      BY ONLY <3>1, w \in Nat \ {0}, LessRound
  <2> QED
    BY <1>2, <2>1
<1>4. CASE d <= 0
  <2>1. PICK e \in 0 .. w - 1 : e = 0 - d /\ e <= h
    BY <1>1, <1>2, <1>4
  <2>2. (0 - (d % w)) % w = (0 - d) % w
    BY ONLY w \in Nat \ {0}, d \in Int, 0 \in Int, LessRound
  <2>3. e % w = e
    BY ONLY w \in Nat \ {0}, e \in 0 .. w - 1
  <2>4. (0 - x) % w = e
    BY <1>3, <2>1, <2>2, <2>3
  <2> QED
    BY <1>1, <2>1, <2>4
<1>5. CASE d > 0
  <2>1. d \in 0 .. w - 1
    BY <1>2, <1>5
  <2>2. d % w = d
    BY ONLY <2>1, w \in Nat \ {0}
  <2> QED
    BY <1>2, <1>3, <2>2
<1> QED
  BY <1>2, <1>4, <1>5

\* The units of a function on a finite set are finitely many.
LEMMA UnitsFinite ==
  ASSUME NEW S, IsFiniteSet(S), NEW f \in [S -> Nat]
  PROVE  IsFiniteSet(Units(f)) /\ Total(f) \in Nat
<1> DEFINE g == [t \in S |-> {t} \X (1 .. f[t])]
           T == {g[t] : t \in S}
<1>1. g \in Surjection(S, T)
  BY DEF Surjection
<1>2. IsFiniteSet(T)
  BY <1>1, FS_Surjection
<1>3. \A t \in S : IsFiniteSet({t} \X (1 .. f[t]))
  <2> SUFFICES ASSUME NEW t \in S PROVE IsFiniteSet({t} \X (1 .. f[t]))
    OBVIOUS
  <2>1. PICK n \in Nat : n = f[t]
    OBVIOUS
  <2> QED
    BY <2>1, Column
<1>4. \A C \in T : IsFiniteSet(C)
  BY <1>3
<1>5. IsFiniteSet(UNION T)
  BY <1>2, <1>4, FS_UNION
<1>6. Units(f) = UNION T
  BY DEF Units
<1> QED
  BY <1>5, <1>6, FS_CardinalityType DEF Total

\* What the assumption says of the queue at hand.
LEMMA Setup ==
  ASSUME ClaimTypes
  PROVE  /\ Wrap \in Nat \ {0} /\ IsFiniteSet(Consumers)
         /\ setup.wants \subseteq Nat /\ setup.bulks \subseteq Nat
<1>1. setup.wrap \in Nat \ {0} /\ setup.callers \in Nat /\ setup.wants \cup setup.bulks \subseteq Nat
  BY SetupsAssumption DEF ClaimTypes
<1>2. IsFiniteSet(1 .. setup.callers)
  BY <1>1, FS_Interval
<1> QED
  BY <1>1, <1>2 DEF Wrap, Consumers

\* The sums are numbers.
LEMMA Summands ==
  ASSUME ClaimTypes, NEW R \in [Consumers -> Nat], NEW j \in Nat
  PROVE  /\ [c \in Consumers |-> Claimed(c)] \in [Consumers -> Nat]
         /\ [c \in Consumers |-> Sure(c)] \in [Consumers -> Nat]
         /\ [c \in Consumers |-> Vain(c)] \in [Consumers -> Nat]
         /\ [c \in Consumers |-> Hope(c, R, j)] \in [Consumers -> Nat]
  BY DEF ClaimTypes, Claimed, Sure, Vain, Hope

LEMMA SumsAre ==
  ASSUME ClaimTypes, NEW R \in [Consumers -> Nat], NEW j \in Nat
  PROVE  AllClaimed \in Nat /\ AllSure \in Nat /\ AllVain \in Nat /\ Before(R, j) \in Nat
  BY Setup, Summands, UnitsFinite DEF AllClaimed, AllSure, AllVain, Before

\* One consumer moves, and the sums with it; what it hopes for may also change
\* with its place in the line.
Moves(c) ==
  /\ setup' = setup
  /\ \A u \in Consumers : u # c => at'[u] = at[u] /\ my'[u] = my[u]
OthersStand(R, j, Q, i, c) ==   \* nobody else comes to stand before i who did not before j
  \A u \in Consumers : u # c /\ at[u] = "check" => (R[u] < j <=> Q[u] < i)

\* On a finite set, a function that changes at one place changes its sum by as much.
LEMMA OneChange ==
  ASSUME NEW S, IsFiniteSet(S), NEW c \in S, NEW a \in [S -> Nat], NEW b \in [S -> Nat],
         \A u \in S : u # c => b[u] = a[u]
  PROVE  Total(b) = Total(a) + b[c] - a[c]
<1>1. IsFiniteSet(Units(a))
  BY UnitsFinite
<1> QED
  BY <1>1, TotalChange

LEMMA SumsMove ==
  ASSUME ClaimTypes, ClaimTypes', NEW c \in Consumers, Moves(c)
  PROVE  /\ AllClaimed' = AllClaimed + Claimed(c)' - Claimed(c)
         /\ AllSure' = AllSure + Sure(c)' - Sure(c)
         /\ AllVain' = AllVain + Vain(c)' - Vain(c)
<1>1. Consumers' = Consumers
  BY DEF Moves, Consumers
<1>2. PICK f \in [Consumers -> Nat], g \in [Consumers -> Nat] :
        f = [u \in Consumers |-> Claimed(u)] /\ g = [u \in Consumers |-> Claimed(u)']
  <2>1. [u \in Consumers |-> Claimed(u)] \in [Consumers -> Nat]
    BY DEF ClaimTypes, Claimed
  <2>2. [u \in Consumers |-> Claimed(u)'] \in [Consumers -> Nat]
    BY <1>1 DEF ClaimTypes, Claimed
  <2> QED
    BY <2>1, <2>2
<1>3. PICK p \in [Consumers -> Nat], q \in [Consumers -> Nat] :
        p = [u \in Consumers |-> Sure(u)] /\ q = [u \in Consumers |-> Sure(u)']
  <2>1. [u \in Consumers |-> Sure(u)] \in [Consumers -> Nat]
    BY DEF ClaimTypes, Sure
  <2>2. [u \in Consumers |-> Sure(u)'] \in [Consumers -> Nat]
    BY <1>1 DEF ClaimTypes, Sure
  <2> QED
    BY <2>1, <2>2
<1>4. PICK v \in [Consumers -> Nat], w \in [Consumers -> Nat] :
        v = [u \in Consumers |-> Vain(u)] /\ w = [u \in Consumers |-> Vain(u)']
  <2>1. [u \in Consumers |-> Vain(u)] \in [Consumers -> Nat]
    BY DEF ClaimTypes, Vain
  <2>2. [u \in Consumers |-> Vain(u)'] \in [Consumers -> Nat]
    BY <1>1 DEF ClaimTypes, Vain
  <2> QED
    BY <2>1, <2>2
<1>5. \A u \in Consumers : u # c => g[u] = f[u]
  BY <1>2 DEF Moves, Claimed
<1>6. \A u \in Consumers : u # c => q[u] = p[u]
  BY <1>3 DEF Moves, Sure
<1>7. \A u \in Consumers : u # c => w[u] = v[u]
  BY <1>4 DEF Moves, Vain
<1>8. IsFiniteSet(Consumers)
  BY Setup
<1>9. Total(g) = Total(f) + g[c] - f[c]
  BY ONLY <1>5, <1>8, c \in Consumers, f \in [Consumers -> Nat], g \in [Consumers -> Nat], OneChange
<1>10. Total(q) = Total(p) + q[c] - p[c]
  BY ONLY <1>6, <1>8, c \in Consumers, p \in [Consumers -> Nat], q \in [Consumers -> Nat], OneChange
<1>11. Total(w) = Total(v) + w[c] - v[c]
  BY ONLY <1>7, <1>8, c \in Consumers, v \in [Consumers -> Nat], w \in [Consumers -> Nat], OneChange
<1>12. AllClaimed' = AllClaimed + Claimed(c)' - Claimed(c)
  BY <1>1, <1>2, <1>9 DEF AllClaimed
<1>13. AllSure' = AllSure + Sure(c)' - Sure(c)
  BY <1>1, <1>3, <1>10 DEF AllSure
<1> QED
  BY <1>1, <1>4, <1>11, <1>12, <1>13 DEF AllVain

LEMMA BeforeMoves ==
  ASSUME ClaimTypes, ClaimTypes', NEW c \in Consumers, Moves(c),
         NEW R \in [Consumers -> Nat], NEW Q \in [Consumers -> Nat], NEW j \in Nat, NEW i \in Nat,
         OthersStand(R, j, Q, i, c)
  PROVE  Before(Q, i)' = Before(R, j) + Hope(c, Q, i)' - Hope(c, R, j)
<1>1. Consumers' = Consumers
  BY DEF Moves, Consumers
<1>2. PICK f \in [Consumers -> Nat], g \in [Consumers -> Nat] :
        f = [u \in Consumers |-> Hope(u, R, j)] /\ g = [u \in Consumers |-> Hope(u, Q, i)']
  BY <1>1 DEF ClaimTypes, Hope
<1>3. \A u \in Consumers : u # c => g[u] = f[u]
  BY <1>2 DEF Moves, OthersStand, Hope
<1>4. IsFiniteSet(Consumers)
  BY Setup
<1>5. Total(g) = Total(f) + g[c] - f[c]
  BY ONLY <1>3, <1>4, c \in Consumers, f \in [Consumers -> Nat], g \in [Consumers -> Nat], OneChange
<1> QED
  BY <1>1, <1>2, <1>5 DEF Before

-----------------------------------------------------------------------------
(* The producer *)

\* The producer adds items at the end, and touches nothing of the consumers'.
Produced ==
  /\ UNCHANGED <<setup, head, theirs>> /\ tail' \in Nat /\ tail <= tail'
  /\ pc' \notin {"idle", "gone"} => "n" \in DOMAIN job' /\ job'.n \in Nat

LEMMA ExplicitProduces == ASSUME ClaimTypes, ProduceExplicit PROVE Produced
<1> USE DEF Produced, ClaimTypes
<1>1. CASE Enqueue
  BY <1>1 DEF Enqueue, Idle, One
<1>2. CASE EnqueueReuse
  BY <1>2 DEF EnqueueReuse, Idle, One
<1>9. CASE EnqueueBlock
  BY <1>9 DEF EnqueueBlock, One
<1>10. CASE EnqueueGrow
  <2>1. PICK m : job' = [n |-> 1, todo |-> 0, first |-> 0, canAlloc |-> m]
    BY <1>10 DEF EnqueueGrow
  <2> QED
    BY <1>10, <2>1 DEF EnqueueGrow
<1>3. CASE EnqueueRefused \/ AddEntry \/ SetFront
  BY <1>3 DEF EnqueueRefused, AddEntry, SetFront
<1>4. CASE BulkEnqueue
  BY <1>4, Setup DEF BulkEnqueue, Idle
<1>5. CASE BulkReuse
  BY <1>5 DEF BulkReuse, MoreAhead, NextJob
<1>6. CASE BulkNoRoom \/ BulkNoBlock
  BY <1>6 DEF BulkNoRoom, BulkNoBlock, UndoTo
<1>7. CASE BulkBlock
  BY <1>7 DEF BulkBlock, MoreNew, NextJob
<1>8. CASE BulkReset \/ BulkFill \/ BulkFront
  BY <1>8 DEF BulkReset, BulkFill, BulkFront, UndoTo
<1> QED
  BY <1>1, <1>2, <1>3, <1>4, <1>5, <1>6, <1>7, <1>8, <1>9, <1>10 DEF ProduceExplicit

LEMMA ImplicitProduces == ASSUME ClaimTypes, ProduceImplicit PROVE Produced
<1> USE DEF Produced, ClaimTypes
<1>1. CASE Put
  BY <1>1 DEF Put, Begin
<1>2. CASE PutEntry
  BY <1>2 DEF PutEntry, Begin
<1>3. CASE PutNoBlock \/ PutThrow \/ PutBlock
  BY <1>3 DEF PutNoBlock, PutThrow, PutBlock, Stop
<1>4. CASE PutBulk
  BY <1>4, Setup DEF PutBulk, Begin
<1>5. CASE BulkNoEntry \/ ChainNoBlock
  BY <1>5 DEF BulkNoEntry, ChainNoBlock, GiveUpBulk, Stop
<1>6. CASE BulkEntry
  BY <1>6 DEF BulkEntry
<1>7. CASE ChainBlock
  BY <1>7 DEF ChainBlock
<1>8. CASE BulkItems
  BY <1>8 DEF BulkItems, GiveUpBulk, Stop
<1> QED
  BY <1>1, <1>2, <1>3, <1>4, <1>5, <1>6, <1>7, <1>8 DEF ProduceImplicit

LEMMA Produces == ASSUME ClaimTypes, Produce \/ Destroy PROVE Produced
<1>1. CASE Publish
  BY <1>1 DEF Publish, Produced, ClaimTypes
<1>2. CASE DestroyExplicit \/ DestroyImplicit
  BY <1>2 DEF DestroyExplicit, DestroyImplicit, Produced, ClaimTypes
<1> QED
  BY <1>1, <1>2, ExplicitProduces, ImplicitProduces DEF Produce, Destroy

\* So the claims stand as they stood, with more to find.
LEMMA ProducedClaims == ASSUME ClaimInv, Produced PROVE ClaimInv'
<1> USE DEF Produced, theirs
<1>1. Consumers' = Consumers /\ Wrap' = Wrap
  BY DEF Consumers, Wrap
<1>2. AllClaimed' = AllClaimed /\ AllSure' = AllSure /\ AllVain' = AllVain
  BY <1>1 DEF AllClaimed, AllSure, AllVain, Claimed, Sure, Vain
<1>3. \A R, j : Before(R, j)' = Before(R, j)
  BY <1>1 DEF Before, Hope
<1>4. ClaimTypes'
  BY <1>1 DEF ClaimInv, ClaimTypes
<1>5. Balanced'
  BY <1>1, <1>2 DEF ClaimInv, Balanced, W
<1>6. PICK R \in [Consumers -> Nat], F \in [Consumers -> Nat], k \in Nat, m \in Nat : InLine(R, F, k, m)
  BY DEF ClaimInv, Lined
<1>7. InLine(R, F, k, m)'
  <2>1. tail \in Nat /\ tail' \in Nat /\ head \in Nat
    BY DEF ClaimInv, ClaimTypes
  <2>2. AllSure \in Nat /\ Before(R, k) \in Nat /\ Wrap \in Nat \ {0}
    BY SumsAre, Setup DEF ClaimInv
  <2>3. PICK h \in Nat : h = Wrap \div 2
    BY <2>2
  <2>4. head + AllSure + Before(R, k) <= tail'
    BY <1>6, <2>1, <2>2 DEF InLine
  <2>5. \A c \in Consumers : F[c] <= tail + h => F[c] <= tail' + h
    BY <2>1
  <2> QED
    BY <1>1, <1>2, <1>3, <1>6, <2>3, <2>4, <2>5 DEF InLine, W
<1> QED
  BY <1>1, <1>4, <1>5, <1>6, <1>7 DEF ClaimInv, Lined

-----------------------------------------------------------------------------
(* The consumers *)

\* A consumer that has no claim, and makes none, leaves the line as it is.
LEMMA StandsAside ==
  ASSUME ClaimInv, ClaimTypes', NEW c \in Consumers, Moves(c), UNCHANGED <<tail, head, opt, over>>,
         at[c] \notin {"check", "settle", "take"}, at'[c] \notin {"check", "settle", "take"}
  PROVE  ClaimInv'
<1>1. Consumers' = Consumers /\ Wrap' = Wrap
  BY DEF Consumers, Wrap, Moves
<1>2. Claimed(c) = 0 /\ Claimed(c)' = 0 /\ Sure(c) = 0 /\ Sure(c)' = 0 /\ Vain(c) = 0 /\ Vain(c)' = 0
  BY DEF Claimed, Sure, Vain
<1>3. \A R, j : Hope(c, R, j) = 0 /\ Hope(c, R, j)' = 0
  BY DEF Hope
<1>4. PICK R \in [Consumers -> Nat], F \in [Consumers -> Nat], k \in Nat, m \in Nat : InLine(R, F, k, m)
  BY DEF ClaimInv, Lined
<1>5. AllClaimed \in Nat /\ AllSure \in Nat /\ AllVain \in Nat /\ \A j \in Nat : Before(R, j) \in Nat
  BY SumsAre DEF ClaimInv
<1>6. AllClaimed' = AllClaimed /\ AllSure' = AllSure /\ AllVain' = AllVain
  BY <1>2, <1>5, SumsMove DEF ClaimInv
<1>7. \A j \in Nat : Before(R, j)' = Before(R, j)
  <2> SUFFICES ASSUME NEW j \in Nat PROVE Before(R, j)' = Before(R, j)
    OBVIOUS
  <2>1. OthersStand(R, j, R, j, c)
    BY DEF OthersStand
  <2>2. Before(R, j)' = Before(R, j) + Hope(c, R, j)' - Hope(c, R, j)
    BY <2>1, BeforeMoves DEF ClaimInv
  <2> QED
    BY <1>3, <1>5, <2>2
<1>8. \A u \in Consumers : at'[u] = "check" => at[u] = "check" /\ my'[u] = my[u]
  BY DEF Moves
<1>9. Balanced'
  BY <1>1, <1>6 DEF ClaimInv, Balanced, W
<1>10. InLine(R, F, k, m)'
  BY <1>1, <1>4, <1>6, <1>7, <1>8 DEF InLine, W
<1> QED
  BY <1>1, <1>4, <1>9, <1>10 DEF ClaimInv, Lined

\* One that settles takes what it claimed in vain off both sides, ...
LEMMA Settles == ASSUME ClaimInv, NEW c \in Consumers, Settle(c) PROVE ClaimInv'
<1> USE DEF Shared, Go, Done
<1>1. Consumers' = Consumers /\ Wrap' = Wrap
  BY DEF Consumers, Wrap, Settle
<1>2. ClaimTypes /\ my[c].n \in Nat /\ my[c].extra \in Nat /\ at[c] = "settle" /\ Wrap \in Nat \ {0}
      /\ over \in Nat /\ opt \in Nat /\ head \in Nat
  BY Setup DEF Settle, ClaimInv, ClaimTypes
<1>3. UNCHANGED <<setup, tail, head, opt, pc, job>> /\ over' = W(over + my[c].extra)
  BY DEF Settle
<1>4. ~ (at'[c] \in {"check", "settle"}) /\ Moves(c)
      /\ (my[c].n = 0 => at'[c] = "idle") /\ (my[c].n # 0 => at'[c] = "take" /\ my'[c] = my[c])
  BY <1>2 DEF Settle, ClaimTypes, Moves
<1>5. ClaimTypes'
  <2>1. over' \in Nat
    BY <1>2, <1>3 DEF W
  <2>2. at' = [u \in Consumers |-> at'[u]] /\ my' = [u \in Consumers |-> my'[u]]
    BY <1>2 DEF Settle, ClaimTypes
  <2> QED
    BY <1>1, <1>2, <1>3, <1>4, <2>1, <2>2 DEF ClaimTypes, Moves
<1>6. PICK e \in Nat : e = my[c].extra
  BY <1>2
<1>7. Claimed(c)' = Claimed(c) - e /\ Sure(c)' = Sure(c) /\ Vain(c)' = Vain(c) - e
  BY <1>2, <1>4, <1>6 DEF Claimed, Sure, Vain
<1>8. \A R, j : Hope(c, R, j) = 0 /\ Hope(c, R, j)' = 0
  BY <1>2, <1>4 DEF Hope
<1>9. PICK R \in [Consumers -> Nat], F \in [Consumers -> Nat], k \in Nat, m \in Nat : InLine(R, F, k, m)
  BY DEF ClaimInv, Lined
<1>10. AllClaimed \in Nat /\ AllSure \in Nat /\ AllVain \in Nat /\ \A j \in Nat : Before(R, j) \in Nat
  BY SumsAre DEF ClaimInv
<1>11. AllClaimed' = AllClaimed - e /\ AllSure' = AllSure /\ AllVain' = AllVain - e
  <2>1. Claimed(c) \in Nat /\ Sure(c) \in Nat /\ Vain(c) \in Nat
    BY <1>2 DEF Claimed, Sure, Vain
  <2> QED
    BY <1>2, <1>4, <1>5, <1>7, <1>10, <2>1, SumsMove
<1>12. \A j \in Nat : Before(R, j)' = Before(R, j)
  <2> SUFFICES ASSUME NEW j \in Nat PROVE Before(R, j)' = Before(R, j)
    OBVIOUS
  <2>1. OthersStand(R, j, R, j, c)
    BY DEF OthersStand
  <2>2. Before(R, j)' = Before(R, j) + Hope(c, R, j)' - Hope(c, R, j)
    BY <1>2, <1>4, <1>5, <2>1, BeforeMoves
  <2> QED
    BY <1>8, <1>10, <2>2
<1>13. \A u \in Consumers : at'[u] = "check" => at[u] = "check" /\ my'[u] = my[u]
  BY <1>4 DEF Moves
<1>14. Balanced'
  <2>1. PICK x \in Int, y \in Int, z \in Int, v \in Int :
          x = opt - over /\ y = head + AllClaimed /\ z = 0 - e /\ v = over + e
    BY <1>2, <1>10
  <2>2. x % Wrap = y % Wrap
    BY <2>1 DEF ClaimInv, Balanced, W
  <2>3. (x + z) % Wrap = (y + z) % Wrap
    BY ONLY <1>2, <2>2, x \in Int, y \in Int, z \in Int, Shift
  <2>4. PICK o \in Int : o = opt
    BY <1>2
  <2>5. (o - (v % Wrap)) % Wrap = (o - v) % Wrap
    BY ONLY <1>2, o \in Int, v \in Int, LessRound
  <2>6. opt' - over' = o - (v % Wrap) /\ o - v = x + z /\ head' + AllClaimed' = y + z
    BY <1>2, <1>3, <1>6, <1>10, <1>11, <2>1, <2>4 DEF W
  <2> QED
    BY <1>1, <2>3, <2>5, <2>6 DEF Balanced, W
<1>15. InLine(R, F, k, m)'
  <2>1. AllClaimed' = AllSure' + AllVain' + Before(R, m)
    BY <1>9, <1>10, <1>11 DEF InLine
  <2> QED
    BY <1>1, <1>3, <1>9, <1>11, <1>12, <1>13, <2>1 DEF InLine, W
<1> QED
  BY <1>1, <1>5, <1>9, <1>14, <1>15 DEF ClaimInv, Lined

\* ... and one that takes its items moves the head by as much as it was sure of.
LEMMA Takes == ASSUME ClaimInv, NEW c \in Consumers, Take(c) PROVE ClaimInv'
<1> USE DEF Shared, Go, Fields
<1>1. Consumers' = Consumers /\ Wrap' = Wrap
  BY DEF Consumers, Wrap, Take
<1>2. ClaimTypes /\ my[c].n \in Nat /\ at[c] = "take" /\ Wrap \in Nat \ {0} /\ head \in Nat
  BY Setup DEF Take, ClaimInv, ClaimTypes
<1>3. UNCHANGED <<setup, tail, opt, over, pc, job>> /\ head' = head + my[c].n
  BY DEF Take
<1>4. at'[c] = "header" /\ Moves(c)
  BY <1>2 DEF Take, ClaimTypes, Moves
<1>5. ClaimTypes'
  <2>1. at' = [u \in Consumers |-> at'[u]] /\ my' = [u \in Consumers |-> my'[u]]
    BY <1>2 DEF Take, ClaimTypes
  <2>2. head' \in Nat
    BY <1>2, <1>3
  <2> QED
    BY <1>1, <1>2, <1>3, <1>4, <2>1, <2>2 DEF ClaimTypes, Moves
<1>6. PICK e \in Nat : e = my[c].n
  BY <1>2
<1>7. Claimed(c)' = 0 /\ Claimed(c) = e /\ Sure(c)' = 0 /\ Sure(c) = e /\ Vain(c)' = 0 /\ Vain(c) = 0
  BY <1>2, <1>4, <1>6 DEF Claimed, Sure, Vain
<1>8. \A R, j : Hope(c, R, j) = 0 /\ Hope(c, R, j)' = 0
  BY <1>2, <1>4 DEF Hope
<1>9. PICK R \in [Consumers -> Nat], F \in [Consumers -> Nat], k \in Nat, m \in Nat : InLine(R, F, k, m)
  BY DEF ClaimInv, Lined
<1>10. AllClaimed \in Nat /\ AllSure \in Nat /\ AllVain \in Nat /\ \A j \in Nat : Before(R, j) \in Nat
  BY SumsAre DEF ClaimInv
<1>11. AllClaimed' = AllClaimed - e /\ AllSure' = AllSure - e /\ AllVain' = AllVain
  BY <1>2, <1>4, <1>5, <1>7, <1>10, SumsMove
<1>12. \A j \in Nat : Before(R, j)' = Before(R, j)
  <2> SUFFICES ASSUME NEW j \in Nat PROVE Before(R, j)' = Before(R, j)
    OBVIOUS
  <2>1. OthersStand(R, j, R, j, c)
    BY DEF OthersStand
  <2>2. Before(R, j)' = Before(R, j) + Hope(c, R, j)' - Hope(c, R, j)
    BY <1>2, <1>4, <1>5, <2>1, BeforeMoves
  <2> QED
    BY <1>8, <1>10, <2>2
<1>13. \A u \in Consumers : at'[u] = "check" => at[u] = "check" /\ my'[u] = my[u]
  BY <1>4 DEF Moves
<1>14. head' + AllClaimed' = head + AllClaimed /\ head' + AllSure' = head + AllSure
  BY <1>2, <1>3, <1>6, <1>10, <1>11
<1>15. Balanced'
  BY <1>1, <1>3, <1>14 DEF ClaimInv, Balanced, W
<1>16. InLine(R, F, k, m)'
  <2>1. AllClaimed' = AllSure' + AllVain' + Before(R, m)
    BY <1>9, <1>10, <1>11 DEF InLine
  <2> QED
    BY <1>1, <1>3, <1>9, <1>12, <1>13, <1>14, <2>1 DEF InLine, W
<1> QED
  BY <1>1, <1>5, <1>9, <1>15, <1>16 DEF ClaimInv, Lined

\* One that claims joins the line at its end.
LEMMA JoinsTheLine == ASSUME ClaimInv, WithinWords, NEW c \in Consumers, Claim(c) PROVE ClaimInv'
<1> USE DEF Shared, Go, Fields
<1>1. Consumers' = Consumers /\ Wrap' = Wrap
  BY DEF Consumers, Wrap, Claim
<1>2. ClaimTypes /\ my[c].n \in Nat /\ my[c].over \in Nat /\ at[c] = "claim" /\ Wrap \in Nat \ {0}
      /\ over \in Nat /\ opt \in Nat /\ head \in Nat /\ tail \in Nat
  BY Setup DEF Claim, ClaimInv, ClaimTypes
<1>3. UNCHANGED <<setup, tail, head, over, pc, job>> /\ opt' = W(opt + my[c].n)
  BY DEF Claim
<1>4. /\ at'[c] = "check" /\ my'[c] = [first |-> W(opt - my[c].over), n |-> my[c].n]
      /\ Moves(c)
  BY <1>2 DEF Claim, ClaimTypes, Moves
<1>5. ClaimTypes'
  <2>1. at' = [u \in Consumers |-> at'[u]] /\ my' = [u \in Consumers |-> my'[u]]
    BY <1>2 DEF Claim, ClaimTypes
  <2>2. opt' \in Nat /\ my'[c].first \in Nat /\ my'[c].n \in Nat
    BY <1>2, <1>3, <1>4 DEF W
  <2> QED
    BY <1>1, <1>2, <1>3, <1>4, <2>1, <2>2 DEF ClaimTypes, Moves
<1>6. PICK e \in Nat : e = my[c].n /\ e = my'[c].n
  BY <1>2, <1>4
<1>7. Claimed(c)' = e /\ Claimed(c) = 0 /\ Sure(c)' = 0 /\ Sure(c) = 0 /\ Vain(c)' = 0 /\ Vain(c) = 0
  BY <1>2, <1>4, <1>6 DEF Claimed, Sure, Vain
<1>8. PICK R \in [Consumers -> Nat], F \in [Consumers -> Nat], k \in Nat, m \in Nat : InLine(R, F, k, m)
  BY DEF ClaimInv, Lined
<1>9. AllClaimed \in Nat /\ AllSure \in Nat /\ AllVain \in Nat /\ \A j \in Nat : Before(R, j) \in Nat
  BY SumsAre DEF ClaimInv
<1>10. AllClaimed' = AllClaimed + e /\ AllSure' = AllSure /\ AllVain' = AllVain
  BY <1>2, <1>4, <1>5, <1>7, <1>9, SumsMove
<1>11. PICK f \in Nat : f = head + AllClaimed + W(over - my[c].over)
  <2>1. W(over - my[c].over) \in Nat
    BY <1>2 DEF W
  <2> QED
    BY <1>2, <1>9, <2>1
<1> DEFINE Q == [R EXCEPT ![c] = m]
           G == [F EXCEPT ![c] = f]
<1>12. Q \in [Consumers -> Nat] /\ G \in [Consumers -> Nat] /\ Q[c] = m /\ G[c] = f
       /\ \A u \in Consumers : u # c => Q[u] = R[u] /\ G[u] = F[u]
  OBVIOUS
<1> HIDE DEF Q, G
\* Nobody who stood in line has moved, ...
<1>13. \A j \in Nat : j <= m => Before(Q, j)' = Before(R, j)
  <2> SUFFICES ASSUME NEW j \in Nat, j <= m PROVE Before(Q, j)' = Before(R, j)
    OBVIOUS
  <2>1. OthersStand(R, j, Q, j, c)
    BY <1>12 DEF OthersStand
  <2>2. Before(Q, j)' = Before(R, j) + Hope(c, Q, j)' - Hope(c, R, j)
    BY <1>2, <1>4, <1>5, <1>12, <2>1, BeforeMoves
  <2>3. Hope(c, Q, j)' = 0 /\ Hope(c, R, j) = 0
    BY <1>2, <1>12 DEF Hope
  <2> QED
    BY <1>9, <2>2, <2>3
\* ... and everybody stands before this one.
<1>14. Before(Q, m + 1)' = Before(R, m) + e
  <2>1. OthersStand(R, m, Q, m + 1, c)
    BY <1>8, <1>12 DEF OthersStand, InLine
  <2>2. Before(Q, m + 1)' = Before(R, m) + Hope(c, Q, m + 1)' - Hope(c, R, m)
    BY <1>2, <1>4, <1>5, <1>12, <2>1, BeforeMoves, SMTT(40)
  <2>3. Hope(c, Q, m + 1)' = e /\ Hope(c, R, m) = 0
    BY <1>2, <1>4, <1>6, <1>12 DEF Hope
  <2> QED
    BY <1>9, <2>2, <2>3
\* Its claim begins where all the claims end, as far as it knows.
<1>15. my'[c].first = W(f)
  <2>1. PICK x \in Int, y \in Int, d \in Int :
          x = opt - over /\ y = head + AllClaimed /\ d = over - my[c].over
    BY <1>2, <1>9
  <2>2. x % Wrap = y % Wrap
    BY <2>1 DEF ClaimInv, Balanced, W
  <2>3. PICK z \in Int : z = d % Wrap
    BY <1>2, <2>1
  <2>4. (x + z) % Wrap = (y + z) % Wrap
    BY ONLY <1>2, <2>2, x \in Int, y \in Int, z \in Int, Shift, ZenonT(40)
  <2>5. ((d % Wrap) + x) % Wrap = (d + x) % Wrap
    BY ONLY <1>2, d \in Int, x \in Int, RoundOn
  <2>6. x + z = (d % Wrap) + x /\ d + x = opt - my[c].over /\ f = y + z
    BY <1>2, <1>9, <1>11, <2>1, <2>3 DEF W
  <2> QED
    BY <1>4, <2>4, <2>5, <2>6 DEF W
<1>16. Balanced'
  <2>1. PICK x \in Int, y \in Int : x = opt - over /\ y = head + AllClaimed
    BY <1>2, <1>9
  <2>7. PICK p \in Int, b \in Int : p = opt + e /\ b = 0 - over
    BY <1>2
  <2>2. x % Wrap = y % Wrap
    BY <2>1 DEF ClaimInv, Balanced, W
  <2>3. (x + e) % Wrap = (y + e) % Wrap
    BY ONLY <1>2, <2>2, x \in Int, y \in Int, e \in Int, e \in Nat, Shift, ZenonT(40)
  <2>4. ((p % Wrap) + b) % Wrap = (p + b) % Wrap
    BY ONLY <1>2, p \in Int, b \in Int, RoundOn
  <2>5. opt' - over' = (p % Wrap) + b /\ p + b = x + e /\ head' + AllClaimed' = y + e
    BY <1>2, <1>3, <1>6, <1>9, <1>10, <2>1, <2>7 DEF W
  <2> QED
    BY <1>1, <2>3, <2>4, <2>5 DEF Balanced, W
<1>17. InLine(Q, G, k, m + 1)'
  <2>1. k <= m + 1
    BY <1>8 DEF InLine
  <2>2. \A u \in Consumers : at'[u] = "check" => Q[u] < m + 1
    BY <1>4, <1>8, <1>12 DEF InLine, Moves
  <2>3. \A u, v \in Consumers : at'[u] = "check" /\ at'[v] = "check" /\ Q[u] = Q[v] => u = v
    <3> SUFFICES ASSUME NEW u \in Consumers, NEW v \in Consumers, at'[u] = "check", at'[v] = "check",
                        Q[u] = Q[v], u # v
                 PROVE  FALSE
      OBVIOUS
    <3>1. CASE u # c /\ v # c
      BY <1>4, <1>8, <1>12, <3>1 DEF InLine, Moves
    <3>2. CASE u = c
      <4>1. at[v] = "check" /\ Q[v] = R[v] /\ Q[u] = m
        BY <1>4, <1>12, <3>2 DEF Moves
      <4>2. R[v] < m
        BY <1>8, <4>1 DEF InLine
      <4>3. R[v] = m
        BY <4>1
      <4> QED
        BY <4>2, <4>3
    <3>3. CASE v = c
      <4>1. at[u] = "check" /\ Q[u] = R[u] /\ Q[v] = m
        BY <1>4, <1>12, <3>3 DEF Moves
      <4>2. R[u] < m
        BY <1>8, <4>1 DEF InLine
      <4>3. R[u] = m
        BY <4>1
      <4> QED
        BY <4>2, <4>3
    <3> QED
      BY <3>1, <3>2, <3>3
  <2>4. AllClaimed' = AllSure' + AllVain' + Before(Q, m + 1)'
    BY <1>8, <1>9, <1>10, <1>14 DEF InLine
  <2>5. head' + AllSure' + Before(Q, k)' <= tail'
    BY <1>3, <1>8, <1>10, <1>13 DEF InLine
  <2>6. ASSUME NEW u \in Consumers, at'[u] = "check", Q[u] >= k
        PROVE  /\ head' + AllSure' + Before(Q, Q[u])' <= G[u] /\ G[u] <= tail' + Wrap' \div 2
               /\ my'[u].first = W(G[u])'
    <3>1. CASE u = c
      <4>1. Before(Q, Q[u])' = Before(R, m)
        BY <1>12, <1>13, <3>1
      <4>2. W(over - my[c].over) \in Nat
        BY <1>2 DEF W
      <4>3. head + AllSure + Before(R, m) <= f
        BY <1>2, <1>8, <1>9, <1>11, <4>2 DEF InLine
      <4>4. f <= tail + Wrap \div 2
        BY <1>2, <1>11 DEF WithinWords
      <4> QED
        BY <1>1, <1>3, <1>10, <1>12, <1>15, <3>1, <4>1, <4>3, <4>4 DEF W
    <3>2. CASE u # c
      <4>1. Q[u] = R[u] /\ G[u] = F[u] /\ at[u] = "check" /\ my'[u] = my[u]
        BY <1>4, <1>12, <2>6, <3>2 DEF Moves
      <4>2. R[u] \in Nat /\ R[u] <= m /\ R[u] >= k
        BY <1>8, <2>6, <4>1 DEF InLine
      <4>3. Before(Q, Q[u])' = Before(R, R[u])
        BY <1>13, <4>1, <4>2
      <4> QED
        BY <1>1, <1>3, <1>8, <1>10, <4>1, <4>2, <4>3 DEF InLine, W
    <3> QED
      BY <3>1, <3>2
  <2> HIDE DEF Moves
  <2> QED
    BY <1>1, <2>1, <2>2, <2>3, <2>4, <2>5, <2>6 DEF InLine
<1> QED
  BY <1>1, <1>5, <1>12, <1>16, <1>17 DEF ClaimInv, Lined

\* What a consumer finds at its second look, and what it then goes on with.
Found(c) ==
  LET there == W(tail - my[c].first)
  IN  IF ~ Some(there) THEN 0 ELSE IF there < my[c].n THEN there ELSE my[c].n

LEMMA Looked ==
  ASSUME ClaimInv, NEW c \in Consumers, Check(c)
  PROVE  /\ ClaimTypes' /\ Moves(c) /\ UNCHANGED <<setup, tail, head, opt, over>>
         /\ Found(c) \in Nat /\ Found(c) <= my[c].n /\ at'[c] # "check" /\ Claimed(c)' = Claimed(c)
         /\ Claimed(c) = my[c].n /\ Sure(c)' = Found(c) /\ Sure(c) = 0
         /\ Vain(c)' = my[c].n - Found(c) /\ Vain(c) = 0
<1> USE DEF Shared, Go, Fields
<1>1. Consumers' = Consumers /\ Wrap' = Wrap
  BY DEF Consumers, Wrap, Check
<1>2. ClaimTypes /\ my[c].n \in Nat /\ my[c].first \in Nat /\ at[c] = "check" /\ Wrap \in Nat \ {0}
      /\ tail \in Nat
  BY Setup DEF Check, ClaimInv, ClaimTypes
<1>3. PICK e \in Nat : e = Found(c) /\ e <= my[c].n
  <2>1. W(tail - my[c].first) \in Nat
    BY <1>2 DEF W
  <2> QED
    BY <1>2, <2>1 DEF Found
<1>4. UNCHANGED <<setup, tail, head, opt, over, pc, job>>
  BY DEF Check
<1>5. /\ at' = [at EXCEPT ![c] = IF e < my[c].n THEN "settle" ELSE "take"]
      /\ my' = [my EXCEPT ![c] = [n |-> e, extra |-> my[c].n - e]]
  BY <1>3 DEF Check, Found
<1>6. /\ at'[c] = (IF e < my[c].n THEN "settle" ELSE "take")
      /\ my'[c] = [n |-> e, extra |-> my[c].n - e] /\ Moves(c)
  BY <1>2, <1>4, <1>5 DEF ClaimTypes, Moves
<1>7. my'[c].n = e /\ my'[c].extra = my[c].n - e /\ my'[c].n \in Nat /\ my'[c].extra \in Nat
  BY <1>2, <1>3, <1>6
<1>8. ClaimTypes'
  <2>1. at' = [u \in Consumers |-> at'[u]] /\ my' = [u \in Consumers |-> my'[u]]
    BY <1>2, <1>5 DEF ClaimTypes
  <2> QED
    BY <1>1, <1>2, <1>4, <1>6, <1>7, <2>1 DEF ClaimTypes, Moves
<1>9. Claimed(c)' = Claimed(c) /\ Claimed(c) = my[c].n /\ Sure(c)' = e /\ Sure(c) = 0
  BY <1>2, <1>3, <1>6, <1>7 DEF Claimed, Sure
<1>10. Vain(c)' = my[c].n - e /\ Vain(c) = 0
  BY <1>2, <1>3, <1>6, <1>7 DEF Vain
<1> QED
  BY <1>3, <1>4, <1>6, <1>8, <1>9, <1>10

\* One that has looked leaves the line.  If it is behind the cut and finds an
\* item, the cut moves to where it stood.
LEMMA LeavesTheLine == ASSUME ClaimInv, WithinWords, NEW c \in Consumers, Check(c) PROVE ClaimInv'
<1> HIDE DEF WithinWords
<1>1. Consumers' = Consumers /\ Wrap' = Wrap
  BY Looked DEF Consumers, Wrap
<1>2. ClaimTypes /\ my[c].n \in Nat /\ my[c].first \in Nat /\ at[c] = "check" /\ Wrap \in Nat \ {0}
      /\ head \in Nat /\ tail \in Nat
  BY Setup DEF Check, Go, ClaimInv, ClaimTypes
<1>3. PICK n \in Nat, e \in Nat : n = my[c].n /\ e = Found(c) /\ e <= n
  BY <1>2, Looked
<1>4. /\ ClaimTypes' /\ Moves(c) /\ UNCHANGED <<setup, tail, head, opt, over>> /\ at'[c] # "check"
      /\ Claimed(c)' = n /\ Claimed(c) = n /\ Sure(c)' = e /\ Sure(c) = 0
      /\ Vain(c)' = n - e /\ Vain(c) = 0
  BY <1>3, Looked
<1>5. PICK R \in [Consumers -> Nat], F \in [Consumers -> Nat], k \in Nat, m \in Nat : InLine(R, F, k, m)
  BY DEF ClaimInv, Lined
<1>6. AllClaimed \in Nat /\ AllSure \in Nat /\ AllVain \in Nat /\ \A j \in Nat : Before(R, j) \in Nat
  BY SumsAre DEF ClaimInv
<1>7. AllClaimed' = AllClaimed /\ AllSure' = AllSure + e /\ AllVain' = AllVain + (n - e)
  BY <1>2, <1>4, <1>6, SumsMove
<1>8. \A j \in Nat : Before(R, j)' = IF R[c] < j THEN Before(R, j) - n ELSE Before(R, j)
  <2> SUFFICES ASSUME NEW j \in Nat
               PROVE  Before(R, j)' = IF R[c] < j THEN Before(R, j) - n ELSE Before(R, j)
    OBVIOUS
  <2>1. OthersStand(R, j, R, j, c)
    BY DEF OthersStand
  <2>2. Before(R, j)' = Before(R, j) + Hope(c, R, j)' - Hope(c, R, j)
    BY <1>2, <1>4, <2>1, BeforeMoves
  <2>3. Hope(c, R, j)' = 0 /\ Hope(c, R, j) = IF R[c] < j THEN n ELSE 0
    BY <1>2, <1>3, <1>4 DEF Hope
  <2>4. Before(R, j) \in Nat
    BY <1>6
  <2> QED
    BY <2>2, <2>3, <2>4
<1>9. \A u \in Consumers : at'[u] = "check" => u # c /\ at[u] = "check" /\ my'[u] = my[u]
  BY <1>4 DEF Moves
<1>10. Balanced'
  BY <1>1, <1>4, <1>7 DEF ClaimInv, Balanced, W
<1>11. AllClaimed' = AllSure' + AllVain' + Before(R, m)'
  <2>1. R[c] < m /\ AllClaimed = AllSure + AllVain + Before(R, m)
    BY <1>2, <1>5 DEF InLine
  <2> QED
    BY <1>6, <1>7, <1>8, <2>1
\* What it leaves is no less than what it goes on with, for all behind it.
<1>12. \A j \in Nat : R[c] < j => head' + AllSure' + Before(R, j)' <= head + AllSure + Before(R, j)
  <2> SUFFICES ASSUME NEW j \in Nat, R[c] < j
               PROVE  head' + AllSure' + Before(R, j)' <= head + AllSure + Before(R, j)
    OBVIOUS
  <2>1. Before(R, j)' = Before(R, j) - n /\ Before(R, j) \in Nat
    BY <1>6, <1>8
  <2> QED
    BY <1>2, <1>3, <1>4, <1>6, <1>7, <2>1
<1>13. CASE e = 0 \/ R[c] < k
  <2>1. \A j \in Nat : j >= k => head' + AllSure' + Before(R, j)' <= head + AllSure + Before(R, j)
    <3> SUFFICES ASSUME NEW j \in Nat, j >= k
                 PROVE  head' + AllSure' + Before(R, j)' <= head + AllSure + Before(R, j)
      OBVIOUS
    <3>1. CASE R[c] < j
      BY <1>12, <3>1
    <3>2. CASE ~ (R[c] < j)
      <4>1. Before(R, j)' = Before(R, j) /\ Before(R, j) \in Nat /\ e = 0
        BY <1>6, <1>8, <1>13, <3>2
      <4> QED
        BY <1>2, <1>4, <1>6, <1>7, <4>1
    <3> QED
      BY <3>1, <3>2
  <2>2. head' + AllSure' + Before(R, k)' <= tail'
    <3>1. head' + AllSure' + Before(R, k)' <= head + AllSure + Before(R, k)
      BY <2>1
    <3>2. head + AllSure + Before(R, k) <= tail
      BY <1>5 DEF InLine
    <3>3. AllSure' \in Nat /\ Before(R, k)' \in Int /\ Before(R, k) \in Nat
      BY <1>3, <1>6, <1>7, <1>8
    <3> QED
      BY <1>2, <1>4, <1>6, <3>1, <3>2, <3>3
  <2>3. ASSUME NEW u \in Consumers, at'[u] = "check", R[u] >= k
        PROVE  /\ head' + AllSure' + Before(R, R[u])' <= F[u] /\ F[u] <= tail' + Wrap' \div 2
               /\ my'[u].first = W(F[u])'
    <3>1. u # c /\ at[u] = "check" /\ my'[u] = my[u]
      BY <1>9, <2>3
    <3>2. head + AllSure + Before(R, R[u]) <= F[u] /\ F[u] <= tail + Wrap \div 2 /\ my[u].first = W(F[u])
      BY <1>5, <2>3, <3>1 DEF InLine
    <3>3. head' + AllSure' + Before(R, R[u])' <= head + AllSure + Before(R, R[u])
      BY <2>1, <2>3
    <3>4. AllSure' \in Nat /\ Before(R, R[u])' \in Int /\ Before(R, R[u]) \in Nat
      BY <1>3, <1>6, <1>7, <1>8
    <3>5. head' + AllSure' + Before(R, R[u])' <= F[u]
      BY <1>2, <1>4, <1>6, <3>2, <3>3, <3>4
    <3> QED
      BY <1>1, <1>4, <3>1, <3>2, <3>5 DEF W
  <2>4. InLine(R, F, k, m)'
    <3>1. k <= m /\ (\A u \in Consumers : at'[u] = "check" => R[u] < m)
          /\ (\A u, v \in Consumers : at'[u] = "check" /\ at'[v] = "check" /\ R[u] = R[v] => u = v)
      BY <1>5, <1>9 DEF InLine
    <3> QED
      BY <1>1, <1>11, <2>2, <2>3, <3>1 DEF InLine
  <2> QED
    BY <1>1, <1>4, <1>5, <1>10, <2>4 DEF ClaimInv, Lined
<1>14. CASE e > 0 /\ R[c] >= k
  <2>1. PICK x \in Nat : x = W(tail - my[c].first) /\ Some(x) /\ e <= x
    <3>1. W(tail - my[c].first) \in Nat
      BY <1>2 DEF W
    <3> QED
      BY <1>2, <1>3, <1>14, <3>1 DEF Found
  <2>2. head + AllSure + Before(R, R[c]) <= F[c] /\ F[c] <= tail + Wrap \div 2 /\ my[c].first = W(F[c])
        /\ R[c] < m
    BY <1>2, <1>5, <1>14 DEF InLine
  <2>3. R[c] \in Nat /\ F[c] \in Nat /\ Before(R, R[c]) \in Nat
    BY <1>6
  <2>4. tail - F[c] < Wrap
    <3>1. tail - head < Wrap
      BY DEF WithinWords
    <3> QED
      BY <1>2, <1>6, <2>2, <2>3, <3>1
  <2>5. x = tail - F[c]
    <3>1. PICK w \in Nat \ {0}, t \in Nat, f \in Nat : w = Wrap /\ t = tail /\ f = F[c]
      BY <1>2, <2>3
    <3>2. x = (t - (f % w)) % w
      BY <2>1, <2>2, <3>1 DEF W
    <3>3. (0 - x) % w > w \div 2
      BY <2>1, <3>1 DEF Some, Less, W
    <3>4. t - f < w /\ f <= t + w \div 2
      BY <2>2, <2>4, <3>1
    <3>5. x = t - f
      BY ONLY <3>2, <3>3, <3>4, w \in Nat \ {0}, t \in Nat, f \in Nat, ThereIs
    <3> QED
      BY <3>1, <3>5
  <2>6. F[c] + e <= tail
    BY <1>2, <2>1, <2>3, <2>5
  <2>7. PICK l \in Nat : l = R[c] + 1 /\ l <= m
    BY <2>2, <2>3
  <2>8. head' + AllSure' + Before(R, l)' <= tail'
    <3>1. OthersStand(R, R[c], R, l, c)
      BY <1>2, <1>5, <2>3, <2>7 DEF OthersStand, InLine
    <3>2. Before(R, l)' = Before(R, R[c]) + Hope(c, R, l)' - Hope(c, R, R[c])
      BY <1>2, <1>4, <2>3, <3>1, BeforeMoves
    <3>3. Hope(c, R, l)' = 0 /\ Hope(c, R, R[c]) = 0
      BY <1>4, <2>3 DEF Hope
    <3>4. Before(R, l)' = Before(R, R[c])
      BY <2>3, <3>2, <3>3
    <3> QED
      BY <1>2, <1>4, <1>6, <1>7, <2>2, <2>3, <2>6, <3>4
  <2>9. ASSUME NEW u \in Consumers, at'[u] = "check", R[u] >= l
        PROVE  /\ head' + AllSure' + Before(R, R[u])' <= F[u] /\ F[u] <= tail' + Wrap' \div 2
               /\ my'[u].first = W(F[u])'
    <3>1. u # c /\ at[u] = "check" /\ my'[u] = my[u]
      BY <1>9, <2>9
    <3>2. R[u] \in Nat /\ R[c] < R[u] /\ R[u] >= k
      BY <1>14, <2>3, <2>7, <2>9
    <3>3. head + AllSure + Before(R, R[u]) <= F[u] /\ F[u] <= tail + Wrap \div 2 /\ my[u].first = W(F[u])
      BY <1>5, <3>1, <3>2 DEF InLine
    <3>4. head' + AllSure' + Before(R, R[u])' <= head + AllSure + Before(R, R[u])
      BY <1>12, <3>2
    <3>5. AllSure' \in Nat /\ Before(R, R[u])' \in Int /\ Before(R, R[u]) \in Nat
      BY <1>3, <1>6, <1>7, <1>8, <3>2
    <3>6. head' + AllSure' + Before(R, R[u])' <= F[u]
      BY <1>2, <1>4, <1>6, <3>3, <3>4, <3>5
    <3> QED
      BY <1>1, <1>4, <3>1, <3>3, <3>6 DEF W
  <2>10. InLine(R, F, l, m)'
    <3>1. l <= m /\ (\A u \in Consumers : at'[u] = "check" => R[u] < m)
          /\ (\A u, v \in Consumers : at'[u] = "check" /\ at'[v] = "check" /\ R[u] = R[v] => u = v)
      BY <1>5, <1>9, <2>7 DEF InLine
    <3> QED
      BY <1>1, <1>11, <2>8, <2>9, <3>1 DEF InLine
  <2> QED
    BY <1>1, <1>4, <1>5, <1>10, <2>10 DEF ClaimInv, Lined
<1> QED
  BY <1>3, <1>5, <1>13, <1>14

\* The rest of a call has nothing to do with the claims.
LEMMA OtherSteps ==
  ASSUME ClaimInv, NEW c \in Consumers,
         \/ Call(c) \/ Look(c) \/ Want(c) \/ LoadHeader(c) \/ LoadFront(c) \/ LoadBase(c)
         \/ Read(c) \/ Forget(c) \/ Release(c)
  PROVE  ClaimInv'
<1> USE DEF Shared, Go, Fields, Done
<1>1. ClaimTypes /\ Wrap \in Nat \ {0} /\ setup.wants \subseteq Nat /\ tail \in Nat /\ opt \in Nat /\ over \in Nat
  <2>1. ClaimTypes
    BY DEF ClaimInv
  <2> QED
    BY <2>1, Setup DEF ClaimTypes
<1>2. UNCHANGED <<setup, tail, head, opt, over, pc, job>>
  BY DEF Call, Look, Want, LoadHeader, LoadFront, LoadBase, Read, Forget, Release
<1>3. at[c] \notin {"check", "settle", "take"} /\ at'[c] \notin {"check", "settle", "take"} /\ Moves(c)
      /\ at' = [u \in Consumers |-> at'[u]] /\ my' = [u \in Consumers |-> my'[u]]
      /\ (at'[c] = "call" => my'[c].want \in Nat /\ my'[c].tail \in Nat)
      /\ (at'[c] = "look" => my'[c].want \in Nat /\ my'[c].tail \in Nat /\ my'[c].over \in Nat)
      /\ (at'[c] = "claim" => my'[c].n \in Nat /\ my'[c].over \in Nat)
  <2> USE <1>1, <1>2 DEF Moves, ClaimTypes
  <2>1. CASE Call(c)
    <3>1. PICK w \in Nat : Fields(c, [want |-> w, tail |-> W(tail)])
      BY <2>1 DEF Call
    <3>2. W(tail) \in Nat
      BY DEF W
    <3> QED
      BY <2>1, <3>1, <3>2 DEF Call
  <2>8. CASE Look(c)
    BY <2>8 DEF Look
  <2>2. CASE Want(c)
    <3>1. PICK t \in Nat : t = W(my[c].tail - (opt - my[c].over))
      BY <2>2 DEF Want, W
    <3>2. CASE Some(t)
      BY <2>2, <3>1, <3>2 DEF Want
    <3>3. CASE ~ Some(t)
      BY <2>2, <3>1, <3>3 DEF Want
    <3> QED
      BY <3>2, <3>3
  <2>3. CASE LoadHeader(c) \/ LoadFront(c)
    BY <2>3 DEF LoadHeader, LoadFront
  <2>4. CASE LoadBase(c)
    BY <2>4 DEF LoadBase
  <2>5. CASE Read(c)
    BY <2>5 DEF Read, NextBlock
  <2>6. CASE Forget(c)
    BY <2>6 DEF Forget
  <2>7. CASE Release(c)
    BY <2>7 DEF Release, NextBlock
  <2> QED
    BY <2>1, <2>2, <2>3, <2>4, <2>5, <2>6, <2>7, <2>8
<1>4. ClaimTypes'
  <2>1. Consumers' = Consumers
    BY <1>2 DEF Consumers
  <2> QED
    BY <1>1, <1>2, <1>3, <2>1 DEF ClaimTypes, Moves
<1> QED
  BY <1>2, <1>3, <1>4, StandsAside

LEMMA ClaimStarts == AllInit => ClaimInv
<1> SUFFICES ASSUME Init PROVE ClaimInv
  BY DEF AllInit
<1>1. ClaimTypes
  BY DEF Init, ClaimTypes
<1>2. Wrap \in Nat \ {0}
  BY <1>1, Setup
<1>3. AllClaimed = 0 /\ AllSure = 0 /\ AllVain = 0
  <2>1. \A c \in Consumers : Claimed(c) = 0 /\ Sure(c) = 0 /\ Vain(c) = 0
    BY DEF Init, Claimed, Sure, Vain
  <2> QED
    BY <2>1, TotalZero DEF AllClaimed, AllSure, AllVain
<1>4. PICK R \in [Consumers -> Nat] : R = [c \in Consumers |-> 0]
  OBVIOUS
<1>5. \A c \in Consumers : at[c] = "idle"
  BY DEF Init
<1>6. Before(R, 0) = 0
  <2>1. \A c \in Consumers : Hope(c, R, 0) = 0
    BY <1>5 DEF Hope
  <2> QED
    BY <2>1, TotalZero DEF Before
<1>7. Balanced
  BY <1>3 DEF Balanced, Init
<1>8. InLine(R, R, 0, 0)
  BY <1>3, <1>5, <1>6 DEF InLine, Init
<1> QED
  BY <1>1, <1>7, <1>8 DEF ClaimInv, Lined

LEMMA ClaimStays ==
  ClaimInv /\ WithinWords /\ [AllNext]_<<part, vars, flvars>> => ClaimInv'
<1> SUFFICES ASSUME ClaimInv, WithinWords, [AllNext]_<<part, vars, flvars>> PROVE ClaimInv'
  OBVIOUS
<1>1. CASE Next
  <2>1. CASE Produce \/ Destroy
    BY <2>1, Produces, ProducedClaims DEF ClaimInv
  <2>2. CASE \E c \in Consumers : Dequeue(c)
    <3>1. PICK c \in Consumers : Dequeue(c)
      BY <2>2
    <3> QED
      BY <3>1, OtherSteps, JoinsTheLine, LeavesTheLine, Settles, Takes DEF Dequeue
  <2>3. CASE UNCHANGED vars
    <3>1. Produced
      BY <2>3 DEF vars, Produced, ClaimInv, ClaimTypes
    <3> QED
      BY <3>1, ProducedClaims
  <2> QED
    BY <1>1, <2>1, <2>2, <2>3 DEF Next, DequeueExplicit, DequeueImplicit, Ended
<1>2. CASE UNCHANGED vars
  <2>1. Produced
    BY <1>2 DEF vars, Produced, ClaimInv, ClaimTypes
  <2> QED
    BY <2>1, ProducedClaims
<1> QED
  BY <1>1, <1>2 DEF AllNext

LEMMA ClaimsSound == ClaimInv => NeverPastTail
<1> SUFFICES ASSUME ClaimInv PROVE NeverPastTail
  OBVIOUS
<1>1. PICK R \in [Consumers -> Nat], F \in [Consumers -> Nat], k \in Nat, m \in Nat : InLine(R, F, k, m)
  BY DEF ClaimInv, Lined
<1>2. AllSure \in Nat /\ Before(R, k) \in Nat /\ head \in Nat /\ tail \in Nat
  BY SumsAre DEF ClaimInv, ClaimTypes
<1>3. head + AllSure + Before(R, k) <= tail
  BY <1>1 DEF InLine
<1>4. head + AllSure <= tail
  BY <1>2, <1>3
<1> QED
  BY <1>4 DEF NeverPastTail, ClaimInv, Balanced

(* As long as the words can tell which of two counts is ahead, what        *)
(* consumers take, and are about to take, is there, and the optimistic     *)
(* count less the overcommit is the head and the claims under way: the     *)
(* promise of the note at dequeue (concurrentqueue.h:1980).                *)
THEOREM ClaimsKept == Spec /\ []WithinWords => []NeverPastTail
<1>1. Spec /\ []WithinWords => []ClaimInv
  BY ClaimStarts, ClaimStays, PTL DEF Spec
<1> QED
  BY <1>1, ClaimsSound, PTL

-----------------------------------------------------------------------------
(* The blocks of an implicit producer.  The blocks put to use are numbered *)
(* from 0 on: number j has the items from Pos(j) on.  A are those whose    *)
(* entry has not been nulled, and K says which block a number has.  The    *)
(* header h has the entry of j at Slot(C, h, j), for as long as it has it. *)

\* No call asks for nothing.  The first index has IndexSize entries and each is
\* twice as large as the one before; the words are a multiple of what each holds.
Asked    == \A s \in Setups : 0 \notin s.wants
Sizes(z) ==
  /\ z[1] = IndexSize /\ \A h \in Nat \ {0} : z[h + 1] = 2 * z[h]
  /\ \A s \in Setups : s.kind = "implicit" =>
       \A h \in {1} \cup 1 .. s.indexes : s.wrap % (BLOCK_SIZE * z[h]) = 0
Divided  == \E z \in [Nat -> Nat] : Sizes(z)

Rounds   == \A h \in 1 .. Len(headers) : Wrap % (BLOCK_SIZE * Size(headers[h])) = 0
Sized(z) == Len(headers) \in {1} \cup 1 .. setup.indexes /\ \A h \in 1 .. Len(headers) : Size(headers[h]) = z[h]

Num(i)  == i \div BLOCK_SIZE
Pos(j)  == BLOCK_SIZE * j
Over(t) == Num(t - 1) + 1          \* the blocks of t items

\* The numbers that have a block, and those that have an entry.
Filled == IF pc = "tail" THEN Over(tail + job.n)
          ELSE IF pc \in {"chain", "link", "items"} THEN Over(tail) + job.got
          ELSE Over(tail)

Entered == IF pc \in {"put", "link"} THEN Filled + 1 ELSE Filled

\* The items that are constructed; those that a consumer has still to read; and
\* all that somebody has still to read.
Stored  == IF pc = "tail" THEN tail + job.n ELSE tail
Left(c) == IF at[c] \in {"header", "front", "base", "block"} THEN my[c].index .. my[c].end - 1
           ELSE IF at[c] \in {"forget", "release"} THEN Last(c) .. my[c].end - 1
           ELSE {}

Unread  == (head .. Stored - 1) \cup UNION {Left(c) : c \in Consumers}

BlockTypes ==
  /\ cell \in [Blocks -> [Offsets -> Nat]] /\ emptied \in [Blocks -> SUBSET Offsets]
  /\ next \in [Blocks -> Blocks \cup {0}] /\ tailBlock \in Blocks \cup {0}
  /\ pool \subseteq Blocks /\ free \subseteq Blocks /\ heap \subseteq Blocks

\* Each index is of entries that are there.
Heading(h) == /\ h = [front |-> h.front, index |-> h.index] /\ Size(h) \in Nat \ {0}
              /\ h.front \in 0 .. Size(h) - 1 /\ h.index \in [0 .. Size(h) - 1 -> 1 .. Len(entries)]

IndexTypes ==
  /\ Len(entries) \in Nat /\ entries \in [1 .. Len(entries) -> [base : Nat, block : Blocks \cup {0}]]
  /\ Len(headers) \in Nat \ {0} /\ headers = [h \in 1 .. Len(headers) |-> headers[h]]
  /\ \A h \in 1 .. Len(headers) : Heading(headers[h])

\* Where a number's entry is in a header, and which entry it is.
Slot(C, h, j) == (C[h] + j) % Size(headers[h])
Place(C, j)   == Header.index[Slot(C, Len(headers), j)]

\* An entry tells its slot; and a header leads to a number's entry.
Tells(C, h, s) == \E j \in Nat : entries[headers[h].index[s]].base = W(Pos(j)) /\ s = Slot(C, h, j)
Leads(C, h, j) == headers[h].index[Slot(C, h, j)] = Place(C, j) /\ Tells(C, h, headers[h].front)

\* An entry that an index shares with the newest is where its numbers belong;
\* the newest slot comes before that of the next number; and no number from one
\* in A on has lost its entry to another.
Indexed(A, K, C) ==
  /\ \A h \in 1 .. Len(headers), j \in Nat : \A s \in 0 .. Size(headers[h]) - 1 :
       headers[h].index[s] = Place(C, j) => s = Slot(C, h, j)
  /\ (Header.front + 1) % Size(Header) = Slot(C, Len(headers), Entered)
  /\ Entered > Filled => entries[Place(C, Filled)].base = W(Pos(Filled))
  /\ \A j \in A :
       /\ j < Filled /\ Entered <= j + Size(Header)
       /\ entries[Place(C, j)] = [base |-> W(Pos(j)), block |-> K[j]]
       /\ \A d \in j .. Entered - 1 : entries[Place(C, d)].base = W(Pos(d))

\* A block is in one place, ...
Homes(po, fr, he, A, K) ==
  /\ \A j \in A : K[j] \notin po \cup fr \cup he
  /\ \A j, k \in A : K[j] = K[k] => j = k
  /\ po \cap fr = {} /\ po \cap he = {} /\ fr \cap he = {}

\* ... and holds of the items U what is its own, which are not set empty.
Holds(ce, em, A, K, U, t) ==
  /\ \A j \in A : \A o \in Offsets :
       /\ ce[K[j]][o] = IF Pos(j) + o \in U THEN Pos(j) + o + 1 ELSE 0
       /\ Pos(j) + o \in U \/ Pos(j) + o >= t => o \notin em[K[j]]
  /\ \A b \in Blocks : (\A j \in A : b # K[j]) => \A o \in Offsets : ce[b][o] = 0
  /\ \A i \in U : Num(i) \in A

Stocked(A, K) == Homes(pool, free, heap, A, K) /\ Holds(cell, emptied, A, K, Unread, tail)

\* What a consumer has found out.
Knows(c, A, K, C) ==
  LET m == my[c] IN
  /\ at[c] \in {"call", "look"} => m.want # 0
  /\ at[c] \in {"claim", "check", "take"} => m.n # 0
  /\ at[c] \in {"header", "front", "base", "block", "forget", "release"} =>
       m.index \in Nat /\ m.end \in Nat /\ m.index < m.end /\ m.end <= head
  /\ at[c] \in {"front", "base", "block", "forget", "release"} =>
       m.header \in 1 .. Len(headers) /\ \A i \in Left(c) : Leads(C, m.header, Num(i))
  /\ at[c] \in {"base", "block"} =>
       m = [index |-> m.index, end |-> m.end, header |-> m.header, slot |-> m.slot]
  /\ at[c] = "base" => m.slot \in 0 .. Size(headers[m.header]) - 1 /\ Tells(C, m.header, m.slot)
  /\ at[c] \in {"block", "forget", "release"} => m.slot = Slot(C, m.header, Num(m.index))
  /\ at[c] = "forget" =>
       /\ Num(m.index) \in A /\ m.block = K[Num(m.index)] /\ Leads(C, m.header, Num(m.index))
       /\ emptied[m.block] = Offsets
  /\ at[c] = "release" => m.block \in Blocks \ (pool \cup free \cup heap) /\ \A j \in A : m.block # K[j]

Giving(c) == at[c] \in {"forget", "release"}
Apart ==
  \A c, d \in Consumers : c # d =>
    Left(c) \cap Left(d) = {} /\ (Giving(c) /\ Giving(d) => my[c].block # my[d].block)

\* What the producer is at.
Producing(A, K) ==
  /\ pc \in {"idle", "put", "chain", "link", "items", "tail"} /\ wrecked = "none"
  /\ \A j \in Nat : Num(tail) <= j /\ j < Filled => j \in A
  /\ Filled - 1 \in A => tailBlock = K[Filled - 1]
  /\ pc = "put" => tail % BLOCK_SIZE = 0 /\ job.n = 1
  /\ pc = "tail" => job.n \in Nat
  /\ pc \in {"chain", "link", "items"} =>
       /\ job.n \in Nat /\ job.got \in Nat /\ job.todo \in Nat
       /\ Filled + job.todo = Over(tail + job.n) /\ job.base = Pos(Filled) - BLOCK_SIZE
       /\ pc = "items" <=> job.todo = 0
       /\ job = [n |-> job.n, canAlloc |-> job.canAlloc, todo |-> job.todo, base |-> job.base,
                 first |-> job.first, start |-> job.start, got |-> job.got]
       /\ job.start \in Blocks \cup {0} /\ (Over(tail) - 1 \in A => job.start = K[Over(tail) - 1])
       /\ job.first = IF job.got = 0 THEN 0 ELSE K[Over(tail)]
       /\ \A j \in Nat : Over(tail) <= j /\ j + 1 < Filled => next[K[j]] = K[j + 1]

Witnesses(A, K, C) ==
  A \subseteq Nat /\ K \in [Nat -> Blocks \cup {0}] /\ (\A j \in A : K[j] \in Blocks) /\ C \in [Nat -> Nat]
InUse(A, K, C) ==
  /\ Witnesses(A, K, C) /\ Indexed(A, K, C) /\ Stocked(A, K)
  /\ (\A c \in Consumers : Knows(c, A, K, C)) /\ Apart /\ Producing(A, K)

Gone == pc = "gone" /\ (\A c \in Consumers : at[c] = "idle") /\ OneHome /\ CleanEnd
QueueInv == Implicit => BlockTypes /\ IndexTypes /\ (Gone \/ \E A, K, C : InUse(A, K, C))
-----------------------------------------------------------------------------
(* Numbers of blocks *)

\* Positions of blocks.
LEMMA PosInt ==
  ASSUME NEW j \in Int
  PROVE  Pos(j) \in Int /\ (j \in Nat => Pos(j) \in Nat)
  BY SizesAssumption DEF Pos

LEMMA PosNext ==
  ASSUME NEW j \in Int, NEW k \in Int, k = j + 1
  PROVE  Pos(j) \in Int /\ Pos(k) = Pos(j) + BLOCK_SIZE
  BY SizesAssumption DEF Pos

LEMMA PosZero == Pos(0) = 0
  BY SizesAssumption DEF Pos

LEMMA PosOrder ==
  ASSUME NEW j \in Int, NEW k \in Int, j < k
  PROVE  Pos(j) + BLOCK_SIZE <= Pos(k)
<1>1. PICK b \in Nat \ {0} : b = BLOCK_SIZE
  BY SizesAssumption
<1>2. PICK d \in Nat : k = j + 1 + d
  <2>1. k - j - 1 \in Nat /\ k = j + 1 + (k - j - 1)
    OBVIOUS
  <2> QED
    BY <2>1
<1>3. b * k = b * j + b + b * d
  BY <1>2
<1>4. b * d \in Nat /\ b * j \in Int
  OBVIOUS
<1> QED
  BY <1>1, <1>3, <1>4 DEF Pos

\* An item lies in its block, at its offset.
LEMMA NumIs ==
  ASSUME NEW i \in Int
  PROVE  /\ Num(i) \in Int /\ (i \in Nat => Num(i) \in Nat) /\ i % BLOCK_SIZE \in Offsets
         /\ i = Pos(Num(i)) + (i % BLOCK_SIZE) /\ Base(i) = Pos(Num(i))
<1>1. PICK b \in Nat \ {0} : b = BLOCK_SIZE
  BY SizesAssumption
<1>2. i \div b \in Int /\ (i \in Nat => i \div b \in Nat) /\ i % b \in 0 .. b - 1 /\ i = b * (i \div b) + (i % b)
  OBVIOUS
<1>3. PICK d \in Int, r \in 0 .. b - 1 : d = i \div b /\ r = i % b /\ i = b * d + r
  BY <1>2
<1>4. i - r = b * d
  BY <1>3
<1> QED
  BY <1>1, <1>2, <1>3, <1>4 DEF Num, Pos, Base, Offsets

\* And in no other.
LEMMA NumOf ==
  ASSUME NEW j \in Int, NEW o \in Offsets
  PROVE  Pos(j) + o \in Int /\ Num(Pos(j) + o) = j /\ (Pos(j) + o) % BLOCK_SIZE = o
<1>1. PICK b \in Nat \ {0}, x \in Int, i \in Int : b = BLOCK_SIZE /\ o \in 0 .. b - 1 /\ x = Pos(j) /\ i = x + o
  BY SizesAssumption, PosInt DEF Offsets
<1>2. PICK k \in Int, p \in Offsets : k = Num(i) /\ p = i % BLOCK_SIZE /\ i = Pos(k) + p
  <2>1. Num(i) \in Int /\ i % BLOCK_SIZE \in Offsets /\ i = Pos(Num(i)) + (i % BLOCK_SIZE)
    BY NumIs
  <2> QED
    BY <2>1
<1>3. PICK y \in Int : y = Pos(k) /\ p \in 0 .. b - 1 /\ x + o = y + p
  BY <1>1, <1>2, PosInt DEF Offsets
<1>4. j < k => x + b <= y
  BY <1>1, <1>3, PosOrder
<1>5. k < j => y + b <= x
  BY <1>1, <1>3, PosOrder
<1>6. j = k
  BY <1>1, <1>3, <1>4, <1>5
<1>7. o = p
  BY <1>1, <1>3, <1>6
<1> QED
  BY <1>1, <1>2, <1>6, <1>7

\* The number of an item between two positions.
LEMMA NumBetween ==
  ASSUME NEW j \in Int, NEW i \in Int, Pos(j) <= i, i < Pos(j) + BLOCK_SIZE
  PROVE  Num(i) = j
<1>1. Pos(j) \in Int /\ BLOCK_SIZE \in Nat
  BY SizesAssumption, PosInt
<1>2. i - Pos(j) \in Offsets /\ i = Pos(j) + (i - Pos(j))
  BY <1>1 DEF Offsets
<1> QED
  BY <1>2, NumOf

\* Items in order are in blocks in order.
LEMMA NumOrder ==
  ASSUME NEW i \in Int, NEW k \in Int, i <= k
  PROVE  Num(i) <= Num(k)
<1>1. Num(i) \in Int /\ Num(k) \in Int /\ Pos(Num(i)) \in Int /\ Pos(Num(k)) \in Int /\ BLOCK_SIZE \in Nat \ {0}
      /\ Pos(Num(i)) <= i /\ k < Pos(Num(k)) + BLOCK_SIZE
  BY NumIs, PosInt, SizesAssumption, SMTT(40) DEF Offsets
<1>2. Num(k) < Num(i) => Pos(Num(k)) + BLOCK_SIZE <= Pos(Num(i))
  BY <1>1, PosOrder
<1> QED
  BY <1>1, <1>2

\* The blocks that t items take.
LEMMA OverIs ==
  ASSUME NEW t \in Nat
  PROVE  /\ Over(t) \in Nat /\ t <= Pos(Over(t)) /\ Pos(Over(t)) < t + BLOCK_SIZE
         /\ (t % BLOCK_SIZE = 0 => Over(t) = Num(t) /\ Pos(Num(t)) = t)
         /\ (t % BLOCK_SIZE # 0 => Over(t) = Num(t) + 1)
         /\ Base(t - 1) = Pos(Over(t)) - BLOCK_SIZE
<1>0. PICK u \in Int, b \in Nat \ {0} : u = t - 1 /\ b = BLOCK_SIZE
  BY SizesAssumption
<1>7. Num(u) \in Int /\ u % BLOCK_SIZE \in Offsets /\ u = Pos(Num(u)) + (u % BLOCK_SIZE) /\ Base(u) = Pos(Num(u))
  BY NumIs
<1>1. PICK k \in Int, o \in Int : k = Num(u) /\ u = Pos(k) + o /\ 0 <= o /\ o < b /\ Base(u) = Pos(k)
  BY <1>0, <1>7 DEF Offsets
<1>2. Over(t) = k + 1 /\ Pos(k + 1) = Pos(k) + b /\ Pos(k) \in Int
  BY <1>0, <1>1, PosNext DEF Over
<1>3. t <= Pos(k + 1) /\ Pos(k + 1) < t + b /\ t = Pos(k) + o + 1
  BY <1>0, <1>1, <1>2
<1>4. k + 1 \in Nat
  <2>1. k + 1 < 0 => Pos(k + 1) + b <= Pos(0)
    BY <1>0, <1>1, PosOrder
  <2> QED
    BY <1>1, <1>2, <1>3, <2>1, PosZero
<1>5. CASE o + 1 = b
  <2>1. t = Pos(k + 1) + 0 /\ 0 \in Offsets
    BY <1>0, <1>1, <1>2, <1>3, <1>5 DEF Offsets
  <2>2. Num(t) = k + 1 /\ t % BLOCK_SIZE = 0
    BY <2>1, NumOf
  <2>3. Pos(k + 1) = t
    BY <1>0, <1>1, <1>2, <1>3, <1>5
  <2> QED
    BY <1>0, <1>1, <1>2, <1>4, <2>2, <2>3
<1>6. CASE o + 1 < b
  <2>1. t = Pos(k) + (o + 1) /\ o + 1 \in Offsets /\ o + 1 # 0
    BY <1>0, <1>1, <1>2, <1>3, <1>6 DEF Offsets
  <2>2. Num(t) = k /\ t % BLOCK_SIZE = o + 1
    BY <2>1, NumOf
  <2> QED
    BY <1>0, <1>1, <1>2, <1>3, <1>4, <2>1, <2>2
<1> QED
  BY <1>1, <1>5, <1>6

LEMMA OverIt ==
  ASSUME NEW t \in Nat, NEW j \in Int, t <= Pos(j), Pos(j) < t + BLOCK_SIZE
  PROVE  Over(t) = j
<1>1. Over(t) \in Int /\ Pos(Over(t)) \in Int /\ Pos(j) \in Int /\ BLOCK_SIZE \in Nat
  BY OverIs, PosInt, SizesAssumption
<1>2. t <= Pos(Over(t)) /\ Pos(Over(t)) < t + BLOCK_SIZE
  BY OverIs
<1>3. Over(t) < j => Pos(Over(t)) + BLOCK_SIZE <= Pos(j)
  BY <1>1, PosOrder
<1>4. j < Over(t) => Pos(j) + BLOCK_SIZE <= Pos(Over(t))
  BY <1>1, PosOrder
<1> QED
  BY <1>1, <1>2, <1>3, <1>4
-----------------------------------------------------------------------------
(* The index *)

\* The way from the base at a slot to the slot of a number, on words that are a
\* multiple of what the index holds.
Whole(w, n)   == w % (BLOCK_SIZE * n) = 0
Way(w, j, d, x) == x = (Pos(j) - (Pos(d) % w)) % w
Arrives(n, c, d, x, j) == (((c + d) % n) + (x \div BLOCK_SIZE)) % n = (c + j) % n

LEMMA Located ==
  ASSUME NEW n \in Nat \ {0}, NEW w \in Nat \ {0}, Whole(w, n),
         NEW c \in Nat, NEW j \in Nat, NEW d \in Nat, NEW x \in Nat, Way(w, j, d, x)
  PROVE  Arrives(n, c, d, x, j)
<1>1. PICK b \in Nat \ {0} : b = BLOCK_SIZE
  BY SizesAssumption
<1>2. PICK e \in Int : e = j - d
  OBVIOUS
<1>3. x = (b * e) % w
  <2>1. PICK p \in Int, q \in Int : p = Pos(j) /\ q = Pos(d) /\ p - q = b * e
    <3>1. b * e = b * j - b * d
      BY <1>2
    <3> QED
      BY <1>1, <3>1 DEF Pos
  <2>2. (p - (q % w)) % w = (p - q) % w
    BY ONLY w \in Nat \ {0}, p \in Int, q \in Int, LessRound
  <2> QED
    BY <2>1, <2>2 DEF Way
<1>4. PICK v \in Nat \ {0} : v = b * n
  OBVIOUS
<1>5. PICK r \in Int : w = v * r
  <2>1. w % v = 0
    BY <1>1, <1>4 DEF Whole
  <2>2. w = v * (w \div v)
    BY ONLY <2>1, w \in Nat \ {0}, v \in Nat \ {0}
  <2> QED
    BY <2>2
<1>6. PICK q \in Int : x = b * e - w * q
  <2>1. PICK y \in Int : y = b * e
    OBVIOUS
  <2>2. y = w * (y \div w) + (y % w) /\ y \div w \in Int
    BY ONLY y \in Int, w \in Nat \ {0}
  <2>3. PICK q \in Int : q = y \div w
    BY <2>2
  <2>4. PICK z \in Int : z = w * q
    OBVIOUS
  <2>5. y = z + x
    BY <1>3, <2>1, <2>2, <2>3, <2>4
  <2> QED
    BY <2>1, <2>4, <2>5
<1>7. PICK k \in Int : k = r * q
  OBVIOUS
<1>8. w * q = b * (n * k)
  BY <1>4, <1>5, <1>7
<1>9. PICK g \in Int : g = n * k
  OBVIOUS
<1>10. x = b * (e - g)
  BY <1>6, <1>8, <1>9
<1>11. x \div b = e - g
  <2>1. PICK u \in Int : u = e - g
    OBVIOUS
  <2>2. x = b * u
    BY <1>10, <2>1
  <2>3. (b * u) \div b = u
    BY ONLY b \in Nat \ {0}, u \in Int
  <2> QED
    BY <2>1, <2>2, <2>3
<1>12. (((c + d) % n) + (e - g)) % n = ((c + d) + (e - g)) % n
  <2>1. PICK y \in Int, z \in Int : y = c + d /\ z = e - g
    OBVIOUS
  <2>2. ((y % n) + z) % n = (y + z) % n
    BY RoundOn
  <2> QED
    BY <2>1, <2>2
<1>13. ((c + d) + (e - g)) % n = (c + j) % n
  <2>1. PICK y \in Int, z \in Int, l \in Int : y = (c + d) + (e - g) /\ z = c + j /\ l = 0 - k
    OBVIOUS
  <2>2. y - z = n * l
    BY <1>2, <1>9, <2>1
  <2>3. y % n = z % n
    BY ONLY <2>2, n \in Nat \ {0}, y \in Int, z \in Int, l \in Int, SameRemainder
  <2> QED
    BY <2>1, <2>3
<1> QED
  BY <1>1, <1>11, <1>12, <1>13 DEF Arrives

\* How long a sequence is.
LEMMA LenOf ==
  ASSUME NEW s, NEW m \in Nat, DOMAIN s = 1 .. m
  PROVE  Len(s) = m
  OBVIOUS

\* Words are numbers.
LEMMA Words == ASSUME NEW x \in Int, Wrap \in Nat \ {0} PROVE W(x) \in Nat
  BY DEF W

\* The slots of a header are in its index, and the entries there are.
LEMMA SlotIn ==
  ASSUME IndexTypes, NEW C \in [Nat -> Nat], NEW h \in 1 .. Len(headers), NEW j \in Nat
  PROVE  /\ h \in Nat /\ Size(headers[h]) \in Nat \ {0} /\ Slot(C, h, j) \in 0 .. Size(headers[h]) - 1
         /\ headers[h].index[Slot(C, h, j)] \in 1 .. Len(entries)
<1>1. Size(headers[h]) \in Nat \ {0} /\ headers[h].index \in [0 .. Size(headers[h]) - 1 -> 1 .. Len(entries)]
  <2>1. Heading(headers[h])
    BY DEF IndexTypes
  <2> QED
    BY <2>1 DEF Heading
<1>4. h \in Nat
  BY DEF IndexTypes
<1>2. C[h] + j \in Nat
  <2>1. PICK a \in Nat : a = C[h]
    BY <1>4
  <2>2. a + j \in Nat
    BY ONLY a \in Nat, j \in Nat
  <2> QED
    BY ONLY <2>1, <2>2
<1>3. Slot(C, h, j) \in 0 .. Size(headers[h]) - 1
  BY <1>1, <1>2, Remainder DEF Slot
<1> QED
  BY <1>1, <1>3, <1>4

LEMMA PlaceIn ==
  ASSUME IndexTypes, NEW C \in [Nat -> Nat], NEW j \in Nat
  PROVE  /\ Len(headers) \in 1 .. Len(headers) /\ Header = headers[Len(headers)] /\ Heading(Header)
         /\ Place(C, j) \in 1 .. Len(entries)
<1>1. Len(headers) \in 1 .. Len(headers) /\ Header = headers[Len(headers)]
  BY DEF IndexTypes, Header
<1>2. Heading(Header)
  BY <1>1 DEF IndexTypes
<1> QED
  BY <1>1, <1>2, SlotIn DEF Place

\* The slots go round.
LEMMA SlotRound ==
  ASSUME IndexTypes, NEW C \in [Nat -> Nat], NEW h \in 1 .. Len(headers), NEW j \in Nat, NEW k \in Nat,
         k = j + Size(headers[h])
  PROVE  Slot(C, h, k) = Slot(C, h, j)
<1>1. PICK n \in Nat \ {0}, c \in Nat : n = Size(headers[h]) /\ c = C[h]
  <2>1. Size(headers[h]) \in Nat \ {0} /\ h \in Nat
    BY SlotIn
  <2> QED
    BY <2>1
<1>2. PICK x \in Int, y \in Int : x = c + k /\ y = c + j
  OBVIOUS
<1>3. x - y = n * 1
  BY <1>1, <1>2, SMTT(40)
<1>4. x % n = y % n
  BY ONLY <1>3, n \in Nat \ {0}, x \in Int, y \in Int, 1 \in Int, SameRemainder
<1> QED
  BY <1>1, <1>2, <1>4 DEF Slot

LEMMA SlotNext ==
  ASSUME IndexTypes, NEW C \in [Nat -> Nat], NEW h \in 1 .. Len(headers), NEW j \in Nat, NEW k \in Nat
  PROVE  Slot(C, h, k) = (Slot(C, h, j) + (k - j)) % Size(headers[h])
<1>1. PICK n \in Nat \ {0}, c \in Nat : n = Size(headers[h]) /\ c = C[h]
  <2>1. Size(headers[h]) \in Nat \ {0} /\ h \in Nat
    BY SlotIn
  <2> QED
    BY <2>1
<1>2. PICK x \in Int, i \in Int : x = c + j /\ i = k - j /\ c + k = x + i
  OBVIOUS
<1>3. ((x % n) + i) % n = (x + i) % n
  BY ONLY n \in Nat \ {0}, x \in Int, i \in Int, RoundOn
<1> QED
  BY <1>1, <1>2, <1>3 DEF Slot

\* Numbers that are near each other have different entries.
LEMMA PlacesApart ==
  ASSUME IndexTypes, NEW C \in [Nat -> Nat], NEW A, NEW K, Indexed(A, K, C), NEW j \in Nat, NEW d \in Nat,
         j < d, d < j + Size(Header)
  PROVE  Place(C, j) # Place(C, d)
<1> SUFFICES ASSUME Place(C, j) = Place(C, d) PROVE FALSE
  OBVIOUS
<1>1. PICK L \in 1 .. Len(headers) : L = Len(headers) /\ Header = headers[L]
  BY PlaceIn
<1>2. Slot(C, L, j) \in 0 .. Size(headers[L]) - 1 /\ headers[L].index[Slot(C, L, j)] = Place(C, d)
  BY <1>1, SlotIn DEF Place
<1>3. Slot(C, L, j) = Slot(C, L, d)
  BY <1>2 DEF Indexed
<1>4. PICK n \in Nat \ {0} : n = Size(headers[L])
  BY SlotIn
<1>7. PICK c \in Nat : c = C[L]
  <2>1. L \in Nat
    BY DEF IndexTypes
  <2> QED
    BY <2>1
<1>5. PICK x \in Int, y \in Int : x = c + j /\ y = c + d
  OBVIOUS
<1>6. x % n = y % n
  BY <1>3, <1>4, <1>5, <1>7 DEF Slot
<1>8. x - y < n /\ y - x < n /\ x # y
  <2>1. d < j + n
    BY <1>1, <1>4
  <2> QED
    BY <1>5, <2>1
<1> QED
  BY ONLY <1>6, <1>8, n \in Nat \ {0}, x \in Int, y \in Int, NearAndSame

\* Where the indexes stay, so do all the slots; and where the bases stay, they tell
\* the same.
LEMMA SameSlots ==
  ASSUME IndexTypes, NEW C \in [Nat -> Nat], Len(headers') = Len(headers),
         \A h \in 1 .. Len(headers) : headers'[h].index = headers[h].index
  PROVE  /\ \A h \in 1 .. Len(headers) : Size(headers'[h]) = Size(headers[h])
         /\ \A h \in 1 .. Len(headers) : \A j : Slot(C, h, j)' = Slot(C, h, j)
         /\ Size(Header)' = Size(Header) /\ \A j : Place(C, j)' = Place(C, j)
<1>1. \A h \in 1 .. Len(headers) : Size(headers'[h]) = Size(headers[h])
  BY DEF Size
<1>2. \A h \in 1 .. Len(headers) : \A j : Slot(C, h, j)' = Slot(C, h, j)
  BY <1>1 DEF Slot
<1>3. Len(headers) \in 1 .. Len(headers)
  BY DEF IndexTypes
<1>4. Size(Header)' = Size(Header) /\ \A j : Place(C, j)' = Place(C, j)
  BY <1>1, <1>2, <1>3 DEF Header, Place
<1> QED
  BY <1>1, <1>2, <1>4

LEMMA SameTells ==
  ASSUME IndexTypes, NEW C \in [Nat -> Nat], setup' = setup, Len(headers') = Len(headers),
         \A h \in 1 .. Len(headers) : headers'[h].index = headers[h].index,
         \A e \in 1 .. Len(entries) : entries'[e].base = entries[e].base
  PROVE  \A h \in 1 .. Len(headers) : \A s : s \in 0 .. Size(headers[h]) - 1 =>
           (Tells(C, h, s)' <=> Tells(C, h, s))
<1> SUFFICES ASSUME NEW h \in 1 .. Len(headers), NEW s \in 0 .. Size(headers[h]) - 1
             PROVE  Tells(C, h, s)' <=> Tells(C, h, s)
  OBVIOUS
<1>1. \A j : Slot(C, h, j)' = Slot(C, h, j)
  BY SameSlots
<1>2. headers[h].index[s] \in 1 .. Len(entries)
  BY DEF IndexTypes, Heading
<1>3. entries'[headers'[h].index[s]].base = entries[headers[h].index[s]].base
  BY <1>2
<1>4. \A x : W(x)' = W(x)
  BY DEF W, Wrap
<1> QED
  BY <1>1, <1>3, <1>4 DEF Tells

\* An entry inserted in the index in use.
Follows(A, C, D) ==
  \A h \in 1 .. Len(headers) :
    /\ h \in 1 .. Len(headers') /\ headers'[h].index = headers[h].index
    /\ \A j \in Nat : Slot(D, h, j)' = Slot(C, h, j)
    /\ \A s \in 0 .. Size(headers[h]) - 1 : Tells(C, h, s) => Tells(D, h, s)'
    /\ \A j \in A : Leads(C, h, j) => Leads(D, h, j)'

LEMMA InsertsHere ==
  ASSUME IndexTypes, NEW A, NEW K, NEW C, Witnesses(A, K, C), setup' = setup, Wrap \in Nat \ {0}, Indexed(A, K, C), Filled \in Nat, Entered = Filled, NextUsable, InsertEntry(Pos(Filled)),
         Filled' = Filled, Entered' = Filled + 1
  PROVE  IndexTypes' /\ Indexed(A, K, C)' /\ Follows(A, C, C)
<1>0. C \in [Nat -> Nat]
  BY DEF Witnesses
<1>1. PICK L \in 1 .. Len(headers) : L = Len(headers) /\ Header = headers[L] /\ Heading(headers[L])
  BY <1>0, PlaceIn
<1>2. PICK n \in Nat \ {0}, M \in Nat, w \in Nat : n = Size(headers[L]) /\ M = Filled /\ w = W(Pos(M))
  <2>1. Size(headers[L]) \in Nat \ {0}
    BY <1>0, SlotIn
  <2>2. W(Pos(Filled)) \in Nat
    <3>1. Pos(Filled) \in Int
      BY PosInt
    <3> QED
      BY <3>1, Words
  <2> QED
    BY <2>1, <2>2
<1>3. PICK f \in 0 .. n - 1, e \in 1 .. Len(entries) :
        f = Slot(C, L, M) /\ e = headers[L].index[f] /\ e = Place(C, M) /\ f = (headers[L].front + 1) % n
  BY <1>0, <1>1, <1>2, SlotIn, PlaceIn DEF Indexed, Place
<1>4. entries[e].block = 0
  <2>1. EntryAt(Header, Header.front + 1) = e
    BY <1>1, <1>2, <1>3 DEF EntryAt
  <2>2. Usable(e)
    BY <2>1 DEF NextUsable
  <2> QED
    BY <2>2 DEF Usable, NoEntry
<1>5. headers' = [headers EXCEPT ![L].front = f] /\ entries' = [entries EXCEPT ![e].base = w]
  BY <1>1, <1>2, <1>3 DEF InsertEntry
<1>6. /\ Len(headers') = Len(headers) /\ \A h \in 1 .. Len(headers) : headers'[h].index = headers[h].index
      /\ \A h \in 1 .. Len(headers) : h # L => headers'[h] = headers[h]
      /\ headers'[L] = [front |-> f, index |-> headers[L].index] /\ headers' = [h \in 1 .. Len(headers) |-> headers'[h]]
  <2>1. Len(headers) \in Nat /\ DOMAIN headers = 1 .. Len(headers)
    BY DEF IndexTypes
  <2>2. DOMAIN headers' = 1 .. Len(headers) /\ \A h \in 1 .. Len(headers) : h # L => headers'[h] = headers[h]
    BY <1>5, <2>1
  <2>3. headers'[L] = [front |-> f, index |-> headers[L].index]
    BY <1>1, <1>5, <2>1 DEF Heading
  <2>4. headers' = [h \in 1 .. Len(headers) |-> headers'[h]]
    BY <1>5, <2>1
  <2>5. Len(headers') = Len(headers)
    BY <2>1, <2>2, LenOf
  <2>6. \A h \in 1 .. Len(headers) : headers'[h].index = headers[h].index
    BY <2>2, <2>3
  <2> QED
    BY <2>2, <2>3, <2>4, <2>5, <2>6
<1>7. /\ Len(entries') = Len(entries) /\ \A x \in 1 .. Len(entries) : x # e => entries'[x] = entries[x]
      /\ entries'[e] = [base |-> w, block |-> 0]
      /\ entries' \in [1 .. Len(entries) -> [base : Nat, block : Blocks \cup {0}]]
  <2>1. Len(entries) \in Nat /\ entries \in [1 .. Len(entries) -> [base : Nat, block : Blocks \cup {0}]]
    BY DEF IndexTypes
  <2>2. /\ DOMAIN entries' = 1 .. Len(entries) /\ \A x \in 1 .. Len(entries) : x # e => entries'[x] = entries[x]
        /\ entries'[e] = [base |-> w, block |-> 0] /\ entries' \in [1 .. Len(entries) -> [base : Nat, block : Blocks \cup {0}]]
    BY <1>3, <1>4, <1>5, <2>1, SMTT(40)
  <2> QED
    BY <2>1, <2>2, LenOf
<1>8. IndexTypes'
  <2>1. Blocks' = Blocks
    BY DEF Blocks
  <2>2. ASSUME NEW h \in 1 .. Len(headers) PROVE Heading(headers[h])'
    <3>1. Heading(headers[h]) /\ headers'[h].index = headers[h].index /\ Len(entries') = Len(entries)
      BY <1>6, <1>7 DEF IndexTypes
    <3>2. CASE h = L
      BY <1>2, <1>6, <3>1, <3>2 DEF Heading, Size
    <3>3. CASE h # L
      BY <1>6, <3>1, <3>3 DEF Heading, Size
    <3> QED
      BY <3>2, <3>3
  <2>3. Len(headers) \in Nat \ {0} /\ Len(entries) \in Nat
    BY DEF IndexTypes
  <2>4. \A h \in 1 .. Len(headers') : Heading(headers[h])'
    BY <1>6, <2>2
  <2>5. headers' = [h \in 1 .. Len(headers') |-> headers'[h]] /\ Len(headers') \in Nat \ {0}
    BY <1>6, <2>3
  <2>6. entries' \in [1 .. Len(entries') -> [base : Nat, block : Blocks' \cup {0}]] /\ Len(entries') \in Nat
    BY <1>7, <2>1, <2>3
  <2> QED
    BY <2>4, <2>5, <2>6 DEF IndexTypes
<1>9. /\ \A h \in 1 .. Len(headers) : Size(headers'[h]) = Size(headers[h])
      /\ \A h \in 1 .. Len(headers) : \A j : Slot(C, h, j)' = Slot(C, h, j)
      /\ Size(Header)' = Size(Header) /\ \A j : Place(C, j)' = Place(C, j)
      /\ \A x : W(x)' = W(x)
  <2>1. \A x : W(x)' = W(x)
    BY DEF W, Wrap
  <2> QED
    BY <1>0, <1>6, <2>1, SameSlots
<1>10. ASSUME NEW h \in 1 .. Len(headers), NEW s \in 0 .. Size(headers[h]) - 1, Tells(C, h, s)
       PROVE  Tells(C, h, s)'
  <2>1. headers[h].index[s] \in 1 .. Len(entries)
    BY DEF IndexTypes, Heading
  <2>2. CASE headers[h].index[s] = e
    <3>1. s = Slot(C, h, M)
      BY <1>2, <1>3, <2>2, SMTT(40) DEF Indexed
    <3>2. entries'[headers'[h].index[s]].base = W(Pos(M))
      BY <1>2, <1>6, <1>7, <2>2
    <3> QED
      BY <1>9, <3>1, <3>2 DEF Tells
  <2>3. CASE headers[h].index[s] # e
    <3>1. entries'[headers'[h].index[s]] = entries[headers[h].index[s]]
      BY <1>6, <1>7, <2>1, <2>3
    <3> QED
      BY <1>9, <1>10, <3>1 DEF Tells
  <2> QED
    BY <2>2, <2>3
<1>11. ASSUME NEW j \in A
       PROVE  j \in Nat /\ j < M /\ M + 1 <= j + n /\ entries[Place(C, j)] = [base |-> W(Pos(j)), block |-> K[j]]
  <2>1. j \in Nat /\ K[j] \in Blocks /\ 0 \notin Blocks
    BY DEF Witnesses, Blocks
  <2>2. j < M /\ M <= j + n /\ entries[Place(C, j)] = [base |-> W(Pos(j)), block |-> K[j]]
    BY <1>1, <1>2 DEF Indexed
  <2>3. CASE M = j + n
    <3>1. Slot(C, L, M) = Slot(C, L, j)
      <4>1. j \in Nat /\ M \in Nat /\ M = j + Size(headers[L])
        BY <1>2, <2>1, <2>3
      <4> QED
        BY <1>0, <4>1, SlotRound, ZenonT(40)
    <3>2. Place(C, j) = e
      BY <1>1, <1>3, <3>1 DEF Place
    <3> QED
      BY <1>4, <2>1, <2>2, <3>2
  <2> QED
    BY <2>1, <2>2, <2>3, SMTT(40)
<1>12. ASSUME NEW d \in Nat, d < M, M < d + n
       PROVE  Place(C, d) \in 1 .. Len(entries) /\ entries'[Place(C, d)] = entries[Place(C, d)]
  <2>1. Place(C, d) # Place(C, M)
    BY <1>0, <1>1, <1>2, <1>12, PlacesApart
  <2> QED
    BY <1>0, <1>3, <1>7, <2>1, PlaceIn
<1>13. Indexed(A, K, C)'
  <2>1. \A h \in 1 .. Len(headers'), j \in Nat : \A s \in 0 .. Size(headers'[h]) - 1 :
          headers'[h].index[s] = Place(C, j)' => s = Slot(C, h, j)'
    BY <1>6, <1>9, SMTT(40) DEF Indexed
  <2>2. (Header'.front + 1) % Size(Header)' = Slot(C, Len(headers), M + 1)'
    <3>1. Header' = headers'[L] /\ Size(Header)' = n
      BY <1>1, <1>2, <1>6, <1>9 DEF Header
    <3>2. Slot(C, L, M + 1) = (f + 1) % n
      <4>1. M + 1 \in Nat /\ (M + 1) - M = 1
        OBVIOUS
      <4>2. Slot(C, L, M + 1) = (Slot(C, L, M) + ((M + 1) - M)) % Size(headers[L])
        BY <1>0, <4>1, SlotNext, ZenonT(40)
      <4> QED
        BY <1>2, <1>3, <4>1, <4>2
    <3> QED
      BY <1>1, <1>6, <1>9, <3>1, <3>2
  <2>3. entries'[Place(C, M)'].base = W(Pos(M))'
    BY <1>2, <1>3, <1>7, <1>9, SMTT(40)
  <2>4. ASSUME NEW j \in A
        PROVE  /\ j < M /\ M + 1 <= j + Size(Header)'
               /\ entries'[Place(C, j)'] = [base |-> W(Pos(j))', block |-> K[j]]
               /\ \A d \in j .. M : entries'[Place(C, d)'].base = W(Pos(d))'
    <3>1. j \in Nat /\ j < M /\ M + 1 <= j + n /\ n = Size(Header)'
      BY <1>1, <1>2, <1>9, <1>11
    <3>2. entries'[Place(C, j)'] = [base |-> W(Pos(j))', block |-> K[j]]
      <4>1. Place(C, j)' = Place(C, j) /\ W(Pos(j))' = W(Pos(j))
        BY <1>9 DEF Pos
      <4>2. entries'[Place(C, j)] = entries[Place(C, j)]
        BY <1>12, <3>1
      <4> QED
        BY <1>11, <4>1, <4>2
    <3>3. ASSUME NEW d \in j .. M PROVE entries'[Place(C, d)'].base = W(Pos(d))'
      <4>1. CASE d = M
        BY <2>3, <4>1
      <4>2. CASE d < M
        <5>1. d \in Nat /\ M < d + n /\ d \in j .. Entered - 1
          BY <1>2, <3>1, <4>2, SMTT(40)
        <5>2. entries[Place(C, d)].base = W(Pos(d))
          BY <5>1 DEF Indexed
        <5> QED
          BY <1>9, <1>12, <4>2, <5>1, <5>2
      <4> QED
        BY <3>1, <4>1, <4>2
    <3> QED
      BY <3>1, <3>2, <3>3
  <2>5. Filled' = M /\ Entered' = M + 1 /\ Entered' - 1 = M
    BY <1>2
  <2> QED
    BY <2>1, <2>2, <2>3, <2>4, <2>5 DEF Indexed
<1>14. Follows(A, C, C)
  <2> SUFFICES ASSUME NEW h \in 1 .. Len(headers), NEW j \in A, Leads(C, h, j) PROVE Leads(C, h, j)'
    BY <1>6, <1>9, <1>10 DEF Follows
  <2>1. headers'[h].index[Slot(C, h, j)'] = Place(C, j)'
    BY <1>6, <1>9 DEF Leads
  <2>2. Tells(C, h, headers[h].front)'
    <3>1. CASE h = L
      <4>1. entries'[headers'[L].index[f]].base = W(Pos(M))' /\ f = Slot(C, L, M)'
        <5>1. headers'[L].index[f] = e
          BY <1>3, <1>6
        <5>2. entries'[headers'[L].index[f]].base = W(Pos(M))
          BY <1>2, <1>7, <5>1
        <5> QED
          BY <1>3, <1>9, <5>2
      <4> QED
        BY <1>6, <3>1, <4>1 DEF Tells
    <3>2. CASE h # L
      <4>1. headers'[h] = headers[h] /\ headers[h].front \in 0 .. Size(headers[h]) - 1
        BY <1>6, <3>2 DEF IndexTypes, Heading
      <4>2. Tells(C, h, headers[h].front)
        BY DEF Leads
      <4> QED
        BY <1>10, <4>1, <4>2
    <3> QED
      BY <3>1, <3>2
  <2> QED
    BY <2>1, <2>2 DEF Leads
<1> QED
  BY <1>8, <1>13, <1>14

\* An index that is full is followed by one twice as large.
LEMMA Doubled == ASSUME NEW n \in Nat \ {0} PROVE Cardinality(0 .. 2 * n - 1) = 2 * n /\ 2 * n \in Nat \ {0}
<1>1. 0 \in Int /\ 2 * n - 1 \in Int /\ 2 * n \in Nat \ {0} /\ ~ (0 > 2 * n - 1) /\ (2 * n - 1) - 0 + 1 = 2 * n
  OBVIOUS
<1>2. Cardinality(0 .. 2 * n - 1) = IF 0 > 2 * n - 1 THEN 0 ELSE (2 * n - 1) - 0 + 1
  BY ONLY <1>1, FS_Interval
<1> QED
  BY <1>1, <1>2

\* A sequence with n more of the same.
Pads(t, n, e)      == t = [x \in 1 .. n |-> e]
Padding(r, s, m, n, e) == r = [x \in 1 .. m + n |-> IF x <= m THEN s[x] ELSE e]

LEMMA Padded ==
  ASSUME NEW m \in Nat, NEW n \in Nat, NEW s, NEW t, NEW e, Len(s) = m, Pads(t, n, e)
  PROVE  Padding(s \o t, s, m, n, e)
<1>1. Len([x \in 1 .. n |-> e]) = n
  BY LenOf
<1>2. s \o [x \in 1 .. n |-> e] = [x \in 1 .. m + n |-> IF x <= m THEN s[x] ELSE e]
  BY ONLY <1>1, Len(s) = m, m \in Nat, n \in Nat
<1> QED
  BY <1>2 DEF Pads, Padding

LEMMA Grown ==
  ASSUME IndexTypes, ~ NextUsable, NEW p, InsertEntry(p)
  PROVE  \E L \in 1 .. Len(headers), n \in Nat \ {0}, m \in Nat :
           /\ L = Len(headers) /\ Header = headers[L] /\ n = Size(headers[L]) /\ m = Len(entries)
           /\ Len(headers') = L + 1 /\ headers' = [h \in 1 .. L + 1 |-> headers'[h]]
           /\ \A h \in 1 .. L : headers'[h] = headers[h]
           /\ headers'[L + 1] = [front |-> n, index |-> [k \in 0 .. 2 * n - 1 |->
                IF k < n THEN headers[L].index[(headers[L].front + 1 + k) % n] ELSE m + 1 + (k - n)]]
           /\ Len(entries') = m + n
           /\ entries' = [x \in 1 .. m + n |-> IF x <= m THEN entries[x]
                            ELSE IF x = m + 1 THEN [base |-> W(p), block |-> 0] ELSE NoEntry]
<1>1. PICK L \in 1 .. Len(headers), n \in Nat \ {0}, m \in Nat :
        L = Len(headers) /\ Header = headers[L] /\ n = Size(headers[L]) /\ m = Len(entries)
  <2>1. Len(headers) \in 1 .. Len(headers) /\ Heading(headers[Len(headers)]) /\ Len(entries) \in Nat
    BY DEF IndexTypes
  <2> QED
    BY <2>1 DEF Header, Heading
<1>2. PICK I, N, E, H :
        /\ I = [k \in 0 .. 2 * n - 1 |->
                 IF k < n THEN headers[L].index[(headers[L].front + 1 + k) % n] ELSE m + 1 + (k - n)]
        /\ N = [front |-> n - 1, index |-> I] /\ E = entries \o [k \in 1 .. n |-> NoEntry]
        /\ H = Append(headers, N)
  OBVIOUS
<1>3. Len(headers) \in Nat /\ DOMAIN headers = 1 .. Len(headers) /\ Len(entries) \in Nat /\ DOMAIN entries = 1 .. Len(entries)
  BY DEF IndexTypes
<1>4. TwiceTheIndex = H
  BY <1>1, <1>2 DEF TwiceTheIndex, NewHeader, EntryAt
<1>5. H = [h \in 1 .. L + 1 |-> IF h = L + 1 THEN N ELSE headers[h]]
  BY <1>1, <1>2, <1>3, SMTT(40)
<1>6. Len(H) = L + 1 /\ H[L + 1] = N
  BY <1>1, <1>3, <1>5, LenOf
<1>7. Size(N) = 2 * n
  <2>1. DOMAIN N.index = 0 .. 2 * n - 1
    BY <1>2
  <2> QED
    BY <2>1, Doubled DEF Size
<1>8. (N.front + 1) % Size(N) = n /\ N.index[n] = m + 1
  <2>1. PICK q \in Nat : q = 2 * n
    OBVIOUS
  <2>2. n % q = n
    BY <2>1
  <2>3. (N.front + 1) = n
    BY <1>2
  <2>4. n \in 0 .. 2 * n - 1 /\ ~ n < n /\ m + 1 + (n - n) = m + 1
    BY <2>1
  <2>5. I[n] = m + 1
    BY <1>2, <2>4, SMTT(40)
  <2> QED
    BY <1>2, <1>7, <2>1, <2>2, <2>3, <2>5
<1>9. headers' = [H EXCEPT ![L + 1].front = n]
  BY <1>4, <1>6, <1>8 DEF InsertEntry
<1>10. entries' = [E EXCEPT ![m + 1].base = W(p)]
  <2>2. E = entries \o [k \in 1 .. Size(Header) |-> NoEntry]
    BY <1>1, <1>2, SMTT(40)
  <2>3. entries' = [E EXCEPT ![H[Len(H)].index[(H[Len(H)].front + 1) % Size(H[Len(H)])]].base = W(p)]
    BY <1>4, <2>2, ZenonT(40) DEF InsertEntry
  <2>1. entries' = [E EXCEPT ![N.index[n]].base = W(p)]
    BY <1>6, <1>8, <2>3
  <2> QED
    BY <1>8, <2>1, SMTT(40)
<1>11. E = [x \in 1 .. m + n |-> IF x <= m THEN entries[x] ELSE NoEntry]
  <2>1. PICK F : Pads(F, n, NoEntry) /\ E = entries \o F /\ Len(entries) = m /\ n \in Nat
    BY <1>1, <1>2 DEF Pads
  <2>2. Padding(E, entries, m, n, NoEntry)
    BY <2>1, Padded
  <2> QED
    BY <2>2, SMTT(40) DEF Padding
<1>12. /\ Len(headers') = L + 1 /\ headers' = [h \in 1 .. L + 1 |-> headers'[h]]
       /\ \A h \in 1 .. L : headers'[h] = headers[h]
       /\ headers'[L + 1] = [front |-> n, index |-> I]
  <2>1. DOMAIN H = 1 .. L + 1 /\ L + 1 \in Nat /\ L + 1 \in 1 .. L + 1 /\ \A h \in 1 .. L : h # L + 1 /\ h \in 1 .. L + 1
    BY <1>1, <1>3, <1>5
  <2>2. DOMAIN headers' = 1 .. L + 1 /\ headers' = [h \in 1 .. L + 1 |-> headers'[h]]
    BY <1>9, <2>1
  <2>3. headers'[L + 1] = [front |-> n, index |-> I]
    <3>1. headers'[L + 1] = [N EXCEPT !.front = n]
      BY <1>6, <1>9, <2>1
    <3>3. N = [front |-> n - 1, index |-> I]
      BY <1>2
    <3>2. [N EXCEPT !.front = n] = [front |-> n, index |-> I]
      BY ONLY <3>3
    <3> QED
      BY <3>1, <3>2
  <2>4. \A h \in 1 .. L : headers'[h] = headers[h]
    BY <1>5, <1>9, <2>1
  <2> QED
    BY <2>1, <2>2, <2>3, <2>4, LenOf
<1>13. /\ Len(entries') = m + n
       /\ entries' = [x \in 1 .. m + n |-> IF x <= m THEN entries[x]
                        ELSE IF x = m + 1 THEN [base |-> W(p), block |-> 0] ELSE NoEntry]
  <2>1. m + 1 \in 1 .. m + n /\ ~ m + 1 <= m /\ m + n \in Nat
    OBVIOUS
  <2>2. [E[m + 1] EXCEPT !.base = W(p)] = [base |-> W(p), block |-> 0]
    BY <1>11, <2>1 DEF NoEntry
  <2>3. entries' = [x \in 1 .. m + n |-> IF x <= m THEN entries[x]
                        ELSE IF x = m + 1 THEN [base |-> W(p), block |-> 0] ELSE NoEntry]
    BY <1>10, <1>11, <2>1, <2>2
  <2> QED
    BY <2>1, <2>3, LenOf
<1> QED
  BY <1>1, <1>2, <1>12, <1>13, ZenonT(40)

\* Where it puts the numbers: the old ones in its lower half, in their order.
Anew(n, M) == n + (2 * n) * M - M
AtNext(n, M, a, f) == (f + 1) % n = (a + M) % n
SlotIn2(n, M, j) == (Anew(n, M) + j) % (2 * n)

LEMMA AnewIs == ASSUME NEW n \in Nat \ {0}, NEW M \in Nat PROVE Anew(n, M) \in Nat
<1>1. PICK t \in Nat : t = (2 * n - 1) * M
  OBVIOUS
<1>2. Anew(n, M) = n + t
  BY <1>1 DEF Anew
<1> QED
  BY <1>2

LEMMA SlotAnew ==
  ASSUME NEW n \in Nat \ {0}, NEW M \in Nat, NEW j \in Nat, NEW a \in Nat, NEW f \in Nat,
         AtNext(n, M, a, f)
  PROVE  /\ SlotIn2(n, M, j) \in 0 .. 2 * n - 1 /\ (f + 1 + SlotIn2(n, M, j)) % n = (a + j) % n
         /\ (j = M => SlotIn2(n, M, j) = n) /\ (j < M /\ M <= j + n => SlotIn2(n, M, j) = (n + j) - M)
<1> DEFINE s == SlotIn2(n, M, j)
<1>12. s = (Anew(n, M) + j) % (2 * n)
  BY DEF SlotIn2
<1> HIDE DEF s
<1> SUFFICES /\ s \in 0 .. 2 * n - 1 /\ (f + 1 + s) % n = (a + j) % n
             /\ (j = M => s = n) /\ (j < M /\ M <= j + n => s = (n + j) - M)
  BY DEF s
<1>1. PICK q \in Nat \ {0} : q = 2 * n /\ n < q
  OBVIOUS
<1> DEFINE c == n + (2 * n) * M - M
<1>10. Anew(n, M) = c
  BY DEF Anew
<1> HIDE DEF c
<1>11. c = n + (2 * n) * M - M
  BY DEF c
<1>2. c \in Nat
  BY <1>10, AnewIs
<1>3. PICK x \in Int, y \in Int : x = c + j /\ y = (n - M) + j
  BY <1>2
<1>4. x - y = q * M
  BY <1>1, <1>3, <1>11
<1>5. s = y % q /\ s \in 0 .. q - 1
  <2>1. x % q = y % q
    BY ONLY <1>4, q \in Nat \ {0}, x \in Int, y \in Int, M \in Int, SameRemainder
  <2>2. x \in Nat
    BY <1>2, <1>3
  <2> QED
    BY <1>1, <1>3, <1>10, <1>12, <2>1, <2>2, Remainder
<1>6. y \in 0 .. q - 1 => s = y
  BY <1>5
<1>7. q % n = 0
  <2>1. q - 0 = n * 2
    BY <1>1
  <2>2. q % n = 0 % n
    BY ONLY <2>1, n \in Nat \ {0}, q \in Int, 0 \in Int, 2 \in Int, SameRemainder
  <2> QED
    BY <2>2
<1>8. s % n = y % n
  <2>1. (y % q) % n = y % n
    BY ONLY <1>7, n \in Nat \ {0}, q \in Nat \ {0}, y \in Int, RemainderTwice
  <2> QED
    BY <1>5, <2>1
<1>9. (f + 1 + s) % n = (a + j) % n
  <2>1. PICK u \in Int, v \in Int, z \in Int : u = f + 1 /\ v = a + M /\ z = s /\ z \in 0 .. q - 1
    BY <1>5
  <2>2. (u + z) % n = (v + z) % n
    <3>1. u % n = v % n
      BY <2>1 DEF AtNext
    <3> QED
      BY ONLY <3>1, n \in Nat \ {0}, u \in Int, v \in Int, z \in Int, Shift, ZenonT(40)
  <2>3. (z + v) % n = (y + v) % n
    <3>1. z % n = y % n
      BY <1>8, <2>1
    <3> QED
      BY ONLY <3>1, n \in Nat \ {0}, y \in Int, v \in Int, z \in Int, Shift, ZenonT(40)
  <2>4. PICK g \in Int, h \in Int : g = y + v /\ h = a + j
    OBVIOUS
  <2>5. g - h = n * 1
    BY <1>3, <2>1, <2>4
  <2>6. g % n = h % n
    BY ONLY <2>5, n \in Nat \ {0}, g \in Int, h \in Int, 1 \in Int, SameRemainder
  <2>7. v + z = z + v /\ f + 1 + s = u + z
    BY <2>1
  <2> QED
    BY <2>2, <2>3, <2>4, <2>6, <2>7
<1> QED
  BY <1>1, <1>3, <1>5, <1>6, <1>9

LEMMA InsertsAnew ==
  ASSUME IndexTypes, NEW A, NEW K, NEW C, Witnesses(A, K, C), setup' = setup, Wrap \in Nat \ {0}, Indexed(A, K, C),
         Filled \in Nat, Entered = Filled, ~ NextUsable, InsertEntry(Pos(Filled)),
         Filled' = Filled, Entered' = Filled + 1
  PROVE  \E D : Witnesses(A, K, D) /\ IndexTypes' /\ Indexed(A, K, D)' /\ Follows(A, C, D)
<1>0. C \in [Nat -> Nat]
  BY DEF Witnesses
<1>1. PICK L \in 1 .. Len(headers), n \in Nat \ {0}, m \in Nat :
        /\ L = Len(headers) /\ Header = headers[L] /\ n = Size(headers[L]) /\ m = Len(entries)
        /\ Len(headers') = L + 1 /\ headers' = [h \in 1 .. L + 1 |-> headers'[h]]
        /\ \A h \in 1 .. L : headers'[h] = headers[h]
        /\ headers'[L + 1] = [front |-> n, index |-> [k \in 0 .. 2 * n - 1 |->
             IF k < n THEN headers[L].index[(headers[L].front + 1 + k) % n] ELSE m + 1 + (k - n)]]
        /\ Len(entries') = m + n
        /\ entries' = [x \in 1 .. m + n |-> IF x <= m THEN entries[x]
                         ELSE IF x = m + 1 THEN [base |-> W(Pos(Filled)), block |-> 0] ELSE NoEntry]
  BY Grown
<1>2. PICK M \in Nat, a \in Nat, f \in Nat, w \in Nat : M = Filled /\ a = C[L] /\ f = headers[L].front /\ w = W(Pos(M))
  <2>1. L \in Nat /\ Heading(headers[L])
    BY DEF IndexTypes
  <2>2. headers[L].front \in Nat
    BY <2>1 DEF Heading
  <2>3. W(Pos(Filled)) \in Nat
    BY PosInt, Words, SMTT(40)
  <2> QED
    BY <1>0, <2>1, <2>2, <2>3
<1>3. PICK I : /\ I = [k \in 0 .. 2 * n - 1 |-> IF k < n THEN headers[L].index[(f + 1 + k) % n] ELSE m + 1 + (k - n)]
               /\ headers'[L + 1] = [front |-> n, index |-> I]
  BY <1>1, <1>2
<1>4. (f + 1) % n = (a + M) % n
  <2>1. (Header.front + 1) % Size(Header) = Slot(C, Len(headers), Entered)
    BY DEF Indexed
  <2> QED
    BY <1>1, <1>2, <2>1 DEF Slot
<1>5. PICK c \in Nat : c = Anew(n, M)
  BY AnewIs
<1>6. PICK D : D = [C EXCEPT ![L + 1] = c]
  OBVIOUS
<1>7. D \in [Nat -> Nat] /\ D[L + 1] = c /\ \A h \in 1 .. L : D[h] = C[h]
  <2>1. L \in Nat
    BY DEF IndexTypes
  <2>2. L + 1 \in Nat /\ \A h \in 1 .. L : h \in Nat /\ h # L + 1
    BY <2>1
  <2> QED
    BY ONLY <1>0, <1>6, <2>2, c \in Nat
<1>8. Size(headers'[L + 1]) = 2 * n /\ Header' = headers'[L + 1] /\ L + 1 \in 1 .. L + 1 /\ L \in Nat
  <2>1. DOMAIN headers'[L + 1].index = 0 .. 2 * n - 1
    BY <1>3
  <2>2. L \in Nat
    BY DEF IndexTypes
  <2> QED
    BY <1>1, <2>1, <2>2, Doubled, SMTT(40) DEF Size, Header
<1>9. \A h \in 1 .. L : Size(headers'[h]) = Size(headers[h]) /\ \A j : Slot(D, h, j)' = Slot(C, h, j)
  BY <1>1, <1>7 DEF Slot, Size
<1>10. ASSUME NEW j \in Nat
       PROVE  \E s \in 0 .. 2 * n - 1 :
                /\ s = Slot(D, L + 1, j)' /\ (f + 1 + s) % n = (a + j) % n /\ Place(D, j)' = I[s]
                /\ (j = M => s = n) /\ (j < M /\ M <= j + n => s = (n + j) - M)
  <2>1. Slot(D, L + 1, j)' = (c + j) % (2 * n)
    BY <1>7, <1>8 DEF Slot
  <2>2. PICK s : s = SlotIn2(n, M, j) /\ s = (c + j) % (2 * n)
    BY <1>5 DEF SlotIn2
  <2>5. AtNext(n, M, a, f)
    BY <1>4 DEF AtNext
  <2>3. s \in 0 .. 2 * n - 1 /\ (f + 1 + s) % n = (a + j) % n /\ (j = M => s = n) /\ (j < M /\ M <= j + n => s = (n + j) - M)
    <3>1. SlotIn2(n, M, j) \in 0 .. 2 * n - 1
      BY <2>5, SlotAnew
    <3>2. (f + 1 + SlotIn2(n, M, j)) % n = (a + j) % n
      BY <2>5, SlotAnew
    <3>3. (j = M => SlotIn2(n, M, j) = n) /\ (j < M /\ M <= j + n => SlotIn2(n, M, j) = (n + j) - M)
      BY <2>5, SlotAnew
    <3> QED
      BY <2>2, <3>1, <3>2, <3>3
  <2>4. Place(D, j)' = I[s]
    <3>1. Place(D, j)' = headers'[L + 1].index[Slot(D, L + 1, j)']
      BY <1>1, <1>8 DEF Place
    <3>2. Slot(D, L + 1, j)' = s /\ headers'[L + 1].index = I
      BY <1>3, <2>1, <2>2, SMTT(40)
    <3> QED
      BY ONLY <3>1, <3>2
  <2> QED
    BY <2>1, <2>2, <2>3, <2>4
<1>11. ASSUME NEW j \in Nat, NEW s \in 0 .. 2 * n - 1, (f + 1 + s) % n = (a + j) % n
       PROVE  I[s] = (IF s < n THEN Place(C, j) ELSE m + 1 + (s - n)) /\ Place(C, j) \in 1 .. m
  <2>1. Place(C, j) = headers[L].index[(a + j) % n]
    BY <1>1, <1>2 DEF Place, Slot
  <2> QED
    BY <1>0, <1>1, <1>3, <1>11, <2>1, PlaceIn
<1>12. ASSUME NEW s \in 0 .. 2 * n - 1 PROVE I[s] \in 1 .. m + n /\ (s < n <=> I[s] \in 1 .. m)
  <2>1. CASE s < n
    <3>1. headers[L].index \in [0 .. n - 1 -> 1 .. m]
      BY <1>1 DEF IndexTypes, Heading
    <3>2. f + 1 + s \in Nat
      OBVIOUS
    <3>3. (f + 1 + s) % n \in 0 .. n - 1
      BY <3>2, Remainder
    <3>4. I[s] \in 1 .. m
      BY <1>3, <2>1, <3>1, <3>3
    <3> QED
      BY <2>1, <3>4
  <2>2. CASE ~ s < n
    <3>1. I[s] = m + 1 + (s - n)
      BY <1>3, <2>2
    <3> QED
      BY <2>2, <3>1
  <2> QED
    BY <2>1, <2>2
<1>13. IndexTypes'
  <2>1. Blocks' = Blocks
    BY DEF Blocks
  <2>2. ASSUME NEW h \in 1 .. L PROVE Heading(headers[h])'
    <3>1. Heading(headers[h]) /\ headers'[h] = headers[h] /\ Len(entries') = m + n
      BY <1>1 DEF IndexTypes
    <3>2. 1 .. m \subseteq 1 .. m + n
      BY SMTT(40)
    <3> QED
      BY <1>1, <3>1, <3>2 DEF Heading, Size
  <2>3. Heading(headers[L + 1])'
    <3>1. PICK N : N = headers'[L + 1] /\ N = [front |-> n, index |-> I] /\ Size(N) = 2 * n
      BY <1>3, <1>8
    <3>2. I \in [0 .. 2 * n - 1 -> 1 .. m + n]
      BY <1>3, <1>12
    <3>3. 2 * n \in Nat \ {0} /\ n \in 0 .. 2 * n - 1
      OBVIOUS
    <3>4. N.front = n /\ N.index = I /\ N = [front |-> N.front, index |-> N.index]
      BY <3>1
    <3>5. Size(headers[L + 1])' = 2 * n
      BY <1>8 DEF Size
    <3> QED
      BY <1>1, <3>1, <3>2, <3>3, <3>4, <3>5 DEF Heading
  <2>4. \A h \in 1 .. L + 1 : Heading(headers[h])'
    BY <1>8, <2>2, <2>3
  <2>5. entries' \in [1 .. m + n -> [base : Nat, block : Blocks \cup {0}]]
    <3>1. entries \in [1 .. m -> [base : Nat, block : Blocks \cup {0}]]
      BY <1>1 DEF IndexTypes
    <3>2. NoEntry \in [base : Nat, block : Blocks \cup {0}] /\ [base |-> w, block |-> 0] \in [base : Nat, block : Blocks \cup {0}]
      BY DEF NoEntry
    <3> QED
      BY <1>1, <1>2, <3>1, <3>2
  <2> QED
    BY <1>1, <1>8, <2>1, <2>4, <2>5, SMTT(40) DEF IndexTypes
<1>14. \A j \in Nat : j < M /\ M <= j + n => Place(D, j)' = Place(C, j) /\ Place(C, j) \in 1 .. m
  <2> SUFFICES ASSUME NEW j \in Nat, j < M, M <= j + n PROVE Place(D, j)' = Place(C, j) /\ Place(C, j) \in 1 .. m
    OBVIOUS
  <2>1. PICK s \in 0 .. 2 * n - 1 : (f + 1 + s) % n = (a + j) % n /\ Place(D, j)' = I[s] /\ s = (n + j) - M
    BY <1>10
  <2> QED
    BY <1>11, <2>1
<1>15. Place(D, M)' = m + 1 /\ Slot(D, L + 1, M)' = n
  <2>1. PICK s \in 0 .. 2 * n - 1 :
          s = Slot(D, L + 1, M)' /\ (f + 1 + s) % n = (a + M) % n /\ Place(D, M)' = I[s] /\ s = n
    BY <1>10
  <2>2. I[s] = m + 1
    BY <1>3, <2>1, SMTT(40)
  <2> QED
    BY <2>1, <2>2
<1>16. \A x \in 1 .. m : entries'[x] = entries[x]
  BY <1>1, SMTT(40)
<1>17. entries'[m + 1].base = w
  BY <1>1, <1>2, SMTT(40)
<1>18. \A x : W(x)' = W(x)
  BY DEF W, Wrap
<1>19. Indexed(A, K, D)'
  <2>1. ASSUME NEW h \in 1 .. L + 1, NEW j \in Nat, NEW s \in 0 .. Size(headers'[h]) - 1,
               headers'[h].index[s] = Place(D, j)'
        PROVE  s = Slot(D, h, j)'
    <3>1. PICK t \in 0 .. 2 * n - 1 :
            t = Slot(D, L + 1, j)' /\ (f + 1 + t) % n = (a + j) % n /\ Place(D, j)' = I[t]
      BY <1>10
    <3>2. I[t] = (IF t < n THEN Place(C, j) ELSE m + 1 + (t - n)) /\ Place(C, j) \in 1 .. m
      BY <1>11, <3>1
    <3>3. CASE h \in 1 .. L
      <4>1. headers'[h] = headers[h] /\ Size(headers'[h]) = Size(headers[h]) /\ Slot(D, h, j)' = Slot(C, h, j)
        BY <1>1, <1>9, <3>3
      <4>2. headers[h].index[s] \in 1 .. m
        BY <1>1, <3>3, <4>1 DEF IndexTypes, Heading
      <4>3. headers[h].index[s] = Place(C, j)
        <5>1. headers[h].index[s] = I[t]
          BY <2>1, <3>1, <4>1
        <5> QED
          BY <3>2, <4>2, <5>1, SMTT(40)
      <4>4. h \in 1 .. Len(headers) /\ s \in 0 .. Size(headers[h]) - 1
        BY <1>1, <3>3, <4>1
      <4>5. s = Slot(C, h, j)
        BY <4>3, <4>4 DEF Indexed
      <4> QED
        BY <4>1, <4>5
    <3>4. CASE h = L + 1
      <4>1. s \in 0 .. 2 * n - 1 /\ I[s] = I[t]
        <5>1. headers'[h].index = I /\ Size(headers'[h]) = 2 * n
          <6>1. headers'[L + 1].index = I
            BY <1>3
          <6> QED
            BY <1>8, <3>4, <6>1
        <5> QED
          BY <2>1, <3>1, <5>1
      <4>2. CASE t < n
        <5>1. s < n
          BY <1>12, <4>1, <4>2
        <5>2. headers[L].index[(f + 1 + s) % n] = Place(C, j)
          BY <1>3, <3>2, <4>1, <4>2, <5>1
        <5>3. PICK r \in 0 .. Size(headers[L]) - 1 : r = (f + 1 + s) % n
          <6>1. PICK x \in Nat : x = f + 1 + s
            BY <4>1
          <6> QED
            BY <1>1, <6>1, Remainder
        <5>4. (f + 1 + s) % n = Slot(C, L, j)
          <6>1. headers[L].index[r] = Place(C, j)
            BY <5>2, <5>3, SMTT(40)
          <6> QED
            BY <5>3, <6>1 DEF Indexed
        <5>5. (f + 1 + s) % n = (f + 1 + t) % n
          BY <1>1, <1>2, <3>1, <5>4 DEF Slot
        <5>6. s = t
          <6>1. PICK x \in Int, y \in Int : x = f + 1 + s /\ y = f + 1 + t
            BY <4>1, SMTT(40)
          <6>2. x % n = y % n /\ x - y < n /\ y - x < n
            BY <4>1, <4>2, <5>1, <5>5, <6>1
          <6>3. x = y
            BY ONLY <6>2, n \in Nat \ {0}, x \in Int, y \in Int, NearAndSame
          <6> QED
            BY <4>1, <6>1, <6>3
        <5> QED
          BY <3>1, <3>4, <5>6
      <4>3. CASE ~ t < n
        <5>1. ~ s < n
          BY <1>12, <4>1, <4>3
        <5>2. I[s] = m + 1 + (s - n) /\ I[t] = m + 1 + (t - n)
          BY <1>3, <4>1, <4>3, <5>1
        <5>3. s = t
          <6>1. PICK x \in Int, y \in Int : x = s /\ y = t
            BY <4>1
          <6>2. m + 1 + (x - n) = m + 1 + (y - n)
            BY <4>1, <5>2, <6>1
          <6> QED
            BY <6>1, <6>2
        <5> QED
          BY <3>1, <3>4, <5>3
      <4> QED
        BY <4>2, <4>3
    <3> QED
      BY <1>8, <3>3, <3>4
  <2>2. (Header'.front + 1) % Size(Header)' = Slot(D, Len(headers), M + 1)'
    <3>1. Header'.front = n /\ Size(Header') = 2 * n
      BY <1>3, <1>8
    <3>2. Slot(D, L + 1, M + 1)' = (n + 1) % (2 * n)
      <4>1. Slot(D, L + 1, M)' = (c + M) % (2 * n) /\ Slot(D, L + 1, M + 1)' = (c + (M + 1)) % (2 * n)
        BY <1>7, <1>8 DEF Slot
      <4>2. PICK q \in Nat \ {0}, x \in Int : q = 2 * n /\ x = c + M /\ c + (M + 1) = x + 1
        OBVIOUS
      <4>3. ((x % q) + 1) % q = (x + 1) % q
        BY ONLY q \in Nat \ {0}, x \in Int, 1 \in Int, RoundOn
      <4> QED
        BY <1>15, <4>1, <4>2, <4>3
    <3> QED
      BY <1>1, <3>1, <3>2 DEF Size
  <2>3. entries'[Place(D, M)'].base = W(Pos(M))'
    BY <1>2, <1>15, <1>17, <1>18
  <2>4. ASSUME NEW j \in A
        PROVE  /\ j < M /\ M + 1 <= j + Size(Header)'
               /\ entries'[Place(D, j)'] = [base |-> W(Pos(j))', block |-> K[j]]
               /\ \A d \in j .. M : entries'[Place(D, d)'].base = W(Pos(d))'
    <3>1. j \in Nat
      BY DEF Witnesses
    <3>2. j < M /\ M <= j + n /\ entries[Place(C, j)] = [base |-> W(Pos(j)), block |-> K[j]]
      BY <1>1, <1>2 DEF Indexed
    <3>3. Size(Header)' = 2 * n
      BY <1>8 DEF Size
    <3>4. entries'[Place(D, j)'] = [base |-> W(Pos(j))', block |-> K[j]]
      BY <1>14, <1>16, <1>18, <3>1, <3>2
    <3>5. ASSUME NEW d \in j .. M PROVE entries'[Place(D, d)'].base = W(Pos(d))'
      <4>1. CASE d = M
        BY <2>3, <4>1
      <4>2. CASE d < M
        <5>1. d \in Nat /\ M <= d + n /\ d \in j .. Entered - 1
          BY <1>2, <3>1, <3>2, <4>2
        <5>2. entries[Place(C, d)].base = W(Pos(d))
          BY <5>1 DEF Indexed
        <5> QED
          BY <1>14, <1>16, <1>18, <4>2, <5>1, <5>2
      <4> QED
        BY <3>1, <4>1, <4>2
    <3>6. M + 1 <= j + Size(Header)'
      BY <3>1, <3>2, <3>3
    <3> QED
      BY <3>2, <3>4, <3>5, <3>6
  <2>5. Filled' = M /\ Entered' = M + 1 /\ Entered' - 1 = M
    BY <1>2
  <2>6. \A h \in 1 .. Len(headers'), j \in Nat : \A s \in 0 .. Size(headers'[h]) - 1 :
          headers'[h].index[s] = Place(D, j)' => s = Slot(D, h, j)'
    BY <1>1, <2>1
  <2> QED
    BY <2>2, <2>3, <2>4, <2>5, <2>6 DEF Indexed
<1>20. Follows(A, C, D)
  <2> SUFFICES ASSUME NEW h \in 1 .. Len(headers)
               PROVE  /\ h \in 1 .. Len(headers') /\ headers'[h].index = headers[h].index
                      /\ \A j \in Nat : Slot(D, h, j)' = Slot(C, h, j)
                      /\ \A s \in 0 .. Size(headers[h]) - 1 : Tells(C, h, s) => Tells(D, h, s)'
                      /\ \A j \in A : Leads(C, h, j) => Leads(D, h, j)'
    BY DEF Follows
  <2>1. h \in 1 .. L /\ h \in 1 .. Len(headers') /\ headers'[h] = headers[h]
    BY <1>1, SMTT(40)
  <2>2. \A j : Slot(D, h, j)' = Slot(C, h, j)
    BY <1>9, <2>1
  <2>3. ASSUME NEW s \in 0 .. Size(headers[h]) - 1, Tells(C, h, s) PROVE Tells(D, h, s)'
    <3>1. headers[h].index[s] \in 1 .. m
      BY <1>1, <2>1 DEF IndexTypes, Heading
    <3>2. entries'[headers'[h].index[s]] = entries[headers[h].index[s]]
      BY <1>16, <2>1, <3>1
    <3> QED
      BY <1>18, <2>2, <2>3, <3>2 DEF Tells
  <2>4. ASSUME NEW j \in A, Leads(C, h, j) PROVE Leads(D, h, j)'
    <3>1. j \in Nat /\ j < M /\ M <= j + n
      BY <1>1, <1>2 DEF Witnesses, Indexed
    <3>2. headers'[h].index[Slot(D, h, j)'] = Place(D, j)'
      BY <1>14, <2>1, <2>2, <2>4, <3>1 DEF Leads
    <3>3. headers[h].front \in 0 .. Size(headers[h]) - 1
      BY <2>1 DEF IndexTypes, Heading
    <3>4. Tells(D, h, headers[h].front)'
      BY <2>1, <2>3, <2>4, <3>3 DEF Leads
    <3> QED
      BY <3>2, <3>4 DEF Leads
  <2> QED
    BY <2>1, <2>2, <2>3, <2>4
<1> QED
  BY <1>7, <1>13, <1>19, <1>20 DEF Witnesses
-----------------------------------------------------------------------------
(* The blocks *)

\* A block is taken, and is that of the number M.
Hands(ef, B, L, em, A, K, M, b) ==
  /\ M \notin A /\ B = A \cup {M} /\ L = [K EXCEPT ![M] = b] /\ \A j \in A : b # K[j]
  /\ ef = [x \in Blocks |-> IF x \in {b} THEN {} ELSE em[x]]

LEMMA HoldsMore ==
  ASSUME NEW ce, NEW em \in [Blocks -> SUBSET Offsets], NEW A, A \subseteq Nat, NEW K, \A j \in A : K[j] \in Blocks,
         NEW U, U \subseteq Nat, NEW t \in Nat, Holds(ce, em, A, K, U, t),
         NEW M \in Nat, NEW b \in Blocks, K \in [Nat -> Blocks \cup {0}],
         NEW e, NEW B, NEW L, Hands(e, B, L, em, A, K, M, b)
  PROVE  Holds(ce, e, B, L, U, t)
<1>1. /\ M \notin A /\ L = [K EXCEPT ![M] = b] /\ B = A \cup {M} /\ \A j \in A : b # K[j]
      /\ e = [x \in Blocks |-> IF x \in {b} THEN {} ELSE em[x]]
  BY DEF Hands
<1>2. L[M] = b /\ \A j \in A : L[j] = K[j] /\ K[j] \in Blocks /\ e[K[j]] = em[K[j]]
  BY <1>1
<1>3. e[b] = {}
  BY <1>1
<1>4. ASSUME NEW o \in Offsets PROVE Pos(M) + o \notin U /\ ce[b][o] = 0
  <2>1. Num(Pos(M) + o) = M
    BY NumOf
  <2>2. Pos(M) + o \notin U
    BY <1>1, <2>1 DEF Holds
  <2>3. ce[b][o] = 0
    BY <1>1 DEF Holds
  <2> QED
    BY <2>2, <2>3
<1>5. ASSUME NEW j \in B, NEW o \in Offsets
      PROVE  /\ ce[L[j]][o] = IF Pos(j) + o \in U THEN Pos(j) + o + 1 ELSE 0
             /\ Pos(j) + o \in U \/ Pos(j) + o >= t => o \notin e[L[j]]
  <2>1. CASE j = M
    BY <1>2, <1>3, <1>4, <2>1
  <2>2. CASE j \in A
    BY <1>2, <2>2 DEF Holds
  <2> QED
    BY <1>1, <2>1, <2>2
<1>6. ASSUME NEW x \in Blocks, \A j \in B : x # L[j], NEW o \in Offsets PROVE ce[x][o] = 0
  <2>1. \A j \in A : x # K[j]
    BY <1>1, <1>2, <1>6
  <2> QED
    BY <2>1 DEF Holds
<1>7. \A i \in U : Num(i) \in B
  BY <1>1 DEF Holds
<1> QED
  BY <1>5, <1>6, <1>7 DEF Holds

\* The items from t on that are constructed.
Puts(cf, ce, t, n, B) ==
  cf = [b \in Blocks |-> [o \in Offsets |->
         IF \E i \in t .. t + n - 1 : B[i] = b /\ i % BLOCK_SIZE = o
         THEN 1 + CHOOSE i \in t .. t + n - 1 : B[i] = b /\ i % BLOCK_SIZE = o
         ELSE ce[b][o]]]

Assigned(A, K, t, n, B) == \A i \in t .. t + n - 1 : Num(i) \in A /\ B[i] = K[Num(i)]

LEMMA HoldsNew ==
  ASSUME NEW ce \in [Blocks -> [Offsets -> Nat]], NEW em, NEW A, A \subseteq Nat, NEW K, \A j \in A : K[j] \in Blocks,
         \A j, k \in A : K[j] = K[k] => j = k, NEW U, U \subseteq Nat, NEW t \in Nat, Holds(ce, em, A, K, U, t),
         NEW n \in Nat, NEW B, Assigned(A, K, t, n, B), NEW cf, Puts(cf, ce, t, n, B)
  PROVE  cf \in [Blocks -> [Offsets -> Nat]] /\ Holds(cf, em, A, K, U \cup t .. t + n - 1, t)
<1> USE DEF Puts, Assigned
<1>1. PICK N : N = t .. t + n - 1 /\ N \subseteq Nat
  OBVIOUS
<1>2. cf \in [Blocks -> [Offsets -> Nat]]
  <2>1. ASSUME NEW b \in Blocks, NEW o \in Offsets
        PROVE  (IF \E i \in N : B[i] = b /\ i % BLOCK_SIZE = o
                THEN 1 + CHOOSE i \in N : B[i] = b /\ i % BLOCK_SIZE = o ELSE ce[b][o]) \in Nat
    <3>1. ce[b][o] \in Nat
      OBVIOUS
    <3>2. (\E i \in N : B[i] = b /\ i % BLOCK_SIZE = o) => (CHOOSE i \in N : B[i] = b /\ i % BLOCK_SIZE = o) \in Nat
      BY <1>1
    <3> QED
      BY <3>1, <3>2
  <2>2. ASSUME NEW b \in Blocks, NEW o \in Offsets PROVE cf[b][o] \in Nat
    <3>1. cf[b][o] = IF \E i \in N : B[i] = b /\ i % BLOCK_SIZE = o
                     THEN 1 + CHOOSE i \in N : B[i] = b /\ i % BLOCK_SIZE = o ELSE ce[b][o]
      BY <1>1
    <3> QED
      BY ONLY <2>1, <3>1
  <2>3. cf = [b \in Blocks |-> [o \in Offsets |-> cf[b][o]]]
    OBVIOUS
  <2> QED
    BY ONLY <2>2, <2>3
<1>3. ASSUME NEW j \in A, NEW o \in Offsets
      PROVE  cf[K[j]][o] = IF Pos(j) + o \in U \cup N THEN Pos(j) + o + 1 ELSE 0
  <2>5. j \in Int
    OBVIOUS
  <2>1. Pos(j) + o \in Int /\ Num(Pos(j) + o) = j /\ (Pos(j) + o) % BLOCK_SIZE = o
    BY <2>5, NumOf
  <2>2. ASSUME NEW i \in N, B[i] = K[j], i % BLOCK_SIZE = o PROVE i = Pos(j) + o
    <3>1. Num(i) = j
      BY <1>1, <2>2
    <3> QED
      BY <1>1, <2>2, <3>1, NumIs
  <2>3. CASE Pos(j) + o \in N
    <3>1. B[Pos(j) + o] = K[j]
      BY <1>1, <2>1, <2>3
    <3>2. (CHOOSE i \in N : B[i] = K[j] /\ i % BLOCK_SIZE = o) = Pos(j) + o
      BY <2>1, <2>2, <2>3, <3>1
    <3>3. \E i \in N : B[i] = K[j] /\ i % BLOCK_SIZE = o
      BY <2>1, <2>3, <3>1
    <3>4. cf[K[j]][o] = 1 + CHOOSE i \in N : B[i] = K[j] /\ i % BLOCK_SIZE = o
      BY <1>1, <3>3
    <3>5. cf[K[j]][o] = 1 + (Pos(j) + o)
      BY ONLY <3>2, <3>4
    <3>6. PICK x \in Int : x = Pos(j) + o
      BY <2>1
    <3>7. 1 + x = x + 1
      OBVIOUS
    <3> QED
      BY ONLY <2>3, <3>5, <3>6, <3>7
  <2>4. CASE Pos(j) + o \notin N
    <3>1. ~ \E i \in N : B[i] = K[j] /\ i % BLOCK_SIZE = o
      BY <2>2, <2>4
    <3>2. cf[K[j]][o] = ce[K[j]][o]
      BY <1>1, <3>1
    <3> QED
      BY <2>4, <3>2 DEF Holds
  <2> QED
    BY <2>3, <2>4
<1>4. ASSUME NEW j \in A, NEW o \in Offsets, Pos(j) + o \in U \cup N \/ Pos(j) + o >= t PROVE o \notin em[K[j]]
  <2>1. Pos(j) + o \in N => Pos(j) + o >= t
    BY <1>1
  <2> QED
    BY <1>4, <2>1 DEF Holds
<1>5. ASSUME NEW b \in Blocks, \A j \in A : b # K[j], NEW o \in Offsets PROVE cf[b][o] = 0
  <2>1. ~ \E i \in N : B[i] = b /\ i % BLOCK_SIZE = o
    BY <1>1, <1>5
  <2>2. cf[b][o] = ce[b][o]
    BY <1>1, <2>1
  <2> QED
    BY <1>5, <2>2 DEF Holds
<1>6. \A i \in U \cup N : Num(i) \in A
  BY <1>1 DEF Holds
<1>7. Holds(cf, em, A, K, U \cup N, t)
  BY <1>3, <1>4, <1>5, <1>6 DEF Holds
<1> QED
  BY <1>1, <1>2, <1>7

\* What is read is cleared and set empty.
Spans(R, m, t, S) == (\A i \in R : i \in Nat /\ Num(i) = m /\ i < t) /\ S = {i % BLOCK_SIZE : i \in R}
Wipes(cf, ef, ce, em, b, S) == /\ cf = [ce EXCEPT ![b] = [o \in Offsets |-> IF o \in S THEN 0 ELSE @[o]]]
                               /\ ef = [em EXCEPT ![b] = @ \cup S]

LEMMA HoldsLess ==
  ASSUME NEW ce \in [Blocks -> [Offsets -> Nat]], NEW em \in [Blocks -> SUBSET Offsets],
         NEW A, A \subseteq Nat, NEW K, \A j \in A : K[j] \in Blocks,
         \A j, k \in A : K[j] = K[k] => j = k, NEW U, NEW t \in Nat, Holds(ce, em, A, K, U, t),
         NEW m \in A, NEW R, R \subseteq U, NEW S, Spans(R, m, t, S),
         NEW cf, NEW ef, Wipes(cf, ef, ce, em, K[m], S)
  PROVE  Holds(cf, ef, A, K, U \ R, t)
<1> USE DEF Spans
<1>1. /\ cf = [ce EXCEPT ![K[m]] = [o \in Offsets |-> IF o \in S THEN 0 ELSE @[o]]]
      /\ ef = [em EXCEPT ![K[m]] = @ \cup S]
  BY DEF Wipes
<1>2. /\ \A b \in Blocks : b # K[m] => cf[b] = ce[b] /\ ef[b] = em[b]
      /\ \A o \in Offsets : cf[K[m]][o] = IF o \in S THEN 0 ELSE ce[K[m]][o]
      /\ ef[K[m]] = em[K[m]] \cup S
  BY <1>1
<1>3. ASSUME NEW j \in A, NEW o \in Offsets
      PROVE  Pos(j) + o \in R <=> j = m /\ o \in S
  <2>0. j \in Int /\ m \in Int
    OBVIOUS
  <2>1. Num(Pos(j) + o) = j /\ (Pos(j) + o) % BLOCK_SIZE = o
    BY <2>0, NumOf
  <2>2. ASSUME Pos(j) + o \in R PROVE j = m /\ o \in S
    BY <2>1, <2>2
  <2>3. ASSUME j = m, o \in S PROVE Pos(j) + o \in R
    <3>1. PICK i \in R : i % BLOCK_SIZE = o
      BY <2>3
    <3>2. i = Pos(Num(i)) + (i % BLOCK_SIZE) /\ Num(i) = m
      BY NumIs
    <3> QED
      BY <2>3, <3>1, <3>2
  <2> QED
    BY <2>2, <2>3
<1>4. ASSUME NEW j \in A, NEW o \in Offsets
      PROVE  cf[K[j]][o] = IF Pos(j) + o \in U \ R THEN Pos(j) + o + 1 ELSE 0
  <2>1. ce[K[j]][o] = IF Pos(j) + o \in U THEN Pos(j) + o + 1 ELSE 0
    BY DEF Holds
  <2>2. Pos(j) + o \in R <=> j = m /\ o \in S
    BY <1>3
  <2>3. CASE j = m
    <3>1. cf[K[j]][o] = IF o \in S THEN 0 ELSE ce[K[j]][o]
      BY <1>2, <2>3
    <3> QED
      BY ONLY <2>1, <2>2, <2>3, <3>1
  <2>4. CASE j # m
    <3>1. cf[K[j]][o] = ce[K[j]][o]
      BY <1>2, <2>4
    <3> QED
      BY ONLY <2>1, <2>2, <2>4, <3>1
  <2> QED
    BY <2>3, <2>4
<1>5. ASSUME NEW j \in A, NEW o \in Offsets, Pos(j) + o \in U \ R \/ Pos(j) + o >= t PROVE o \notin ef[K[j]]
  <2>1. Pos(j) + o \notin R
    <3>1. Pos(j) + o >= t => ~ Pos(j) + o < t
      <4>1. j \in Int
        OBVIOUS
      <4>2. Pos(j) + o \in Int
        BY <4>1, NumOf
      <4> QED
        BY <4>2
    <3> QED
      BY <1>5, <3>1
  <2>2. o \notin em[K[j]]
    BY <1>5 DEF Holds
  <2>3. j = m => o \notin S
    BY <1>3, <2>1
  <2>4. ef[K[j]] = IF j = m THEN em[K[j]] \cup S ELSE em[K[j]]
    BY <1>2
  <2> QED
    BY ONLY <2>2, <2>3, <2>4
<1>6. ASSUME NEW b \in Blocks, \A j \in A : b # K[j], NEW o \in Offsets PROVE cf[b][o] = 0
  BY <1>2, <1>6 DEF Holds
<1>7. \A i \in U \ R : Num(i) \in A
  BY DEF Holds
<1>8. Holds(cf, ef, A, K, U \ R, t)
  BY <1>4, <1>5, <1>6, <1>7 DEF Holds
<1> QED
  BY <1>1, <1>8

\* A number none of whose items is unread can be let go of.
LEMMA HoldsFew ==
  ASSUME NEW ce, NEW em, NEW A, A \subseteq Nat, NEW K, NEW U, NEW t, Holds(ce, em, A, K, U, t),
         NEW B, B \subseteq A, \A i \in U : Num(i) \in B
  PROVE  Holds(ce, em, B, K, U, t)
<1>1. ASSUME NEW b \in Blocks, \A j \in B : b # K[j], NEW o \in Offsets PROVE ce[b][o] = 0
  <2>1. CASE \A j \in A : b # K[j]
    BY <2>1 DEF Holds
  <2>2. CASE \E j \in A : b = K[j]
    <3>1. PICK j \in A : b = K[j]
      BY <2>2
    <3>2. j \notin B /\ j \in Int
      BY <1>1, <3>1
    <3>3. Num(Pos(j) + o) = j
      BY <3>2, NumOf
    <3>4. Pos(j) + o \notin U
      BY <3>2, <3>3
    <3>5. ce[K[j]][o] = IF Pos(j) + o \in U THEN Pos(j) + o + 1 ELSE 0
      BY DEF Holds
    <3> QED
      BY <3>1, <3>4, <3>5
  <2> QED
    BY <2>1, <2>2
<1> QED
  BY <1>1 DEF Holds

\* Items are put in, ...
LEMMA HoldsLater ==
  ASSUME NEW ce, NEW em, NEW A, A \subseteq Nat, NEW K, NEW U, NEW t \in Nat, NEW s \in Nat, t <= s, Holds(ce, em, A, K, U, t)
  PROVE  Holds(ce, em, A, K, U, s)
<1>1. ASSUME NEW j \in A, NEW o \in Offsets, Pos(j) + o >= s PROVE Pos(j) + o >= t
  <2>1. j \in Int
    OBVIOUS
  <2>2. Pos(j) + o \in Int
    BY <2>1, NumOf
  <2> QED
    BY <1>1, <2>2
<1> QED
  BY <1>1 DEF Holds

\* ... and a block in no use is set as one likes.
LEMMA HoldsSame ==
  ASSUME NEW ce, NEW em, NEW A, NEW K, \A j \in A : K[j] \in Blocks, NEW U, NEW t, Holds(ce, em, A, K, U, t),
         NEW ef, \A j \in A : ef[K[j]] = em[K[j]]
  PROVE  Holds(ce, ef, A, K, U, t)
  BY DEF Holds

\* Where the blocks are.
LEMMA HomesMore ==
  ASSUME NEW po, NEW fr, NEW he, NEW A, A \subseteq Nat, NEW K, K \in [Nat -> Blocks \cup {0}], Homes(po, fr, he, A, K),
         NEW M \in Nat, M \notin A, NEW b \in Blocks, b \in po \cup fr \cup he
  PROVE  Homes(po \ {b}, fr \ {b}, he \ {b}, A \cup {M}, [K EXCEPT ![M] = b]) /\ \A j \in A : b # K[j]
<1>1. PICK L, B : L = [K EXCEPT ![M] = b] /\ B = A \cup {M}
  OBVIOUS
<1>2. L[M] = b /\ \A j \in A : L[j] = K[j]
  BY <1>1
<1>3. \A j \in A : b # K[j]
  BY DEF Homes
<1>4. Homes(po \ {b}, fr \ {b}, he \ {b}, B, L)
  <2>1. \A j \in B : L[j] \notin (po \ {b}) \cup (fr \ {b}) \cup (he \ {b})
    BY <1>1, <1>2 DEF Homes
  <2>2. \A j, k \in B : L[j] = L[k] => j = k
    BY <1>1, <1>2, <1>3 DEF Homes
  <2>3. (po \ {b}) \cap (fr \ {b}) = {} /\ (po \ {b}) \cap (he \ {b}) = {} /\ (fr \ {b}) \cap (he \ {b}) = {}
    BY DEF Homes
  <2> QED
    BY <2>1, <2>2, <2>3 DEF Homes
<1> QED
  BY <1>1, <1>3, <1>4

LEMMA HomesBack ==
  ASSUME NEW po, NEW fr, NEW he, NEW A, NEW K, Homes(po, fr, he, A, K), NEW B, B \subseteq A,
         NEW G, \A b \in G : b \notin po \cup he /\ \A j \in B : b # K[j]
  PROVE  Homes(po, fr \cup G, he, B, K)
<1>1. \A j \in B : K[j] \notin po \cup (fr \cup G) \cup he
  BY DEF Homes
<1>2. \A j, k \in B : K[j] = K[k] => j = k
  BY DEF Homes
<1>3. po \cap (fr \cup G) = {} /\ po \cap he = {} /\ (fr \cup G) \cap he = {}
  BY DEF Homes
<1> QED
  BY <1>1, <1>2, <1>3 DEF Homes
-----------------------------------------------------------------------------
(* The steps of consumers *)

\* Where the indexes stay, so does what they tell.
LEMMA IndexStays ==
  ASSUME UNCHANGED <<setup, headers, entries>>
  PROVE  /\ IndexTypes' <=> IndexTypes
         /\ \A C, h, j : (Leads(C, h, j)' <=> Leads(C, h, j)) /\ (Tells(C, h, j)' <=> Tells(C, h, j)) /\ Slot(C, h, j)' = Slot(C, h, j)
         /\ \A h : Size(headers[h])' = Size(headers[h])
  BY DEF IndexTypes, Leads, Tells, Slot, Place, Header, Heading, Size, W, Wrap, Blocks

LEMMA IndexedStays ==
  ASSUME UNCHANGED <<setup, headers, entries>>, NEW A, NEW K, NEW C, Indexed(A, K, C), Filled' = Filled, Entered' = Entered
  PROVE  Indexed(A, K, C)'
<1>1. \A h, j : Slot(C, h, j)' = Slot(C, h, j) /\ Place(C, j)' = Place(C, j)
  BY DEF Slot, Place, Header, Size
<1>2. Header' = Header /\ Size(Header)' = Size(Header) /\ \A h : Size(headers[h])' = Size(headers[h])
  BY DEF Header, Size
<1>3. \A x : W(x)' = W(x)
  BY DEF W, Wrap
<1> QED
  BY <1>1, <1>2, <1>3 DEF Indexed

LEMMA LeftStays ==
  ASSUME NEW d \in Consumers, at'[d] = at[d], my'[d] = my[d]
  PROVE  Left(d)' = Left(d) /\ Giving(d)' = Giving(d) /\ Last(d)' = Last(d)
  BY DEF Left, Giving, Last, Base

LEMMA OthersKnow ==
  ASSUME NEW A, NEW K, NEW C, NEW d \in Consumers, Knows(d, A, K, C), at'[d] = at[d], my'[d] = my[d],
         head \in Nat, head' \in Nat, head <= head', UNCHANGED <<setup, headers, entries, pool, free, heap, emptied>>
  PROVE  Knows(d, A, K, C)'
<1>1. Left(d)' = Left(d)
  BY LeftStays
<1>2. Blocks' = Blocks
  BY DEF Blocks
<1> QED
  BY <1>1, <1>2, IndexStays DEF Knows

LEMMA ApartStays ==
  ASSUME Apart, UNCHANGED setup, NEW c \in Consumers, Moves(c), Left(c)' \subseteq Left(c),
         Giving(c)' => Giving(c) /\ my'[c].block = my[c].block
  PROVE  Apart'
<1>1. Consumers' = Consumers
  BY DEF Consumers
<1>2. \A d \in Consumers : d # c => Left(d)' = Left(d) /\ Giving(d)' = Giving(d) /\ my'[d] = my[d]
  BY LeftStays DEF Moves
<1> QED
  BY <1>1, <1>2 DEF Apart

LEMMA UnreadStays ==
  ASSUME UNCHANGED <<setup, head, tail, pc, job>>, NEW c \in Consumers, Moves(c), Left(c)' = Left(c)
  PROVE  Unread' = Unread
<1>1. Consumers' = Consumers /\ Stored' = Stored
  BY DEF Consumers, Stored
<1>2. \A d \in Consumers : Left(d)' = Left(d)
  BY LeftStays DEF Moves
<1> QED
  BY <1>1, <1>2 DEF Unread

\* The producer is where it was.
LEMMA ProducerStays ==
  ASSUME UNCHANGED <<setup, tail, pc, job, tailBlock, next, wrecked>>
  PROVE  /\ Filled' = Filled /\ Entered' = Entered /\ Stored' = Stored
         /\ \A A, K : Producing(A, K)' <=> Producing(A, K)
<1>1. Filled' = Filled /\ Entered' = Entered /\ Stored' = Stored
  BY DEF Filled, Entered, Stored
<1> QED
  BY <1>1 DEF Producing, Blocks

InUseTypes == ClaimTypes /\ BlockTypes /\ IndexTypes

\* A step of a consumer that only finds something out.
LEMMA LooksOn ==
  ASSUME InUseTypes, NEW A, NEW K, NEW C, InUse(A, K, C), NEW c \in Consumers,
         UNCHANGED <<setup, tail, head, blocks, headers, entries, pc, job, wrecked>>,
         Moves(c), Left(c)' = Left(c), ~ Giving(c)', Knows(c, A, K, C)'
  PROVE  BlockTypes' /\ IndexTypes' /\ InUse(A, K, C)'
<1> USE DEF InUse, blocks
<1>1. BlockTypes' /\ IndexTypes'
  BY IndexStays DEF InUseTypes, BlockTypes, Blocks
<1>2. Witnesses(A, K, C)'
  BY DEF Witnesses, Blocks
<1>3. Indexed(A, K, C)'
  BY IndexedStays, ProducerStays
<1>4. Stocked(A, K)'
  <2>1. Unread' = Unread
    BY UnreadStays
  <2> QED
    BY <2>1 DEF Stocked, Homes, Holds, Blocks
<1>5. \A d \in Consumers' : Knows(d, A, K, C)'
  <2>1. Consumers' = Consumers /\ head \in Nat
    BY DEF Consumers, InUseTypes, ClaimTypes
  <2> QED
    BY <2>1, OthersKnow DEF Moves
<1>6. Apart'
  BY ApartStays
<1>7. Producing(A, K)'
  BY ProducerStays
<1> QED
  BY <1>1, <1>2, <1>3, <1>4, <1>5, <1>6, <1>7

LEMMA AsksOn ==
  ASSUME Asked, InUseTypes, NEW A, NEW K, NEW C, InUse(A, K, C), NEW c \in Consumers,
         \/ Call(c) \/ Look(c) \/ Want(c) \/ Claim(c) \/ Check(c) \/ Settle(c)
  PROVE  BlockTypes' /\ IndexTypes' /\ InUse(A, K, C)'
<1> USE DEF Shared, Go, Fields, Done, index
<1>1. /\ ClaimTypes /\ Wrap \in Nat \ {0} /\ 0 \notin setup.wants /\ setup.wants \subseteq Nat /\ tail \in Nat /\ opt \in Nat
      /\ Knows(c, A, K, C) /\ at = [u \in Consumers |-> at[u]] /\ my = [u \in Consumers |-> my[u]]
  BY Setup DEF InUseTypes, ClaimTypes, Asked, InUse
<1>2. /\ UNCHANGED <<setup, tail, head, blocks, headers, entries, pc, job, wrecked>> /\ Moves(c)
      /\ at[c] \in {"idle", "call", "look", "claim", "check", "settle"}
      /\ at'[c] \in {"idle", "call", "look", "claim", "check", "settle", "take"}
  BY <1>1 DEF Call, Look, Want, Claim, Check, Settle, Moves, blocks
<1>3. (at'[c] \in {"call", "look"} => my'[c].want # 0) /\ (at'[c] \in {"claim", "check", "take"} => my'[c].n # 0)
  <2>1. CASE Call(c)
    BY <1>1, <2>1 DEF Call
  <2>6. CASE Look(c)
    BY <1>1, <2>6 DEF Look, Knows
  <2>2. CASE Want(c)
    <3>1. my[c].want # 0 /\ my[c].want \in Nat
      BY <1>1, <2>2 DEF Want, Knows, ClaimTypes
    <3>2. PICK t \in Nat : t = W(my[c].tail - (opt - my[c].over))
      BY <1>1, <2>2 DEF Want, W, ClaimTypes
    <3>3. Some(t) => t # 0
      <4>1. ~ Some(0)
        <5>1. W(0 - 0) = 0 /\ ~ 0 > Wrap \div 2
          BY <1>1 DEF W
        <5> QED
          BY <5>1 DEF Some, Less
      <4> QED
        BY <4>1
    <3>4. CASE Some(t)
      BY <1>1, <2>2, <3>1, <3>2, <3>3, <3>4 DEF Want
    <3>5. CASE ~ Some(t)
      BY <1>1, <2>2, <3>2, <3>5 DEF Want
    <3> QED
      BY <3>4, <3>5
  <2>3. CASE Claim(c)
    BY <1>1, <2>3 DEF Claim, Knows
  <2>4. CASE Check(c)
    <3>1. my[c].n # 0 /\ my[c].n \in Nat
      BY <1>1, <2>4 DEF Check, Knows, ClaimTypes
    <3>2. PICK t : t = W(tail - my[c].first)
      OBVIOUS
    <3>3. PICK n : n = IF ~ Some(t) THEN 0 ELSE IF t < my[c].n THEN t ELSE my[c].n
      OBVIOUS
    <3>4. t \in Nat
      BY <1>1, <2>4, <3>2 DEF W, ClaimTypes, Check
    <3>5. at'[c] = (IF n < my[c].n THEN "settle" ELSE "take") /\ my'[c].n = n
      BY <1>1, <2>4, <3>2, <3>3 DEF Check
    <3> QED
      BY <3>1, <3>3, <3>4, <3>5
  <2>5. CASE Settle(c)
    BY <1>1, <2>5 DEF Settle
  <2> QED
    BY <2>1, <2>2, <2>3, <2>4, <2>5, <2>6
<1>4. Left(c)' = Left(c) /\ ~ Giving(c)'
  BY <1>2 DEF Left, Giving
<1>5. Knows(c, A, K, C)'
  BY <1>2, <1>3 DEF Knows
<1> QED
  BY <1>2, <1>4, <1>5, LooksOn

\* The newest slot is where the newest number belongs, and those before it before.
Ago(k, j) == j = Entered - 1 - k

LEMMA NewestSlot ==
  ASSUME IndexTypes, NEW C \in [Nat -> Nat], NEW A, NEW K, Indexed(A, K, C), Entered \in Nat,
         NEW k \in Int, NEW j \in Nat, Ago(k, j)
  PROVE  (Header.front - k) % Size(Header) = Slot(C, Len(headers), j)
<1>0. PICK e \in Nat : e = Entered /\ j = e - 1 - k
  BY DEF Ago
<1>1. PICK L \in 1 .. Len(headers), n \in Nat \ {0}, f \in Int, a \in Int :
        L = Len(headers) /\ Header = headers[L] /\ n = Size(Header) /\ f = Header.front /\ a = C[L]
  <2>1. Len(headers) \in 1 .. Len(headers) /\ Header = headers[Len(headers)] /\ Heading(Header)
    BY PlaceIn
  <2>2. C[Len(headers)] \in Int
    <3>1. Len(headers) \in Nat
      BY DEF IndexTypes
    <3> QED
      BY <3>1
  <2>3. Size(Header) \in Nat \ {0} /\ Header.front \in Int
    BY ONLY <2>1, SMTT(40) DEF Heading
  <2> QED
    BY <2>1, <2>2, <2>3
<1>2. PICK x \in Int, y \in Int, z \in Int : x = f + 1 /\ y = a + e /\ z = 0 - (k + 1)
  OBVIOUS
<1>3. x % n = y % n
  <2>1. (Header.front + 1) % Size(Header) = Slot(C, Len(headers), Entered)
    BY DEF Indexed
  <2> QED
    BY <1>0, <1>1, <1>2, <2>1 DEF Slot
<1>4. (x + z) % n = (y + z) % n
  <2>1. ((x % n) + z) % n = (x + z) % n
    BY ONLY n \in Nat \ {0}, x \in Int, z \in Int, RoundOn
  <2>2. ((y % n) + z) % n = (y + z) % n
    BY ONLY n \in Nat \ {0}, y \in Int, z \in Int, RoundOn
  <2> QED
    BY ONLY <1>3, <2>1, <2>2
<1>5. x + z = f - k /\ y + z = a + j
  BY <1>0, <1>2
<1> QED
  BY <1>1, <1>4, <1>5 DEF Slot

\* How many numbers have a block is a number.
LEMMA FilledIs ==
  ASSUME NEW A, NEW K, Producing(A, K), tail \in Nat
  PROVE  Filled \in Nat /\ Entered \in Nat
<1>1. (pc = "tail" => job.n \in Nat) /\ (pc \in {"chain", "link", "items"} => job.got \in Nat)
  BY DEF Producing
<1>2. PICK o \in Nat : o = Over(tail)
  BY OverIs
<1>3. pc = "tail" => Over(tail + job.n) \in Nat
  <2>1. pc = "tail" => tail + job.n \in Nat
    BY <1>1
  <2> QED
    BY <2>1, OverIs
<1>4. Filled \in Nat
  BY <1>1, <1>2, <1>3 DEF Filled
<1> QED
  BY <1>4 DEF Entered

\* The steps from an index to its block.
LEMMA Counts ==
  ASSUME InUseTypes, NEW A, NEW K, NEW C, InUse(A, K, C)
  PROVE  /\ A \subseteq Nat /\ K \in [Nat -> Blocks \cup {0}] /\ (\A j \in A : K[j] \in Blocks) /\ C \in [Nat -> Nat]
         /\ Unread \subseteq Nat /\ (\A i \in Unread : Num(i) \in A) /\ Filled \in Nat /\ Entered \in Nat
         /\ (\A d \in Consumers : Left(d) \subseteq Unread /\ \A i \in Left(d) : i < head) /\ Stored \in Nat /\ tail <= Stored /\ head \in Nat /\ tail \in Nat
<1>1. /\ A \subseteq Nat /\ K \in [Nat -> Blocks \cup {0}] /\ (\A j \in A : K[j] \in Blocks) /\ C \in [Nat -> Nat]
      /\ (\A i \in Unread : Num(i) \in A) /\ \A d \in Consumers : Left(d) \subseteq Unread
  BY DEF InUse, Witnesses, Stocked, Holds, Unread
<1>2. Stored \in Nat /\ tail <= Stored /\ head \in Nat /\ tail \in Nat
  BY DEF InUseTypes, ClaimTypes, Stored, InUse, Producing
<1>3. ASSUME NEW d \in Consumers PROVE Left(d) \subseteq Nat /\ \A i \in Left(d) : i < head
  <2>1. Knows(d, A, K, C)
    BY DEF InUse
  <2>2. CASE at[d] \in {"header", "front", "base", "block"}
    <3>1. my[d].index \in Nat /\ my[d].end \in Nat /\ my[d].end <= head
      BY <2>1, <2>2 DEF Knows
    <3> QED
      BY <1>2, <2>2, <3>1 DEF Left
  <2>3. CASE at[d] \in {"forget", "release"}
    <3>1. my[d].index \in Nat /\ my[d].end \in Nat /\ my[d].end <= head
      BY <2>1, <2>3 DEF Knows
    <3>2. Base(my[d].index) + BLOCK_SIZE \in Nat
      <4>1. Num(my[d].index) \in Nat /\ Base(my[d].index) = Pos(Num(my[d].index))
        BY <3>1, NumIs
      <4>2. Base(my[d].index) \in Nat /\ BLOCK_SIZE \in Nat
        BY <4>1, PosInt, SizesAssumption
      <4> QED
        BY <4>2
    <3>3. Last(d) \in Nat
      BY <3>1, <3>2 DEF Last
    <3> QED
      BY <1>2, <2>3, <3>1, <3>3 DEF Left
  <2>4. CASE at[d] \notin {"header", "front", "base", "block", "forget", "release"}
    BY <2>4 DEF Left
  <2> QED
    BY <2>2, <2>3, <2>4
<1>4. Unread \subseteq Nat
  <2>1. head .. Stored - 1 \subseteq Nat
    BY <1>2
  <2> QED
    BY <1>3, <2>1 DEF Unread
<1>5. Filled \in Nat /\ Entered \in Nat
  BY <1>2, FilledIs DEF InUse
<1> QED
  BY <1>1, <1>2, <1>3, <1>4, <1>5

LEMMA Unreads ==
  ASSUME InUseTypes, NEW A, NEW K, NEW C, InUse(A, K, C), NEW c \in Consumers
  PROVE  /\ A \subseteq Nat /\ K \in [Nat -> Blocks \cup {0}] /\ (\A j \in A : K[j] \in Blocks) /\ C \in [Nat -> Nat]
         /\ Unread \subseteq Nat /\ Left(c) \subseteq Unread /\ (\A i \in Unread : Num(i) \in A) /\ Filled \in Nat /\ Entered \in Nat
         /\ (\A i \in Left(c) : i < head) /\ Stored \in Nat /\ tail <= Stored /\ head \in Nat /\ tail \in Nat
  BY Counts

\* The header in use leads to every number in A.
LEMMA NewestLeads ==
  ASSUME InUseTypes, NEW A, NEW K, NEW C, InUse(A, K, C), NEW j \in A
  PROVE  Leads(C, Len(headers), j)
<1>1. Indexed(A, K, C) /\ IndexTypes /\ C \in [Nat -> Nat] /\ A \subseteq Nat /\ j < Filled
  BY DEF InUse, InUseTypes, Witnesses, Indexed
<1>2. PICK L \in 1 .. Len(headers) : L = Len(headers) /\ Header = headers[L] /\ Heading(headers[L])
  BY <1>1, PlaceIn
<1>3. PICK e \in Nat : e = Entered /\ j < e
  <2>1. PICK u \in Nat, v \in Nat : u = Filled /\ v = Entered /\ u <= v
    <3>1. Filled \in Nat
      BY FilledIs DEF InUse, InUseTypes, ClaimTypes
    <3> QED
      BY <3>1 DEF Entered
  <2>2. j \in Nat /\ j < u
    BY <1>1, <2>1
  <2> QED
    BY <2>1, <2>2
<1>4. PICK d \in Nat, z \in Int : d = e - 1 /\ z = 0 /\ Ago(z, d)
  BY <1>1, <1>3 DEF Ago
<1>5. headers[L].front = Slot(C, L, d)
  <2>1. (Header.front - z) % Size(Header) = Slot(C, Len(headers), d)
    BY <1>1, <1>3, <1>4, NewestSlot
  <2>2. (Header.front - z) % Size(Header) = Header.front
    <3>1. PICK n \in Nat \ {0} : n = Size(Header) /\ Header.front \in 0 .. n - 1
      BY <1>2 DEF Heading
    <3>2. PICK f \in 0 .. n - 1 : f = Header.front
      BY <3>1
    <3> QED
      BY <1>4, <3>1, <3>2
  <2> QED
    BY <1>2, <2>1, <2>2
<1>6. entries[Place(C, d)].base = W(Pos(d))
  <2>1. d \in j .. Entered - 1
    BY <1>1, <1>3, <1>4
  <2> QED
    BY <1>1, <2>1 DEF Indexed
<1>7. entries[headers[L].index[headers[L].front]].base = W(Pos(d))
  BY <1>2, <1>5, <1>6 DEF Place
<1>8. Tells(C, L, headers[L].front)
  BY <1>4, <1>5, <1>7 DEF Tells
<1> QED
  BY <1>2, <1>8 DEF Leads, Place

\* From any slot of a header that tells, the way is to the slot of the number.
LEMMA Walks ==
  ASSUME IndexTypes, Rounds, Wrap \in Nat \ {0}, NEW C \in [Nat -> Nat], NEW h \in 1 .. Len(headers),
         NEW s \in 0 .. Size(headers[h]) - 1, Tells(C, h, s), NEW i \in Nat
  PROVE  Locate(headers[h], s, i) = Slot(C, h, Num(i))
<1>1. PICK n \in Nat \ {0}, a \in Nat, d \in Nat, j \in Nat : n = Size(headers[h]) /\ a = C[h] /\ j = Num(i)
        /\ entries[headers[h].index[s]].base = W(Pos(d)) /\ s = Slot(C, h, d)
  <2>1. Size(headers[h]) \in Nat \ {0} /\ h \in Nat
    BY SlotIn, 0 \in Nat
  <2>2. i \in Int /\ Num(i) \in Nat
    <3>1. i \in Int
      OBVIOUS
    <3> QED
      BY <3>1, NumIs
  <2> QED
    BY <2>1, <2>2 DEF Tells
<1>2. PICK x : x = W(Base(i) - entries[headers[h].index[s]].base)
  OBVIOUS
<1>3. PICK w \in Nat \ {0} : w = Wrap
  OBVIOUS
<1>4. Base(i) = Pos(j)
  BY <1>1, NumIs
<1>5. x = (Base(i) - (Pos(d) % w)) % w
  BY <1>1, <1>2, <1>3 DEF W
<1>6. x = (Pos(j) - (Pos(d) % w)) % w
  BY ONLY <1>4, <1>5
<1>7. x \in Nat
  <2>1. j \in Int /\ d \in Int
    OBVIOUS
  <2>2. PICK p \in Int, q \in Int : p = Pos(j) /\ q = Pos(d)
    BY <2>1, PosInt
  <2>3. (p - (q % w)) % w \in Nat
    BY ONLY w \in Nat \ {0}, p \in Int, q \in Int
  <2> QED
    BY <1>6, <2>2, <2>3
<1>8. Whole(w, n) /\ Way(w, j, d, x)
  BY <1>1, <1>3, <1>6 DEF Rounds, Whole, Way
<1>9. (((a + d) % n) + (x \div BLOCK_SIZE)) % n = (a + j) % n
  <2>1. Arrives(n, a, d, x, j)
    BY <1>7, <1>8, Located
  <2> QED
    BY <2>1 DEF Arrives
<1>10. Locate(headers[h], s, i) = (s + (x \div BLOCK_SIZE)) % n
  BY <1>1, <1>2 DEF Locate
<1> QED
  BY <1>1, <1>9, <1>10 DEF Slot

LEMMA FindsOn ==
  ASSUME InUseTypes, Rounds, NEW A, NEW K, NEW C, InUse(A, K, C), NEW c \in Consumers,
         \/ LoadHeader(c) \/ LoadFront(c) \/ LoadBase(c)
  PROVE  BlockTypes' /\ IndexTypes' /\ InUse(A, K, C)'
<1> USE DEF Shared, Go, Fields, index
<1>1. /\ Knows(c, A, K, C) /\ at = [u \in Consumers |-> at[u]] /\ my = [u \in Consumers |-> my[u]] /\ IndexTypes /\ Wrap \in Nat \ {0}
      /\ (\A i \in Left(c) : Num(i) \in A) /\ C \in [Nat -> Nat]
  BY Unreads, Setup DEF InUseTypes, ClaimTypes, InUse
<1>2. /\ UNCHANGED <<setup, tail, head, blocks, headers, entries, pc, job, wrecked>> /\ Moves(c)
      /\ at[c] \in {"header", "front", "base"} /\ at'[c] \in {"front", "base", "block"}
      /\ my'[c].index = my[c].index /\ my'[c].end = my[c].end
  <2>1. CASE LoadHeader(c) \/ LoadFront(c)
    BY <1>1, <2>1, SMTT(40) DEF LoadHeader, LoadFront, Moves, blocks
  <2>2. CASE LoadBase(c)
    <3>1. my[c] = [index |-> my[c].index, end |-> my[c].end, header |-> my[c].header, slot |-> my[c].slot]
      BY <1>1, <2>2 DEF LoadBase, Knows
    <3>2. my'[c] = [my[c] EXCEPT !.slot = Locate(headers[my[c].header], my[c].slot, my[c].index)]
      BY <1>1, <2>2 DEF LoadBase
    <3>3. my'[c].index = my[c].index /\ my'[c].end = my[c].end
      BY ONLY <3>1, <3>2
    <3> QED
      BY <1>1, <2>2, <3>3 DEF LoadBase, Moves, blocks
  <2> QED
    BY <2>1, <2>2
<1>3. Left(c)' = Left(c) /\ ~ Giving(c)'
  BY <1>2 DEF Left, Giving
<1>4. my[c].index \in Nat /\ my[c].end \in Nat /\ my[c].index < my[c].end /\ my[c].end <= head /\ my[c].index \in Left(c)
  <2>1. my[c].index \in Nat /\ my[c].end \in Nat /\ my[c].index < my[c].end /\ my[c].end <= head
    BY <1>1, <1>2 DEF Knows
  <2>2. Left(c) = my[c].index .. my[c].end - 1
    BY <1>2 DEF Left
  <2> QED
    BY <2>1, <2>2
<1>5. CASE LoadHeader(c)
  <2>1. at'[c] = "front" /\ my'[c].header = Len(headers)
    BY <1>1, <1>5 DEF LoadHeader
  <2>2. Len(headers) \in 1 .. Len(headers) /\ \A i \in Left(c) : Leads(C, Len(headers), Num(i))
    <3>1. Len(headers) \in 1 .. Len(headers)
      BY <1>1 DEF IndexTypes
    <3>2. \A j \in A : Leads(C, Len(headers), j)
      BY NewestLeads
    <3> QED
      BY <1>1, <3>1, <3>2
  <2>3. \A i \in Left(c)' : Leads(C, my[c].header, Num(i))'
    BY <1>2, <1>3, <2>1, <2>2, IndexStays
  <2>4. Knows(c, A, K, C)'
    BY <1>2, <1>4, <2>1, <2>2, <2>3 DEF Knows
  <2> QED
    BY <1>2, <1>3, <2>4, LooksOn
<1>6. ASSUME at[c] \in {"front", "base"}, my'[c].header = my[c].header
      PROVE  my'[c].header \in 1 .. Len(headers)' /\ \A i \in Left(c)' : Leads(C, my[c].header, Num(i))'
  <2>1. my[c].header \in 1 .. Len(headers) /\ \A i \in Left(c) : Leads(C, my[c].header, Num(i))
    BY <1>1, <1>6 DEF Knows
  <2> QED
    BY <1>2, <1>3, <1>6, <2>1, IndexStays
<1>7. CASE LoadFront(c)
  <2>1. at[c] = "front" /\ at'[c] = "base" /\ my'[c].header = my[c].header /\ my'[c].slot = headers[my[c].header].front
    BY <1>1, <1>7 DEF LoadFront
  <2>2. my[c].header \in 1 .. Len(headers) /\ Leads(C, my[c].header, Num(my[c].index))
    BY <1>1, <1>4, <2>1 DEF Knows
  <2>3. headers[my[c].header].front \in 0 .. Size(headers[my[c].header]) - 1
    BY <1>1, <2>2 DEF IndexTypes, Heading
  <2>6. my'[c] = [index |-> my'[c].index, end |-> my'[c].end, header |-> my'[c].header, slot |-> my'[c].slot]
    BY <1>1, <1>7 DEF LoadFront
  <2>4. Tells(C, my[c].header, my[c].slot)' /\ my'[c].slot \in 0 .. Size(headers[my[c].header])' - 1
    BY <1>2, <2>1, <2>2, <2>3, IndexStays DEF Leads
  <2>5. Knows(c, A, K, C)'
    BY <1>2, <1>4, <1>6, <2>1, <2>4, <2>6 DEF Knows
  <2> QED
    BY <1>2, <1>3, <2>5, LooksOn
<1>8. CASE LoadBase(c)
  <2>1. /\ at[c] = "base" /\ at'[c] = "block" /\ my'[c].header = my[c].header
        /\ my'[c].slot = Locate(headers[my[c].header], my[c].slot, my[c].index)
        /\ my'[c] = [index |-> my'[c].index, end |-> my'[c].end, header |-> my'[c].header, slot |-> my'[c].slot]
    <3>1. my'[c] = [my[c] EXCEPT !.slot = Locate(headers[my[c].header], my[c].slot, my[c].index)] /\ at[c] = "base" /\ at'[c] = "block"
      BY <1>1, <1>8 DEF LoadBase
    <3>2. my[c] = [index |-> my[c].index, end |-> my[c].end, header |-> my[c].header, slot |-> my[c].slot]
      BY <1>1, <1>8 DEF LoadBase, Knows
    <3> QED
      BY ONLY <3>1, <3>2
  <2>2. my'[c].slot = Slot(C, my[c].header, Num(my[c].index))
    <3>1. my[c].header \in 1 .. Len(headers) /\ my[c].slot \in 0 .. Size(headers[my[c].header]) - 1
          /\ Tells(C, my[c].header, my[c].slot)
      BY <1>1, <1>4, <2>1 DEF Knows
    <3> QED
      BY <1>1, <1>4, <2>1, <3>1, Walks
  <2>3. my'[c].slot = Slot(C, my[c].header, Num(my[c].index))'
    BY <1>2, <2>1, <2>2, IndexStays DEF Num
  <2>4. Knows(c, A, K, C)'
    BY <1>2, <1>4, <1>6, <2>1, <2>3 DEF Knows
  <2> QED
    BY <1>2, <1>3, <2>4, LooksOn
<1> QED
  BY <1>5, <1>7, <1>8

LEMMA TakesOn ==
  ASSUME InUseTypes, NEW A, NEW K, NEW C, InUse(A, K, C), NEW c \in Consumers, Take(c), head' <= tail
  PROVE  BlockTypes' /\ IndexTypes' /\ InUse(A, K, C)'
<1> USE DEF InUse, Shared, Go, Fields, index
<1>1. /\ UNCHANGED <<setup, tail, blocks, headers, entries, pc, job, wrecked>> /\ Moves(c) /\ at[c] = "take" /\ at'[c] = "header"
      /\ my'[c] = [index |-> head, end |-> head + my[c].n] /\ head' = head + my[c].n
  BY DEF Take, Moves, blocks, InUseTypes, ClaimTypes
<1>2. PICK n \in Nat \ {0}, h \in Nat, s \in Nat : n = my[c].n /\ h = head /\ s = Stored /\ h + n <= s
  <2>1. my[c].n \in Nat /\ my[c].n # 0
    BY <1>1 DEF InUseTypes, ClaimTypes, Knows
  <2>2. Stored \in Nat /\ tail <= Stored /\ head \in Nat /\ tail \in Nat
    BY Unreads
  <2> QED
    BY <1>1, <2>1, <2>2
<1>3. Left(c) = {} /\ Left(c)' = h .. h + n - 1 /\ ~ Giving(c)'
  BY <1>1, <1>2 DEF Left, Giving
<1>4. \A d \in Consumers : d # c => Left(d)' = Left(d) /\ Giving(d)' = Giving(d) /\ my'[d] = my[d]
  BY <1>1, LeftStays DEF Moves
<1>5. Consumers' = Consumers /\ Stored' = Stored /\ Blocks' = Blocks
  BY <1>1 DEF Consumers, Stored, Blocks
<1>6. Unread' = Unread
  <2>1. head .. Stored - 1 = (h .. h + n - 1) \cup (h + n .. s - 1)
    BY <1>2
  <2>2. UNION {Left(d)' : d \in Consumers} = (UNION {Left(d) : d \in Consumers}) \cup (h .. h + n - 1)
    BY <1>3, <1>4
  <2>3. Unread' = (h + n .. s - 1) \cup UNION {Left(d)' : d \in Consumers}
    BY <1>1, <1>2, <1>5 DEF Unread
  <2> QED
    BY ONLY <1>2, <2>1, <2>2, <2>3 DEF Unread
<1>7. BlockTypes' /\ IndexTypes'
  BY <1>1, IndexStays DEF InUseTypes, BlockTypes, Blocks, blocks
<1>8. Witnesses(A, K, C)' /\ Indexed(A, K, C)' /\ Producing(A, K)'
  BY <1>1, <1>5, IndexedStays, ProducerStays DEF Witnesses, blocks
<1>9. Stocked(A, K)'
  BY <1>1, <1>6 DEF Stocked, Homes, Holds, Blocks, blocks
<1>10. ASSUME NEW d \in Consumers PROVE Knows(d, A, K, C)'
  <2>1. CASE d = c
    <3>1. h + n \in Nat /\ h < h + n
      OBVIOUS
    <3> QED
      BY <1>1, <1>2, <2>1, <3>1 DEF Knows
  <2>2. CASE d # c
    <3>1. head \in Nat /\ head' \in Nat /\ head <= head'
      BY <1>1, <1>2
    <3> QED
      BY <1>1, <2>2, <3>1, OthersKnow DEF Moves, blocks
  <2> QED
    BY <2>1, <2>2
<1>11. Apart'
  <2>1. \A d \in Consumers : d # c => Left(d) \cap (h .. h + n - 1) = {}
    <3>1. \A d \in Consumers : \A i \in Left(d) : i \in Nat /\ i < head
      BY Unreads
    <3> QED
      BY <1>2, <3>1
  <2> QED
    BY <1>3, <1>4, <1>5, <2>1 DEF Apart
<1> QED
  BY <1>5, <1>7, <1>8, <1>9, <1>10, <1>11

\* The items a call has in the block of its index.
LEMMA LastIs ==
  ASSUME NEW c \in Consumers, my[c].index \in Nat, my[c].end \in Nat, my[c].index < my[c].end
  PROVE  /\ Num(my[c].index) \in Nat /\ Last(c) \in Nat /\ my[c].index < Last(c) /\ Last(c) <= my[c].end
         /\ \A i \in my[c].index .. Last(c) - 1 : i \in Nat /\ Num(i) = Num(my[c].index)
         /\ Last(c) # my[c].end => Num(Last(c)) = Num(my[c].index) + 1
<1>1. PICK i \in Nat, e \in Nat, b \in Nat \ {0}, j \in Nat, p \in Nat, r \in Int :
        i = my[c].index /\ e = my[c].end /\ b = BLOCK_SIZE /\ j = Num(i) /\ p = Pos(j) /\ r = i - p
  <2>1. Num(my[c].index) \in Nat
    BY NumIs
  <2>2. Pos(Num(my[c].index)) \in Nat
    BY <2>1, PosInt
  <2> QED
    BY <2>1, <2>2, SizesAssumption, SMTT(40)
<1>2. r \in 0 .. b - 1 /\ Base(i) = p /\ i < e
  <2>1. i % BLOCK_SIZE \in Offsets /\ i = Pos(Num(i)) + (i % BLOCK_SIZE) /\ Base(i) = Pos(Num(i))
    BY NumIs
  <2>2. PICK o \in 0 .. b - 1 : o = i % BLOCK_SIZE
    BY <1>1, <2>1 DEF Offsets
  <2> QED
    BY <1>1, <2>1, <2>2
<1>3. Last(c) = IF e < p + b THEN e ELSE p + b
  BY <1>1, <1>2 DEF Last
<1>4. Last(c) \in Nat /\ i < Last(c) /\ Last(c) <= e /\ Last(c) <= p + b
  BY <1>1, <1>2, <1>3
<1>5. ASSUME NEW k \in i .. Last(c) - 1 PROVE k \in Nat /\ Num(k) = j
  <2>1. k \in Int /\ p <= k /\ k < p + b
    BY <1>1, <1>2, <1>4
  <2>2. Pos(j) <= k /\ k < Pos(j) + BLOCK_SIZE
    BY <1>1, <2>1
  <2>3. Num(k) = j
    BY <2>1, <2>2, NumBetween
  <2> QED
    BY <1>4, <2>3
<1>6. Last(c) # e => Num(Last(c)) = j + 1
  <2> SUFFICES ASSUME Last(c) # e PROVE Num(Last(c)) = j + 1
    OBVIOUS
  <2>1. Last(c) = p + b
    BY <1>3
  <2>2. Last(c) = Pos(j + 1) + 0 /\ 0 \in Offsets
    <3>1. PICK k \in Int : k = j + 1
      OBVIOUS
    <3>2. Pos(k) \in Int /\ Pos(k) = Pos(j) + BLOCK_SIZE
      BY <3>1, PosNext
    <3> QED
      BY <1>1, <2>1, <3>1, <3>2 DEF Offsets
  <2> QED
    BY <2>2, NumOf
<1> QED
  BY <1>1, <1>4, <1>5, <1>6

LEMMA AtItsBlock ==
  ASSUME InUseTypes, NEW A, NEW K, NEW C, InUse(A, K, C), NEW c \in Consumers, at[c] = "block"
  PROVE  /\ my[c].index \in Nat /\ my[c].end \in Nat /\ my[c].index < my[c].end
         /\ Num(my[c].index) \in A /\ BlockOf(c) = K[Num(my[c].index)] /\ K[Num(my[c].index)] \in Blocks
         /\ \A i \in my[c].index .. Last(c) - 1 : i \in Left(c)
<1>1. /\ my[c].index \in Nat /\ my[c].end \in Nat /\ my[c].index < my[c].end
      /\ (\A i \in Left(c) : Leads(C, my[c].header, Num(i))) /\ my[c].slot = Slot(C, my[c].header, Num(my[c].index))
  <2>1. Knows(c, A, K, C)
    BY DEF InUse
  <2> QED
    BY <2>1 DEF Knows
<1>2. Left(c) = my[c].index .. my[c].end - 1
  BY DEF Left
<1>3. my[c].index \in Left(c)
  BY <1>1, <1>2
<1>4. PICK j \in A : j = Num(my[c].index) /\ K[j] \in Blocks
  BY <1>3, Unreads
<1>5. EntryOf(c) = Place(C, j)
  BY <1>1, <1>3, <1>4 DEF EntryOf, Leads
<1>6. BlockOf(c) = K[j]
  <2>1. Indexed(A, K, C)
    BY DEF InUse
  <2>2. entries[Place(C, j)] = [base |-> W(Pos(j)), block |-> K[j]]
    BY <2>1 DEF Indexed
  <2> QED
    BY <1>5, <2>2 DEF BlockOf
<1>7. Last(c) \in Nat /\ Last(c) <= my[c].end
  BY <1>1, LastIs
<1> QED
  BY <1>1, <1>2, <1>4, <1>6, <1>7

LEMMA RightItems ==
  ASSUME InUseTypes, NEW A, NEW K, NEW C, InUse(A, K, C)
  PROVE  RightItem
<1> SUFFICES ASSUME NEW c \in Consumers, at[c] = "block"
             PROVE  /\ BlockOf(c) # 0
                    /\ \A i \in my[c].index .. Last(c) - 1 :
                         cell[BlockOf(c)][i % BLOCK_SIZE] = i + 1 /\ i % BLOCK_SIZE \notin emptied[BlockOf(c)]
  BY DEF RightItem
<1>1. PICK j \in A : j = Num(my[c].index) /\ BlockOf(c) = K[j] /\ K[j] \in Blocks
  BY AtItsBlock
<1>2. ASSUME NEW i \in my[c].index .. Last(c) - 1
      PROVE  cell[K[j]][i % BLOCK_SIZE] = i + 1 /\ i % BLOCK_SIZE \notin emptied[K[j]]
  <2>1. i \in Unread /\ i \in Nat
    BY AtItsBlock, Unreads
  <2>2. Num(i) = j
    BY <1>1, AtItsBlock, LastIs
  <2>3. i % BLOCK_SIZE \in Offsets /\ i = Pos(j) + (i % BLOCK_SIZE)
    BY <2>1, <2>2, NumIs
  <2>4. PICK o \in Offsets : o = i % BLOCK_SIZE /\ i = Pos(j) + o /\ Pos(j) + o \in Unread
    BY <2>1, <2>3
  <2>5. Holds(cell, emptied, A, K, Unread, tail)
    BY DEF InUse, Stocked
  <2>6. cell[K[j]][o] = Pos(j) + o + 1 /\ o \notin emptied[K[j]]
    BY <2>4, <2>5 DEF Holds
  <2> QED
    BY <2>4, <2>6
<1>3. 0 \notin Blocks
  BY DEF Blocks
<1> QED
  BY <1>1, <1>2, <1>3

\* A call that goes on to its next block, or is done.
LEMMA GoesOn ==
  ASSUME InUseTypes, NEW A, NEW K, NEW C, InUse(A, K, C), NEW c \in Consumers, NextBlock(c),
         UNCHANGED <<setup, headers, entries>>, head' = head, at[c] \in {"block", "forget", "release"}
  PROVE  Moves(c) /\ Left(c)' = Last(c) .. my[c].end - 1 /\ ~ Giving(c)' /\ Knows(c, A, K, C)'
<1> USE DEF Done, Fields
<1>1. /\ my[c].index \in Nat /\ my[c].end \in Nat /\ my[c].index < my[c].end /\ my[c].end <= head
      /\ my[c].header \in 1 .. Len(headers) /\ (\A i \in Left(c) : Leads(C, my[c].header, Num(i)))
      /\ my[c].slot = Slot(C, my[c].header, Num(my[c].index))
  <2>1. Knows(c, A, K, C)
    BY DEF InUse
  <2> QED
    BY <2>1 DEF Knows
<1>2. at = [u \in Consumers |-> at[u]] /\ my = [u \in Consumers |-> my[u]] /\ head \in Nat /\ IndexTypes /\ C \in [Nat -> Nat]
  BY Unreads DEF InUseTypes, ClaimTypes
<1>3. /\ Num(my[c].index) \in Nat /\ Last(c) \in Nat /\ my[c].index < Last(c) /\ Last(c) <= my[c].end
      /\ Last(c) # my[c].end => Num(Last(c)) = Num(my[c].index) + 1
  BY <1>1, LastIs
<1>4. Moves(c)
  BY <1>2 DEF NextBlock, Moves
<1>5. CASE Last(c) = my[c].end
  <2>1. at'[c] = "idle"
    BY <1>2, <1>5 DEF NextBlock
  <2> QED
    BY <1>3, <1>4, <1>5, <2>1 DEF Left, Giving, Knows
<1>6. CASE Last(c) # my[c].end
  <2>1. /\ at'[c] = "block"
        /\ my'[c] = [index |-> Last(c), end |-> my[c].end, header |-> my[c].header,
                     slot |-> (my[c].slot + 1) % Size(headers[my[c].header])]
    BY <1>2, <1>6 DEF NextBlock
  <2>2. Left(c)' = Last(c) .. my[c].end - 1
    BY <2>1 DEF Left
  <2>3. \A i \in Left(c)' : i \in Left(c)
    <3>1. Left(c) = my[c].index .. my[c].end - 1 \/ Left(c) = Last(c) .. my[c].end - 1
      BY DEF Left
    <3>2. Last(c) .. my[c].end - 1 \subseteq my[c].index .. my[c].end - 1
      BY <1>1, <1>3
    <3> QED
      BY <2>2, <3>1, <3>2
  <2>4. \A i \in Left(c)' : Leads(C, my[c].header, Num(i))'
    BY <1>1, <2>1, <2>3, IndexStays
  <2>5. my'[c].slot = Slot(C, my[c].header, Num(Last(c)))
    <3>1. PICK h \in 1 .. Len(headers), j \in Nat, k \in Nat :
            h = my[c].header /\ j = Num(my[c].index) /\ k = Num(Last(c)) /\ k - j = 1
      BY <1>1, <1>3, <1>6
    <3>2. Slot(C, h, k) = (Slot(C, h, j) + (k - j)) % Size(headers[h])
      BY <1>2, SlotNext
    <3> QED
      BY <1>1, <2>1, <3>1, <3>2
  <2>6. my'[c].slot = Slot(C, my[c].header, Num(my[c].index))'
    BY <2>1, <2>5, IndexStays DEF Num
  <2>7. /\ my'[c].index = Last(c) /\ my'[c].end = my[c].end /\ my'[c].header = my[c].header
        /\ my'[c] = [index |-> my'[c].index, end |-> my'[c].end, header |-> my'[c].header, slot |-> my'[c].slot]
    BY <2>1
  <2>8. Last(c) < my[c].end
    BY <1>1, <1>3, <1>6
  <2>9. Knows(c, A, K, C)'
    BY <1>1, <1>3, <2>1, <2>4, <2>6, <2>7, <2>8 DEF Knows
  <2> QED
    BY <1>4, <2>1, <2>2, <2>9 DEF Giving
<1> QED
  BY <1>5, <1>6

\* A step of a consumer on the blocks: what it leaves of its own, and the others' part.
LEMMA OneLess ==
  ASSUME InUseTypes, NEW A, NEW K, NEW C, InUse(A, K, C), NEW c \in Consumers,
         UNCHANGED <<setup, head, tail, pc, job>>, Moves(c),
         NEW R, R \subseteq Left(c), Left(c)' = Left(c) \ R
  PROVE  Unread' = Unread \ R
<1>1. Consumers' = Consumers /\ Stored' = Stored
  BY DEF Consumers, Stored
<1>2. \A d \in Consumers : d # c => Left(d)' = Left(d) /\ Left(d) \cap R = {}
  BY LeftStays DEF Moves, InUse, Apart
<1>3. (head .. Stored - 1) \cap R = {}
  <2>1. PICK h \in Nat, s \in Nat : h = head /\ s = Stored
    BY Unreads
  <2>2. \A i \in R : i < h
    BY <2>1, Unreads
  <2>3. \A i \in h .. s - 1 : ~ i < h
    OBVIOUS
  <2> QED
    BY ONLY <2>1, <2>2, <2>3
<1>4. UNION {Left(d)' : d \in Consumers} = (UNION {Left(d) : d \in Consumers}) \ R
  BY <1>2
<1>5. Unread' = (head .. Stored - 1) \cup UNION {Left(d)' : d \in Consumers}
  BY <1>1 DEF Unread
<1> QED
  BY ONLY <1>3, <1>4, <1>5 DEF Unread

LEMMA ReadsOn ==
  ASSUME InUseTypes, Implicit, NEW A, NEW K, NEW C, InUse(A, K, C), NEW c \in Consumers, Read(c), head <= tail
  PROVE  BlockTypes' /\ IndexTypes' /\ InUse(A, K, C)'
<1> USE DEF Shared, Go, Fields, Done, index
<1>1. PICK j \in A : j = Num(my[c].index) /\ BlockOf(c) = K[j] /\ K[j] \in Blocks
  BY AtItsBlock DEF Read
<1>2. /\ my[c].index \in Nat /\ my[c].end \in Nat /\ my[c].index < my[c].end /\ Last(c) \in Nat /\ my[c].index < Last(c)
      /\ Last(c) <= my[c].end /\ (\A i \in my[c].index .. Last(c) - 1 : i \in Left(c) /\ i \in Nat /\ Num(i) = j)
  BY <1>1, AtItsBlock, LastIs DEF Read
<1>3. PICK R, S : R = my[c].index .. Last(c) - 1 /\ S = {i % BLOCK_SIZE : i \in R} /\ S = Mine(c) /\ S \subseteq Offsets
  <2>1. \A i \in my[c].index .. Last(c) - 1 : i % BLOCK_SIZE \in Offsets
    BY <1>2, NumIs
  <2> QED
    BY <2>1 DEF Mine
<1>4. /\ UNCHANGED <<setup, tail, head, next, pool, free, heap, tailBlock, headers, entries, pc, job, wrecked>> /\ at[c] = "block"
      /\ cell' = [cell EXCEPT ![K[j]] = [o \in Offsets |-> IF o \in S THEN 0 ELSE @[o]]]
      /\ emptied' = [emptied EXCEPT ![K[j]] = @ \cup S]
  BY <1>1, <1>3 DEF Read, SetManyEmpty
<1>5. at = [u \in Consumers |-> at[u]] /\ my = [u \in Consumers |-> my[u]] /\ IndexTypes
      /\ cell \in [Blocks -> [Offsets -> Nat]] /\ emptied \in [Blocks -> SUBSET Offsets] /\ tail \in Nat /\ Blocks' = Blocks /\ Consumers' = Consumers
  BY <1>4 DEF InUseTypes, ClaimTypes, BlockTypes, Blocks, Consumers
<1>6. /\ my[c].header \in 1 .. Len(headers) /\ (\A i \in Left(c) : Leads(C, my[c].header, Num(i)))
      /\ my[c].slot = Slot(C, my[c].header, Num(my[c].index)) /\ my[c].end <= head
  <2>1. Knows(c, A, K, C)
    BY DEF InUse
  <2> QED
    BY <1>4, <2>1 DEF Knows
<1>7. Left(c) = my[c].index .. my[c].end - 1
  BY <1>4 DEF Left
<1>8. /\ Moves(c) /\ Left(c)' = Last(c) .. my[c].end - 1 /\ Knows(c, A, K, C)'
      /\ Giving(c)' => my'[c].block = K[j]
  <2>1. CASE emptied'[K[j]] = Offsets
    <3>1. /\ at' = [at EXCEPT ![c] = "forget"]
          /\ my' = [my EXCEPT ![c] = [index |-> my[c].index, end |-> my[c].end, header |-> my[c].header,
                                      slot |-> my[c].slot, block |-> K[j]]]
      BY <1>1, <1>5, <2>1 DEF Read, Implicit
    <3>2. /\ at'[c] = "forget" /\ my'[c].index = my[c].index /\ my'[c].end = my[c].end /\ my'[c].header = my[c].header
          /\ my'[c].slot = my[c].slot /\ my'[c].block = K[j]
      BY <1>5, <3>1
    <3>3. Moves(c)
      BY <1>4, <1>5, <3>1 DEF Moves
    <3>4. Last(c)' = Last(c)
      BY <3>2 DEF Last, Base
    <3>5. Left(c)' = Last(c) .. my[c].end - 1
      BY <3>2, <3>4 DEF Left
    <3>6. \A i \in Left(c)' : i \in Left(c)
      BY <1>2, <1>7, <3>5
    <3>7. my[c].index \in Left(c)
      BY <1>2
    <3>8. \A i : Leads(C, my[c].header, i)' <=> Leads(C, my[c].header, i)
      BY <1>4, <3>2, IndexStays
    <3>9. Leads(C, my[c].header, j)' /\ \A i \in Left(c)' : Leads(C, my[c].header, Num(i))'
      BY <1>1, <1>6, <3>6, <3>7, <3>8
    <3>10. my'[c].slot = Slot(C, my[c].header, Num(my[c].index))'
      BY <1>4, <1>6, <3>2, IndexStays, SMTT(40) DEF Num
    <3>11. Knows(c, A, K, C)'
      BY <1>1, <1>2, <1>4, <1>6, <2>1, <3>2, <3>9, <3>10 DEF Knows, Num
    <3> QED
      BY <3>2, <3>3, <3>5, <3>11
  <2>2. CASE emptied'[K[j]] # Offsets
    <3>1. NextBlock(c)
      BY <1>1, <2>2 DEF Read
    <3> QED
      BY <1>4, <3>1, GoesOn
  <2> QED
    BY <2>1, <2>2
<1>9. R \subseteq Left(c) /\ Left(c)' = Left(c) \ R
  BY <1>2, <1>3, <1>7, <1>8
<1>10. Unread' = Unread \ R
  BY <1>4, <1>8, <1>9, OneLess
<1>11. /\ Unread \subseteq Nat /\ A \subseteq Nat /\ (\A k \in A : K[k] \in Blocks)
       /\ R \subseteq Unread /\ \A i \in R : i \in Nat /\ Num(i) = j /\ i < tail
  <2>1. \A i \in Left(c) : i < head
    BY Unreads
  <2>2. \A i \in R : i \in Nat /\ Num(i) = j /\ i < head
    BY <1>2, <1>3, <1>9, <2>1
  <2>3. head \in Nat /\ tail \in Nat
    BY Unreads
  <2> QED
    BY <1>9, <2>2, <2>3, Unreads
<1>12. Homes(pool, free, heap, A, K) /\ Holds(cell, emptied, A, K, Unread, tail)
  BY DEF InUse, Stocked
<1>13. Stocked(A, K)'
  <2>1. \A k, l \in A : K[k] = K[l] => k = l
    BY <1>12 DEF Homes
  <2>2. PICK ce \in [Blocks -> [Offsets -> Nat]], em \in [Blocks -> SUBSET Offsets], U \in SUBSET Nat, t \in Nat :
          ce = cell /\ em = emptied /\ U = Unread /\ t = tail
    BY <1>5, <1>11
  <2>3. Holds(ce, em, A, K, U, t) /\ R \subseteq U /\ Spans(R, j, t, S)
    BY <1>3, <1>11, <1>12, <2>2 DEF Spans
  <2>4. Wipes(cell', emptied', ce, em, K[j], S)
    BY <1>4, <2>2 DEF Wipes
  <2>5. Holds(cell', emptied', A, K, Unread', tail)
    <3>1. PICK cf, ef : cf = cell' /\ ef = emptied'
      OBVIOUS
    <3>2. Holds(cf, ef, A, K, U \ R, t)
      BY <1>11, <2>1, <2>3, <2>4, <3>1, HoldsLess
    <3> QED
      BY <1>10, <2>2, <3>1, <3>2
  <2> QED
    BY <1>4, <1>5, <1>12, <2>5 DEF Stocked, Homes, Holds
<1>14. \A b \in Blocks : emptied'[b] \in SUBSET Offsets /\ (emptied[b] = Offsets => emptied'[b] = Offsets)
  BY <1>3, <1>4, <1>5
<1>15. BlockTypes' /\ IndexTypes'
  <2>1. IndexTypes'
    BY <1>4, <1>5, IndexStays
  <2>2. emptied' \in [Blocks -> SUBSET Offsets]
    BY <1>3, <1>4, <1>5
  <2>3. cell' \in [Blocks -> [Offsets -> Nat]]
    BY <1>1, <1>4, <1>5
  <2> QED
    BY <1>4, <1>5, <2>1, <2>2, <2>3 DEF InUseTypes, BlockTypes
<1>16. ASSUME NEW d \in Consumers, d # c PROVE Knows(d, A, K, C)'
  <2>1. Knows(d, A, K, C) /\ at'[d] = at[d] /\ my'[d] = my[d]
    BY <1>8, <1>16 DEF InUse, Moves
  <2>2. Left(d)' = Left(d)
    BY <2>1, LeftStays
  <2>3. at[d] = "forget" => emptied'[my[d].block] = Offsets
    BY <1>1, <1>11, <1>14, <2>1 DEF Knows
  <2> QED
    BY <1>4, <1>5, <2>1, <2>2, <2>3, IndexStays DEF Knows
<1>17. ASSUME NEW d \in Consumers, d # c, Giving(d) PROVE my[d].block # K[j]
  <2>1. Knows(d, A, K, C)
    BY DEF InUse
  <2>2. CASE at[d] = "release"
    BY <2>1, <2>2 DEF Knows
  <2>3. CASE at[d] = "forget"
    <3>1. emptied[my[d].block] = Offsets
      BY <2>1, <2>3 DEF Knows
    <3>2. PICK i \in R : i = my[c].index /\ i \in Unread /\ i \in Nat /\ Num(i) = j
      BY <1>2, <1>3, <1>11
    <3>3. PICK o \in Offsets : i = Pos(j) + o /\ Pos(j) + o \in Unread
      BY <3>2, NumIs
    <3>4. o \notin emptied[K[j]]
      BY <1>12, <3>3 DEF Holds
    <3> QED
      BY <3>1, <3>4
  <2> QED
    BY <1>17, <2>2, <2>3 DEF Giving
<1>18. Apart'
  <2>1. \A d \in Consumers : d # c => Left(d)' = Left(d) /\ Giving(d)' = Giving(d) /\ my'[d] = my[d]
    BY <1>8, LeftStays DEF Moves
  <2>2. Left(c)' \subseteq Left(c)
    BY <1>9
  <2>3. Apart
    BY DEF InUse
  <2>4. ASSUME NEW d \in Consumers, NEW e \in Consumers, d # e
        PROVE  Left(d)' \cap Left(e)' = {} /\ (Giving(d)' /\ Giving(e)' => my'[d].block # my'[e].block)
    <3>1. Left(d) \cap Left(e) = {} /\ (Giving(d) /\ Giving(e) => my[d].block # my[e].block)
      BY <2>3, <2>4 DEF Apart
    <3>2. CASE d = c
      BY <1>8, <1>17, <2>1, <2>2, <2>4, <3>1, <3>2
    <3>3. CASE e = c
      BY <1>8, <1>17, <2>1, <2>2, <2>4, <3>1, <3>3
    <3>4. CASE d # c /\ e # c
      BY <2>1, <3>1, <3>4
    <3> QED
      BY <3>2, <3>3, <3>4
  <2> QED
    BY <1>5, <2>4 DEF Apart
<1>19. Witnesses(A, K, C)' /\ Indexed(A, K, C)' /\ Producing(A, K)'
  <2>1. Filled' = Filled /\ Entered' = Entered /\ Producing(A, K)'
    BY <1>4, ProducerStays DEF InUse
  <2> QED
    BY <1>4, <1>5, <2>1, IndexedStays DEF InUse, Witnesses
<1> QED
  BY <1>5, <1>8, <1>13, <1>15, <1>16, <1>18, <1>19 DEF InUse

\* A step that sets the block of one entry.
LEMMA BlockSet ==
  ASSUME IndexTypes, NEW C \in [Nat -> Nat], UNCHANGED <<setup, headers>>, NEW e \in 1 .. Len(entries), NEW b \in Blocks \cup {0},
         entries' = [entries EXCEPT ![e].block = b]
  PROVE  /\ IndexTypes' /\ Len(entries') = Len(entries)
         /\ entries'[e] = [base |-> entries[e].base, block |-> b]
         /\ \A x \in 1 .. Len(entries) : (x # e => entries'[x] = entries[x]) /\ entries'[x].base = entries[x].base
         /\ \A h \in 1 .. Len(headers) : \A s \in 0 .. Size(headers[h]) - 1 : Tells(C, h, s)' <=> Tells(C, h, s)
         /\ \A h \in 1 .. Len(headers) : \A j : Leads(C, h, j)' <=> Leads(C, h, j)
         /\ \A h, j : Slot(C, h, j)' = Slot(C, h, j) /\ Place(C, j)' = Place(C, j)
         /\ \A h : Size(headers[h])' = Size(headers[h])
<1>1. Len(entries) \in Nat /\ entries \in [1 .. Len(entries) -> [base : Nat, block : Blocks \cup {0}]] /\ Blocks' = Blocks
  BY DEF IndexTypes, Blocks
<1>2. /\ entries'[e] = [base |-> entries[e].base, block |-> b]
      /\ \A x \in 1 .. Len(entries) : x # e => entries'[x] = entries[x]
      /\ DOMAIN entries' = 1 .. Len(entries)
  BY <1>1
<1>3. Len(entries') = Len(entries)
  BY <1>1, <1>2, LenOf
<1>4. \A x \in 1 .. Len(entries) : entries'[x].base = entries[x].base
  BY <1>2, ZenonT(40)
<1>5. entries' \in [1 .. Len(entries) -> [base : Nat, block : Blocks \cup {0}]]
  BY <1>1
<1>6. IndexTypes'
  <2>1. \A h \in 1 .. Len(headers) : Heading(headers[h])'
    BY <1>3 DEF IndexTypes, Heading, Size
  <2> QED
    BY <1>1, <1>3, <1>5, <2>1 DEF IndexTypes
<1>7. \A h \in 1 .. Len(headers) : \A s \in 0 .. Size(headers[h]) - 1 : Tells(C, h, s)' <=> Tells(C, h, s)
  BY <1>4, SameTells
<1>8. \A h, j : Slot(C, h, j)' = Slot(C, h, j) /\ Place(C, j)' = Place(C, j)
  BY DEF Slot, Place, Header, Size
<1>9. ASSUME NEW h \in 1 .. Len(headers), NEW j PROVE Leads(C, h, j)' <=> Leads(C, h, j)
  <2>1. headers[h].front \in 0 .. Size(headers[h]) - 1
    BY DEF IndexTypes, Heading
  <2> QED
    BY <1>7, <1>8, <2>1 DEF Leads
<1>10. \A h : Size(headers[h])' = Size(headers[h])
  BY DEF Size
<1> QED
  BY <1>2, <1>3, <1>4, <1>6, <1>7, <1>8, <1>9, <1>10

\* A number of A shares its entry with none of those that have been entered since.
LEMMA OwnPlace ==
  ASSUME IndexTypes, NEW A, A \subseteq Nat, NEW K, NEW C \in [Nat -> Nat], Indexed(A, K, C), Entered \in Nat,
         NEW j \in A, NEW d \in Nat, j < d, d < Entered
  PROVE  Place(C, j) # Place(C, d)
<1>1. j \in Nat /\ Entered <= j + Size(Header)
  BY DEF Indexed
<1>2. Size(Header) \in Nat
  <2>1. Heading(Header)
    BY PlaceIn
  <2> QED
    BY <2>1 DEF Heading
<1>3. d < j + Size(Header)
  BY <1>1, <1>2
<1> QED
  BY <1>1, <1>3, PlacesApart

LEMMA OwnPlaces ==
  ASSUME IndexTypes, NEW A, A \subseteq Nat, NEW K, NEW C \in [Nat -> Nat], Indexed(A, K, C), Filled \in Nat, Entered \in Nat,
         NEW j \in A, NEW k \in A, j # k
  PROVE  Place(C, j) # Place(C, k)
<1>1. j \in Nat /\ k \in Nat /\ j < Filled /\ k < Filled
  BY DEF Indexed
<1>2. PICK f \in Nat, g \in Nat : f = Filled /\ g = Entered /\ f <= g
  BY DEF Entered
<1>3. j < Entered /\ k < Entered
  BY <1>1, <1>2
<1>4. CASE j < k
  BY <1>1, <1>3, <1>4, OwnPlace
<1>5. CASE k < j
  BY <1>1, <1>3, <1>5, OwnPlace
<1> QED
  BY <1>1, <1>4, <1>5

\* It leaves the index in order for the numbers that have other entries.
LEMMA IndexedLess ==
  ASSUME IndexTypes, NEW A, A \subseteq Nat, NEW K, NEW C \in [Nat -> Nat], Indexed(A, K, C), Filled \in Nat, Entered \in Nat,
         UNCHANGED <<setup, headers>>, NEW m \in A,
         entries' = [entries EXCEPT ![Place(C, m)].block = 0], Filled' = Filled, Entered' = Entered
  PROVE  Indexed(A \ {m}, K, C)'
<1>1. PICK e \in 1 .. Len(entries) : e = Place(C, m)
  BY PlaceIn
<1>2. PICK z \in Blocks \cup {0} : z = 0
  OBVIOUS
<1>3. /\ \A x \in 1 .. Len(entries) : (x # e => entries'[x] = entries[x]) /\ entries'[x].base = entries[x].base
      /\ \A h, j : Slot(C, h, j)' = Slot(C, h, j) /\ Place(C, j)' = Place(C, j)
      /\ \A h : Size(headers[h])' = Size(headers[h])
  BY <1>1, <1>2, BlockSet
<1>4. \A x : W(x)' = W(x)
  BY DEF W, Wrap
<1>5. Header' = Header /\ Size(Header)' = Size(Header)
  BY DEF Header, Size
<1>6. ASSUME NEW j \in Nat PROVE entries'[Place(C, j)'].base = entries[Place(C, j)].base
  BY <1>3, PlaceIn
<1>7. ASSUME NEW j \in A \ {m} PROVE entries'[Place(C, j)'] = entries[Place(C, j)]
  <2>1. Place(C, j) # e /\ j \in Nat
    BY <1>1, OwnPlaces
  <2> QED
    BY <1>3, <2>1, PlaceIn
<1>8. \A h \in 1 .. Len(headers'), j \in Nat : \A s \in 0 .. Size(headers[h])' - 1 :
        headers'[h].index[s] = Place(C, j)' => s = Slot(C, h, j)'
  <2>1. Len(headers') = Len(headers) /\ \A h : headers'[h].index = headers[h].index
    OBVIOUS
  <2>2. \A h \in 1 .. Len(headers), j \in Nat : \A s \in 0 .. Size(headers[h]) - 1 :
          headers[h].index[s] = Place(C, j) => s = Slot(C, h, j)
    BY DEF Indexed
  <2> SUFFICES ASSUME NEW h \in 1 .. Len(headers), NEW j \in Nat, NEW s \in 0 .. Size(headers[h])' - 1,
                      headers'[h].index[s] = Place(C, j)'
               PROVE  s = Slot(C, h, j)'
    BY <2>1
  <2>3. Slot(C, h, j)' = Slot(C, h, j) /\ Place(C, j)' = Place(C, j) /\ Size(headers[h])' = Size(headers[h])
    BY <1>3
  <2>4. s \in 0 .. Size(headers[h]) - 1 /\ headers[h].index[s] = Place(C, j)
    BY <2>1, <2>3
  <2> QED
    BY <2>2, <2>3, <2>4
<1>9. (Header'.front + 1) % Size(Header)' = Slot(C, Len(headers), Entered)'
  BY <1>3, <1>5 DEF Indexed
<1>10. Entered' > Filled' => entries'[Place(C, Filled)'].base = W(Pos(Filled))'
  BY <1>4, <1>6 DEF Indexed
<1>11. ASSUME NEW j \in A \ {m}
       PROVE  /\ j < Filled' /\ Entered' <= j + Size(Header)'
              /\ entries'[Place(C, j)'] = [base |-> W(Pos(j))', block |-> K[j]]
              /\ \A d \in j .. Entered' - 1 : entries'[Place(C, d)'].base = W(Pos(d))'
  <2>1. j < Filled /\ Entered <= j + Size(Header) /\ entries[Place(C, j)] = [base |-> W(Pos(j)), block |-> K[j]]
    BY DEF Indexed
  <2>2. ASSUME NEW d \in j .. Entered - 1 PROVE entries'[Place(C, d)'].base = W(Pos(d))'
    <3>1. entries[Place(C, d)].base = W(Pos(d))
      BY DEF Indexed
    <3>2. d \in Nat
      OBVIOUS
    <3> QED
      BY <1>4, <1>6, <3>1, <3>2
  <2> QED
    BY <1>4, <1>5, <1>7, <2>1, <2>2
<1> QED
  BY <1>5, <1>8, <1>9, <1>10, <1>11 DEF Indexed

\* A block that is all empty was full of items that have come and gone.
LEMMA AllRead ==
  ASSUME InUseTypes, NEW A, NEW K, NEW C, InUse(A, K, C), NEW m \in A, emptied[K[m]] = Offsets
  PROVE  m < Num(tail) /\ \A i \in Unread : Num(i) # m
<1>1. Holds(cell, emptied, A, K, Unread, tail) /\ m \in Nat /\ tail \in Nat /\ Unread \subseteq Nat
  BY Counts DEF InUse, Stocked
<1>2. ASSUME NEW i \in Unread, Num(i) = m PROVE FALSE
  <2>1. PICK o \in Offsets : Pos(m) + o \in Unread
    BY <1>1, <1>2, NumIs
  <2> QED
    BY <1>1, <2>1 DEF Holds
<1>3. PICK b \in Nat \ {0}, p \in Nat, t \in Nat, k \in Nat : b = BLOCK_SIZE /\ p = Pos(m) /\ t = tail /\ k = Num(t)
  <2>1. Pos(m) \in Nat
    BY <1>1, PosInt
  <2>2. Num(tail) \in Nat
    BY <1>1, NumIs
  <2> QED
    BY <1>1, <2>1, <2>2, SizesAssumption
<1>4. b - 1 \in Offsets
  BY <1>3 DEF Offsets
<1>5. p + (b - 1) < t
  <2>1. ~ Pos(m) + (b - 1) >= tail
    BY <1>1, <1>4 DEF Holds
  <2> QED
    BY <1>3, <2>1
<1>6. k <= m => FALSE
  <2>1. PICK q \in Int : q = Pos(k) /\ t < q + b
    <3>1. t % BLOCK_SIZE \in Offsets /\ t = Pos(k) + (t % BLOCK_SIZE)
      BY <1>3, NumIs
    <3>2. PICK o \in 0 .. b - 1 : t = Pos(k) + o
      BY <1>3, <3>1 DEF Offsets
    <3> QED
      BY <1>3, <3>2, PosInt
  <2>2. k < m => q + b <= p
    <3>1. k < m => Pos(k) + BLOCK_SIZE <= Pos(m)
      BY <1>1, PosOrder
    <3> QED
      BY <1>3, <2>1, <3>1
  <2>3. k = m => q = p
    BY <1>3, <2>1
  <2> QED
    BY <1>1, <1>3, <1>5, <2>1, <2>2, <2>3
<1> QED
  BY <1>1, <1>2, <1>3, <1>6

LEMMA ForgetsOn ==
  ASSUME InUseTypes, NEW A, NEW K, NEW C, InUse(A, K, C), NEW c \in Consumers, Forget(c)
  PROVE  BlockTypes' /\ IndexTypes' /\ \E B : InUse(B, K, C)'
<1> USE DEF Go
<1>1. /\ UNCHANGED <<setup, tail, head, my, cell, emptied, next, pool, free, heap, tailBlock, headers, pc, job, wrecked>>
      /\ Moves(c) /\ at[c] = "forget" /\ at'[c] = "release" /\ Blocks' = Blocks /\ Consumers' = Consumers
  <2>1. at = [u \in Consumers |-> at[u]]
    BY DEF InUseTypes, ClaimTypes
  <2>2. /\ UNCHANGED <<setup, tail, head, my, cell, emptied, next, pool, free, heap, tailBlock, headers, pc, job, wrecked>>
        /\ at[c] = "forget" /\ at' = [at EXCEPT ![c] = "release"]
    BY DEF Forget, blocks
  <2>3. Moves(c) /\ at'[c] = "release"
    BY <2>1, <2>2 DEF Moves
  <2> QED
    BY <2>2, <2>3 DEF Blocks, Consumers
<1>2. PICK m \in A :
        /\ m = Num(my[c].index) /\ my[c].block = K[m] /\ Leads(C, my[c].header, m) /\ emptied[K[m]] = Offsets
        /\ my[c].header \in 1 .. Len(headers) /\ my[c].slot = Slot(C, my[c].header, m)
        /\ my[c].index \in Nat /\ my[c].end \in Nat /\ my[c].index < my[c].end /\ my[c].end <= head
        /\ \A i \in Left(c) : Leads(C, my[c].header, Num(i))
  <2>1. Knows(c, A, K, C)
    BY DEF InUse
  <2> QED
    BY <1>1, <2>1 DEF Knows
<1>3. /\ IndexTypes /\ A \subseteq Nat /\ C \in [Nat -> Nat] /\ Indexed(A, K, C) /\ Filled \in Nat /\ Entered \in Nat
      /\ Unread \subseteq Nat /\ (\A k \in A : K[k] \in Blocks) /\ tail \in Nat
      /\ Homes(pool, free, heap, A, K) /\ Holds(cell, emptied, A, K, Unread, tail) /\ Apart
  BY Unreads DEF InUse, InUseTypes, Stocked
<1>4. EntryOf(c) = Place(C, m) /\ Place(C, m) \in 1 .. Len(entries) /\ m \in Nat
  BY <1>2, <1>3, PlaceIn DEF EntryOf, Leads
<1>5. PICK e \in 1 .. Len(entries), z \in Blocks \cup {0} : e = Place(C, m) /\ z = 0 /\ entries' = [entries EXCEPT ![e].block = z]
  BY <1>4 DEF Forget
<1>6. /\ IndexTypes' /\ \A h \in 1 .. Len(headers) : \A s \in 0 .. Size(headers[h]) - 1 : Tells(C, h, s)' <=> Tells(C, h, s)
      /\ \A h \in 1 .. Len(headers) : \A j : Leads(C, h, j)' <=> Leads(C, h, j)
      /\ (\A h, j : Slot(C, h, j)' = Slot(C, h, j)) /\ \A h : Size(headers[h])' = Size(headers[h])
  <2>1. UNCHANGED <<setup, headers>>
    BY <1>1
  <2> QED
    BY <1>3, <1>5, <2>1, BlockSet
<1>7. PICK B : B = A \ {m}
  OBVIOUS
<1>8. Filled' = Filled /\ Entered' = Entered /\ Stored' = Stored
  BY <1>1, ProducerStays
<1>9. Indexed(B, K, C)'
  <2>1. entries' = [entries EXCEPT ![Place(C, m)].block = 0] /\ UNCHANGED <<setup, headers>>
    BY <1>1, <1>5
  <2> QED
    BY <1>3, <1>7, <1>8, <2>1, IndexedLess
<1>10. m < Num(tail) /\ \A i \in Unread : Num(i) # m
  BY <1>2, AllRead
<1>11. \A d \in Consumers : Left(d)' = Left(d) /\ (Giving(d)' <=> Giving(d)) /\ my'[d] = my[d]
  <2>1. Left(c)' = Left(c) /\ Giving(c)' /\ Giving(c) /\ my'[c] = my[c]
    BY <1>1 DEF Left, Giving, Last, Base
  <2> QED
    BY <1>1, <2>1, LeftStays DEF Moves
<1>12. Unread' = Unread
  BY <1>1, <1>11, UnreadStays
<1>13. Stocked(B, K)'
  <2>1. Homes(pool, free, heap, B, K)
    BY <1>3, <1>7 DEF Homes
  <2>2. Holds(cell, emptied, B, K, Unread, tail)
    <3>1. \A i \in Unread : Num(i) \in B
      BY <1>3, <1>7, <1>10 DEF Holds
    <3> QED
      BY <1>3, <1>7, <3>1, HoldsFew
  <2> QED
    BY <1>1, <1>12, <2>1, <2>2 DEF Stocked, Homes, Holds
<1>14. BlockTypes'
  BY <1>1 DEF InUseTypes, BlockTypes
<1>15. Knows(c, B, K, C)'
  <2>1. K[m] \in Blocks \ (pool \cup free \cup heap) /\ \A j \in B : K[m] # K[j]
    BY <1>3, <1>7 DEF Homes
  <2>2. \A i \in Left(c)' : Leads(C, my[c].header, Num(i))'
    BY <1>1, <1>2, <1>6, <1>11
  <2>3. my'[c].slot = Slot(C, my[c].header, Num(my[c].index))'
    BY <1>1, <1>2, <1>6 DEF Num
  <2> QED
    BY <1>1, <1>2, <2>1, <2>2, <2>3 DEF Knows
<1>16. ASSUME NEW d \in Consumers, d # c PROVE Knows(d, B, K, C)'
  <2>1. Knows(d, A, K, C) /\ at'[d] = at[d] /\ my'[d] = my[d] /\ Left(d)' = Left(d)
    BY <1>1, <1>11, <1>16 DEF InUse, Moves
  <2>2. at[d] = "forget" => Num(my[d].index) \in B
    <3>1. at[d] = "forget" => my[d].block # my[c].block
      BY <1>1, <1>3, <1>16 DEF Apart, Giving
    <3> QED
      BY <1>2, <1>7, <2>1, <3>1 DEF Knows
  <2>3. at[d] = "release" => \A j \in B : my[d].block # K[j]
    BY <1>7, <2>1 DEF Knows
  <2>4. at[d] \in {"front", "base", "block", "forget", "release"} =>
          my'[d].header \in 1 .. Len(headers)' /\ \A i \in Left(d)' : Leads(C, my[d].header, Num(i))'
    BY <1>1, <1>6, <2>1 DEF Knows
  <2>5. at[d] = "base" => my'[d].slot \in 0 .. Size(headers[my[d].header])' - 1 /\ Tells(C, my[d].header, my[d].slot)'
    BY <1>6, <2>1 DEF Knows
  <2>6. at[d] \in {"block", "forget", "release"} => my'[d].slot = Slot(C, my[d].header, Num(my[d].index))'
    BY <1>6, <2>1 DEF Knows, Num
  <2>7. at[d] = "forget" => Leads(C, my[d].header, Num(my[d].index))'
    BY <1>6, <2>1 DEF Knows, Num
  <2> QED
    BY <1>1, <2>1, <2>2, <2>3, <2>4, <2>5, <2>6, <2>7 DEF Knows, Num
<1>17. Apart'
  BY <1>1, <1>3, <1>11, ZenonT(40) DEF Apart
<1>18. Producing(B, K)'
  <2>1. Producing(A, K)'
    BY <1>1, ProducerStays DEF InUse
  <2>2. \A j \in Nat : Num(tail) <= j => j # m
    <3>1. Num(tail) \in Nat
      BY <1>3, NumIs
    <3> QED
      BY <1>4, <1>10, <3>1
  <2>3. Num(tail)' = Num(tail)
    BY <1>1 DEF Num
  <2>4. \A j \in Nat : Num(tail)' <= j /\ j < Filled' => j \in B
    BY <1>7, <2>1, <2>2, <2>3 DEF Producing
  <2> QED
    BY <1>1, <1>7, <2>1, <2>4 DEF Producing
<1>19. Witnesses(B, K, C)'
  BY <1>1, <1>7 DEF InUse, Witnesses
<1> QED
  BY <1>1, <1>6, <1>9, <1>13, <1>14, <1>15, <1>16, <1>17, <1>18, <1>19 DEF InUse

LEMMA ReleasesOn ==
  ASSUME InUseTypes, NEW A, NEW K, NEW C, InUse(A, K, C), NEW c \in Consumers, Release(c)
  PROVE  BlockTypes' /\ IndexTypes' /\ InUse(A, K, C)'
<1> USE DEF Shared, index
<1>1. /\ UNCHANGED <<setup, tail, head, cell, emptied, next, pool, heap, tailBlock, headers, entries, pc, job, wrecked>>
      /\ at[c] = "release" /\ free' = free \cup {my[c].block} /\ NextBlock(c)
  BY DEF Release
<1>2. Moves(c) /\ Left(c)' = Last(c) .. my[c].end - 1 /\ ~ Giving(c)' /\ Knows(c, A, K, C)'
  BY <1>1, GoesOn
<1>3. Left(c)' = Left(c) /\ Blocks' = Blocks /\ Consumers' = Consumers
  BY <1>1, <1>2 DEF Left, Blocks, Consumers
<1>4. my[c].block \in Blocks \ (pool \cup free \cup heap) /\ \A j \in A : my[c].block # K[j]
  BY <1>1 DEF InUse, Knows
<1>5. BlockTypes' /\ IndexTypes'
  <2>1. free' \subseteq Blocks
    BY <1>1, <1>4 DEF InUseTypes, BlockTypes
  <2>2. IndexTypes'
    BY <1>1, IndexStays DEF InUseTypes
  <2> QED
    BY <1>1, <1>3, <2>1, <2>2 DEF InUseTypes, BlockTypes
<1>6. Stocked(A, K)'
  <2>1. Homes(pool, free, heap, A, K) /\ Holds(cell, emptied, A, K, Unread, tail)
    BY DEF InUse, Stocked
  <2>2. Homes(pool, free \cup {my[c].block}, heap, A, K)
    BY <1>4, <2>1, HomesBack
  <2>3. Unread' = Unread
    BY <1>1, <1>2, <1>3, UnreadStays
  <2> QED
    BY <1>1, <1>3, <2>1, <2>2, <2>3 DEF Stocked, Homes, Holds
<1>7. ASSUME NEW d \in Consumers, d # c PROVE Knows(d, A, K, C)'
  <2>1. Knows(d, A, K, C) /\ at'[d] = at[d] /\ my'[d] = my[d]
    BY <1>2, <1>7 DEF InUse, Moves
  <2>2. Left(d)' = Left(d)
    BY <2>1, LeftStays
  <2>3. at[d] = "release" => my[d].block # my[c].block
    BY <1>1, <1>7 DEF InUse, Apart, Giving
  <2>4. at[d] = "release" => my[d].block \in Blocks \ (pool' \cup free' \cup heap')
    BY <1>1, <2>1, <2>3 DEF Knows
  <2> QED
    BY <1>1, <1>3, <2>1, <2>2, <2>4, IndexStays DEF Knows
<1>8. Apart'
  BY <1>1, <1>2, <1>3, ApartStays DEF InUse
<1>9. Filled' = Filled /\ Entered' = Entered /\ Producing(A, K)'
  BY <1>1, ProducerStays DEF InUse
<1>10. Witnesses(A, K, C)' /\ Indexed(A, K, C)'
  BY <1>1, <1>3, <1>9, IndexedStays DEF InUse, Witnesses
<1> QED
  BY <1>2, <1>3, <1>5, <1>6, <1>7, <1>8, <1>9, <1>10 DEF InUse

LEMMA DequeuesOn ==
  ASSUME Asked, InUseTypes, Rounds, Implicit, NEW A, NEW K, NEW C, InUse(A, K, C), NEW c \in Consumers, Dequeue(c),
         head <= tail, head' <= tail
  PROVE  BlockTypes' /\ IndexTypes' /\ \E B : InUse(B, K, C)'
<1>1. CASE Call(c) \/ Look(c) \/ Want(c) \/ Claim(c) \/ Check(c) \/ Settle(c)
  BY <1>1, AsksOn
<1>2. CASE Take(c)
  BY <1>2, TakesOn
<1>3. CASE LoadHeader(c) \/ LoadFront(c) \/ LoadBase(c)
  BY <1>3, FindsOn
<1>4. CASE Read(c)
  BY <1>4, ReadsOn
<1>5. CASE Forget(c)
  BY <1>5, ForgetsOn
<1>6. CASE Release(c)
  BY <1>6, ReleasesOn
<1> QED
  BY <1>1, <1>2, <1>3, <1>4, <1>5, <1>6 DEF Dequeue
-----------------------------------------------------------------------------
(* The steps of the producer *)

\* What the consumers have found out stays true, for what they have to read is of
\* the numbers that the items before tail have.
Carries(A, K, B, L, T) ==
  /\ T = {j \in A : j < Over(tail)}
  /\ \A j \in T : j \in B /\ L[j] = K[j] /\ emptied'[K[j]] = emptied[K[j]]
  /\ \A x \in Blocks : x \notin pool \cup free \cup heap /\ (\A j \in A : x # K[j])
                         => x \notin pool' \cup free' \cup heap' /\ \A j \in B : x # L[j]

LEMMA BeforeTail ==
  ASSUME NEW i \in Nat, NEW t \in Nat, i < t
  PROVE  Num(i) < Over(t)
<1>1. PICK u \in Int : u = t - 1
  OBVIOUS
<1>2. Num(i) <= Num(u)
  <2>1. i <= u
    BY <1>1
  <2> QED
    BY <2>1, NumOrder
<1>3. Num(i) \in Int /\ Num(u) \in Int
  BY NumIs
<1> QED
  BY <1>1, <1>2, <1>3 DEF Over

LEMMA ConsumersFollow ==
  ASSUME InUseTypes, NEW A, NEW K, NEW C, InUse(A, K, C), head <= tail, UNCHANGED <<setup, head, at, my>>,
         NEW B, NEW L, NEW D, NEW T, Carries(A, K, B, L, T), Follows(T, C, D)
  PROVE  (\A c \in Consumers' : Knows(c, B, L, D)') /\ Apart' /\ \A c \in Consumers : Left(c)' = Left(c)
<1>1. Consumers' = Consumers /\ Blocks' = Blocks
  BY DEF Consumers, Blocks
<1>2. \A c \in Consumers : Left(c)' = Left(c) /\ Giving(c)' = Giving(c)
  BY LeftStays
<1>3. Apart'
  BY <1>1, <1>2 DEF InUse, Apart
<1>4. head \in Nat /\ tail \in Nat /\ (\A i \in Unread : Num(i) \in A) /\ Unread \subseteq Nat
      /\ \A c \in Consumers : Left(c) \subseteq Unread /\ \A i \in Left(c) : i < head
  BY Counts
<1>5. ASSUME NEW c \in Consumers PROVE Knows(c, B, L, D)'
  <2>1. Knows(c, A, K, C) /\ Left(c)' = Left(c)
    BY <1>2 DEF InUse
  <2>2. \A i \in Left(c) : Num(i) \in T
    <3>1. \A i \in Left(c) : i \in Nat /\ i < tail /\ Num(i) \in A
      <4>1. Left(c) \subseteq Unread /\ \A i \in Left(c) : i < head
        BY <1>4
      <4>2. ASSUME NEW i \in Left(c) PROVE i \in Nat /\ i < tail /\ Num(i) \in A
        <5>1. i \in Unread /\ i < head
          BY <4>1
        <5>2. i \in Nat /\ Num(i) \in A
          BY <1>4, <5>1
        <5>3. i < tail
          <6>1. PICK h \in Nat, t \in Nat, k \in Nat : h = head /\ t = tail /\ k = i /\ h <= t /\ k < h
            BY <1>4, <5>1, <5>2
          <6>2. k < t
            BY ONLY <6>1, h \in Nat, t \in Nat, k \in Nat
          <6> QED
            BY <6>1, <6>2
        <5> QED
          BY <5>2, <5>3
      <4> QED
        BY <4>2
    <3> QED
      BY <1>4, <3>1, BeforeTail DEF Carries
  <2>3. CASE at[c] \notin {"front", "base", "block", "forget", "release"}
    BY <2>1, <2>3 DEF Knows
  <2>4. CASE at[c] \in {"front", "base", "block", "forget", "release"}
    <3>1. PICK h \in 1 .. Len(headers) : h = my[c].header /\ \A i \in Left(c) : Leads(C, h, Num(i))
      BY <2>1, <2>4 DEF Knows
    <3>2. /\ h \in 1 .. Len(headers') /\ headers'[h].index = headers[h].index
          /\ \A j \in Nat : Slot(D, h, j)' = Slot(C, h, j)
          /\ \A s \in 0 .. Size(headers[h]) - 1 : Tells(C, h, s) => Tells(D, h, s)'
          /\ \A j \in T : Leads(C, h, j) => Leads(D, h, j)'
      BY DEF Follows
    <3>3. Size(headers[h])' = Size(headers[h])
      BY <3>1, <3>2 DEF Size
    <3>4. my'[c].header = h /\ \A i \in Left(c)' : Leads(D, my[c].header, Num(i))'
      <4>1. \A i \in Left(c)' : Leads(D, h, Num(i))'
        BY <2>1, <2>2, <3>1, <3>2
      <4> QED
        BY <3>1, <4>1
    <3>5. at[c] = "base" => my'[c].slot \in 0 .. Size(headers[my[c].header])' - 1 /\ Tells(D, my[c].header, my[c].slot)'
      BY <2>1, <3>1, <3>2, <3>3 DEF Knows
    <3>6. my[c].index \in Nat /\ my[c].end \in Nat /\ my[c].index < my[c].end /\ my[c].end <= head
      BY <2>1, <2>4 DEF Knows
    <3>7. at[c] \in {"block", "forget", "release"} => my'[c].slot = Slot(D, my[c].header, Num(my[c].index))'
      <4>1. Num(my[c].index) \in Nat /\ Num(my[c].index)' = Num(my[c].index)
        <5>1. Num(my[c].index) \in Nat
          <6>1. PICK i \in Nat : i = my[c].index
            BY <3>6
          <6>2. Num(i) \in Nat
            BY NumIs
          <6> QED
            BY <6>1, <6>2
        <5>2. Num(my[c].index)' = Num(my[c].index)
          BY DEF Num
        <5> QED
          BY <5>1, <5>2
      <4>2. Slot(D, h, Num(my[c].index))' = Slot(C, h, Num(my[c].index))
        BY <3>2, <4>1
      <4> QED
        BY <2>1, <3>1, <3>4, <4>1, <4>2 DEF Knows
    <3>8. at[c] = "forget" =>
            /\ Num(my[c].index)' \in B /\ my'[c].block = L[Num(my[c].index)'] /\ Leads(D, my[c].header, Num(my[c].index))'
            /\ emptied'[my'[c].block] = Offsets
      <4> SUFFICES ASSUME at[c] = "forget"
                   PROVE  /\ Num(my[c].index) \in B /\ my[c].block = L[Num(my[c].index)] /\ Leads(D, h, Num(my[c].index))'
                          /\ emptied'[my[c].block] = Offsets
        BY <3>1, <3>4 DEF Num
      <4>1. /\ Num(my[c].index) \in A /\ my[c].block = K[Num(my[c].index)] /\ Leads(C, h, Num(my[c].index))
            /\ emptied[my[c].block] = Offsets
        BY <2>1, <3>1 DEF Knows
      <4>2. Num(my[c].index) \in T
        <5>1. my[c].index < tail
          BY <1>4, <3>6
        <5> QED
          BY <1>4, <3>6, <4>1, <5>1, BeforeTail DEF Carries
      <4>3. Leads(D, h, Num(my[c].index))'
        BY <3>2, <4>1, <4>2
      <4> QED
        BY <4>1, <4>2, <4>3 DEF Carries
    <3>9. at[c] = "release" =>
            my'[c].block \in Blocks' \ (pool' \cup free' \cup heap') /\ \A j \in B : my'[c].block # L[j]
      BY <1>1, <2>1 DEF Knows, Carries
    <3> QED
      BY <2>1, <2>4, <3>1, <3>2, <3>4, <3>5, <3>6, <3>7, <3>8, <3>9 DEF Knows
  <2> QED
    BY <2>3, <2>4
<1> QED
  BY <1>1, <1>2, <1>3, <1>5

\* What all that is to be read is, after a step of the producer.
LEMMA UnreadThen ==
  ASSUME UNCHANGED <<setup, head, at, my>>
  PROVE  /\ Unread' = (head .. Stored' - 1) \cup UNION {Left(c) : c \in Consumers}
         /\ Stored' = Stored => Unread' = Unread
<1>1. Consumers' = Consumers /\ \A c \in Consumers : Left(c)' = Left(c)
  BY LeftStays DEF Consumers
<1>2. Unread' = (head .. Stored' - 1) \cup UNION {Left(c) : c \in Consumers}
  BY <1>1 DEF Unread
<1> QED
  BY <1>2 DEF Unread

LEMMA UnreadMore ==
  ASSUME UNCHANGED <<setup, head, at, my>>, head \in Nat, head <= tail, NEW t \in Nat, t = tail, NEW n \in Nat,
         Stored = t, Stored' = t + n
  PROVE  Unread' = Unread \cup t .. t + n - 1
<1>1. PICK h \in Nat : h = head /\ h <= t
  OBVIOUS
<1>2. h .. t + n - 1 = (h .. t - 1) \cup (t .. t + n - 1)
  BY <1>1
<1>3. Unread' = (head .. Stored' - 1) \cup UNION {Left(c) : c \in Consumers}
  BY UnreadThen
<1> QED
  BY <1>1, <1>2, <1>3 DEF Unread

\* One item more at a boundary, and inside of a block.
LEMMA OneOver ==
  ASSUME NEW t \in Nat
  PROVE  /\ Over(t) \in Nat
         /\ t % BLOCK_SIZE # 0 => Over(t + 1) = Over(t) /\ Num(t) = Over(t) - 1
         /\ t % BLOCK_SIZE = 0 => Over(t + 1) = Over(t) + 1 /\ Num(t) = Over(t) /\ Pos(Over(t)) = t
<1>1. PICK b \in Nat \ {0}, o \in Nat, p \in Int : b = BLOCK_SIZE /\ o = Over(t) /\ p = Pos(o) /\ t <= p /\ p < t + b
  <2>1. Over(t) \in Nat /\ t <= Pos(Over(t)) /\ Pos(Over(t)) < t + BLOCK_SIZE
    BY OverIs
  <2>2. Pos(Over(t)) \in Int
    BY <2>1, PosInt
  <2> QED
    BY <2>1, <2>2, SizesAssumption
<1>2. PICK u \in Nat : u = t + 1
  OBVIOUS
<1>3. (t % BLOCK_SIZE = 0 => o = Num(t) /\ Pos(Num(t)) = t) /\ (t % BLOCK_SIZE # 0 => o = Num(t) + 1)
  BY <1>1, OverIs
<1>4. CASE t % BLOCK_SIZE # 0
  <2>1. p # t
    <3>1. CASE p = t
      <4>1. 0 \in Offsets /\ t = Pos(o) + 0
        BY <1>1, <3>1 DEF Offsets
      <4>2. t % BLOCK_SIZE = 0
        BY <4>1, NumOf
      <4> QED
        BY <1>4, <4>2
    <3> QED
      BY <3>1
  <2>2. u <= p /\ p < u + b
    BY <1>1, <1>2, <2>1
  <2>3. Over(u) = o
    BY <1>1, <2>2, OverIt
  <2>4. Num(t) \in Int
    BY NumIs
  <2> QED
    BY <1>1, <1>2, <1>3, <1>4, <2>3, <2>4
<1>5. CASE t % BLOCK_SIZE = 0
  <2>1. PICK k \in Int, q \in Int : k = o + 1 /\ q = Pos(k) /\ q = p + b
    <3>1. PICK k \in Int : k = o + 1
      OBVIOUS
    <3>2. Pos(o) \in Int /\ Pos(k) = Pos(o) + BLOCK_SIZE
      BY <3>1, PosNext
    <3> QED
      BY <1>1, <3>1, <3>2
  <2>2. p = t
    BY <1>1, <1>3, <1>5
  <2>3. u <= q /\ q < u + b
    BY <1>1, <1>2, <2>1, <2>2
  <2>4. Over(u) = k
    BY <1>1, <2>1, <2>3, OverIt
  <2> QED
    BY <1>1, <1>2, <1>3, <1>5, <2>1, <2>2, <2>4
<1> QED
  BY <1>4, <1>5

\* Nobody loses the way in an index that keeps its entries' bases.
LEMMA FollowsSame ==
  ASSUME UNCHANGED <<setup, headers, entries>>, NEW A, NEW C
  PROVE  Follows(A, C, C)
<1>1. \A C1, h, j : (Leads(C1, h, j)' <=> Leads(C1, h, j)) /\ (Tells(C1, h, j)' <=> Tells(C1, h, j)) /\ Slot(C1, h, j)' = Slot(C1, h, j)
  BY IndexStays
<1> QED
  BY <1>1 DEF Follows

\* The items that are constructed next are held, where their numbers have blocks.
LEMMA StocksItems ==
  ASSUME BlockTypes, setup' = setup, tail' = tail, NEW A, A \subseteq Nat, NEW K, \A j \in A : K[j] \in Blocks,
         Homes(pool', free', heap', A, K), Unread \subseteq Nat, tail \in Nat,
         Holds(cell, emptied', A, K, Unread, tail), NEW n \in Nat, NEW B, Assigned(A, K, tail, n, B), Construct(n, B),
         Unread' = Unread \cup tail .. tail + n - 1
  PROVE  cell' \in [Blocks -> [Offsets -> Nat]] /\ Stocked(A, K)'
<1>1. PICK ce \in [Blocks -> [Offsets -> Nat]], t \in Nat, cf \in {cell'}, em \in {emptied'}, U \in {Unread} :
        ce = cell /\ cf = cell' /\ em = emptied' /\ U = Unread /\ t = tail
  BY DEF BlockTypes
<1>2. Puts(cf, ce, t, n, B)
  BY <1>1 DEF Construct, Ahead, Puts
<1>3. Holds(ce, em, A, K, U, t) /\ U \subseteq Nat /\ Assigned(A, K, t, n, B)
  BY <1>1
<1>4. \A j, k \in A : K[j] = K[k] => j = k
  BY DEF Homes
<1>5. cf \in [Blocks -> [Offsets -> Nat]] /\ Holds(cf, em, A, K, U \cup t .. t + n - 1, t)
  BY <1>2, <1>3, <1>4, HoldsNew
<1>6. Blocks' = Blocks
  BY DEF Blocks
<1> QED
  BY <1>1, <1>5, <1>6 DEF Stocked, Homes, Holds

LEMMA PutOn ==
  ASSUME InUseTypes, NEW A, NEW K, NEW C, InUse(A, K, C), head <= tail, Put
  PROVE  BlockTypes' /\ IndexTypes' /\ InUse(A, K, C)'
<1>1. /\ UNCHANGED <<setup, tail, head, at, my, emptied, next, pool, free, heap, tailBlock, headers, entries, wrecked>>
      /\ pc = "idle" /\ pc' = "tail" /\ job'.n = 1 /\ tail % BLOCK_SIZE # 0 /\ Construct(1, [i \in Ahead(1) |-> tailBlock])
  BY DEF Put, Begin, InTail, theirs, index
<1>2. /\ A \subseteq Nat /\ (\A j \in A : K[j] \in Blocks) /\ Unread \subseteq Nat /\ head \in Nat /\ Stored = tail
  BY <1>1, Counts DEF Stored
<1>3. PICK t \in Nat, o \in Nat : t = tail /\ o = Over(t)
  <2>1. tail \in Nat
    BY Counts
  <2> QED
    BY <2>1, OneOver
<1>4. Filled = o /\ Filled' = o /\ Entered = o /\ Entered' = o /\ Stored' = t + 1 /\ Num(t) = o - 1
  <2>1. Over(t + 1) = o /\ Num(t) = o - 1
    BY <1>1, <1>3, OneOver
  <2>2. Over(tail + job.n)' = Over(t + 1) /\ Over(tail) = o
    BY <1>1, <1>3 DEF Over, Num
  <2> QED
    BY <1>1, <1>3, <2>1, <2>2 DEF Filled, Entered, Stored
<1>5. Num(t) \in A /\ tailBlock = K[Num(t)]
  <2>1. Num(t) \in Nat
    BY NumIs
  <2>2. Num(t) < Filled /\ Filled - 1 = Num(t)
    BY <1>3, <1>4, <2>1
  <2> QED
    BY <1>3, <2>1, <2>2 DEF InUse, Producing
<1>6. Unread' = Unread \cup t .. t + 1 - 1
  BY <1>1, <1>2, <1>3, <1>4, UnreadMore
<1>7. cell' \in [Blocks -> [Offsets -> Nat]] /\ Stocked(A, K)'
  <2>1. Homes(pool', free', heap', A, K) /\ Holds(cell, emptied', A, K, Unread, tail)
    BY <1>1 DEF InUse, Stocked
  <2>2. PICK B : B = [i \in Ahead(1) |-> tailBlock]
    OBVIOUS
  <2>3. Assigned(A, K, tail, 1, B)
    BY <1>3, <1>5, <2>2 DEF Assigned, Ahead
  <2>4. Construct(1, B) /\ setup' = setup /\ tail' = tail
    BY <1>1, <2>2
  <2> QED
    BY <1>2, <1>3, <1>6, <2>1, <2>3, <2>4, StocksItems DEF InUseTypes
<1>8. BlockTypes' /\ IndexTypes' /\ Blocks' = Blocks
  BY <1>1, <1>7, IndexStays DEF InUseTypes, BlockTypes, Blocks
<1>9. (\A c \in Consumers' : Knows(c, A, K, C)') /\ Apart'
  <2>1. PICK T : T = {j \in A : j < Over(tail)}
    OBVIOUS
  <2>2. Carries(A, K, A, K, T)
    BY <1>1, <2>1 DEF Carries
  <2>3. Follows(T, C, C)
    BY <1>1, FollowsSame
  <2> QED
    BY <1>1, <2>2, <2>3, ConsumersFollow
<1>10. Producing(A, K)'
  <2>1. \A j \in Nat : Num(tail)' <= j /\ j < Filled' => j \in A
    BY <1>1, <1>4 DEF InUse, Producing, Num
  <2>2. Filled' - 1 \in A => tailBlock' = K[Filled' - 1]
    BY <1>1, <1>4 DEF InUse, Producing
  <2>3. wrecked' = "none"
    BY <1>1 DEF InUse, Producing
  <2> QED
    BY <1>1, <2>1, <2>2, <2>3 DEF Producing
<1>11. Witnesses(A, K, C)' /\ Indexed(A, K, C)'
  <2>1. Filled' = Filled /\ Entered' = Entered
    BY <1>4
  <2> QED
    BY <1>1, <1>8, <2>1, IndexedStays DEF InUse, Witnesses
<1> QED
  BY <1>7, <1>8, <1>9, <1>10, <1>11 DEF InUse

LEMMA EntersOn ==
  ASSUME InUseTypes, NEW A, NEW K, NEW C, InUse(A, K, C), head <= tail,
         UNCHANGED <<setup, tail, head, at, my, cell, emptied, next, pool, free, heap, tailBlock, wrecked>>, InsertEntry(Pos(Filled)), Entered = Filled,
         Filled' = Filled, Entered' = Filled + 1, Stored' = Stored, Producing(A, K)'
  PROVE  BlockTypes' /\ IndexTypes' /\ \E D : InUse(A, K, D)'
<1>1. /\ IndexTypes /\ Witnesses(A, K, C) /\ Indexed(A, K, C) /\ Wrap \in Nat \ {0} /\ Filled \in Nat
  BY Counts, Setup DEF InUse, InUseTypes
<1>2. PICK D : Witnesses(A, K, D) /\ IndexTypes' /\ Indexed(A, K, D)' /\ Follows(A, C, D)
  <2>1. CASE NextUsable
    BY <1>1, <2>1, InsertsHere
  <2>2. CASE ~ NextUsable
    BY <1>1, <2>2, InsertsAnew
  <2> QED
    BY <2>1, <2>2
<1>3. Blocks' = Blocks
  BY DEF Blocks
<1>4. BlockTypes' /\ Witnesses(A, K, D)'
  BY <1>2, <1>3 DEF InUseTypes, BlockTypes, Witnesses
<1>5. Stocked(A, K)'
  <2>1. Unread' = Unread
    BY UnreadThen
  <2> QED
    BY <1>3, <2>1 DEF InUse, Stocked, Homes, Holds
<1>6. (\A c \in Consumers' : Knows(c, A, K, D)') /\ Apart'
  <2>1. PICK T : T = {j \in A : j < Over(tail)}
    OBVIOUS
  <2>2. Carries(A, K, A, K, T)
    BY <2>1 DEF Carries
  <2>3. Follows(T, C, D)
    BY <1>2, <2>1 DEF Follows
  <2> QED
    BY <2>2, <2>3, ConsumersFollow
<1> QED
  BY <1>2, <1>4, <1>5, <1>6 DEF InUse

LEMMA PutEntryOn ==
  ASSUME InUseTypes, NEW A, NEW K, NEW C, InUse(A, K, C), head <= tail, PutEntry
  PROVE  BlockTypes' /\ IndexTypes' /\ \E D : InUse(A, K, D)'
<1>1. /\ UNCHANGED <<setup, tail, head, at, my, cell, emptied, next, pool, free, heap, tailBlock, wrecked>>
      /\ pc = "idle" /\ pc' = "put" /\ job'.n = 1 /\ tail % BLOCK_SIZE = 0 /\ InsertEntry(tail)
  BY DEF PutEntry, Begin, theirs, blocks
<1>2. PICK t \in Nat, o \in Nat : t = tail /\ o = Over(t) /\ Pos(o) = t
  <2>1. tail \in Nat
    BY Counts
  <2> QED
    BY <1>1, <2>1, OneOver
<1>3. Filled = o /\ Filled' = o /\ Entered = o /\ Entered' = o + 1 /\ Stored' = Stored
  <2>1. Over(tail)' = Over(t) /\ Over(tail) = o
    BY <1>1, <1>2 DEF Over, Num
  <2> QED
    BY <1>1, <1>2, <2>1 DEF Filled, Entered, Stored
<1>4. Producing(A, K)'
  <2>1. \A j \in Nat : Num(tail)' <= j /\ j < Filled' => j \in A
    BY <1>1, <1>3 DEF InUse, Producing, Num
  <2>2. (Filled' - 1 \in A => tailBlock' = K[Filled' - 1]) /\ wrecked' = "none"
    BY <1>1, <1>3 DEF InUse, Producing
  <2>3. tail' % BLOCK_SIZE = 0
    BY <1>1
  <2> QED
    BY <1>1, <2>1, <2>2, <2>3 DEF Producing
<1> QED
  BY <1>1, <1>2, <1>3, <1>4, EntersOn

LEMMA BulkEntryOn ==
  ASSUME InUseTypes, NEW A, NEW K, NEW C, InUse(A, K, C), head <= tail, BulkEntry
  PROVE  BlockTypes' /\ IndexTypes' /\ \E D : InUse(A, K, D)'
<1>1. /\ UNCHANGED <<setup, tail, head, at, my, cell, emptied, next, pool, free, heap, tailBlock, job, wrecked>>
      /\ pc = "chain" /\ pc' = "link" /\ InsertEntry(job.base + BLOCK_SIZE)
  BY DEF BulkEntry, theirs, blocks
<1>2. Filled' = Filled /\ Entered = Filled /\ Entered' = Filled + 1 /\ Stored' = Stored
  BY <1>1 DEF Filled, Entered, Stored, Over, Num
<1>3. job.base + BLOCK_SIZE = Pos(Filled)
  <2>1. job.base = Pos(Filled) - BLOCK_SIZE
    BY <1>1 DEF InUse, Producing
  <2>2. Pos(Filled) \in Int /\ BLOCK_SIZE \in Int
    BY Counts, PosInt, SizesAssumption
  <2> QED
    BY <2>1, <2>2
<1>4. Producing(A, K)'
  <2>1. Producing(A, K) /\ Blocks' = Blocks /\ Num(tail)' = Num(tail) /\ Over(tail)' = Over(tail) /\ Over(tail + job.n)' = Over(tail + job.n)
        /\ Pos(Filled)' = Pos(Filled)
    BY <1>1, <1>2 DEF InUse, Blocks, Num, Over, Pos
  <2> QED
    BY <1>1, <1>2, <2>1 DEF Producing
<1> QED
  BY <1>1, <1>2, <1>3, <1>4, EntersOn

\* The newest entries are those of the newest numbers.
LEMMA NewestEntry ==
  ASSUME IndexTypes, NEW C \in [Nat -> Nat], NEW A, NEW K, Indexed(A, K, C), Entered \in Nat,
         NEW k \in Int, NEW j \in Nat, Ago(k, j)
  PROVE  EntryAt(Header, Header.front - k) = Place(C, j)
<1>1. (Header.front - k) % Size(Header) = Slot(C, Len(headers), j)
  BY NewestSlot
<1> QED
  BY <1>1 DEF EntryAt, Place

LEMMA NewestIs ==
  ASSUME IndexTypes, NEW C \in [Nat -> Nat], NEW A, NEW K, Indexed(A, K, C), NEW M \in Nat, Entered = M + 1
  PROVE  Newest = Place(C, M) /\ Place(C, M) \in 1 .. Len(entries)
<1>1. PICK z \in Int : z = 0 /\ Ago(z, M)
  BY DEF Ago
<1>2. Entered \in Nat
  OBVIOUS
<1>3. EntryAt(Header, Header.front - z) = Place(C, M)
  BY <1>1, <1>2, NewestEntry
<1>4. Header.front - z = Header.front
  <2>1. Heading(Header)
    BY PlaceIn
  <2>2. PICK f \in Int : f = Header.front
    BY ONLY <2>1 DEF Heading
  <2>3. f - z = f
    BY <1>1
  <2> QED
    BY <2>2, <2>3
<1> QED
  BY <1>3, <1>4, PlaceIn DEF Newest

\* The next number gets the block that its entry then has.
LEMMA IndexedMore ==
  ASSUME IndexTypes, NEW A, A \subseteq Nat, NEW K, K \in [Nat -> Blocks \cup {0}], NEW C \in [Nat -> Nat], Indexed(A, K, C),
         NEW M \in Nat, Filled = M, Entered = M + 1, Filled' = M + 1, Entered' = M + 1,
         UNCHANGED <<setup, headers>>, NEW b \in Blocks, entries' = [entries EXCEPT ![Newest].block = b],
         NEW B, B = A \cup {M}, NEW L, L = [K EXCEPT ![M] = b]
  PROVE  IndexTypes' /\ Indexed(B, L, C)' /\ \A T : Follows(T, C, C)
<1>1. PICK e \in 1 .. Len(entries) : e = Place(C, M) /\ entries' = [entries EXCEPT ![e].block = b]
  BY NewestIs
<1>2. /\ IndexTypes' /\ Len(entries') = Len(entries)
      /\ entries'[e] = [base |-> entries[e].base, block |-> b]
      /\ \A x \in 1 .. Len(entries) : (x # e => entries'[x] = entries[x]) /\ entries'[x].base = entries[x].base
      /\ \A h \in 1 .. Len(headers) : \A s \in 0 .. Size(headers[h]) - 1 : Tells(C, h, s)' <=> Tells(C, h, s)
      /\ \A h \in 1 .. Len(headers) : \A j : Leads(C, h, j)' <=> Leads(C, h, j)
      /\ \A h, j : Slot(C, h, j)' = Slot(C, h, j) /\ Place(C, j)' = Place(C, j)
      /\ \A h : Size(headers[h])' = Size(headers[h])
  BY <1>1, BlockSet
<1>3. \A T : Follows(T, C, C)
  BY <1>2 DEF Follows
<1>4. \A x : W(x)' = W(x)
  BY DEF W, Wrap
<1>5. Header' = Header /\ Size(Header)' = Size(Header) /\ Size(Header) \in Nat \ {0}
  <2>1. Heading(Header)
    BY PlaceIn
  <2> QED
    BY <2>1 DEF Header, Size, Heading
<1>6. ASSUME NEW j \in Nat PROVE entries'[Place(C, j)'].base = entries[Place(C, j)].base
  BY <1>2, PlaceIn
<1>7. entries[Place(C, M)].base = W(Pos(M))
  BY DEF Indexed
<1>8. L[M] = b /\ \A j \in A : M # j => L[j] = K[j]
  OBVIOUS
<1>9. \A h \in 1 .. Len(headers'), j \in Nat : \A s \in 0 .. Size(headers[h])' - 1 :
        headers'[h].index[s] = Place(C, j)' => s = Slot(C, h, j)'
  <2>1. Len(headers') = Len(headers) /\ \A h : headers'[h].index = headers[h].index
    OBVIOUS
  <2>2. \A h \in 1 .. Len(headers), j \in Nat : \A s \in 0 .. Size(headers[h]) - 1 :
          headers[h].index[s] = Place(C, j) => s = Slot(C, h, j)
    BY DEF Indexed
  <2> SUFFICES ASSUME NEW h \in 1 .. Len(headers), NEW j \in Nat, NEW s \in 0 .. Size(headers[h])' - 1,
                      headers'[h].index[s] = Place(C, j)'
               PROVE  s = Slot(C, h, j)'
    BY <2>1
  <2>3. Slot(C, h, j)' = Slot(C, h, j) /\ Place(C, j)' = Place(C, j) /\ Size(headers[h])' = Size(headers[h])
    BY <1>2
  <2>4. s \in 0 .. Size(headers[h]) - 1 /\ headers[h].index[s] = Place(C, j)
    BY <2>1, <2>3
  <2> QED
    BY <2>2, <2>3, <2>4
<1>10. (Header'.front + 1) % Size(Header)' = Slot(C, Len(headers), Entered)'
  BY <1>2, <1>5 DEF Indexed
<1>11. ASSUME NEW j \in B
       PROVE  /\ j < M + 1 /\ M + 1 <= j + Size(Header)'
              /\ entries'[Place(C, j)'] = [base |-> W(Pos(j))', block |-> L[j]]
              /\ \A d \in j .. M + 1 - 1 : entries'[Place(C, d)'].base = W(Pos(d))'
  <2>1. CASE j = M
    <3>1. entries'[Place(C, M)'] = [base |-> W(Pos(M))', block |-> L[M]]
      <4>1. Place(C, M)' = e
        BY <1>1, <1>2
      <4>2. entries[e].base = W(Pos(M)) /\ W(Pos(M))' = W(Pos(M))
        BY <1>1, <1>4, <1>7 DEF Pos
      <4> QED
        BY <1>2, <1>8, <4>1, <4>2
    <3>2. \A d \in j .. M + 1 - 1 : d = M
      BY <2>1
    <3>3. j < M + 1 /\ M + 1 <= j + Size(Header)'
      <4>1. PICK n \in Nat \ {0} : n = Size(Header)'
        BY <1>5
      <4>2. M < M + 1 /\ M + 1 <= M + n
        BY ONLY M \in Nat, n \in Nat \ {0}
      <4> QED
        BY ONLY <2>1, <4>1, <4>2
    <3>4. entries'[Place(C, j)'] = [base |-> W(Pos(j))', block |-> L[j]]
      BY <2>1, <3>1 DEF Pos
    <3>5. ASSUME NEW d \in j .. M + 1 - 1 PROVE entries'[Place(C, d)'].base = W(Pos(d))'
      <4>1. d = M
        BY <3>2
      <4>2. entries'[Place(C, M)'].base = W(Pos(M))'
        BY ONLY <3>1
      <4> QED
        BY <4>1, <4>2 DEF Pos
    <3> QED
      BY <3>3, <3>4, <3>5
  <2>2. CASE j # M
    <3>1. j \in A /\ j \in Nat
      BY <2>2
    <3>2. /\ j < M /\ M + 1 <= j + Size(Header) /\ entries[Place(C, j)] = [base |-> W(Pos(j)), block |-> K[j]]
          /\ \A d \in j .. M + 1 - 1 : entries[Place(C, d)].base = W(Pos(d))
      BY <3>1 DEF Indexed
    <3>3. Place(C, j) # e
      <4>1. M < Entered /\ Entered \in Nat
        <5>1. M + 1 \in Nat /\ M < M + 1
          BY ONLY M \in Nat
        <5> QED
          BY ONLY <5>1, Entered = M + 1
      <4> QED
        BY <1>1, <3>1, <3>2, <4>1, OwnPlace
    <3>4. entries'[Place(C, j)'] = entries[Place(C, j)]
      BY <1>2, <3>1, <3>3, PlaceIn
    <3>5. ASSUME NEW d \in j .. M + 1 - 1 PROVE entries'[Place(C, d)'].base = W(Pos(d))'
      <4>1. d \in Nat
        BY <3>1
      <4> QED
        BY <1>4, <1>6, <3>2, <4>1
    <3>6. W(Pos(j))' = W(Pos(j))
      BY <1>4 DEF Pos
    <3>7. entries'[Place(C, j)'] = [base |-> W(Pos(j))', block |-> L[j]]
      BY <1>8, <2>2, <3>1, <3>2, <3>4, <3>6
    <3>8. j < M + 1 /\ M + 1 <= j + Size(Header)'
      BY <1>5, <3>1, <3>2
    <3> QED
      BY <3>5, <3>7, <3>8
  <2> QED
    BY <2>1, <2>2
<1>12. Indexed(B, L, C)'
  <2>1. Filled' = M + 1 /\ Entered' = M + 1 /\ ~ Entered' > Filled'
    OBVIOUS
  <2>2. (Header'.front + 1) % Size(Header)' = Slot(C, Len(headers), Entered)'
    BY <1>10
  <2>3. \A j \in B :
          /\ j < Filled' /\ Entered' <= j + Size(Header)'
          /\ entries'[Place(C, j)'] = [base |-> W(Pos(j))', block |-> L[j]]
          /\ \A d \in j .. Entered' - 1 : entries'[Place(C, d)'].base = W(Pos(d))'
    <3> SUFFICES ASSUME NEW j \in B
                 PROVE  /\ j < Filled' /\ Entered' <= j + Size(Header)'
                        /\ entries'[Place(C, j)'] = [base |-> W(Pos(j))', block |-> L[j]]
                        /\ \A d \in j .. Entered' - 1 : entries'[Place(C, d)'].base = W(Pos(d))'
      OBVIOUS
    <3>1. /\ j < M + 1 /\ M + 1 <= j + Size(Header)'
          /\ entries'[Place(C, j)'] = [base |-> W(Pos(j))', block |-> L[j]]
          /\ \A d \in j .. M + 1 - 1 : entries'[Place(C, d)'].base = W(Pos(d))'
      BY ONLY <1>11, j \in B
    <3>2. Entered' - 1 = M + 1 - 1
      BY ONLY <2>1
    <3> QED
      BY ONLY <2>1, <3>1, <3>2
  <2> QED
    BY <1>9, <2>1, <2>2, <2>3 DEF Indexed
<1> QED
  BY <1>2, <1>3, <1>12

\* The block of a number that has none yet.
Gives(B, L, A, K, M, b) == B = A \cup {M} /\ L = [K EXCEPT ![M] = b] /\ entries' = [entries EXCEPT ![Newest].block = b]

LEMMA GetsBlock ==
  ASSUME InUseTypes, NEW A, NEW K, NEW C, InUse(A, K, C), head <= tail,
         UNCHANGED <<setup, tail, head, at, my, headers>>,
         NEW M \in Nat, Filled = M, Entered = M + 1, Filled' = M + 1, Entered' = M + 1,
         NEW b, b \in Requisition(job.canAlloc), TakeBlock(b), ResetEmpty({b}),
         NEW B, NEW L, Gives(B, L, A, K, M, b)
  PROVE  /\ b \in Blocks /\ M \notin A /\ (\A j \in A : b # K[j]) /\ IndexTypes' /\ Indexed(B, L, C)' /\ Witnesses(B, L, C)'
         /\ pool' \subseteq Blocks /\ free' \subseteq Blocks /\ heap' \subseteq Blocks /\ emptied' \in [Blocks -> SUBSET Offsets]
         /\ Homes(pool', free', heap', B, L) /\ Holds(cell, emptied', B, L, Unread, tail)
         /\ (\A c \in Consumers' : Knows(c, B, L, C)') /\ Apart'
<1> B = A \cup {M} /\ L = [K EXCEPT ![M] = b] /\ entries' = [entries EXCEPT ![Newest].block = b]
  BY DEF Gives
<1>1. b \in pool \cup free \cup heap
  BY DEF Requisition
<1>2. /\ IndexTypes /\ A \subseteq Nat /\ K \in [Nat -> Blocks \cup {0}] /\ (\A j \in A : K[j] \in Blocks) /\ C \in [Nat -> Nat]
      /\ Unread \subseteq Nat /\ tail \in Nat /\ emptied \in [Blocks -> SUBSET Offsets]
      /\ pool \subseteq Blocks /\ free \subseteq Blocks /\ heap \subseteq Blocks
  BY Counts DEF InUseTypes, BlockTypes
<1>3. Homes(pool, free, heap, A, K) /\ Holds(cell, emptied, A, K, Unread, tail) /\ Indexed(A, K, C)
  BY DEF InUse, Stocked
<1>4. b \in Blocks
  BY <1>1, <1>2
<1>5. M \notin A
  <2>1. \A j \in A : j < M
    BY <1>3 DEF Indexed
  <2> QED
    BY ONLY <2>1, M \in Nat
<1>6. pool' = pool \ {b} /\ free' = free \ {b} /\ heap' = heap \ {b}
  BY DEF TakeBlock
<1>7. emptied' = [x \in Blocks |-> IF x \in {b} THEN {} ELSE emptied[x]]
  BY DEF ResetEmpty
<1>8. Homes(pool', free', heap', B, L) /\ \A j \in A : b # K[j]
  BY <1>1, <1>2, <1>3, <1>5, <1>6, HomesMore, ZenonT(40)
<1>9. Holds(cell, emptied', B, L, Unread, tail)
  <2>1. Hands(emptied', B, L, emptied, A, K, M, b)
    BY <1>5, <1>7, <1>8 DEF Hands
  <2> QED
    BY ONLY <1>2, <1>3, <1>4, <2>1, M \in Nat, HoldsMore
<1>10. IndexTypes' /\ Indexed(B, L, C)' /\ \A T : Follows(T, C, C)
  <2>1. UNCHANGED <<setup, headers>>
    OBVIOUS
  <2> QED
    BY <1>2, <1>3, <1>4, <2>1, IndexedMore
<1>11. Witnesses(B, L, C)'
  <2>1. Blocks' = Blocks
    BY DEF Blocks
  <2>2. B \subseteq Nat /\ L \in [Nat -> Blocks \cup {0}] /\ \A j \in B : L[j] \in Blocks
    BY <1>2, <1>4, <1>5
  <2> QED
    BY <1>2, <2>1, <2>2 DEF Witnesses
<1>12. (\A c \in Consumers' : Knows(c, B, L, C)') /\ Apart'
  <2>1. PICK T : T = {j \in A : j < Over(tail)}
    OBVIOUS
  <2>2. \A j \in A : j # M /\ L[j] = K[j]
    BY <1>2, <1>5
  <2>3. \A j \in A : emptied'[K[j]] = emptied[K[j]]
    BY <1>2, <1>7, <1>8
  <2>4. ASSUME NEW x \in Blocks, x \notin pool \cup free \cup heap, \A j \in A : x # K[j]
        PROVE  x \notin pool' \cup free' \cup heap' /\ \A j \in B : x # L[j]
    <3>1. L[M] = b
      BY <1>2
    <3> QED
      BY <1>1, <1>6, <2>2, <2>4, <3>1
  <2>5. Carries(A, K, B, L, T)
    BY <2>1, <2>2, <2>3, <2>4 DEF Carries
  <2>6. Follows(T, C, C)
    BY <1>10
  <2> QED
    BY <2>5, <2>6, ConsumersFollow
<1>13. emptied' \in [Blocks -> SUBSET Offsets]
  BY <1>2, <1>7
<1> QED
  BY <1>2, <1>4, <1>5, <1>6, <1>8, <1>9, <1>10, <1>11, <1>12, <1>13

LEMMA PutBlockOn ==
  ASSUME InUseTypes, NEW A, NEW K, NEW C, InUse(A, K, C), head <= tail, PutBlock
  PROVE  BlockTypes' /\ IndexTypes' /\ \E B, L : InUse(B, L, C)'
<1>1. PICK b \in Requisition(job.canAlloc) :
        /\ TakeBlock(b) /\ ResetEmpty({b}) /\ Construct(1, [i \in Ahead(1) |-> b])
        /\ entries' = [entries EXCEPT ![Newest].block = b] /\ tailBlock' = b
  BY DEF PutBlock
<1>2. UNCHANGED <<setup, tail, head, at, my, next, headers, job, wrecked>> /\ pc = "put" /\ pc' = "tail"
  BY DEF PutBlock, theirs
<1>3. job.n = 1 /\ tail % BLOCK_SIZE = 0 /\ wrecked = "none"
  BY <1>2 DEF InUse, Producing
<1>4. PICK t \in Nat, M \in Nat : t = tail /\ M = Over(t) /\ M = Num(t) /\ Over(t + 1) = M + 1
  <2>1. tail \in Nat
    BY Counts
  <2> QED
    BY <1>3, <2>1, OneOver
<1>5. Filled = M /\ Entered = M + 1 /\ Filled' = M + 1 /\ Entered' = M + 1 /\ Stored = t /\ Stored' = t + 1
  <2>1. Over(tail + job.n)' = Over(t + 1) /\ Over(tail) = M
    BY <1>2, <1>3, <1>4 DEF Over, Num
  <2> QED
    BY <1>2, <1>3, <1>4, <2>1 DEF Filled, Entered, Stored
<1>6. PICK B, L : B = A \cup {M} /\ L = [K EXCEPT ![M] = b]
  OBVIOUS
<1>7. /\ b \in Blocks /\ M \notin A /\ IndexTypes' /\ Indexed(B, L, C)' /\ Witnesses(B, L, C)'
      /\ pool' \subseteq Blocks /\ free' \subseteq Blocks /\ heap' \subseteq Blocks /\ emptied' \in [Blocks -> SUBSET Offsets]
      /\ Homes(pool', free', heap', B, L) /\ Holds(cell, emptied', B, L, Unread, tail)
      /\ (\A c \in Consumers' : Knows(c, B, L, C)') /\ Apart'
  <2>1. UNCHANGED <<setup, tail, head, at, my, headers>> /\ Gives(B, L, A, K, M, b)
    BY <1>1, <1>2, <1>6 DEF Gives
  <2> QED
    BY <1>1, <1>5, <2>1, GetsBlock
<1>8. Unread' = Unread \cup t .. t + 1 - 1
  <2>1. UNCHANGED <<setup, head, at, my>> /\ head \in Nat
    BY <1>2, Counts
  <2> QED
    BY <1>4, <1>5, <2>1, UnreadMore
<1>9. L[M] = b
  BY <1>4, <1>6 DEF InUse, Witnesses
<1>10. cell' \in [Blocks -> [Offsets -> Nat]] /\ Stocked(B, L)'
  <2>1. B \subseteq Nat /\ (\A j \in B : L[j] \in Blocks) /\ Unread \subseteq Nat
    <3>1. Blocks' = Blocks
      BY <1>2 DEF Blocks
    <3> QED
      BY <1>7, <3>1, Counts DEF Witnesses
  <2>2. PICK F : F = [i \in Ahead(1) |-> b]
    OBVIOUS
  <2>3. Assigned(B, L, tail, 1, F)
    BY <1>4, <1>6, <1>9, <2>2 DEF Assigned, Ahead
  <2>4. Construct(1, F) /\ setup' = setup /\ tail' = tail /\ tail \in Nat /\ 1 \in Nat
    BY <1>1, <1>2, <1>4, <2>2
  <2>5. Unread' = Unread \cup tail .. tail + 1 - 1
    BY <1>4, <1>8
  <2> QED
    BY <1>7, <2>1, <2>3, <2>4, <2>5, StocksItems DEF InUseTypes
<1>11. BlockTypes'
  <2>1. Blocks' = Blocks
    BY <1>2 DEF Blocks
  <2> QED
    BY <1>1, <1>2, <1>7, <1>10, <2>1 DEF InUseTypes, BlockTypes
<1>12. Producing(B, L)'
  <2>1. \A j \in Nat : Num(tail)' <= j /\ j < Filled' => j \in B
    <3>1. Num(tail)' = M
      BY <1>2, <1>4 DEF Num
    <3>2. \A j \in Nat : M <= j /\ j < M + 1 => j = M
      BY <1>4
    <3> QED
      BY <1>5, <1>6, <3>1, <3>2
  <2>2. Filled' - 1 \in B => tailBlock' = L[Filled' - 1]
    <3>1. Filled' - 1 = M
      BY <1>5
    <3> QED
      BY <1>1, <1>9, <3>1
  <2> QED
    BY <1>2, <1>3, <2>1, <2>2 DEF Producing
<1> QED
  BY <1>7, <1>10, <1>11, <1>12 DEF InUse

\* The new block is the last of the chain.
Chains(L, K, M, b) ==
  /\ L = [K EXCEPT ![M] = b]
  /\ next' = IF tail % BLOCK_SIZE # 0 \/ job.first # 0
             THEN [next EXCEPT ![b] = 0, ![tailBlock] = b] ELSE [next EXCEPT ![b] = 0]

LEMMA Chained ==
  ASSUME InUseTypes, NEW A, NEW K, NEW C, InUse(A, K, C), pc = "link",
         NEW b \in Blocks, \A j \in A : b # K[j], NEW M \in Nat, M = Filled, NEW L, Chains(L, K, M, b),
         NEW o \in Nat, o = Over(tail)
  PROVE  /\ next' \in [Blocks -> Blocks \cup {0}] /\ o <= M
         /\ (IF job.first = 0 THEN b ELSE job.first) = L[o]
         /\ \A j \in Nat : o <= j /\ j + 1 < M + 1 => next'[L[j]] = L[j + 1]
<1> /\ L = [K EXCEPT ![M] = b]
    /\ next' = IF tail % BLOCK_SIZE # 0 \/ job.first # 0
               THEN [next EXCEPT ![b] = 0, ![tailBlock] = b] ELSE [next EXCEPT ![b] = 0]
  BY DEF Chains
<1>1. /\ K \in [Nat -> Blocks \cup {0}] /\ (\A j \in A : K[j] \in Blocks) /\ next \in [Blocks -> Blocks \cup {0}] /\ tail \in Nat
      /\ \A j, k \in A : K[j] = K[k] => j = k
  BY Counts DEF InUse, Stocked, Homes, InUseTypes, BlockTypes
<1>2. /\ job.got \in Nat /\ job.first = IF job.got = 0 THEN 0 ELSE K[o]
      /\ \A j \in Nat : o <= j /\ j + 1 < M => next[K[j]] = K[j + 1]
  BY DEF InUse, Producing
<1>3. M = o + job.got
  BY DEF Filled
<1>4. \A j \in Nat : o <= j /\ j < M => j \in A
  <2>1. PICK k \in Int : k = Num(tail) /\ k <= o
    <3>1. Num(tail) \in Int
      BY <1>1, NumIs
    <3>2. Over(tail) = Num(tail) \/ Over(tail) = Num(tail) + 1
      BY <1>1, OverIs
    <3> QED
      BY <3>1, <3>2
  <2>2. \A j \in Nat : k <= j /\ j < M => j \in A
    BY <2>1 DEF InUse, Producing
  <2> QED
    BY <2>1, <2>2
<1>5. M - 1 \in A => tailBlock = K[M - 1]
  BY DEF InUse, Producing
<1>6. 0 \notin Blocks
  BY DEF Blocks
<1>7. PICK g \in Nat : g = job.got /\ M = o + g
  BY <1>2, <1>3
<1>8. next' \in [Blocks -> Blocks \cup {0}]
  BY <1>1
<1>9. CASE g = 0
  <2>1. M = o /\ \A j \in Nat : ~ (o <= j /\ j + 1 < M + 1)
    BY <1>7, <1>9
  <2>2. job.first = 0 /\ L[M] = b
    BY <1>1, <1>2, <1>7, <1>9
  <2> QED
    BY <1>7, <1>8, <2>1, <2>2
<1>10. CASE g # 0
  <2>1. o < M /\ o \in A /\ M - 1 \in A /\ M - 1 \in Nat /\ M - 1 # M /\ o # M
    <3>1. o < M /\ M - 1 \in Nat /\ o <= M - 1 /\ M - 1 < M
      BY <1>7, <1>10
    <3> QED
      BY <1>4, <3>1
  <2>2. job.first = K[o] /\ K[o] # 0 /\ L[o] = K[o]
    BY <1>1, <1>2, <1>6, <1>7, <1>10, <2>1
  <2>3. tailBlock = K[M - 1] /\ tailBlock \in Blocks
    BY <1>1, <1>5, <2>1
  <2>4. next' = [next EXCEPT ![b] = 0, ![tailBlock] = b]
    BY <2>2
  <2>5. ASSUME NEW j \in Nat, o <= j, j + 1 < M + 1 PROVE next'[L[j]] = L[j + 1]
    <3>1. j < M /\ j # M /\ j \in A /\ L[j] = K[j] /\ K[j] \in Blocks
      BY <1>1, <1>4, <2>5
    <3>2. CASE j + 1 = M
      <4>1. j = M - 1 /\ L[j + 1] = b
        BY <1>1, <3>2
      <4> QED
        BY <1>1, <2>3, <2>4, <3>1, <4>1
    <3>3. CASE j + 1 # M
      <4>1. j + 1 < M /\ j # M - 1 /\ j + 1 \in Nat
        BY <2>5, <3>3
      <4>2. L[j + 1] = K[j + 1] /\ next[K[j]] = K[j + 1]
        BY <1>1, <1>2, <2>5, <4>1
      <4>3. K[j] # b /\ K[j] # tailBlock
        BY <1>1, <2>1, <2>3, <3>1, <4>1
      <4> QED
        BY <1>1, <2>4, <3>1, <4>2, <4>3
    <3> QED
      BY <3>2, <3>3
  <2>6. (IF job.first = 0 THEN b ELSE job.first) = L[o]
    BY ONLY <2>2
  <2>7. o <= M
    BY ONLY <2>1, o \in Nat, M \in Nat
  <2> QED
    BY ONLY <1>8, <2>5, <2>6, <2>7
<1> QED
  BY <1>7, <1>9, <1>10

LEMMA ChainBlockOn ==
  ASSUME InUseTypes, NEW A, NEW K, NEW C, InUse(A, K, C), head <= tail, ChainBlock
  PROVE  BlockTypes' /\ IndexTypes' /\ \E B, L : InUse(B, L, C)'
<1>1. PICK b \in Requisition(job.canAlloc) :
        /\ TakeBlock(b) /\ ResetEmpty({b}) /\ entries' = [entries EXCEPT ![Newest].block = b] /\ tailBlock' = b
        /\ next' = IF tail % BLOCK_SIZE # 0 \/ job.first # 0
                   THEN [next EXCEPT ![b] = 0, ![tailBlock] = b] ELSE [next EXCEPT ![b] = 0]
        /\ job' = [job EXCEPT !.todo = @ - 1, !.base = @ + BLOCK_SIZE, !.got = @ + 1,
                              !.first = IF @ = 0 THEN b ELSE @]
  BY DEF ChainBlock
<1>2. /\ UNCHANGED <<setup, tail, head, at, my, cell, headers, wrecked>> /\ pc = "link"
      /\ pc' = IF job.todo = 1 THEN "items" ELSE "chain"
  BY DEF ChainBlock, theirs
<1>3. PICK M \in Nat, o \in Nat : M = Filled /\ o = Over(tail)
  <2>1. tail \in Nat /\ Filled \in Nat
    BY Counts
  <2>2. Over(tail) \in Nat
    BY <2>1, OverIs
  <2> QED
    BY <2>1, <2>2
<1>4. /\ wrecked = "none" /\ (\A j \in Nat : Num(tail) <= j /\ j < M => j \in A)
      /\ job.n \in Nat /\ job.got \in Nat /\ job.todo \in Nat /\ M + job.todo = Over(tail + job.n)
      /\ job.base = Pos(M) - BLOCK_SIZE /\ job.todo # 0
      /\ job = [n |-> job.n, canAlloc |-> job.canAlloc, todo |-> job.todo, base |-> job.base,
                first |-> job.first, start |-> job.start, got |-> job.got]
      /\ job.start \in Blocks \cup {0} /\ (o - 1 \in A => job.start = K[o - 1])
  BY <1>2, <1>3 DEF InUse, Producing
<1>5. PICK g \in Nat, d \in Nat, p \in Int, q \in Int :
        g = job.got /\ d = job.todo /\ d # 0 /\ M = o + g /\ p = Pos(M) - BLOCK_SIZE /\ p = job.base
        /\ q = p + BLOCK_SIZE /\ q = Pos(M + 1) - BLOCK_SIZE
  <2>1. M = o + job.got
    BY <1>2, <1>3 DEF Filled
  <2>2. Pos(M) \in Int /\ Pos(M + 1) = Pos(M) + BLOCK_SIZE /\ BLOCK_SIZE \in Int
    <3>1. PICK k \in Int : k = M + 1
      OBVIOUS
    <3>2. M \in Int
      OBVIOUS
    <3> QED
      BY <3>1, <3>2, PosNext, SizesAssumption
  <2>3. Pos(M) - BLOCK_SIZE \in Int /\ (Pos(M) - BLOCK_SIZE) + BLOCK_SIZE = Pos(M + 1) - BLOCK_SIZE
        /\ (Pos(M) - BLOCK_SIZE) + BLOCK_SIZE \in Int
    BY <2>2
  <2> QED
    BY <1>4, <2>1, <2>3
<1>6. PICK f : f = IF job.first = 0 THEN b ELSE job.first
  OBVIOUS
<1>7. /\ job'.n = job.n /\ job'.canAlloc = job.canAlloc /\ job'.todo = d - 1 /\ job'.base = q /\ job'.first = f
      /\ job'.start = job.start /\ job'.got = g + 1
      /\ job' = [n |-> job'.n, canAlloc |-> job'.canAlloc, todo |-> job'.todo, base |-> job'.base,
                 first |-> job'.first, start |-> job'.start, got |-> job'.got]
  <2>1. job' = [job EXCEPT !.todo = d - 1, !.base = q, !.got = g + 1, !.first = f]
    BY <1>1, <1>5, <1>6
  <2> QED
    BY ONLY <1>4, <2>1
<1>8. Filled' = M + 1 /\ Entered = M + 1 /\ Entered' = M + 1 /\ Stored' = Stored /\ Over(tail)' = o
  <2>1. Over(tail)' = o
    BY <1>2, <1>3 DEF Over, Num
  <2>2. o + (g + 1) = M + 1
    BY <1>5
  <2> QED
    BY <1>2, <1>3, <1>7, <2>1, <2>2 DEF Filled, Entered, Stored
<1>9. PICK B, L : B = A \cup {M} /\ L = [K EXCEPT ![M] = b]
  OBVIOUS
<1>10. /\ b \in Blocks /\ M \notin A /\ (\A j \in A : b # K[j]) /\ IndexTypes' /\ Indexed(B, L, C)' /\ Witnesses(B, L, C)'
       /\ pool' \subseteq Blocks /\ free' \subseteq Blocks /\ heap' \subseteq Blocks /\ emptied' \in [Blocks -> SUBSET Offsets]
       /\ Homes(pool', free', heap', B, L) /\ Holds(cell, emptied', B, L, Unread, tail)
       /\ (\A c \in Consumers' : Knows(c, B, L, C)') /\ Apart'
  <2>1. UNCHANGED <<setup, tail, head, at, my, headers>> /\ Gives(B, L, A, K, M, b)
    BY <1>1, <1>2, <1>9 DEF Gives
  <2> QED
    BY <1>1, <1>3, <1>8, <2>1, GetsBlock
<1>11. /\ next' \in [Blocks -> Blocks \cup {0}] /\ o <= M /\ f = L[o]
       /\ \A j \in Nat : o <= j /\ j + 1 < M + 1 => next'[L[j]] = L[j + 1]
  <2>1. Chains(L, K, M, b)
    BY <1>1, <1>9 DEF Chains
  <2> QED
    BY <1>2, <1>3, <1>6, <1>10, <2>1, Chained
<1>12. Blocks' = Blocks
  BY <1>2 DEF Blocks
<1>13. Stocked(B, L)' /\ BlockTypes'
  <2>1. Unread' = Unread
    BY <1>2, <1>8, UnreadThen
  <2> QED
    BY <1>1, <1>2, <1>10, <1>11, <1>12, <2>1 DEF Stocked, Homes, Holds, InUseTypes, BlockTypes
<1>14. Producing(B, L)'
  <2>1. \A j \in Nat : Num(tail)' <= j /\ j < Filled' => j \in B
    <3>1. Num(tail)' = Num(tail)
      BY <1>2 DEF Num
    <3>2. \A j \in Nat : j < M + 1 => j < M \/ j = M
      BY <1>3
    <3> QED
      BY <1>4, <1>8, <1>9, <3>1, <3>2
  <2>2. L[M] = b /\ \A j \in A : L[j] = K[j]
    BY <1>3, <1>9, <1>10 DEF InUse, Witnesses
  <2>3. Filled' - 1 \in B => tailBlock' = L[Filled' - 1]
    <3>1. Filled' - 1 = M
      BY <1>8
    <3> QED
      BY <1>1, <2>2, <3>1
  <2>4. Over(tail)' - 1 \in B => job'.start = L[Over(tail)' - 1]
    <3>1. o - 1 # M
      BY <1>11
    <3> QED
      BY <1>4, <1>7, <1>8, <1>9, <2>2, <3>1
  <2>5. Filled' + job'.todo = Over(tail + job.n)'
    <3>1. Over(tail + job.n)' = Over(tail + job.n)
      BY <1>2, <1>7 DEF Over, Num
    <3>2. (M + 1) + (d - 1) = M + d
      OBVIOUS
    <3> QED
      BY <1>4, <1>5, <1>7, <1>8, <3>1, <3>2
  <2>6. job'.base = Pos(Filled)' - BLOCK_SIZE
    BY <1>5, <1>7, <1>8 DEF Pos
  <2>7. job'.n \in Nat /\ job'.got \in Nat /\ job'.todo \in Nat /\ (pc' = "items" <=> job'.todo = 0) /\ pc' \in {"chain", "items"}
    BY <1>2, <1>4, <1>5, <1>7
  <2>8. job'.first = IF job'.got = 0 THEN 0 ELSE L[Over(tail)']
    <3>1. g + 1 # 0
      OBVIOUS
    <3> QED
      BY <1>7, <1>8, <1>11, <3>1
  <2>9. \A j \in Nat : Over(tail)' <= j /\ j + 1 < Filled' => next'[L[j]] = L[j + 1]
    BY <1>8, <1>11
  <2>10. job'.start \in Blocks' \cup {0}
    BY <1>4, <1>7, <1>12
  <2> QED
    BY <1>2, <1>4, <1>7, <2>1, <2>3, <2>4, <2>5, <2>6, <2>7, <2>8, <2>9, <2>10 DEF Producing
<1> QED
  BY <1>10, <1>13, <1>14 DEF InUse

\* A bulk needs a block for every boundary that it crosses.
LEMMA BulkNeeds ==
  ASSUME NEW t \in Nat, NEW n \in Nat
  PROVE  /\ Over(t + n) - Over(t) \in Nat
         /\ (Base(t + n - 1) - Base(t - 1)) \div BLOCK_SIZE = Over(t + n) - Over(t)
<1>1. PICK b \in Nat \ {0}, u \in Nat : b = BLOCK_SIZE /\ u = t + n
  BY SizesAssumption
<1>2. PICK x \in Int, y \in Int, p \in Int, q \in Int :
        x = Over(t) /\ y = Over(u) /\ p = Pos(x) /\ q = Pos(y) /\ Base(t - 1) = p - b /\ Base(u - 1) = q - b
  <2>1. Over(t) \in Nat /\ Over(u) \in Nat
    BY OverIs
  <2>2. Pos(Over(t)) \in Int /\ Pos(Over(u)) \in Int
    BY <2>1, PosInt
  <2> QED
    BY <1>1, <2>1, <2>2, OverIs
<1>3. x <= y
  <2>1. PICK v \in Int, w \in Int : v = t - 1 /\ w = u - 1 /\ v <= w
    BY <1>1
  <2>2. Num(v) <= Num(w) /\ Num(v) \in Int /\ Num(w) \in Int
    BY <2>1, NumOrder, NumIs
  <2> QED
    BY <1>2, <2>1, <2>2 DEF Over
<1>4. (q - b) - (p - b) = b * (y - x)
  <2>1. p = b * x /\ q = b * y /\ b * (y - x) = b * y - b * x
    BY <1>1, <1>2 DEF Pos
  <2> QED
    BY <1>2, <2>1
<1>5. (b * (y - x)) \div b = y - x
  <2>1. PICK e \in Int : e = y - x
    OBVIOUS
  <2>2. (b * e) \div b = e
    BY ONLY b \in Nat \ {0}, e \in Int
  <2> QED
    BY <2>1, <2>2
<1> QED
  BY <1>1, <1>2, <1>3, <1>4, <1>5

LEMMA PutBulkOn ==
  ASSUME InUseTypes, NEW A, NEW K, NEW C, InUse(A, K, C), head <= tail, PutBulk
  PROVE  BlockTypes' /\ IndexTypes' /\ InUse(A, K, C)'
<1>0. PICK n \in setup.bulks, m \in BOOLEAN :
        LET todo == (Base(tail + n - 1) - Base(tail - 1)) \div BLOCK_SIZE IN
        /\ job' = [n |-> n, canAlloc |-> m, todo |-> todo, base |-> Base(tail - 1),
                   first |-> 0, start |-> tailBlock, got |-> 0]
        /\ pc' = IF todo = 0 THEN "items" ELSE "chain"
  BY DEF PutBulk
<1>1. PICK d :
        /\ d = (Base(tail + n - 1) - Base(tail - 1)) \div BLOCK_SIZE
        /\ job' = [n |-> n, canAlloc |-> m, todo |-> d, base |-> Base(tail - 1), first |-> 0, start |-> tailBlock, got |-> 0]
        /\ pc' = IF d = 0 THEN "items" ELSE "chain"
  BY <1>0
<1>2. UNCHANGED <<setup, tail, head, at, my, cell, emptied, next, pool, free, heap, tailBlock, headers, entries, wrecked>> /\ pc = "idle"
  BY DEF PutBulk, Begin, theirs, blocks, index
<1>3. PICK t \in Nat, o \in Nat, k \in Nat : t = tail /\ o = Over(t) /\ k = n
  <2>1. tail \in Nat /\ n \in Nat
    BY Counts, Setup DEF InUseTypes
  <2>2. Over(tail) \in Nat
    BY <2>1, OverIs
  <2> QED
    BY <2>1, <2>2
<1>4. d = Over(t + k) - o /\ d \in Nat /\ Over(t + k) \in Nat /\ Base(t - 1) = Pos(o) - BLOCK_SIZE
  <2>1. Over(t + k) - Over(t) \in Nat /\ (Base(t + k - 1) - Base(t - 1)) \div BLOCK_SIZE = Over(t + k) - Over(t)
    BY BulkNeeds
  <2>2. d = (Base(t + k - 1) - Base(t - 1)) \div BLOCK_SIZE
    BY <1>1, <1>3
  <2>3. Base(t - 1) = Pos(Over(t)) - BLOCK_SIZE
    BY OverIs
  <2>4. PICK u \in Nat : u = t + k
    OBVIOUS
  <2>5. Over(u) \in Nat
    BY OverIs
  <2> QED
    BY <1>3, <2>1, <2>2, <2>3, <2>4, <2>5
<1>5. Over(tail)' = o /\ Over(tail + job.n)' = Over(t + k)
  BY <1>1, <1>2, <1>3 DEF Over, Num
<1>6. Filled = o /\ Filled' = o /\ Entered = o /\ Entered' = o /\ Stored' = Stored
  BY <1>1, <1>2, <1>3, <1>5 DEF Filled, Entered, Stored
<1>7. BlockTypes' /\ IndexTypes' /\ Blocks' = Blocks
  BY <1>2, IndexStays DEF InUseTypes, BlockTypes, Blocks
<1>8. Stocked(A, K)'
  <2>1. Unread' = Unread
    BY <1>2, <1>6, UnreadThen
  <2> QED
    BY <1>2, <1>7, <2>1 DEF InUse, Stocked, Homes, Holds
<1>9. (\A c \in Consumers' : Knows(c, A, K, C)') /\ Apart'
  <2>1. PICK T : T = {j \in A : j < Over(tail)}
    OBVIOUS
  <2>2. Carries(A, K, A, K, T)
    BY <1>2, <2>1 DEF Carries
  <2>3. Follows(T, C, C)
    BY <1>2, FollowsSame
  <2> QED
    BY <1>2, <2>2, <2>3, ConsumersFollow
<1>10. Producing(A, K)'
  <2>1. /\ wrecked = "none" /\ (\A j \in Nat : Num(tail) <= j /\ j < Filled => j \in A)
        /\ (Filled - 1 \in A => tailBlock = K[Filled - 1]) /\ tailBlock \in Blocks \cup {0}
    BY DEF InUse, Producing, InUseTypes, BlockTypes
  <2>2. \A j \in Nat : Num(tail)' <= j /\ j < Filled' => j \in A
    BY <1>2, <1>6, <2>1 DEF Num
  <2>3. /\ job'.n \in Nat /\ job'.got \in Nat /\ job'.todo \in Nat /\ (pc' = "items" <=> job'.todo = 0) /\ pc' \in {"chain", "items"}
        /\ job'.first = 0 /\ job'.got = 0 /\ job'.start = tailBlock /\ job'.base = Pos(o) - BLOCK_SIZE
        /\ job' = [n |-> job'.n, canAlloc |-> job'.canAlloc, todo |-> job'.todo, base |-> job'.base,
                   first |-> job'.first, start |-> job'.start, got |-> job'.got]
    BY <1>1, <1>3, <1>4
  <2>4. Filled' + job'.todo = Over(tail + job.n)'
    <3>1. o + d = Over(t + k)
      BY <1>3, <1>4
    <3> QED
      BY <1>1, <1>5, <1>6, <3>1
  <2>5. \A j \in Nat : ~ (Over(tail)' <= j /\ j + 1 < Filled')
    BY <1>3, <1>5, <1>6
  <2>6. job'.base = Pos(Filled)' - BLOCK_SIZE
    BY <1>6, <2>3 DEF Pos
  <2>7. (Filled' - 1 \in A => tailBlock' = K[Filled' - 1]) /\ (Over(tail)' - 1 \in A => job'.start = K[Over(tail)' - 1])
    BY <1>2, <1>5, <1>6, <2>1, <2>3
  <2> QED
    BY <1>2, <1>7, <2>1, <2>2, <2>3, <2>4, <2>5, <2>6, <2>7 DEF Producing
<1>11. Witnesses(A, K, C)' /\ Indexed(A, K, C)'
  <2>1. Filled' = Filled /\ Entered' = Entered
    BY <1>6
  <2> QED
    BY <1>2, <1>7, <2>1, IndexedStays DEF InUse, Witnesses
<1> QED
  BY <1>7, <1>8, <1>9, <1>10, <1>11 DEF InUse

LEMMA PublishOn ==
  ASSUME InUseTypes, NEW A, NEW K, NEW C, InUse(A, K, C), head <= tail, Publish
  PROVE  BlockTypes' /\ IndexTypes' /\ InUse(A, K, C)'
<1>1. /\ UNCHANGED <<setup, head, at, my, cell, emptied, next, pool, free, heap, tailBlock, headers, entries, wrecked>>
      /\ pc = "tail" /\ pc' = "idle" /\ tail' = tail + job.n
  BY DEF Publish, theirs, blocks, index
<1>2. PICK t \in Nat, n \in Nat, s \in Nat : t = tail /\ n = job.n /\ s = t + n /\ s = tail'
  <2>1. tail \in Nat /\ job.n \in Nat
    BY <1>1, Counts DEF InUse, Producing
  <2> QED
    BY <1>1, <2>1
<1>3. Filled = Over(s) /\ Filled' = Over(s) /\ Entered' = Entered /\ Stored' = Stored
  <2>1. Over(tail)' = Over(s) /\ Over(tail + job.n) = Over(s)
    BY <1>2 DEF Over, Num
  <2> QED
    BY <1>1, <1>2, <2>1 DEF Filled, Entered, Stored
<1>4. BlockTypes' /\ IndexTypes' /\ Blocks' = Blocks
  BY <1>1, IndexStays DEF InUseTypes, BlockTypes, Blocks
<1>5. Stocked(A, K)'
  <2>1. Unread' = Unread
    BY <1>1, <1>3, UnreadThen
  <2>2. A \subseteq Nat /\ Homes(pool, free, heap, A, K) /\ Holds(cell, emptied, A, K, Unread, t)
    BY <1>2, Counts DEF InUse, Stocked
  <2>3. Holds(cell, emptied, A, K, Unread, s)
    <3>1. t <= s
      BY <1>2
    <3>2. PICK ce, em, U : ce = cell /\ em = emptied /\ U = Unread
      OBVIOUS
    <3>3. A \subseteq Nat /\ Holds(ce, em, A, K, U, t)
      BY <2>2, <3>2
    <3>4. Holds(ce, em, A, K, U, s)
      BY ONLY <3>1, <3>3, t \in Nat, s \in Nat, HoldsLater
    <3> QED
      BY <3>2, <3>4
  <2> QED
    BY <1>1, <1>2, <1>4, <2>1, <2>2, <2>3 DEF Stocked, Homes, Holds
<1>6. (\A c \in Consumers' : Knows(c, A, K, C)') /\ Apart'
  <2>1. PICK T : T = {j \in A : j < Over(tail)}
    OBVIOUS
  <2>2. Carries(A, K, A, K, T)
    BY <1>1, <2>1 DEF Carries
  <2>3. Follows(T, C, C)
    BY <1>1, FollowsSame
  <2> QED
    BY <1>1, <2>2, <2>3, ConsumersFollow
<1>7. Producing(A, K)'
  <2>1. wrecked = "none" /\ (\A j \in Nat : Num(tail) <= j /\ j < Filled => j \in A) /\ (Filled - 1 \in A => tailBlock = K[Filled - 1])
    BY DEF InUse, Producing
  <2>2. PICK k \in Nat, l \in Nat : k = Num(t) /\ l = Num(s) /\ k <= l
    <3>1. Num(t) \in Nat /\ Num(s) \in Nat /\ t <= s
      BY <1>2, NumIs
    <3> QED
      BY <3>1, NumOrder
  <2>3. Num(tail) = k /\ Num(tail)' = l
    BY <1>2, <2>2 DEF Num
  <2>4. \A j \in Nat : Num(tail)' <= j /\ j < Filled' => j \in A
    BY <1>3, <2>1, <2>2, <2>3
  <2> QED
    BY <1>1, <1>3, <2>1, <2>4 DEF Producing
<1>8. Witnesses(A, K, C)' /\ Indexed(A, K, C)'
  <2>1. Filled' = Filled /\ Entered' = Entered
    BY <1>3
  <2> QED
    BY <1>1, <1>4, <2>1, IndexedStays DEF InUse, Witnesses
<1> QED
  BY <1>4, <1>5, <1>6, <1>7, <1>8 DEF InUse

\* The k-th block after the first of a chain is the k-th of the chain.
Goes(nx, b, K, o, m) == b = K[o] /\ \A j \in Nat : o <= j /\ j + 1 < o + m => nx[K[j]] = K[j + 1]

LEMMA AfterIs ==
  ASSUME NEW K, NEW o \in Nat, NEW m \in Nat, NEW b, Goes(next, b, K, o, m), NEW k \in Nat, k < m
  PROVE  After(b, k) = K[o + k]
<1>1. b = K[o] /\ \A j \in Nat : o <= j /\ j + 1 < o + m => next[K[j]] = K[j + 1]
  BY DEF Goes
<1> DEFINE Nth(f) == f = [j \in 0 .. k |-> IF j = 0 THEN b ELSE next[f[j - 1]]]
<1>2. PICK w : w = [j \in 0 .. k |-> K[o + j]]
  OBVIOUS
<1>3. Nth(w)
  <2>1. ASSUME NEW j \in 0 .. k PROVE w[j] = IF j = 0 THEN b ELSE next[w[j - 1]]
    <3>1. CASE j = 0
      <4>1. o + 0 = o
        OBVIOUS
      <4> QED
        BY <1>1, <1>2, <3>1, <4>1
    <3>2. CASE j # 0
      <4>1. j - 1 \in 0 .. k /\ o + (j - 1) \in Nat /\ (o + (j - 1)) + 1 = o + j /\ o + j < o + m /\ o <= o + (j - 1)
        BY <3>2
      <4>2. next[K[o + (j - 1)]] = K[(o + (j - 1)) + 1]
        BY <1>1, <4>1
      <4>3. w[j] = K[o + j] /\ w[j - 1] = K[o + (j - 1)]
        BY <1>2, <4>1
      <4> QED
        BY <3>2, <4>1, <4>2, <4>3
    <3> QED
      BY <3>1, <3>2
  <2> QED
    BY <1>2, <2>1
<1> HIDE DEF Nth
<1>4. PICK v : v = CHOOSE f : Nth(f)
  OBVIOUS
<1>5. Nth(v)
  BY <1>3, <1>4
<1>6. After(b, k) = v[k]
  BY <1>4 DEF After, Nth
<1>7. v = [j \in 0 .. k |-> IF j = 0 THEN b ELSE next[v[j - 1]]]
  BY <1>5 DEF Nth
<1>8. ASSUME NEW x \in 0 .. k, v[x] # w[x] PROVE FALSE
  <2>1. PICK Z : Z = {j \in 0 .. k : v[j] # w[j]}
    OBVIOUS
  <2>2. Z \subseteq Nat /\ Z # {}
    BY <1>8, <2>1
  <2>3. PICK l \in Z : \A j \in Z : l <= j
    BY <2>2, Least
  <2>4. l \in 0 .. k /\ v[l] # w[l]
    BY <2>1
  <2>5. w = [j \in 0 .. k |-> IF j = 0 THEN b ELSE next[w[j - 1]]]
    BY <1>3 DEF Nth
  <2>6. l # 0
    BY <1>7, <2>4, <2>5
  <2>7. l - 1 \in 0 .. k /\ ~ l <= l - 1
    BY <2>4, <2>6
  <2>8. v[l - 1] = w[l - 1]
    BY <2>1, <2>3, <2>7
  <2> QED
    BY <1>7, <2>4, <2>5, <2>6, <2>8
<1>9. v[k] = w[k]
  <2>1. k \in 0 .. k
    OBVIOUS
  <2> QED
    BY <1>8, <2>1
<1> QED
  BY <1>2, <1>6, <1>9

\* How many blocks there are from one item's to another's.
LEMMA BlocksFrom ==
  ASSUME NEW t \in Int, NEW i \in Int
  PROVE  /\ (Base(i) - Base(t)) \div BLOCK_SIZE = Num(i) - Num(t)
         /\ t % BLOCK_SIZE = 0 => (i - t) \div BLOCK_SIZE = Num(i) - Num(t)
<1>1. PICK b \in Nat \ {0}, x \in Int, y \in Int, r \in Int, s \in Int :
        /\ b = BLOCK_SIZE /\ x = Num(t) /\ y = Num(i) /\ r = t % BLOCK_SIZE /\ s = i % BLOCK_SIZE
        /\ Base(t) = Pos(x) /\ Base(i) = Pos(y) /\ t = Pos(x) + r /\ i = Pos(y) + s /\ s \in 0 .. b - 1
  <2>1. Num(t) \in Int /\ Num(i) \in Int /\ t % BLOCK_SIZE \in Offsets /\ i % BLOCK_SIZE \in Offsets
        /\ t = Pos(Num(t)) + (t % BLOCK_SIZE) /\ i = Pos(Num(i)) + (i % BLOCK_SIZE) /\ Base(t) = Pos(Num(t)) /\ Base(i) = Pos(Num(i))
    BY NumIs
  <2>2. t % BLOCK_SIZE \in 0 .. BLOCK_SIZE - 1 /\ i % BLOCK_SIZE \in 0 .. BLOCK_SIZE - 1 /\ BLOCK_SIZE \in Nat \ {0}
    BY <2>1, SizesAssumption DEF Offsets
  <2> QED
    BY <2>1, <2>2
<1>2. PICK e \in Int, p \in Int, q \in Int : e = y - x /\ p = Pos(x) /\ q = Pos(y) /\ q - p = b * e
  <2>1. PICK e \in Int : e = y - x
    OBVIOUS
  <2>2. b * e = b * y - b * x
    BY <2>1
  <2>3. Pos(x) = b * x /\ Pos(y) = b * y /\ b * x \in Int /\ b * y \in Int
    BY <1>1 DEF Pos
  <2>4. PICK p \in Int, q \in Int : p = b * x /\ q = b * y
    BY <2>3
  <2>5. q - p = b * e
    BY <2>2, <2>4
  <2> QED
    BY <2>1, <2>3, <2>4, <2>5
<1>3. (b * e) \div b = e /\ (b * e + s) \div b = e
  BY ONLY <1>1, b \in Nat \ {0}, e \in Int, s \in Int, SMTT(40)
<1>4. r = 0 => i - t = b * e + s
  <2>1. PICK z \in Int : z = b * e
    OBVIOUS
  <2>2. r = 0 => i - t = z + s
    <3>1. t = p + r /\ i = q + s /\ q - p = z
      BY <1>1, <1>2, <2>1
    <3> QED
      BY ONLY <3>1, p \in Int, q \in Int, z \in Int, r \in Int, s \in Int, t \in Int, i \in Int
  <2> QED
    BY <2>1, <2>2
<1> QED
  BY <1>1, <1>2, <1>3, <1>4

\* An item of a bulk goes to the block of its number.
LEMMA ChainAtIs ==
  ASSUME InUseTypes, NEW A, NEW K, NEW C, InUse(A, K, C), pc = "items", NEW i \in Nat, tail <= i, i < tail + job.n
  PROVE  Num(i) \in A /\ ChainAt(i) = K[Num(i)]
<1>1. PICK t \in Nat, n \in Nat, o \in Nat, g \in Nat, x \in Nat, y \in Nat :
        t = tail /\ n = job.n /\ o = Over(t) /\ g = job.got /\ x = Num(t) /\ y = Num(i)
  <2>1. tail \in Nat /\ job.n \in Nat /\ job.got \in Nat
    BY Counts DEF InUse, Producing
  <2>2. Over(tail) \in Nat /\ Num(tail) \in Nat /\ Num(i) \in Nat
    BY <2>1, OverIs, NumIs
  <2> QED
    BY <2>1, <2>2
<1>2. /\ (\A j \in Nat : x <= j /\ j < o + g => j \in A) /\ (o - 1 \in A => job.start = K[o - 1])
      /\ job.first = (IF g = 0 THEN 0 ELSE K[o])
      /\ \A j \in Nat : o <= j /\ j + 1 < o + g => next[K[j]] = K[j + 1]
  <2>1. Filled = o + g
    BY <1>1 DEF Filled
  <2>2. Producing(A, K)
    BY DEF InUse
  <2> QED
    BY <1>1, <2>1, <2>2 DEF Producing
<1>3. y < o + g
  <2>1. Filled = o + g /\ Filled + job.todo = Over(t + n) /\ job.todo = 0
    BY <1>1 DEF Filled, InUse, Producing
  <2>2. o + g = Over(t + n)
    BY <1>1, <2>1
  <2>3. PICK s \in Nat : s = t + n /\ i < s
    BY <1>1
  <2>4. Num(i) < Over(s)
    BY <2>3, BeforeTail
  <2> QED
    BY <1>1, <2>2, <2>3, <2>4
<1>4. x <= y
  <2>1. t <= i
    BY <1>1
  <2>2. Num(t) <= Num(i)
    BY <2>1, NumOrder
  <2> QED
    BY <1>1, <2>2
<1>5. (Base(i) - Base(t)) \div BLOCK_SIZE = y - x /\ (t % BLOCK_SIZE = 0 => (i - t) \div BLOCK_SIZE = y - x)
  BY <1>1, BlocksFrom
<1>6. (t % BLOCK_SIZE = 0 => o = x) /\ (t % BLOCK_SIZE # 0 => o = x + 1)
  BY <1>1, OverIs
<1>7. ASSUME NEW k \in Nat, y = o + k PROVE After(job.first, k) = K[y]
  <2>1. k < g /\ g # 0
    BY <1>3, <1>7
  <2>2. Goes(next, job.first, K, o, g)
    BY <1>2, <2>1 DEF Goes
  <2>3. After(job.first, k) = K[o + k]
    BY <2>1, <2>2, AfterIs
  <2> QED
    BY <1>7, <2>3
<1>8. y \in A
  BY <1>2, <1>3, <1>4
<1>9. CASE t % BLOCK_SIZE = 0
  <2>1. PICK k \in Nat : k = y - x /\ y = o + k
    BY <1>4, <1>6, <1>9
  <2>2. ChainAt(i) = After(job.first, k)
    BY <1>1, <1>5, <1>9, <2>1 DEF ChainAt
  <2>3. After(job.first, k) = K[y]
    BY <1>7, <2>1
  <2> QED
    BY <1>1, <1>8, <2>2, <2>3
<1>10. CASE t % BLOCK_SIZE # 0 /\ Base(i) = Base(t)
  <2>1. y = x
    <3>1. Base(i) = Pos(y) /\ Base(t) = Pos(x)
      BY <1>1, NumIs
    <3>2. PICK b \in Nat \ {0}, p \in Int, q \in Int : b = BLOCK_SIZE /\ p = Pos(x) /\ q = Pos(y) /\ p = q
      <4>1. Pos(x) \in Int /\ Pos(y) \in Int
        BY PosInt
      <4> QED
        BY <1>10, <3>1, <4>1, SizesAssumption
    <3>3. x < y => Pos(x) + BLOCK_SIZE <= Pos(y)
      BY PosOrder
    <3>4. x < y => p + b <= q
      BY <3>2, <3>3
    <3> QED
      BY <1>4, <3>2, <3>4
  <2>2. o - 1 = y
    BY <1>6, <1>10, <2>1
  <2>3. ChainAt(i) = job.start
    BY <1>1, <1>10 DEF ChainAt
  <2> QED
    BY <1>1, <1>2, <1>8, <2>2, <2>3
<1>11. CASE t % BLOCK_SIZE # 0 /\ Base(i) # Base(t)
  <2>1. x # y
    <3>1. Base(i) = Pos(y) /\ Base(t) = Pos(x)
      BY <1>1, NumIs
    <3> QED
      BY <1>11, <3>1
  <2>2. PICK k \in Nat : k = (y - x) - 1 /\ y = o + k
    BY <1>4, <1>6, <1>11, <2>1
  <2>3. ChainAt(i) = After(job.first, k)
    BY <1>1, <1>5, <1>11, <2>2 DEF ChainAt
  <2>4. After(job.first, k) = K[y]
    BY <1>7, <2>2
  <2> QED
    BY <1>1, <1>8, <2>3, <2>4
<1> QED
  BY <1>9, <1>10, <1>11

LEMMA BulkItemsOn ==
  ASSUME InUseTypes, NEW A, NEW K, NEW C, InUse(A, K, C), head <= tail, pc = "items", pc' = "tail",
         Construct(job.n, [i \in Ahead(job.n) |-> ChainAt(i)]),
         UNCHANGED <<setup, tail, head, at, my, emptied, next, pool, free, heap, tailBlock, headers, entries, job, wrecked>>
  PROVE  BlockTypes' /\ IndexTypes' /\ InUse(A, K, C)'
<1>1. /\ UNCHANGED <<setup, tail, head, at, my, emptied, next, pool, free, heap, tailBlock, headers, entries, job, wrecked>>
      /\ pc = "items" /\ pc' = "tail"
  OBVIOUS
<1>2. PICK t \in Nat, n \in Nat : t = tail /\ n = job.n
  <2>1. tail \in Nat /\ job.n \in Nat
    BY Counts DEF InUse, Producing
  <2> QED
    BY <2>1
<1>3. Filled' = Filled /\ Entered' = Entered /\ Entered = Filled /\ Stored = t /\ Stored' = t + n
  <2>1. Filled = Over(tail) + job.got /\ job.todo = 0 /\ Filled + job.todo = Over(tail + job.n)
    BY DEF Filled, InUse, Producing
  <2>2. Over(tail + job.n)' = Over(tail + job.n)
    BY DEF Over, Num
  <2>3. Filled \in Nat
    BY Counts
  <2>4. Filled = Over(tail + job.n)
    BY <2>1, <2>3
  <2> QED
    BY <1>1, <1>2, <2>2, <2>4 DEF Filled, Entered, Stored
<1>4. Unread' = Unread \cup tail .. tail + n - 1
  <2>1. head \in Nat
    BY Counts
  <2> QED
    BY <1>1, <1>2, <1>3, <2>1, UnreadMore
<1>5. cell' \in [Blocks -> [Offsets -> Nat]] /\ Stocked(A, K)'
  <2>1. A \subseteq Nat /\ (\A j \in A : K[j] \in Blocks) /\ Unread \subseteq Nat
    BY Counts
  <2>2. Homes(pool', free', heap', A, K) /\ Holds(cell, emptied', A, K, Unread, tail)
    BY DEF InUse, Stocked
  <2>3. PICK B : B = [i \in Ahead(n) |-> ChainAt(i)]
    OBVIOUS
  <2>4. Assigned(A, K, tail, n, B)
    <3>1. ASSUME NEW i \in t .. t + n - 1 PROVE Num(i) \in A /\ B[i] = K[Num(i)]
      <4>1. i \in Nat /\ tail <= i /\ i < tail + job.n
        BY <1>2
      <4>2. Num(i) \in A /\ ChainAt(i) = K[Num(i)]
        BY <4>1, ChainAtIs
      <4> QED
        BY <1>2, <2>3, <4>2 DEF Ahead
    <3> QED
      BY <1>2, <3>1 DEF Assigned
  <2>5. Construct(n, B) /\ setup' = setup /\ tail' = tail /\ tail \in Nat
    BY <1>2, <2>3
  <2> QED
    BY <1>4, <2>1, <2>2, <2>4, <2>5, StocksItems DEF InUseTypes
<1>6. BlockTypes' /\ IndexTypes' /\ Blocks' = Blocks
  BY <1>1, <1>5, IndexStays DEF InUseTypes, BlockTypes, Blocks
<1>7. (\A c \in Consumers' : Knows(c, A, K, C)') /\ Apart'
  <2>1. PICK T : T = {j \in A : j < Over(tail)}
    OBVIOUS
  <2>2. Carries(A, K, A, K, T)
    BY <1>1, <2>1 DEF Carries
  <2>3. Follows(T, C, C)
    BY <1>1, FollowsSame
  <2> QED
    BY <1>1, <2>2, <2>3, ConsumersFollow
<1>8. Producing(A, K)'
  <2>1. /\ wrecked = "none" /\ (\A j \in Nat : Num(tail) <= j /\ j < Filled => j \in A)
        /\ (Filled - 1 \in A => tailBlock = K[Filled - 1]) /\ job.n \in Nat
    BY DEF InUse, Producing
  <2>2. Num(tail)' = Num(tail)
    BY DEF Num
  <2> QED
    BY <1>1, <1>3, <2>1, <2>2 DEF Producing
<1>9. Witnesses(A, K, C)' /\ Indexed(A, K, C)'
  <2>1. Filled' = Filled /\ Entered' = Entered
    BY <1>3
  <2> QED
    BY <1>1, <1>6, <2>1, IndexedStays DEF InUse, Witnesses
<1> QED
  BY <1>5, <1>6, <1>7, <1>8, <1>9 DEF InUse

\* The newest entries are given up, and the index is what it was before them.
LEMMA GivesUp ==
  ASSUME InUseTypes, NEW A, NEW K, NEW C, InUse(A, K, C), setup' = setup, NEW n \in Nat, GiveUp(n),
         NEW o \in Nat, o <= Filled, Entered = o + n, Filled' = o, Entered' = o, NEW T, T = {j \in A : j < o}
  PROVE  IndexTypes' /\ Indexed(T, K, C)' /\ Follows(T, C, C)
<1>1. /\ IndexTypes /\ A \subseteq Nat /\ C \in [Nat -> Nat] /\ Indexed(A, K, C) /\ Filled \in Nat /\ Entered \in Nat
  BY Counts DEF InUse, InUseTypes
<1>2. /\ Len(headers) \in Nat \ {0} /\ headers = [h \in 1 .. Len(headers) |-> headers[h]] /\ Len(entries) \in Nat
      /\ entries \in [1 .. Len(entries) -> [base : Nat, block : Blocks \cup {0}]]
      /\ \A h \in 1 .. Len(headers) : Heading(headers[h])
  BY <1>1 DEF IndexTypes
<1>3. PICK L \in 1 .. Len(headers), s \in Nat \ {0}, p \in Int :
        L = Len(headers) /\ Header = headers[L] /\ s = Size(Header) /\ p = Header.front
  <2>1. Len(headers) \in 1 .. Len(headers) /\ Header = headers[Len(headers)] /\ Heading(Header)
    <3>1. 0 \in Nat
      OBVIOUS
    <3> QED
      BY <1>1, <3>1, PlaceIn
  <2>2. Size(Header) \in Nat \ {0} /\ Header.front \in Int
    BY ONLY <2>1 DEF Heading
  <2> QED
    BY <2>1, <2>2
<1>4. PICK f \in 0 .. s - 1 : f = (p - n) % s
  <2>1. PICK x \in Int : x = p - n
    OBVIOUS
  <2>2. x % s \in 0 .. s - 1
    BY ONLY x \in Int, s \in Nat \ {0}
  <2> QED
    BY <2>1, <2>2
<1>5. headers' = [headers EXCEPT ![L].front = f]
  BY <1>3, <1>4 DEF GiveUp
<1>6. /\ Len(headers') = Len(headers) /\ headers' = [h \in 1 .. Len(headers) |-> headers'[h]]
      /\ (\A h \in 1 .. Len(headers) : headers'[h].index = headers[h].index /\ (h # L => headers'[h] = headers[h]))
      /\ headers'[L].front = f /\ headers'[L] = [front |-> f, index |-> headers[L].index]
  <2>1. headers' = [h \in 1 .. Len(headers) |-> IF h = L THEN [headers[L] EXCEPT !.front = f] ELSE headers[h]]
    BY <1>2, <1>5
  <2>2. headers[L] = [front |-> headers[L].front, index |-> headers[L].index]
    BY <1>2 DEF Heading
  <2>3. [headers[L] EXCEPT !.front = f] = [front |-> f, index |-> headers[L].index]
    BY ONLY <2>2
  <2>4. DOMAIN headers' = 1 .. Len(headers)
    BY <2>1
  <2>5. Len(headers') = Len(headers)
    BY <1>2, <2>4, LenOf
  <2>6. headers' = [h \in 1 .. Len(headers) |-> headers'[h]]
    BY <2>1
  <2>7. headers'[L] = [front |-> f, index |-> headers[L].index]
    BY <2>1, <2>3
  <2>8. \A h \in 1 .. Len(headers) : h # L => headers'[h] = headers[h]
    BY <2>1
  <2> QED
    BY <2>5, <2>6, <2>7, <2>8
<1>7. /\ \A h \in 1 .. Len(headers) : Size(headers'[h]) = Size(headers[h])
      /\ \A h \in 1 .. Len(headers) : \A j : Slot(C, h, j)' = Slot(C, h, j)
      /\ Size(Header)' = Size(Header) /\ \A j : Place(C, j)' = Place(C, j)
  BY <1>1, <1>6, SameSlots
<1>8. PICK G : G = {e \in DOMAIN entries : \E k \in 0 .. n - 1 : e = EntryAt(Header, Header.front - k)}
  OBVIOUS
<1>9. entries' = [e \in 1 .. Len(entries) |-> IF e \in G THEN [entries[e] EXCEPT !.block = 0] ELSE entries[e]]
  <2>1. DOMAIN entries = 1 .. Len(entries)
    BY <1>2
  <2> QED
    BY <1>8, <2>1 DEF GiveUp
<1>10. /\ Len(entries') = Len(entries) /\ entries' \in [1 .. Len(entries) -> [base : Nat, block : Blocks \cup {0}]]
       /\ \A e \in 1 .. Len(entries) : entries'[e].base = entries[e].base /\ (e \notin G => entries'[e] = entries[e])
  <2>1. DOMAIN entries' = 1 .. Len(entries)
    BY <1>9
  <2>2. Len(entries') = Len(entries)
    BY <1>2, <2>1, LenOf
  <2>3. ASSUME NEW e \in 1 .. Len(entries)
        PROVE  entries'[e] \in [base : Nat, block : Blocks \cup {0}] /\ entries'[e].base = entries[e].base /\ (e \notin G => entries'[e] = entries[e])
    <3>1. PICK r \in [base : Nat, block : Blocks \cup {0}] : r = entries[e]
      BY <1>2
    <3>2. entries'[e] = IF e \in G THEN [r EXCEPT !.block = 0] ELSE r
      BY <1>9, <3>1
    <3> QED
      BY <3>1, <3>2
  <2> QED
    BY <1>9, <2>1, <2>2, <2>3
<1>11. \A h \in 1 .. Len(headers) : \A x : x \in 0 .. Size(headers[h]) - 1 => (Tells(C, h, x)' <=> Tells(C, h, x))
  BY <1>1, <1>6, <1>10, SameTells
<1>12. IndexTypes'
  <2>1. ASSUME NEW h \in 1 .. Len(headers) PROVE Heading(headers[h])'
    <3>1. Heading(headers[h]) /\ Size(headers'[h]) = Size(headers[h])
      BY <1>2, <1>7
    <3>2. CASE h # L
      BY <1>6, <1>10, <3>1, <3>2 DEF Heading
    <3>3. CASE h = L
      <4>1. headers'[h] = [front |-> f, index |-> headers[h].index] /\ Size(headers'[h]) = s
        BY <1>3, <1>6, <3>1, <3>3
      <4>2. headers[h].index \in [0 .. s - 1 -> 1 .. Len(entries)]
        BY <1>3, <3>1, <3>3 DEF Heading
      <4>3. headers'[h].front = f /\ headers'[h].index = headers[h].index
        BY <4>1
      <4>4. Size(headers[h])' = s
        BY <4>1 DEF Size
      <4> QED
        BY <1>10, <4>1, <4>2, <4>3, <4>4 DEF Heading
    <3> QED
      BY <3>2, <3>3
  <2>2. Blocks' = Blocks
    BY DEF Blocks
  <2> QED
    BY <1>2, <1>6, <1>10, <2>1, <2>2 DEF IndexTypes
<1>13. ASSUME NEW j \in T PROVE j \in A /\ j \in Nat /\ j < o /\ Place(C, j) \in 1 .. Len(entries) /\ Place(C, j) \notin G
  <2>1. j \in A /\ j \in Nat /\ j < o /\ Place(C, j) \in 1 .. Len(entries)
    BY <1>1, PlaceIn
  <2>2. ASSUME NEW k \in 0 .. n - 1, Place(C, j) = EntryAt(Header, Header.front - k) PROVE FALSE
    <3>1. PICK d \in Nat : Ago(k, d) /\ o <= d /\ d < Entered
      <4>1. PICK d \in Nat : d = ((o + n) - 1) - k /\ o <= d /\ d < o + n
        OBVIOUS
      <4> QED
        BY <4>1 DEF Ago
    <3>2. EntryAt(Header, Header.front - k) = Place(C, d)
      <4>1. k \in Int
        OBVIOUS
      <4> QED
        BY <1>1, <3>1, <4>1, NewestEntry
    <3>3. j < d
      BY <2>1, <3>1
    <3>4. Place(C, j) # Place(C, d)
      BY <1>1, <2>1, <3>1, <3>3, OwnPlace
    <3> QED
      BY <2>2, <3>2, <3>4
  <2> QED
    BY <1>8, <2>1, <2>2
<1>14. ASSUME NEW j \in A
       PROVE  /\ Entered <= j + s /\ entries[Place(C, j)] = [base |-> W(Pos(j)), block |-> K[j]]
              /\ \A d \in j .. Entered - 1 : entries[Place(C, d)].base = W(Pos(d))
  BY <1>1, <1>3 DEF Indexed
<1>15. \A x : W(x)' = W(x)
  BY DEF W, Wrap
<1>16. Indexed(T, K, C)'
  <2>1. \A h \in 1 .. Len(headers'), j \in Nat : \A x \in 0 .. Size(headers'[h]) - 1 :
          headers'[h].index[x] = Place(C, j)' => x = Slot(C, h, j)'
    <3>1. \A h \in 1 .. Len(headers), j \in Nat : \A x \in 0 .. Size(headers[h]) - 1 :
            headers[h].index[x] = Place(C, j) => x = Slot(C, h, j)
      BY <1>1 DEF Indexed
    <3> SUFFICES ASSUME NEW h \in 1 .. Len(headers), NEW j \in Nat, NEW x \in 0 .. Size(headers[h]) - 1,
                        headers[h].index[x] = Place(C, j)
                 PROVE  x = Slot(C, h, j)'
      BY <1>6, <1>7, SMTT(40)
    <3> QED
      BY <1>7, <3>1
  <2>2. (Header'.front + 1) % Size(Header)' = Slot(C, Len(headers), Entered)'
    <3>1. Header'.front = f /\ Size(Header)' = s /\ Slot(C, Len(headers), Entered)' = Slot(C, L, o)
      <4>1. Header' = headers'[L]
        BY <1>3, <1>6 DEF Header
      <4>2. Slot(C, L, o)' = Slot(C, L, o)
        BY <1>7
      <4> QED
        BY <1>3, <1>6, <1>7, <4>1, <4>2
    <3>2. PICK k \in Int : k = n - 1
      OBVIOUS
    <3>3. Ago(k, o)
      BY <3>2 DEF Ago
    <3>4. (p - k) % s = Slot(C, L, o)
      BY <1>1, <1>3, <3>3, NewestSlot
    <3>5. (f + 1) % s = (p - k) % s
      <4>1. PICK x \in Int : x = p - n /\ x + 1 = p - k
        BY <3>2
      <4>2. PICK y \in Int : y = 1
        OBVIOUS
      <4>3. ((x % s) + y) % s = (x + y) % s
        BY RoundOn
      <4> QED
        BY <1>4, <4>1, <4>2, <4>3
    <3> QED
      BY <3>1, <3>4, <3>5
  <2>3. Filled' = o /\ Entered' = o /\ ~ Entered' > Filled'
    OBVIOUS
  <2>4. ASSUME NEW j \in T
        PROVE  /\ j < Filled' /\ Entered' <= j + Size(Header)'
               /\ entries'[Place(C, j)'] = [base |-> W(Pos(j))', block |-> K[j]]
               /\ \A d \in j .. Entered' - 1 : entries'[Place(C, d)'].base = W(Pos(d))'
    <3>1. j \in A /\ j \in Nat /\ j < o /\ Place(C, j) \in 1 .. Len(entries) /\ Place(C, j) \notin G
      BY <1>13
    <3>2. o <= j + s
      <4>1. o + n <= j + s
        BY <1>14, <3>1
      <4> QED
        BY <3>1, <4>1
    <3>3. entries'[Place(C, j)'] = [base |-> W(Pos(j))', block |-> K[j]]
      BY <1>7, <1>10, <1>14, <1>15, <3>1 DEF Pos
    <3>4. ASSUME NEW d \in j .. o - 1 PROVE entries'[Place(C, d)'].base = W(Pos(d))'
      <4>1. d \in Nat /\ d \in j .. (o + n) - 1
        BY <3>1
      <4>2. entries[Place(C, d)].base = W(Pos(d))
        BY <1>14, <3>1, <4>1
      <4>3. Place(C, d) \in 1 .. Len(entries) /\ Place(C, d)' = Place(C, d)
        BY <1>1, <1>7, <4>1, PlaceIn
      <4>4. W(Pos(d))' = W(Pos(d))
        BY <1>15 DEF Pos
      <4> QED
        BY <1>10, <4>2, <4>3, <4>4
    <3>5. Size(Header)' = s
      BY <1>3, <1>7
    <3>6. Entered' - 1 = o - 1
      BY ONLY <2>3
    <3> QED
      BY ONLY <2>3, <3>1, <3>2, <3>3, <3>4, <3>5, <3>6
  <2> QED
    BY <2>1, <2>2, <2>3, <2>4 DEF Indexed
<1>17. Follows(T, C, C)
  <2>1. ASSUME NEW h \in 1 .. Len(headers), NEW j \in T, Leads(C, h, j) PROVE Leads(C, h, j)'
    <3>1. headers'[h].index[Slot(C, h, j)'] = Place(C, j)'
      BY <1>6, <1>7, <2>1 DEF Leads
    <3>2. CASE h # L
      <4>1. headers'[h] = headers[h] /\ headers[h].front \in 0 .. Size(headers[h]) - 1
        BY <1>2, <1>6, <3>2 DEF Heading
      <4>2. Tells(C, h, headers[h].front)
        BY <2>1 DEF Leads
      <4>3. Tells(C, h, headers[h].front)'
        BY <1>11, <4>1, <4>2
      <4> QED
        BY <3>1, <4>3 DEF Leads
    <3>3. CASE h = L
      <4>1. PICK d \in Nat : d = o - 1 /\ j <= d /\ j \in A /\ d \in j .. (o + n) - 1
        BY <1>13
      <4>2. f = Slot(C, L, d)
        <5>1. Ago(n, d) /\ n \in Int
          BY <4>1 DEF Ago
        <5> QED
          BY <1>1, <1>3, <1>4, <5>1, NewestSlot
      <4>3. entries[headers[L].index[f]].base = W(Pos(d))
        <5>1. headers[L].index[f] = Place(C, d)
          BY <1>3, <4>2 DEF Place
        <5> QED
          BY <1>14, <4>1, <5>1
      <4>4. Tells(C, L, f)
        BY <4>2, <4>3 DEF Tells
      <4>5. Tells(C, L, f)'
        <5>1. f \in 0 .. Size(headers[L]) - 1
          BY <1>3
        <5> QED
          BY <1>11, <4>4, <5>1
      <4>6. Tells(C, h, headers[h].front)'
        <5>1. headers'[h].front = f
          BY <1>6, <3>3
        <5> QED
          BY <3>3, <4>5, <5>1 DEF Tells
      <4> QED
        BY <3>1, <4>6 DEF Leads
    <3> QED
      BY <3>2, <3>3
  <2> QED
    BY <1>6, <1>7, <1>11, <2>1 DEF Follows
<1> QED
  BY <1>12, <1>16, <1>17

\* Where the blocks are when a call gives up what it has got for the numbers from o on.
Returns(A, K, T, o) ==
  /\ Homes(pool', free', heap', T, K) /\ pool' \subseteq Blocks /\ free' \subseteq Blocks /\ heap' \subseteq Blocks
  /\ emptied' \in [Blocks -> SUBSET Offsets] /\ \A j \in T : emptied'[K[j]] = emptied[K[j]]
  /\ \A x \in Blocks : x \notin pool \cup free \cup heap /\ (\A j \in A : x # K[j]) => x \notin pool' \cup free' \cup heap'
  /\ tailBlock' \in Blocks \cup {0} /\ (o - 1 \in A => tailBlock' = K[o - 1])

LEMMA GivesBack ==
  ASSUME InUseTypes, NEW A, NEW K, NEW C, InUse(A, K, C), head <= tail, pc \in {"put", "chain", "link", "items"}, pc' = "idle",
         UNCHANGED <<setup, tail, head, at, my, cell, next, wrecked>>, NEW n \in Nat, GiveUp(n),
         Entered = Over(tail) + n, NEW T, T = {j \in A : j < Over(tail)}, Returns(A, K, T, Over(tail))
  PROVE  BlockTypes' /\ IndexTypes' /\ InUse(T, K, C)'
<1>1. /\ A \subseteq Nat /\ K \in [Nat -> Blocks \cup {0}] /\ (\A j \in A : K[j] \in Blocks) /\ C \in [Nat -> Nat]
      /\ Unread \subseteq Nat /\ (\A i \in Unread : Num(i) \in A) /\ head \in Nat /\ tail \in Nat /\ Filled \in Nat
      /\ \A d \in Consumers : \A i \in Left(d) : i < head
  BY Counts
<1>2. PICK t \in Nat, o \in Nat : t = tail /\ o = Over(t)
  <2>1. Over(tail) \in Nat
    BY <1>1, OverIs
  <2> QED
    BY <1>1, <2>1
<1>3. o <= Filled /\ Filled' = o /\ Entered' = o /\ Stored = t /\ Stored' = t
  <2>1. Over(tail)' = o
    BY <1>2 DEF Over, Num
  <2>2. pc \in {"chain", "link", "items"} => job.got \in Nat
    BY DEF InUse, Producing
  <2>3. o <= Filled
    BY <1>2, <2>2 DEF Filled
  <2> QED
    BY <1>2, <2>1, <2>3 DEF Filled, Entered, Stored
<1>4. IndexTypes' /\ Indexed(T, K, C)' /\ Follows(T, C, C)
  <2>1. Entered = o + n /\ T = {j \in A : j < o} /\ setup' = setup
    BY <1>2
  <2> QED
    BY <1>2, <1>3, <2>1, GivesUp
<1>5. T \subseteq A /\ T \subseteq Nat
  BY <1>1
<1>6. Blocks' = Blocks
  BY DEF Blocks
<1>7. Stocked(T, K)'
  <2>1. ASSUME NEW i \in Unread PROVE Num(i) \in T
    <3>1. i \in Nat /\ Num(i) \in A
      BY <1>1
    <3>2. i < t
      <4>1. PICK h \in Nat : h = head /\ h <= t
        BY <1>1, <1>2
      <4>2. i < h \/ i \in h .. t - 1
        <5>1. Unread = (head .. Stored - 1) \cup UNION {Left(c) : c \in Consumers}
          BY DEF Unread
        <5> QED
          BY <1>1, <1>3, <4>1, <5>1
      <4> QED
        BY <3>1, <4>1, <4>2
    <3>3. Num(i) < Over(t)
      BY <3>1, <3>2, BeforeTail
    <3> QED
      BY <1>2, <3>1, <3>3
  <2>2. Holds(cell, emptied, A, K, Unread, tail)
    BY DEF InUse, Stocked
  <2>3. Holds(cell, emptied, T, K, Unread, tail)
    BY <1>1, <1>5, <2>1, <2>2, HoldsFew
  <2>4. Holds(cell, emptied', T, K, Unread, tail)
    <3>1. \A j \in T : K[j] \in Blocks /\ emptied'[K[j]] = emptied[K[j]]
      BY <1>1, <1>5 DEF Returns
    <3> QED
      BY <2>3, <3>1, HoldsSame
  <2>5. Unread' = Unread
    BY <1>3, UnreadThen
  <2>6. Homes(pool', free', heap', T, K)
    BY DEF Returns
  <2> QED
    BY <1>6, <2>4, <2>5, <2>6 DEF Stocked, Homes, Holds
<1>8. (\A c \in Consumers' : Knows(c, T, K, C)') /\ Apart'
  <2>1. Carries(A, K, T, K, T)
    BY <1>5 DEF Carries, Returns
  <2>2. UNCHANGED <<setup, head, at, my>>
    OBVIOUS
  <2> QED
    BY <1>4, <2>1, <2>2, ConsumersFollow
<1>9. Producing(T, K)'
  <2>1. wrecked = "none" /\ \A j \in Nat : Num(tail) <= j /\ j < Filled => j \in A
    BY DEF InUse, Producing
  <2>2. Num(tail)' = Num(tail)
    BY DEF Num
  <2>3. \A j \in Nat : Num(tail)' <= j /\ j < Filled' => j \in T
    <3> SUFFICES ASSUME NEW j \in Nat, Num(tail) <= j, j < o PROVE j \in T
      BY <1>3, <2>2
    <3>1. j < Filled
      BY <1>1, <1>2, <1>3
    <3> QED
      BY <1>2, <2>1, <3>1
  <2>4. Filled' - 1 \in T => tailBlock' = K[Filled' - 1]
    BY <1>2, <1>3, <1>5 DEF Returns
  <2> QED
    BY <2>1, <2>3, <2>4 DEF Producing
<1>10. Witnesses(T, K, C)'
  BY <1>1, <1>5, <1>6 DEF Witnesses
<1>11. BlockTypes'
  BY <1>6 DEF InUseTypes, BlockTypes, Returns
<1> QED
  BY <1>4, <1>7, <1>8, <1>9, <1>10, <1>11 DEF InUse

LEMMA PutNoBlockOn ==
  ASSUME InUseTypes, NEW A, NEW K, NEW C, InUse(A, K, C), head <= tail, PutNoBlock
  PROVE  BlockTypes' /\ IndexTypes' /\ \E B : InUse(B, K, C)'
<1>1. /\ UNCHANGED <<setup, tail, head, at, my, cell, emptied, next, pool, free, heap, tailBlock, wrecked>>
      /\ pc = "put" /\ pc' = "idle" /\ GiveUp(1)
  BY DEF PutNoBlock, Stop, theirs, blocks
<1>2. PICK T : T = {j \in A : j < Over(tail)}
  OBVIOUS
<1>3. Filled = Over(tail) /\ Entered = Over(tail) + 1
  BY <1>1 DEF Filled, Entered
<1>4. Returns(A, K, T, Over(tail))
  <2>1. Homes(pool, free, heap, A, K) /\ T \subseteq A
    BY <1>2 DEF InUse, Stocked
  <2>2. Homes(pool, free, heap, T, K)
    BY <2>1 DEF Homes
  <2>3. Over(tail) - 1 \in A => tailBlock = K[Over(tail) - 1]
    BY <1>3 DEF InUse, Producing
  <2> QED
    BY <1>1, <2>1, <2>2, <2>3 DEF Returns, InUseTypes, BlockTypes
<1>5. 1 \in Nat /\ pc \in {"put", "chain", "link", "items"}
  BY <1>1
<1>6. BlockTypes' /\ IndexTypes' /\ InUse(T, K, C)'
  BY <1>1, <1>2, <1>3, <1>4, <1>5, GivesBack
<1> QED
  BY <1>6

LEMMA PutThrowOn ==
  ASSUME InUseTypes, NEW A, NEW K, NEW C, InUse(A, K, C), head <= tail, PutThrow
  PROVE  BlockTypes' /\ IndexTypes' /\ \E B : InUse(B, K, C)'
<1>1. /\ UNCHANGED <<setup, tail, head, at, my, cell, next, tailBlock, wrecked>>
      /\ pc = "put" /\ pc' = "idle" /\ GiveUp(1)
  BY DEF PutThrow, Stop, theirs
<1>2. PICK b \in Requisition(job.canAlloc) :
        pool' = pool \ {b} /\ heap' = heap \ {b} /\ free' = free \cup {b} /\ ResetEmpty({b})
  BY DEF PutThrow
<1>3. b \in pool \cup free \cup heap
  BY <1>2 DEF Requisition
<1>4. PICK T : T = {j \in A : j < Over(tail)}
  OBVIOUS
<1>5. Filled = Over(tail) /\ Entered = Over(tail) + 1
  BY <1>1 DEF Filled, Entered
<1>6. Returns(A, K, T, Over(tail))
  <2>1. Homes(pool, free, heap, A, K) /\ T \subseteq A /\ \A j \in A : K[j] \in Blocks
    BY <1>4, Counts DEF InUse, Stocked
  <2>2. pool \subseteq Blocks /\ free \subseteq Blocks /\ heap \subseteq Blocks /\ emptied \in [Blocks -> SUBSET Offsets]
        /\ tailBlock \in Blocks \cup {0}
    BY DEF InUseTypes, BlockTypes
  <2>3. Homes(pool', free', heap', T, K)
    BY <1>2, <1>3, <2>1 DEF Homes
  <2>4. Over(tail) - 1 \in A => tailBlock = K[Over(tail) - 1]
    BY <1>5 DEF InUse, Producing
  <2>5. emptied' \in [Blocks -> SUBSET Offsets] /\ \A j \in T : emptied'[K[j]] = emptied[K[j]]
    <3>1. emptied' = [x \in Blocks |-> IF x \in {b} THEN {} ELSE emptied[x]]
      BY <1>2 DEF ResetEmpty
    <3>2. \A j \in T : K[j] # b /\ K[j] \in Blocks
      BY <1>3, <2>1 DEF Homes
    <3> QED
      BY <2>2, <3>1, <3>2
  <2>6. pool' \subseteq Blocks /\ free' \subseteq Blocks /\ heap' \subseteq Blocks
    BY <1>2, <1>3, <2>2
  <2>7. \A x \in Blocks : x \notin pool \cup free \cup heap => x \notin pool' \cup free' \cup heap'
    BY <1>2, <1>3
  <2> QED
    BY <1>1, <2>2, <2>3, <2>4, <2>5, <2>6, <2>7 DEF Returns
<1>7. 1 \in Nat /\ pc \in {"put", "chain", "link", "items"}
  BY <1>1
<1>8. BlockTypes' /\ IndexTypes' /\ InUse(T, K, C)'
  BY <1>1, <1>4, <1>5, <1>6, <1>7, GivesBack
<1> QED
  BY <1>8

\* What a bulk has reserved are the blocks of its numbers.
LEMMA ChainIs ==
  ASSUME InUseTypes, NEW A, NEW K, NEW C, InUse(A, K, C), pc \in {"chain", "link", "items"}, NEW b \in Chain
  PROVE  \E j \in A : Over(tail) <= j /\ b = K[j]
<1>1. PICK o \in Nat, g \in Nat, x \in Nat : o = Over(tail) /\ g = job.got /\ x = Num(tail) /\ x <= o
  <2>1. tail \in Nat /\ job.got \in Nat
    BY Counts DEF InUse, Producing
  <2>2. Over(tail) \in Nat /\ Num(tail) \in Nat /\ (Over(tail) = Num(tail) \/ Over(tail) = Num(tail) + 1)
    BY <2>1, OverIs, NumIs
  <2> QED
    BY <2>1, <2>2
<1>2. /\ \A j \in Nat : x <= j /\ j < o + g => j \in A
      /\ job.first = (IF g = 0 THEN 0 ELSE K[o])
      /\ \A j \in Nat : o <= j /\ j + 1 < o + g => next[K[j]] = K[j + 1]
  <2>1. Filled = o + g
    BY <1>1 DEF Filled
  <2>2. Producing(A, K)
    BY DEF InUse
  <2> QED
    BY <1>1, <2>1, <2>2 DEF Producing
<1>3. PICK k \in 0 .. g - 1 : b = After(job.first, k)
  BY <1>1 DEF Chain
<1>4. k \in Nat /\ k < g /\ g # 0
  OBVIOUS
<1>5. Goes(next, job.first, K, o, g)
  BY <1>2, <1>4 DEF Goes
<1>6. After(job.first, k) = K[o + k]
  BY <1>4, <1>5, AfterIs
<1>7. PICK j \in Nat : j = o + k /\ o <= j /\ x <= j /\ j < o + g
  BY <1>1, <1>4
<1> QED
  BY <1>1, <1>2, <1>3, <1>6, <1>7

LEMMA GivesBulkBack ==
  ASSUME InUseTypes, NEW A, NEW K, NEW C, InUse(A, K, C), head <= tail, pc \in {"chain", "link", "items"},
         UNCHANGED <<setup, tail, head, at, my, cell, emptied, next, pool, heap, wrecked>>,
         NEW n, GiveUpBulk(n), n = IF pc = "link" THEN job.got + 1 ELSE job.got
  PROVE  BlockTypes' /\ IndexTypes' /\ \E B : InUse(B, K, C)'
<1>1. /\ UNCHANGED <<setup, tail, head, at, my, cell, emptied, next, pool, heap, wrecked>>
      /\ pc' = "idle" /\ GiveUp(n) /\ free' = free \cup Chain /\ tailBlock' = job.start
  BY DEF GiveUpBulk, Stop
<1>2. PICK T : T = {j \in A : j < Over(tail)}
  OBVIOUS
<1>3. job.got \in Nat /\ job.start \in Blocks \cup {0} /\ (Over(tail) - 1 \in A => job.start = K[Over(tail) - 1])
  BY DEF InUse, Producing
<1>4. n \in Nat /\ Entered = Over(tail) + n
  <2>1. PICK o \in Nat, g \in Nat : o = Over(tail) /\ g = job.got
    <3>1. tail \in Nat
      BY Counts
    <3> QED
      BY <1>3, <3>1, OverIs
  <2>2. (o + g) + 1 = o + (g + 1)
    OBVIOUS
  <2> QED
    BY <2>1, <2>2 DEF Filled, Entered
<1>5. Returns(A, K, T, Over(tail))
  <2>1. Homes(pool, free, heap, A, K) /\ T \subseteq A /\ A \subseteq Nat /\ \A j \in A : K[j] \in Blocks
    BY <1>2, Counts DEF InUse, Stocked
  <2>2. pool \subseteq Blocks /\ free \subseteq Blocks /\ heap \subseteq Blocks /\ emptied \in [Blocks -> SUBSET Offsets]
    BY DEF InUseTypes, BlockTypes
  <2>3. ASSUME NEW b \in Chain
        PROVE  b \in Blocks /\ b \notin pool \cup heap /\ (\A j \in T : b # K[j]) /\ \E j \in A : b = K[j]
    <3>1. PICK j \in A : Over(tail) <= j /\ b = K[j]
      BY ChainIs
    <3>2. b \in Blocks /\ b \notin pool \cup heap
      BY <2>1, <3>1 DEF Homes
    <3>3. ASSUME NEW k \in T, b = K[k] PROVE FALSE
      <4>1. k = j
        BY <2>1, <3>1, <3>3 DEF Homes
      <4>2. k < Over(tail) /\ k \in Nat
        BY <1>2, <2>1
      <4>3. PICK o \in Nat : o = Over(tail)
        BY Counts, OverIs
      <4> QED
        BY <3>1, <4>1, <4>2, <4>3
    <3> QED
      BY <3>1, <3>2, <3>3
  <2>4. Homes(pool, free \cup Chain, heap, T, K)
    <3>1. \A b \in Chain : b \notin pool \cup heap /\ \A j \in T : b # K[j]
      BY <2>3
    <3> QED
      BY <2>1, <3>1, HomesBack
  <2>5. free' \subseteq Blocks
    BY <1>1, <2>2, <2>3
  <2>6. \A x \in Blocks : x \notin pool \cup free \cup heap /\ (\A j \in A : x # K[j]) => x \notin pool' \cup free' \cup heap'
    BY <1>1, <2>3
  <2> QED
    BY <1>1, <1>3, <2>1, <2>2, <2>4, <2>5, <2>6 DEF Returns
<1>6. BlockTypes' /\ IndexTypes' /\ InUse(T, K, C)'
  BY <1>1, <1>2, <1>4, <1>5, GivesBack
<1> QED
  BY <1>6

LEMMA ProducesOn ==
  ASSUME InUseTypes, NEW A, NEW K, NEW C, InUse(A, K, C), head <= tail, ProduceImplicit \/ Publish
  PROVE  BlockTypes' /\ IndexTypes' /\ \E B, L, D : InUse(B, L, D)'
<1>1. CASE Put
  BY <1>1, PutOn
<1>2. CASE PutEntry
  BY <1>2, PutEntryOn
<1>3. CASE PutNoBlock
  BY <1>3, PutNoBlockOn
<1>4. CASE PutThrow
  BY <1>4, PutThrowOn
<1>5. CASE PutBlock
  BY <1>5, PutBlockOn
<1>6. CASE PutBulk
  BY <1>6, PutBulkOn
<1>7. CASE BulkNoEntry
  <2>1. /\ UNCHANGED <<setup, tail, head, at, my, cell, emptied, next, pool, heap, wrecked>>
        /\ pc = "chain" /\ GiveUpBulk(job.got)
    BY <1>7 DEF BulkNoEntry, theirs
  <2>2. pc \in {"chain", "link", "items"} /\ job.got = IF pc = "link" THEN job.got + 1 ELSE job.got
    BY <2>1
  <2> QED
    BY <2>1, <2>2, GivesBulkBack
<1>8. CASE BulkEntry
  BY <1>8, BulkEntryOn
<1>9. CASE ChainNoBlock
  <2>1. /\ UNCHANGED <<setup, tail, head, at, my, cell, emptied, next, pool, heap, wrecked>>
        /\ pc = "link" /\ GiveUpBulk(job.got + 1)
    BY <1>9 DEF ChainNoBlock, theirs
  <2>2. pc \in {"chain", "link", "items"} /\ job.got + 1 = IF pc = "link" THEN job.got + 1 ELSE job.got
    BY <2>1
  <2> QED
    BY <2>1, <2>2, GivesBulkBack
<1>10. CASE ChainBlock
  BY <1>10, ChainBlockOn
<1>11. CASE BulkItems
  <2>1. UNCHANGED <<setup, tail, head, at, my, emptied, next, pool, heap, wrecked>> /\ pc = "items"
    BY <1>11 DEF BulkItems, theirs
  <2>2. CASE Construct(job.n, [i \in Ahead(job.n) |-> ChainAt(i)]) /\ pc' = "tail" /\ UNCHANGED <<free, tailBlock, headers, entries, job>>
    BY <2>1, <2>2, BulkItemsOn
  <2>3. CASE GiveUpBulk(job.got) /\ UNCHANGED cell
    <3>1. pc \in {"chain", "link", "items"} /\ job.got = IF pc = "link" THEN job.got + 1 ELSE job.got
      BY <2>1
    <3> QED
      BY <2>1, <2>3, <3>1, GivesBulkBack
  <2> QED
    BY <1>11, <2>2, <2>3 DEF BulkItems
<1>12. CASE Publish
  BY <1>12, PublishOn
<1> QED
  BY <1>1, <1>2, <1>3, <1>4, <1>5, <1>6, <1>7, <1>8, <1>9, <1>10, <1>11, <1>12 DEF ProduceImplicit
-----------------------------------------------------------------------------
(* From the constructor to the destructor *)

\* The block that a number's item is in, and no other, holds it until it is read.
LEMMA Homed ==
  ASSUME InUseTypes, NEW A, NEW K, NEW C, InUse(A, K, C)
  PROVE  OneHome /\ CleanEnd
<1>1. /\ Homes(pool, free, heap, A, K) /\ Holds(cell, emptied, A, K, Unread, tail)
      /\ A \subseteq Nat /\ (\A j \in A : K[j] \in Blocks) /\ Unread \subseteq Nat /\ (\A i \in Unread : Num(i) \in A)
      /\ Stored \in Nat /\ tail <= Stored /\ head \in Nat /\ tail \in Nat
  BY Counts DEF InUse, Stocked
<1>2. ASSUME NEW b \in Blocks, \A j \in A : b # K[j] PROVE ~ Live(b)
  BY <1>1, <1>2 DEF Holds, Live
<1>3. ASSUME NEW b \in pool \cup free \cup heap PROVE ~ Live(b) /\ b \notin (pool \cap free) \cup (free \cap heap)
  <2>1. b \in Blocks /\ \A j \in A : b # K[j]
    BY <1>1 DEF Homes, InUseTypes, BlockTypes
  <2>2. b \notin (pool \cap free) \cup (free \cap heap)
    BY <1>1 DEF Homes
  <2> QED
    BY <1>2, <2>1, <2>2
<1>4. ASSUME NEW b \in Blocks, NEW o \in emptied[b] PROVE cell[b][o] = 0
  <2>1. o \in Offsets
    BY DEF InUseTypes, BlockTypes
  <2>2. CASE \E j \in A : b = K[j]
    <3>1. PICK j \in A : b = K[j]
      BY <2>2
    <3> QED
      BY <1>1, <2>1, <3>1 DEF Holds
  <2>3. CASE \A j \in A : b # K[j]
    BY <1>2, <2>1, <2>3 DEF Live
  <2> QED
    BY <2>2, <2>3
<1>5. ASSUME NEW i \in head .. tail - 1 PROVE \E b \in Blocks : cell[b][i % BLOCK_SIZE] = i + 1
  <2>1. i \in Unread /\ i \in Nat
    <3>1. i \in head .. Stored - 1
      BY <1>1
    <3> QED
      BY <1>1, <3>1 DEF Unread
  <2>2. PICK j \in A : j = Num(i) /\ K[j] \in Blocks
    BY <1>1, <2>1
  <2>3. PICK o \in Offsets : o = i % BLOCK_SIZE /\ i = Pos(j) + o /\ Pos(j) + o \in Unread
    <3>1. i % BLOCK_SIZE \in Offsets /\ i = Pos(Num(i)) + (i % BLOCK_SIZE)
      BY <2>1, NumIs
    <3> QED
      BY <2>1, <2>2, <3>1
  <2>4. cell[K[j]][o] = i + 1
    BY <1>1, <2>3 DEF Holds
  <2> QED
    BY <2>2, <2>3, <2>4
<1>6. pc # "gone"
  BY DEF InUse, Producing
<1> QED
  BY <1>3, <1>4, <1>5, <1>6 DEF OneHome, CleanEnd

\* An implicit producer takes none of the other kind's steps.
LEMMA OneKind ==
  ASSUME Implicit, pc \in {"idle", "put", "chain", "link", "items", "tail", "gone"}
  PROVE  ~ ProduceExplicit /\ ~ DestroyExplicit /\ \A c : ~ DequeueExplicit(c)
<1>1. ~ Explicit
  BY DEF Explicit, Implicit
<1>2. ~ Enqueue /\ ~ EnqueueReuse /\ ~ EnqueueGrow /\ ~ EnqueueBlock /\ ~ EnqueueRefused
  BY <1>1 DEF Enqueue, EnqueueReuse, EnqueueGrow, EnqueueBlock, EnqueueRefused, Idle
<1>3. ~ AddEntry /\ ~ SetFront /\ ~ BulkEnqueue /\ ~ BulkReuse
  BY <1>1 DEF AddEntry, SetFront, BulkEnqueue, BulkReuse, MoreAhead, Idle
<1>4. ~ BulkNoRoom /\ ~ BulkNoBlock /\ ~ BulkBlock /\ ~ BulkReset /\ ~ BulkFill /\ ~ BulkFront
  BY <1>1 DEF BulkNoRoom, BulkNoBlock, BulkBlock, BulkReset, BulkFill, BulkFront, MoreNew
<1> QED
  BY <1>1, <1>2, <1>3, <1>4 DEF ProduceExplicit, DestroyExplicit, DequeueExplicit

\* The queue starts with no block in use.
LEMMA StartsEmpty ==
  ASSUME Init, Implicit, ClaimTypes
  PROVE  BlockTypes /\ IndexTypes /\ \E A, K, C : InUse(A, K, C)
<1>1. /\ setup \in Setups /\ tail = 0 /\ head = 0 /\ pc = "idle" /\ wrecked = "none" /\ tailBlock = 0
      /\ cell = [b \in Blocks |-> [o \in Offsets |-> 0]] /\ emptied = [b \in Blocks |-> {}] /\ next = [b \in Blocks |-> 0]
      /\ pool = 1 .. setup.pool /\ free = {} /\ heap = Blocks \ pool /\ \A c \in Consumers : at[c] = "idle"
  BY DEF Init
<1>2. PICK n \in Nat \ {0} : n = IndexSize /\ n = FirstSize
  BY SizesAssumption DEF FirstSize, Implicit
<1>3. /\ headers = <<[front |-> n - 1, index |-> [k \in 0 .. n - 1 |-> k + 1]]>> /\ entries = [k \in 1 .. n |-> NoEntry]
  BY <1>2 DEF Init, NewHeader, Implicit
<1>4. Len(headers) = 1 /\ Len(entries) = n /\ DOMAIN headers = 1 .. 1
  <2>1. DOMAIN entries = 1 .. n
    BY <1>3
  <2>2. Len(entries) = n
    BY <2>1, LenOf
  <2> QED
    BY <1>3, <2>2
<1>5. headers[1] = [front |-> n - 1, index |-> [k \in 0 .. n - 1 |-> k + 1]] /\ Header = headers[1]
  BY <1>3, <1>4 DEF Header
<1>6. Size(headers[1]) = n
  <2>1. DOMAIN headers[1].index = 0 .. n - 1
    BY <1>5
  <2>2. Cardinality(0 .. n - 1) = n
    <3>1. 0 \in Int /\ n - 1 \in Int /\ (n - 1) - 0 + 1 = n /\ 0 <= n - 1
      OBVIOUS
    <3> QED
      BY <3>1, FS_Interval
  <2> QED
    BY <2>1, <2>2 DEF Size
<1>7. BlockTypes
  <2>1. 0 \in Nat /\ {} \in SUBSET Offsets /\ pool \subseteq Blocks
    <3>1. setup.pool \in Nat /\ setup.heap \in Nat
      BY <1>1, SizesAssumption
    <3> QED
      BY <1>1, <3>1 DEF Blocks
  <2> QED
    BY <1>1, <2>1 DEF BlockTypes
<1>8. IndexTypes
  <2>1. Heading(headers[1])
    <3>1. \A k \in 0 .. n - 1 : k + 1 \in 1 .. n
      OBVIOUS
    <3>2. headers[1].index \in [0 .. n - 1 -> 1 .. n] /\ headers[1].front = n - 1 /\ n - 1 \in 0 .. n - 1
      BY <1>5, <3>1
    <3> QED
      BY <1>4, <1>5, <1>6, <3>2 DEF Heading
  <2>2. entries \in [1 .. n -> [base : Nat, block : Blocks \cup {0}]]
    BY <1>3 DEF NoEntry
  <2>3. headers = [h \in 1 .. 1 |-> headers[h]]
    BY <1>3, <1>4
  <2> QED
    BY <1>4, <2>1, <2>2, <2>3 DEF IndexTypes
<1>9. PICK A, K, C : A = {} /\ K = [j \in Nat |-> 0] /\ C = [h \in Nat |-> 0]
  OBVIOUS
<1>10. Witnesses(A, K, C)
  BY <1>9 DEF Witnesses
<1>11. Filled = 0 /\ Entered = 0 /\ Num(tail) = 0
  <2>1. 0 \in Nat /\ 0 <= Pos(0) /\ Pos(0) < 0 + BLOCK_SIZE
    BY PosZero, SizesAssumption
  <2>2. Over(0) = 0
    BY <2>1, OverIt
  <2>3. Num(0) = 0
    <3>1. Pos(0) <= 0 /\ 0 < Pos(0) + BLOCK_SIZE /\ 0 \in Int
      BY <2>1, PosZero
    <3> QED
      BY <3>1, NumBetween
  <2> QED
    BY <1>1, <2>2, <2>3 DEF Filled, Entered
<1>12. Unread = {} /\ \A c \in Consumers : Left(c) = {} /\ ~ Giving(c)
  BY <1>1 DEF Unread, Left, Giving, Stored
<1>13. Indexed(A, K, C)
  <2>1. \A j \in Nat : Slot(C, 1, j) = j % n /\ j % n \in 0 .. n - 1
    BY <1>6, <1>9 DEF Slot
  <2>2. \A j \in Nat : Place(C, j) = (j % n) + 1
    BY <1>4, <1>5, <2>1 DEF Place
  <2>3. \A h \in 1 .. Len(headers) : \A j \in Nat : \A s \in 0 .. Size(headers[h]) - 1 :
          headers[h].index[s] = Place(C, j) => s = Slot(C, h, j)
    <3> SUFFICES ASSUME NEW j \in Nat, NEW s \in 0 .. n - 1, headers[1].index[s] = Place(C, j) PROVE s = Slot(C, 1, j)
      BY <1>4, <1>6
    <3>1. headers[1].index[s] = s + 1
      BY <1>5
    <3>2. PICK r \in 0 .. n - 1 : r = Slot(C, 1, j) /\ Place(C, j) = r + 1
      BY <2>1, <2>2
    <3>3. s + 1 = r + 1
      BY <3>1, <3>2
    <3> QED
      BY ONLY <3>2, <3>3, s \in 0 .. n - 1, r \in 0 .. n - 1, n \in Nat
  <2>4. (Header.front + 1) % Size(Header) = Slot(C, Len(headers), Entered)
    <3>1. (n - 1) + 1 = n /\ n % n = 0 /\ 0 % n = 0 /\ 0 \in Nat
      OBVIOUS
    <3> QED
      BY <1>4, <1>5, <1>6, <1>11, <2>1, <3>1
  <2> QED
    BY <1>9, <1>11, <2>3, <2>4 DEF Indexed
<1>14. Stocked(A, K)
  <2>1. Homes(pool, free, heap, A, K)
    BY <1>1, <1>9 DEF Homes
  <2>2. Holds(cell, emptied, A, K, Unread, tail)
    BY <1>1, <1>9, <1>12 DEF Holds
  <2> QED
    BY <2>1, <2>2 DEF Stocked
<1>15. (\A c \in Consumers : Knows(c, A, K, C)) /\ Apart
  BY <1>1, <1>12 DEF Knows, Apart
<1>16. Producing(A, K)
  <2>1. \A j \in Nat : ~ (j < 0)
    OBVIOUS
  <2> QED
    BY <1>1, <1>9, <1>11, <2>1 DEF Producing
<1> QED
  BY <1>7, <1>8, <1>10, <1>13, <1>14, <1>15, <1>16 DEF InUse

\* The blocks that the destructor finds are those of the numbers in use.
LEMMA DestroyFinds ==
  ASSUME InUseTypes, Rounds, NEW A, NEW K, NEW C, InUse(A, K, C), NEW i \in Nat, Num(i) \in A
  PROVE  entries[EntryFor(i)].block = K[Num(i)]
<1>1. IndexTypes /\ Wrap \in Nat \ {0} /\ Indexed(A, K, C) /\ C \in [Nat -> Nat] /\ A \subseteq Nat
  BY Setup, Counts DEF InUseTypes, InUse
<1>2. PICK j \in A : j = Num(i)
  OBVIOUS
<1>3. PICK L \in 1 .. Len(headers) : L = Len(headers) /\ Header = headers[L] /\ Heading(headers[L])
  BY <1>1, PlaceIn
<1>4. Tells(C, L, headers[L].front)
  <2>1. Leads(C, Len(headers), j)
    BY NewestLeads
  <2> QED
    BY <1>3, <2>1 DEF Leads
<1>5. headers[L].front \in 0 .. Size(headers[L]) - 1
  BY <1>3 DEF Heading
<1>6. Locate(headers[L], headers[L].front, i) = Slot(C, L, j)
  BY <1>1, <1>2, <1>4, <1>5, Walks
<1>7. EntryFor(i) = Place(C, j)
  BY <1>3, <1>6 DEF EntryFor, Place
<1>8. entries[Place(C, j)] = [base |-> W(Pos(j)), block |-> K[j]]
  BY <1>1 DEF Indexed
<1>9. entries[Place(C, j)].block = K[j]
  BY ONLY <1>8
<1> QED
  BY <1>2, <1>7, <1>9

\* It destroys every item there is, and gives back every block.
LEMMA Destroys ==
  ASSUME InUseTypes, Rounds, NEW A, NEW K, NEW C, InUse(A, K, C), head <= tail, DestroyImplicit
  PROVE  BlockTypes' /\ IndexTypes' /\ Gone'
<1> DEFINE here == {<<entries[EntryFor(i)].block, i % BLOCK_SIZE>> : i \in head .. tail - 1}
           last == IF tailBlock # 0 /\ (head # tail \/ tail % BLOCK_SIZE # 0) THEN {tailBlock} ELSE {}
<1>1. /\ UNCHANGED <<setup, tail, head, at, my, emptied, next, pool, heap, headers, entries>>
      /\ pc = "idle" /\ pc' = "gone" /\ tailBlock' = 0 /\ \A c \in Consumers : at[c] = "idle"
      /\ cell' = [b \in Blocks |-> [o \in Offsets |-> IF <<b, o>> \in here THEN 0 ELSE cell[b][o]]]
      /\ wrecked' = IF \A x \in here : x[1] # 0 /\ cell[x[1]][x[2]] # 0 THEN "gone" ELSE "wrecked"
      /\ free' = free \cup {x[1] : x \in here} \cup last
  BY DEF DestroyImplicit, theirs, index
<1>2. /\ Homes(pool, free, heap, A, K) /\ Holds(cell, emptied, A, K, Unread, tail) /\ Producing(A, K)
      /\ A \subseteq Nat /\ (\A j \in A : K[j] \in Blocks) /\ Unread \subseteq Nat /\ (\A i \in Unread : Num(i) \in A)
      /\ Stored \in Nat /\ tail <= Stored /\ head \in Nat /\ tail \in Nat
  BY Counts DEF InUse, Stocked
<1>3. Unread = head .. tail - 1
  BY <1>1 DEF Unread, Stored, Left
<1>4. ASSUME NEW i \in head .. tail - 1
      PROVE  i \in Nat /\ Num(i) \in A /\ entries[EntryFor(i)].block = K[Num(i)] /\ K[Num(i)] \in Blocks
             /\ i % BLOCK_SIZE \in Offsets /\ cell[K[Num(i)]][i % BLOCK_SIZE] = i + 1
  <2>1. i \in Nat /\ Num(i) \in A
    BY <1>2, <1>3
  <2>2. entries[EntryFor(i)].block = K[Num(i)]
    BY <2>1, DestroyFinds
  <2>3. PICK j \in A : j = Num(i) /\ K[j] \in Blocks
    BY <1>2, <2>1
  <2>4. PICK o \in Offsets : o = i % BLOCK_SIZE /\ i = Pos(j) + o /\ Pos(j) + o \in Unread
    <3>1. i % BLOCK_SIZE \in Offsets /\ i = Pos(Num(i)) + (i % BLOCK_SIZE)
      BY <2>1, NumIs
    <3> QED
      BY <1>3, <2>3, <3>1
  <2>5. cell[K[j]][o] = i + 1
    BY <1>2, <2>4 DEF Holds
  <2> QED
    BY <2>1, <2>2, <2>3, <2>4, <2>5
<1>5. PICK H : H = here
  OBVIOUS
<1>6. ASSUME NEW x \in H PROVE x[1] \in Blocks /\ x[1] # 0 /\ cell[x[1]][x[2]] # 0 /\ \E j \in A : x[1] = K[j]
  <2>1. PICK i \in head .. tail - 1 : x = <<entries[EntryFor(i)].block, i % BLOCK_SIZE>>
    BY <1>5
  <2>2. x = <<K[Num(i)], i % BLOCK_SIZE>>
    BY <1>4, <2>1
  <2>3. i + 1 # 0 /\ 0 \notin Blocks
    BY <1>4 DEF Blocks
  <2> QED
    BY <1>4, <2>2, <2>3
<1>7. wrecked' = "gone"
  BY <1>1, <1>5, <1>6
<1>8. ASSUME NEW b \in Blocks, NEW o \in Offsets PROVE cell'[b][o] = 0
  <2>1. cell'[b][o] = IF <<b, o>> \in H THEN 0 ELSE cell[b][o]
    BY <1>1, <1>5
  <2>2. CASE \E j \in A : b = K[j]
    <3>1. PICK j \in A : b = K[j]
      BY <2>2
    <3>2. cell[b][o] = IF Pos(j) + o \in Unread THEN Pos(j) + o + 1 ELSE 0
      BY <1>2, <3>1 DEF Holds
    <3>3. Pos(j) + o \in Unread => <<b, o>> \in H
      <4> SUFFICES ASSUME Pos(j) + o \in Unread PROVE <<b, o>> \in H
        OBVIOUS
      <4>1. PICK i \in head .. tail - 1 : i = Pos(j) + o
        BY <1>3
      <4>2. Num(i) = j /\ i % BLOCK_SIZE = o
        <5>1. j \in Int
          BY <1>2
        <5> QED
          BY <4>1, <5>1, NumOf
      <4>3. entries[EntryFor(i)].block = b
        BY <1>4, <3>1, <4>2
      <4> QED
        BY <1>5, <4>2, <4>3
    <3> QED
      BY <2>1, <3>2, <3>3
  <2>3. CASE \A j \in A : b # K[j]
    <3>1. cell[b][o] = 0
      BY <1>2, <2>3 DEF Holds
    <3> QED
      BY <2>1, <3>1
  <2> QED
    BY <2>2, <2>3
<1>9. ASSUME NEW b \in last PROVE b \in Blocks /\ \E j \in A : b = K[j]
  <2>1. b = tailBlock /\ tailBlock # 0 /\ (head # tail \/ tail % BLOCK_SIZE # 0) /\ tailBlock \in Blocks
    BY DEF InUseTypes, BlockTypes
  <2>2. PICK o \in Nat : o = Over(tail) /\ o = Filled
    BY <1>1, <1>2, OverIs DEF Filled
  <2>3. o - 1 \in A
    <3>1. CASE tail % BLOCK_SIZE # 0
      <4>1. PICK m \in Nat : m = Num(tail) /\ o = m + 1
        <5>1. Num(tail) \in Nat
          BY <1>2, NumIs
        <5>2. Over(tail) = Num(tail) + 1
          BY <1>2, <3>1, OverIs
        <5> QED
          BY <2>2, <5>1, <5>2
      <4>2. m <= m /\ m < o /\ o - 1 = m
        BY <4>1
      <4> QED
        BY <1>2, <2>2, <4>1, <4>2 DEF Producing
    <3>2. CASE head < tail
      <4>1. PICK i \in head .. tail - 1 : i = tail - 1
        BY <1>2, <3>2
      <4>2. Num(i) \in A /\ Num(i) \in Int /\ o = Num(i) + 1
        BY <1>4, <2>2, <4>1, NumIs DEF Over
      <4>3. o - 1 = Num(i)
        BY <4>2
      <4> QED
        BY <4>2, <4>3
    <3> QED
      BY <1>2, <2>1, <3>1, <3>2
  <2> QED
    BY <1>2, <2>1, <2>2, <2>3 DEF Producing
<1>10. \A b \in free' : b \in free \/ (b \in Blocks /\ \E j \in A : b = K[j])
  BY <1>1, <1>5, <1>6, <1>9
<1>11. free' \subseteq Blocks
  BY <1>10 DEF InUseTypes, BlockTypes
<1>12. BlockTypes'
  <2>1. cell' \in [Blocks -> [Offsets -> Nat]]
    <3>1. cell \in [Blocks -> [Offsets -> Nat]]
      BY DEF InUseTypes, BlockTypes
    <3> QED
      BY <1>1, <1>5, <3>1
  <2> QED
    BY <1>1, <1>11, <2>1 DEF InUseTypes, BlockTypes, Blocks
<1>13. IndexTypes'
  BY <1>1, IndexStays DEF InUseTypes
<1>14. \A b \in Blocks' : ~ Live(b)'
  BY <1>1, <1>8 DEF Live, Blocks
<1>15. OneHome'
  <2>1. pool' \cup free' \cup heap' \subseteq Blocks'
    BY <1>12 DEF BlockTypes
  <2>2. \A b \in free' : b \notin pool' /\ b \notin heap'
    BY <1>1, <1>2, <1>10 DEF Homes
  <2>3. \A b \in Blocks' : \A o \in emptied'[b] : cell'[b][o] = 0
    <3>1. \A b \in Blocks : emptied[b] \subseteq Offsets
      BY DEF InUseTypes, BlockTypes
    <3> QED
      BY <1>1, <1>8, <3>1 DEF Blocks
  <2> QED
    BY <1>1, <1>14, <2>1, <2>2, <2>3 DEF OneHome
<1>16. CleanEnd'
  BY <1>7, <1>14 DEF CleanEnd
<1>17. \A c \in Consumers' : at'[c] = "idle"
  BY <1>1 DEF Consumers
<1> QED
  BY <1>1, <1>12, <1>13, <1>15, <1>16, <1>17 DEF Gone

\* And what is left is left.
LEMMA GoneStays ==
  ASSUME Gone, Implicit, Next
  PROVE  UNCHANGED vars
<1>1. pc = "gone"
  BY DEF Gone
<1>2. ~ ProduceExplicit /\ ~ DestroyExplicit
  BY <1>1, OneKind
<1>3. ~ ProduceImplicit /\ ~ Publish /\ ~ DestroyImplicit
  BY <1>1 DEF ProduceImplicit, Publish, DestroyImplicit, Begin, Put, PutEntry, PutNoBlock, PutThrow, PutBlock, PutBulk,
     BulkNoEntry, BulkEntry, ChainNoBlock, ChainBlock, BulkItems
<1> QED
  BY <1>1, <1>2, <1>3 DEF Next, Produce, Destroy, Ended

LEMMA AllStays ==
  ASSUME UNCHANGED vars
  PROVE  /\ (BlockTypes' <=> BlockTypes) /\ (IndexTypes' <=> IndexTypes) /\ (Gone' <=> Gone)
         /\ \A A, K, C : InUse(A, K, C) => InUse(A, K, C)'
<1>1. /\ UNCHANGED <<setup, tail, head, opt, over, at, my, pc, job, wrecked, headers, entries>>
      /\ UNCHANGED <<cell, emptied, next, pool, free, heap, tailBlock>>
  BY DEF vars, theirs, index, blocks
<1>2. Blocks' = Blocks /\ Consumers' = Consumers /\ \A c : Left(c)' = Left(c) /\ Giving(c)' = Giving(c)
  BY <1>1 DEF Blocks, Consumers, Left, Giving, Last, Base
<1>3. (BlockTypes' <=> BlockTypes) /\ (IndexTypes' <=> IndexTypes)
  BY <1>1, <1>2, IndexStays DEF BlockTypes
<1>4. Gone' <=> Gone
  BY <1>1, <1>2 DEF Gone, OneHome, CleanEnd, Live
<1>5. ASSUME NEW A, NEW K, NEW C, InUse(A, K, C) PROVE InUse(A, K, C)'
  <2>1. Witnesses(A, K, C)' /\ Indexed(A, K, C)' /\ Producing(A, K)' /\ Stored' = Stored
    BY <1>1, <1>2, <1>5, IndexedStays, ProducerStays DEF InUse, Witnesses
  <2>2. Unread' = Unread
    BY <1>1, <1>2, <2>1 DEF Unread
  <2>3. Stocked(A, K)'
    BY <1>1, <1>2, <1>5, <2>2 DEF InUse, Stocked, Holds, Homes
  <2>4. ASSUME NEW c \in Consumers PROVE Knows(c, A, K, C)'
    <3>1. Knows(c, A, K, C) /\ Left(c)' = Left(c) /\ Blocks' = Blocks
      BY <1>2, <1>5 DEF InUse
    <3>2. UNCHANGED <<setup, headers, entries, at, my, head, pool, free, heap, emptied>>
      BY <1>1
    <3> QED
      BY ONLY <3>1, <3>2, IndexStays DEF Knows
  <2>5. Apart'
    BY <1>1, <1>2, <1>5 DEF InUse, Apart
  <2> QED
    BY <1>2, <2>1, <2>3, <2>4, <2>5 DEF InUse
<1> QED
  BY <1>3, <1>4, <1>5

\* A consumer's step is no producer's, and no more is taken than is there.
Below == head <= tail

LEMMA HeadBelow == ASSUME ClaimInv PROVE ClaimTypes /\ Below
<1>1. ClaimTypes /\ NeverPastTail
  BY ClaimsSound DEF ClaimInv
<1>2. PICK R \in [Consumers -> Nat], j \in Nat : R = [c \in Consumers |-> 0]
  OBVIOUS
<1>3. PICK s \in Nat : s = AllSure
  BY <1>1, SumsAre
<1>4. head \in Nat /\ tail \in Nat /\ head + s <= tail
  BY <1>1, <1>3 DEF NeverPastTail, ClaimTypes
<1>5. head <= tail
  BY <1>4
<1> QED
  BY <1>1, <1>5 DEF Below

LEMMA ConsumersOnly == ASSUME NEW c \in Consumers, Dequeue(c) PROVE UNCHANGED <<setup, tail>>
<1>1. CASE Call(c) \/ Look(c) \/ Want(c) \/ Claim(c) \/ Check(c) \/ Settle(c) \/ Take(c)
  BY <1>1 DEF Call, Look, Want, Claim, Check, Settle, Take, Shared
<1>2. CASE LoadHeader(c) \/ LoadFront(c) \/ LoadBase(c) \/ Read(c) \/ Forget(c) \/ Release(c)
  BY <1>2 DEF LoadHeader, LoadFront, LoadBase, Read, Forget, Release, Shared
<1> QED
  BY <1>1, <1>2 DEF Dequeue

LEMMA SetupStays == ASSUME ClaimTypes, Next PROVE setup' = setup
<1>1. CASE Produce \/ Destroy
  BY <1>1, Produces DEF Produced
<1>2. CASE \E c \in Consumers : Dequeue(c)
  BY <1>2, ConsumersOnly
<1>3. CASE Ended
  BY <1>3 DEF Ended, vars
<1> QED
  BY <1>1, <1>2, <1>3 DEF Next, DequeueExplicit, DequeueImplicit

LEMMA QueueStarts == ASSUME AllInit PROVE QueueInv
<1>1. Init /\ ClaimTypes
  BY ClaimStarts DEF AllInit, ClaimInv
<1> QED
  BY <1>1, StartsEmpty DEF QueueInv

LEMMA QueueStays ==
  ASSUME Asked, QueueInv, ClaimInv, Below', Implicit => Rounds, [AllNext]_<<part, vars, flvars>>
  PROVE  QueueInv'
<1>1. ASSUME UNCHANGED vars PROVE QueueInv'
  <2>1. setup' = setup
    BY <1>1 DEF vars
  <2> QED
    BY <1>1, <2>1, AllStays DEF QueueInv, Implicit
<1>2. ASSUME Next PROVE QueueInv'
  <2>1. head <= tail /\ head' <= tail' /\ ClaimTypes
    BY HeadBelow DEF Below
  <2>2. setup' = setup
    BY <1>2, <2>1, SetupStays
  <2> SUFFICES ASSUME Implicit PROVE BlockTypes' /\ IndexTypes' /\ (Gone' \/ \E A, K, C : InUse(A, K, C)')
    BY <2>2 DEF QueueInv, Implicit
  <2>3. BlockTypes /\ IndexTypes /\ (Gone \/ \E A, K, C : InUse(A, K, C)) /\ InUseTypes
    BY <2>1 DEF QueueInv, InUseTypes
  <2>4. CASE Gone
    BY <1>2, <2>3, <2>4, GoneStays, AllStays
  <2>5. CASE \E A, K, C : InUse(A, K, C)
    <3>1. PICK A, K, C : InUse(A, K, C)
      BY <2>5
    <3>2. pc \in {"idle", "put", "chain", "link", "items", "tail"}
      BY <3>1 DEF InUse, Producing
    <3>3. ~ ProduceExplicit /\ ~ DestroyExplicit /\ \A c : ~ DequeueExplicit(c)
      BY <3>2, OneKind
    <3>4. CASE ProduceImplicit \/ Publish
      BY <2>1, <2>3, <3>1, <3>4, ProducesOn
    <3>5. CASE DestroyImplicit
      BY <2>1, <2>3, <3>1, <3>5, Destroys
    <3>6. CASE \E c \in Consumers : Dequeue(c)
      <4>1. PICK c \in Consumers : Dequeue(c)
        BY <3>6
      <4>2. tail' = tail
        BY <4>1, ConsumersOnly
      <4>3. BlockTypes' /\ IndexTypes' /\ \E B : InUse(B, K, C)'
        BY <2>1, <2>3, <3>1, <4>1, <4>2, DequeuesOn
      <4> QED
        BY <4>3
    <3>7. ~ Ended
      BY <3>2 DEF Ended
    <3> QED
      BY <1>2, <3>3, <3>4, <3>5, <3>6, <3>7 DEF Next, Produce, Destroy, DequeueImplicit
  <2> QED
    BY <2>3, <2>4, <2>5
<1> QED
  BY <1>1, <1>2 DEF AllNext

LEMMA QueueSound == ASSUME QueueInv, ClaimInv, Implicit PROVE RightItem /\ OneHome /\ CleanEnd
<1>1. InUseTypes /\ (Gone \/ \E A, K, C : InUse(A, K, C))
  BY HeadBelow DEF QueueInv, InUseTypes
<1>2. CASE Gone
  BY <1>2 DEF Gone, RightItem
<1>3. CASE \E A, K, C : InUse(A, K, C)
  BY <1>1, <1>3, RightItems, Homed
<1> QED
  BY <1>1, <1>2, <1>3

\* What happens to the headers: a new front, or a larger index.
FrontOnly == \E x : headers' = [headers EXCEPT ![Len(headers)].front = x]
Grows     == ~ NextUsable /\ CanGrow /\ \E p : InsertEntry(p)

LEMMA HeadersThen ==
  ASSUME Implicit, pc \in {"idle", "put", "chain", "link", "items", "tail"}, Next
  PROVE  headers' = headers \/ FrontOnly \/ Grows
<1>1. ASSUME NEW n, GiveUp(n) PROVE FrontOnly
  <2>1. headers' = [headers EXCEPT ![Len(headers)].front = (@ - n) % Size(Header)]
    BY <1>1 DEF GiveUp
  <2> QED
    BY <2>1 DEF FrontOnly
<1>2. ASSUME NEW m, NEW p, CanInsert(m), InsertEntry(p) PROVE FrontOnly \/ Grows
  <2>1. CASE NextUsable
    <3>1. PICK x : headers' = [headers EXCEPT ![Len(headers)].front = x]
      BY <1>2, <2>1 DEF InsertEntry
    <3> QED
      BY <3>1 DEF FrontOnly
  <2>2. CASE ~ NextUsable
    BY <1>2, <2>2, SMTT(40) DEF Grows, CanInsert
  <2> QED
    BY <2>1, <2>2
<1>3. CASE Put \/ PutBlock \/ PutBulk \/ ChainBlock \/ Publish \/ DestroyImplicit
  BY <1>3 DEF Put, PutBlock, PutBulk, ChainBlock, Publish, DestroyImplicit, index
<1>4. CASE PutEntry
  <2>1. PICK m \in BOOLEAN : CanInsert(m) /\ InsertEntry(tail)
    BY <1>4 DEF PutEntry
  <2> QED
    BY <1>2, <2>1
<1>5. CASE BulkEntry
  BY <1>2, <1>5 DEF BulkEntry
<1>6. CASE PutNoBlock \/ PutThrow \/ BulkNoEntry \/ ChainNoBlock
  BY <1>1, <1>6 DEF PutNoBlock, PutThrow, BulkNoEntry, ChainNoBlock, GiveUpBulk
<1>7. CASE BulkItems
  BY <1>1, <1>7 DEF BulkItems, GiveUpBulk
<1>8. ASSUME NEW c \in Consumers, Dequeue(c) PROVE headers' = headers
  <2>1. CASE Call(c) \/ Look(c) \/ Want(c) \/ Claim(c) \/ Check(c) \/ Settle(c) \/ Take(c)
    BY <2>1 DEF Call, Look, Want, Claim, Check, Settle, Take, Shared, index
  <2>2. CASE LoadHeader(c) \/ LoadFront(c) \/ LoadBase(c) \/ Read(c) \/ Forget(c) \/ Release(c)
    BY <2>2 DEF LoadHeader, LoadFront, LoadBase, Read, Forget, Release, Shared, index
  <2> QED
    BY <1>8, <2>1, <2>2 DEF Dequeue
<1>9. ~ ProduceExplicit /\ ~ DestroyExplicit /\ \A c : ~ DequeueExplicit(c)
  BY OneKind
<1>10. ~ Ended
  BY DEF Ended
<1>11. CASE Produce
  BY <1>3, <1>4, <1>5, <1>6, <1>7, <1>9, <1>11 DEF Produce, ProduceImplicit
<1>12. CASE Destroy
  BY <1>3, <1>9, <1>12 DEF Destroy
<1> QED
  BY <1>8, <1>9, <1>10, <1>11, <1>12 DEF Next, DequeueImplicit

\* So the sizes of the indexes are what they are to be.
LEMMA SizesStay ==
  ASSUME NEW z \in [Nat -> Nat], Sizes(z), IndexTypes, Sized(z), setup' = setup, setup \in Setups,
         headers' = headers \/ FrontOnly \/ Grows
  PROVE  Sized(z)'
<1>1. /\ Len(headers) \in Nat \ {0} /\ headers = [h \in 1 .. Len(headers) |-> headers[h]]
      /\ (\A h \in 1 .. Len(headers) : Heading(headers[h])) /\ \A h \in 1 .. Len(headers) : Size(headers[h]) = z[h]
  BY DEF IndexTypes, Sized
<1>2. CASE headers' = headers
  BY <1>2 DEF Sized, Size
<1>3. CASE FrontOnly
  <2>1. PICK x : headers' = [headers EXCEPT ![Len(headers)].front = x]
    BY <1>3 DEF FrontOnly
  <2>2. headers' = [h \in 1 .. Len(headers) |->
                      IF h = Len(headers) THEN [headers[h] EXCEPT !.front = x] ELSE headers[h]]
    BY <1>1, <2>1
  <2>3. Len(headers') = Len(headers)
    <3>1. DOMAIN headers' = 1 .. Len(headers)
      BY <2>2
    <3> QED
      BY <1>1, <3>1, LenOf
  <2>4. \A h \in 1 .. Len(headers) : headers'[h].index = headers[h].index
    <3> SUFFICES ASSUME NEW h \in 1 .. Len(headers) PROVE headers'[h].index = headers[h].index
      OBVIOUS
    <3>1. headers[h] = [front |-> headers[h].front, index |-> headers[h].index]
      BY <1>1 DEF Heading
    <3>2. [headers[h] EXCEPT !.front = x].index = headers[h].index
      BY ONLY <3>1
    <3> QED
      BY <2>2, <3>2
  <2> QED
    BY <1>1, <2>3, <2>4 DEF Sized, Size
<1>4. CASE Grows
  <2>1. ~ NextUsable /\ Len(headers) < setup.indexes /\ setup.indexes \in Nat
    BY <1>4, SizesAssumption DEF Grows, CanGrow
  <2>2. PICK p : InsertEntry(p)
    BY <1>4 DEF Grows
  <2>3. PICK L \in 1 .. Len(headers), n \in Nat \ {0}, m \in Nat :
           /\ L = Len(headers) /\ Header = headers[L] /\ n = Size(headers[L]) /\ m = Len(entries)
           /\ Len(headers') = L + 1 /\ headers' = [h \in 1 .. L + 1 |-> headers'[h]]
           /\ \A h \in 1 .. L : headers'[h] = headers[h]
           /\ headers'[L + 1] = [front |-> n, index |-> [k \in 0 .. 2 * n - 1 |->
                IF k < n THEN headers[L].index[(headers[L].front + 1 + k) % n] ELSE m + 1 + (k - n)]]
           /\ Len(entries') = m + n
           /\ entries' = [x \in 1 .. m + n |-> IF x <= m THEN entries[x]
                            ELSE IF x = m + 1 THEN [base |-> W(p), block |-> 0] ELSE NoEntry]
    BY <2>1, <2>2, Grown
  <2>4. Size(headers'[L + 1]) = z[L + 1]
    <3>1. L \in Nat \ {0} /\ z[L + 1] = 2 * z[L] /\ z[L] = n
      BY <1>1, <2>3 DEF Sizes
    <3>2. DOMAIN headers'[L + 1].index = 0 .. 2 * n - 1
      BY <2>3
    <3> QED
      BY <3>1, <3>2, Doubled DEF Size
  <2>5. \A h \in 1 .. Len(headers') : Size(headers'[h]) = z[h]
    <3> SUFFICES ASSUME NEW h \in 1 .. L + 1 PROVE Size(headers'[h]) = z[h]
      BY <2>3
    <3>1. CASE h = L + 1
      BY <2>4, <3>1
    <3>2. CASE h # L + 1
      <4>1. h \in 1 .. L
        BY <1>1, <2>3, <3>2
      <4> QED
        BY <1>1, <2>3, <4>1
    <3> QED
      BY <3>1, <3>2
  <2>6. Len(headers') \in 1 .. setup.indexes
    <3>1. PICK l \in Nat \ {0}, i \in Nat : l = Len(headers) /\ i = setup.indexes /\ l < i /\ Len(headers') = l + 1
      BY <1>1, <2>1, <2>3
    <3>3. l < i
      BY <3>1
    <3>2. l + 1 \in 1 .. i
      BY ONLY <3>3, l \in Nat \ {0}, i \in Nat
    <3> QED
      BY ONLY <3>1, <3>2
  <2> QED
    BY <2>5, <2>6 DEF Sized, Size
<1> QED
  BY <1>2, <1>3, <1>4

LEMMA SizedRounds ==
  ASSUME NEW z \in [Nat -> Nat], Sizes(z), IndexTypes, Sized(z), setup \in Setups, Implicit
  PROVE  Rounds
<1> SUFFICES ASSUME NEW h \in 1 .. Len(headers) PROVE Wrap % (BLOCK_SIZE * Size(headers[h])) = 0
  BY DEF Rounds
<1>1. Size(headers[h]) = z[h] /\ Len(headers) \in {1} \cup 1 .. setup.indexes /\ setup.indexes \in Nat
  BY SizesAssumption DEF Sized
<1>2. h \in {1} \cup 1 .. setup.indexes
  <2>1. Len(headers) \in Nat
    BY DEF IndexTypes
  <2>2. PICK l \in Nat, i \in Nat : l = Len(headers) /\ i = setup.indexes
    BY <1>1, <2>1
  <2>3. l \in {1} \cup 1 .. i /\ h \in 1 .. l
    BY <1>1, <2>2
  <2>4. h \in {1} \cup 1 .. i
    BY ONLY <2>3, l \in Nat, i \in Nat
  <2> QED
    BY ONLY <2>2, <2>4
<1> QED
  BY <1>1, <1>2 DEF Sizes, Implicit, Wrap

LEMMA SizesStart ==
  ASSUME NEW z \in [Nat -> Nat], Sizes(z), Init, Implicit
  PROVE  Sized(z)
<1>1. PICK n \in Nat \ {0} : n = IndexSize /\ n = FirstSize
  BY SizesAssumption DEF FirstSize, Implicit
<1>2. headers = <<[front |-> n - 1, index |-> [k \in 0 .. n - 1 |-> k + 1]]>>
  BY <1>1 DEF Init, NewHeader, Implicit
<1>3. Len(headers) = 1 /\ DOMAIN headers[1].index = 0 .. n - 1
  BY <1>2
<1>4. Cardinality(0 .. n - 1) = n
  <2>1. 0 \in Int /\ n - 1 \in Int /\ (n - 1) - 0 + 1 = n /\ 0 <= n - 1
    OBVIOUS
  <2> QED
    BY <2>1, FS_Interval
<1>5. Size(headers[1]) = z[1]
  BY <1>1, <1>3, <1>4 DEF Size, Sizes
<1>6. \A h \in 1 .. 1 : h = 1
  OBVIOUS
<1> QED
  BY <1>3, <1>5, <1>6 DEF Sized

LEMMA SizedStays ==
  ASSUME NEW z \in [Nat -> Nat], Sizes(z), QueueInv, ClaimInv, Implicit => Sized(z), [AllNext]_<<part, vars, flvars>>
  PROVE  (Implicit => Sized(z))'
<1>1. ASSUME UNCHANGED vars PROVE (Implicit => Sized(z))'
  <2>1. UNCHANGED <<setup, headers>>
    BY <1>1 DEF vars, index
  <2> QED
    BY <2>1 DEF Implicit, Sized, Size
<1>2. ASSUME Next PROVE (Implicit => Sized(z))'
  <2>1. ClaimTypes /\ setup \in Setups
    BY HeadBelow DEF ClaimTypes
  <2>2. setup' = setup
    BY <1>2, <2>1, SetupStays
  <2> SUFFICES ASSUME Implicit PROVE Sized(z)'
    BY <2>2 DEF Implicit
  <2>3. IndexTypes /\ (Gone \/ \E A, K, C : InUse(A, K, C))
    BY DEF QueueInv
  <2>4. CASE Gone
    BY <1>1, <1>2, <2>2, <2>4, GoneStays DEF Implicit
  <2>5. CASE \E A, K, C : InUse(A, K, C)
    <3>1. pc \in {"idle", "put", "chain", "link", "items", "tail"}
      BY <2>5 DEF InUse, Producing
    <3>2. headers' = headers \/ FrontOnly \/ Grows
      BY <1>2, <3>1, HeadersThen
    <3> QED
      BY <2>1, <2>2, <2>3, <3>2, SizesStay
  <2> QED
    BY <2>3, <2>4, <2>5
<1> QED
  BY <1>1, <1>2 DEF AllNext

LEMMA QueueAlways ==
  ASSUME Asked, Divided
  PROVE  Spec /\ []WithinWords => [](QueueInv /\ ClaimInv)
<1>1. PICK z \in [Nat -> Nat] : Sizes(z)
  BY DEF Divided
<1> DEFINE SizedInv == Implicit => Sized(z)
<1>2. AllInit => QueueInv /\ SizedInv
  BY <1>1, QueueStarts, SizesStart DEF AllInit
<1>3. QueueInv /\ ClaimInv /\ SizedInv => (Implicit => Rounds)
  <2>1. ClaimInv => setup \in Setups
    BY HeadBelow DEF ClaimTypes
  <2> QED
    BY <1>1, <2>1, SizedRounds DEF QueueInv
<1>4. QueueInv /\ ClaimInv /\ SizedInv /\ Below' /\ [AllNext]_<<part, vars, flvars>> => QueueInv'
  BY <1>3, QueueStays
<1>5. QueueInv /\ ClaimInv /\ SizedInv /\ [AllNext]_<<part, vars, flvars>> => SizedInv'
  BY <1>1, SizedStays
<1>6. ClaimInv => Below
  BY HeadBelow
<1>7. Spec /\ []WithinWords => []ClaimInv
  BY ClaimStarts, ClaimStays, PTL DEF Spec
<1> HIDE DEF SizedInv
<1> QED
  BY <1>2, <1>4, <1>5, <1>6, <1>7, PTL DEF Spec

(* Of an implicit producer: a consumer that has found its way to a block   *)
(* is at the block that holds the items it has claimed, though the         *)
(* producer has added entries, used old ones again and made larger indexes *)
(* since it loaded the header (concurrentqueue.h:2766).                    *)
THEOREM ItemsFound ==
  ASSUME Asked, Divided
  PROVE  Spec /\ []WithinWords => [](Implicit => RightItem)
<1>1. QueueInv /\ ClaimInv => (Implicit => RightItem)
  BY QueueSound
<1>2. Spec /\ []WithinWords => [](QueueInv /\ ClaimInv)
  BY QueueAlways
<1> QED
  BY <1>1, <1>2, PTL

(* Of an implicit producer: an item lies in one block until it is          *)
(* dequeued, and no block on the free list, in the pool or not made yet    *)
(* holds any (add_block_to_free_list, concurrentqueue.h:2503).             *)
THEOREM ItemsHoused ==
  ASSUME Asked, Divided
  PROVE  Spec /\ []WithinWords => [](Implicit => OneHome)
<1>1. QueueInv /\ ClaimInv => (Implicit => OneHome)
  BY QueueSound
<1>2. Spec /\ []WithinWords => [](QueueInv /\ ClaimInv)
  BY QueueAlways
<1> QED
  BY <1>1, <1>2, PTL

(* Of an implicit producer: the destructor destroys exactly the items that *)
(* were not dequeued (concurrentqueue.h:2421).                             *)
THEOREM ItemsDestroyed ==
  ASSUME Asked, Divided
  PROVE  Spec /\ []WithinWords => [](Implicit => CleanEnd)
<1>1. QueueInv /\ ClaimInv => (Implicit => CleanEnd)
  BY QueueSound
<1>2. Spec /\ []WithinWords => [](QueueInv /\ ClaimInv)
  BY QueueAlways
<1> QED
  BY <1>1, <1>2, PTL
=============================================================================
