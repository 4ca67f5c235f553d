-------------------------- MODULE ImplicitProducer --------------------------
(***************************************************************************)
(* concurrentqueue.h, ImplicitProducer: the queue of a thread that has no  *)
(* token.  The consumer that empties a block nulls its entry in the block  *)
(* index and gives the block back; a full index is followed by one twice   *)
(* as large that shares its entries.                                       *)
(***************************************************************************)
EXTENDS SubQueue

Implicit == setup.kind = "implicit"

EntryAt(h, k) == h.index[k % Size(h)]
Usable(e)     == entries[e] = NoEntry \/ entries[e].block = 0

\* new_block_index: the old entries from the oldest on, then as many new ones.
TwiceTheIndex ==
  LET n == Size(Header)
      m == Len(entries)
  IN  Append(headers, NewHeader(n - 1, [k \in 0 .. 2 * n - 1 |->
        IF k < n THEN EntryAt(Header, Header.front + 1 + k) ELSE m + 1 + (k - n)]))

\* insert_block_index_entry: the next entry if it is of no use any more, or
\* one of a larger index; its key and the index's tail are set.
NextUsable == Usable(EntryAt(Header, Header.front + 1))
CanInsert(canAlloc) == NextUsable \/ (canAlloc /\ CanGrow)
InsertEntry(base) ==
  LET hs == IF NextUsable THEN headers ELSE TwiceTheIndex
      es == IF NextUsable THEN entries ELSE entries \o [k \in 1 .. Size(Header) |-> NoEntry]
      h  == hs[Len(hs)]
      f  == (h.front + 1) % Size(h)
  IN  /\ headers' = [hs EXCEPT ![Len(hs)].front = f]
      /\ entries' = [es EXCEPT ![h.index[f]].base = W(base)]

\* The newest entry, and the newest n of them given up again.
Newest == EntryAt(Header, Header.front)
GiveUp(n) ==
  /\ headers' = [headers EXCEPT ![Len(headers)].front = (@ - n) % Size(Header)]
  /\ entries' = [e \in DOMAIN entries |->
       IF \E k \in 0 .. n - 1 : e = EntryAt(Header, Header.front - k)
       THEN [entries[e] EXCEPT !.block = 0] ELSE entries[e]]

-----------------------------------------------------------------------------
(* enqueue *)

Begin  == pc = "idle" /\ Implicit /\ tail < setup.items
Stop   == pc' = "idle" /\ job' = NoJob
InTail == Construct(1, [i \in Ahead(1) |-> tailBlock])

Put ==
  /\ Begin /\ tail % BLOCK_SIZE # 0 /\ InTail
  /\ pc' = "tail" /\ job' = [n |-> 1, todo |-> 0]
  /\ UNCHANGED <<setup, tail, head, theirs, emptied, next, pool, free, heap, tailBlock,
                 index, wrecked>>

\* At a boundary, if there is leeway, an entry for a new block ...
PutEntry ==
  /\ Begin /\ tail % BLOCK_SIZE = 0 /\ ~ Full(tail)
  /\ \E m \in BOOLEAN : /\ CanInsert(m) /\ InsertEntry(tail)
                        /\ job' = [n |-> 1, todo |-> 0, canAlloc |-> m]
  /\ pc' = "put"
  /\ UNCHANGED <<setup, tail, head, theirs, blocks, used, front, wrecked>>

\* ... which is rewound if there is no block, ...
PutNoBlock ==
  /\ pc = "put" /\ Requisition(job.canAlloc) = {} /\ GiveUp(1) /\ Stop
  /\ UNCHANGED <<setup, tail, head, theirs, blocks, used, front, wrecked>>

\* ... or if the constructor throws: then the block is freed.
PutThrow ==
  /\ pc = "put" /\ setup.throws
  /\ \E b \in Requisition(job.canAlloc) :
       /\ pool' = pool \ {b} /\ heap' = heap \ {b} /\ free' = free \cup {b}
       /\ ResetEmpty({b})
  /\ GiveUp(1) /\ Stop
  /\ UNCHANGED <<setup, tail, head, theirs, cell, next, tailBlock, used, front, wrecked>>

PutBlock ==
  /\ pc = "put" /\ pc' = "tail"
  /\ \E b \in Requisition(job.canAlloc) :
       /\ TakeBlock(b) /\ ResetEmpty({b})
       /\ Construct(1, [i \in Ahead(1) |-> b])
       /\ entries' = [entries EXCEPT ![Newest].block = b] /\ tailBlock' = b
  /\ UNCHANGED <<setup, tail, head, theirs, next, headers, used, front, job, wrecked>>

-----------------------------------------------------------------------------
(* enqueue_bulk: the blocks reserved are chained by next. *)

PutBulk ==
  /\ Begin
  /\ \E n \in setup.bulks, m \in BOOLEAN :
       LET todo == (Base(tail + n - 1) - Base(tail - 1)) \div BLOCK_SIZE IN
       /\ tail + n <= setup.items
       /\ job' = [n |-> n, canAlloc |-> m, todo |-> todo, base |-> Base(tail - 1),
                  first |-> 0, start |-> tailBlock, got |-> 0]
       /\ pc' = IF todo = 0 THEN "items" ELSE "chain"
  /\ UNCHANGED <<setup, tail, head, theirs, blocks, index, wrecked>>

Chain == {After(job.first, k) : k \in 0 .. job.got - 1}

\* What a bulk that fails gives up: n entries, and all it has reserved.
GiveUpBulk(n) ==
  GiveUp(n) /\ free' = free \cup Chain /\ tailBlock' = job.start /\ Stop

\* No leeway or no entry ...
BulkNoEntry ==
  /\ pc = "chain" /\ (Full(job.base + BLOCK_SIZE) \/ ~ CanInsert(job.canAlloc))
  /\ GiveUpBulk(job.got)
  /\ UNCHANGED <<setup, tail, head, theirs, cell, emptied, next, pool, heap, used, front, wrecked>>

BulkEntry ==
  /\ pc = "chain" /\ ~ Full(job.base + BLOCK_SIZE) /\ CanInsert(job.canAlloc)
  /\ InsertEntry(job.base + BLOCK_SIZE) /\ pc' = "link"
  /\ UNCHANGED <<setup, tail, head, theirs, blocks, used, front, job, wrecked>>

\* ... or no block, ...
ChainNoBlock ==
  /\ pc = "link" /\ Requisition(job.canAlloc) = {} /\ GiveUpBulk(job.got + 1)
  /\ UNCHANGED <<setup, tail, head, theirs, cell, emptied, next, pool, heap, used, front, wrecked>>

\* ... or one more for the chain.
ChainBlock ==
  /\ pc = "link"
  /\ \E b \in Requisition(job.canAlloc) :
       /\ TakeBlock(b) /\ ResetEmpty({b})
       /\ entries' = [entries EXCEPT ![Newest].block = b] /\ tailBlock' = b
       /\ next' = IF tail % BLOCK_SIZE # 0 \/ job.first # 0
                  THEN [next EXCEPT ![b] = 0, ![tailBlock] = b] ELSE [next EXCEPT ![b] = 0]
       /\ job' = [job EXCEPT !.todo = @ - 1, !.base = @ + BLOCK_SIZE, !.got = @ + 1,
                             !.first = IF @ = 0 THEN b ELSE @]
  /\ pc' = IF job.todo = 1 THEN "items" ELSE "chain"
  /\ UNCHANGED <<setup, tail, head, theirs, cell, headers, used, front, wrecked>>

\* The block of the item at i: the start block is followed by the first.
ChainAt(i) ==
  IF tail % BLOCK_SIZE = 0 THEN After(job.first, (i - tail) \div BLOCK_SIZE)
  ELSE IF Base(i) = Base(tail) THEN job.start
  ELSE After(job.first, (Base(i) - Base(tail)) \div BLOCK_SIZE - 1)

BulkItems ==
  /\ pc = "items"
  /\ \/ Construct(job.n, [i \in Ahead(job.n) |-> ChainAt(i)]) /\ pc' = "tail" /\ UNCHANGED <<free, tailBlock, headers, entries, job>>
     \/ setup.throws /\ GiveUpBulk(job.got) /\ UNCHANGED cell
  /\ UNCHANGED <<setup, tail, head, theirs, emptied, next, pool, heap, used, front, wrecked>>

-----------------------------------------------------------------------------
(* ~ImplicitProducer: the items from head to tail by their entries; the    *)
(* blocks passed, and the tail block unless a consumer has freed it.       *)

EntryFor(i) == Header.index[Locate(Header, Header.front, i)]

DestroyImplicit ==
  /\ pc = "idle" /\ Implicit /\ wrecked = "none" /\ \A c \in Consumers : at[c] = "idle"
  /\ LET here == {<<entries[EntryFor(i)].block, i % BLOCK_SIZE>> : i \in head .. tail - 1}
     IN  /\ cell' = [b \in Blocks |-> [o \in Offsets |->
                      IF <<b, o>> \in here THEN 0 ELSE cell[b][o]]]
         /\ wrecked' = IF \A x \in here : x[1] # 0 /\ cell[x[1]][x[2]] # 0
                       THEN "gone" ELSE "wrecked"
         /\ free' = free \cup {x[1] : x \in here}
                    \cup (IF tailBlock # 0 /\ (head # tail \/ tail % BLOCK_SIZE # 0)
                          THEN {tailBlock} ELSE {})
  /\ pc' = "gone" /\ tailBlock' = 0
  /\ UNCHANGED <<setup, tail, head, theirs, emptied, next, pool, heap, index, job>>

DequeueImplicit(c) == Implicit /\ Dequeue(c)

ProduceImplicit ==
  \/ Put \/ PutEntry \/ PutNoBlock \/ PutThrow \/ PutBlock
  \/ PutBulk \/ BulkNoEntry \/ BulkEntry \/ ChainNoBlock \/ ChainBlock \/ BulkItems
=============================================================================
