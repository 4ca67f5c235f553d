-------------------------- MODULE ExplicitProducer --------------------------
(***************************************************************************)
(* concurrentqueue.h, ExplicitProducer: the queue behind a ProducerToken.  *)
(* Its blocks form a ring that it keeps until it is destroyed; an empty    *)
(* block ahead of tailBlock is used again.  The block index is a circular  *)
(* array with the base and block of every block in use.                    *)
(***************************************************************************)
EXTENDS SubQueue

Explicit == setup.kind = "explicit"
Room     == used < Size(Header)

NewBlockIndexFlat(exposed) ==   \* a slip: copied from the start, not from the oldest
  LET n == Size(Header)
      m == Len(entries)
  IN  [headers |-> Append(headers, NewHeader(exposed - 1, [k \in 0 .. 2 * n - 1 |-> m + k + 1])),
       entries |-> entries \o [k \in 1 .. 2 * n |->
                     IF k <= used THEN entries[Header.index[k - 1]] ELSE NoEntry],
       front   |-> used]

\* new_block_index: twice the size, with the entries in use copied to its
\* start; the front is what consumers look from.
NewBlockIndex(exposed) ==
  LET n == Size(Header)
      m == Len(entries)
  IN  [headers |-> Append(headers, NewHeader(exposed - 1, [k \in 0 .. 2 * n - 1 |-> m + k + 1])),
       entries |-> entries \o [k \in 1 .. 2 * n |->
                     IF k <= used THEN entries[Header.index[(front - used + k - 1) % n]]
                     ELSE NoEntry],
       front   |-> used]
SameIndex == [headers |-> headers, entries |-> entries, front |-> front]

\* A new block after tailBlock in the ring.
Insert(b) == next' = IF tailBlock = 0 THEN [next EXCEPT ![b] = b]
                     ELSE [next EXCEPT ![b] = next[tailBlock], ![tailBlock] = b]

\* The entry at the producer's front.
SetEntry(x, base, b) ==
  [x.entries EXCEPT ![x.headers[Len(x.headers)].index[x.front]] = [base |-> W(base), block |-> b]]

-----------------------------------------------------------------------------
(* enqueue *)

Idle == pc = "idle" /\ Explicit /\ tail < setup.items
One  == [n |-> 1, todo |-> 0, first |-> 0]
CanReuseHalf ==   \* a slip: a block that some consumer has begun to empty
  tailBlock # 0 /\ emptied[next[tailBlock]] # {}
CanReuse == tailBlock # 0 /\ IsEmpty(next[tailBlock])
AtBoundary == tail % BLOCK_SIZE = 0
Write(b) == Construct(1, [i \in Ahead(1) |-> b])

Enqueue ==
  /\ Idle /\ ~ AtBoundary /\ Write(tailBlock) /\ pc' = "tail" /\ job' = One
  /\ UNCHANGED <<setup, tail, head, theirs, emptied, next, pool, free, heap, tailBlock,
                 index, wrecked>>

\* At a boundary the block ahead is used again ...
EnqueueReuse ==
  LET b == next[tailBlock] IN
  /\ Idle /\ AtBoundary /\ CanReuse
  /\ ResetEmpty({b})
  /\ \/ tailBlock' = b /\ Write(b) /\ pc' = "entry" /\ job' = One
     \/ setup.throws /\ UNCHANGED <<tailBlock, cell, pc, job>>
  /\ UNCHANGED <<setup, tail, head, theirs, next, pool, free, heap, index, wrecked>>

\* ... or, if there is leeway, and room in an index, a new block inserted.
EnqueueGrow ==
  /\ Idle /\ AtBoundary /\ ~ CanReuse /\ ~ Full(tail)
  /\ \/ Room /\ UNCHANGED index
     \/ /\ ~ Room /\ CanGrow
        /\ LET x == NewBlockIndex(used)
           IN  headers' = x.headers /\ entries' = x.entries /\ front' = x.front
        /\ UNCHANGED used
  /\ pc' = "alloc" /\ job' \in {[n |-> 1, todo |-> 0, first |-> 0, canAlloc |-> m] :
                                m \in IF Room THEN BOOLEAN ELSE {TRUE}}
  /\ UNCHANGED <<setup, tail, head, theirs, blocks, wrecked>>

\* A constructor that throws leaves the new block in the ring.
EnqueueBlock ==
  /\ pc = "alloc" /\ Explicit
  /\ \E b \in Requisition(job.canAlloc) :
       /\ TakeBlock(b) /\ Insert(b) /\ ResetEmpty({b})
       /\ \/ /\ tailBlock' = b /\ used' = used + 1 /\ Write(b) /\ pc' = "entry" /\ job' = One
          \/ /\ setup.throws /\ tailBlock' = (IF tailBlock = 0 THEN b ELSE tailBlock)
             /\ pc' = "idle" /\ job' = NoJob /\ UNCHANGED <<used, cell>>
  /\ UNCHANGED <<setup, tail, head, theirs, headers, entries, front, wrecked>>

\* return false; the other refusals of enqueue change nothing at all.
EnqueueRefused ==
  /\ pc = "alloc" /\ Explicit /\ Requisition(job.canAlloc) = {}
  /\ pc' = "idle" /\ job' = NoJob
  /\ UNCHANGED <<setup, tail, head, theirs, blocks, index, wrecked>>

\* The entry of the block, then the front that consumers look from.
AddEntry ==
  /\ pc = "entry" /\ pc' = "front" /\ entries' = SetEntry(SameIndex, tail, tailBlock)
  /\ UNCHANGED <<setup, tail, head, theirs, blocks, headers, used, front, job, wrecked>>

SetFront ==
  /\ pc = "front" /\ pc' = "tail" /\ front' = (front + 1) % Size(Header)
  /\ headers' = [headers EXCEPT ![Len(headers)].front = front]
  /\ UNCHANGED <<setup, tail, head, theirs, blocks, entries, used, job, wrecked>>

-----------------------------------------------------------------------------
(* enqueue_bulk: blocks for all the items first, then the items. *)

BulkEnqueue ==
  /\ Idle
  /\ \E n \in setup.bulks, m \in BOOLEAN :
       LET todo == (Base(tail + n - 1) - Base(tail - 1)) \div BLOCK_SIZE IN
       /\ tail + n <= setup.items
       /\ job' = [n |-> n, canAlloc |-> m, todo |-> todo, base |-> Base(tail - 1), first |-> 0,
                  start |-> tailBlock, front |-> front, used |-> used]
       /\ pc' = IF todo = 0 THEN "fill" ELSE "ahead"
  /\ UNCHANGED <<setup, tail, head, theirs, blocks, index, wrecked>>

First(b)  == IF job.first = 0 THEN b ELSE job.first
NextJob(b) == [job EXCEPT !.todo = @ - 1, !.base = @ + BLOCK_SIZE, !.first = First(b)]

CanReuseAhead == CanReuse /\ next[tailBlock] # job.first
MoreAhead == pc = "ahead" /\ job.todo > 0 /\ CanReuseAhead

\* The empty blocks ahead, ...
BulkReuse ==
  LET b == next[tailBlock] IN
  /\ MoreAhead /\ tailBlock' = b
  /\ entries' = SetEntry(SameIndex, job.base + BLOCK_SIZE, b)
  /\ front' = (front + 1) % Size(Header) /\ job' = NextJob(b)
  /\ UNCHANGED <<setup, tail, head, theirs, cell, emptied, next, pool, free, heap,
                 headers, used, pc, wrecked>>

\* What a bulk that fails puts back; the blocks it inserted stay.
UndoTo(f) ==
  /\ front' = f /\ used' = job.used
  /\ tailBlock' = (IF job.start = 0 THEN job.first ELSE job.start)
  /\ pc' = "idle" /\ job' = NoJob

\* ... then new ones, and room for them in the index.
MoreNew    == pc \in {"ahead", "more"} /\ Explicit /\ job.todo > 0 /\ ~ MoreAhead
NoRoom     == Full(job.base + BLOCK_SIZE) \/ (~ Room /\ ~ (job.canAlloc /\ CanGrow))
RoomyIndex == IF Room THEN SameIndex ELSE NewBlockIndex(job.used)
Fallback   == IF Room THEN job.front ELSE job.used

BulkNoRoom ==
  /\ MoreNew /\ NoRoom /\ UndoTo(job.front)
  /\ UNCHANGED <<setup, tail, head, theirs, cell, emptied, next, pool, free, heap,
                 headers, entries, wrecked>>

BulkNoBlock ==
  /\ MoreNew /\ ~ NoRoom /\ Requisition(job.canAlloc) = {} /\ UndoTo(Fallback)
  /\ headers' = RoomyIndex.headers /\ entries' = RoomyIndex.entries
  /\ UNCHANGED <<setup, tail, head, theirs, cell, emptied, next, pool, free, heap, wrecked>>

BulkBlock ==
  /\ MoreNew /\ ~ NoRoom
  /\ \E b \in Requisition(job.canAlloc) :
       /\ TakeBlock(b) /\ Insert(b) /\ tailBlock' = b
       /\ SetAllEmpty(b)
       /\ entries' = SetEntry(RoomyIndex, job.base + BLOCK_SIZE, b)
       /\ job' = [NextJob(b) EXCEPT !.front = Fallback]
  /\ headers' = RoomyIndex.headers /\ used' = used + 1
  /\ front' = (RoomyIndex.front + 1) % Size(headers'[Len(headers')])
  /\ pc' = "more"
  /\ UNCHANGED <<setup, tail, head, theirs, cell, wrecked>>

\* The blocks reserved; the block of the item at i.
Reserved == {b \in Blocks : \E k \in 0 .. Cardinality(Blocks) :
               /\ After(job.first, k) = b
               /\ \A j \in 0 .. k - 1 : After(job.first, j) # tailBlock}
BlockAt(i) == IF tail % BLOCK_SIZE = 0 THEN After(job.first, (i - tail) \div BLOCK_SIZE)
              ELSE IF Base(i) = Base(tail) THEN job.start
              ELSE After(job.first, (Base(i) - Base(tail)) \div BLOCK_SIZE - 1)

\* All of them are reset; the front is stored, unless a constructor may throw.
BulkReset ==
  /\ pc \in {"ahead", "more"} /\ Explicit /\ job.todo = 0 /\ pc' = "fill"
  /\ ResetEmpty(Reserved)
  /\ headers' = IF setup.throws THEN headers
                ELSE [headers EXCEPT ![Len(headers)].front = (front - 1) % Size(Header)]
  /\ UNCHANGED <<setup, tail, head, theirs, cell, next, pool, free, heap, tailBlock,
                 entries, used, front, job, wrecked>>

\* The items; those constructed before one throws are destroyed again.
BulkFill ==
  /\ pc = "fill" /\ Explicit
  /\ \/ /\ Construct(job.n, [i \in Ahead(job.n) |-> BlockAt(i)]) /\ pc' = IF setup.throws /\ job.first # 0
                                              THEN "publish" ELSE "tail"
        /\ UNCHANGED <<tailBlock, used, front, job>>
     \/ setup.throws /\ UndoTo(job.front) /\ UNCHANGED cell
  /\ UNCHANGED <<setup, tail, head, theirs, emptied, next, pool, free, heap,
                 headers, entries, wrecked>>

BulkFront ==
  /\ pc = "publish" /\ pc' = "tail"
  /\ headers' = [headers EXCEPT ![Len(headers)].front = (front - 1) % Size(Header)]
  /\ UNCHANGED <<setup, tail, head, theirs, blocks, entries, used, front, job, wrecked>>

-----------------------------------------------------------------------------
(* ~ExplicitProducer *)

Ring == {After(tailBlock, k) : k \in 0 .. Cardinality(Blocks)}

HalfDequeuedNot ==   \* a slip: the block is not looked for
  0

\* The block head is inside of, found by a walk over the index.
HalfDequeued ==
  LET slot(k) == entries[Header.index[(front - used + k) % Size(Header)]]
      past(k) == ~ Less(slot(k).base + BLOCK_SIZE, head)
      steps   == 0 .. Size(Header) - 1
  IN  IF head % BLOCK_SIZE = 0 THEN 0
      ELSE slot(CHOOSE k \in steps : past(k) /\ \A j \in steps : past(j) => k <= j).block

\* What it takes for items that are still there, ...
Destroyed(b) ==
  IF IsEmpty(b) THEN {}
  ELSE (IF b = HalfDequeued THEN head % BLOCK_SIZE ELSE 0)
       .. (IF b = tailBlock /\ tail % BLOCK_SIZE # 0 THEN tail % BLOCK_SIZE ELSE BLOCK_SIZE) - 1

\* ... when nobody uses the queue any more.  A block of the pool is freed.
DestroyExplicit ==
  /\ pc = "idle" /\ Explicit /\ wrecked = "none" /\ \A c \in Consumers : at[c] = "idle"
  /\ LET ring == IF tailBlock = 0 THEN {} ELSE Ring
         here == {x \in ring \X Offsets : x[2] \in Destroyed(x[1])}
     IN  /\ cell' = [b \in Blocks |-> [o \in Offsets |->
                      IF <<b, o>> \in here THEN 0 ELSE cell[b][o]]]
         /\ wrecked' = IF \A x \in here : cell[x[1]][x[2]] # 0 THEN "gone" ELSE "wrecked"
         /\ free' = free \cup {b \in ring : b <= setup.pool}
         /\ heap' = heap \cup {b \in ring : b > setup.pool}
  /\ pc' = "gone" /\ tailBlock' = 0
  /\ UNCHANGED <<setup, tail, head, theirs, emptied, next, pool, index, job>>

DequeueExplicit(c) == Explicit /\ Dequeue(c)

ProduceExplicit ==
  \/ Enqueue \/ EnqueueReuse \/ EnqueueGrow \/ EnqueueBlock \/ EnqueueRefused
  \/ AddEntry \/ SetFront
  \/ BulkEnqueue \/ BulkReuse \/ BulkNoRoom \/ BulkNoBlock \/ BulkBlock \/ BulkReset
  \/ BulkFill \/ BulkFront
=============================================================================
