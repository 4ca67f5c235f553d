------------------------------ MODULE SubQueue ------------------------------
(***************************************************************************)
(* src/src/concurrentqueue/concurrentqueue.h: the queue of one producer of *)
(* a ConcurrentQueue, which every consumer takes from.  Here are what the  *)
(* two kinds of it share (ProducerBase, Block, requisition_block, dequeue  *)
(* and dequeue_bulk); ExplicitProducer and ImplicitProducer add theirs.    *)
(*                                                                         *)
(* tail and head count from the start; whatever the code computes from     *)
(* them it computes on W(..), a word of Wrap values, which is how it keeps *)
(* dequeueOptimisticCount, dequeueOvercommit and the bases of the blocks.  *)
(* An item is the count at which it was put in, from 1 on.  A load, a      *)
(* store and a read-modify-write of what two threads share is a step, and  *)
(* memory is sequentially consistent.                                      *)
(***************************************************************************)
EXTENDS Sums, Integers, Sequences

CONSTANTS
  BLOCK_SIZE,
  IndexSize,  \* EXPLICIT_INITIAL_INDEX_SIZE, IMPLICIT_INITIAL_INDEX_SIZE
  Setups      \* the queues and the memory to run with: records of
              \*   kind     "explicit" or "implicit"
              \*   wrap     the number of values of an index_t
              \*   pool     the blocks of the initial pool
              \*   heap     how many more can be allocated
              \*   indexes  how many block indexes can be allocated
              \*   limit    MAX_SUBQUEUE_SIZE, or NoLimit
              \*   throws   the constructor of an item may throw
              \*   bulks    the counts that enqueue_bulk is called with
              \*   items    how many items are put in (a bound)
              \*   callers  how many threads dequeue
              \*   wants    how many items they ask for: 1 is dequeue

ASSUME SetupsAssumption ==
  \A s \in Setups : s.wrap \in Nat \ {0} /\ s.callers \in Nat /\ s.wants \cup s.bulks \subseteq Nat

ASSUME SizesAssumption ==
  /\ BLOCK_SIZE \in Nat \ {0} /\ IndexSize \in Nat \ {0}
  /\ \A s \in Setups : s.pool \in Nat /\ s.heap \in Nat /\ s.indexes \in Nat

VARIABLES
  setup,
  tail, head,      \* tailIndex, headIndex
  opt, over,       \* dequeueOptimisticCount, dequeueOvercommit
  cell, emptied,   \* of a block: its elements, and those set empty
  next,            \* of a block: the next one
  pool, free, heap,   \* blocks: of the initial pool, the free list, not made
  tailBlock,       \* 0 for none
  headers,         \* the block indexes, the one in use last
  entries,         \* the entries the indexes point to
  used, front,     \* pr_blockIndexSlotsUsed, pr_blockIndexFront
  pc, job,         \* the producer's
  at, my,          \* the consumers'
  wrecked          \* what a destructor destroyed that was no item; "gone" at the end

blocks == <<cell, emptied, next, pool, free, heap, tailBlock>>
index  == <<headers, entries, used, front>>
theirs == <<opt, over, at, my>>
vars   == <<setup, tail, head, theirs, blocks, index, pc, job, wrecked>>

Consumers == 1 .. setup.callers
Blocks  == 1 .. setup.pool + setup.heap
Offsets == 0 .. BLOCK_SIZE - 1
NoLimit == -1
Wrap    == setup.wrap
W(x)    == x % Wrap
Base(i) == i - (i % BLOCK_SIZE)

\* circular_less_than
Less(a, b) == W(a - b) > Wrap \div 2
Some(n)    == Less(0, n)

NoEntry == [base |-> 1, block |-> 0]   \* INVALID_BLOCK_BASE
NoJob   == [n |-> 0, todo |-> 0]
NoCall  == [want |-> 0]

NewHeader(f, ids) == [front |-> f, index |-> ids]

\* The size of the first index, which the constructor makes.
FirstSize ==
  IF setup.kind = "implicit" THEN IndexSize
  ELSE CHOOSE n \in {2 ^ k : k \in 0 .. setup.pool + IndexSize} :
         /\ n >= IndexSize /\ n >= setup.pool
         /\ n = IndexSize \/ n < 2 * setup.pool

Init ==
  /\ setup \in Setups
  /\ tail = 0 /\ head = 0 /\ opt = 0 /\ over = 0
  /\ cell = [b \in Blocks |-> [o \in Offsets |-> 0]]
  /\ emptied = [b \in Blocks |-> {}] /\ next = [b \in Blocks |-> 0]
  /\ pool = 1 .. setup.pool /\ free = {} /\ heap = Blocks \ pool /\ tailBlock = 0
  /\ headers = <<NewHeader(IF setup.kind = "explicit" THEN -1 ELSE FirstSize - 1,
                           [k \in 0 .. FirstSize - 1 |-> k + 1])>>
  /\ entries = [k \in 1 .. FirstSize |-> NoEntry]
  /\ used = 0 /\ front = 0
  /\ pc = "idle" /\ job = NoJob
  /\ at = [c \in Consumers |-> "idle"] /\ my = [c \in Consumers |-> NoCall]
  /\ wrecked = "none"

-----------------------------------------------------------------------------
(* Blocks *)

\* is_empty: every flag is set, or the counter stands at BLOCK_SIZE.
IsEmpty(b) == emptied[b] = Offsets

\* The other four of Block: set_empty is set_many_empty of one.
ResetEmpty(bs)     == emptied' = [b \in Blocks |-> IF b \in bs THEN {} ELSE emptied[b]]
SetAllEmpty(b)     == emptied' = [emptied EXCEPT ![b] = Offsets]
SetManyEmpty(b, S) == emptied' = [emptied EXCEPT ![b] = @ \cup S]

\* The k-th block after b.
After(b, k) ==
  LET nth[j \in 0 .. k] == IF j = 0 THEN b ELSE next[nth[j - 1]] IN nth[k]

\* requisition_block: from the initial pool, the free list, or new.
Requisition(canAlloc) ==
  LET first(S) == {b \in S : \A c \in S : b <= c}
  IN  IF pool # {} THEN first(pool) ELSE IF free # {} THEN free
      ELSE IF canAlloc THEN first(heap) ELSE {}

TakeBlock(b) == pool' = pool \ {b} /\ free' = free \ {b} /\ heap' = heap \ {b}

\* There is no leeway for the block at i, or it would exceed the limit.
Full(i) ==
  \/ ~ Less(head, i + BLOCK_SIZE)
  \/ setup.limit # NoLimit /\ \/ setup.limit = 0
                              \/ setup.limit - BLOCK_SIZE < W(i - head)

\* The index in use; how long it is.
Header == headers[Len(headers)]
Size(h) == Cardinality(DOMAIN h.index)
CanGrow == Len(headers) < setup.indexes

\* The next n indexes.
Ahead(n) == tail .. tail + n - 1

\* Items tail + 1 .. tail + n written to the blocks that blockOf maps to.
Construct(n, blockOf) ==
  cell' = [b \in Blocks |-> [o \in Offsets |->
    IF \E i \in Ahead(n) : blockOf[i] = b /\ i % BLOCK_SIZE = o
    THEN 1 + CHOOSE i \in Ahead(n) : blockOf[i] = b /\ i % BLOCK_SIZE = o
    ELSE cell[b][o]]]

\* The end of enqueue and enqueue_bulk: the items are visible.
Publish ==
  /\ pc = "tail" /\ tail' = tail + job.n /\ pc' = "idle" /\ job' = NoJob
  /\ UNCHANGED <<setup, head, theirs, blocks, index, wrecked>>

-----------------------------------------------------------------------------
(* dequeue and dequeue_bulk: a claim on the items, its settlement, and the *)
(* way from an index to its block.                                         *)

Go(c, from, to) == at[c] = from /\ at' = [at EXCEPT ![c] = to]
Fields(c, r)    == my' = [my EXCEPT ![c] = r]
Done(c)         == at' = [at EXCEPT ![c] = "idle"] /\ my' = [my EXCEPT ![c] = NoCall]
Shared          == <<setup, tail, next, pool, heap, tailBlock, index, pc, job, wrecked>>

\* The load of tail, ...
Call(c) ==
  /\ Go(c, "idle", "call") /\ \E w \in setup.wants : Fields(c, [want |-> w, tail |-> W(tail)])
  /\ UNCHANGED <<Shared, head, opt, over, cell, emptied, free>>

\* ... of the overcommit, ...
Look(c) ==
  /\ Go(c, "call", "look") /\ Fields(c, [want |-> my[c].want, tail |-> my[c].tail, over |-> over])
  /\ UNCHANGED <<Shared, head, opt, over, cell, emptied, free>>

\* ... of the optimistic count: there may be something, or there is not, ...
Want(c) ==
  LET there == W(my[c].tail - (opt - my[c].over))
      n     == IF there < my[c].want THEN there ELSE my[c].want
  IN  /\ at[c] = "look"
      /\ IF Some(there) THEN Go(c, "look", "claim") /\ Fields(c, [over |-> my[c].over, n |-> n])
                        ELSE Done(c)
      /\ UNCHANGED <<Shared, head, opt, over, cell, emptied, free>>

\* ... the fetch_add that claims n items, ...
Claim(c) ==
  /\ Go(c, "claim", "check") /\ opt' = W(opt + my[c].n)
  /\ Fields(c, [first |-> W(opt - my[c].over), n |-> my[c].n])
  /\ UNCHANGED <<Shared, head, over, cell, emptied, free>>

CheckBlind(c) ==   \* a slip: no second look at the tail
  /\ Go(c, "check", "take") /\ Fields(c, [n |-> my[c].n])
  /\ UNCHANGED <<Shared, head, opt, over, cell, emptied, free>>

\* ... and the second load of tail, which says how many of them there are.
Check(c) ==
  LET there == W(tail - my[c].first)
      n     == IF ~ Some(there) THEN 0 ELSE IF there < my[c].n THEN there ELSE my[c].n
  IN  /\ Go(c, "check", IF n < my[c].n THEN "settle" ELSE "take")
      /\ Fields(c, [n |-> n, extra |-> my[c].n - n])
      /\ UNCHANGED <<Shared, head, opt, over, cell, emptied, free>>

SettleNot(c) ==   \* a slip: the overcommitted claim is forgotten
  /\ at[c] = "settle"
  /\ IF my[c].n = 0 THEN Done(c) ELSE Go(c, "settle", "take") /\ UNCHANGED my
  /\ UNCHANGED <<Shared, head, opt, over, cell, emptied, free>>

\* What was claimed in vain is added to the overcommit.
Settle(c) ==
  /\ at[c] = "settle" /\ over' = W(over + my[c].extra)
  /\ IF my[c].n = 0 THEN Done(c) ELSE Go(c, "settle", "take") /\ UNCHANGED my
  /\ UNCHANGED <<Shared, head, opt, cell, emptied, free>>

\* The items are this call's: those from index to end.
Take(c) ==
  /\ Go(c, "take", "header") /\ head' = head + my[c].n
  /\ Fields(c, [index |-> head, end |-> head + my[c].n])
  /\ UNCHANGED <<Shared, opt, over, cell, emptied, free>>

\* The block of an index: the loads of the header, of its front, ...
LoadHeader(c) ==
  /\ Go(c, "header", "front")
  /\ Fields(c, [index |-> my[c].index, end |-> my[c].end, header |-> Len(headers)])
  /\ UNCHANGED <<Shared, head, opt, over, cell, emptied, free>>

LoadFront(c) ==
  /\ Go(c, "front", "base")
  /\ Fields(c, [index |-> my[c].index, end |-> my[c].end, header |-> my[c].header,
                slot |-> headers[my[c].header].front])
  /\ UNCHANGED <<Shared, head, opt, over, cell, emptied, free>>

\* ... and of the base there.  BLOCK_SIZE is unsigned, and so is the division.
Locate(h, f, i) ==
  (f + W(Base(i) - entries[h.index[f]].base) \div BLOCK_SIZE) % Size(h)

LoadBase(c) ==
  LET h == headers[my[c].header]
  IN  /\ Go(c, "base", "block")
      /\ my' = [my EXCEPT ![c].slot = Locate(h, my[c].slot, my[c].index)]
      /\ UNCHANGED <<Shared, head, opt, over, cell, emptied, free>>

\* The entry and the block a consumer is about to read from.
EntryOf(c) == headers[my[c].header].index[my[c].slot]
BlockOf(c) == entries[EntryOf(c)].block

\* Its items in this block, ...
Last(c)    == IF my[c].end < Base(my[c].index) + BLOCK_SIZE THEN my[c].end
              ELSE Base(my[c].index) + BLOCK_SIZE
Mine(c)    == {i % BLOCK_SIZE : i \in my[c].index .. Last(c) - 1}

\* ... and the next block, if it has items there.
NextBlock(c) ==
  IF Last(c) = my[c].end THEN Done(c)
  ELSE /\ at' = [at EXCEPT ![c] = "block"]
       /\ Fields(c, [index |-> Last(c), end |-> my[c].end, header |-> my[c].header,
                     slot |-> (my[c].slot + 1) % Size(headers[my[c].header])])

\* Each is moved from, or its destructor runs at least; then set_many_empty.
\* An implicit producer's block that is all empty goes to the free list.
Read(c) ==
  LET b == BlockOf(c) IN
  /\ at[c] = "block"
  /\ cell' = [cell EXCEPT ![b] = [o \in Offsets |-> IF o \in Mine(c) THEN 0 ELSE @[o]]]
  /\ SetManyEmpty(b, Mine(c))
  /\ IF setup.kind = "implicit" /\ emptied'[b] = Offsets
     THEN /\ at' = [at EXCEPT ![c] = "forget"]
          /\ Fields(c, [index |-> my[c].index, end |-> my[c].end, header |-> my[c].header,
                        slot |-> my[c].slot, block |-> b])
     ELSE NextBlock(c)
  /\ UNCHANGED <<Shared, head, opt, over, free>>

\* The entry is nulled first, then the block added to the free list.
Forget(c) ==
  /\ Go(c, "forget", "release") /\ entries' = [entries EXCEPT ![EntryOf(c)].block = 0]
  /\ UNCHANGED <<setup, tail, head, opt, over, my, blocks, headers, used, front, pc, job, wrecked>>

Release(c) ==
  /\ at[c] = "release" /\ free' = free \cup {my[c].block} /\ NextBlock(c)
  /\ UNCHANGED <<Shared, head, opt, over, cell, emptied>>

Dequeue(c) ==
  \/ Call(c) \/ Look(c) \/ Want(c) \/ Claim(c) \/ Check(c) \/ Settle(c) \/ Take(c)
  \/ LoadHeader(c) \/ LoadFront(c) \/ LoadBase(c) \/ Read(c) \/ Forget(c) \/ Release(c)
-----------------------------------------------------------------------------
(* Properties *)

TypeOK ==
  /\ setup \in Setups /\ tail \in 0 .. setup.items /\ head \in 0 .. setup.items
  /\ opt \in 0 .. Wrap - 1 /\ over \in 0 .. Wrap - 1
  /\ cell \in [Blocks -> [Offsets -> 0 .. setup.items]]
  /\ emptied \in [Blocks -> SUBSET Offsets] /\ next \in [Blocks -> Blocks \cup {0}]
  /\ pool \subseteq Blocks /\ free \subseteq Blocks /\ heap \subseteq Blocks
  /\ tailBlock \in Blocks \cup {0}

(* A consumer that has found its way to a block is at the block that holds *)
(* the items it has claimed, however much the producer has added to the    *)
(* index, replaced it, or used it over, since it loaded the front.         *)
RightItem ==
  \A c \in Consumers : at[c] = "block" =>
    /\ BlockOf(c) # 0
    /\ \A i \in my[c].index .. Last(c) - 1 :
         /\ cell[BlockOf(c)][i % BLOCK_SIZE] = i + 1
         /\ i % BLOCK_SIZE \notin emptied[BlockOf(c)]

(* "Note that since there's guaranteed to be at least one element, this    *)
(* will never exceed tail": what consumers have claimed and not yet given  *)
(* up never exceeds what is there, and the optimistic count less the       *)
(* overcommit is the head but for the calls under way.                     *)
Claimed(c) == IF at[c] \in {"check", "take"} THEN my[c].n
              ELSE IF at[c] = "settle" THEN my[c].n + my[c].extra ELSE 0
Sure(c)    == IF at[c] \in {"settle", "take"} THEN my[c].n ELSE 0
AllClaimed == Total([c \in Consumers |-> Claimed(c)])
AllSure    == Total([c \in Consumers |-> Sure(c)])
NeverPastTail == head + AllSure <= tail /\ W(opt - over) = W(head + AllClaimed)

\* How far apart the counts may be for words to tell which is ahead: the queue
\* is not as long as the words' range; and what is claimed, and overcommitted
\* since a consumer that claims has looked, is not half of it past the tail.
WithinWords ==
  /\ tail - head < Wrap
  /\ \A c \in Consumers :
       at[c] = "claim" => head + AllClaimed + W(over - my[c].over) <= tail + Wrap \div 2

(* An item lies in one block from its construction to its dequeue: a block *)
(* that is free, not made or counts as empty holds none.                   *)
Live(b) == \E o \in Offsets : cell[b][o] # 0
OneHome ==
  /\ \A b \in pool \cup free \cup heap : ~ Live(b) /\ b \notin (pool \cap free) \cup (free \cap heap)
  /\ \A b \in Blocks : \A o \in emptied[b] : cell[b][o] = 0
  /\ pc = "gone" \/ \A i \in head .. tail - 1 : \E b \in Blocks : cell[b][i % BLOCK_SIZE] = i + 1

(* The destructor destroys exactly the items that were not dequeued.       *)
CleanEnd == pc = "gone" => wrecked = "gone" /\ \A b \in Blocks : ~ Live(b)

(* Whatever consumers have claimed in vain, one that goes on alone finds   *)
(* every item.  (Two that go on can each spoil the claim of the other for  *)
(* ever: both have loaded the overcommit before the other adds to it.)     *)
Alone  == \A c \in Consumers \ {1} : at[c] = "idle"
Drains == <>[]Alone => []<>(head = tail \/ pc = "gone")
=============================================================================
