--------------------------- MODULE WaitMpscQueue ---------------------------
(***************************************************************************)
(* helper.cpp: zib::wait_mpsc_queue, one of the queues that may stand in   *)
(* for q.  Every producer has a chain of buffers of its own; an item is    *)
(* marked with a number from one counter, up_to_, and the consumer looks   *)
(* for the least.  Buffers that have been read go back to their producer   *)
(* through a ring, allocation_pool.  An item is its number.                *)
(*                                                                         *)
(* Memory is sequentially consistent, which is what compilers make of      *)
(* these atomics for WebAssembly; what only one thread ever uses goes with *)
(* its next access to what both do.  The numbers drawn stay below kEmpty   *)
(* (MaxItems bounds them): kEmpty, min_count and lowest_seen_ are          *)
(* std::size_t, of 32 bits in a WASM build, where the numbers have 64.     *)
(***************************************************************************)
EXTENDS Integers

CONSTANTS
  Producers,       \* 1 .. _num_threads, in the order of heads_
  BufferSize,
  AllocationSize,
  MaxItems,        \* how many items each producer enqueues (a bound)
  Buffers          \* memory for node_buffers (a bound)

VARIABLES
  memory,          \* every node_buffer
  heads, tails,    \* of every producer's chain
  pool,            \* allocation_pool of every producer
  up_to, sleeping, lowest_seen,
  at, my,          \* where each thread is, and its locals
  earlier          \* for every number drawn, those there when it was drawn

mpscvars == <<memory, heads, tails, pool, up_to, sleeping, lowest_seen, at, my, earlier>>
shared   == <<up_to, sleeping, lowest_seen, earlier>>
chains   == <<memory, heads, tails>>

None   == 0         \* nullptr
Empty  == -1        \* kEmpty, which is larger than every number
NewBuffer == [count |-> [i \in 0 .. BufferSize - 1 |-> Empty], read |-> 0, write |-> 0, next |-> None]
NoCall == [min |-> Empty, index |-> 0, prev |-> -2, i |-> 1, buffer |-> None, made |-> 0]

\* Memory that new may return: no chain, pool or thread has it.
Chain(p) ==
  LET from[b \in Buffers \cup {None}] ==
        IF b = None THEN {} ELSE {b} \cup from[memory[b].next]
  IN  from[heads[p]]
Chained == UNION {Chain(p) : p \in Producers}
Pooled  == {pool[p].items[i] : p \in Producers, i \in 0 .. AllocationSize - 1}
Unused  == Buffers \ (Chained \cup Pooled \cup {my[t].buffer : t \in DOMAIN my})
New     == CHOOSE b \in Unused : TRUE

Init ==
  /\ memory = [b \in Buffers |-> NewBuffer]
  /\ heads = [p \in Producers |-> p] /\ tails = heads
  /\ pool = [p \in Producers |-> [items |-> [i \in 0 .. AllocationSize - 1 |-> None], read |-> 0, write |-> 0]]
  /\ up_to = 0 /\ sleeping = FALSE /\ lowest_seen = 0
  /\ at = [t \in Producers \cup {0} |-> "idle"]
  /\ my = [t \in Producers \cup {0} |-> NoCall]
  /\ earlier = [n \in {} |-> {}]

Go(t, from, to) == at[t] = from /\ at' = [at EXCEPT ![t] = to]
Around(i)       == (i + 1) % AllocationSize

-----------------------------------------------------------------------------
(* enqueue, of producer p                                                  *)

Enqueue(p) ==
  /\ my[p].made < MaxItems[p]
  /\ Go(p, "idle", IF memory[tails[p]].write = BufferSize - 1 THEN "pool" ELSE "draw")
  /\ my' = [my EXCEPT ![p].made = @ + 1, ![p].buffer = tails[p]]
  /\ UNCHANGED <<chains, pool, shared>>

\* Its last element: allocation_pool::pop, or a new one, comes after it.
PoolPop(p) ==
  LET r == pool[p].read  b == IF r = pool[p].write THEN New ELSE pool[p].items[r] IN
  /\ Go(p, "pool", "draw") /\ (r # pool[p].write \/ Unused # {})
  /\ pool' = IF r = pool[p].write THEN pool ELSE [pool EXCEPT ![p].read = Around(r)]
  /\ tails' = [tails EXCEPT ![p] = b]
  /\ memory' = [memory EXCEPT ![my[p].buffer].next = b]
  /\ UNCHANGED <<heads, shared, my>>

\* up_to_.fetch_add(1)
Stored == (UNION {{memory[b].count[i] : i \in memory[b].read .. BufferSize - 1} : b \in Chained}) \ {Empty}
Draw(p) ==
  /\ Go(p, "draw", "put") /\ my' = [my EXCEPT ![p].min = up_to]
  /\ up_to' = up_to + 1 /\ earlier' = [n \in 0 .. up_to |-> IF n = up_to THEN Stored ELSE earlier[n]]
  /\ UNCHANGED <<chains, pool, sleeping, lowest_seen>>

\* data_ and count_.store(cur)
Put(p) ==
  LET b == my[p].buffer IN
  /\ Go(p, "put", "look")
  /\ memory' = [memory EXCEPT ![b].count[memory[b].write] = my[p].min, ![b].write = @ + 1]
  /\ UNCHANGED <<heads, tails, pool, shared, my>>

\* if (sleeping_.load()) up_to_.notify_one()
Look(p) ==
  /\ Go(p, "look", IF sleeping THEN "notify" ELSE "idle")
  /\ my' = [my EXCEPT ![p] = [NoCall EXCEPT !.made = my[p].made]]
  /\ UNCHANGED <<chains, pool, shared>>

Notify(p) ==
  /\ at[p] = "notify"
  /\ at' = [t \in DOMAIN at |-> IF t = p THEN "idle" ELSE IF t = 0 /\ at[t] = "asleep" THEN "check" ELSE at[t]]
  /\ UNCHANGED <<chains, pool, shared, my>>

-----------------------------------------------------------------------------
(* dequeue, of the consumer, which calls it again and again                *)

Dequeue ==
  /\ Go(0, "idle", "scan")
  /\ UNCHANGED <<chains, pool, shared, my>>

Forget == my' = [my EXCEPT ![0] = NoCall]
First(p) == memory[heads[p]].count[memory[heads[p]].read]

ScanOnce ==   \* a slip: the first least number is taken, without a second look
  LET l == my[0]  c == First(l.i)  less == c # Empty /\ (l.min = Empty \/ c < l.min) IN
  /\ Go(0, "scan", IF l.i + 1 \notin Producers \/ (less /\ c = lowest_seen) THEN "judge" ELSE "scan")
  /\ my' = [my EXCEPT ![0].min = IF less THEN c ELSE @, ![0].index = IF less THEN l.i ELSE @,
                       ![0].i = @ + 1, ![0].prev = IF less THEN l.i ELSE @]
  /\ UNCHANGED <<chains, pool, shared>>

\* One head after the other; the number that is due is the least at once.
Scan ==
  LET l == my[0]  c == First(l.i)  less == c # Empty /\ (l.min = Empty \/ c < l.min)
      due == less /\ c = lowest_seen
  IN  /\ Go(0, "scan", IF due \/ l.i + 1 \notin Producers THEN "judge" ELSE "scan")
      /\ my' = [my EXCEPT ![0].min = IF less THEN c ELSE @, ![0].index = IF less THEN l.i ELSE @,
                           ![0].i = @ + 1, ![0].prev = IF due THEN l.i ELSE @]
      /\ UNCHANGED <<chains, pool, shared>>

\* The same one twice is it; none twice is none.
Judge ==
  LET l == my[0]  same == l.prev = l.index IN
  /\ \/ ~ same /\ Go(0, "judge", "scan") /\ my' = [my EXCEPT ![0] = [NoCall EXCEPT !.prev = l.index]]
     \/ same /\ l.index = 0 /\ up_to = lowest_seen /\ Go(0, "judge", "sleep") /\ Forget
     \/ same /\ l.index = 0 /\ up_to # lowest_seen /\ Go(0, "judge", "scan") /\ Forget
     \/ same /\ l.index # 0 /\ Go(0, "judge", "take") /\ UNCHANGED my
  /\ UNCHANGED <<chains, pool, shared>>

Sleep ==
  /\ Go(0, "sleep", "check") /\ sleeping' = TRUE
  /\ UNCHANGED <<chains, pool, up_to, lowest_seen, my, earlier>>

CheckAny ==   \* a slip: waits for a change of what it loads itself
  /\ Go(0, "check", "asleep")
  /\ UNCHANGED <<chains, pool, shared, my>>

\* up_to_.wait(lowest_seen_) compares and sleeps; woken, it compares again.
Check ==
  /\ Go(0, "check", IF up_to = lowest_seen THEN "asleep" ELSE "awake")
  /\ UNCHANGED <<chains, pool, shared, my>>

Awake ==
  /\ Go(0, "awake", "scan") /\ sleeping' = FALSE
  /\ UNCHANGED <<chains, pool, up_to, lowest_seen, my, earlier>>

Take ==
  LET l == my[0]  b == heads[l.index]  last == memory[b].read = BufferSize - 1 IN
  /\ Go(0, "take", IF last THEN "recycle" ELSE "idle")
  /\ memory' = [memory EXCEPT ![b].read = @ + 1]
  /\ heads' = IF last THEN [heads EXCEPT ![l.index] = memory[b].next] ELSE heads
  /\ IF last THEN my' = [my EXCEPT ![0].buffer = b] ELSE Forget
  /\ lowest_seen' = IF l.min = lowest_seen THEN lowest_seen + 1 ELSE lowest_seen
  /\ earlier' = [n \in DOMAIN earlier |-> earlier[n] \ {l.min}]
  /\ UNCHANGED <<tails, pool, up_to, sleeping>>

\* allocation_pool::push.  The test for a full ring forgets that it is one.
PoolPush ==
  LET p == my[0].index  w == pool[p].write IN
  /\ Go(0, "recycle", "idle") /\ Forget
  /\ memory' = [memory EXCEPT ![my[0].buffer] = NewBuffer]
  /\ pool' = IF w + 1 = pool[p].read THEN pool
             ELSE [pool EXCEPT ![p].items[w] = my[0].buffer, ![p].write = Around(w)]
  /\ UNCHANGED <<heads, tails, shared>>

-----------------------------------------------------------------------------
(* The destructor, in no call: what is left goes, and the buffers of the   *)
(* chains and, by drain, of the pools.                                     *)

Ring(p) ==
  LET r == pool[p].read  w == pool[p].write IN
  IF r <= w THEN r .. w - 1 ELSE (r .. AllocationSize - 1) \cup (0 .. w - 1)

Destroy ==
  /\ \A t \in DOMAIN at : at[t] = "idle"
  /\ at' = [t \in DOMAIN at |-> "gone"]
  /\ heads' = [p \in Producers |-> None]
  /\ memory' = [b \in Buffers |-> IF b \in Chained THEN NewBuffer ELSE memory[b]]
  /\ pool' = [p \in Producers |-> [pool[p] EXCEPT !.read = pool[p].write]]
  /\ UNCHANGED <<tails, shared, my>>

-----------------------------------------------------------------------------
Producing(p) == PoolPop(p) \/ Draw(p) \/ Put(p) \/ Look(p) \/ Notify(p)
Consuming    == Dequeue \/ Scan \/ Judge \/ Sleep \/ Check \/ Awake \/ Take \/ PoolPush

\* Nothing more is enqueued (the bound), and the consumer sleeps.
Over == /\ \/ at[0] = "asleep" /\ \A p \in Producers : at[p] = "idle" /\ my[p].made = MaxItems[p]
           \/ at[0] = "gone"
        /\ UNCHANGED mpscvars

Next == Consuming \/ Destroy \/ Over \/ \E p \in Producers : Enqueue(p) \/ Producing(p)

Fairness == WF_mpscvars(Consuming) /\ \A p \in Producers : WF_mpscvars(Producing(p))

Spec == Init /\ [][Next]_mpscvars /\ Fairness
-----------------------------------------------------------------------------
(* Properties *)

(* An item is not dequeued before one that was in the queue when its       *)
(* number was drawn, whoever enqueued them: so each producer's items come  *)
(* in its order, and a number drawn later does not overtake a whole call.  *)
Oldest == at[0] = "take" => earlier[my[0].min] = {}

(* Each buffer is in one chain or in one place of one pool, or in none, so *)
(* that it is not deleted twice nor handed out while it is in use; and the *)
(* items left in a buffer follow each other, so that the destructor, which *)
(* stops at the first that is empty, misses none.                          *)
InPool(p) == {pool[p].items[i] : i \in Ring(p)}
OneHome ==
  /\ \A p \in Producers : /\ Chain(p) \cap UNION {InPool(q) : q \in Producers} = {}
                          /\ \A i, j \in Ring(p) : pool[p].items[i] = pool[p].items[j] => i = j
  /\ \A p, q \in Producers : p # q => (Chain(p) \cup InPool(p)) \cap (Chain(q) \cup InPool(q)) = {}
  /\ \A b \in Chained : \A i \in memory[b].read .. BufferSize - 1 :
       memory[b].count[i] # Empty <=> i < memory[b].write

(* What is enqueued is dequeued: the consumer does not sleep through it.   *)
Emptied == (Stored # {}) ~> (Stored = {})
=============================================================================
