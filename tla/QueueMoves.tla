---------------------------- MODULE QueueMoves ----------------------------
(***************************************************************************)
(* concurrentqueue.h: queues that are made, moved, swapped and destroyed,  *)
(* and producer tokens likewise, by a program that uses no queue while it  *)
(* is being moved.  What a queue holds points back to it in three places:  *)
(* each producer to its parent, the oldest hash table, which lies in the   *)
(* queue object, by its address, and a producer to its token.              *)
(*                                                                         *)
(* A queue's own hash table goes by the queue's name, the others by a      *)
(* number; a queue's chain begins with implicitProducerHash and goes by    *)
(* prev to its end.  initialBlockPool, freeList and the numbers given to   *)
(* consumers go where the list goes, and are left out.                     *)
(***************************************************************************)
EXTENDS Integers, Sequences, FiniteSets, SequencesExt

CONSTANTS
  Queues, Tokens,   \* objects, which are there or not
  Threads,          \* those that enqueue without a token
  FirstCap,         \* INITIAL_IMPLICIT_PRODUCER_HASH_SIZE
  MaxProducers      \* how many producers are made (a bound)

VARIABLES
  alive,      \* the queue objects there are
  queue,      \* and what they hold
  slots,      \* the producer of each thread in each hash table, 0 for none
  producers,  \* all that were made
  token       \* producer of each ProducerToken object, 0 for nullptr, or NoObject

movevars == <<alive, queue, slots, producers, token>>

None == "none"
NoObject == 0 - 1

\* Dynamic tables have numbers, as many as there may be producers.
Tables == Queues \cup 1 .. MaxProducers
Unused == [t \in Threads |-> 0]

\* An empty queue, with its own table and no keys in it.
Fresh(q) == [list |-> <<>>, count |-> 0, chain |-> <<q>>, hashCount |-> 0]

Init ==
  /\ alive = {} /\ queue = [q \in Queues |-> Fresh(q)] /\ slots = [h \in Tables |-> Unused]
  /\ producers = <<>> /\ token = [k \in Tokens |-> NoObject]

-----------------------------------------------------------------------------
(* Producers: recycle_or_create_producer, get_or_add_implicit_producer     *)

New(q, owner, k) == [parent |-> q, owner |-> owner, token |-> k, inactive |-> FALSE]

\* The first of the list that nobody uses and that is of the kind, if any.
Recyclable(q) ==
  {i \in DOMAIN queue[q].list :
     LET p == producers[queue[q].list[i]] IN p.owner = None /\ p.inactive}

MakeToken(k, q) ==
  /\ q \in alive /\ token[k] = NoObject
  /\ IF Recyclable(q) # {}
     THEN LET i == CHOOSE i \in Recyclable(q) : \A j \in Recyclable(q) : i <= j
              p == queue[q].list[i] IN
          /\ token' = [token EXCEPT ![k] = p] /\ UNCHANGED queue
          /\ producers' = [producers EXCEPT ![p].inactive = FALSE, ![p].token = k]
     ELSE LET p == Len(producers) + 1 IN
          /\ p <= MaxProducers
          /\ producers' = Append(producers, New(q, None, k))
          /\ queue' = [queue EXCEPT ![q].list = <<p>> \o @, ![q].count = @ + 1]
          /\ token' = [token EXCEPT ![k] = p]
  /\ UNCHANGED <<alive, slots>>

\* What a search of the chain finds, the newest table first.
Found(q, t) ==
  LET hits == {i \in DOMAIN queue[q].chain : slots[queue[q].chain[i]][t] # 0} IN
  IF hits = {} THEN 0
  ELSE slots[queue[q].chain[CHOOSE i \in hits : \A j \in hits : i <= j]][t]

\* A thread's first item: a producer, in a larger table if this one is half full.
FirstEnqueue(t, q) ==
  LET p     == Len(producers) + 1
      Chain == queue[q].chain
      full  == queue[q].hashCount + 1 >= (FirstCap * 2 ^ (Len(Chain) - 1)) \div 2
      chain == IF full THEN <<p>> \o Chain ELSE Chain IN
  /\ q \in alive /\ Found(q, t) = 0 /\ p <= MaxProducers
  /\ producers' = Append(producers, New(q, t, None))
  /\ queue' = [queue EXCEPT ![q] = [list |-> <<p>> \o @.list, count |-> @.count + 1,
                                    chain |-> chain, hashCount |-> @.hashCount + 1]]
  /\ slots' = [slots EXCEPT ![chain[1]][t] = p]
  /\ UNCHANGED <<alive, token>>

-----------------------------------------------------------------------------
(* Queues *)

Construct(q) ==
  /\ q \notin alive /\ alive' = alive \cup {q} /\ queue' = [queue EXCEPT ![q] = Fresh(q)]
  /\ slots' = [slots EXCEPT ![q] = Unused]
  /\ UNCHANGED <<producers, token>>

RepointHead(chain, from, to) ==   \* a slip: only implicitProducerHash, and no prev
  IF chain = <<from>> THEN <<to>> ELSE chain

\* What leads to one queue's own table is made to lead to the other's.
Repoint(chain, from, to) == [i \in DOMAIN chain |-> IF chain[i] = from THEN to ELSE chain[i]]

\* reown_producers of both, and swap_implicit_producer_hashes: the contents
\* of the two own tables change places, the tables do not.
Exchange(a, b, qa, qb) ==
  /\ queue' = [queue EXCEPT ![a] = [qb EXCEPT !.chain = Repoint(@, b, a)],
                            ![b] = [qa EXCEPT !.chain = Repoint(@, a, b)]]
  /\ producers' = [p \in DOMAIN producers |->
                     IF p \in ToSet(qb.list) THEN [producers[p] EXCEPT !.parent = a]
                     ELSE IF p \in ToSet(qa.list) THEN [producers[p] EXCEPT !.parent = b]
                     ELSE producers[p]]

\* The move constructor: a fresh queue changes places with the other.
Move(a, b) ==
  /\ a \notin alive /\ b \in alive /\ alive' = alive \cup {a} /\ Exchange(a, b, Fresh(a), queue[b])
  /\ slots' = [slots EXCEPT ![a] = slots[b], ![b] = Unused]
  /\ UNCHANGED token

\* swap_internal, and the assignment
Swap(a, b) ==
  /\ a \in alive /\ b \in alive \ {a} /\ Exchange(a, b, queue[a], queue[b])
  /\ slots' = [slots EXCEPT ![a] = slots[b], ![b] = slots[a]]
  /\ UNCHANGED <<alive, token>>

\* ~ConcurrentQueue: the tokens of its producers are not valid any more.
Destroy(q) ==
  /\ q \in alive /\ alive' = alive \ {q}
  /\ token' = [k \in Tokens |->
                 IF \E p \in ToSet(queue[q].list) : producers[p].token = k THEN 0 ELSE token[k]]
  /\ UNCHANGED <<queue, slots, producers>>

-----------------------------------------------------------------------------
(* Tokens *)

DestroyToken(k) ==
  /\ token[k] # NoObject /\ token' = [token EXCEPT ![k] = NoObject]
  /\ producers' = IF token[k] = 0 THEN producers
                  ELSE [producers EXCEPT ![token[k]].token = None, ![token[k]].inactive = TRUE]
  /\ UNCHANGED <<alive, queue, slots>>

\* producer->token = this, for each of a set of tokens that is valid.
PointBack(tokens) ==
  producers' = [p \in DOMAIN producers |->
                  IF \E k \in tokens : token'[k] = p
                  THEN [producers[p] EXCEPT !.token = CHOOSE k \in tokens : token'[k] = p]
                  ELSE producers[p]]

MoveToken(a, b) ==
  /\ token[a] = NoObject /\ token[b] # NoObject
  /\ token' = [token EXCEPT ![a] = token[b], ![b] = 0]
  /\ PointBack({a}) /\ UNCHANGED <<alive, queue, slots>>

SwapTokens(a, b) ==
  /\ a # b /\ token[a] # NoObject /\ token[b] # NoObject
  /\ token' = [token EXCEPT ![a] = token[b], ![b] = token[a]]
  /\ PointBack({a, b}) /\ UNCHANGED <<alive, queue, slots>>

-----------------------------------------------------------------------------
Next ==
  \/ \E q \in Queues : Construct(q) \/ Destroy(q)
  \/ \E a, b \in Queues : Move(a, b) \/ Swap(a, b)
  \/ \E k \in Tokens, q \in Queues : MakeToken(k, q)
  \/ \E t \in Threads, q \in Queues : FirstEnqueue(t, q)
  \/ \E k \in Tokens : DestroyToken(k)
  \/ \E a, b \in Tokens : MoveToken(a, b) \/ SwapTokens(a, b)

Spec == Init /\ [][Next]_movevars
-----------------------------------------------------------------------------
(* Properties *)

(* "When a queue is moved, its tokens are still valid but can only be used *)
(* with the destination queue": every producer of a queue has it as its    *)
(* parent, a thread finds its own producer there and no other, the chain   *)
(* of tables ends in the queue's own and is shared with no other queue,    *)
(* the counts are right; and a token and its producer point at each other. *)
Whole ==
  /\ \A q \in alive :
       LET Q == queue[q] IN
       /\ \A i \in DOMAIN Q.list : producers[Q.list[i]].parent = q
       /\ \A i \in DOMAIN Q.list : producers[Q.list[i]].owner # None =>
                                   Found(q, producers[Q.list[i]].owner) = Q.list[i]
       /\ \A t \in Threads : Found(q, t) # 0 => Found(q, t) \in ToSet(Q.list)
       /\ Last(Q.chain) = q /\ Q.count = Len(Q.list)
       /\ Q.hashCount = Cardinality({i \in DOMAIN Q.list : producers[Q.list[i]].owner # None})
       /\ \A r \in alive \ {q} : ToSet(Q.chain) \cap ToSet(queue[r].chain) = {}
  /\ \A k \in Tokens : token[k] \notin {0, NoObject} =>
       /\ producers[token[k]].token = k
       /\ \E q \in alive : token[k] \in ToSet(queue[q].list)
=============================================================================
