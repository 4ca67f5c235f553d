---------------------------- MODULE MCMoodycamel ----------------------------
(***************************************************************************)
(* For TLC: the parts of the moodycamel queue that lie above the queue of  *)
(* one producer, side by side: how threads come by producers (Registry),   *)
(* how consumers go round them (Consumers), the queue that blocks          *)
(* (BlockingQueue, with its semaphore), and queues that are moved          *)
(* (QueueMoves).  A behaviour is of one of them, and the others stay where *)
(* they start.                                                             *)
(***************************************************************************)
EXTENDS BlockingQueue, TLC

CONSTANTS
  Parts,
  Tokens, Plays, Hash, FirstCap, AtOnce, Failures,   \* of Registry
  Plain, InitialOffset, MaxListed, MaxGrown, MaxOffset, MaxTurns, Quota, Word, Wants,   \* of Consumers
  Objects, Handles, Movers, OwnCap, MaxMade         \* of QueueMoves

VARIABLES
  part,
  \* as in Registry, where kept is my
  listens, failed, list, producerCount, inactive, tables, hashCount, resizing,
  pc, kept, lives, mine,
  \* as in Consumers, where counted, doing and locals are producerCount, at and my
  tail, counted, grows, globalOffset, token, doing, locals, calling, unasked,
  \* as in QueueMoves, where holder is token
  alive, queue, slots, producers, holder

Hashed == DOMAIN Hash
Users == INSTANCE Registry WITH my <- kept
Takes == INSTANCE Consumers WITH
           MaxProducers <- MaxListed, producerCount <- counted, at <- doing, my <- locals
Moves == INSTANCE QueueMoves WITH
           Queues <- Objects, Tokens <- Handles, Threads <- Movers, FirstCap <- OwnCap,
           MaxProducers <- MaxMade, token <- holder

\* The ids of threads are numbers, and neither of the keys that are none; a table
\* has a slot at least.
ASSUME RegistryAssumption ==
  /\ IsFiniteSet(Hashed) /\ Tokens \cap Hashed = {}
  /\ Users!Empty \notin Hashed /\ Users!Gone \notin Hashed
  /\ Hash \in [Hashed -> Nat] /\ FirstCap \in Nat \ {0}

\* A consumer has a token or none.  The bounds leave the rotations below the wrap
\* of their word: each call that began below MaxOffset may add one.
ASSUME ConsumersAssumption ==
  /\ IsFiniteSet(Takes!Bearers) /\ Plain \cap Takes!Bearers = {}
  /\ InitialOffset \in [Takes!Bearers -> Nat] /\ Wants \subseteq Nat \ {0} /\ Quota \in Nat
  /\ {MaxListed, MaxGrown, MaxOffset, MaxTurns, Word} \subseteq Nat
  /\ MaxOffset + Cardinality(Takes!Bearers) < Word - 1

\* A queue's own table has a name, the others a number; and nobody is no thread.
ASSUME MovesAssumption ==
  MaxMade \in Nat /\ Objects \cap (1 .. MaxMade) = {} /\ Moves!None \notin Movers

regvars == <<listens, failed, list, producerCount, inactive, tables, hashCount, resizing,
             pc, kept, lives, mine>>
convars == <<tail, counted, grows, globalOffset, token, doing, locals, calling, unasked>>
movevars == <<alive, queue, slots, producers, holder>>

AllInit ==
  /\ Init /\ Users!Init /\ Takes!Init /\ Moves!Init /\ part \in Parts
  /\ part # "users" => listens /\ lives = CHOOSE p \in Plays : TRUE
  /\ part # "takes" => tail = 0 /\ calling = Plain /\ ~ grows

AllNext ==
  \/ part = "blocks" /\ Next       /\ UNCHANGED <<part, regvars, convars, movevars>>
  \/ part = "users"  /\ Users!Next /\ UNCHANGED <<part, bqvars, convars, movevars>>
  \/ part = "takes"  /\ Takes!Next /\ UNCHANGED <<part, bqvars, regvars, movevars>>
  \/ part = "moves"  /\ Moves!Next /\ UNCHANGED <<part, bqvars, regvars, convars>>

\* What CallsEnd needs: that waits, searches of threads and walks round the list go on.
AllFairness ==
  /\ \A t \in Signallers \cup Waiters : WF_bqvars(part = "blocks" /\ Working(t))
  /\ \A t \in Hashed : WF_regvars(part = "users" /\ Users!Working(t))
  /\ \A c \in Takes!Bearers : WF_convars(part = "takes" /\ Takes!Others(c))

AllSpec == AllInit /\ [][AllNext]_<<part, bqvars, regvars, convars, movevars>> /\ AllFairness

(* The properties of Registry, Consumers and QueueMoves.  That a thread    *)
(* finds its producer again takes that it is in the tables, that there was *)
(* a slot to put it in, and that the search for it ends, which needs one   *)
(* that is empty: that is so where the queue does not hear of exits, and   *)
(* where it does see SlotFree, which fails.                                *)
OneUser        == Users!OneUser
FoundAgain     == Users!SameProducer /\ Users!RoomForAll /\ (~ listens => Users!SlotFree)
Whole          == Moves!Whole
SlotFree       == Users!SlotFree
EveryoneAsked  == Takes!EveryoneAsked
Spread         == Takes!Spread
RotatesAtQuota == Takes!RotatesAtQuota

(* A call of any of the three ends: one that wants a producer, one that    *)
(* walks round the producers, one that waits with a limit.                 *)
CallsEnd == Users!Ends /\ Takes!CallsReturn /\ LimitedReturns

\* Two threads with the same place in the table, of which one starts twice; two
\* tokens; one of each.
HashDef  == "a" :> 0 @@ "b" :> 0
Play(a, b, p, r) == "a" :> a @@ "b" :> b @@ "p" :> p @@ "r" :> r
PlaysDef == {Play(2, 1, 0, 0), Play(0, 0, 2, 1), Play(1, 0, 1, 0)}
\* As many as a table has slots, one after the other, each with its own place.
Eight      == {"t0", "t1", "t2", "t3", "t4", "t5", "t6", "t7"}
HashEight  == "t0" :> 0 @@ "t1" :> 1 @@ "t2" :> 2 @@ "t3" :> 3 @@ "t4" :> 4 @@ "t5" :> 5 @@ "t6" :> 6 @@ "t7" :> 7
PlaysEight == {[t \in Eight |-> 1]}
\* Two consumers with a token.
OffsetsDef == "c" :> 0 @@ "d" :> 1
\* wait_dequeue, which waits until it has an item; wait_dequeue_bulk, which waits
\* once; and others with a limit.
CallsDef == {[max |-> 1, limit |-> "none"], [max |-> 2, limit |-> "once"], [max |-> 3, limit |-> "some"],
             [max |-> 2, limit |-> "zero"], [max |-> 3, limit |-> "try"]}
=============================================================================
