------------------------------ MODULE Registry ------------------------------
(***************************************************************************)
(* concurrentqueue.h: how a thread comes by a producer, the queue it puts  *)
(* its items in.  A token takes one of the list producerListTail that is   *)
(* inactive, or adds one; the list only grows.  A thread without a token   *)
(* finds its producer in a hash table by its id, and is put there when it  *)
(* has none; a table that fills up is followed by a larger one.  Built     *)
(* with MOODYCAMEL_CPP11_THREAD_LOCAL_SUPPORTED, which is left off unless  *)
(* a user defines it, the queue hears of a thread's exit: the thread's     *)
(* keys become tombstones and its producer inactive.  Built without it, a  *)
(* later thread with the same id finds the producer of the first.          *)
(*                                                                         *)
(* A producer is its place in the list, the first being 1; the next of p   *)
(* is p - 1.  A compare-exchange that only tries again when it fails is    *)
(* one step.  A search of one table is one step too: a slot that was not   *)
(* empty never is again, so what others do meanwhile changes no answer.    *)
(***************************************************************************)
EXTENDS Integers, Sequences, FiniteSets

CONSTANTS
  Tokens,     \* threads that make a token and destroy it
  Hashed,     \* threads without a token, which are also their ids
  Hash,       \* hash_thread_id
  FirstCap,   \* INITIAL_IMPLICIT_PRODUCER_HASH_SIZE
  Plays,      \* how often each thread, or one with its id, will start (bounds)
  AtOnce,     \* how many threads there are at a time (a bound)
  Failures    \* how often memory may not be had (a bound)

VARIABLES
  listens,    \* built with MOODYCAMEL_CPP11_THREAD_LOCAL_SUPPORTED
  failed,     \* how often there was no memory
  list,       \* producerListTail: of every producer whether it isExplicit
  producerCount,
  inactive,   \* the producers that are
  tables,     \* implicitProducerHash, the last one, and its prevs
  hashCount,  \* implicitProducerHashCount
  resizing,   \* implicitProducerHashResizeInProgress
  pc, my,
  lives,      \* how often each will still start
  mine        \* the producer each thread was last given, 0 for none

regvars == <<listens, failed, list, producerCount, inactive, tables, hashCount, resizing, pc, my, lives, mine>>
hashes   == <<listens, tables, hashCount, resizing>>
register == <<failed, list, producerCount, inactive>>

Users == Tokens \cup Hashed

\* Keys that are no ids: invalid_thread_id and invalid_thread_id2.
Empty == "empty"
Gone  == "gone"

NewTable(cap) == [k \in 0 .. cap - 1 |-> [key |-> Empty, value |-> 0]]
Cap(i)        == Cardinality(DOMAIN tables[i])
NoLocals      == [main |-> 0, at |-> 0, n |-> 0, p |-> 0]

Init ==
  /\ listens \in BOOLEAN /\ failed = 0
  /\ list = <<>> /\ producerCount = 0 /\ inactive = {}
  /\ tables = <<NewTable(FirstCap)>> /\ hashCount = 0 /\ resizing = FALSE
  /\ pc = [t \in Users |-> "new"] /\ my = [t \in Users |-> NoLocals]
  /\ lives \in Plays /\ mine = [t \in Users |-> 0]

Go(t, from, to) == pc[t] = from /\ pc' = [pc EXCEPT ![t] = to]
Jump(t, to)     == pc' = [pc EXCEPT ![t] = to]
Set(t, f, x)    == my' = [my EXCEPT ![t][f] = x]
Forget(t)       == my' = [my EXCEPT ![t] = NoLocals]

-----------------------------------------------------------------------------
(* recycle_or_create_producer *)

Start(t) ==
  /\ Go(t, "new", IF t \in Tokens THEN "visit" ELSE "lookup")
  /\ lives[t] > 0 /\ Cardinality({u \in Users : pc[u] # "new"}) < AtOnce
  /\ lives' = [lives EXCEPT ![t] = @ - 1]
  /\ my' = [my EXCEPT ![t] = IF t \in Tokens THEN [NoLocals EXCEPT !.p = Len(list)]
                             ELSE [NoLocals EXCEPT !.main = Len(tables), !.at = Len(tables)]]
  /\ UNCHANGED <<register, hashes, mine>>

\* The loads of inactive, down the list; its end means a new producer, ...
Visit(t) ==
  /\ pc[t] = "visit"
  /\ IF my[t].p = 0 THEN Jump(t, "create") /\ UNCHANGED my
     ELSE IF my[t].p \in inactive /\ list[my[t].p] = (t \in Tokens)
     THEN Jump(t, "catch") /\ UNCHANGED my
     ELSE Set(t, "p", my[t].p - 1) /\ UNCHANGED pc
  /\ UNCHANGED <<register, hashes, lives, mine>>

CatchBlind(t) ==   \* a slip: a store in place of the compare-exchange
  /\ Go(t, "catch", IF t \in Tokens THEN "use" ELSE "uncount")
  /\ inactive' = inactive \ {my[t].p}
  /\ IF t \in Tokens THEN mine' = [mine EXCEPT ![t] = my[t].p] ELSE UNCHANGED mine
  /\ UNCHANGED <<failed, list, producerCount, my, hashes, lives>>

\* ... and the compare-exchange, which only one thread gets through.
Catch(t) ==
  /\ pc[t] = "catch"
  /\ IF my[t].p \in inactive
     THEN /\ inactive' = inactive \ {my[t].p} /\ UNCHANGED my
          /\ Jump(t, IF t \in Tokens THEN "use" ELSE "uncount")
          /\ IF t \in Tokens THEN mine' = [mine EXCEPT ![t] = my[t].p] ELSE UNCHANGED mine
     ELSE Jump(t, "visit") /\ Set(t, "p", my[t].p - 1) /\ UNCHANGED <<inactive, mine>>
  /\ UNCHANGED <<failed, list, producerCount, hashes, lives>>

\* add_producer: counted first, then pushed.
Create(t) ==
  /\ Go(t, "create", "push") /\ producerCount' = producerCount + 1
  /\ UNCHANGED <<failed, list, inactive, my, hashes, lives, mine>>

\* No memory for a producer: the token is not valid, or nothing is enqueued.
CreateFails(t) ==
  /\ Go(t, "create", IF t \in Tokens THEN "use" ELSE "uncreate")
  /\ failed < Failures /\ failed' = failed + 1
  /\ UNCHANGED <<list, producerCount, inactive, my, hashes, lives, mine>>

Push(t) ==
  /\ Go(t, "push", IF t \in Tokens THEN "use" ELSE "insert")
  /\ list' = Append(list, t \in Tokens) /\ Set(t, "p", Len(list) + 1)
  /\ IF t \in Tokens THEN mine' = [mine EXCEPT ![t] = Len(list) + 1] ELSE UNCHANGED mine
  /\ UNCHANGED <<failed, producerCount, inactive, hashes, lives>>

-----------------------------------------------------------------------------
(* get_or_add_implicit_producer *)

\* The slots of a table from the one an id hashes to, up to the first that
\* has one of the keys; there may be none, and then the code never stops.
Slot(i, t, k) == (Hash[t] + k) % Cap(i)
Probe(i, t, keys) ==
  {k \in 0 .. Cap(i) - 1 : /\ tables[i][Slot(i, t, k)].key \in keys
                           /\ \A j \in 0 .. k - 1 : tables[i][Slot(i, t, j)].key \notin keys}
\* Where an id may be put.
Vacant == IF listens THEN {Empty, Gone} ELSE {Empty}

Fill(i, t, k, p) == tables' = [tables EXCEPT ![i][Slot(i, t, k)] = [key |-> t, value |-> p]]

\* inner_enqueue has its producer, and enqueues.
Give(t, p) == Jump(t, "ready") /\ mine' = [mine EXCEPT ![t] = p] /\ Forget(t)

\* The id in the current and all previous tables.
Lookup(t) ==
  LET i == my[t].at IN
  /\ pc[t] = "lookup"
  /\ IF i = 0 THEN Jump(t, "count") /\ UNCHANGED <<my, mine>>
     ELSE \E k \in Probe(i, t, {t, Empty}) :
            LET slot == tables[i][Slot(i, t, k)] IN
            IF slot.key = Empty THEN Set(t, "at", i - 1) /\ UNCHANGED <<pc, mine>>
            ELSE IF i = my[t].main THEN Give(t, slot.value)
            ELSE Jump(t, "readd") /\ Set(t, "p", slot.value) /\ UNCHANGED mine
  /\ UNCHANGED <<register, hashes, lives>>

\* Found in an older table: added to the current one.
ReAdd(t) ==
  /\ pc[t] = "readd" /\ Give(t, my[t].p)
  /\ \E k \in Probe(my[t].main, t, Vacant) : Fill(my[t].main, t, k, my[t].p)
  /\ UNCHANGED <<register, listens, hashCount, resizing, lives>>

Count(t) ==
  /\ Go(t, "count", "grow") /\ hashCount' = hashCount + 1 /\ Set(t, "n", hashCount + 1)
  /\ UNCHANGED <<register, listens, tables, resizing, lives, mine>>

\* Half full: the thread that raises the flag sees to a larger table.
Grow(t) ==
  /\ pc[t] = "grow"
  /\ IF my[t].n >= Cap(my[t].main) \div 2 /\ ~ resizing
     THEN resizing' = TRUE /\ Jump(t, "resize") ELSE UNCHANGED resizing /\ Jump(t, "room")
  /\ UNCHANGED <<register, listens, my, tables, hashCount, lives, mine>>

\* Twice as many slots, or as many times twice as it takes.
Doublings == {2, 4, 8, 16, 32, 64, 128, 256}   \* up to here (a bound)
Larger(n, cap) ==
  {cap * f : f \in {g \in Doublings : (cap * g) \div 2 > n /\ (g = 2 \/ (cap * g) \div 4 <= n)}}

Resize(t) ==
  /\ pc[t] = "resize"
  /\ IF my[t].n < Cap(Len(tables)) \div 2
     THEN /\ Set(t, "main", Len(tables)) /\ Jump(t, "clear") /\ UNCHANGED tables
     ELSE \/ /\ \E c \in Larger(my[t].n, Cap(Len(tables))) : tables' = Append(tables, NewTable(c))
             /\ Set(t, "main", Len(tables) + 1) /\ Jump(t, "clear")
          \/ failed < Failures /\ Jump(t, "fail") /\ UNCHANGED <<my, tables>>
  /\ failed' = IF pc'[t] = "fail" THEN failed + 1 ELSE failed
  /\ UNCHANGED <<list, producerCount, inactive, listens, hashCount, resizing, lives, mine>>

Clear(t) ==
  /\ Go(t, "clear", "room") /\ resizing' = FALSE
  /\ UNCHANGED <<register, listens, my, tables, hashCount, lives, mine>>

\* No memory: uncounted, the flag lowered, and nothing enqueued.
Fail(t) ==
  /\ Go(t, "fail", "lower") /\ hashCount' = hashCount - 1
  /\ UNCHANGED <<register, listens, my, tables, resizing, lives, mine>>

Lower(t) ==
  /\ Go(t, "lower", "ready") /\ resizing' = FALSE /\ Forget(t)
  /\ UNCHANGED <<register, listens, tables, hashCount, lives, mine>>

RoomAnyway(t) ==   \* a slip: the old table is filled while a larger one is made
  /\ Go(t, "room", "visit") /\ Set(t, "p", Len(list))
  /\ UNCHANGED <<register, hashes, lives, mine>>

\* Less than three quarters full, or the wait for a larger table.
Room(t) ==
  /\ pc[t] = "room"
  /\ IF my[t].n < (Cap(my[t].main) \div 2) + (Cap(my[t].main) \div 4)
     THEN Jump(t, "visit") /\ Set(t, "p", Len(list))
     ELSE Jump(t, "grow") /\ Set(t, "main", Len(tables))
  /\ UNCHANGED <<register, hashes, lives, mine>>

\* A recycled producer has been counted before; one not had is not counted.
Uncount(t) ==
  /\ \/ Go(t, "uncount", "insert") /\ UNCHANGED my
     \/ Go(t, "uncreate", "ready") /\ Forget(t)
  /\ hashCount' = hashCount - 1
  /\ UNCHANGED <<register, listens, tables, resizing, lives, mine>>

Insert(t) ==
  /\ pc[t] = "insert" /\ Give(t, my[t].p)
  /\ \E k \in Probe(my[t].main, t, Vacant) : Fill(my[t].main, t, k, my[t].p)
  /\ UNCHANGED <<register, listens, hashCount, resizing, lives>>

\* It enqueues once more ...
Again(t) ==
  /\ Go(t, "ready", "lookup")
  /\ my' = [my EXCEPT ![t] = [NoLocals EXCEPT !.main = Len(tables), !.at = Len(tables)]]
  /\ UNCHANGED <<register, hashes, lives, mine>>

-----------------------------------------------------------------------------
(* ... or the thread exits: implicit_producer_thread_exited, for its       *)
(* listener, which is subscribed with the producer.                        *)

Exit(t) ==
  /\ Go(t, "ready", IF listens /\ mine[t] # 0 THEN "bury" ELSE "new")
  /\ IF listens THEN Set(t, "at", Len(tables)) /\ UNCHANGED mine
     ELSE UNCHANGED my /\ mine' = [mine EXCEPT ![t] = 0]
  /\ UNCHANGED <<register, hashes, lives>>

BuryOne(t) ==   \* a slip: only the current table is gone through
  LET i == my[t].at IN
  /\ pc[t] = "bury"
  /\ IF i < Len(tables) THEN Jump(t, "leave") /\ UNCHANGED <<my, tables>>
     ELSE /\ UNCHANGED pc /\ Set(t, "at", i - 1)
          /\ \E k \in Probe(i, t, {t, Empty}) :
               tables' = IF tables[i][Slot(i, t, k)].key = t
                         THEN [tables EXCEPT ![i][Slot(i, t, k)].key = Gone] ELSE tables
  /\ UNCHANGED <<register, listens, hashCount, resizing, lives, mine>>

\* Its key in every table becomes a tombstone, ...
Bury(t) ==
  LET i == my[t].at IN
  /\ pc[t] = "bury"
  /\ IF i = 0 THEN Jump(t, "leave") /\ UNCHANGED <<my, tables>>
     ELSE /\ UNCHANGED pc /\ Set(t, "at", i - 1)
          /\ \E k \in Probe(i, t, {t, Empty}) :
               tables' = IF tables[i][Slot(i, t, k)].key = t
                         THEN [tables EXCEPT ![i][Slot(i, t, k)].key = Gone] ELSE tables
  /\ UNCHANGED <<register, listens, hashCount, resizing, lives, mine>>

\* ... and the producer may be used again.
Leave(t) ==
  /\ Go(t, "leave", "new") /\ inactive' = inactive \cup {mine[t]}
  /\ mine' = [mine EXCEPT ![t] = 0] /\ Forget(t)
  /\ UNCHANGED <<failed, list, producerCount, hashes, lives>>

\* ~ProducerToken
DropToken(t) ==
  /\ Go(t, "use", "new") /\ inactive' = inactive \cup ({mine[t]} \ {0})
  /\ mine' = [mine EXCEPT ![t] = 0] /\ Forget(t)
  /\ UNCHANGED <<failed, list, producerCount, hashes, lives>>

-----------------------------------------------------------------------------
Working(t) ==
  \/ Visit(t) \/ Catch(t) \/ Create(t) \/ CreateFails(t) \/ Push(t)
  \/ Lookup(t) \/ ReAdd(t) \/ Count(t) \/ Grow(t) \/ Resize(t) \/ Clear(t)
  \/ Fail(t) \/ Lower(t) \/ Room(t) \/ Uncount(t) \/ Insert(t)
  \/ Bury(t) \/ Leave(t)

Over == (\A t \in Users : pc[t] = "new" /\ lives[t] = 0) /\ UNCHANGED regvars

Next == \/ \E t \in Users : Start(t) \/ Working(t) \/ DropToken(t)
        \/ \E t \in Hashed : Again(t) \/ Exit(t)
        \/ Over

Fairness == \A t \in Users : WF_regvars(Working(t))

Spec == Init /\ [][Next]_regvars /\ Fairness
-----------------------------------------------------------------------------
(* Properties *)

(* A producer, whose enqueue is for one thread at a time, is in the hands  *)
(* of one: of a token, of a thread, or of one about to be given it.        *)
Holds(t) == IF mine[t] # 0 THEN {mine[t]}
            ELSE IF pc[t] \in {"uncount", "insert"} THEN {my[t].p} ELSE {}
OneUser ==
  /\ \A t, u \in Users : t # u => Holds(t) \cap Holds(u) = {}
  /\ \A t \in Users : Holds(t) \cap inactive = {}

(* A thread's items stay in order, because as long as it lives it finds    *)
(* the producer it has been given, whatever table it is put in and however *)
(* many are added; and a thread that starts with the id of one whose exit  *)
(* was heard of does not find that one's.                                  *)
Values(i, t) == {tables[i][k].value : k \in {k \in DOMAIN tables[i] : tables[i][k].key = t}}
SameProducer ==
  \A t \in Hashed :
    /\ mine[t] # 0 => pc[t] # "count"
    /\ mine[t] # 0 => \A i \in DOMAIN tables : Values(i, t) \subseteq {mine[t]}
    /\ listens /\ pc[t] = "new" => \A i \in DOMAIN tables : Values(i, t) = {}

(* "Every subsequent table implicitly reserves space for all previous      *)
(* tables": no table is ever full of the keys of threads, so an insertion, *)
(* which takes a tombstone too, finds a slot.                              *)
RoomForAll ==
  \A i \in DOMAIN tables : \E k \in DOMAIN tables[i] : tables[i][k].key \in Vacant

(* "At least one slot is free in the hash table", where the search for an  *)
(* id ends.  A tombstone does not end it, and no slot that was used        *)
(* becomes free again: this fails when the queue hears of exits.           *)
SlotFree ==
  \A i \in DOMAIN tables : \E k \in DOMAIN tables[i] : tables[i][k].key = Empty

(* Every call ends, whether it waits for another thread's table or that    *)
(* thread gets no memory for it.                                           *)
Ends == \A t \in Hashed : pc[t] = "lookup" ~> pc[t] = "ready"
=============================================================================
