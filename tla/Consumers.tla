----------------------------- MODULE Consumers -----------------------------
(***************************************************************************)
(* concurrentqueue.h: which producers a consumer asks for items, and in    *)
(* which order.  Without a token it walks down the list of producers, the  *)
(* fullest of the first few before the others.  With one it has a producer *)
(* of its own, and goes round the list from there when that has nothing;   *)
(* when a token has had its quota, all tokens move on to the next.         *)
(*                                                                         *)
(* A producer is its place in the list, the first being 1; the next of p   *)
(* is p - 1, and 0 stands for NULL.  What a producer has is left open: its *)
(* size and its dequeue, the steps of SubQueue, may answer anything.       *)
(***************************************************************************)
EXTENDS Integers, Sequences, FiniteSets

CONSTANTS
  Plain,        \* consumers without a token
  InitialOffset,\* of every token the number it has got from its constructor
  MaxProducers, \* on a list that stays as it is (a bound)
  MaxGrown,     \* on one that grows (a bound)
  MaxOffset,    \* rotations (a bound, below the wrap of the word),
  MaxTurns,     \* and on a list that is shorter, or grows (a bound)
  Quota,        \* EXPLICIT_CONSUMER_CONSUMPTION_QUOTA_BEFORE_ROTATE
  Word,         \* offsets are below it: 2^32
  Wants         \* the sizes of bulks

Bearers == DOMAIN InitialOffset
Takers == Plain \cup Bearers

VARIABLES
  tail,          \* producerListTail
  producerCount,
  grows,         \* producers are still added
  globalOffset,  \* globalExplicitConsumerOffset
  token,         \* every ConsumerToken
  at, my,        \* where each consumer is in its call, and its locals
  calling,       \* those that call: with tokens or without, which share nothing
  unasked        \* the producers there when the call began that it has not asked

convars == <<tail, producerCount, grows, globalOffset, token, at, my, unasked, calling>>
producers == <<tail, producerCount, grows, calling>>

NoLocals == [max |-> 0, bulk |-> FALSE, got |-> FALSE, ptr |-> 0, tail |-> 0,
             count |-> 0, best |-> 0, found |-> 0]

Init ==
  /\ calling \in {Plain, Bearers} /\ grows \in BOOLEAN
  /\ tail \in (IF grows THEN {0} ELSE 0 .. MaxProducers) /\ producerCount = tail
  /\ globalOffset = 0
  /\ token = [c \in Bearers |-> [known |-> Word - 1, consumed |-> 0, current |-> 0, desired |-> 0]]
  /\ at = [c \in Takers |-> "idle"] /\ my = [c \in Takers |-> NoLocals]
  /\ unasked = [c \in Takers |-> {}]

-----------------------------------------------------------------------------
(* add_producer: counted, then pushed.                                     *)

Count ==
  /\ grows /\ producerCount < MaxGrown /\ producerCount' = producerCount + 1
  /\ UNCHANGED <<tail, grows, globalOffset, token, at, my, unasked, calling>>

Push ==
  /\ tail < producerCount /\ tail' = tail + 1
  /\ UNCHANGED <<producerCount, grows, globalOffset, token, at, my, unasked, calling>>

-----------------------------------------------------------------------------
Go(c, to)    == at' = [at EXCEPT ![c] = to]
Refused(c, p) == unasked' = [unasked EXCEPT ![c] = @ \ {p}]
Leave(c, to) == Go(c, to) /\ my' = [my EXCEPT ![c] = NoLocals]
Success(c)   == Leave(c, "idle") /\ unasked' = [unasked EXCEPT ![c] = {}]
\* A walk ends, p being the last that had nothing.
End(c, any, p) == IF any THEN Success(c) ELSE Leave(c, "none") /\ Refused(c, p)
NextProd(p)  == p - 1
Round(p, t)  == IF NextProd(p) = 0 THEN t ELSE NextProd(p)
\* A walk goes on to p, having got some items.
Advanced(l, got, p) == [l EXCEPT !.max = @ - got, !.got = @ \/ got > 0, !.ptr = p]

\* A call of one item or of a bulk.
Start(c, to) ==
  /\ at[c] \in {"idle", "none"} /\ Go(c, to)
  /\ \/ my' = [my EXCEPT ![c].max = 1]
     \/ \E w \in Wants : my' = [my EXCEPT ![c].max = w, ![c].bulk = TRUE]
  /\ unasked' = [unasked EXCEPT ![c] = 1 .. tail]
  /\ UNCHANGED <<producers, globalOffset, token>>

-----------------------------------------------------------------------------
(* try_dequeue and try_dequeue_bulk with a consumer token                  *)

MayRotate == globalOffset < MaxOffset /\ (tail < MaxProducers => globalOffset < MaxTurns)
TokenCall(c) ==
  LET moved == token[c].desired = 0 \/ token[c].known # globalOffset
  IN  MayRotate /\ Start(c, IF moved THEN "tail" ELSE "own")

\* update_current_producer_after_rotation
LoadTail(c) ==
  /\ at[c] = "tail"
  /\ IF token[c].desired = 0 /\ tail = 0 THEN Leave(c, "none")
     ELSE Go(c, "count") /\ my' = [my EXCEPT ![c].tail = tail]
  /\ UNCHANGED <<producers, globalOffset, token, unasked>>

LoadCount(c) ==
  /\ at[c] = "count" /\ Go(c, "offset") /\ my' = [my EXCEPT ![c].count = producerCount]
  /\ UNCHANGED <<producers, globalOffset, token, unasked>>

\* n steps down the list from p, and from its end to the tail.
Hop(p, n, t) ==
  LET hop[k \in 0 .. n] == IF k = 0 THEN p ELSE Round(hop[k - 1], t) IN hop[n]

AnyPlace(c) == my[c].tail   \* a slip: every token starts at the tail

\* A new token's place: counted from the first producer, so from the tail less.
FirstPlace(c) ==
  LET l == my[c] IN Hop(l.tail, l.count - 1 - (InitialOffset[c] % l.count), l.tail)

RehomeOnce(c) ==   \* a slip: one place on, however many rotations it has missed
  LET l == my[c]
      delta == IF token[c].desired = 0 THEN ((globalOffset - token[c].known) % Word) % l.count ELSE 1 % l.count
      p == Hop(IF token[c].desired = 0 THEN FirstPlace(c) ELSE token[c].desired, delta, l.tail)
  IN  /\ at[c] = "offset" /\ Go(c, "own") /\ my' = [my EXCEPT ![c].count = 0]
      /\ token' = [token EXCEPT ![c] = [known |-> globalOffset, consumed |-> 0, current |-> p, desired |-> p]]
      /\ UNCHANGED <<producers, globalOffset, unasked>>

\* As many places on as there were rotations since it has looked.
Rehome(c) ==
  LET l == my[c]
      delta == ((globalOffset - token[c].known) % Word) % l.count
      p == Hop(IF token[c].desired = 0 THEN FirstPlace(c) ELSE token[c].desired, delta, l.tail)
  IN  /\ at[c] = "offset" /\ Go(c, "own") /\ my' = [my EXCEPT ![c].count = 0]
      /\ token' = [token EXCEPT ![c] = [known |-> globalOffset, consumed |-> 0, current |-> p, desired |-> p]]
      /\ UNCHANGED <<producers, globalOffset, unasked>>

\* Counts above the quota are one.
Capped(n) == IF n > Quota THEN Quota + 1 ELSE n

\* Its own producer first.  A single call compares with the quota, a bulk that
\* got all it wanted does too, and one that did not only counts.
Own(c) ==
  LET l == my[c] IN
  /\ at[c] = "own"
  /\ \E got \in 0 .. l.max :
       LET sum == Capped(token[c].consumed + got) IN
       /\ token' = [token EXCEPT ![c].consumed = sum]
       /\ IF got < l.max
          THEN /\ Go(c, "around") /\ Refused(c, token[c].current)
               /\ my' = [my EXCEPT ![c] = Advanced(l, got, l.ptr)]
          ELSE IF sum = Quota \/ (l.bulk /\ sum > Quota)
          THEN Go(c, "raise") /\ UNCHANGED <<my, unasked>> ELSE Success(c)
  /\ UNCHANGED <<producers, globalOffset>>

Raise(c) ==
  /\ at[c] = "raise" /\ globalOffset' = globalOffset + 1 /\ Success(c)
  /\ UNCHANGED <<producers, token>>

\* The tail once more, which is where the list ends for this walk.
Around(c) ==
  LET first == Round(token[c].current, tail) IN
  /\ at[c] = "around"
  /\ IF first = token[c].current THEN End(c, my[c].got, first)
     ELSE UNCHANGED unasked /\ Go(c, "others") /\ my' = [my EXCEPT ![c].tail = tail, ![c].ptr = first]
  /\ UNCHANGED <<producers, globalOffset, token>>

\* Round the list, back to the current producer, which is the last that had any.
Others(c) ==
  LET l == my[c]  following == Round(l.ptr, l.tail) IN
  /\ at[c] = "others"
  /\ \E got \in 0 .. l.max :
       LET current == IF got > 0 THEN l.ptr ELSE token[c].current IN
       /\ token' = IF got > 0 THEN [token EXCEPT ![c].current = l.ptr, ![c].consumed = Capped(got)] ELSE token
       /\ IF got = l.max THEN Success(c)
          ELSE IF following = current THEN End(c, l.got \/ got > 0, l.ptr)
          ELSE /\ UNCHANGED at /\ Refused(c, l.ptr)
               /\ my' = [my EXCEPT ![c] = Advanced(l, got, following)]
  /\ UNCHANGED <<producers, globalOffset>>

-----------------------------------------------------------------------------
(* without: try_dequeue, try_dequeue_non_interleaved, try_dequeue_bulk     *)

PlainCall(c) ==
  /\ \E to \in {"load", "walktail"} : Start(c, to)
  /\ at'[c] = "load" => ~ my'[c].bulk

\* The fullest of the first three that are not empty; all have the same, or more.
Load(c) ==
  /\ at[c] = "load" /\ Go(c, "score") /\ my' = [my EXCEPT ![c].ptr = tail]
  /\ UNCHANGED <<producers, globalOffset, token, unasked>>

Score(c) ==
  LET l == my[c] IN
  /\ at[c] = "score"
  /\ IF l.ptr = 0 \/ l.found = 3
     THEN UNCHANGED unasked /\ IF l.found = 0 THEN Leave(c, "none") ELSE Go(c, "best") /\ UNCHANGED my
     ELSE /\ UNCHANGED at
          /\ \/ my' = [my EXCEPT ![c].ptr = NextProd(@)] /\ Refused(c, l.ptr)
             \/ /\ \E b \in {l.ptr} \cup ({l.best} \ {0}) :
                     my' = [my EXCEPT ![c].ptr = NextProd(@), ![c].best = b, ![c].found = @ + 1]
                /\ UNCHANGED unasked
  /\ UNCHANGED <<producers, globalOffset, token>>

BestOnly(c) ==   \* a slip: nobody else is asked
  /\ at[c] = "best"
  /\ \E any \in BOOLEAN : End(c, any, my[c].best)
  /\ UNCHANGED <<producers, globalOffset, token>>

Best(c) ==
  /\ at[c] = "best"
  /\ \/ Success(c)
     \/ Go(c, "walktail") /\ Refused(c, my[c].best) /\ UNCHANGED my
  /\ UNCHANGED <<producers, globalOffset, token>>

WalkTail(c) ==
  /\ at[c] = "walktail" /\ Go(c, "walk") /\ my' = [my EXCEPT ![c].ptr = tail]
  /\ UNCHANGED <<producers, globalOffset, token, unasked>>

\* All, or all but the best, down the list.
Walk(c) ==
  LET l == my[c] IN
  /\ at[c] = "walk"
  /\ IF l.ptr = 0 THEN End(c, l.got, 0)
     ELSE IF l.ptr = l.best THEN my' = [my EXCEPT ![c].ptr = NextProd(@)] /\ UNCHANGED <<at, unasked>>
     ELSE \E got \in 0 .. l.max :
            IF got = l.max THEN Success(c)
            ELSE /\ UNCHANGED at /\ Refused(c, l.ptr)
                 /\ my' = [my EXCEPT ![c] = Advanced(l, got, NextProd(l.ptr))]
  /\ UNCHANGED <<producers, globalOffset, token>>

-----------------------------------------------------------------------------
Working(c) ==
  \/ c \in Bearers /\ (LoadTail(c) \/ LoadCount(c) \/ Rehome(c) \/ Own(c) \/ Raise(c) \/ Around(c) \/ Others(c))
  \/ c \in Plain /\ (Load(c) \/ Score(c) \/ Best(c) \/ WalkTail(c) \/ Walk(c))

Over == ~ MayRotate /\ UNCHANGED convars   \* the bounds

Next ==
  \/ Count \/ Push \/ Over
  \/ \E c \in calling : Working(c)
  \/ \E c \in calling \cap Bearers : TokenCall(c)
  \/ \E c \in calling \cap Plain : PlainCall(c)

Fairness == \A c \in Takers : WF_convars(Working(c))

Spec == Init /\ [][Next]_convars /\ Fairness
-----------------------------------------------------------------------------
(* Properties *)

(* "Returns false if all producer streams appeared empty at the time they  *)
(* were checked": who comes back with nothing has been told so by every    *)
(* producer that was on the list when it called.                           *)
EveryoneAsked == \A c \in Takers : at[c] = "none" => unasked[c] = {}

(* As long as no producer comes, tokens that know of the same rotation     *)
(* have places as far apart as their numbers are.                          *)
Spread ==
  ~ grows => \A c, d \in Bearers :
    token[c].desired # 0 /\ token[d].desired # 0 /\ token[c].known = token[d].known =>
      (token[c].desired = token[d].desired <=> (InitialOffset[c] - InitialOffset[d]) % tail = 0)

(* A walk round the list ends, though the list may get longer meanwhile.   *)
CallsReturn == \A c \in Bearers : at[c] = "others" ~> at[c] \in {"idle", "none"}

(* "Every 256 items from one producer, make everyone rotate": a call for   *)
(* one item that brings what its token has had from the producer to the    *)
(* quota, or finds it past that, does not return without a rotation.       *)
RotatesAtQuota ==
  [][\A c \in Bearers : at[c] = "own" /\ ~ my[c].bulk /\ at'[c] = "idle" => token'[c].consumed < Quota]_convars
=============================================================================
