---------------------------- MODULE AtomicQueue2 ----------------------------
(***************************************************************************)
(* src/src/atomic_queue/atomic_queue.h: AtomicQueueCommon with the slots   *)
(* of AtomicQueue2, not SPSC, which is the queue src/helper.cpp gives its  *)
(* loop.  A push or a pop takes a ticket from head_ or tail_, an unsigned  *)
(* word that wraps, and waits for the state of the ticket's slot.          *)
(*                                                                         *)
(* Every atomic access is a step, and so are the plain write and read of   *)
(* elements_; a compare-exchange that fails in a spin loop changes nothing *)
(* and is a guard.  The read-modify-writes acquire and release, and wasm   *)
(* makes them sequentially consistent.                                     *)
(***************************************************************************)
EXTENDS Integers, Sequences, FiniteSets

CONSTANTS
  Producers, Consumers,  \* the threads that push and that pop
  MaxPush,   \* how many items a producer pushes (a bound)
  Size,      \* size_
  Wrap,      \* the number of values of an unsigned
  Remap,     \* details::remap_index, as a function on 0 .. Size-1
  Origins,   \* what completed pairs of push and pop have left in both words
  Empty, Storing, Stored, Loading   \* enum State

VARIABLES
  head, tail,   \* head_ and tail_
  state,        \* states_
  elements,     \* elements_
  pc,           \* where each thread is
  ticket,       \* its local head or tail
  item,         \* the value it pushes or has read
  pushed,       \* how many items each producer has taken a ticket for
  got           \* what pop and try_pop have returned, in that order

vars == <<head, tail, state, elements, pc, ticket, item, pushed, got>>

Threads == Producers \cup Consumers
Slots   == 0 .. Size - 1
Tickets == 0 .. Wrap - 1
States  == {Empty, Storing, Stored, Loading}

ASSUME SizeAssumption  == Size \in Nat \ {0} /\ MaxPush \in Nat
ASSUME RemapAssumption ==
  /\ Remap \in [Slots -> Slots]
  /\ \A i, j \in Slots : Remap[i] = Remap[j] => i = j
ASSUME WrapAssumption ==
  /\ Wrap \in Nat \ {0} /\ Wrap % Size = 0 /\ Origins \subseteq Tickets
ASSUME ThreadAssumption == Producers \cap Consumers = {}
ASSUME StateAssumption  ==
  /\ Empty # Storing /\ Empty # Stored /\ Empty # Loading
  /\ Storing # Stored /\ Storing # Loading /\ Stored # Loading

\* An item names its producer and its place in what that producer pushes.
Items  == Producers \X (1 .. MaxPush)
NoItem == <<>>

Init ==
  /\ head \in Origins /\ tail = head
  /\ state = [s \in Slots |-> Empty]
  /\ elements = [s \in Slots |-> NoItem]
  /\ pc = [t \in Threads |-> "idle"]
  /\ ticket = [t \in Threads |-> 0]
  /\ item = [t \in Threads |-> NoItem]
  /\ pushed = [p \in Producers |-> 0]
  /\ got = <<>>

\* static_cast<int> of a difference of two unsigned words
Signed(x) == LET d == x % Wrap IN IF d < Wrap \div 2 THEN d ELSE d - Wrap

\* The slot of a ticket, and of the ticket a thread holds.
SlotOf(k) == Remap[k % Size]
Slot(t)   == SlotOf(ticket[t])

Step(t, from, to) == pc[t] = from /\ pc' = [pc EXCEPT ![t] = to]

-----------------------------------------------------------------------------
(* push and try_push *)

\* The item a producer is about to push, once it has its ticket.
Offer(p) ==
  /\ item' = [item EXCEPT ![p] = <<p, pushed[p] + 1>>]
  /\ pushed' = [pushed EXCEPT ![p] = @ + 1]

\* push: head_.fetch_add.  It does not ask whether there is room.
Push(p) ==
  /\ pushed[p] < MaxPush /\ Step(p, "idle", "claim")
  /\ ticket' = [ticket EXCEPT ![p] = head] /\ head' = (head + 1) % Wrap
  /\ Offer(p)
  /\ UNCHANGED <<tail, state, elements, got>>

\* try_push: load head_ ...
TryPush(p) ==
  /\ pushed[p] < MaxPush /\ Step(p, "idle", "check")
  /\ ticket' = [ticket EXCEPT ![p] = head]
  /\ UNCHANGED <<head, tail, state, elements, item, pushed, got>>

TryPushEarly(p) ==   \* a slip: one slot is never used
  /\ Step(p, "check", "idle") /\ Signed(ticket[p] - tail) >= Size - 1
  /\ UNCHANGED <<head, tail, state, elements, ticket, item, pushed, got>>

\* ... load tail_: return false when the difference is the size ...
TryPushFull(p) ==
  /\ Step(p, "check", "idle") /\ Signed(ticket[p] - tail) >= Size
  /\ UNCHANGED <<head, tail, state, elements, ticket, item, pushed, got>>

TryPushRoom(p) ==
  /\ Step(p, "check", "exchange") /\ Signed(ticket[p] - tail) < Size
  /\ UNCHANGED <<head, tail, state, elements, ticket, item, pushed, got>>

\* ... and take the ticket if head_ is still what was loaded, ...
TryPushTake(p) ==
  /\ Step(p, "exchange", "claim") /\ head = ticket[p]
  /\ head' = (head + 1) % Wrap /\ Offer(p)
  /\ UNCHANGED <<tail, state, elements, ticket, got>>

\* ... or else load it anew and look at tail_ again.
TryPushRetry(p) ==
  /\ Step(p, "exchange", "check") /\ head # ticket[p]
  /\ ticket' = [ticket EXCEPT ![p] = head]
  /\ UNCHANGED <<head, tail, state, elements, item, pushed, got>>

ClaimBlind(p) ==   \* a slip: STORING is stored without a look at the state
  /\ Step(p, "claim", "write")
  /\ state' = [state EXCEPT ![Slot(p)] = Storing]
  /\ UNCHANGED <<head, tail, elements, ticket, item, pushed, got>>

ClaimAsStored(p) ==   \* a slip: STORED is set before the element is
  /\ Step(p, "claim", "write") /\ state[Slot(p)] = Empty
  /\ state' = [state EXCEPT ![Slot(p)] = Stored]
  /\ UNCHANGED <<head, tail, elements, ticket, item, pushed, got>>

\* do_push_any: the compare-exchange of EMPTY for STORING, ...
Claim(p) ==
  /\ Step(p, "claim", "write") /\ state[Slot(p)] = Empty
  /\ state' = [state EXCEPT ![Slot(p)] = Storing]
  /\ UNCHANGED <<head, tail, elements, ticket, item, pushed, got>>

\* ... the assignment of the element, ...
Write(p) ==
  /\ Step(p, "write", "publish")
  /\ elements' = [elements EXCEPT ![Slot(p)] = item[p]]
  /\ UNCHANGED <<head, tail, state, ticket, item, pushed, got>>

\* ... and the store of STORED.
Publish(p) ==
  /\ Step(p, "publish", "idle")
  /\ state' = [state EXCEPT ![Slot(p)] = Stored]
  /\ item' = [item EXCEPT ![p] = NoItem]
  /\ UNCHANGED <<head, tail, elements, ticket, pushed, got>>

Producer(p) ==
  \/ Push(p) \/ TryPush(p) \/ TryPushFull(p) \/ TryPushRoom(p)
  \/ TryPushTake(p) \/ TryPushRetry(p) \/ Claim(p) \/ Write(p) \/ Publish(p)

-----------------------------------------------------------------------------
(* pop and try_pop *)

\* pop: tail_.fetch_add, whether or not there is an item.
Pop(c) ==
  /\ Step(c, "idle", "claim")
  /\ ticket' = [ticket EXCEPT ![c] = tail] /\ tail' = (tail + 1) % Wrap
  /\ UNCHANGED <<head, state, elements, item, pushed, got>>

\* try_pop: the same loop as try_push's, with the words exchanged.
TryPop(c) ==
  /\ Step(c, "idle", "check")
  /\ ticket' = [ticket EXCEPT ![c] = tail]
  /\ UNCHANGED <<head, tail, state, elements, item, pushed, got>>

TryPopEmpty(c) ==
  /\ Step(c, "check", "idle") /\ Signed(head - ticket[c]) <= 0
  /\ UNCHANGED <<head, tail, state, elements, ticket, item, pushed, got>>

TryPopSome(c) ==
  /\ Step(c, "check", "exchange") /\ Signed(head - ticket[c]) > 0
  /\ UNCHANGED <<head, tail, state, elements, ticket, item, pushed, got>>

TryPopTake(c) ==
  /\ Step(c, "exchange", "claim") /\ tail = ticket[c]
  /\ tail' = (tail + 1) % Wrap
  /\ UNCHANGED <<head, state, elements, ticket, item, pushed, got>>

TryPopRetry(c) ==
  /\ Step(c, "exchange", "check") /\ tail # ticket[c]
  /\ ticket' = [ticket EXCEPT ![c] = tail]
  /\ UNCHANGED <<head, tail, state, elements, item, pushed, got>>

ClaimAndFree(c) ==   \* a slip: the slot is freed before it is read
  /\ Step(c, "claim", "read") /\ state[Slot(c)] = Stored
  /\ state' = [state EXCEPT ![Slot(c)] = Empty]
  /\ UNCHANGED <<head, tail, elements, ticket, item, pushed, got>>

\* do_pop_any: the compare-exchange of STORED for LOADING, ...
ClaimStored(c) ==
  /\ Step(c, "claim", "read") /\ state[Slot(c)] = Stored
  /\ state' = [state EXCEPT ![Slot(c)] = Loading]
  /\ UNCHANGED <<head, tail, elements, ticket, item, pushed, got>>

\* ... the move out of the element, ...
Read(c) ==
  /\ Step(c, "read", "release")
  /\ item' = [item EXCEPT ![c] = elements[Slot(c)]]
  /\ UNCHANGED <<head, tail, state, elements, ticket, pushed, got>>

\* ... and the store of EMPTY, after which the item is returned.
Release(c) ==
  /\ Step(c, "release", "idle")
  /\ state' = [state EXCEPT ![Slot(c)] = Empty]
  /\ item' = [item EXCEPT ![c] = NoItem]
  /\ got' = Append(got, item[c])
  /\ UNCHANGED <<head, tail, elements, ticket, pushed>>

Consumer(c) ==
  \/ Pop(c) \/ TryPop(c) \/ TryPopEmpty(c) \/ TryPopSome(c)
  \/ TryPopTake(c) \/ TryPopRetry(c) \/ ClaimStored(c) \/ Read(c) \/ Release(c)

-----------------------------------------------------------------------------

\* The bound: every producer has pushed its items, every item was returned.
Exhausted ==
  /\ \A p \in Producers : pc[p] = "idle" /\ pushed[p] = MaxPush
  /\ \A s \in Slots : state[s] = Empty
  /\ UNCHANGED vars

Next == \/ \E p \in Producers : Producer(p)
        \/ \E c \in Consumers : Consumer(c)
        \/ Exhausted

(* Threads are preemptively scheduled and go on in the operation they are  *)
(* in; a consumer comes back for more (loop_atomic), a producer need not.  *)
Fairness ==
  /\ \A p \in Producers : WF_vars(pc[p] # "idle" /\ Producer(p))
  /\ \A c \in Consumers : WF_vars(Consumer(c))

Spec == Init /\ [][Next]_vars /\ Fairness
-----------------------------------------------------------------------------
(* Properties *)

TypeOK ==
  /\ head \in Tickets /\ tail \in Tickets
  /\ state \in [Slots -> States]
  /\ elements \in [Slots -> Items \cup {NoItem}]
  /\ pc \in [Threads -> {"idle", "check", "exchange", "claim", "write",
                         "publish", "read", "release"}]
  /\ ticket \in [Threads -> Tickets]
  /\ item \in [Threads -> Items \cup {NoItem}]
  /\ pushed \in [Producers -> 0 .. MaxPush]
  /\ got \in Seq(Items)

(* elements_ is plain memory: two threads are never inside the same slot,  *)
(* though tickets a round apart, and a producer's and a consumer's equal   *)
(* tickets, name the same one.                                             *)
Inside(t) == pc[t] \in {"write", "publish", "read", "release"}
NoRace == \A t, u \in Threads :
            t # u /\ Inside(t) /\ Inside(u) => Slot(t) # Slot(u)

\* What push and try_push have returned for.
Pushing(p)   == pc[p] \in {"claim", "write", "publish"}
Published(p) == IF Pushing(p) THEN pushed[p] - 1 ELSE pushed[p]
PutItems     == {i \in Items : i[2] <= Published(i[1])}

\* What is in the slots, and what was returned.
Occupied  == {s \in Slots : state[s] \in {Stored, Loading}}
HeldItems == {elements[s] : s \in Occupied}
GotItems  == {got[k] : k \in DOMAIN got}

(* Nothing is lost, invented or duplicated: an item that was pushed lies   *)
(* in exactly one slot or was returned exactly once.                       *)
ExactlyOnce ==
  /\ HeldItems \cup GotItems = PutItems /\ HeldItems \cap GotItems = {}
  /\ \A s, u \in Occupied : elements[s] = elements[u] => s = u
  /\ \A j, k \in DOMAIN got : got[j] = got[k] => j = k

(* The difference of the two wrapping words, read as an int, is exactly    *)
(* the number of items pushed or under way less the number of consumers    *)
(* that wait: negative when pops run ahead, beyond the size when pushes    *)
(* do, and never mistaken for the other.                                   *)
WasSize == Signed(head - tail)
Balance ==
  WasSize =   Cardinality({p \in Producers : pc[p] = "claim"})
            + Cardinality({s \in Slots : state[s] \in {Storing, Stored}})
            - Cardinality({c \in Consumers : pc[c] = "claim"})

(* try_push gives up only when the queue is full, and try_pop only when it *)
(* is empty, at that moment, though each compares with a word it loaded    *)
(* earlier and others may have moved since.                                *)
GivesUp(t) == pc[t] = "check" /\ pc'[t] = "idle"
HonestRefusal ==
  [][ /\ \A p \in Producers : GivesUp(p) => WasSize >= Size
      /\ \A c \in Consumers : GivesUp(c) => WasSize <= 0 ]_vars

(* With consumers that come back, a push that has its ticket returns.      *)
PushReturns == \A p \in Producers : pc[p] = "claim" ~> pc[p] = "idle"

(* What that takes: no thread stands between its loads while the words     *)
(* move by half their range.  They move with every item that is pushed,    *)
(* and tail_ runs ahead of head_ by no more than the consumers that wait.  *)
FewTickets ==
  /\ IsFiniteSet(Producers) /\ IsFiniteSet(Consumers)
  /\ Cardinality(Producers) * MaxPush + Cardinality(Consumers) < Wrap \div 2

(* Any number of producers and consumers: the queue is a bag, and what is  *)
(* put in is taken out.                                                    *)
Bag == INSTANCE BagChannel WITH inside <- HeldItems, taken <- GotItems
IsBag == Bag!Spec

(* What the comment on head_.fetch_add and tail_.fetch_add says of several *)
(* producers: "FIFO".  One consumer then gets the items of one producer in *)
(* the order it pushed them.                                               *)
ProducerOrder ==
  \A j, k \in DOMAIN got :
    j < k /\ got[j][1] = got[k][1] => got[j][2] < got[k][2]
=============================================================================
