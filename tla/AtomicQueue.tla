---------------------------- MODULE AtomicQueue ----------------------------
(***************************************************************************)
(* src/src/atomic_queue/atomic_queue.h: AtomicQueueCommon with the slots   *)
(* of AtomicQueue, each an atomic element that is NIL when empty.  A pop   *)
(* that finds NIL sleeps in std::atomic::wait, and every push ends with    *)
(* notify_one; only one of the threads asleep on the slot hears it.        *)
(*                                                                         *)
(* push and pop take their tickets as in AtomicQueue2, whose try_push and  *)
(* try_pop end in the same do_push and do_pop.  MAXIMIZE_THROUGHPUT has    *)
(* its default, true.  Every atomic access is a step.                      *)
(***************************************************************************)
EXTENDS Naturals, Sequences

CONSTANTS
  Producers, Consumers,  \* the threads that push and that pop
  MaxPush,   \* how many items a producer pushes (a bound)
  Size,      \* size_
  Wrap,      \* the number of values of an unsigned
  Origins,   \* what completed pairs of push and pop have left in both words
  Spsc       \* spsc_: one producer and one consumer, which do not exchange

VARIABLES
  head, tail,   \* head_ and tail_
  elements,     \* elements_
  pc,           \* where each thread is
  ticket,       \* its local head or tail
  item,         \* what it pushes, or has loaded
  pushed,       \* how many items each producer has taken a ticket for
  got           \* what pop has returned, in that order

vars == <<head, tail, elements, pc, ticket, item, pushed, got>>

Threads == Producers \cup Consumers
Slots   == 0 .. Size - 1
Tickets == 0 .. Wrap - 1

ASSUME ElementAssumption ==
  /\ Size \in Nat \ {0} /\ MaxPush \in Nat /\ Spsc \in BOOLEAN
  /\ Wrap \in Nat \ {0} /\ Wrap % Size = 0 /\ Origins \subseteq Tickets
  /\ Producers \cap Consumers = {}
  /\ Spsc => /\ \A p, q \in Producers : p = q
             /\ \A c, d \in Consumers : c = d

\* An item names its producer and its place in what that producer pushes.
Items == Producers \X (1 .. MaxPush)
NIL   == <<>>

Init ==
  /\ head \in Origins /\ tail = head
  /\ elements = [s \in Slots |-> NIL]
  /\ pc = [t \in Threads |-> "idle"]
  /\ ticket = [t \in Threads |-> 0]
  /\ item = [t \in Threads |-> NIL]
  /\ pushed = [p \in Producers |-> 0]
  /\ got = <<>>

\* The slot of a thread's ticket; the index map is a bijection, left out here.
Slot(t) == ticket[t] % Size

Step(t, from, to) == pc[t] = from /\ pc' = [pc EXCEPT ![t] = to]

-----------------------------------------------------------------------------
(* push *)

\* push: the ticket.  In an SPSC queue nobody else moves head_.
Push(p) ==
  /\ pushed[p] < MaxPush /\ Step(p, "idle", IF Spsc THEN "room" ELSE "store")
  /\ ticket' = [ticket EXCEPT ![p] = head] /\ head' = (head + 1) % Wrap
  /\ item' = [item EXCEPT ![p] = <<p, pushed[p] + 1>>]
  /\ pushed' = [pushed EXCEPT ![p] = @ + 1]
  /\ UNCHANGED <<tail, elements, got>>

\* do_push_atomic: the compare-exchange of NIL for the element, ...
Store(p) ==
  /\ Step(p, "store", "notify") /\ elements[Slot(p)] = NIL
  /\ elements' = [elements EXCEPT ![Slot(p)] = item[p]]
  /\ UNCHANGED <<head, tail, ticket, item, pushed, got>>

SpscRoomBlind(p) ==   \* a slip: no look at the element
  /\ Step(p, "room", "put")
  /\ UNCHANGED <<head, tail, elements, ticket, item, pushed, got>>

\* ... or, in an SPSC queue, a load that finds NIL, and a store, ...
SpscRoom(p) ==
  /\ Step(p, "room", "put") /\ elements[Slot(p)] = NIL
  /\ UNCHANGED <<head, tail, elements, ticket, item, pushed, got>>

SpscPut(p) ==
  /\ Step(p, "put", "notify")
  /\ elements' = [elements EXCEPT ![Slot(p)] = item[p]]
  /\ UNCHANGED <<head, tail, ticket, item, pushed, got>>

\* ... and notify_one: one thread asleep on the slot wakes, if there is any.
Asleep(s) == {c \in Consumers : pc[c] = "asleep" /\ Slot(c) = s}

NotifyOther(p) ==   \* a slip: the address notified is not the slot's
  /\ Step(p, "notify", "idle")
  /\ UNCHANGED <<head, tail, elements, ticket, item, pushed, got>>

Notify(p) ==
  /\ pc[p] = "notify"
  /\ IF Asleep(Slot(p)) = {} THEN pc' = [pc EXCEPT ![p] = "idle"]
     ELSE \E c \in Asleep(Slot(p)) :
            pc' = [pc EXCEPT ![p] = "idle", ![c] = "wait"]
  /\ item' = [item EXCEPT ![p] = NIL]
  /\ UNCHANGED <<head, tail, elements, ticket, pushed, got>>

Producer(p) == Push(p) \/ Store(p) \/ SpscRoom(p) \/ SpscPut(p) \/ Notify(p)

-----------------------------------------------------------------------------
(* pop *)

\* pop: the ticket.
Pop(c) ==
  /\ Step(c, "idle", IF Spsc THEN "load" ELSE "exchange")
  /\ ticket' = [ticket EXCEPT ![c] = tail] /\ tail' = (tail + 1) % Wrap
  /\ UNCHANGED <<head, elements, item, pushed, got>>

\* do_pop_atomic: the exchange for NIL returns an item, ...
Take(c) ==
  /\ Step(c, "exchange", "idle") /\ elements[Slot(c)] # NIL
  /\ elements' = [elements EXCEPT ![Slot(c)] = NIL]
  /\ got' = Append(got, elements[Slot(c)])
  /\ UNCHANGED <<head, tail, ticket, item, pushed>>

\* ... or NIL.
Miss(c) ==
  /\ Step(c, "exchange", "wait") /\ elements[Slot(c)] = NIL
  /\ UNCHANGED <<head, tail, elements, ticket, item, pushed, got>>

SleepBlind(c) ==   \* a slip: asleep without a comparison with NIL
  /\ Step(c, "wait", "asleep")
  /\ UNCHANGED <<head, tail, elements, ticket, item, pushed, got>>

\* wait(NIL): the comparison and the sleep are one step; a thread that wakes,
\* for a notification or for none, compares again.
Sleep(c) ==
  /\ Step(c, "wait", "asleep") /\ elements[Slot(c)] = NIL
  /\ UNCHANGED <<head, tail, elements, ticket, item, pushed, got>>

Wake(c) ==
  /\ Step(c, "asleep", "wait")
  /\ UNCHANGED <<head, tail, elements, ticket, item, pushed, got>>

WaitReturns(c) ==
  /\ Step(c, "wait", "look") /\ elements[Slot(c)] # NIL
  /\ UNCHANGED <<head, tail, elements, ticket, item, pushed, got>>

\* The load after wait: to wait again, or to the exchange.
Look(c) ==
  /\ Step(c, "look", IF elements[Slot(c)] = NIL THEN "wait" ELSE "exchange")
  /\ UNCHANGED <<head, tail, elements, ticket, item, pushed, got>>

\* In an SPSC queue a load that finds an item, and a store of NIL.
SpscLoad(c) ==
  /\ Step(c, "load", "free") /\ elements[Slot(c)] # NIL
  /\ item' = [item EXCEPT ![c] = elements[Slot(c)]]
  /\ UNCHANGED <<head, tail, elements, ticket, pushed, got>>

SpscFree(c) ==
  /\ Step(c, "free", "idle")
  /\ elements' = [elements EXCEPT ![Slot(c)] = NIL]
  /\ got' = Append(got, item[c]) /\ item' = [item EXCEPT ![c] = NIL]
  /\ UNCHANGED <<head, tail, ticket, pushed>>

Running(c) == \/ Take(c) \/ Miss(c) \/ Sleep(c) \/ WaitReturns(c) \/ Look(c)
              \/ SpscLoad(c) \/ SpscFree(c)

Consumer(c) == Pop(c) \/ Running(c) \/ Wake(c)

-----------------------------------------------------------------------------

\* The bound: every producer has pushed its items, every item was returned.
Exhausted ==
  /\ \A p \in Producers : pc[p] = "idle" /\ pushed[p] = MaxPush
  /\ \A s \in Slots : elements[s] = NIL
  /\ UNCHANGED vars

Next == \/ \E p \in Producers : Producer(p)
        \/ \E c \in Consumers : Consumer(c)
        \/ Exhausted

(* As in AtomicQueue2; nobody counts on waking without a notification.     *)
Fairness ==
  /\ \A p \in Producers : WF_vars(pc[p] # "idle" /\ Producer(p))
  /\ \A c \in Consumers : WF_vars(Pop(c) \/ Running(c))

Spec == Init /\ [][Next]_vars /\ Fairness
-----------------------------------------------------------------------------
(* Properties *)

TypeOK ==
  /\ head \in Tickets /\ tail \in Tickets
  /\ elements \in [Slots -> Items \cup {NIL}]
  /\ pc \in [Threads -> {"idle", "store", "room", "put", "notify", "exchange",
                         "wait", "asleep", "look", "load", "free"}]
  /\ ticket \in [Threads -> Tickets]
  /\ item \in [Threads -> Items \cup {NIL}]
  /\ pushed \in [Producers -> 0 .. MaxPush]
  /\ got \in Seq(Items)

(* No lost wakeup: while a slot holds an item and a thread sleeps on it,   *)
(* either the notification has still to be sent or a thread that is awake  *)
(* is about to look at the slot.  A thread may have slept through the      *)
(* notifications of many rounds, each given to another thread.             *)
Coming(s) ==
  \/ \E p \in Producers : pc[p] = "notify" /\ Slot(p) = s
  \/ \E c \in Consumers : pc[c] \in {"exchange", "wait", "look"} /\ Slot(c) = s
NoLostWakeup ==
  \A s \in Slots : elements[s] # NIL /\ Asleep(s) # {} => Coming(s)

\* What has been stored, is in the slots, and was returned.
Storing(p) == pc[p] \in {"store", "room", "put"}
Stored(p) == IF Storing(p) THEN pushed[p] - 1 ELSE pushed[p]
PutItems  == {i \in Items : i[2] <= Stored(i[1])}
HeldItems == {elements[s] : s \in Slots} \ {NIL}
GotItems  == {got[k] : k \in DOMAIN got}

(* Nothing is lost, invented or duplicated: an item that was stored lies   *)
(* in exactly one slot or was returned exactly once.                       *)
ExactlyOnce ==
  /\ HeldItems \cup GotItems = PutItems /\ HeldItems \cap GotItems = {}
  /\ \A s, u \in Slots : elements[s] = elements[u] /\ elements[s] # NIL => s = u
  /\ \A j, k \in DOMAIN got : got[j] = got[k] => j = k

(* The queue is a bag, and what is put in is taken out, by threads that    *)
(* sleep while there is nothing for them.                                  *)
Bag == INSTANCE BagChannel WITH inside <- HeldItems, taken <- GotItems
IsBag == Bag!Spec

(* An SPSC queue is first in, first out: what is inside are the elements   *)
(* from the consumer's place to head_, the last without the one that the   *)
(* producer has a ticket for and has not stored.                           *)
First == IF \E c \in Consumers : pc[c] # "idle"
         THEN ticket[CHOOSE c \in Consumers : TRUE] ELSE tail
Queued ==
  LET tickets == (head + Wrap - First) % Wrap
      unused  == IF \E p \in Producers : Storing(p) THEN 1 ELSE 0
  IN  [k \in 1 .. tickets - unused |-> elements[(First + k - 1) % Size]]
Fifo == INSTANCE FifoChannel WITH inside <- Queued, taken <- got
IsFifo == Fifo!Spec
=============================================================================
