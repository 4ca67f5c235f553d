# hello-webgpu: a verification project

TLA+ models of the concurrent parts of hello-webgpu, a program that draws with
WebGPU from a thread of its own while all WebGPU objects live on another one,
and of the queues it was tried out with. TLC checks the models on small
instances, and TLAPS proves what matters most for every instance. Paths below
are those of the repository, under `src/`.

## The system

The repository is one demo and the machinery tried out for it:

| Part | Files | State | Operations | Talks to |
|---|---|---|---|---|
| Offload (the demo) | `src/main.cpp` | mailbox word `func_and_type2`, counter `doing`, flag `waiting`, the message channel | `__main__`, `dispatch`, `redraw`, `getTypeV_atomic`, `yieldToJS`, `loop00`, `loop1_start`, `cb` | two threads through the mailbox; the browser through messages, promises' callbacks and the frame |
| Native windows | `src/mac/window.mm`, `src/win/window.cpp` | the window, its messages, the display link, `running` | create, show, loop, yield, toggleFullscreen, destroy | the operating system's events and the display link's thread |
| Queue-driven loop (the test program) | `helper.cpp:682-754`, `helper.h`, `test.cpp` | the queue `q`, flag `yielding`, the channel | `threadTest`, `simpleTest`, `loop_atomic`, `loop_atomic_start`, `yieldToJS` | producer threads and the loop thread through `q` and the flag |
| Lock-free queues | `src/atomic_queue/atomic_queue.h` | `head_`, `tail_`, `states_`, `elements_` | `push`, `pop`, `try_push`, `try_pop`, `was_size` | any number of producers and consumers |
| Locks and the mutex queue | `src/atomic_queue/spinlock.h`, `barrier.h`, `atomic_queue_mutex.h` | tickets, a lock word, an array | `lock`, `unlock`, `try_push`, `try_pop` | threads |
| Alternative queues | `helper.cpp:97-676` | chains of buffers and a pool; slots with turns; a deque with a mutex and two conditions | enqueue, dequeue, push, pop and their try_ forms | nobody: kept beside `q`, to stand in for it |
| moodycamel's queue | `src/concurrentqueue/*.h` | of each producer a ring or chain of blocks, its index and counters; the list of producers, the hash table of threads, the free list, tokens, a semaphore | enqueue and dequeue, single and in bulk, with and without tokens; waits; moves | any number of threads |
| sync_to_async (PThreadFS) | `src/pthreadfs.cpp`, `src/pthreadfs.h` | two mutexes, one condition variable, `work`, `readyToWork`, `finishedWork`, `quit`, global results | the constructor and destructor, `invoke`, `threadIter`, `resume`, the call macros | clients, a child thread, the child's event loop |
| Proxying | `proxying.h`, `em_test_cpp.cpp`, `em_test_c.cpp` | Emscripten's queue (outside the repository), the tests' flags | `proxyAsync`, `proxySync`, `proxySyncWithCtx`, `execute` | test threads `looper` and `returner` |
| Start of the page | `src/ems/*.cpp` | a promise chain | `main`, `glue_preint`, `_glue_main_` | calls `__main__` |
| Vendored and generated | `lib/dawn`, `*.js`, `*.html` | | | |

### What is hard in it

- **Two threads and one word.** Both producers of the mailbox store to it
  blindly. Whether a posted body can be overwritten, run twice or never run
  depends on `doing`, on the two spin waits and on who may call what.
- **The event loop.** `loop00` and `loop_atomic` hold the browser's thread for
  as long as they run. The frame is shown, and callbacks run, only between two
  runs. Each run must leave exactly one message that starts the next.
- **The flag and the callback.** `dispatch` spins on `waiting`, which its body
  raises and a callback lowers, both on the other thread and at other times.
- **Tickets.** A push and a pop take a ticket and then wait for a slot, without
  asking whether the queue is full or empty, and the ticket words wrap.
- **One condition variable, both directions,** with `notify_one`, a mutex that
  one thread locks in one function and unlocks in another, asynchronously, and
  a destructor that joins.
- **The load and store of `yielding`** in `loop_atomic` are two accesses, and a
  producer may raise the flag between them.
- **Optimistic claims.** A consumer of moodycamel's queue claims items with one
  counter, gives up what was not there with another, and finds the block of
  what it has through an index the producer is changing. Blocks and producers
  are used again, tables grow under those that search them, and every
  allocation and every constructor may fail half way.
- **A wait that gives up** while the signal meant for it is on its way.
- **A display link** that waits for the main thread, which stops the link.

Every such place is listed under `hazards` in `PROJECT.json` at its line, with
the properties that watch it, or with the reason why none does.

## The modules

| Module | Models | Role |
|---|---|---|
| `FramePacing` | what the browser sees of the demo | abstract specification |
| `Offload` | `main.cpp` | detailed specification, implements `FramePacing` |
| `WinWindow`, `MacWindow` | `window.cpp`, `window.mm` | the redraw loops of the native windows |
| `BagChannel`, `FifoChannel` | what a queue promises | abstract specifications |
| `AtomicQueue2` | `AtomicQueueCommon` and `AtomicQueue2` | implements `BagChannel` |
| `AtomicQueue` | `AtomicQueueCommon` and `AtomicQueue`, both modes | implements `BagChannel`, and `FifoChannel` in the SPSC mode |
| `IndexMath` | the index arithmetic of the queues | what the queues assume of `Remap` and `Size` |
| `LoopAtomic` | the test program, on a bag | composes the loop with the queue's abstraction |
| `Proxying` | `em_test_cpp.cpp` over `proxying.h` | a whole program |
| `WaitMpscQueue`, `MpmcQueue`, `BoundedQueue` | the other queues of `helper.cpp` | the last implements `FifoChannel` |
| `SpinlockQueue` | `AtomicQueueMutexT` over the two spinlocks | implements `FifoChannel` |
| `SerialCalls` | what `invoke` promises | abstract specification |
| `SyncToAsync` | `pthreadfs.cpp` | implements `SerialCalls` |
| `SubQueue` | what moodycamel's two kinds of producer share | extended by the next two |
| `ExplicitProducer`, `ImplicitProducer` | the producer behind a token, and that of a thread | |
| `FreeList` | where blocks wait to be used again | refines the one step `SubQueue` makes of it |
| `Registry` | how threads and tokens come by producers | |
| `Consumers` | how consumers go round the producers | what a producer answers is left open |
| `CountingSemaphore` | what a semaphore promises | abstract specification |
| `LightweightSemaphore`, `BlockingQueue` | `lightweightsemaphore.h`, and `blockingconcurrentqueue.h` on it | implements `CountingSemaphore` |
| `QueueMoves` | queues and tokens moved, swapped, destroyed | |
| `MC*` | instances | constants for TLC, and parts side by side |
| `Sums` | sums over threads as cardinalities | used by `BlockingQueue`, `SubQueue` and the proofs |
| `QueueLemmas`, `*_proofs` | lemmas the proofs share, theorems | TLAPS |

Inside a module some operators are marked *a slip*: the same action with the
mistake a hand could make there, used to see that each property can fail. They
are not part of any specification.

Most MC modules run several modules side by side: a variable says which part a
behaviour is of, and the variables of the other parts keep their initial
values. The parts share nothing, so the states of such a run are the sum of the
states of its parts, and the properties of each hold of the behaviours of it.

### Offload

One step is one atomic access, one test of a loop, or one call that changes
shared state. `slot` is `func_and_type2`; a function pointer is the name of the
function whose lambda it is. The detached thread is at `pc` in the function
`fn`; the main browser thread is at `loop`, in `loop00`, in the callback, or
in its event loop. Spin waits are guards. The loads and stores that the source
marks relaxed are sequentially consistent in WebAssembly, so no weaker memory
order is modelled. The drawing calls of a body, and the creation of the
resources, are one step each, since no other thread has a name for what they
touch. Creation of the window or of the device can fail, and then nothing
starts. The mapping of the buffer succeeds or fails, and `cb` lowers `waiting`
in both cases.

Properties: `Accounting` (the counter `doing` is exactly the bodies that are
being posted, posted or running), `NothingOverwritten` (a posted body leaves
the mailbox only into the hands of `loop00`), `BodiesRun` (every posted body is
run, and the readback is answered and the thread goes on to draw) and
`PacedFrames` (the refinement of `FramePacing`). `YieldIsQuiet`,
`OneFramePerTurn`, `WaitingMatchesMap` and `OneToken` are parts of the
inductive invariant and proved.

The module has no parameter and 169 states: for this program the check is
exhaustive.

### WinWindow and MacWindow

`main.cpp` no longer drives the native windows, so the program is the one
`window.h` prescribes: create, show, loop, destroy, on Windows perhaps again.
Of the system only what the code relies on is there: WM_QUIT is a flag that is
handed out once, a class is registered once, a request of the display link is
not an event. `CVDisplayLinkStop` waits for a callback that is under way or
does not: the source says that the call is *freezing sometime*
(`window.mm:149`), and the model has both.

`StyleMatches`: the window is framed or in fullscreen as `FSState` says,
whatever keys and moves to other monitors come. `LoopsEnd`: a window told to
close is destroyed, whatever messages follow; on macOS with two exceptions that
the code has, the freeze above and a redraw that says it was the last, which
`wait` notices only at the next event. `FSState` is static and would be wrong
for a second window, but a second `create` returns null, because the class
`AppWin` stays registered.

### AtomicQueue2

One step is one access to `head_`, `tail_`, a state or an element. A
compare-exchange that fails in a spin loop is a guard; the one that fails in
`try_push` or `try_pop` is a step of its own, since it loads the word anew.
`Wrap` stands for 2^32: the words wrap, and their difference is read as a
signed integer. `Remap` is the index map, any bijection of the slots in the
proofs and the identity in the instances; `IndexMath` checks the real one. A
queue starts with equal words and empty slots, which is the state a queue is in
after any number of completed pairs of operations, and the instances start one
short of the wrap so that both words wrap in each run.

Properties: `NoRace` (no two threads inside one slot), `ExactlyOnce` (an item
pushed is in one slot or was returned once), `HonestRefusal` (a refused
`try_push` found the queue full at that moment, though it compares words it
loaded at different times) and `IsBag` with its liveness. The queue is no FIFO
for several producers: see the findings. `Balance` (the difference of the words
is the pushes begun less the pops begun) is proved with `HonestRefusal`, under
`FewTickets`: the tickets that can be drawn stay below half the range of the
words, as they do in the instance, where TLC evaluates it (`FewAssumption`).

### AtomicQueue

The variant whose elements are atomic and say by themselves whether they are
empty (`NIL`). A pop whose exchange found `NIL` calls `std::atomic::wait`, and
each push ends with `notify_one`. `wait` is external: it looks at the element
and sleeps in one step (`Sleep`), a notification wakes one sleeper of the slot
(`Notify`), and a sleeper may wake by itself (`Wake`). A woken thread exchanges
and looks again, in competition with threads whose tickets are rounds away.
With `Spsc` the element is loaded and stored instead of exchanged, and nothing
but the number of threads makes that safe.

Properties: `NoLostWakeup` (while an item lies in a slot with sleepers, a
notification or an awake consumer of that slot is on its way), `IsBag` with its
liveness (sleepers or not, what is put in is taken out), and `SingleIsFifo` in
the SPSC mode. `ExactlyOnce` is proved. `Queued` is the order of the items for
the map to `FifoChannel`: those in the slots of the consumer's next tickets.

### IndexMath

The templates of `namespace details` as operators on words of `Width` bits, for
the four queues' two ways to derive a size: a template parameter, shuffled only
when it is large enough, or an argument, raised to what the shuffle needs. The
only action is the next ticket. `SlotsApart` says that the capacity is the
least power of two that fits, that a round of tickets has a slot each, from any
ticket on (which is `RemapAssumption` of `AtomicQueue2`, and the reason why the
words may wrap), and that neighbours are on different cache lines, which is
what the shuffle is for. The module uses bitwise operators and recursion, so
nothing is proved about it; it is checked for every ticket.

### LoopAtomic

The producers of `test.cpp` push a lambda and, every `YIELD_FREQ` ticks, raise
`yielding`. The loop thread loads the flag, and then either lowers it, posts
the message and returns, or pops and runs a lambda. The queue is the bag that
`AtomicQueue2` implements; all lambdas are the same, so only their number is
kept. The variables `owed`, `late` and `served` are history: they record what
was asked and how long it took, and no guard reads them.

Properties: `NoYieldLost` (a flag erased between load and store belonged to a
return that is under way), `BoundedTurn` (a bound on the lambdas of one turn)
and `LoopTurnsForever`. `PromptYield` (at most one more lambda starts after a
request) and `OneToken` are proved beside them.

`TurnBound` is tight: with a bound one smaller the run finds a violation. It
says that one turn runs no more than what was queued when it began, what each
producer pushes until it next asks, and the one that was being popped.

### Proxying

`em_test_cpp.cpp` is a program without input, so the model is the program: the
main thread proxies seven lambdas, three asynchronous ones to each thread in
turn, and two of each synchronous kind. Emscripten's queue is external, a
sequence of tasks for each thread. A lambda writes `i` and `executor` of the
test function it was made in, two plain variables that another thread may see
written in either order, and notifies. The main thread's look at `i` and its
sleep are two steps, because the lambda takes no mutex. `heap` holds the lambdas
that `proxyAsync` allocated and `runAndFree` has not freed; `timer` the calls
that `returner` finishes in a later turn.

Properties: `LateOnlyNotify` (a lambda that outlives the function whose locals
it refers to writes to none of them) and `Ends` (the program ends, unless an
assertion fails or the main thread sleeps when its only notification has been
sent, and both can happen).

### WaitMpscQueue, MpmcQueue, BoundedQueue, SpinlockQueue

*WaitMpscQueue* is zib's queue: a chain of buffers for each producer, numbers
from the counter `up_to_`, a consumer that looks for the least number it can
see, waits in `sleeping_` when it sees none, and gives read buffers back through
`allocation_pool`. An item is its number. Buffers of one item and a pool of two
make every enqueue meet the end of a buffer and the pool wrap. `earlier` is
history: for each number drawn, those that were stored then. The order promised
is `Oldest`: an item is not dequeued before one that was in the queue when its
number was drawn. That is weaker than the order of numbers, which the queue does
not keep among enqueues that overlap. `Emptied`: the consumer does not sleep
through an item. `OneHome`: a buffer is in one chain, the pool or a hand, until
the destructor (`Destroy`) has deleted the chains and emptied the pool.

*MpmcQueue* is rigtorp's: a slot has a turn, so a ticket meets only the push or
pop of its own round. `OwnItem` says that a pop gets the item of the push with
its ticket, which is where `AtomicQueue2` fails. `TurnComes`: a producer that
waits for its turn gets it while consumers come.

*BoundedQueue* is the deque with one mutex and a condition variable for each
side; a critical section is one step, a notification comes after it, and only
the thread it wakes looks again. *SpinlockQueue* is the array of
`AtomicQueueMutexT` with each access a step, under a `TicketSpinlock` whose
words wrap, or an `UnfairSpinlock`. Both implement `FifoChannel`.

`InOrder` is the conjunction of what the four promise of order, `NobodyStays`
of what they promise to those that wait; of `BoundedQueue`, that all items come
out (`AllThrough`).

### SyncToAsync

A critical section of a caller is one step, because what it touches is touched
under the mutex only. `condition.wait` is two actions: without the condition
the thread joins `sleepers` and leaves the mutex; awake, and with the mutex
free, it looks again. `notify_one` wakes any sleeper, and a sleeper may wake by
itself. The child keeps the mutex from `childLock.lock` to `resume`, which for
asynchronous work is a later turn of its event loop. `finishedWork` starts with
either value, since the class gives it no initializer. `depth` counts the
frames of `threadIter` on the child's stack, up to `MaxDepth`.

Properties: `NoLostWakeup`, `ReturnsWhenDone` (a call returns after its own
work resumed, once), `Destroyed` (the destructor returns) and `IsSerial` (the
refinement of `SerialCalls`, which is what the class comment promises).
`HeldWhileRunning` and `SentWorkStays` are proved.

The clients leave before the destructor runs, as the static object's users do.

### SubQueue, ExplicitProducer, ImplicitProducer, FreeList

The queue of one producer, the heart of moodycamel's. `tail` and `head` count
from the start, and everything the code computes from them is taken modulo
`wrap`. An item is its place in the order of enqueues, so that what a dequeue
gets can be compared with what it should get. Every access to something two
threads share is a step: the two counters of a claim, the load of the index and
of its front, the visit of the block, the mark that empties it. The producer's
private work goes with its next shared access. The two kinds differ in how they
keep blocks: an explicit producer has a ring whose empty blocks it uses again
and a circular index; an implicit one gives an emptied block to the free list
and nulls its index entry. A setup says what memory there is; whatever may not
be had fails at every place where it is asked for. With `throws` each
constructor may throw, in a single enqueue or within a bulk, whose items are
then destroyed and whose blocks go back.

- `RightItem`: a consumer that has found its block is at the block that holds
  what it claimed, however the producer has changed or replaced the index since.
- `NeverPastTail`: claims not given up never exceed what is there, and the two
  counters agree with `head`, in words that wrap.
- `OneHome`: an item lies in one block until it is dequeued, and a block that
  is free, unmade or counts as empty holds none.
- `CleanEnd`: the destructor destroys exactly what was not dequeued.
- `Drains`: a consumer that goes on alone finds every item, whatever others
  have claimed in vain. Two that go on can each spoil the other's claim for
  ever: an empty answer may be false then, but never a loss.

`WithinWords` says how far apart the counts may be for the words to tell which
of two is ahead; `NeverPastTail` is proved where it always holds.

*FreeList* is the step `free` of `SubQueue` in detail: the stack of nodes with
reference counts, every atomic access a step. A count is a word: it holds the
references, one for the list, and the flag `SHOULD_BE_ON_FREELIST`, a bit above
them (`BitAssumption`). `OneOwner` (no node has two
owners, or one and the list: the ABA case) and `NoneLost` (in the end a node
nobody has is on the list, whoever was left to push it).

### Registry and Consumers

*Registry*: `recycle_or_create_producer` takes an inactive producer of the list
or adds one; a thread without a token finds its producer by its id in a hash
table, is put there, and when the table is half full makes one twice as large,
while others wait only when it is three quarters full. Both builds are there
(`listens`): with `MOODYCAMEL_CPP11_THREAD_LOCAL_SUPPORTED` a thread's exit is
heard of, and its keys become tombstones; without it, the default, a later
thread with the same id finds the first one's producer. `OneUser`: a producer
is in one hand. `FoundAgain`: as long as it lives a thread finds the producer it
was given, in whatever table, no later thread takes it for its own, an insertion
always finds a slot that is free or a tombstone (`RoomForAll`), and, without
`listens`, a search always meets a free one, at which it ends (`SlotFree`). With
`listens` that last part is false in the long run, see the findings. `Ends` is
part of `CallsEnd`.

*Consumers*: the walks down the list of producers, from the fullest of the first
three, or from a token's place round the list. `EveryoneAsked`: who comes back
with nothing has been refused by every producer that was listed when it called.
`Spread`: tokens that know of the same rotation are as far apart as their
numbers. `CallsReturn` is part of `CallsEnd`: a walk ends although the list may
grow ahead of it.

### LightweightSemaphore and BlockingQueue

`m_count` is the permits or, when negative, the waiters no permit is on its way
to; the system's semaphore is external and holds the permits that are on their
way. A wait that times out must undo its place, or take the permit that was
posted meanwhile. A wait without a limit may be interrupted: then `wait_dequeue`
waits again, while `wait_dequeue_bulk` and the timed waits with a negative time
return empty-handed (the limit `once`). The blocking queue
asks the inner queue for an item after it has a permit, and again until it gets
it. `NoneForgotten`: when the enqueues have returned, items nobody has a permit
for are in the count, and nobody sleeps while there is one. `IsCounting`: the
semaphore implements `CountingSemaphore`. `LimitedReturns`, part of `CallsEnd`:
a call with a limit returns, unless others change the count between its load
and its exchange for ever (it is lock-free, not wait-free).

### QueueMoves

Queues are constructed, moved, swapped and destroyed, and so are producer
tokens, by a program that, as the header demands, uses no queue meanwhile; hence
an operation is one step. `Whole`: each producer's parent is the queue that
lists it, a thread finds its own producer there, the chain of tables ends in the
queue's own one (which lies in the object and cannot move) and in no other's,
the counts are right, and a token and its producer point at each other.

## The runs

A run's parts are listed with their states where it has several.

| Run | Instance | Distinct states | Shows |
|---|---|---|---|
| `offload` | the program, 169; two windows with 3 messages each, on Windows; 3 events on macOS | 4,769 | `Accounting`, `NothingOverwritten`, `BodiesRun`, `PacedFrames`; `StyleMatches`, `LoopsEnd` |
| `atomic_queue` | 2 producers, 2 consumers, 2 items each, 2 slots, words of 16 | 116,883 | `NoRace`, `ExactlyOnce`, `HonestRefusal`, `IsBag` |
| `element_queue` | the same for `AtomicQueue`; 1 producer of 6 items and 1 consumer, SPSC; words of 7 bits, 11 sizes, lines of 1, 2, 4, 5, 8 | 53,347 | `NoLostWakeup`, `IsBag`; `SingleIsFifo`; `SlotsApart` |
| `sync_to_async` | 2 clients, the destructor, the child, depth 3 | 19,967 | `NoLostWakeup`, `ReturnsWhenDone`, `Destroyed`, `IsSerial` |
| `loop_atomic` | the loop: 2 producers, 3 slots, a yield every 2nd tick, 6,609; `Proxying`: the program, 295; `WaitMpscQueue`: producers of 3 items and 1, buffers of one item, a ring of two, 83,296; `MpmcQueue`: 2 producers, 1 consumer, 2 slots, 3 tickets, 3,760; `BoundedQueue`: 2 and 2 threads, room for 1, 4 items, 1,182; `SpinlockQueue`: 3 threads, 2 slots, words of 4, 3 items, 2,612 | 97,754 | `NoYieldLost`, `BoundedTurn`, `LoopTurnsForever`; `LateOnlyNotify`, `Ends`; `InOrder`, `NobodyStays` |
| `sub_queue` | blocks of 2, indexes of 2 at first, the setups below; `FreeList`: 3 threads, 2 nodes | 1,030,804 | `RightItem`, `NeverPastTail`, `OneHome`, `CleanEnd`, `Drains`; `OneOwner`, `NoneLost` |
| `moodycamel` | `Registry`: 2 threads in one slot or 2 tokens or one of each, a table of 1 at first, 1 failure; `Consumers`: 3 producers and 3 rotations, fewer producers or up to 2 that come and 1 rotation; `BlockingQueue`: 1 producer of 3 items, 2 consumers, 1 interrupt; `QueueMoves`: 2 queues, 2 tokens, 2 threads | 357,145 | `OneUser`, `FoundAgain`; `EveryoneAsked`, `Spread`; `NoneForgotten`, `IsCounting`; `Whole`; `CallsEnd` of three |
| `sync_result` | that of `sync_to_async` | violation | `OwnResult` fails |
| `sub_queue_short` | one consumer, bulks of 3 and 5, memory for 3 blocks | violation | `RightItem` fails |
| `sub_queue_throwing` | one consumer, constructors that throw | violation | `CleanEnd` fails |
| `moodycamel_tombstones` | 8 threads one after the other, 8 slots | violation | `SlotFree` fails |
| `moodycamel_quota` | quota 2, single calls and bulks of 2 | violation | `RotatesAtQuota` fails |

The setups of `sub_queue`: *Pair*, two consumers in single and bulk calls on
four items; *Long*, one consumer and nine items in bulks, so that the index must
grow; *Word*, seventeen items in a word of sixteen values (nine in eight for the
implicit kind), so that every counter wraps and blocks of an earlier turn of the
word are used again; *Tight*, a limit of four items; *pool*, an initial pool and
nothing else; all but the last for both kinds. For the implicit kind also one
with constructors that throw.

Why the bounds are enough to be of interest:

- With two slots and four items from two producers, tickets are two rounds apart
  and meet in one slot; the queue is full, empty, overfull and overdrawn; both
  words wrap; two consumers can sleep on one slot, one of them through the
  other's notifications.
- Two clients are the least that can take each other's result, and the client
  state is symmetric, so a third adds another waiter at `invokeMutex` and
  nothing at the condition. `MaxDepth` only stops the count of frames.
- Two producers are the number in `test.cpp`; three slots and a yield every
  second tick let a turn both fill the queue and outlast a request.
- With blocks of two items every second item meets a boundary, a bulk of three
  spans two blocks, and a bulk that fails has done so after one block or none.
  Consumers meet on one block and on two. Two of them are enough for every pair
  of their accesses; what a third would do to a claim, the overcommit of the two
  does already.
- `FreeList`'s three threads on two nodes are what ABA takes: one that has read
  a link, one that takes both nodes and puts one back, and one that keeps one.
- In `Registry` both threads have the same place in the table, which grows from
  one slot to four; memory fails once at each place where it is asked for.
- `Consumers` has two tokens whose numbers differ, and each dequeue may make
  everyone rotate. With three rotations on three producers (`MaxOffset`) a token
  is placed, moves on by one place or by two at once, and meets the other at each
  of them; on lists that are shorter, or grow, one is enough (`MaxTurns`).
- `MaxItems` keeps the numbers of `WaitMpscQueue` below `kEmpty`. That constant
  and the least seen are `std::size_t`, of 32 bits in a WASM build, the numbers
  have 64: past 2^32 items the consumer would find nothing more.
- `WaitMpscQueue` has three items and one: a producer that fills, reads and
  refills its chain against one number drawn anywhere in between. Six buffers
  are enough: a producer that needs a new one finds it.
- A `SpinlockQueue` of three threads has one inside, one that has its ticket and
  one that will; three items and words of four pass the wrap of all the words.

The theorems remove these bounds for what they state.

### Fairness

Threads are scheduled preemptively, so each thread that can take a step does
(weak fairness of each thread). A producer need not push again, and a client
need not call again. What else is assumed:

- The browser's event loop serves every task source that always has a task
  again (strong fairness of the callback in `Offload`, which is enabled only
  between two runs of `loop00`).
- `std::mutex` is not fair, so among callers at `invokeMutex` only some caller
  gets in (weak fairness of the disjunction), and there is no property that a
  particular client is served. In `BoundedQueue`, where every thread's critical
  section is a step, weak fairness of each is what the property needs: it is
  about the number of items, not about a thread.
- In `LoopAtomic` a producer that waits for a slot gets one when slots become
  free for ever (strong fairness of `Push`), because in the queue it already
  holds a ticket.
- Consumers that a progress property counts on call again: that of `MpmcQueue`,
  the first of `SubQueue`. The others may stop.
- The program on a window takes its steps; on macOS an event that is there is
  handed out however often the link asks (weak fairness of `SendEvent`).
- Nobody counts on a thread that wakes without a notification: `Wake` of
  `Proxying` and of `AtomicQueue`, and `SpuriousWakeup`, have no fairness. Nor
  does a spinning thread without a ticket: `UnfairSpinlock` has no progress.

In a run of several parts each condition is of its part alone. `moodycamel`
assumes no more than `CallsEnd` needs: of `Consumers` that a walk round the list
goes on, of `Registry` that a thread looking for its id does.

## Findings

Five runs show something of the code against its own words:

- `sync_result`: `pthreadfs.h:301-303` says that `invoke` is safe to call from
  several threads. The macros around it read `resume_result_long` after
  `invoke` has released its mutex, and can return the result of another call.
- `sub_queue_short`: an explicit producer's `enqueue_bulk` that needs more blocks
  than can be had writes the index entries of the empty blocks it means to use
  again, and inserts new ones, before it fails. What it then undoes
  (`concurrentqueue.h:2088`) leaves those entries, and a front and a count of
  used slots that do not fit the ring. Consumers of earlier items follow an
  entry to another block.
- `sub_queue_throwing`: a constructor that throws at the first item of a block
  leaves the block marked as in use and full, against lines 1901-1902; the
  destructor then destroys items that were never constructed.
- `moodycamel_tombstones`: *at least one slot is free in the hash table*
  (line 3398) is what ends a search. With
  `MOODYCAMEL_CPP11_THREAD_LOCAL_SUPPORTED`, which is off by default, threads
  that come and go turn every slot into a tombstone, and tombstones are not free.
- `moodycamel_quota`: *every 256 items from one producer, make everyone rotate*
  (line 1165). What a bulk has got from another producer than the token's own
  becomes the token's count without a comparison (line 1256). The single dequeue
  after it takes the count past the quota, compares for equality (line 1179) and
  makes no rotation. A bulk that gets only a part from its own producer adds it
  without a comparison too (line 1243).

Others were found the same way and have no run of their own:

- `ProducerOrder` of `AtomicQueue2` fails: `atomic_queue.h:305` calls the push
  order *FIFO and total order*. The state of a slot does not tell one round from
  the next. A producer preempted between taking its ticket and claiming its slot
  is overtaken there by the push one round later, whose producer may be another
  one: its later item is then popped before its earlier ones.
- `StackFlat` of `SyncToAsync` fails: `pthreadfs.cpp:101-102` says that the call
  for more work is asynchronous, since otherwise *these chained calls would lead
  to an out-of-stack error*. The call is a plain one. Work that resumes before it
  returns, which the class comment allows, nests one more frame each time.
- `AssertsHold` of `Proxying` fails: the lambdas of `em_test_cpp.cpp` set `i`
  before `executor` without the mutex, and the main thread waits for `i` only.
  The assertion about `executor` at line 65 can fail. And `Missed` can happen:
  `notify_one` without the mutex can fall between the look at `i` and the sleep,
  and the program then waits for ever.
- `blockingconcurrentqueue.h:442-444` says that `wait_dequeue_bulk` returns at
  least one item, and 373-374 that a negative timeout is as good as
  `wait_dequeue`. Only the latter waits in a loop: where the system's wait is
  interrupted (on macOS), the others return 0 or false (`Fail` of
  `BlockingQueue`).
- An explicit producer checks `MAX_SUBQUEUE_SIZE` only before it asks for a new
  block, so a queue whose ring has empty blocks can pass the limit.
- A queue of half a word of items looks empty to `circular_less_than`, and the
  check that keeps it from growing so far is skipped when blocks are used again.
  Memory ends before the words of the code get there, and the instances with
  small words stay below it.
- `allocation_pool::push` (`helper.cpp:447`) tests for full without the wrap: a
  ring filled at its last place counts as empty, and its buffers are never
  freed. A number may be dequeued before a lower one is stored; `lowest_seen_`
  then stays behind for good, and the consumer of an empty queue spins instead
  of sleeping.
- `MpmcQueue` stops for good once its counters wrap: turns begin again at zero
  and match no slot.
- `TicketSpinlock::unlock()` without a ticket (`spinlock.h:94`) advances `next_`
  by two, past a thread that waits. The guard, which all callers use, does not.
- `AtomicQueueMutexT` with a size that does not divide 2^32 jumps in its array
  when the words wrap.
- On macOS `CVDisplayLinkStop` may wait for a callback that waits for its caller.

## What is proved

All theorems hold for every value of the constants, under the assumptions that
the modules state beside the constants.

| Theorem | States |
|---|---|
| `Offload_proofs!Correct`, `Quiet`, `TokenAndFrame`, `FlagMatchesMap` | `Accounting`, `YieldIsQuiet`, `OneToken` with `OneFramePerTurn`, `WaitingMatchesMap` |
| `Offload_proofs!Delivered` | `NothingOverwritten` |
| `Offload_proofs!ImplementsPacing` | the safety part of `PacedFrames` |
| `Offload_proofs!WindowLooksAsNoted` | `StyleMatches`, for any number of starts and inputs |
| `AtomicQueue2_proofs!RaceFree`, `Lossless` | `NoRace`, `ExactlyOnce`, for any threads, size, width and index map |
| `AtomicQueue2_proofs!ImplementsBag` | the safety part of `IsBag` |
| `AtomicQueue2_proofs!Honest` | `Balance`, `HonestRefusal`, under `FewTickets` |
| `AtomicQueue_proofs!WakeupsKept`, `Lossless` | `NoLostWakeup`, `ExactlyOnce`, in both modes, for any threads, size and width |
| `AtomicQueue_proofs!ImplementsBag` | the safety part of `IsBag` |
| `AtomicQueue_proofs!ImplementsFifo` | the safety part of `SingleIsFifo`, for any size below the range of the words |
| `SyncToAsync_proofs!WakeupsKept`, `Synchronous`, `MutexHeld`, `WorkStays` | `NoLostWakeup`, `ReturnsWhenDone`, `HeldWhileRunning`, `SentWorkStays`, for any number of clients |
| `SyncToAsync_proofs!ImplementsSerial` | the safety part of `IsSerial` |
| `LoopAtomic_proofs!YieldsKept`, `YieldsPrompt`, `Token` | `NoYieldLost`, `PromptYield`, `OneToken`, for any number of producers |
| `LoopAtomic_proofs!TurnsBounded` | `TypeOK`, `BoundedTurn`, for any number of producers, size and frequency |
| `LoopAtomic_proofs!NoLateWrite`, `SyncAssertsHold` | `LateOnlyNotify`, `OnlyAsyncAborts` of `Proxying` |
| `LoopAtomic_proofs!TicketKept` | `OwnItem` of `MpmcQueue`, for any threads and any size above zero |
| `LoopAtomic_proofs!LockedFifo` | `IsFifo` of `SpinlockQueue` with either spinlock, and that a push gives up only when the queue is full, a pop when it is empty (`Refusals`), for any callers, places and range of the words that fit (`Locks`) |
| `LoopAtomic_proofs!OldestFirst` | `Oldest`, `OneHome` of `WaitMpscQueue`, for any number of producers, any items, sizes of buffers and of the ring (`Supplied`) |
| `LoopAtomic_proofs!OrderKept` | `InOrder`: the last three, and `IsFifo` of `BoundedQueue` for any threads and room |
| `SubQueue_proofs!OneTaker`, `NothingLost` | `OneOwner`, `NoneLost` of `FreeList`, for any threads and nodes |
| `SubQueue_proofs!ClaimsKept` | `NeverPastTail`, where `WithinWords` always holds, for any number of consumers, any setups and sizes of blocks |
| `SubQueue_proofs!ItemsFound`, `ItemsHoused`, `ItemsDestroyed` | `RightItem`, `OneHome`, `CleanEnd` of an implicit producer, under `WithinWords`, `Asked` and `Divided`, for any number of consumers, any memory, items and sizes of blocks and indexes |
| `Moodycamel_proofs!OneUserAlways`, `FoundAgainAlways` | `OneUser`, `FoundAgain`, for any threads, tokens, hash and first table |
| `Moodycamel_proofs!EveryoneAskedAlways`, `SpreadAlways` | `EveryoneAsked`, `Spread` of `Consumers` |
| `Moodycamel_proofs!WholeAlways` | `Whole` of `QueueMoves`, for any queues, tokens and threads |
| `Moodycamel_proofs!NothingForgotten`, `Counting` | `NoneForgotten`, `IsCounting`, for any finite sets of threads and any calls |

**Offload.** `Accounting` is inductive only together with who may be where:
that a yield is stored only when `doing` is zero, that the message count and
the loop's place exclude each other, and that the flag follows the state of the
mapping. The inductive invariant is the conjunction of these. The refinement
then needs that a frame is drawn only with `drawn = 0`, which is
`OneFramePerTurn` again: a body is taken only after the yield behind the last.

**Windows.** `StyleMatches` needs that until the class is registered nobody has
written `FSState`: a second `create` gives up before it does, and so the state
is that of the one window there is.

**AtomicQueue2.** The strengthening says, for each slot, that the state
determines who is inside: nobody when it is EMPTY or STORED, exactly one
producer when STORING, exactly one consumer when LOADING. `NoRace` follows at
once. `ExactlyOnce` needs beside it that the items producers hold are distinct
from each other, from what is in the slots and from what was returned, which
follows from the producers' counts. Tickets play no part: safety of the slots
does not depend on their order, which is why it survives the wrap of the words.

`Balance` counts from the words the queue starts with: `head_` is ahead by the
pushes begun, a sum over the producers, `tail_` by what was returned and what
consumers are loading or wait for. A thread that compares words it loaded at two
moments is not deceived because each word only grows: what it saw of the first
bounds the first when it loads the second, and so the queue was full, or empty,
in between. That argument reads differences of words as signed, so it needs
`FewTickets`; a drift of half the range between the two loads would deceive the
code.

**AtomicQueue.** `NoLostWakeup` is nearly inductive by itself. A step that ends
the coming of a notification either hands it to a sleeper, who then is the
awake consumer on its way, or finds no sleeper. A consumer that goes to sleep
does so on an empty slot. A consumer that takes the item leaves the slot empty.
The strengthening adds only that the modes do not mix, and what a thread holds
between two accesses: in the SPSC mode the slot a producer has found empty
stays empty until it stores, for which there must be no second producer.
`ImplementsFifo`: with one of each, the items lie in the slots of the consumer's
next tickets, in order, and nowhere else. That the tickets of the items are in
different slots takes `Size + 1 < Wrap`.

**SyncToAsync.** The strengthening ties the caller inside `invoke` to
`invokeMutex`, the work to that caller, and the child's place to the mutex and
to `finishedWork`. `NoLostWakeup` follows because the only thread that can
sleep beside the child is that one caller, so a `notify_one` cannot go to the
wrong sleeper. The refinement maps each caller to the phase of its call.

**LoopAtomic.** `NoYieldLost` and `PromptYield` are inductive with one more
conjunct: a request that is pending while the flag is down belongs to a loop
that has read the flag and is about to lower it or to return. `BoundedTurn` needs
a potential (`Turn`): until somebody asks for a turn, what has run in this one,
what is queued, and what every producer still pushes before it asks are together
at most `Size + Freq * Cardinality(Producers)`. A push moves one from the last to
the second, a pop one from the second to the first, a tick moves nothing, and the
first request ends it, after which `PromptYield` allows one more.

**Proxying.** The invariant is a table of the program: for each call of the main
thread it says what its lambda has written by now, to the locals of that call
alone, and where the lambda is. A lambda that outlives its call has written both.

**MpmcQueue.** A ticket of one side is drawn once, so of the threads that hold
one for a slot at most one has the turn the slot is at. While a thread is inside,
the turn of its slot is its own; and when nobody is, the turn tells what the slot
holds: nothing when it is even, the item of the push of its round when it is odd.

**SpinlockQueue.** The tickets drawn and not given back are those from `next_` up
to `ticket_`, each is one caller's, and the holder has the first. So one caller
is inside, and the array from `first` on holds the abstract sequence but for the
access under way. Words that wrap keep tickets apart only if there are no more
callers than tickets, and keep the array in step only if its size divides their
range (`Locks`).

**WaitMpscQueue.** The producers' chains are sequences `B[p][lo] .. B[p][hi]` of
buffers, and `O` says of each number drawn which producer drew it; both are
witnesses of the invariant (`Chains`), not variables of the model. The chains are
linked and share no buffer with each other, the rings or a hand (`Linked`,
`Loose`, `Rings`); a producer has one cell to write to, the last of a buffer it
has left or the first free one of its tail (`Writes`, `Packed`); along a chain
the numbers rise (`Rising`). So the front of a chain is the least of that
producer's. A number that was stored when another was drawn is still in a chain,
at or behind its producer's front (`Older`), until it is dequeued itself. A
single scan is not enough: it may pass a chain before the older number gets there.
But the consumer takes a number only when it was least in two scans in a row, or
is `lowest_seen_`, below which there is nothing (`Valued`). What was stored when
the number was drawn was stored before the second scan began, so that scan met it
(`Second`). `Supplied` says that the sizes are not zero, that producers are
numbered from 1, as they are in the array of heads, and that each has a buffer.

**BoundedQueue.** A critical section is one step of the deque, so each step is
one of `FifoChannel` or leaves it alone.

**FreeList.** A node is with a thread that has it, that clears or pushes it, or
that won it in `try_get`; or it is on the list. Its count is the references under
way, and one more when it is on the list; its flag says that somebody asked for
it to go there while others refer to it. The ABA case is excluded because a
thread that refers to a node has the node's count above one, so that nobody
pushes it: its link is still the one that was read. `NoneLost` needs in addition
that all nodes on the list are reached from its top, stated of every set closed
under links, which needs no recursion.

**SubQueue.** What is claimed and overcommitted are sums over the consumers, and
words. The invariant says that consumers that have claimed and have not looked
at the tail again stand in a line, each at the place where its claim begins,
which it knows modulo the range of the words; up to a cut the tail covers the
claims, beyond it each consumer will find out. When one of the line looks, it
finds `there` items for it, or none, whatever order they look in, and the sums
are settled accordingly. `WithinWords` is a hypothesis: it says that no more is
overcommitted between a consumer's look and its claim than the words can tell,
and TLC finds it true in all states of `sub_queue`. It is needed: a consumer
asleep between the two, while others overcommit half the range, would be
deceived.

The blocks of an implicit producer come on top of that (`QueueInv`). The blocks
it has put to use are numbered from 0; the witnesses of the invariant are the
numbers `A` whose index entry is not nulled yet, the block `K` of each, and for
each index the offset `C` of its first slot. Four things hold together. A number
in `A` has its entry in the newest index, in the place its offset gives, and
nothing put in later has come to that place (`Indexed`). Its block is nobody
else's and holds just those of its items that somebody has still to read, none
of them set empty (`Stocked`). An index that a consumer has loaded, however old,
still leads to each number it has to read (`Knows`, `Leads`): the entries are
shared, and what an older index lacks was put in after the claims that use it.
Two consumers never have an item in common, and only one of them empties a block
(`Apart`). `Producing` says how far a call of the producer has come, so that what
it cannot finish goes back whole. A consumer finds a slot by a difference of two
bases in words; that it is the right one takes `WithinWords`, by which the claim
is within what was put in, and `Divided`: the words are a multiple of the
size of a block times that of every index, as with powers of two in the
code. `Asked` leaves out calls that ask for nothing, which do nothing. The theorems
stop at the implicit kind: an explicit producer has no such offsets, as its ring
is used again from the front.

**Registry.** A producer belongs to what a thread holds, to what a token holds,
to what an exit is giving back, or is there to be taken, and these belongings
are disjoint. That a search finds its thread takes what each phase of a search,
an insertion and a resize has seen so far (`Phases`), that every producer of a
thread that lives is in the newest table or one it leads to (`Tabled`), and that
what is counted bounds the slots that threads have (`Counts`); then, by the
pigeonhole principle, each insertion finds a slot that is free or a tombstone.
Without `listens` there are no tombstones, and each search ends at a free slot.

**Consumers.** A walk has asked all producers between where it started and where
it is (`AskedDown`, `AskedRound`), however the list has grown ahead of it. That
tokens stay `Spread` follows from a closed form of the place a token desires:
that place depends on its number and on the rotation it knows of, modulo the
length of the list, and a token that hops over the list arrives where the closed
form says. The recursive walk is handled by its least counterexample.

**QueueMoves.** `Whole` per queue is a list, a table and a count, with the
chain, the list and the counts stated for any owner, so that a swap exchanges
them (`Exchange`). What it takes beside is that the queues' chains are their own
(`OwnChains`), and that one moved from is blank (`Blank`).

**BlockingQueue.** `NoneForgotten` speaks of the moments when no enqueue is under
way. The invariant says what holds in between (`Balanced`): every registered
waiter has a post that is made, a post that a signaller has still to make, or its
place in a negative count; every item has a permit that is granted, one that is
in the count or on its way to a waiter, or one that its enqueue has still to
signal. What signallers have still to do and what waiters were granted are sums
over threads, stated as cardinalities, since the prover cannot unfold a recursive
sum: a function that changes at one thread changes its sum by as much
(`TotalChange` of `QueueLemmas`). Each step of a waiter is one of six kinds of
change of these sums (`WaiterSteps`), each step of a signaller one of three, and
both theorems go through the kinds. The refinement needs the invariant at one place: a waiter that
takes a post takes one of the permits of the abstract semaphore, so there must be
one. Assumed: signallers and waiters are finite and disjoint, an enqueue has at
least one item and a dequeue asks for at least one.

Only model-checked:

- everything under fairness (`BodiesRun`, `Destroyed`, `LoopTurnsForever`,
  `Ends`, `NobodyStays`, `CallsEnd`, `Drains`, `LoopsEnd`, the liveness of the
  refinements), which is out of reach of the prover;
- `RightItem`, `OneHome` and `CleanEnd` of `SubQueue` for an explicit producer;
- `SlotsApart` of `IndexMath`, whose bitwise operators the prover does not know.

Stated in the modules and in no run: `PushReturns`, `Drained` of `Proxying`,
`Balance` and `OnlyAsyncAborts`, which hold there, the last two proved; and
those above that fail.

## Not modelled

- **Start of the page** (`src/ems/*.cpp`): promises that are chained once, before
  anything modelled begins. `requestDevice` (`glue.cpp:48`) has no rejection
  handler, so a page whose device request fails stays silent: there is one
  history, and nothing to interleave.
- **`em_test_c.cpp`**: a measurement that proxies to `looper` in an endless loop
  (line 127) and ignores the result, so that the queue grows as fast as memory
  allows. Its threads are those of `em_test_cpp.cpp`.
- **The native devices** (`src/mac/webgpu.mm`, `src/win/webgpu.cpp`, the glue):
  calls of Dawn, Metal and Direct3D, each once, whose only state is theirs.
- **Dawn, generated JavaScript and the WebGL test**: vendored, generated, or a
  sequence of calls.
- Of modelled parts: `Barrier`, which nothing uses and which serves one round
  only, and `Spinlock`, a system lock; the move and swap of the atomic queues,
  which are not thread-safe and are not called; the destructors of the two queues
  of `helper.cpp` that are an array of slots and a deque; moves of `ConsumerToken`
  (copied field by field, and nothing points back) and of `BlockingConcurrentQueue`
  (its queue and the pointer to its semaphore, which is null in the one moved
  from); the choice of a file system by path in `pthreadfs.h`; sizes, profiling,
  layouts, shaders and logging everywhere. A consumer token keeps pointers into its queue, and that it must
  not outlive it is its user's to see to.

Weak memory is not modelled: atomics in WebAssembly are sequentially consistent
whatever the source asks for, and that is the platform the program is built for.

## Plan

What is left, in this order:

1. `RightItem`, `OneHome` and `CleanEnd` of `SubQueue` for an explicit producer.
2. `SubQueue` on `FreeList` step by step, in place of the set `free`.
