---------------------------- MODULE MCLoopAtomic ----------------------------
(* The repository's two test programs of work sent to another thread's     *)
(* event loop, side by side: test.cpp on the loop of helper.cpp, with two  *)
(* producers as there (T = 2), a small queue and a yield at every second   *)
(* tick; and em_test_cpp.cpp, which is small enough to be run whole.  Then *)
(* the queues that may stand in for the loop's: the three of helper.cpp,   *)
(* and atomic_queue's with a spinlock.  A behaviour is one of the six, and *)
(* the others stay where they start.                                       *)
EXTENDS LoopAtomic, TLC

CONSTANTS
  p1, p2, c1,
  Suppliers, BufferSize, AllocationSize, MaxItems,
  Buffers,                           \* as in WaitMpscQueue, where Suppliers are Producers
  Consumers, Capacity, MaxTickets,   \* as in MpmcQueue
  Pushers, Poppers, Room, Pushings,  \* as in BoundedQueue, where Pushings is Most
  Callers, Places, Words, Sendings   \* as in SpinlockQueue, where they are Threads, Slots and Most

VARIABLES
  program,   \* "loop", "proxying", "mpsc", "mpmc", "bounded" or "locked"
  main, call, i, executor, queue, at, task, todo, timer, finished, heap,
  should_quit, has_begun,   \* as in Proxying
  memory, heads, tails, pool, up_to, sleeping, lowest_seen, step, my,
  earlier,                  \* as in WaitMpscQueue, where step is at
  head, tail, turns, storage, doing, ticket,   \* as in MpmcQueue
  content, made, popped, waiting,              \* as in BoundedQueue
  fair, lastTicket, next, lock, first, last, q, place, mine, sent,
  out                       \* as in SpinlockQueue, where out is popped

Test    == INSTANCE Proxying
Mpsc    == INSTANCE WaitMpscQueue WITH Producers <- Suppliers, at <- step
Mpmc    == INSTANCE MpmcQueue
Bounded == INSTANCE BoundedQueue WITH Most <- Pushings
Locked  == INSTANCE SpinlockQueue WITH
             Threads <- Callers, Slots <- Places, Most <- Sendings, popped <- out

testvars    == <<main, call, i, executor, queue, at, task, todo, timer, finished,
                 heap, should_quit, has_begun>>
mpscvars    == <<memory, heads, tails, pool, up_to, sleeping, lowest_seen, step, my, earlier>>
mpmcvars    == <<head, tail, turns, storage, doing, ticket>>
boundedvars == <<content, made, popped, waiting>>
spinvars    == <<fair, lastTicket, next, lock, first, last, q, place, mine, sent, out>>
queues      == <<mpscvars, mpmcvars, boundedvars, spinvars>>

AllInit ==
  /\ program \in {"loop", "proxying", "mpsc", "mpmc", "bounded", "locked"}
  /\ Init /\ Test!Init /\ Mpsc!Init /\ Mpmc!Init /\ Bounded!Init /\ Locked!Init
  /\ program # "locked" => fair

AllNext ==
  \/ program = "loop"     /\ Next      /\ UNCHANGED <<program, testvars, queues>>
  \/ program = "proxying" /\ Test!Next /\ UNCHANGED <<program, vars, queues>>
  \/ program = "mpsc" /\ Mpsc!Next /\ UNCHANGED <<program, vars, testvars, mpmcvars, boundedvars, spinvars>>
  \/ program = "mpmc" /\ Mpmc!Next /\ UNCHANGED <<program, vars, testvars, mpscvars, boundedvars, spinvars>>
  \/ program = "bounded" /\ Bounded!Next /\ UNCHANGED <<program, vars, testvars, mpscvars, mpmcvars, spinvars>>
  \/ program = "locked" /\ Locked!Next /\ UNCHANGED <<program, vars, testvars, mpscvars, mpmcvars, boundedvars>>

(* The fairness of each program, where the behaviour is of that program.   *)
AllFairness ==
  /\ WF_vars(program = "loop" /\ LoopThread)
  /\ \A p \in Producers : /\ WF_vars(program = "loop" /\ Producer(p))
                          /\ SF_vars(program = "loop" /\ Push(p))
  /\ WF_testvars(program = "proxying" /\ Test!Running /\ (Test!Main \/ Test!Execute("main")))
  /\ WF_testvars(program = "proxying" /\ Test!Running /\ Test!Looper)
  /\ WF_testvars(program = "proxying" /\ Test!Running /\ Test!Returner)
  /\ WF_mpscvars(program = "mpsc" /\ Mpsc!Consuming)
  /\ \A p \in Suppliers : WF_mpscvars(program = "mpsc" /\ Mpsc!Producing(p))
  /\ \A t \in Mpmc!Threads : WF_mpmcvars(program = "mpmc" /\ Mpmc!Running(t))
  /\ \A t \in Consumers : WF_mpmcvars(program = "mpmc" /\ Mpmc!Draw(t))
  /\ \A t \in Pushers \cup Poppers : WF_boundedvars(program = "bounded" /\ Bounded!Working(t))
  /\ \A t \in Callers : WF_spinvars(program = "locked" /\ Locked!Inside(t))

AllSpec == AllInit /\ [][AllNext]_<<program, vars, testvars, queues>> /\ AllFairness

(* What each supplier enqueues.                                            *)
ThreeAndOne == <<3, 1>>

(* TurnsForever, of the loop.                                              *)
LoopTurnsForever == program = "loop" => TurnsForever

(* LateOnlyNotify and Ends, of the test of the proxying queue.             *)
LateOnlyNotify == Test!LateOnlyNotify
Ends           == program = "proxying" => Test!Ends

(* Items come in the order of their numbers or tickets from the queues     *)
(* whose order no single lock keeps, Oldest and OwnItem, and what is left  *)
(* is where the destructor looks for it, OneHome; and the queues with a    *)
(* lock are FIFO channels.                                                 *)
InOrder == [](Mpsc!Oldest /\ Mpsc!OneHome /\ Mpmc!OwnItem) /\ Bounded!IsFifo /\ Locked!IsFifo

(* No thread is left asleep, or with a ticket, when it could go on.        *)
NobodyStays ==
  /\ Mpsc!Emptied /\ Mpmc!TurnComes /\ Locked!InTurn
  /\ program = "bounded" => Bounded!AllThrough
=============================================================================
