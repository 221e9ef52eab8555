# A verification project for ConcurrentProgram

`src/` holds some thirty echo servers, each written in a different style of
concurrency, and the libraries they are built from: a coroutine library on
`ucontext`, an event loop with timers, two load generators and a codec. This
directory holds TLA+ models of that code, TLC runs that check them on small
instances, and proofs, checked by TLAPS, of what holds for every instance.

| part of the repository | modules | checked by TLC | proved by TLAPS |
|---|---|---|---|
| coroutine scheduler, batches | `Schedule` | `schedule`, `empty_batch`, `nested_batch` | `ScheduleProofs` |
| coroutine mutex | `CoMutex`, `AbstractMutex` | `mutex`, `mutex_fifo` | `CoMutexProofs` |
| read-write lock | `CoWait`, `CoRWLock`, `AbstractRWLock`, `CoSync` | `sync` | `SyncProofs` |
| condition variable | `CoWait`, `CoCond`, `CoSync` | `sync`, `cond_notify` | `SyncProofs` |
| semaphore, channel | `CoWait`, `CoChannel`, `BoundedFifo`, `CoSync` | `sync` | `SyncProofs` |
| CallOnce, SingleFlight | `CoWait`, `CoOnce`, `CoSync` | `sync` | `SyncProofs` |
| event loop, timers | `EventLoop` | through the next two | `EventLoopProofs` |
| load generator 2 | `CoClient` on `EventLoop` | `co_client`, `client_abort` | `CoClientProofs` |
| load generator 1 | `BenchClient` on `EventLoop` | `bench_client`, `bench_kinds` | `BenchProofs` |
| codec, connection, epoll | `Codec`, `EchoConn` | through `servers` | `ServersProofs`, `AnswerProofs` |
| 28 echo servers | `Blocking`, `Reactor`, `HandOff`, `MasterSub`, `CoServer`, `Uring`, `Servers`, `MCServers` | `servers` | `ServersProofs`, `AnswerProofs` |

Makefiles build with `-O2` and without `NDEBUG`: every `assert` of the code is
live, and a failing one ends the process.

## Inventory

### Coroutine library (`src/Coroutine`) — one thread, cooperative

| component | state | operations | what makes it correct |
|---|---|---|---|
| scheduler (`coroutine.cpp`, `mycoroutine.h`) | per slot `state`, `relate_bid`; `is_master_`, `slave_cid_`, `not_idle_count_` | create, resume, yield, return, `Run`, `Sleep` | one context runs at a time; the count is exact; no assert fails; `Run` returns |
| batches, `WaitGroup` (`batch.cpp`, `sync/waitgroup.h`) | per batch `state`, `parent_cid`, `child_cid_2_finish`; `batch_finish_cid_list_` | create, add, run, resume children, resume parents | `BatchRun` returns after all tasks and only then; each parent is woken once; slots are reused safely; the pools suffice |
| mutex (`sync/mutex.cpp`) | `lock`, `hold_cid`, `suspend_cid_list` | lock, try, unlock, `CoMutexResume` | mutual exclusion; no waiter is lost; the order of service |
| read-write lock (`sync/rwlock.cpp`) | state, writer, readers, list of waiters | the four lock operations, resume | readers exclude writers; no waiter is lost |
| condition variable (`sync/conditionvariable.cpp`) | notification state, count, waiters | wait, notify one or all, resume | notifications are neither lost nor delivered to nobody |
| semaphore, channel (`sync/semaphore.cpp`, `sync/channel.h`) | value, waiters; two semaphores and a buffer | post, wait, resume; send, receive | units are conserved; the channel is a bounded FIFO |
| CallOnce, SingleFlight (`sync/callonce.cpp`, `sync/singleflight.cpp`, `mycoroutine.h`) | state, waiters; a map from keys | do, resume | at most one call in progress; waiters return after it |
| local variables (`localvariable.cpp`) | a map per slot | set, get | a coroutine sees its own values, or its batch parent's |

The components meet in `Schedule::Run`. It scans the pool and resumes everything
that is not idle, except parents of batches; then it resumes the parents whose
batches are done; then it calls the resume function of each synchronisation
primitive. So a coroutine that waits for a primitive is woken both by the scan,
unasked, and by the primitive. A program may instead drive the pool itself
(the servers and most tests do), and then only the resume functions wake it.

Hard here: unasked resumes; reuse of coroutine and batch slots, whose
`relate_bid` nobody resets at creation; a wake-up that is queued in one place
and consumed in another; loops whose lists are changed by the coroutines they
resume; liveness that rests on one counter.

### Event loop (`src/EventDriven`) and the load generators

* `timer.hpp`, `eventloopcore.cpp`: a heap of timers, the set of registered ids
  and the set of cancelled ids. The loop pops the next timer, waits for events
  no longer than it allows, runs the handlers, and then runs or re-queues the
  timer. Hard: cancellation while the timer is out of the heap, an interrupted
  wait, a timer that is due together with an event.
* `BenchMark`: a client is a state machine driven by events and by a periodic
  check that times it out, restarts or replaces it. Hard: the agreement of the
  failure counters, which an assert compares, on every path; the rate limit.
* `BenchMark2`: the same with a coroutine per client: connect, read and write
  yield and race a time-out. Hard: exactly one of the two resumes the coroutine.

### Servers (`src/ConcurrencyModel`) and `src/common`

* Reactor servers (select, poll, epoll, level and edge triggered): one connection
  is read, answered and written by one thread. `common/conn.hpp`, `codec.hpp`,
  `packet.hpp` cut the byte stream into messages.
* Half-sync half-async servers: I/O threads read, workers answer; a queue guarded
  by a mutex and a condition variable (1) or by two semaphores (2) and the
  one-shot flag of epoll pass the ownership of a connection back and forth.
* Main-reactor sub-reactor servers move a connection between epoll instances.
* Coroutine servers: one coroutine per connection, resumed by its events.
* io_uring servers: the same as a proactor, driven by completions.
* Blocking servers: a thread or process per connection, or a pool of them.

`PROJECT.json` lists every component with its files, and every hazard at its line.

## What is modelled

### `Schedule.tla` — scheduler and batches

One step is what the running context does between two points at which another
context, or another choice of the program, may come in: one API call, or one
round of a loop. `state`, `relate_bid`, `is_master`, `slave_cid`,
`not_idle_count`, `batch_finish_cid_list` and the batch arrays are the fields of
the same names; the map `child_cid_2_finish` is the pair of sets `child_cid`
(its keys) and `finished_cid` (the keys whose value is true). The position of
the main program in `Run` and the other loops is `phase`, `idx`, `todo` and
`in_run`; that of a coroutine body is `at`, in its own code or past the yield of
`BatchRun`.

| code | model |
|---|---|
| `CoroutineCreate` with `CoroutineInit` | `CoroutineCreate`, `CoroutineInit`, called by `MainCreate`, `Create`, `BatchAdd` |
| `CoroutineResume`, `CoroutineYield` | operators of the same names |
| `CoroutineRun` after `entry()`, `IsBatchDone` | `Return`, `ChildFinish`, `BatchDone` |
| `BatchCreate`, `BatchAdd`, `BatchRun` | actions of the same names; `BatchRunEnd` after the yield |
| `Run` | `Run`, `RunTest`, `ScanSkip`, `ScanResume`, `ScanEnd`, `FinishResume`, `FinishEnd`, `NoWaiters` |
| `CoroutineResume4BatchStart`, `...4BatchFinish` called by the program | `BatchStart`, `StartResume`, `StartEnd`; `BatchFinish`, `FinishResume`, `FinishEnd` |

What coroutine bodies and the main program do is open, within the bounds: any
body may at any time yield, create, open a batch, add tasks, run it, or return.
An assert is a conjunct of the guard of its action, and `AssertsHold` says that
the conjunct is true whenever the rest of the guard is.

The library works only for programs that refrain from a few things nothing in
the code forbids. They are the *liberties*, the elements of `Usage`: a batch
with no task, a batch opened by a task of another batch or by a coroutine that
has one open, yielding while a batch is open, and more coroutines outside
batches than the constructor was told of. The passing runs check programs that
take none. `Orderly` names the assumption that matters for safety, and two
runs show what two of the liberties lead to. (With `openBatch`, a task that the scan
resumes before its batch runs trips the assert at `batch.cpp:36` when it returns.)

### `CoMutex.tla` — the mutex

Extends `Schedule`: bodies lock, try and unlock mutexes besides everything they
do there, and `Run`'s call of `CoMutexResume` takes the place of `NoWaiters`.
`Lock` is `CoMutexLock` up to its return or its first yield, `LockAgain` its
loop after a yield, whoever resumed it. `VisitSkip`, `VisitWake`, `VisitEnd`
are the loop of `CoMutexResume`, whose order over the `unordered_set` is left
open. Mutexes are registered before the first coroutine and cleared after the
last; registration while `CoMutexResume` iterates is not modelled.

### `AbstractMutex.tla`

What a set of mutexes promises: one owner, release by the owner only, a waiter
goes on only as the owner, and nothing about the order. `CoMutex` implements it
with `owner <- hold_cid`, `waits <- lock_wait`.

### `CoWait.tla` and the other primitives

`CoWait` extends `Schedule` with what the primitives have in common. A
coroutine whose call has to wait notes its id in the primitive and yields inside
the call; `wait_in` is that call. Whoever resumes it, it tests its condition
again: `Enter` is the start of a call or one more round of its loop, `GoOn` its
return, `YieldIn` the yield inside it. `CoXxxResume` is a sequence of steps of
the master context: `unvisited` and `visiting` say which of the registered
objects it has still to look at and in whose loop it is, `cid_set` is its local
copy of ids; `Wake` resumes one, `SyncEnd` returns, to `Run` or, after
`ManualSync`, to the main program.

* `CoRWLock`: `WrLock`, `RdLock`, `WrUnLock`, `RdUnLock` are the four operations,
  `RWResumeOne` and `RWVisited` the loop of `CoRWLockResume`. `AbstractRWLock` is
  what it promises: one writer or some readers, and an open choice of whom a
  free lock goes to.
* `CoCond`: `CondWait` with a predicate (there is an `item`), the two
  notifications, `CondSkip`, `CondVisit`, `CondResumeOne`, `CondResumeAll`,
  `CondVisited` for `CoCondResume`. `CondUsage` names two liberties: to notify one
  while a notification is pending, and to notify from inside `CoCondResume`.
* `CoChannel`: the semaphores `idle` and `fill`, `Send` and `Receive`; a loop over
  a copy of the waiters is `CoSemaphoreResume`. `BoundedFifo` is what it promises.
* `CoOnce`: one CallOnce and one SingleFlight, whose functions may yield
  between `DoCall` and `DoReturn`.
* `CoSync` puts them together: `primitive` says which kind the program uses, and
  is never changed. `SyncSpec` with `primitive` fixed is the specification of that
  primitive (`RWSpec`, `CondSpec`, `ChannelSpec`, `OnceSpec`), with fairness. The
  theorems are about those.

### `EventLoop.tla`, and its two programs

`EventLoop` is `Timer` and `EventLoop::Run`: the heap with the set of ids in use and
the set of cancelled ids (`timer`), the timer that `Run` has taken off the heap
(`timer_data`), the time-out it computed (`time_out_ms`), and where it is (`loop`).
`TakeTimer` drops cancelled timers and takes the earliest, `WaitEvents` and
`WaitTimeOut` end the wait, `TakeEvent` handles one event, `Requeue`, `RunQuietly`
and `RunTimer` are the three ways in which the round ends. A timer carries the
ticks it has left, so the clock is no variable: `Tick` takes one from each.
A handler belongs to the program that extends the module.

`CoClient` is the second load generator: per client the place `pc` in
`Client::Run`, in `CoConnect`, `CoRead` or `CoWrite`, and the locals that the two
callbacks share with it; plus the start, the refresh of the rate limit and the
stop. A step ends where the coroutine calls the kernel. `BenchClient` is the
first: `Deal` is the state machine of a client, `clientManagerCheck` the manager
that replaces and restarts clients, `rateLimitRefresh` and `threadExit` the other
two timers. Its loop and timer are a copy of the library's, and so is the model's.

### The servers

`Codec` is the framing, in lengths. `EchoConn` is what the servers have in
common: the client and the two buffers of its socket, the server's `Conn` with its
codec and packet, its registration with an epoll instance in the three modes
(level, edge, one-shot), the descriptor and who has a copy of it. `conn[c]` has all
of that in one record; `thread[t]` has the place of a thread or process, the
connection it is at, and what remains of the batch that `epoll_wait` gave it;
`queue` is what threads hand to each other.

* `Blocking`: SingleProcess, MultiProcess (with `fork` and the copies of the
  descriptor), MultiThread, ProcessPool1, ProcessPool2, ThreadPool,
  LeaderAndFollower.
* `Reactor`: Epoll, Poll, Select, and the reactors with one thread or a pool, level
  and edge triggered, with the switches `multiio`, `la` and `writefirst`.
* `HandOff`: EpollReactorThreadPoolHSHA1 and 2: the queue with a condition variable,
  the queue with two semaphores, and the one-shot events that pass the ownership
  of a connection to a worker and back.
* `MasterSub`: EpollReactorThreadPoolMS and EpollReactorProcessPoolMS: a connection
  moves to another epoll instance, in the second as a descriptor in a message.
* `CoServer`: the four coroutine servers on epoll. Of the scheduler only how many
  slots are left and which coroutine runs; the rest is `Schedule`.
* `Uring`: the five servers on io_uring, with completions in any order.
* `Servers` chooses the server and its options in `ServersInit`, and composes it
  with its clients. A client sends a request in parts, waits for the whole answer,
  and may hang up at any time.

`MCServers` adds the requests of the clients.

## What the runs check

| run | instance | distinct states | checks |
|---|---|---|---|
| `schedule` | 2 places, batches of 2, so 6 slots; 3 batch slots; 3 coroutines outside batches; both ways of driving the pool | 354,621 | `TypeOK`, `NotIdleCount`, `BatchJoin`, `JoinQueued`, `BatchInv`, `AssertsHold`, `PoolsSuffice`, `RunReturns` |
| `mutex` | 3 coroutines with 3 calls each, two mutexes; both ways of driving the pool | 177,116 | `MutexTypeOK`, `MutexInv`, `QueueOfWaiters`, `WaiterQueued`, `ImplementsMutex`, `InOrderOutsideRun`, `MutexProgress` |
| `sync` | 3 coroutines with 2 calls each, each primitive in turn, both ways of driving the pool | 171,345 | `RWInv`, `RWListSound`, `ImplementsRWLock`, `CondWaitersKept`, `NotificationKept`, `SlotsConserved`, `SemWaitersKept`, `ImplementsFifo`, `OneCall`, `DoWaitersKept`, `SyncProgress` |
| `co_client` | 1 client, messages in up to 2 parts, all time-outs 1 tick | 709,994 | `TimerAccounts`, `SleepsInTime`, `WaitIsBounded`, `CallBackInTime`, `Stops` |
| `bench_client` | 2 clients, 2 requests per connection, rate limit 2 | 1,265,699 | `EventOfStatus`, `ReplacedInTime`, `SuccessesKept` |
| `servers` | all 28 servers with all options; 2 clients with 2 and 1 requests | 634,973 | `AnswerExact`, `SoleOwner`, `SlotsAccount`, `Answered`, `Released` |
| `mutex_fifo` | 3 coroutines, one mutex, under `Run` | | `ServedInOrder` is violated |
| `empty_batch` | a batch without a task | | `RunReturns` is violated |
| `nested_batch` | a batch inside a batch | | `RunReturns` is violated |
| `cond_notify` | 3 coroutines, without `Run`, surplus notifications | | `NotifiedWaits` is violated |
| `client_abort` | 1 client of load generator 2 | | `ClearedWhileOpen` is violated |
| `bench_kinds` | 1 client of load generator 1 | | `AccountsAgree` is violated |

No run checks for deadlock: programs, clients and runs come to their end, and the
liveness properties say what has to have happened by then.

The properties, in words. Scheduler, batches and mutex:

* `NotIdleCount`: `Run` stops by `not_idle_count_` alone, and it counts exactly
  the coroutines that are not idle.
* `BatchJoin`: when a parent gets past the yield of `BatchRun`, all its tasks
  have returned and nobody else refers to the batch slot that is freed next.
* `JoinQueued`: a parent asleep in `BatchRun` is queued once if its tasks have
  all returned, and not at all before.
* `BatchInv`: the accounts the scheduler keeps of its batches, see the proofs.
* `AssertsHold`: no assert of `CoroutineResume`, `CoroutineRun` or `IsBatchDone`
  can fail.
* `PoolsSuffice`: with `(max_concurrency_in_batch + 1) * coroutine_count` slots,
  a program that keeps to its `coroutine_count` never trips the assert of
  `BatchAdd`, and never gets `kInvalidBid` from `BatchCreate`.
* `RunReturns`: `Run` returns, and then the pool is idle.
* `MutexInv`: flag and owner agree; no queue names anybody twice; who is queued
  waits, or has barged in and owns the mutex; who sleeps in `CoMutexLock` is queued.
* `QueueOfWaiters`: whoever `CoMutexResume` may take from the queue of a free
  mutex sleeps in its `CoMutexLock`.
* `WaiterQueued`: who sleeps in `CoMutexLock` is in that queue exactly once.
* `InOrderOutsideRun`: as long as the program is not inside `Run`, whoever leaves the queue or
  gets the mutex from it is at its head, whatever runs of `Run` came before.
* `MutexProgress`: `Run` returns, unless coroutines wait for each other's mutexes in a circle.
* `ImplementsMutex`: every behaviour is one of `AbstractMutex`.

The other primitives:

* `RWInv`: the lock's state tells who holds it; who is in the list waits for that
  type of lock, or has barged in and holds it, and nobody is there twice; who
  sleeps in a call of the lock is in the list.
* `RWListSound`: whom `CoRWLockResume` takes off the list waits for the lock, and
  may be resumed.
* `ImplementsRWLock`: every behaviour is one of `AbstractRWLock`.
* `CondWaitersKept`: the ids in the set, and in the copy that is being worked on,
  are those of the coroutines asleep in `CoCondWait`.
* `NotificationKept`: with no notification pending and no visit in progress,
  nobody sleeps while there is an item. It holds for programs that do not notify
  from inside `CoCondResume` and do not notify one while another is pending; with
  the liberty `nested` it does not, as line 66 overwrites the state.
* `SlotsConserved`: one semaphore counts the messages, the other the free slots.
* `SemWaitersKept`: the ids noted in a semaphore are those asleep in its wait,
  and the copy that `CoSemaphoreResume` works on has no others.
* `ImplementsFifo`: the channel is a bounded queue.
* `OneCall`: a CallOnce runs its function once; of either, one coroutine runs it
  while the state says so.
* `DoWaitersKept`: the ids noted are those asleep in `Do`, nobody sleeps when no
  call is to come, and the asserts after the two resume functions hold.
* `SyncProgress`: `Run` returns, or comes to a point where whoever is left waits
  for an item or a unit that is not there: no lock and no `Do` ever keeps it.

Event loop and load generators:

* `TimerAccounts`: the ids in use are those of the timers in the heap and of the
  one that `Run` has taken, once each; what the asserts of `Timer` rest on.
* `SleepsInTime`: `epoll_wait` is never called with a time-out beyond the next
  timer, whatever handlers have registered or cancelled since.
* `WaitIsBounded`: a client that waits in a call has its event and a timer that
  will resume it; a stopped one has the timer of the refresh.
* `CallBackInTime`: event and timer race for the same coroutine; whichever callback
  runs finds it in the call that registered it, not in a later one.
* `Stops`: after the run time all clients finish and the loop ends (or the
  process aborts, see `client_abort`).
* `EventOfStatus`: what epoll watches of a client is what its status waits for.
* `ReplacedInTime`: a client that failed, ended or exceeded its time-out is
  replaced within one period of the check and the lateness of the loop.
* `SuccessesKept`: no success is lost or counted twice while clients come and go.

Servers:

* `AnswerExact`: what is encoded and not written, and written and not read, is
  together what the client still waits for, or nothing is on its way.
* `SoleOwner`: no two threads have a connection at once, none has one that may be
  reported to another, and none has one that was deleted.
* `SlotsAccount`: the two semaphores of HSHA2 agree with its queue.
* `Answered`: in the end, every request sent has its whole answer: no event,
  notification, completion or hand-over is lost.
* `Released`: in the end all descriptors of clients are closed, in every process.

  Both except a connection to which no Consumer will ever come (`Abandoned`, below), and
  no other connection of that server; and a process that has aborted for want of slots
  (`Aborted`). Those that the last Consumers serve are not excepted: one mutant of
  `Answered` is a Consumer that does not register its connection again.

Each property of a passing run has a mutant of the code in the modules, marked
`Mutant:` (a dropped reset, a missing test, a wrong slot) that breaks it.

### What the violations show

* `mutex_fifo`: `mutex.cpp:63` and `demo/mutex/mutex.cpp:27` promise first in,
  first out. Under `Run` a waiter that the scan resumes first takes the mutex
  first. `InOrderOutsideRun` says that the promise holds while the program leaves the
  waking of waiters to `CoMutexResume`.
* `empty_batch`: a parent is queued only by a returning task; with no task it
  sleeps for ever and `Run` spins.
* `nested_batch`: `BatchCreate` overwrites `relate_bid`, so a task that runs a
  batch of its own never reports to its own batch; the outer parent sleeps for
  ever and `Run` spins.
* `cond_notify`: two calls of `NotifyOne` with one waiter set the count to 2. The
  loop of `CoCondResume` takes the first element of the set each time
  (`conditionvariable.cpp:50-53`) and finds it empty the second time, which is
  undefined. The property is `NotifiedWaits`, which is proved for programs that
  do not notify one while a notification is pending.
* `client_abort`: `RecvResponse` closes the connection when a read fails or times
  out, and after the last request of a connection; the caller then clears its
  event with descriptor -1, and the assert of `EpollCtl::ClearEvent` ends the load
  generator (`client.hpp:66`, `epollctl.hpp:25`).
* `bench_kinds`: an answer other than the message sent makes `Deal` raise
  `failure_count_`, and `recvResponse` none of the three kinds (`client.hpp:256-258`);
  the assert of `getDealStat` (`clientmanager.hpp:72`), which compares the sum, ends the
  load generator at the next check. `bench_client` has the same steps: there the process
  is at an end with that check, and what holds up to then is what its properties say.

### Bounds

`Requested`, `MaxInBatch` and `BatchSize` are parameters of the code
(`coroutine_count`, `max_concurrency_in_batch`, `kMaxBatchSize`). `MaxCreate`
bounds the coroutines created outside batches, `MaxCalls` the calls of yield,
create, batch create, lock and try that one body makes. In `schedule` three
coroutines in two places make slots of coroutines and batches reused while other
batches are under way, and two tasks in a batch let them finish in either order,
before or after the parent's place in the scan. `mutex` has three coroutines and two mutexes:
two can wait behind an owner, a resumed coroutine can go to sleep on the other mutex or take it
while `CoMutexResume` has still to look at it, and with three calls each can hold both,
wait in a circle, or come back to a mutex it has unlocked. The program may drive the pool
itself, then call `Run` while waiters are queued, and go on by itself. There are no
batches there: mutexes and batches together are left to the proofs, which have them in any number.

In `sync` three coroutines are the least with which a waiter can be overtaken by
one that is not resumed but new, two can wait for the same object, and a
slot of the copy can be stale when its turn comes; with two calls each can lock
and unlock, wait and notify, or send and receive, once before and once after
another. `ChannelSize` is 2, so that the channel is full, empty and in between.

In `co_client` one client meets all races, as clients share nothing but the rate
limit and the loop. Every time-out is one tick, so that timers are due together;
`MaxLate` lets a timer be a tick overdue, `MaxLazy` lets one cancelled timer stay
in the heap, `MaxTimers` is never reached. In `bench_client` there are two clients,
so that some are replaced and others restarted by one check, and they compete for
the rate limit; `MaxWon` bounds the successes. Servers may give a wrong answer at any time.

In `servers` the head of a message has length 2 and bodies 0 and 1 (`HeadLen`, `Body`), a socket
buffers 2 units of an answer (`SendBuf`), so that every message can be cut inside
the head, after it, or before its end, and every answer needs several writes. One client sends a
second, longer request, so that codec and buffer are reused. With `Threads` 3 pools
have two workers, a main reactor has two subs, HSHA has one reader with two workers
or two readers with one worker, each with and without `direct`. `BufferSize` 1 lets the queue of HSHA2 be full. `PoolSize` 2 and `Consumers` 2 let the coroutine servers use
a coroutine again, and run out of them. Each of the two clients finds a Consumer, so that nobody is
`Abandoned` in the run, and both connections have to be answered and closed.

### Fairness

There is one thread. Once it is inside a call of the library or in a coroutine
body it goes on: weak fairness of the steps of the loops and of the running
coroutine, together. A body makes boundedly many calls, so this also says
that bodies return and that owners unlock. What the main program calls, and
whether it calls anything, is its own choice: no fairness. `RunReturns` needs no
more, as `Run` drives the pool itself. `SyncSpec` is the same.

`CoClientSpec`: the thread runs on (weak fairness of `Thread`), and while it waits,
time passes (strong fairness of `Tick` there, because events may end the wait
again and again). The servers answer or not as they like: connections, reads and
writes complete, fail, or are left to their time-outs. `BenchSpec` has no fairness:
`ReplacedInTime` is a safety property over ticks.

`ServersSpec`: neither the server's threads together nor the clients stop while one of
them can go on; a client is not bound to hang up. `Serve` is one condition for all
threads of a server: `Answered` and `Released` are about states in which nothing is
left to do, so which of the threads does it does not matter. They allow for `Aborted`: the
process has ended because the pool is used up; and for a connection that is `Abandoned`: it
waits for a Consumer, and none is left (see below).

## What is proved

For every value of the constants that satisfies the assumptions of the modules:
`ScheduleAssumption` (what the constructor asserts), `MutexAssumption`,
`ChannelAssumption`, `EventLoopAssumption`, `CoClientAssumption` and
`BenchClientAssumption` (any number of clients, any time-outs; `MaxTimers` leaves room
for the three timers registered at the start), `EchoConnAssumption` (any number of
clients, requests and threads; more threads than clients, as MultiThread has a thread
for each client besides the one that accepts), `HandOffAssumption`,
`CoServerAssumption`, and that of the codec.

| theorem | statement | assumes |
|---|---|---|
| `SchedCorrect` | `Spec => [](TypeOK /\ SingleRunner /\ NotIdleCount)` | |
| `BatchAccounts` | `Spec => [](SchedInv /\ BatchInv)` | `Orderly` |
| `JoinIsSafe` | `Spec => [](BatchJoin /\ CleanSlots)` | `Orderly` |
| `NoAssertFails` | `Spec => []AssertsHold` | `Orderly` |
| `WakeUpsExact` | `Spec => []JoinQueued` | `Orderly`, no empty batch |
| `MutexAccounts` | `MutexSpec => [](MutexTypeOK /\ BatchInv /\ MutexInv)` | `Orderly` |
| `NoWaiterLost` | `MutexSpec => [](WaiterQueued /\ QueueOfWaiters)` | `Orderly` |
| `MutexRefines` | `MutexSpec => ImplementsMutex` | `Orderly` |
| `FirstInFirstOut` | `MutexSpec => InOrderOutsideRun` | `Orderly` |
| `LockAccounts` | `RWSpec => [](RWInv /\ RWListSound)` | `Orderly` |
| `LockRefines` | `RWSpec => ImplementsRWLock` | `Orderly` |
| `CondForgetsNobody` | `CondSpec => []CondWaitersKept` | |
| `NoNotificationLost` | `CondSpec => [](NotificationKept /\ NotifiedWaits)` | `CondUsage = {}` |
| `SlotsAreConserved` | `ChannelSpec => []SlotsConserved` | |
| `ChannelRefines` | `ChannelSpec => ImplementsFifo` | |
| `SemaphoreWaiters` | `ChannelSpec => []SemWaitersKept` | |
| `CalledOnce` | `OnceSpec => []OneCall` | |
| `NobodyWaitsInVain` | `OnceSpec => []DoWaitersKept` | |
| `PoolsNeverRunOut` | `Spec => []PoolsSuffice` | `Orderly`, no overcommit |
| `TimersKept` | `CoClientSpec => [](TimerAccounts /\ SleepsInTime)` | |
| `ClientsResumed` | `CoClientSpec => [](WaitIsBounded /\ CallBackInTime)` | |
| `BenchTimersKept` | `BenchSpec => [](TimerAccounts /\ SleepsInTime)` | |
| `RegistrationsFollow` | `BenchSpec => []EventOfStatus` | |
| `ReplacedSoon` | `BenchSpec => []ReplacedInTime` | |
| `NoSuccessLost` | `BenchSpec => []SuccessesKept` | |
| `NoConnectionShared` | `ServersSpec => []SoleOwner` | |
| `SlotsKept` | `ServersSpec => []SlotsAccount` | |
| `AnswersExact` | `ServersSpec => []AnswerExact` | |

`Orderly` says that no batch is opened by a task of a batch or by a coroutine
that has one open, and that nobody yields or returns with a batch open.

**The scheduler.** `SchedInv` (types, one runner, the exact count, and valid
parents of batches that are referred to) is inductive for every program: each
switch moves `state`, `is_master` and `slave_cid` together, and creation and
return change the idle set and the count by one.

**Batches.** `BatchJoin` is not inductive: it speaks of the moment at which a
parent runs, and what makes that moment safe was done earlier. `BatchInv` adds
how it came about. Who refers to a batch is its parent or an unfinished
task, so no one is left when all have finished (`Related`, `BatchMembers`). The
tasks of an open batch have not started, so none can report before the
batch runs (`OpenBatch`). The parent of a running batch is inside `BatchRun`, and
it runs only if no task is unfinished (`ParentInside`). It is resumed from the
list alone, so the list must hold only parents whose batch is done, once each
(`QueuedParents`), and all of those that ran a task (`ParentsQueued`). The entries that
`CoroutineResume4BatchFinish` has passed stay in the list until it ends; only
those it has not reached count, hence `Pending`. The steps rest on a lemma each: `MoveBatch` (steps that only move the master), `SleepBatch` (a
coroutine yields), `ResumeBatch` (one is resumed, and `FinishResumeBatch` from the
list), and one for each operation that changes a batch; the rest is the case
split over `Next`.

**The pools.** `PoolInv` bounds the coroutines outside batches by `coroutine_count` and
the tasks of a batch by `max_concurrency_in_batch`. That the pool then suffices is a
pigeonhole argument: every coroutine that is not idle has a place of its own in a
table with a row for each coroutine outside the batches and one column more than a
batch may have tasks (`Orderly` keeps tasks from having batches, so there is no third
level), and the coroutine that adds a task leaves a place of its row empty.

**The mutex.** The invariant is `SchedInv /\ BatchInv /\ MutexTypes /\ MutexInv`.
`QueueEntries` is the part to discover: a waiter that the scan resumes takes a
free mutex without leaving the queue, so a queue may hold its owner, and only
`CoMutexUnLock` takes it out. That every entry is a waiter *or the owner* makes
the queue of a free mutex hold waiters only (`QueueOfWaiters`). `EraseOnce` states
what erasing the first occurrence does to a queue that names nobody twice.
The refinement follows step by step: `Acquire` is `Grant`, the first `Suspend`
is `Request`, `UnLock` is `Release`, everything else a stutter.

The order of service (`FirstInFirstOut`) is that of the queue outside `Run`;
`mutex_fifo` shows that under `Run` it is not. What makes the difference is `AwakeLeft`: a
waiter that is awake has left its queue, because only `CoMutexResume` wakes waiters, and takes
them off first. With `NotItsOwner` no waiter can then get the mutex past the head of its queue; newcomers,
who have never waited, still can. `Run` leaves nothing behind that could disturb the order: it returns
when the count is zero, and then nobody waits (`RunEnds`).

**The other primitives.** The first part of `SyncProofs` has what each proof needs of the scheduler:
`WaitInv` says that `SchedInv` holds and that who is inside a call runs or sleeps,
and a lemma for each kind of step says that it keeps it and whose place it changes.
The invariants are:

* read-write lock: `RWInv` with `RWQueueEntries`, as for the mutex, and `VisitInv`: while `CoRWLockResume` is
  in its loop, everybody in the list is asleep in the call that put him there. It is needed because
  the loop goes on under a read lock, when those who have barged in could still be
  in the list. They are not: the loop starts on a free lock.
* condition variable: `NotedInv` (who sleeps is noted in the set or in the copy)
  holds whatever the notifications. `NotificationKept` is not inductive: `ItemsInv`
  adds how many items a pending notification may stand for, and that the only
  coroutine that can take the one item of a visit runs or is about to be resumed.
* channel: `SlotsInv` needs nothing of the scheduler; `SemInv` adds that the copy
  names only coroutines that still wait for that semaphore.
* CallOnce, SingleFlight: `DoerInv` (one coroutine has gone into the function while the
  state is `call`, none otherwise) and `NotedInv` (who waits is noted, and the copy
  has those left to be resumed).

**The event loop.** `LoopInv` (in `EventLoopProofs`) has the accounts of the timers: ids are
unique among the heap and the timer that `Run` has taken, the ids in use are theirs, a
cancelled one is among them; a timer is out of the heap only while `Run` waits or
handles events; and the time-out is no longer than what the next armed timer has left.
Each operation of `Timer` and each step of `Run` keeps it, whatever handlers the program
has, so both load generators rest on the same lemmas.

**Load generator 2.** `CoInv` adds where everybody is (`PlaceInv`: the clients that do not
run are asleep in a call, at the start, or stopped; the event watched is that of the
place; reported events belong to sleeping clients), and which timers are armed
(`ArmedInv`: for each call in which a client waits one that resumes it, and no other
timer that could). The last is what makes the race harmless: the call that returns first
takes its timer or its event away before the client goes on.

**Load generator 1.** `BenchInv` has `EventOfStatus` itself, and `CheckInv`: while the manager
runs, its check is armed, and so near that no client's age plus what is left of it
exceeds the time-out and one period. `ReplacedInTime` follows, as no timer is more than
`MaxLate` overdue. `SuccessesKept` is inductive with it, by
the algebra of sums over sets of clients.

**The servers.** `OwnInv` is one invariant for all servers in which a connection belongs
to one process, 26 of the 28: `SoleOwner` promises nothing about the two that share
descriptors between processes, MultiProcess and EpollReactorProcessPoolMS. It says why connections never meet:

* `InBatches`: a connection in a thread's batch of events is open, registered with that
  thread's epoll instance, and in no other batch. Where a connection is handed over, it
  has been switched off by its report (one-shot), and no event can report it again.
* `BusyWith`: nobody else has the connection a thread is at, and nothing disturbs it
  there (`Undisturbed`): the event is off, or there is none, where a connection is handed
  over or a thread blocks in it; else the epoll instance is the thread's own.
* `InQueue`: the queue names nobody twice, and nobody whom a thread has; who is in it
  is open and has its event off.
* `NeverHave` says which threads have no batch, or no connection, at all.

It needs `Notified` for the two servers in which Consumers wait for a condition: there are as
many notifications outstanding as connections in the queue. The steps are few in kind (a thread takes events,
takes a connection up, puts it down, pushes it, pulls it, or changes a connection that it
has), each with a lemma; the rest is to show which kind each action of each server is.
`SlotsAccount` is inductive together with `OwnInv`, which gives the types (`SlotsInv`).

**The answers.** `AnswerExact` says something only about the sums of lengths; why they come
out right is the stage that a `Conn` has reached (`Staged`), the same for all 28 servers:

* `Reading`: the codec has part of the head or of the body and knows which (`Decoding`);
  what it has, what is in the socket and what the client has still to send are together no longer than
  the one message that was asked for.
* `Got`: the message is complete, nothing is left of it in the socket, and the answer has
  the length of the body that the head named.
* `Writing`: what is written and what is left to write are together what the client
  waits for; or the last byte is out, and the `Conn` is about to be reset.

`Fits` and `Clean` tie the stage to the rest of the `Conn`: a read event goes with reading, a write event
with writing, a submission to io_uring with the stage it was made in; who has an error is
closed. `Placed` ties it to threads and queues: who is at `send` has an answer to write, who
is about to be pushed, or is in the queue, has a complete message. Each operator on a `Conn` (`ReadOnce`, `DeCode`, `Encoded`,
`Write`, the resets, the events) has a lemma on what it does to the stage, and each kind of step one that
says so of the whole state (`StepKeeps` and its kin). Two threads must not have the same
`Conn`, so `OwnInv` is needed for the 26 servers it holds for. In the other two a
connection has copies in several processes, and they get invariants of their own: `ForkInv` (MultiProcess:
a child serves one connection, whose descriptor it keeps until it closes it, and the parent
abandons no connection that has a child) and `MasterInv` (EpollReactorProcessPoolMS: what
is registered, sent as a message or worked on has been accepted). Nothing is claimed of a connection whose client
has hung up.

**Only model-checked:** the liveness properties `RunReturns`, `MutexProgress`, `SyncProgress`, `Stops`,
`Answered`, `Released`, which need fairness and `ENABLED`. Every invariant and every action
property of the passing runs is a theorem. Also out of the prover's reach are recursive operators,
of which there are none here, and the library's induction theorems. Where a proof needs
induction (sums over sets, the earliest timer of a heap) the smallest counterexample
is taken: the library proves that a non-empty set has a minimal element under a
well-founded relation, hence a least number, and a smallest set (`LeastId`, `SmallestBad`).

## Not modelled

* EpollReactorProcessPoolHSHA: unfinished, its shared queue is a stub and it does
  not compile.
* `Schedule::Sleep`: nothing in the repository calls it. Its timer resumes by id,
  although `Run` may have resumed the coroutine before, or it may have finished
  (`coroutine.cpp:126`); `CallBackInTime` states the same hazard for load generator 2.
* Coroutine-local variables, the keys and the registration of SingleFlight objects,
  and mutexes constructed or destroyed while `CoMutexResume` iterates: each object
  is there before the first coroutine.
* Signals: `EventLoop::Run` loses the timer it has taken when `epoll_wait` is
  interrupted (`eventloopcore.cpp:28-31`); nothing in the repository installs a
  handler. `SIGPIPE`, failures of `fork`, of `SendFd` and of allocation.
* Histograms, percentiles and printing, the command line, the test framework, the
  demos. They were read as users of the library.
* Input no client of the repository sends: bytes after a complete message, for
  which the loop of `Codec::DeCode` has no branch, malformed heads, a client that
  never reads (a worker of HSHA1 in direct mode then spins, line 49).
* A full submission queue of io_uring, where `io_uring_get_sqe` returns null. The
  limit of `select` is modelled (`Refused`).
* In the coroutine servers with Consumers, a Consumer serves one connection and is
  not created anew: connections accepted after the last one was taken up are never
  served. `Abandoned` excepts those, each by itself; `Aborted` is the end of the process
  when `CoroutineCreate` finds no slot.
* The number of open descriptors: load generator 1 never closes that of a connect that
  fails at once (`client.hpp:159-162`); the new client just has another one.
* Stacks and saved contexts (`ucontext`) are abstracted to the place at which a
  body continues; message contents to lengths, and to whether the answer is the
  one that was asked for.

What could be added next: `Schedule` under `CoServer` in place of its pool count, and local
variables together with the reuse of slots.
