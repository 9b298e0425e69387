# NetworkDemo: a verification development

The repository is a small C++ playground: a fork-join thread pool with work
stealing (`src/utils/Gang.h`), stopwatches, a growable array, wrappers that run
`perf` beside a program, and two RPC examples (Thrift and bRPC) with one client
and one server program.  The pool carries nearly all the concurrency of its
own; the RPC examples delegate theirs to their libraries.

## 1. Inventory

Line numbers are of `src/utils/Gang.h` unless another file is named.

| Component | State | Operations | Interacts with | Correct when |
|---|---|---|---|---|
| `ab_barrier_t` (128-245) | `total`, `awaited`, `generation` (also the futex word), a local `state` per waiter | `ab_barrier_init`, `_wait_start`, `_wait_end`, `_wait`; `_reinit` and `_wait_last` have no caller | kernel futex; embedded three times in `Gang` (`middle` is never used) | nobody leaves before all have arrived; usable again at once; no lost wake-up |
| `Gang` (309-547) | `abb`, `abb2`, `flag`, `tasks`, `shutdown`, the threads | constructors, `submit` (two), `submitPerCpu`, `run`, `loop`, `run_main`, `reinit`, destructor | both barriers, the job object | `submit` returns when every part has run exactly once; no thread touches a job that has been replaced; the destructor joins everybody |
| Partition (360-374, 389-400, 410-434) | none | cut `[start, end)` into ranges | its result is the state of `TasksImpl` | ranges tile the job; none empty; sizes differ by one at most |
| `TasksImpl` (260-307) | a cursor and a limit per range | `run(id)` with and without work stealing | called by every thread with a part | each index is passed to `f` once; every thread runs out of work |
| Compare-and-swap helpers (58-115) | the caller's word | `writeCond`, `writeMin`, `writeMax`, `writeAdd`, `fetchAdd` | used by `dedup` and by callers | no update is lost |
| `GangUtil` (573-899) | arrays of block sums | `reduce`, `scan`, `count`, `pack`, `filter`, `dedup` | `Gang::submit`, compare-and-swap | equal to the serial definition |
| `AtomicStopwatch` (`src/utils/StopWatch.h` 72-152) | `start_ns`, whose top bit is a lock | `restart`, `elapsed`, `compareAndRestart`, `compareAndRestartDeferred`, `Lock` | clock | one winner per period; the lock excludes others until it is released |
| `PODArray` (`src/utils/PODArray.h`) | three pointers into storage it owns | constructors, growth, `push_back`, `insert`, `assign`, `swap` | NUMA allocation | no write beyond the storage; growth keeps the contents |
| `PerfMem`, `PerfStat`, `PerfRecord` (`src/utils/Monitor.h`) | the global `perf_pid` | start a child, stop it | fork, kill, waitpid | every child started is stopped once |
| Thrift server (`src/src/Example-ThriftRPC`, `src/src/Server.cpp`) | `server`, `thread` | `serve`, `asyncRun`, `stop`, destructor | `TThreadedServer` | a server that listens stops when told, and carries out nothing afterwards |
| Thrift client (same, `src/src/Client.cpp`) | `socket`, `transport`, `protocol`, `client` | connect with retries, `remoteTime`, `send` | the server | no call is made twice; every client ends; an answer was read while the client waited for it |
| bRPC example (`src/src/Example-bRPC`) | request text, counters | `sender`, `bRPCClient`, `startBRPCServer` | bRPC | every sender ends when asked to quit |
| Generated Thrift code (`src/src/Example-ThriftRPC/gen-cpp/TestProto.cpp`) | none | send, dispatch, process, receive | both ends of a connection | an exception or a broken connection reaches the caller |
| SIMD, hashing, sorting, files, NUMA, logging, tests, vendored jemalloc | | | | not modelled, see section 7 |

What is hard here: threads meet in a barrier whose counter is reset while late
threads are still leaving; `reinit` overwrites the second barrier's counter
without a lock; a slow thread may read `flag` after a later job has replaced
it; the job object is freed as soon as the submitter is through; the destructor
makes the counter run below zero on purpose; a part may throw, on a worker, which
ends it, or on the submitter, whom the exception takes out of `submit` while others
still run the job; several threads
move one cursor past its end.  An array grows only when it is exactly full, and
what it hands out, references and storage, moves with it.  A server may be
stopped before it listens or in the middle of a call, and a connection may break
before or after a call has been carried out.  `PROJECT.json` lists each of these hazards with
its line and the properties that cover it.

## 2. Modules

| Module | Role |
|---|---|
| `Barrier` | one barrier object and the threads inside `ab_barrier_wait`; parameters `Thread`, `GenMod`, `UIntMax`, `BarOverflow`; also the invariant `BarrierInv(P)` for a barrier whose members are the set `P` |
| `BarrierSystem` | a fixed team that calls the barrier over and over; its inductive invariant and what it refines |
| `Rendezvous` | abstract: nobody leaves the k-th wait before all arrived at it |
| `BarrierProofs` | the proofs about `Barrier`, for any set of members, and `BarrierSystem` |
| `Gang` | the pool: two instances of `Barrier`, `flag`, `tasks`, `shutdown`, all threads |
| `ForkJoin` | abstract: a job's parts run once each, and `submit` returns after all of them |
| `GangProperties` | what `Gang` guarantees, with the refinement mapping to `ForkJoin`, and the inductive invariant behind it |
| `GangProofs` | the proofs about `Gang`, which use those about `Barrier` twice |
| `Partition` | the arithmetic of the ranges |
| `PartitionCheck` | every job, and what is expected of the arithmetic |
| `Tasks` | `TasksImpl::run` over the ranges `Partition` makes |
| `TasksProofs` | the proofs about `Partition` and `Tasks` |
| `Stopwatch` | `AtomicStopwatch` shared by threads |
| `Timer` | abstract: a timer won once per period, and owned by its winner until it is given back |
| `StopwatchProofs` | the proofs about `Stopwatch` |
| `GangAlgo` | `reduce`, `scan`, `count`, `pack` of `GangUtil` as functions of their arguments |
| `GangAlgoCheck` | what is expected of those functions, and the calls: every array and argument up to a length |
| `Dedup` | `GangUtil::dedup`, its positions in any interleaving |
| `GangUtilProofs` | the proofs about `GangAlgo` and `Dedup` |
| `PODArray` | several arrays and the storage they own and exchange; also the inductive invariant behind what is proved of them |
| `PODArrayProofs` | the proofs about `PODArray` |
| `ThriftRPC` | the server program, client programs and the stubs between them |
| `ThriftRPCProofs` | the proofs about `ThriftRPC` |
| `Atomics` | the compare-and-swap helpers on one shared word |
| `AtomicWord` | abstract: each of their calls is one indivisible update |
| `AtomicsProofs` | the proofs about `Atomics` |
| `MCBarrier`, `MCGang`, `MCStopwatch`, `MCGangAlgo`, `MCPODArray`, `MCThriftRPC` | instances for TLC |

Correspondence.  A step of `Barrier` is one access to shared memory or one
system call.  `bpc` says where a thread is: `out` (not in the barrier), `dec`
(212), `reset` (220), `read` and `store` (the two halves of 221), `wake`
(222-225), `check` (229), `wait` (the head of the do-while loops 232-238),
`sleep` (blocked in the kernel).  `bgen` is the local `state`.  `Gang` wraps
the same actions: `pc` is `abb` or `abb2` while a thread is in a barrier and
otherwise names the next statement of `run` (526-536), of `submit` and `reinit`
(538-546) or of the destructor (444-469).  A job is the number of its submit;
`job`, `started` and `finished` are history variables.

An exception of a worker's part ends the worker (`Throw`, the catch at 504).  One of
the submitter's own part leaves `submit` (through 377, 403 or 518) while the other
threads go on with the job.  The caller may catch it, and then destroy the gang or
submit again, and the model lets it do either.  Nothing protects the abandoned job
against a further `submit`: `tasks.reset` (375, 401) frees it, `reinit` (544-545)
overwrites the counter its members count down, and a thread may come to execute a
freed job or a part the new job does not have, at which the behaviour ends
(`Undefined`).  No line of the repository says what such a caller gets.  The
history variable `protocol` is therefore `"kept"` until the submitter's part of a
job with several parts throws, then `"left"`, and `"broken"` when the caller
submits after that.  `NoStaleTask` and `ImplementsForkJoin` hold while it is
`"left"`, the abandoned job and the destruction of the gang under it included, and
promise nothing once it is `"broken"`; `ReinitUndisturbed` speaks of a gang that no
exception has left.  The exception of a job's only part leaves nobody behind, and
changes nothing.

`Tasks` has one action per access to a cursor and per call of `f`: `Fetch` and
`FetchNothing` are the two outcomes of line 286, `Call` is one round of the
loops 294 and 304, `EndChunk` their end.  `offset` is `t_offset`, and `next` and
`stop` are `b_i` and `end_b_i`.  `worksteal` is chosen with the job and stays.

`Stopwatch` has one action per access to `start_ns` and per reading of the
clock.  The two methods share their actions and differ in `deferred`.  `Consider`
is the loop's body up to the exchange, with the word loaded at 91 or 131
(`LoadStart`) or by the failed exchange (`ExchangeFails`, which may also fail
for no reason: the exchange is the weak one).  The destructor of a `Lock` is
`Unlock`, the clock, and `StoreUnlock`, the word.  `protocol` is a history
variable: it becomes `"broken"` when a `Lock` is moved or a thread calls
`restart()` on its own.

`GangAlgo` follows the source function by function.  A part of a job in blocks
reads and writes the entries of its own block only, so a block is one step and
the blocks of a job are taken together; for `pack`, whose blocks write where
earlier blocks' counts tell them, the set of all writes is kept and compared.
A loop is a recursive function of how far it has come (`Loop`), and so is a call
of `reduce` or `scan` on the blocks' results; every result is stored in the width
of its variable (`Into`, `Tally`, `Sum`).  The running total of `scan`'s loop has the
type of the `zero` it is given (677), not that of the output: for an array of at
most one block that is the caller's, `int` if it writes 0, and for a block of a longer
one the type of the sums.  `ScanSerial` sends every result of the operation through
that type, signed or not (`Through`, `As`), and converts it to the output's.  The
array that the loop overwrites is carried along, since "out and in may point to the
same place" (`ScanEntry`).  `CountBits` is the choice `countSerial(bool*)` makes by
length and address: words of eight, four or two entries (`CountLanes`), or one entry
after the other.  `Pack` is given an array to write to: its parameter is always a
reference to an rvalue, so it throws on null and the branches that allocate are not
reached.

`Dedup` has one action per access to the array or a flag.  `round` is the job
that is running, 3 after `dedup` has returned.  That a position is run once and
that the second job begins when the first has ended is what `ForkJoin` and
`Tasks` promise of `submit`; how many threads there are does not matter, because
positions interleave freely.

`PODArray` has one action per call.  A pointer is its distance in bytes from
`c_start`: `end` is `c_end` and `room` is `c_end_of_storage`.  `heap` has the bytes
each mapping was asked for, `mem` its elements, slot -1 being the element in the
left padding.  The helpers of the code (`alloc`, `realloc`, `reserve`,
`insertPrepare`, `memcpy`) are operators on a record of the members and the memory,
which a call threads through in the order of its statements.  `value` is a history
variable, the elements a caller expects.  A call whose effect the language leaves
undefined sets `undefined` and is the last: `"stale"` (an iterator or reference
into storage that has moved), `"overlap"` (line 353, a `memcpy` onto itself),
`"left"` (line 244 without left padding) and `"outside"` (bytes beyond the storage,
which `InsideStorage` excludes).

`ThriftRPC` has one action per step that another program or thread can see.
`main` follows `Server.cpp` (`asyncRun`, then the destructor's `stop` and `join`),
`serving` the thread that `asyncRun` starts, `handler` the thread of one
connection, `pc` each client from its constructor to its two blocks in
`Client.cpp`.  A connection is `<<client, call>>`, since each call uses one of its
own.  `Handle` is `process_remoteTime` or `process_send` with the handler's method
and its catch clause.  A `String` that is thrown ends the client.  Of Thrift's
library the model has what the code relies on (marked external in
`PROJECT.json`): `stop` reaches connections' threads first and the accept loop
second, an interrupt is lost on a socket that does not listen yet, and `serve`
returns when the connections' threads have ended.  A connection may break at any
moment, in which case what is in flight is lost, or `listen` may fail.
A client names any host (`Client.cpp` 47), and `CLOCK_MONOTONIC` counts from a point
of its own on each: the server reads `ServerTime`, a client `ClientTime`, which differ
by `Skew`.  The clocks are taken to run at the same rate while a program runs, and
start at any number below the wrap.

`Atomics` has one action per access to the word.  `pc` is `load` (77, 93, 111),
`swap` (the `CAS` at 78, 95, 113 or the weak exchange at 40, 50) or `returned`,
after which the thread may make another call (`Call`), as often as it likes.

Names of definitions are those of the code where one exists.  Operators marked
*Fault* in a comment are the faulty variants used to see that a property can
fail; no specification uses them.

### Abstractions

* Memory is sequentially consistent.  On x86 every read-modify-write is a full
  fence and the remaining stores are released in program order; the code's
  annotation at 212 is `ACQUIRE` only, so weaker machines are outside the model
  (listed as a hazard).
* `generation` is counted in units of `BAR_INCR`.  The instances keep the
  number of rounds below `GenMod`; the wrap after 2^23 rounds, at which the
  comparison at 532 goes wrong, is listed as a hazard.
* The loop in `do_spin` has a bounded number of reads, so a waiter may call
  `futex_wait` whenever its generation is unchanged.  With and without `spin`
  a waiter has the same behaviours.
* `Interrupt` lets `futex_wait` return for a signal at any time.
* `submit` with nothing to do returns before it touches any state: a stutter.
* In `Stopwatch` the clock and the thresholds stay below the lock bit (2^63 ns
  are 292 years), the conversion of seconds to nanoseconds is left to the
  caller, locals are forgotten when a method returns, and `elapsed`, which
  changes nothing, is left out.  Moving is modelled as a second `Lock` object
  with the same parent; a thread destroys its objects one after the other.
* CPU affinity has no influence on the behaviour and is left out.

## 3. Checks

| Run | Instance | What it shows |
|---|---|---|
| `barrier` | 4 threads, 3 rounds, fair | `Inv`: outside the last thread's stores `awaited` is the number of members still to come, inside them everybody else waits; implements `Rendezvous`; `SleepersLeave`: no wake-up is lost |
| `gang` | 3 threads, 3 submits of 1 to 3 parts that may throw, destruction at any time between submits or after an exception, one further submit after an exception, fair; 648 thousand states | `Inv`; implements `ForkJoin`: no submit returns with a part undone, and an abandoned job's parts run at most once; `NoStaleTask`, `ReinitUndisturbed`, `FlagInitialised`; every submit returns unless a part throws; the destructor returns unless a part of a job with several has thrown or a worker was the last to count down |
| `gang_close_hang` | 3 threads, 1 submit, fair | **violated**: the destructor may wait for ever, section 5 |
| `tasks` | 3 threads, 7 indices, chunks of 2, with and without stealing, fair | `Inv`; each index once; nothing left behind; cursors bounded; termination |
| `stopwatch` | 3 threads (symmetric), thresholds 0 and 2, clock to 3, moves and restarts | `Inv`; `PeriodOver`: an exchange replaces an unlocked word whose period is over; implements `Timer` |
| `stopwatch_move` | the same without restarts | **violated**: two threads work under Locks of one stopwatch, section 5 |
| `arithmetic` | arrays up to length 5 in blocks of 2, types of three and four values, zeros of the result's type and of a signed type of two values, four operations; bool arrays up to length 12 at four addresses, in words of four and two entries; all jobs with end up to 14, granule and gang up to 5 | `reduce`, `scan` (inclusive or not, forward or back) and `pack` are what one loop over the array computes; `count` finds every entry; ranges tile the job, none is empty, sizes differ by one at most, one part per granule until the gang is full |
| `dedup` | every array of 4 positions; deadlock checked | `Inv`: a flag names a position of its key from the moment it is taken until that position gives it back; `Deduplicated`: exactly one copy of each key is left, and the flags are clear |
| `podarray` | 2 arrays (symmetric) of up to 2 elements with 2 values; element sizes 8 and 16 with the padding of `Vector`, 8 without padding | every mapping belongs to one array, which knows its size (`StorageOwned`); the padding is there (`PaddingEnough`); no byte beyond the storage is touched (`InsideStorage`); a call that fits leaves the storage in place (`StaysPut`); the elements are those the calls put there (`ContentAsCalled`) |
| `podarray_padding` | 1 array of up to 4 elements of 12 bytes | **violated**: `push_back` eats the padding, section 5 |
| `rpc` | 2 clients with 2 calls each, one on the server's host and one on a host whose clock is ahead by one, 2 attempts to connect, one tick, fair | `Inv`; `HandledOnce`: no call is carried out twice, and each that returns was carried out; `AnswerFresh`: the server read the time while the client waited for it, and the two differences a client on the same host prints add up to what the call took; `NothingAfterLeave`: when the server object is gone, so are its threads; every client ends; a server that listens stops |
| `atomics` | 2 threads, each making calls without end, of 6 operations and 4 arguments, on a word of 4 values, fair | implements `AtomicWord`; `CallsKeepReturning`: as long as a thread is inside a call, calls return |

Bounds.  Three threads are the fewest with a submitter, a thread with a part
and a thread without one; four in the barrier give two late leavers beside a
new round.  Three submits let a thread that was excluded from one job read the
`flag` of the next and the one after that.  A caller that submits again after an
exception has left an unfinished job does so once: nothing is promised from there
on.  Seven indices in chunks of two over three
threads give ranges of three and two indices, so a last chunk that is cut and
one that is whole.  `SizeMod` stands for 2^64 and is above every sum the
assumption in `Tasks` speaks of; `UIntMax` and `BarOverflow` keep the code's
order (threads <= `BAR_OVERFLOW` < largest unsigned).  A clock of four ticks and
thresholds of zero and two allow a period that is over at once, one that is
over after waiting, and a second period after the first; a third thread can
interfere between the load and the exchange of one and the restart of another.
Five entries in blocks of two make three blocks, whose results make two blocks,
whose results make one: the
recursion is entered twice, once with a whole and once with a partial last
block.  Twelve bits are two groups of three words of two lanes, or one group of
three words of four; the four addresses are every remainder by four, and lengths that
are no multiple of six, or at odd addresses, are counted one by one.  The signed type of two values is
narrower than the results' type of four, as `int` is beside 64 bits: it holds some
totals and not others.  A lane holds numbers below four and a `size_t` below sixteen
(`LaneMod`, `SizeMod`), more than three words and than an array can make of them.  Four positions allow two keys with two copies, and one
key with four.
Two elements are enough to fill the first storage of a `Vector`, to double it
and to grow it to a power of two, and two arrays to exchange storage with one
that has none; a third block is free for the move.
Three elements of twelve bytes are the fewest that use up the padding.
Two clients make the server stop while one connection is in a call and another is
waiting; two attempts are the fewest after which one client gives up and
another gets through; one tick separates any two readings of the clock, and a difference of one between
two hosts is as much as a tick.  A thread that calls again and again lets one update
fall between the load and the swap of another thread and a later one bring the old
value back.
The theorems of section 4 do away with the bounds, for every component and every
invariant of the runs that pass.

What the algorithms in blocks need of their arguments is stated in
`GangAlgoCheck`.  `Reducible`: the operation is associative and `zero` is its left
identity, since every block begins with `zero`.  `Scannable`: the operation is
associative, 0 is its left identity whatever `zero` is (line 713 reduces blocks
from `(U)0`), it is commutative when the scan goes back, since blocks are
reduced forward, no sum exceeds the input's type, and the running totals of one
loop over the array are numbers of `zero`'s type (677).  With `minf`, or with bytes
summed into words, an array of more than one block is scanned wrongly although a
shorter one is not; with a `zero` of type `int` and 64-bit sums it is the other way
round.  `GangAlgoCheckAssumption` asks that the type of
the entries can count a block (line 759), which eight-bit entries cannot, that the
result's type is at least as wide (674), that the operations stay in that type and
that a length is a `size_t`.

Deadlock is checked where all threads are expected to end.  It is not checked
in the other runs of `Gang`: a part that throws strands the others in
`abb2` (hazard at 504), and a gang of three may hang in its destructor.  The
bounded number of rounds stops the barrier's run and the bounded clock the
stopwatch's.  The RPC programs come to an end, and so does `PODArray` after a call
with undefined behaviour.  Threads of `Atomics` that have returned need not call again.

Fairness.  Each thread's own steps are weakly fair: the scheduler runs every
runnable thread, and a submitted function returns.  A thread blocked in the
kernel has no step of its own and no signal is assumed to come.  That a caller
submits again or destroys the gang is its own decision and not fair, and neither is
another call in `Atomics`.  In
`ThriftRPC` the server's main thread, its accepting thread, the connections'
threads and the clients are each weakly fair; the last two groups make boundedly
many steps, so fairness to a group is fairness to each member.  The clock and
breaking connections are not fair, and nothing relies on them.  In `Atomics` a
thread inside a call is weakly fair in its steps taken together, which leaves it the
possibility of losing every exchange to the others; a weak exchange that
fails for no reason changes nothing, and is assumed not to do so for ever (on
x86 it never does).

## 4. Theorems

The proofs are checked for every value of the constants that the named
assumptions allow (`BarrierProofs`, `GangProofs`, `TasksProofs`,
`StopwatchProofs`, `GangUtilProofs`, `AtomicsProofs`, `ThriftRPCProofs`,
`PODArrayProofs`).  `BarrierAssumption` says the threads are finitely many, at
most `BAR_OVERFLOW`; `BarrierSystemAssumption` that there are fewer rounds than
generations; `GangAssumption` that the number of threads is positive, below
`BAR_WAS_LAST` (or `flag` could not hold the number of parts) and at most
`BAR_OVERFLOW`, and that there are fewer submits than generations; `TasksAssumption` that a job has a part and that no cursor
wraps even when every thread has pushed it beyond its end; `StopwatchAssumption`
that clock and thresholds stay below the lock bit;
`GangAlgoAssumption` that a block has more than one entry, or the recursion would
not end, and that a lane can count the words that are added before it is read
(128 and 256); `GangAlgoCheckAssumption` what section 3 says;
`DedupAssumption` only that the length of the array is a number;
`AtomicsAssumption` that the word has a value and that `None` is not an answer;
`ThriftRPCAssumption` that a client tries at least once, and that no clock, wherever
it begins, reaches its wrap within the bound; `PODArrayAssumption` that arrays and blocks are finitely many, that
libnuma has a block more than there are arrays (an array has one, and `Gone` is
no array), and that sizes are numbers, that of an element and `INITIAL_SIZE`
not 0.  The modules that instantiate another one's theorems prove its
assumptions of the instance first (`BarriersAssumption`, `SomeJob`).

* `BarrierSafety`: `Spec => []Inv`.  `Inv` is inductive.  That `awaited` counts
  the missing members (`CountOK`) is not inductive alone: while the last thread
  is between 220 and 221 the counter is already full and nobody has been
  released yet.  `LeaderOK` says that everyone else waits at the current
  generation then, and `StateOK` places each thread relative to the current
  generation.  There is one lemma per action, for a barrier whose
  members are any set `P` of the threads, so that they apply to `abb2` as well.
* `BarrierTypes`: `Spec => []TypeOK`; in particular the unsigned counter is
  never decremented below zero in a live barrier.
* `BarrierRefinement`: `Spec => ImplementsRendezvous`.  Each step maps to one
  arrival, one departure or a stutter.
* `GangSafety`: `Spec => []Inv`.  None of the gang's properties is inductive, as
  each rests on where all the other threads can be.  `AbbOK` and `Abb2OK` say that
  the barriers keep their own invariants, `abb` with all threads as members until
  the destructor lowers its total, `abb2` with those that have a part of the job;
  between the two stores of `reinit` only half of the latter holds.
  `RoundsOK` ties them together: `abb2` is at most one generation behind `abb`,
  exactly while a job is `Open`, and `flag` names the job `abb` has let everybody
  into last or, while it is `Renewed`, the one to come.  `SubmitOK` and `ThreadOK`
  place the submitter and each thread.  The case a test would hardly reach, a
  thread held up between `abb` and its test of `flag` while later jobs come and go,
  is `Coming`: the flag it will read is that of its own job, or of one that has no
  part for it or that has not begun.  There is a lemma per action of `Gang`; for
  the steps inside a barrier it takes that barrier's lemma from an instance of
  `BarrierProofs` and adds what the other parts need.
  `Inv` has two parts.  The types, `AbbOK` and the places of the threads hold
  whatever the caller does, a submit after a caught exception included: `abb` has
  all threads as members and nothing an abandoned job does disturbs it.  What the
  jobs and `abb2` promise (`JobsOK`) holds until that submit; while a job is
  abandoned the submitter is gone from it and no longer counted on, so that it
  stays `Open` and its members wait in `abb2` for a thread that does not come.
  `GangTypes`, `GangNoStaleTask` and `GangFlagInitialised` follow; the last holds
  in every behaviour.
* `GangReinit`: `Spec => []ReinitUndisturbed`, for a gang that no exception has left
  with parts still running.  That no thread sleeps in `abb2`
  unless somebody is about to wake it needs a second invariant, `WakeOK`: nobody
  takes the fast path of line 222, which wakes nobody, since a job that uses `abb2`
  has at least two parts, and `SleepersOK` is kept by every step of such a barrier.
* `GangRefinement`: `Spec => ImplementsForkJoin`.  Each step maps to the start or
  the return of a job, to a part that begins or ends, to the submitter leaving, to the
  closing, or to a stutter, and the submit after a caught exception to `Break`, after
  which `ForkJoin` promises nothing; `Inv` says that a part begins at most once and that all have ended when
  `submit` returns.
* `Tiling`, `Fairness`, `ClosedForm`: `Spec => []RangesTile`, `[]RangesFair` and
  `[]CutIsBegins`.  `submit` accumulates the bounds of its ranges in a loop;
  `Cut` is their closed form, which the code does not have, on which the first two rest.  That the loop
  computes it is an induction over the parts, made as an argument from the
  smallest counterexample (`Smallest`, from the well-foundedness of the natural
  numbers), because a rule of induction would need an operator as parameter.
* `TasksInvariant`: `Spec => []Inv`.  "Each index once" is not inductive alone.
  `Claimed(r)` is how far a range has been handed out, and `RanOK` says that an
  index below it has been run or is in the hands of exactly one thread
  (`Holds`), and that any other is untouched.  `CursorOK` bounds each cursor by
  the number of threads that have passed its range (`Passed`), which keeps it
  from wrapping and an exhausted range from looking full again.
  `TasksExactlyOnce`, `TasksNothingLeft` and `TasksCursorBounded` follow, for
  any number of threads, copies of ranges, indices and chunk size, with and
  without work stealing.
* `StopwatchInvariant`: `Spec => []Inv`.  `Tested` says that a thread about to
  exchange has seen an unlocked word and its period over; for
  `compareAndRestart`, which does not test the lock bit, this needs that the bit
  alone makes the sum exceed every clock value and that the sum does not wrap
  (`SumExact`).  `Owned` says, until the protocol is broken, that the lock bit
  is set exactly while one thread works.  `ExchangesArePeriods` is `PeriodOver`,
  whatever others do; `OneWorkerAtATime` and `TimerRefinement`
  (`Spec => ImplementsTimer`) hold until a `Lock` is moved or `restart()` is
  called by a thread without one: from then on `Timer` promises nothing.

* `DedupInvariant`: `Spec => []Inv`.  `Competing` describes the first job, where
  a position that is done has seen its key's flag taken, and `Settling` the
  second, where the history variable `winner` tells what the flag was between
  the two: the winner alone gives the flag back, so a loser that looks late
  finds `max()` or the winner, never itself.  `DedupCorrect`
  (`Spec => []Deduplicated`) follows.

* `ReduceCorrect`, `ScanCorrect`, `CountCorrect`, `PackCorrect`: `CheckSpec =>
  []ReduceIsSerial` and so on, for every length, type, size of the blocks and
  operation (`Operations` is any set of binary functions).  What a call is given
  (`Given`) is kept; the rest is about values.  The library's induction theorems
  take a predicate, which the provers cannot instantiate, so induction is stated
  for a set: `Smallest` (a set of numbers has a smallest one) gives `UpTo` (a set
  with 0 and the successor of each of its numbers below n has them all) and
  `Course` (a set with every number whose smaller ones it has, has them all).
  A recursive function is whatever satisfies its equation: `LoopSteps` shows with
  `UpTo` that `Loop` does.

  Blocks: `Edges` and `BlockEntries` say that block j is the entries from
  `Edge(s, j - 1)` to `Edge(s, j)` and that the last edge is the end.  `LoopOn` lets
  a loop go on where another has stopped, and `LoopAbsorb` lets an associative
  operation take a loop's result in one step, provided the loop began with a left
  identity: so the loop over the blocks' results is, block by block, at the edges
  of the loop over the array (`BlocksForward`; `BlocksBackward` for a loop that
  comes from the end, over blocks reduced from their front, which needs
  commutativity).  `ReduceFolds` is the induction over the length for the recursive
  call, whose array is shorter because blocks have more than one entry.

  `scan`: the loop in place is equal to a closed form (`ScanForm`, by
  `ScanLoopForm`: entry i is still the input's when the loop comes to it).  With a
  running total of another type it is that too provided the type holds the totals
  of one loop (`Holds`, `ScanSerialForm`); the blocks of a longer array keep theirs in
  the output's type, which holds every result of the operation (`HoldsOfSums`,
  `ScanOwnForm`).  The offsets from the recursive call are what the loop has at the edges (`Offsets`), so
  each block's scan is its piece of the whole array's (`ScanBlocks`,
  `ScanCallForm`), and `ScanFolds` is the induction over the length; that a recursive
  function over sequences, whose calls go to shorter ones, satisfies its equation at
  all is `Recursive`.  The sums are
  made in the input's type, and `Closed` is why nothing is lost there.

  `count` and `pack`: `Upto(T, i)` is how many entries of `T` are among the first i.
  A tally is a difference of two of those and less than a block long, so it fits
  the entries' type (`TallyLoop`, `BlockCounts`); the sums fit a `size_t` since the
  array's length does (`SumLoop`).  `pack`'s offsets, from `scan` by `ScanFolds`,
  are `Upto` at the edges, where each block's writes begin (`PackOffsetsRight`).
  For lanes, after j words no lane exceeds j, which is below `LaneMod`: so there is
  no carry (`WordsAdded`, `LanesStep`), and the lanes of a word together
  come to the entries its words have (`Comes`, `WordsCome`).  `PlainCount` is the loop
  for arrays no width fits, and `CountBitsRight` the choice between them.

* `AtomicsInvariant`: `Spec => []Inv`.  Beside the types it says that a thread at
  the swap has read a word its condition accepts.  A swap that succeeds finds this
  word still there, so it is the whole of the abstract call, and a load that gives
  up is one too: `AtomicsRefinement`, `Spec => ImplementsAtomicWord`.

* `RPCInvariant`: `Spec => []Inv`.  `HandledOnce` is not inductive: a call is
  carried out once because it is on its way, on the wire or in a handler, at most
  once, and because no client sends before its constructor and `transportOpen` are
  through (`LinkOK`, `CallOK`).  `TimesOK` follows a time from the server's
  clock over the wire into `remote_time`, between two readings of the client's clock
  for any difference of the two.  `ServerOK` says that nothing waits to be accepted and
  no handler runs when the accept loop has ended, also when it ended because the
  socket could not be bound.  `RPCTypes`, `RPCAnswerFresh`, `RPCHandledOnce` and
  `RPCNothingAfterLeave` follow.  Lemmas `QuietStep`, `OneLink` and `OneClient` say
  once what a step that changes only the server, one connection or one client has
  to show.

* `PODArrayInvariant`: `Spec => []Inv`.  `HeapOK` says that each block handed out
  is in one array, and `Fits` that the array's members account for its bytes
  (`allocated_bytes`); that the block `alloc` takes is no array's follows from the
  pigeonhole principle (`FreeBlock`).  The other conjuncts say that the elements are
  those called for, and that no byte beyond the storage is touched when the size
  of an element is a power of two.  For that, `Fits` says of such sizes that the
  room is a multiple of the size, so that a `push_back` which does not find `c_end`
  at the end of the room has space for a whole element.  The sizes that `reserve`
  and `alloc_for_num_elements` ask for are powers of two themselves; a power of two
  divides every larger one (`PowersDivide`), and there is one between n and 2n - 1
  (`RoundUpPower`), both from the definition by divisors and the smallest
  counterexample.  The model's calls thread a working record through their
  helpers, and so do the proofs: `Sound` is what the record of a call on one array
  always is, `Grown` what a reallocation does to it, `Wrote` what a write does,
  `Holds` what elements it has; each helper has a lemma in these terms
  (`AllocSound` to `SetSizeSound`), each call one made of those, and `CommitInv` says
  once that a call that ends with such a record keeps the invariant of all arrays.
  `ExchangeInv` is the same for `swap` and the move constructor.
  `PODArrayStorageOwned` and `PODArrayContent` follow for every template,
  `PODArrayInside` and `PODArrayPadding` for elements whose size is a power of two
  (others fail, section 5).  `PODArrayStaysPut`: a call that makes room for n
  elements changes nothing when they fit, and leaves n elements (`CommitStays`);
  `push_back` alone does not ask for the capacity, but grows exactly when it is
  used up; and an array that gets another's members by `swap` does not keep its block.
  TLC also finds `Inv` true of the instance of run `podarray`.

Only model-checked: the whole of liveness (the proof system has no rule for
`ENABLED`): `SleepersLeave`, `SubmitReturns`,
`DestructorReturnsUnlessWorkerLast`, `Terminates`, `ClientsEnd`,
`ListeningServerStops`, `CallsKeepReturning`.

## 5. Findings

### The destructor of a gang can hang

The comment at 455-456 says the destructor decrements `awaited` "in order to
make sure there is one thread calling the futex wake".  With a gang of three,
workers A and B:

1. A waits on `abb` and sleeps (`awaited` = 2).
2. The destructor sets `shutdown` and `abb.total = 1`, and decrements: `awaited` = 1.
3. B decrements: `awaited` = 0, B is the last thread.
4. The destructor, in its next iteration, decrements once more before B
   resets the counter at 220: `awaited` is the largest unsigned.  It
   leaves its loop at 463 without calling `futex_wake`.
5. B stores `awaited` and the generation, finds `total > 1` false at 222 and
   skips `futex_wake` too.
6. A is never woken; `t.join()` at 467 does not return.

With two threads there is no A.  Property `DestructorReturnsUnlessWorkerLast` of
run `gang` shows for three threads that this is the only way, a part that throws
aside: if the destructor itself counts down last, it wakes everybody.

### A moved Lock releases the stopwatch early

The comment at lines 125-126 of `src/utils/StopWatch.h` shows work under a
`Lock` "that must be done in one thread".  `Lock(Lock &&) = default` (111)
copies `parent` and leaves the original as it was:

1. A thread gets a `Lock` and moves it, say into a container or another
   function's parameter.
2. The moved-from object is destroyed: `restart()` stores the time without the
   lock bit.
3. The thread still works.  A period later a second thread finds the word
   unlocked and gets a `Lock` too.

The use in the comment, where the result initialises a variable in place, moves
nothing (the compiler constructs it there); no caller in the repository moves one.

### Padding of Vector with elements of any size

The comment at lines 424-425 of `src/utils/PODArray.h` promises of `Vector` that
"padding is enough to read and write xmm-register at the address of the last
element".  The storage made by `reserve`, `insert` or a sized constructor has a
power of two of bytes (101, 169).  With elements of twelve bytes the padding
takes 24 and 32 bytes, and the room of a storage of 64 bytes is 8:

1. `Vector<T> v(0, -1)` leaves `c_end_of_storage` 8 bytes behind `c_start`.
2. `push_back` (298) compares `c_end` with `c_end_of_storage` for equality: 0 is
   not 8, and the element is written over the end, into the right padding.
3. `c_end` is now 12 and will never equal 8 again: the next elements fill the rest
   of the padding and then what follows the allocation.

For elements whose size is a power of two the rooms are multiples of the size,
and the padding is kept (`PODArrayPadding`).

## 6. Plan

Done: every component with a state that several threads, programs or objects
share, except the monitors, and every invariant the runs check is proved.  Left: a
wrapping generation, and 256 parts, in `Gang` (listed as hazards), what becomes of a
gang that is used again after an exception has left `submit`, and `pack` over an
array of bool.

## 7. Not modelled

* jemalloc, vendored under `src/contrib`, which is nine tenths of the lines of
  the repository.  It is a library of its own with its own tests, nothing in the
  programs calls anything of it but the allocation functions, and none of the
  modelled components depends on how it works.  Generated Thrift code beyond
  the two calls' control, and the build.
* `Monitor`: three constructors that fork and three destructors that signal and
  wait.  Only overlapping monitors would interact through `perf_pid`; the
  repository starts none, and says nothing of what they should do.
* The bRPC example: channels, retries and quitting are the library's, and what
  remains is a loop per thread that ends when the library says so.
* SIMD wrappers; hashing, sorting, string splitting, file mapping, NUMA and
  logging, which are thin wrappers without shared state; command lines; the
  programs in `src/tests`, which time sorting.
* `ab_barrier_reinit`, `ab_barrier_wait_last`, the third barrier and
  `IRPCServer::serve`, which nothing calls.
* `Gang(int socket_id)` differs from the other constructor in affinity and in
  leaving `cpu_num` uninitialised; no caller uses `cpu_id` or `submitPerCpu` on
  such a gang.
* `pack` and `packSerial` over an array of bool (827-833), which test an entry itself
  instead of comparing it with the largest value; `pack` given null, which throws.
* The Thrift processor's answer to a method it does not know (461-471 of
  `TestProto.cpp`): the clients here have only the two it knows.
* The single-threaded stopwatches and `AtomicStopwatch::elapsed`: differences of
  clock values that change no state.
* `submitPerCpu` with several copies of the ranges is part of `Tasks` and of its
  theorems (constant `CpuNum`); no run instantiates it.
