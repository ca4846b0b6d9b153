# MyselfWebServer: a TLA+ development

This directory holds TLA+ models of the server's reactor, its connections, its
thread and timer machinery, its parser, its router and reverse proxy, its log, its
limiter, its metrics and the way all of it starts and stops; TLC configurations that
check them on small instances; and proofs, checked by TLAPS, of the properties that
matter most. Paths below are
relative to the repository (`src/net/...`, `include/myself/...`).

## The system

| Part | State | Operations | Talks to |
| --- | --- | --- | --- |
| `TcpConnection`, `Channel`, `Epoller` | interest set, output buffer, pending file, deferred half-close, idle timer | `send`, `sendFile`, `shutdownWrite`, `forceClose`, the read, write, close, error and idle handlers | its `EventLoop`, the kernel, the message and close callbacks |
| `EventLoop` | `quit_`, `pendingFunctors_`, the eventfd | `loop`, `quit`, `runInLoop`, `queueInLoop`, `wakeup`, `handleWakeup`, `doPendingFunctors` | every other thread, through its queue |
| `EventLoopThread`, `EventLoopThreadPool` | the thread, `loop_`, `next_` | `startLoop`, `threadFunc`, `join`, `nextLoop` | main thread, IO threads |
| `TimerQueue`, `Timer` | `entries_`, `activeTimers_` | `addTimer`, `cancel`, `nextTimeoutMs`, `handleExpiredTimers` | its loop; other threads through `runInLoop` |
| `ThreadPool` | `running_`, `tasks_`, workers | `start`, `stop`, `submit`, `workerLoop` | message callback, `main` |
| `AsyncLogging`, `LogFile` | the current, spare and full buffers; the open file | `append`, `flush`, `stop`, `threadFunc`; `append`, `flush`, `rollFile` | every thread that logs |
| `TokenBucket` | rate, burst, tokens, time of the last refill | `tryAcquire`, `configure`, `reset` | message callbacks on all IO threads |
| `Metrics` | atomic counters, histogram | `onRequestFinished`, `onConnectionOpened`, `onConnectionClosed`, `snapshot` | all threads |
| `main.cpp` | connection registry, signal flag, the objects above | accept, message and close callbacks, the shutdown timer, `closeAll`, the order of destruction | everything |
| `Acceptor` | listening socket, its backlog in the kernel | `handleRead` | base loop, accept callback |
| `HttpParser`, `HttpRequest` | parse state, the request | `parse`, `takeRequest`, `reset` | message callback |
| `Router`, `HttpResponse` | routes, document root; status, headers, body or file | `handle`, `serveStaticFile`, conditional requests, `serialize` | message callback, workers, the file system |
| `ReverseProxy` | none of its own; a socket for each call | `forward` | `Router`'s prefix handler, the upstream |

What is hard here: one connection is driven by epoll edges, by its own
callbacks, by timers and by tasks other threads queue; the loop's queue and
eventfd are shared by all threads; the log, the pool, the limiter and the counters are
called from all threads at once; a file changes between the `stat()` that describes it, the
`open()` and the `sendfile()` that sends it; an upstream stops anywhere in its answer; the
base loop, the IO loops and the workers share a registry keyed by a descriptor the kernel reuses; and a shutdown takes all of it
down in an order.

What makes each part correct: a connection sends what it promised, in order, loses
no edge and lets go of everything when it closes; a loop runs every task once, in
order, and never sleeps over one; an IO thread can be joined; timers fire in
order, none is slept past, a cancelled one is gone; the pool runs what it
accepted and stops; the log writes every line once and in order; the parser makes the same of a
message however it arrives, and each request has its one answer; an answer is as
long as it says, closes what it opened, and is a 304 when and only when the
client's copy is current; the limiter keeps its rate; the metrics lose no count; the
server owns each connection on one thread, forgets nobody in the backlog, keeps
its limit and exits.

## Modules

| Module | Models | State and actions |
| --- | --- | --- |
| `ByteStream` | what a connection promises its user | the promised bytes leave in order; only bytes of truncated files are skipped |
| `TcpConnection` | `TcpConnection.cpp`, `Channel`, `Epoller`, the socket | one action per system call of a handler (`ReadSome`, `Flush`, `SendFileSome`, ...), so that the peer and the kernel act in between; `thread` and `inWrite` say which frame the IO thread is in; a byte is its number in the promised stream |
| `Mailbox` | a FIFO of tasks | posted, then run, in order |
| `EventLoop` | `EventLoop.cpp` | one step per access to shared state (`quit_`, the queue under the mutex, the eventfd); `at` is the place in `loop()` |
| `EventLoopThread` | `EventLoopThread.cpp`, `EventLoopThreadPool.cpp`, the base loop of `main` | EXTENDS `EventLoop`: start, publication, quit, join and destruction around it |
| `TimerQueue` | `TimerQueue.cpp`, `Timer.cpp` | `entries_`, `activeTimers_` and the expired batch; callbacks that add and cancel; calls from another thread that are queued |
| `ThreadPool` | `ThreadPool.cpp` | one action per critical section; the condition variable with spurious wakeups; refines `Mailbox` too |
| `LogFile` | `LogFile.cpp` | sizes, times and counts of the open file; `fopen` may fail, and what stdio is given may be refused by the disk (`lost`). A component: its calls are parts of the steps of `AsyncLogging` |
| `AsyncLogging` | `AsyncLogging.cpp` | the four kinds of buffers, the hand-over between the front end and the background thread, and its calls on the `LogFile` (`logFile == INSTANCE LogFile`) |
| `HttpParser` | `HttpParser.cpp` on its input buffer | one action per turn of the loops of `parse()`; bytes are CR, LF, filler, or one that stands for the meaning of its line. Also the meaning of a message seen whole, which the parser is compared with |
| `HttpSession` | the message callback of `main.cpp`, a worker's task, the way back | EXTENDS `HttpParser`: pieces that arrive, requests taken, limited, answered or offloaded, answers posted, half-close and close |
| `MCHttpSession` | the messages a peer may send in the runs | |
| `TokenBucket` | `TokenBucket.cpp` | the clock is read before the mutex is taken. A component of `Accounting` |
| `Metrics` | the counters of connections and requests in `Metrics.cpp`, the quantiles | an update is a sequence of counters, one atomic operation a step; a snapshot loads them in the code's order. A component of `Accounting` |
| `Accounting` | the message callback, a worker's task and `respond` in `main.cpp`, by what is counted of a request | EXTENDS `Metrics`, with `limiter == INSTANCE TokenBucket`; each thread's place between arrival and answer |
| `MCAccounting` | bounds, and a reference definition of quantiles | |
| `HttpDate` | `formatHttpDate()`, `parseHttpDate()` in `Router.cpp` | dates as words; `gmtime_r` by what a date is |
| `HttpResponse` | `HttpResponse.cpp` | what delimits and validates an answer; header names by their spelling |
| `ReverseProxy` | `ReverseProxy::forward()` | one action per system call, `step` is the place in the function; the upstream's reply in pieces. A component of `Router` |
| `Router` | `Router.cpp`, and what `respond` and `sendPendingFile()` do with its answer | EXTENDS `ReverseProxy` and `HttpDate`; one action per system call, so that the file changes in between; the client, its copy and its conditional requests |
| `MCRouter` | the start of time, the upstream's replies, the days whose dates are tried | |
| `Server` | `main.cpp`, `Acceptor.cpp` | the threads, the backlog and its edge, the registry, the accept and close callbacks, requests handed to workers, and the exit; a connection lives while something holds a reference |
| `CommonLemmas` | lemmas the proofs share | ascending sequences, queues and queues of tagged tasks, least elements, sums over finite sets |
| `TcpConnectionProofs`, `SchedulingProofs`, `AsyncLoggingProofs`, `AccountingProofs`, `ServerProofs`, `HttpSessionProofs`, `RouterProofs` | theorems | see below; `SchedulingProofs` is about `TimerQueue`, `EventLoop`, `EventLoopThread` and `ThreadPool`, which have no state in common and name their definitions so that one module can extend them all |

`TcpConnection` and `EventLoop` meet in one assumption, that a queued task runs
on the loop thread between two handlers: `EventLoop` proves it of the queue,
`TcpConnection` uses it as `BeginFunctor`. `Server` uses the loop at the
granularity of tasks for the same reason, and the closing of a connection as the two
steps that matter to it, the descriptor closed and the callback run.

A definition called `X_Y` is `X` with a mistake in it that a maintainer could
make. Put in the place of `X` it must break a property, which shows that the
property looks at the code it is about.

## Runs

Every run ends with the whole state space explored. Liveness and safety are
checked by the same run of a module, under its fair specification.

| Run | Bounds | What it shows |
| --- | --- | --- |
| `TcpConnection` | socket buffer of 2 bytes, 4 promised bytes, 2 requests, idle timeout on | `WireInOrder`, `ImplementsByteStream`: nothing overtakes, repeats or is skipped through the three stages of `handleWrite()`. `UnsentIsAwaited`, `NoLostEdge`: with the interest set switching between edge- and level-triggered, what is unsent or unread is always reported. `HoldsWhatItNeeds`: timer, file, epoll entry and close callback follow the state. `HalfCloseWhenFlushed`, `PromisesAreKept`: a half-close asked for behind data waits for the flush, and with a peer that reads, all that was promised is written and then the half-close is done. Two bytes make partial writes, four make head, file and tail, two requests make a response queue behind an unfinished one |
| `TcpConnectionHalfClose` | 1, 2, 1 | a half-close with nothing queued never happens |
| `EventLoopThread` | owner and two other threads, 1 task each, 1 task of the loop's own, no timer | `WakeupsArrive`, `PostedIsRun`: no wakeup is lost although no timer rescues the loop. `ImplementsMailbox`. `LoopOutlivesPosts`: nobody posts to a destroyed loop. `JoinAfterQuit`: the loop ends and is joined. One task per thread is enough because what matters is the order of a push and its wakeup against swap, poll and quit |
| `TimerQueue` | 2 timers, times 0..2, 2 calls from outside | `TimersAreConsistent`, `NoOversleep`, `InDueOrder`, `DueFires` with one-shot and repeating timers in one batch |
| `ThreadPool` | 2 workers, 2 submitters, 2 tasks each, 2 starts | `SleepersAreSpare`, `DrainedOnExit`, `PoolImplementsMailbox`, `AcceptedIsRun`, `StopReturns`, restarted once |
| `AsyncLogging` | 2 threads, 4 lines in all, buffers of 2 lines, 1 flush; files roll at 2 lines or 1 second, looked at every 2 calls; 3 instants | `LinesSurvive`, `StoppedIsFlushed`, `BytesSurviveRolls`, `OldFileIsLeft`, `LoggedIsFlushed`; empty, part full and full buffers are handed over, and a buffer can be too long for its file, or come when the file is too old, or when none can be opened, or the disk takes only a part of it |
| `HttpSession` | streams of 3 messages: 13 kinds by 13 kinds, then a plain one; heads of at most 10 bytes, bodies of 1; no worker and two | `FragmentsDoNotMatter`: every cut into pieces gives the requests of the whole, and the error. `AnswersMatchRequests`, `RequestsAreAnswered`. The kinds keep or pass each limit by one byte, close, keep alive, lack a line or a meaning; two messages of every kind make one parse begin where another one ended |
| `HttpSessionOrder` | the same, one worker | a pipelined request overtakes an offloaded one |
| `Accounting` | 2 threads, 2 requests or connections, 1 class, 1 method, 1 finite bucket, rates 0 and 1 changed at any time, 2 instants | `NothingUncounted`: each request and connection is once in each place it belongs, and the peak survives the race for it. `SnapshotIsOrdered`: no snapshot shows an effect without its cause. `LongRunRate`, when clock readings arrive out of order. Two threads make every race of two atomics; a snapshot makes the third party. On start TLC evaluates the quantiles of all sorted samples of up to 6 latencies in 4 buckets against their definition |
| `Router` | files of 0 to 2 blocks (threshold of `sendfile` 2), 2 seconds, 3 contents, 6 kinds of revalidating clients and one that asks for the rest, 6 upstream replies (one announces less than its body, one is a 304 with a body), requests written in 2 pieces | `DescriptorsReturned`, `Delimited`, `RevalidationIsRight`, `RequestsEnd`. Three contents make one that comes back, two seconds make two changes within one, and the first second is the last of 1999. On start TLC reads back every day of a 32-bit clock in all three forms |
| `Server` | `-t 0` and `-t 1`, no limit and a limit of 1, workers, 2 connections, 1 request each | `OwnersAgree`, `Admission`, `CleanExit`, `ShutdownEnds`. Two clients are one that connects while the other is accepted, and one over the limit. One request of each is enough because a worker matters here only by the reference it holds, before its reply is posted and after |
| `ServerFdReuse` | two IO threads, 2 connections | the late `registry.remove(fd)` destroys another loop's connection |

Deadlock checking is off everywhere: each of these systems may stop (a closed
connection, an ended loop, bounds reached).

### Fairness

A thread that can run does: weak fairness of each thread's own steps. The
exceptions are these. `HandleEvent` in `TcpConnection` and `QuitTimer` in `Server` are
strongly fair, because every round of `EventLoop::loop()` polls and looks at the
timers before it runs tasks, so tasks cannot starve them. `PeerDrain` is fair in the
properties that need a peer that goes on reading. In `Router` the thread that serves is
weakly fair, which for a blocking call says that it returns when the upstream has
said something or its timeout is over; a reply has an end. In `Server` the accept
loop is part of the base loop's fairness. Nothing is assumed of clients, of whoever
edits files, of the application's calls, of signals or of timers that other parts
set.

## What is proved

Every theorem holds for all values of the constants that the named ASSUMEs of its module
allow, which TLC evaluates in the run of the module. They say what the code's types and command
line say (numbers are naturals, a buffer is not empty, threads are finitely many, CR is not
LF) and three things more: the latency bounds of `Metrics` ascend, as the code's table does;
the owner of an `EventLoopThread` is one of those that post to it; and `Nil` of `AsyncLogging` is
no buffer and no time, as `nullptr` is none. Of an upstream nothing is assumed but that its
reply has a status, headers and a body (`ProxyAssumption`). The arguments follow, by module; each names the inductive invariant where
the property alone is not one.

`TcpConnectionProofs`, for every buffer size, every number of promised bytes and
requests, idle timeout or not:

- `TypeCorrect`; `Awaited`, `Resources`: by `CI`, which adds to the stated
  properties what the frame of the IO thread tells: which events are being
  handled, that a frame other than a read or write frame never sees a half-closed
  descriptor, and that the pending file and the bytes in front of it agree.
- `InOrder`: `WireInOrder` alone is not inductive. `OrderInv` says where all
  promised bytes are: the wire, then the first part of `output`, then the file,
  then the rest of `output`, each ascending and each below the next, all at most
  `promised`. Every step is first shown to be one of a few steps on bytes
  (`StepIsBytesStep`: promise behind, promise a file, move from the front, give up a
  file, drop everything), and each of those keeps `OrderInv` by the lemmas of
  `CommonLemmas`.
- `HalfCloseAfterFlush`: an action property, from the two actions that may half-close.
- `EdgesArrive`: `EdgeInv` says for each kind of readiness who will look at it: the
  event is in epoll's list, or in a frame that is still to come to it. Reading is always
  in the interest set, and what is in the socket's buffer is never more than its size.
- `Refinement` of `ByteStream`: order comes from `OrderInv`, completeness from `KeptInv`:
  each promised byte is on the wire, in the buffer, in the file, or was lost with the
  end of a file, and lost ones are nowhere else. The wire is then the one ascending
  sequence of its bytes, and every step is a step of the stream or a stutter.

`SchedulingProofs`, of loops and their threads, for any number of threads and tasks:

- `LoopTypeCorrect`, `LoopRunsInOrder` (what was posted is what has run, the batch, the queue);
- `WakeupsReachLoop`: `WakeInv` says of each place in `loop()` who will notice a
  task, a quit or a count of the eventfd: the round still to come, the wakeup about
  to be written, or the edge that is there;
- `LoopIsAMailbox`: the loop implements `Mailbox`; a push is `Post`, `RunFunctor` is
  `Run`, everything else stutters;
- `PostsFindALoop`: `LifeInv` ties the places of the IO thread, the loop and the owner
  together. An IO thread's loop is there as long as it is published, only its owner's quit ends
  it, and wakeups are written only before that; `main()` waits for the
  posts before it destroys the base loop;
- `ThreadRunsALoop`: an `EventLoopThread` moves the loop by steps of `EventLoop` only, so that
  what is proved of a loop by itself holds of one in its thread.

Of the pool, for any number of workers, submitters, tasks and restarts:

- `NoWakeupIsLost`: `SleepInv` counts. `EnoughAwake`: if anyone sleeps, those awake and
  the notifications on their way are no fewer than the tasks in the queue;
  `NobodyMissesStop`: who sleeps once the pool stops will be notified. The counts are
  cardinalities, so that the proof is about one worker who enters or leaves a set.
- `StoppedIsDrained`: once the pool stops it accepts no task, and a worker ends only when
  it finds none; so the queue is empty from the first that ends until the next start.
- `PoolIsAMailbox`: the pool implements `Mailbox`; a submission that is accepted is `Post`, a
  worker taking a task is `Run`.

Of timers, for any number of them, any delays and intervals, any clock:

- `IndexesStayConsistent`, `SleepsInTime`: by `TimerInv`. `HandoffInv` follows a timer on its way
  from `addTimer()`: its insertion is queued once and in one place, and nobody knows a timer
  that has not been made; a timer that is not inserted yet is in neither index.
  `IndexInv` is the property itself. `TimeInv`: the loop never believes it is later than it is, its
  deadline is no later than the first entry while it sleeps, and a task in the queue
  means that it has been woken.
- `FiresWhenDue`: an action property, since the expired batch is never from the future.

`AsyncLoggingProofs`, for any number of threads, lines and buffers, any roll size, period and
number of calls between two looks at the clock:

- `NoLineIsLost`, `StopFlushes`, `BytesAreAccountedFor`, `OldFilesAreLeft`: by `LogInv`. Besides the
  properties it says which buffers exist at each place of the background thread and
  who may still use them (`BackInv`), and that an open file's count is below the number at
  which its age is looked at, and nothing has been written late to a young one (`DiskInv`).
  The buffers are laid end to end by `FlattenSeq`; what it does to an appended line
  and to a buffer handed over are lemmas of the module. That bytes arrive in a file cannot be
  had from this code, which does not look at the results of `fwrite()`, `fflush()` and
  `fclose()`: what is proved is that a byte is in a file or in stdio's buffer, or was
  dropped without a file or refused by the disk, and that a roll by itself loses none.

`AccountingProofs`, for any number of threads, requests, methods, classes and latency bounds, any
rates and burst sizes:

- `RateIsKept`: `LongRunRate` is not inductive, since it forgets what is left in the
  bucket. `Books` adds the ledger, that what was let through and what is left is no
  more than the burst and what has been refilled up to the time of the last refill, and that
  no reading of the clock is in the future. A step of the server leaves the bucket
  alone or is one of its steps.
- `AllAreCounted`: `NothingUncounted` looks at one instant; `Flow` accounts for all of it. What
  has happened is the sum of a family of counters and the threads that still owe it one
  (`FlowInv`), and requests that started are finished, queued, posted, or at a thread's
  stage. `MetricsShape` says what an unfinished update may owe: no two counters of a family, the
  current connections last, a bucket only with its count. For
  `connectionsMax`, `PeakInv`: whoever has seen the peak and has not stored it yet will.
- `SnapshotsAreOrdered`: `SnapInv` compares what has been loaded with what would be read
  if the rest were loaded now, which only grows. The order of `p50`, `p95` and `p99` follows
  from the first bucket each reaches, by arithmetic.

`ServerProofs`, for any number of connections, requests and workers:

- `ClientsAreAdmitted`: for any number of IO loops what waits in the backlog is known to the
  acceptor, and with none at most `Limit` connections are open. That a descriptor is free
  below the limit is a pigeonhole argument over `Fds`.
- `OwnersAreKnown`: for at most one IO loop, which is a hypothesis of the theorem and a bound of
  the run, and no convenience: with two it fails (`ServerFdReuse`). `ServeInv` says, while the server
  serves, that descriptors are not shared, each connection that was accepted has one
  creation to come, and the closing under way is of the connection the registry names. So whoever lets go of a
  connection that is open, a worker too (`WorkerForgets`), is not the last.
- `ExitsCleanly`: with `-t 0`, by `BaseInv`: the one loop has ended before `main()` closes what is
  open, so nothing is created behind its back, and nothing is left when the workers are joined.

`HttpSessionProofs`, for any stream of bytes, any limits, any number of workers:

- `AnswersInOrder`: `SessionInv` adds to `OneAnswerEach` and `OvertakenIsOffloaded` where
  requests are. Whoever is in the pool was offloaded, and a malformed message is the last
  one (`PlaceInv`). With one worker, what is posted comes before what is queued, both
  ascend, and an offloaded request that has been answered is earlier than all of them
  (`OneWorkerInOrder`).
- `FragmentsMeanTheWhole`: the parser sees a piece at a time, the property is about the whole
  stream. `ReadingInv` compares the two at each place of `parse()`. Each request taken is
  a message, and they lie end to end from the start of the stream (`PastInv`). The members of the
  parser are what the bytes read since then say: nothing, the lines of a head so far,
  a head, a message; or these and all that has arrived are malformed (`NowInv`). When the callback is
  left, nothing more could be parsed (`RestedInv`). What the bytes mean as a whole does
  not change when more of them come, unless they were no message yet, which is the
  larger part of the proof.

`RouterProofs`, for files of any size, clocks, changes and replies of any number, and any threshold of
`sendfile`; `RouterInvariance` proves the six parts of `IInv` together:

- `FilesClose`: by `OpenInv` and `ProxyInv`, which say at which places the socket and the
  file may be open, and how much of its reply the upstream may still have.
- `AnswersDelimited`: by `MadeInv`, that is, what the answer owes to the `stat()` it began
  with. `FileKept` and `Known`: the file is as long as `stat()` said unless it shrank since,
  and what `stat()` told is what the file has been, which it still is if nothing happened.
  `AnswerInv`, `SentInv`: the place tells what has been made or sent of the answer. Of a
  forwarded answer it says where its length comes from: it is the right one, or one the
  upstream announced itself (`PassedOn`).
- `Revalidation`: by `CopyInv` and `RequestInv`, that the client's copy is of something the
  file has been, and its request says so. It then compares dates. That a date written
  in any of the three forms is read back as the second it was written from is a
  lemma for every year from 1970, but for the years that two digits do not tell (`RFC850`); of
  those it says that the date is refused or read as an earlier one. It needs the calendar: every day has one year and month, leap days come between
  as `LeapDays` counts them, and `DaysFromCivil`'s era arithmetic counts the same.

Sums and `FlattenSeq` are folds, which the library defines by a choice of a function and the provers
cannot unfold. `CommonLemmas` and `AsyncLoggingProofs` characterise them first: that the
function exists, for each length or each set, is proved by its least counterexample.

Only model-checked are

- liveness: `PromisesAreKept`, `PostedIsRun`, `JoinAfterQuit`, `DueFires`, `AcceptedIsRun`,
  `StopReturns`, `LoggedIsFlushed`, `RequestsAreAnswered`, `RequestsEnd` and
  `ShutdownEnds`. Fairness is a statement about ENABLED, which the prover does not handle;
- that the quantiles of `Metrics` are the ones of their definition, which is an induction over the
  buckets. TLC compares them over the inputs the table names.

The runs that expect a violation are counterexamples and have no theorem.

## Where the code and its documents differ

Three differences have a run of their own:

- `TcpConnectionHalfClose` (`TcpConnection.cpp:116`): `Channel::isWriting()` also
  tests the `EPOLLET` bit that `enableReading()` sets, so `shutdownWrite()` with
  nothing queued defers the half-close to a writable event that does not come.
- `ServerFdReuse` (`main.cpp:536`): the registry is keyed by a descriptor that is free
  before its entry is removed.
- `HttpSessionOrder` (`main.cpp:514`): with workers, answers of one connection come in
  the order they are ready, not in the order of the requests, which
  `docs/stage-3-验收记录.md:28` promises. `AnswersMatchRequests` says which may overtake.

Others were met while modelling; the models have the behaviour and the
properties are stated so as not to deny it:

- For the same reason as above, a connection does not take the direct write of `sendInLoop()`
  (`TcpConnection.cpp:55`) until its first flush.
- `disableWriting()` clears the shared `EPOLLET` bit (`Channel.h:57`), so after the
  first flush direct writes are possible and the channel is level-triggered, unlike what `Channel.h:19` says.
  `NoLostEdge` shows that no event is lost by it.
- `loop()` clears `quit_` when it is entered (`EventLoop.cpp:46`), after
  `startLoop()` has handed the loop out: a `quit()` in between is lost and `join()`
  waits for ever. Hence "of a loop that was entered" in `JoinAfterQuit`.
- `quit()` may call `wakeup()` on a loop that has seen the flag and been destroyed
  (`EventLoop.cpp:63`).
- A timer cancelled by a callback of the same expired batch still fires, and a
  repeating one is set again (`TimerQueue.cpp:76`), unlike `EventLoop.h:61` says.
- A roll within the second its file was opened in goes on in that file
  (`LogFile.cpp:85`, `makeFileName`), which then grows past the roll size.
- A short `fwrite()` is counted short and its rest dropped (`LogFile.cpp:80`), and the results of
  `fflush()` and `fclose()` are not looked at (`LogFile.cpp:30`, `:50`, `:93`, `:105`): on a full
  disk lines are lost, whole or in part, with a file open. `lost` counts their bytes; hence
  "or was refused by the disk" in `StoppedIsFlushed` and `BytesSurviveRolls`, and
  `LoggedIsFlushed` says that a flush comes, not that the disk takes it.
- The bucket may let more than a burst through at one instant, because an old
  clock reading makes the next one refill again (`TokenBucket.cpp:28`). `LongRunRate`
  still holds.
- With workers, a malformed message, or a request that ends the connection, behind an
  offloaded request may half-close the connection before that one is answered
  (`main.cpp:459`); its answer is then lost. Hence "or its connection is closed" in
  `RequestsAreAnswered`. The same is so of a task that throws, which the pool swallows
  (`ThreadPool.cpp:84`); `Router::handle` is taken not to throw.
- After a request that is not kept alive the callback returns, but what was
  pipelined behind it is parsed and answered when more is read (`main.cpp:526`).
- A snapshot of the metrics is not the consistent view `docs/architecture.md:73`
  promises. With its count ahead of its buckets, p95 or p99 may fall back to 5000 ms
  (`Metrics.cpp:159`), below a p50 of up to 10000 ms: hence the condition in
  `SnapshotIsOrdered`.
- The comment at `Router.cpp:164` says that any change of time or size changes the
  ETag. The time is in whole seconds: a second change within one second that keeps
  the size keeps the tag, and a client goes on with the older content. Hence
  `TagsTell` in `RevalidationIsRight`, and `DatesTell` for a client that has only the date,
  which an older file put in place also deceives.
- `If-Modified-Since` in the RFC 850 form of the year 2000, written 00, is refused,
  because 0 stands for "no year" (`Router.cpp:138`). The file is then sent again.
- A file that shrinks between `stat()` and `sendfile()` gives a keep-alive answer shorter than
  its `Content-Length` (`TcpConnection.cpp:276`), and so does an upstream that closes early
  (`ReverseProxy.cpp:174`). `Delimited` names both. A wrong length that the upstream announces, and
  a body with its 304, are passed on unread (`ReverseProxy.cpp:238`): `PassedOn`.
- `serialize()` looks for `Content-Length` in this spelling only (`HttpResponse.cpp:39`): an
  upstream's `content-length` gets a second header beside it, with 0 in the answer to
  HEAD.
- `docs/stage-13` says that the proxy never leaves a connection hanging for long (line
  56). The timeout is one of each call (`ReverseProxy.cpp:170`): an upstream that sends a
  byte now and then holds the thread as long as it likes, and without workers that is
  the IO thread. `RequestsEnd` is about replies that have an end.
- An error of `accept4()` other than EAGAIN and EINTR ends the drain (`Acceptor.cpp:48`): with
  edge triggering, the clients still in the backlog wait until another one connects.
  Hence `failed` in `Admission`.
- With IO threads, accepts pass the `-m` test before the registry knows of the
  earlier ones (`main.cpp:427`); `closeAll()` does not wait and misses creations still queued
  (`main.cpp:566`); a request that arrives after `workerPool.stop()` makes `submit()` throw on an
  IO thread (`ThreadPool.cpp:53`); and the registry, the router and the limiter are
  destroyed before the IO threads are joined (`main.cpp:343`). Hence `Admission`'s limit and
  `CleanExit` are about `-t 0`.

## Not modelled

- Of `Router` and `ReverseProxy`, the text: content types, the bytes of a path (an unsafe one is
  one that `isPathSafe()` refuses), the rewritten path and the headers of a forwarded
  request. A directory, or what else is no regular file, counts as no file.
- Of `Metrics`, the counters that are a single `fetch_add` nothing else depends on (rejected
  connections, not-modified answers, errors, bytes), and rendering.
- When stdio writes: what it writes out before a flush is counted with the next flush, and
  what a failed flush leaves in its buffer is counted as lost.
- Chunked replies of an upstream, whose chunks are copied like any body.
- What a line of a message says beyond its kind: spaces, letter case, percent signs
  and header values that are not read.
- `Buffer`, `Socket`, `HttpRequest`, `Logger`, `LogStream`, `Version`,
  `Timestamp`: storage, system call wrappers and formatting without concurrency;
  the models use what they promise.
- Integer overflow of byte counters, allocation failure, and memory-model effects
  weaker than sequential consistency.

## Plan

1. Done: connection, loop, IO thread, timers, pool, log, limiter and metrics with the
   requests they count, server with its acceptor, the HTTP conversation of a
   connection with its parser, and the router with files, revalidation and proxy.
2. Done: proofs of every safety invariant and action property the runs check, and of the
   refinements of `Mailbox` and `ByteStream`.
3. Left: `Buffer` as a queue of bytes with its two indices, if its proof is worth having; and, of
   `Server`, which of `CleanExit` survives with IO threads.
