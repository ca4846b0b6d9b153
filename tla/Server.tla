------------------------------- MODULE Server -------------------------------
(***************************************************************************)
(* The threads of main(): the base loop that accepts, the IO loops the     *)
(* connections live on, the worker pool, the registry they share, and the  *)
(* way out (src/main.cpp).                                                 *)
(*                                                                         *)
(* Loop 0 is the base loop; the IO loops are 1..NLoops, and with none      *)
(* (-t 0) the base loop serves the connections too.  A loop polls (I/O and *)
(* timers), then runs the tasks it swapped out of its queue; EventLoop.tla *)
(* shows why a queued task runs.  An open connection lives as long as      *)
(* something holds a reference to it; ~TcpConnection() of an open one is   *)
(* only allowed on the thread of its loop.                                 *)
(*                                                                         *)
(* A definition named X_Y is X with a mistake in it: put in the place of X  *)
(* it must break the property that guards against the mistake.             *)
(***************************************************************************)
EXTENDS Naturals, FiniteSetsExt, Sequences

CONSTANTS
    LoopCounts, \* the values of -t looked at
    Workers,    \* -w is not 0
    Limits,     \* those of -m; 0 is no limit
    MaxConns,   \* bound: connections accepted
    MaxRequests \* bound: requests of a connection

ASSUME ServerAssumption ==
    /\ LoopCounts \subseteq Nat /\ Limits \subseteq Nat /\ MaxConns \in Nat /\ MaxRequests \in Nat
    /\ Workers \in BOOLEAN

Conns == 1..MaxConns
Fds   == 1..MaxConns
Loops == UNION {0..n : n \in LoopCounts}
Nobody == 0

VARIABLES
    NLoops,   \* -t
    Limit,    \* -m
    phase,    \* how far main() is: "serve", "closing", "stopping", "stopped", ...
    stop,     \* g_shutdownRequested
    edge,     \* the listening socket has an event that epoll has not reported yet
    accepting,\* the base loop is in Acceptor::handleRead()
    failed,   \* history: the last handleRead() was ended by an error
    next,     \* EventLoopThreadPool::next_
    at,       \* what has become of each connection
    fd,       \* its descriptor
    home,     \* its loop
    left,     \* the requests its client still sends
    registry, \* ConnectionRegistry::connections_
    pending,  \* closeAll()'s `pending', those it has still to hand over
    loopAt,   \* each loop: "poll", "batch" or "ended"
    tasks,    \* each loop: pendingFunctors_
    batch,    \* each loop: the tasks it swapped out
    frame,    \* each loop: the creation or the closing it is in the middle of
    quit,     \* the loops whose quit_ is set
    jobs,     \* the worker pool's tasks: to "run", or "done" and yet to be destroyed,
              \* with the connection they answer
    crash     \* why the process died: "none", "abort", "terminate", "dangling"

acceptorVars == <<edge, accepting, failed>>
connVars == <<NLoops, Limit, next, fd, home>>
loopVars == <<loopAt, tasks, batch, frame>>
mainVars == <<phase, stop, pending, quit>>
vars == <<mainVars, acceptorVars, connVars, loopVars, at, left, registry, jobs, crash>>

Idle == <<"idle", Nobody>>

Init ==
    /\ NLoops \in LoopCounts /\ Limit \in Limits
    /\ phase = "serve" /\ stop = FALSE /\ next = 0
    /\ edge = FALSE /\ accepting = FALSE /\ failed = FALSE
    /\ at = [c \in Conns |-> "none"]
    /\ fd = [c \in Conns |-> 0] /\ home = [c \in Conns |-> 0]
    /\ left = [c \in Conns |-> MaxRequests]
    /\ registry = [f \in Fds |-> Nobody] /\ pending = {}
    /\ loopAt = [l \in Loops |-> IF l <= NLoops THEN "poll" ELSE "ended"]
    /\ tasks = [l \in Loops |-> <<>>] /\ batch = [l \in Loops |-> <<>>]
    /\ frame = [l \in Loops |-> Idle]
    /\ quit = {} /\ jobs = {} /\ crash = "none"

-----------------------------------------------------------------------------
(* References to a connection.                                             *)

In(queue, c) == \E i \in DOMAIN queue : queue[i] \in {<<"close", c>>, <<"reply", c>>}

Held(c) ==
    \/ \E f \in Fds : registry[f] = c
    \/ c \in pending
    \/ <<"run", c>> \in jobs \/ <<"done", c>> \in jobs
    \/ \E l \in Loops : In(tasks[l], c) \/ In(batch[l], c) \/ frame[l][2] = c

\* The end of every step of thread l: now \in [Conns -> ...] is what has become
\* of the connections, but open ones nobody holds any more are destroyed here;
\* disableAll() in ~TcpConnection() checks the thread.
Settle(l, now) ==
    LET lost == {c \in Conns : now[c] = "open" /\ ~Held(c)'}
    IN  /\ at' = [c \in Conns |-> IF c \in lost THEN "dropped" ELSE now[c]]
        /\ crash' = IF \E c \in lost : home'[c] # l THEN "abort" ELSE crash

Crashes(why) ==
    /\ crash' = why
    /\ UNCHANGED <<mainVars, acceptorVars, connVars, loopVars, at, left, registry, jobs>>

Alive == crash = "none"

\* main() has left the block that holds the registry, the router and the limiter.
Destroyed == phase \in {"joining", "exited"}

-----------------------------------------------------------------------------
(* Accepting, on the base loop.                                            *)

UsedFds == {fd[c] : c \in {d \in Conns : at[d] \in {"queued", "open"}}}

\* The kernel hands out the lowest free descriptor.
FreeFd == Min(Fds \ UsedFds)

Online == Cardinality({f \in Fds : registry[f] # Nobody})

\* The backlog, first come first served.
Waiting == {c \in Conns : at[c] = "waiting"}
NewConn == Min(Waiting)

\* Loop l is in its poll, between two handlers.
Polls(l) == Alive /\ loopAt[l] = "poll" /\ frame[l] = Idle /\ (l = 0 => ~accepting)

\* The kernel has a connection ready, and an edge for the listening socket.
Connect ==
    /\ Alive /\ phase = "serve"
    /\ \E c \in Conns : at[c] = "none"
    /\ at' = [at EXCEPT ![Min({c \in Conns : at[c] = "none"})] = "waiting"]
    /\ edge' = TRUE
    /\ UNCHANGED <<mainVars, accepting, failed, connVars, loopVars, left, registry, jobs, crash>>

\* Acceptor::handleRead() is called ...
AcceptBegins ==
    /\ Polls(0) /\ phase = "serve" /\ edge
    /\ edge' = FALSE /\ accepting' = TRUE /\ failed' = FALSE
    /\ UNCHANGED <<mainVars, connVars, loopVars, at, left, registry, jobs, crash>>

\* ... takes one connection after the other ...
MayAccept == Alive /\ accepting /\ frame[0] = Idle /\ Waiting # {}

\* ... until accept4() has no more (EAGAIN), or fails, as without a descriptor for
\* the next one.
AcceptEnds(error) ==
    /\ Alive /\ accepting /\ frame[0] = Idle
    /\ accepting' = FALSE /\ failed' = error
    /\ UNCHANGED <<mainVars, edge, connVars, loopVars, at, left, registry, jobs, crash>>

Drained_AfterOne == AcceptEnds(FALSE)

Drained == Waiting = {} /\ AcceptEnds(FALSE)

AcceptFails == Waiting # {} /\ AcceptEnds(TRUE)

Turned == Limit > 0 /\ Online >= Limit

\* Over the limit: 503 and close.
Reject ==
    /\ MayAccept /\ Turned
    /\ at' = [at EXCEPT ![NewConn] = "rejected"]
    /\ UNCHANGED <<mainVars, acceptorVars, connVars, loopVars, left, registry, jobs, crash>>

\* nextLoop().
NextLoop == IF NLoops = 0 THEN 0 ELSE next + 1

TakeConn(l) ==
    /\ UNCHANGED <<NLoops, Limit>>
    /\ next' = IF NLoops = 0 THEN next ELSE (next + 1) % NLoops
    /\ fd' = [fd EXCEPT ![NewConn] = FreeFd]
    /\ home' = [home EXCEPT ![NewConn] = l]

Register(c) == registry' = [registry EXCEPT ![fd'[c]] = c]

\* runInLoop() runs the creation at once when the base loop serves, and queues
\* it for the IO loop otherwise.
Accept ==
    /\ MayAccept /\ ~Turned
    /\ TakeConn(NextLoop)
    /\ UNCHANGED <<mainVars, acceptorVars, loopAt, batch, left, jobs>>
    /\ IF NextLoop = 0
       THEN /\ frame' = [frame EXCEPT ![0] = <<"create", NewConn>>]
            /\ Register(NewConn)
            /\ UNCHANGED tasks
            /\ Settle(0, [at EXCEPT ![NewConn] = "open"])
       ELSE /\ tasks' = [tasks EXCEPT ![NextLoop] = Append(@, <<"create", NewConn>>)]
            /\ at' = [at EXCEPT ![NewConn] = "queued"]
            /\ UNCHANGED <<frame, registry, crash>>

\* The rest of the creation: start() puts the channel into the loop's epoll,
\* then the task's own reference goes.
CreateEnds(l) ==
    LET c == frame[l][2]
    IN  /\ Alive /\ frame[l][1] = "create"
        /\ IF home[c] # l THEN Crashes("abort")
           ELSE /\ frame' = [frame EXCEPT ![l] = Idle]
                /\ UNCHANGED <<mainVars, acceptorVars, connVars, loopAt, tasks, batch, left, registry, jobs>>
                /\ Settle(l, at)

-----------------------------------------------------------------------------
(* The connections, on their loops.                                        *)

\* handleClose() up to socket_.close(): the descriptor is free again.
CloseFd(l, c) ==
    /\ frame' = [frame EXCEPT ![l] = <<"close", c>>]
    /\ at' = [at EXCEPT ![c] = "closed"]

\* The peer closes, the socket fails, or the connection has been idle too long.
Close(l, c) ==
    /\ Polls(l) /\ at[c] = "open" /\ home[c] = l
    /\ CloseFd(l, c)
    /\ UNCHANGED <<mainVars, acceptorVars, connVars, loopAt, tasks, batch, left, registry, jobs, crash>>

CloseEnds_Unregistered(l) ==
    /\ Alive /\ frame[l][1] = "close" /\ ~Destroyed
    /\ frame' = [frame EXCEPT ![l] = Idle]
    /\ UNCHANGED <<mainVars, acceptorVars, connVars, loopAt, tasks, batch, at, left, registry, jobs, crash>>

\* closeCallback_: registry.remove(fd), whichever connection fd now stands for.
CloseEnds(l) ==
    /\ Alive /\ frame[l][1] = "close"
    /\ IF Destroyed THEN Crashes("dangling")
       ELSE /\ registry' = [registry EXCEPT ![fd[frame[l][2]]] = Nobody]
            /\ frame' = [frame EXCEPT ![l] = Idle]
            /\ UNCHANGED <<mainVars, acceptorVars, connVars, loopAt, tasks, batch, left, jobs>>
            /\ Settle(l, at)

\* A request of connection c: the limiter and the router are asked, or the
\* worker pool is, which refuses a task once it is stopped.
Request(l, c) ==
    /\ Polls(l) /\ at[c] = "open" /\ home[c] = l /\ left[c] > 0 /\ <<"run", c>> \notin jobs
    /\ CASE Destroyed -> Crashes("dangling")
         [] ~Destroyed /\ Workers /\ phase \in {"stopping", "stopped"} -> Crashes("terminate")
         [] OTHER ->
              /\ left' = [left EXCEPT ![c] = @ - 1]
              /\ jobs' = IF Workers THEN jobs \union {<<"run", c>>} ELSE jobs
              /\ UNCHANGED <<mainVars, acceptorVars, connVars, loopVars, at, registry, crash>>

\* A worker has the response: runInLoop() queues a copy of respond, which holds the
\* connection, on the connection's loop.
WorkerRuns(c) ==
    /\ Alive /\ <<"run", c>> \in jobs
    /\ jobs' = (jobs \ {<<"run", c>>}) \union {<<"done", c>>}
    /\ tasks' = [tasks EXCEPT ![home[c]] = Append(@, <<"reply", c>>)]
    /\ UNCHANGED <<mainVars, acceptorVars, connVars, loopAt, batch, frame, at, left, registry, crash>>

\* The task is destroyed with its own respond, perhaps after the reply has been sent
\* and the connection closed: the last reference may go on this thread, of no loop.
WorkerForgets(c) ==
    /\ Alive /\ <<"done", c>> \in jobs
    /\ jobs' = jobs \ {<<"done", c>>}
    /\ UNCHANGED <<mainVars, acceptorVars, connVars, loopVars, left, registry>>
    /\ Settle(NLoops + 1, at)

-----------------------------------------------------------------------------
(* The rounds of a loop.                                                   *)

Swap(l) ==
    /\ Polls(l)
    /\ loopAt' = [loopAt EXCEPT ![l] = "batch"]
    /\ batch' = [batch EXCEPT ![l] = tasks[l]]
    /\ tasks' = [tasks EXCEPT ![l] = <<>>]
    /\ UNCHANGED <<mainVars, acceptorVars, connVars, frame, at, left, registry, jobs, crash>>

RunTask(l) ==
    LET c == Head(batch[l])[2]
    IN  /\ Alive /\ loopAt[l] = "batch" /\ frame[l] = Idle /\ batch[l] # <<>>
        /\ batch' = [batch EXCEPT ![l] = Tail(@)]
        /\ UNCHANGED <<mainVars, acceptorVars, connVars, loopAt, tasks, left, jobs>>
        /\ CASE Head(batch[l])[1] = "create" /\ Destroyed ->
                  crash' = "dangling" /\ UNCHANGED <<frame, registry, at>>
             [] Head(batch[l])[1] = "create" /\ ~Destroyed ->
                  /\ frame' = [frame EXCEPT ![l] = <<"create", c>>]
                  /\ registry' = [registry EXCEPT ![fd[c]] = c]
                  /\ Settle(l, [at EXCEPT ![c] = "open"])
             [] Head(batch[l])[1] = "close" /\ at[c] = "open" ->
                  CloseFd(l, c) /\ UNCHANGED <<registry, crash>>
             [] OTHER -> UNCHANGED <<frame, registry>> /\ Settle(l, at)

\* A loop told to quit ends, and an IO thread destroys it with the tasks that
\* were queued meanwhile.
LeaveBatch(l) ==
    /\ Alive /\ loopAt[l] = "batch" /\ frame[l] = Idle
    /\ UNCHANGED <<mainVars, acceptorVars, connVars, batch, frame, left, registry, jobs>>
    /\ IF l \in quit
       THEN /\ loopAt' = [loopAt EXCEPT ![l] = "ended"]
            /\ tasks' = [tasks EXCEPT ![l] = IF l = 0 THEN @ ELSE <<>>]
            /\ Settle(l, at)
       ELSE /\ loopAt' = [loopAt EXCEPT ![l] = "poll"]
            /\ UNCHANGED <<tasks, at, crash>>

BatchDone_NeverEnds(l) == batch[l] = <<>> /\ l \notin quit /\ LeaveBatch(l)

BatchDone(l) == batch[l] = <<>> /\ LeaveBatch(l)

-----------------------------------------------------------------------------
(* The way out.                                                            *)

Signal ==
    /\ Alive /\ ~stop /\ phase = "serve"
    /\ stop' = TRUE
    /\ UNCHANGED <<acceptorVars, phase, pending, quit, connVars, loopVars, at, left, registry, jobs, crash>>

\* The timer that looks at g_shutdownRequested.
QuitTimer ==
    /\ phase = "serve" /\ stop /\ Polls(0) /\ 0 \notin quit
    /\ quit' = quit \union {0}
    /\ UNCHANGED <<acceptorVars, phase, stop, pending, connVars, loopVars, at, left, registry, jobs, crash>>

\* closeAll(): swap, then hand each connection to its loop.
Collect(taken) ==
    /\ Alive /\ phase = "serve" /\ frame[0] = Idle
    /\ phase' = "closing"
    /\ pending' = taken
    /\ registry' = [f \in Fds |-> Nobody]
    /\ UNCHANGED <<acceptorVars, stop, quit, connVars, loopVars, left, jobs>>
    /\ Settle(0, at)

Registered == {registry[f] : f \in Fds} \ {Nobody}

CloseAll_Clears == loopAt[0] = "ended" /\ Collect({})

CloseAll == loopAt[0] = "ended" /\ Collect(Registered)

CloseOne(c) ==
    /\ Alive /\ phase = "closing" /\ frame[0] = Idle /\ c \in pending
    /\ pending' = pending \ {c}
    /\ UNCHANGED <<acceptorVars, phase, stop, quit, connVars, loopAt, batch, left, registry, jobs>>
    /\ IF home[c] # 0
       THEN /\ tasks' = [tasks EXCEPT ![home[c]] = Append(@, <<"close", c>>)]
            /\ UNCHANGED <<frame, at, crash>>
       ELSE IF at[c] = "open" THEN CloseFd(0, c) /\ UNCHANGED <<tasks, crash>>
       ELSE UNCHANGED <<tasks, frame>> /\ Settle(0, at)

\* workerPool.stop() refuses new tasks and waits for those it has.
StopPool ==
    /\ Alive /\ phase = "closing" /\ pending = {} /\ frame[0] = Idle
    /\ phase' = "stopping"
    /\ UNCHANGED <<acceptorVars, stop, pending, quit, connVars, loopVars, at, left, registry, jobs, crash>>

PoolStopped ==
    /\ Alive /\ phase = "stopping" /\ jobs = {}
    /\ phase' = "stopped"
    /\ UNCHANGED <<acceptorVars, stop, pending, quit, connVars, loopVars, at, left, registry, jobs, crash>>

\* The block ends: the router, the limiter and the registry go, with the
\* connections the registry still holds, and the listening socket with its backlog.
Destroy ==
    /\ Alive /\ phase = "stopped"
    /\ phase' = "joining"
    /\ registry' = [f \in Fds |-> Nobody]
    /\ UNCHANGED <<acceptorVars, stop, pending, quit, connVars, loopVars, left, jobs>>
    /\ Settle(0, [c \in Conns |-> IF c \in Waiting THEN "rejected" ELSE at[c]])

\* ~EventLoopThreadPool(): quit() to every IO loop ...
QuitLoop(l) ==
    /\ Alive /\ phase = "joining" /\ l \in 1..NLoops /\ l \notin quit
    /\ quit' = quit \union {l}
    /\ UNCHANGED <<acceptorVars, phase, stop, pending, connVars, loopVars, at, left, registry, jobs, crash>>

\* ... join, and ~EventLoop() of the base loop.
Exit ==
    /\ Alive /\ phase = "joining" /\ \A l \in Loops : loopAt[l] = "ended"
    /\ phase' = "exited"
    /\ tasks' = [tasks EXCEPT ![0] = <<>>]
    /\ UNCHANGED <<acceptorVars, stop, pending, quit, connVars, loopAt, batch, frame, left, registry, jobs>>
    /\ Settle(0, at)

-----------------------------------------------------------------------------
\* What a loop does with the work there is, whatever its clients do.
Round(l) == Swap(l) \/ RunTask(l) \/ BatchDone(l) \/ CreateEnds(l) \/ CloseEnds(l)

Main ==
    \/ AcceptBegins \/ Accept \/ Reject \/ Drained
    \/ QuitTimer \/ CloseAll \/ StopPool \/ PoolStopped \/ Destroy \/ Exit
    \/ \E c \in Conns : CloseOne(c)
    \/ \E l \in Loops : QuitLoop(l)

Clients ==
    \/ Connect \/ AcceptFails \/ Signal
    \/ \E l \in Loops, c \in Conns : Close(l, c) \/ Request(l, c)

Next ==
    \/ Main \/ Clients
    \/ \E l \in Loops : Round(l)
    \/ \E c \in Conns : WorkerRuns(c) \/ WorkerForgets(c)

Spec == Init /\ [][Next]_vars

\* The threads run.  Every round of the base loop looks at its timers, so the one
\* that looks for the signal, due every 0.2 s, cannot be passed over for ever.
FairSpec ==
    /\ Spec
    /\ WF_vars(Main)
    /\ SF_vars(QuitTimer)
    /\ \A l \in Loops : WF_vars(Round(l))
    /\ \A c \in Conns : WF_vars(WorkerRuns(c)) /\ WF_vars(WorkerForgets(c))

-----------------------------------------------------------------------------
(* Properties.                                                             *)

Frames == {Idle} \union ({"create", "close"} \X Conns)

TypeOK ==
    /\ NLoops \in LoopCounts /\ Limit \in Limits
    /\ phase \in {"serve", "closing", "stopping", "stopped", "joining", "exited"}
    /\ stop \in BOOLEAN /\ next \in 0..NLoops /\ quit \subseteq Loops
    /\ edge \in BOOLEAN /\ accepting \in BOOLEAN /\ failed \in BOOLEAN
    /\ at \in [Conns -> {"none", "waiting", "queued", "open", "closed", "rejected", "dropped"}]
    /\ fd \in [Conns -> Fds \union {0}] /\ home \in [Conns -> Loops]
    /\ registry \in [Fds -> Conns \union {Nobody}]
    /\ pending \subseteq Conns /\ jobs \subseteq {"run", "done"} \X Conns
    /\ frame \in [Loops -> Frames]
    /\ \A l \in Loops : loopAt[l] # "batch" => batch[l] = <<>>
    /\ crash \in {"none", "abort", "terminate", "dangling"}

\* With -t 0 no more connections are open than -m allows (accept callback,
\* registry.size()); with IO threads the registry lags behind what was accepted.
OnlineLimit ==
    NLoops = 0 /\ Limit > 0 => Cardinality({c \in Conns : at[c] = "open"}) <= Limit

\* A connection in the backlog is one that handleRead() will come to: the loop is in
\* it, or an event for it is there.  Only an error of accept4() leaves some behind,
\* until another client connects (handleRead(), "until EAGAIN").
NobodyForgotten ==
    phase = "serve" /\ Waiting # {} => edge \/ accepting \/ failed

\* Clients are let in up to the limit, and none is forgotten (Acceptor::handleRead(),
\* accept callback).
Admission == OnlineLimit /\ NobodyForgotten

\* While the server serves, the registry has every open connection under its
\* descriptor, and nothing else but one whose closing is not finished.
RegistryAgrees ==
    phase = "serve" =>
        /\ \A c \in Conns : at[c] = "open" => registry[fd[c]] = c
        /\ \A f \in Fds : registry[f] # Nobody =>
              /\ fd[registry[f]] = f
              /\ \/ at[registry[f]] = "open"
                 \/ \E l \in Loops : frame[l] = <<"close", registry[f]>>

\* With one loop to serve them, no connection is touched by another thread than
\* that of its loop while the server serves: assertInLoopThread() never aborts it.
OneLoopOwns == NLoops <= 1 /\ phase = "serve" => crash # "abort"

\* Threads, descriptors and the registry agree about who owns which connection
\* (accept callback, close callback).
OwnersAgree == TypeOK /\ RegistryAgrees /\ OneLoopOwns

\* With -t 0 the server exits normally: nothing aborts or terminates it, nothing
\* uses an object main() has destroyed, and every connection was closed through
\* its loop (closeAll(), and the order of main()'s last steps).
CleanExit ==
    NLoops = 0 =>
        /\ crash = "none"
        /\ phase = "exited" => \A c \in Conns : at[c] \in {"none", "rejected", "closed"}

\* Once asked to, the server exits, or dies on the way.
ShutdownEnds == stop ~> phase = "exited" \/ crash # "none"

(* A statement of a document that the code does not keep.                  *)

\* "A connection is created, registered, read, written and destroyed only in its
\* own IO thread": assertInLoopThread() never aborts the server.
OwnThreadOnly == phase = "serve" => crash # "abort"
=============================================================================
