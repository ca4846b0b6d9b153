--------------------------- MODULE TcpConnection ---------------------------
(***************************************************************************)
(* One TCP connection of the server (src/net/TcpConnection.cpp), the       *)
(* Channel it registers with epoll (net/Channel.h, Channel.cpp) and the    *)
(* part of the kernel socket the code depends on.                          *)
(*                                                                         *)
(* Data are abstracted to positions: the bytes taken on by send() and      *)
(* sendFile() are numbered 1, 2, 3, ... in the order of the calls, so a    *)
(* buffer is a sequence of positions and a file body a range of them.      *)
(*                                                                         *)
(* The IO thread runs one handler at a time.  A handler that loops over    *)
(* system calls takes one step per call, so the peer and the kernel may    *)
(* act between two calls; `thread' is the frame the thread is in, and       *)
(* `inWrite' tells that it is inside handleWrite(), which sendFile() calls *)
(* too.                                                                    *)
(*                                                                         *)
(* A definition named X_Y is X with a mistake in it: put in the place of X  *)
(* it must break the property that guards against the mistake.             *)
(***************************************************************************)
EXTENDS Naturals, Sequences

CONSTANTS
    SndBuf,     \* capacity of the kernel send buffer, in bytes
    MaxPromise, \* bound: bytes the application sends over the connection
    MaxRequests,\* bound: request units the peer sends over the connection
    IdleOn      \* whether an idle timeout is configured (main.cpp -i)

ASSUME SndBufAssumption == SndBuf \in Nat \ {0}
ASSUME BoundsAssumption == MaxPromise \in Nat /\ MaxRequests \in Nat
ASSUME IdleOnAssumption == IdleOn \in BOOLEAN

VARIABLES
    events,             \* Channel::events_
    output,             \* output_, as positions
    preFileBytes,       \* preFileBytes_
    pendingFile,        \* pendingFile_ is set
    fileOffset,         \* fileOffset_: position of the next byte of the file
    fileRemaining,      \* fileRemaining_
    closed,             \* closed_
    shutdownAfterWrite, \* shutdownAfterWrite_
    idleTimer,          \* idleTimer_ is valid
    thread,             \* the handler the IO thread is in
    inWrite,            \* it is inside handleWrite()
    revents,            \* Channel::revents_
    queued,             \* the channel is on epoll's ready list
    rcv,                \* request units the kernel holds for reading
    received,           \* request units read so far
    fin,                \* the peer has half-closed
    reset,              \* the peer has reset the connection
    shutWr,             \* we have done shutdown(SHUT_WR)
    wire,               \* positions the kernel has accepted, in order
    drained,            \* how many of them the peer has taken
    promised,           \* history: bytes taken on so far
    lost,               \* history: promised bytes of truncated files
    closeCalls          \* history: calls of the close callback

sendVars   == <<output, preFileBytes, pendingFile, fileOffset, fileRemaining>>
stateVars  == <<closed, shutdownAfterWrite, idleTimer, closeCalls>>
threadVars == <<thread, inWrite, revents>>
peerVars   == <<rcv, received, fin, reset>>
streamVars == <<promised, lost>>
vars == <<events, queued, shutWr, wire, drained,
          sendVars, stateVars, threadVars, peerVars, streamVars>>

-----------------------------------------------------------------------------
(* Channel: the interest bits, as the constants of Channel.h spell them.   *)

kReadEvent  == {"IN", "PRI", "ET"}
kWriteEvent == {"OUT", "ET"}

isWriting == events \cap kWriteEvent # {}

Room == SndBuf - (Len(wire) - drained)

\* What epoll reports of the socket under the given interest, with the given
\* free space and the write side shut or not.  Both directions down, or a
\* reset, is EPOLLHUP, which is reported whether it was asked for or not.
Ready(interest, room, shut) ==
    {e \in interest \cup {"HUP"} :
        \/ e = "IN"  /\ (rcv > 0 \/ fin \/ reset)
        \/ e = "OUT" /\ (room > 0 \/ reset \/ shut)
        \/ e = "HUP" /\ (reset \/ (fin /\ shut))}

\* epoll_ctl ADD and MOD look at the socket, and so does shutdown(): a ready
\* one is queued at once.
Update(interest, room, shut) ==
    /\ events' = interest
    /\ queued' = (queued \/ Ready(interest, room, shut) # {})

enableWriting_Forgotten(room) == Update(events, room, shutWr)

enableWriting(room) == Update(events \cup kWriteEvent, room, shutWr)

Positions(from, n) == [i \in 1..n |-> from + i]

WriteFails == reset \/ shutWr

\* sendInLoop() may write before it buffers; shutdownWrite() may act at once.
MayWriteDirectly_Always == TRUE
MayWriteDirectly == ~isWriting /\ output = <<>>

NothingQueued_ButFile == output = <<>>
NothingQueued == ~isWriting /\ output = <<>> /\ ~pendingFile

\* Whether anything is left to send.
Backlog == output # <<>> \/ pendingFile

Idle == thread = "loop" /\ ~inWrite

\* The application code may call the connection: inside the message callback,
\* or in a task run by doPendingFunctors(), and not while inside handleWrite().
InApp == thread \in {"callback", "functor"} /\ ~inWrite

-----------------------------------------------------------------------------
Init ==
    /\ events = {} /\ queued = FALSE
    /\ output = <<>> /\ preFileBytes = 0
    /\ pendingFile = FALSE /\ fileOffset = 1 /\ fileRemaining = 0
    /\ closed = FALSE /\ shutdownAfterWrite = FALSE
    /\ idleTimer = FALSE /\ closeCalls = 0
    /\ thread = "new" /\ inWrite = FALSE /\ revents = {}
    /\ rcv \in 0..MaxRequests /\ received = 0
    /\ fin = FALSE /\ reset = FALSE /\ shutWr = FALSE
    /\ wire = <<>> /\ drained = 0
    /\ promised = 0 /\ lost = {}

\* Cancel the idle timer and set it again.
refreshIdleTimer == idleTimer' = IdleOn

\* start() and setIdleTimeout(), called by the task that creates the connection.
Start ==
    /\ thread = "new"
    /\ Update(events \cup kReadEvent, Room, shutWr)
    /\ refreshIdleTimer
    /\ thread' = "loop"
    /\ UNCHANGED <<closed, shutdownAfterWrite, closeCalls, inWrite, revents,
                   shutWr, wire, drained, sendVars, peerVars, streamVars>>

handleClose_KeepsTimer ==
    /\ closed' = TRUE
    /\ events' = {} /\ queued' = FALSE
    /\ pendingFile' = FALSE /\ fileRemaining' = 0 /\ preFileBytes' = 0
    /\ closeCalls' = closeCalls + 1
    /\ UNCHANGED <<output, fileOffset, shutdownAfterWrite, idleTimer>>

\* handleClose(): close once, leave epoll, drop the file and the timer.
\* output_ keeps its bytes, nobody sends them any more.
handleClose ==
    /\ closed' = TRUE
    /\ idleTimer' = FALSE
    /\ events' = {} /\ queued' = FALSE
    /\ pendingFile' = FALSE /\ fileRemaining' = 0 /\ preFileBytes' = 0
    /\ closeCalls' = closeCalls + 1
    /\ UNCHANGED <<output, fileOffset, shutdownAfterWrite>>

-----------------------------------------------------------------------------
(* Calls of the application.                                               *)

\* sendInLoop(): write directly when nothing is queued, buffer the rest.  The
\* bytes are those of `taken' more promised positions, minus the last `cut'
\* (the unreadable end of a file).
SendInLoop(taken, cut) ==
    LET n == taken - cut
    IN  IF MayWriteDirectly /\ WriteFails
        THEN handleClose /\ UNCHANGED <<wire, streamVars>>
        ELSE \E k \in 0..n :
                /\ k > 0 => MayWriteDirectly /\ k <= Room
                /\ wire' = wire \o Positions(promised, k)
                /\ promised' = promised + taken
                /\ lost' = lost \cup ((promised + n + 1)..(promised + taken))
                /\ IF k < n
                   THEN /\ output' = output \o Positions(promised + k, n - k)
                        /\ enableWriting(Room - k)
                   ELSE UNCHANGED <<output, events, queued>>
                /\ UNCHANGED <<preFileBytes, pendingFile, fileOffset,
                               fileRemaining, stateVars>>

Send(n) ==
    /\ InApp /\ ~closed
    /\ promised + n <= MaxPromise
    /\ SendInLoop(n, 0)
    /\ UNCHANGED <<threadVars, shutWr, drained, peerVars>>

\* sendFile() while another file is pending: the file is read into memory,
\* as far as it can be read, and sent behind everything else.
SendFileBuffered(n) ==
    /\ InApp /\ ~closed /\ pendingFile
    /\ promised + n <= MaxPromise
    /\ \E cut \in 0..n : SendInLoop(n, cut)
    /\ UNCHANGED <<threadVars, shutWr, drained, peerVars>>

\* sendFile(): everything buffered now goes first; handleWrite() is called.
SendFile(n) ==
    /\ InApp /\ ~closed /\ ~pendingFile
    /\ promised + n <= MaxPromise
    /\ preFileBytes' = Len(output)
    /\ pendingFile' = TRUE
    /\ fileOffset' = promised + 1
    /\ fileRemaining' = n
    /\ promised' = promised + n
    /\ enableWriting(Room)
    /\ inWrite' = TRUE
    /\ UNCHANGED <<output, lost, stateVars, thread, revents, shutWr, wire,
                   drained, peerVars>>

ShutdownWrite ==
    /\ InApp /\ ~closed
    /\ IF NothingQueued
       THEN shutWr' = TRUE /\ UNCHANGED shutdownAfterWrite
       ELSE shutdownAfterWrite' = TRUE /\ UNCHANGED shutWr
    /\ Update(events, Room, shutWr')
    /\ UNCHANGED <<closed, idleTimer, closeCalls, wire, drained,
                   sendVars, threadVars, peerVars, streamVars>>

ForceClose ==
    /\ InApp /\ ~closed
    /\ handleClose
    /\ UNCHANGED <<shutWr, wire, drained, threadVars, peerVars, streamVars>>

\* doPendingFunctors() runs a task that holds this connection.
BeginFunctor ==
    /\ Idle
    /\ thread' = "functor"
    /\ UNCHANGED <<events, queued, shutWr, wire, drained, inWrite, revents,
                   sendVars, stateVars, peerVars, streamVars>>

\* The callback, or the task, returns.
EndApp ==
    /\ InApp
    /\ thread' = IF thread = "callback" THEN "read" ELSE "loop"
    /\ UNCHANGED <<events, queued, shutWr, wire, drained, inWrite, revents,
                   sendVars, stateVars, peerVars, streamVars>>

-----------------------------------------------------------------------------
(* Channel::handleEvent() and the handlers it dispatches to.               *)

\* epoll_wait() reports the channel: an edge-triggered one leaves the ready
\* list, a level-triggered one stays on it.
HandleEvent ==
    LET ready == Ready(events, Room, shutWr)
    IN  /\ Idle /\ ~closed
        /\ queued /\ ready # {}
        /\ revents' = ready
        /\ IF "HUP" \in ready
           THEN handleClose /\ UNCHANGED <<thread, inWrite>>
           ELSE /\ queued' = ("ET" \notin events)
                /\ thread' = IF "IN" \in ready THEN "read" ELSE "loop"
                /\ inWrite' = ("IN" \notin ready)
                /\ UNCHANGED <<events, sendVars, stateVars>>
        /\ UNCHANGED <<shutWr, wire, drained, peerVars, streamVars>>

\* One readFd() that returns data: the message callback is called.
ReadSome ==
    /\ thread = "read" /\ ~closed
    /\ \E k \in 1..rcv : rcv' = rcv - k /\ received' = received + k
    /\ thread' = "callback"
    /\ UNCHANGED <<events, queued, shutWr, wire, drained, inWrite, revents,
                   fin, reset, sendVars, stateVars, streamVars>>

LeaveRead_WithoutWriting(open) ==
    /\ thread' = "loop" /\ inWrite' = FALSE
    /\ UNCHANGED revents

\* handleRead() is over; handleEvent() goes on to the write bits it was given.
LeaveRead(open) ==
    /\ thread' = "loop"
    /\ inWrite' = (open /\ "OUT" \in revents)
    /\ UNCHANGED revents

\* EAGAIN: the loop ends and the idle timer is set again.
ReadDrained ==
    /\ thread = "read" /\ ~closed
    /\ rcv = 0 /\ ~fin /\ ~reset
    /\ refreshIdleTimer
    /\ UNCHANGED <<closed, shutdownAfterWrite, closeCalls>>
    /\ LeaveRead(TRUE)
    /\ UNCHANGED <<events, queued, shutWr, wire, drained, sendVars, peerVars,
                   streamVars>>

\* End of stream, or a failed read: handleClose(), directly or by handleError().
ReadFailed ==
    /\ thread = "read" /\ ~closed
    /\ rcv = 0 /\ (fin \/ reset)
    /\ handleClose
    /\ LeaveRead(FALSE)
    /\ UNCHANGED <<shutWr, wire, drained, peerVars, streamVars>>

\* The callback closed the connection: readv(-1) fails with EBADF and
\* handleError() finds the connection closed already.
ReadAfterClose ==
    /\ thread = "read" /\ closed
    /\ LeaveRead(FALSE)
    /\ UNCHANGED <<events, queued, shutWr, wire, drained, sendVars, stateVars,
                   peerVars, streamVars>>

HandleIdleTimeout ==
    /\ Idle /\ ~closed /\ idleTimer
    /\ handleClose
    /\ UNCHANGED <<shutWr, wire, drained, threadVars, peerVars, streamVars>>

-----------------------------------------------------------------------------
(* handleWrite(), one step per system call.                                *)

LeaveWrite == inWrite' = FALSE /\ UNCHANGED <<thread, revents>>

\* A write or sendfile that fails for good.
WriteError ==
    /\ inWrite
    /\ Backlog /\ WriteFails
    /\ handleClose
    /\ LeaveWrite
    /\ UNCHANGED <<shutWr, wire, drained, peerVars, streamVars>>

\* EAGAIN: wait for the next writable event.
WriteBlocked ==
    /\ inWrite
    /\ Backlog /\ ~WriteFails /\ Room = 0
    /\ LeaveWrite
    /\ UNCHANGED <<events, queued, shutWr, wire, drained, sendVars, stateVars,
                   peerVars, streamVars>>

Flush_RetrievesLimit(limit) ==
    /\ ~WriteFails
    /\ \E k \in 1..limit :
          /\ k <= Room
          /\ wire' = wire \o SubSeq(output, 1, k)
          /\ output' = SubSeq(output, limit + 1, Len(output))
          /\ preFileBytes' = 0
    /\ UNCHANGED <<events, queued, shutWr, drained, pendingFile, fileOffset,
                   fileRemaining, stateVars, threadVars, peerVars, streamVars>>

\* flushOutput(): one write() of at most `limit' bytes of the output buffer.
Flush(limit) ==
    /\ ~WriteFails
    /\ \E k \in 1..limit :
          /\ k <= Room
          /\ wire' = wire \o SubSeq(output, 1, k)
          /\ output' = SubSeq(output, k + 1, Len(output))
          /\ preFileBytes' = IF preFileBytes > k THEN preFileBytes - k ELSE 0
    /\ UNCHANGED <<events, queued, shutWr, drained, pendingFile, fileOffset,
                   fileRemaining, stateVars, threadVars, peerVars, streamVars>>

\* Stage 1: the bytes that precede the file.
WriteHead ==
    /\ inWrite /\ preFileBytes > 0
    /\ Flush(preFileBytes)

\* Stage 2: one sendfile() that moves part of the file.
SendFileSome ==
    /\ inWrite /\ preFileBytes = 0 /\ pendingFile
    /\ ~WriteFails
    /\ \E k \in 1..fileRemaining :
          /\ k <= Room
          /\ wire' = wire \o Positions(fileOffset - 1, k)
          /\ fileOffset' = fileOffset + k
          /\ fileRemaining' = fileRemaining - k
          /\ pendingFile' = (k < fileRemaining)
    /\ UNCHANGED <<events, queued, shutWr, drained, output, preFileBytes,
                   stateVars, threadVars, peerVars, streamVars>>

\* sendfile() returns 0: the file was truncated, what is missing is given up.
SendFileTruncated ==
    /\ inWrite /\ preFileBytes = 0 /\ pendingFile
    /\ ~WriteFails
    /\ lost' = lost \cup (fileOffset..(fileOffset + fileRemaining - 1))
    /\ fileRemaining' = 0
    /\ pendingFile' = FALSE
    /\ UNCHANGED <<events, queued, shutWr, wire, drained, output, preFileBytes,
                   fileOffset, stateVars, threadVars, peerVars, promised>>

\* Stage 3: what was buffered behind the file.
WriteTail ==
    /\ inWrite /\ preFileBytes = 0 /\ ~pendingFile
    /\ Flush(Len(output))

WriteDone_NoHalfClose ==
    /\ inWrite /\ ~Backlog
    /\ Update(events \ kWriteEvent, Room, shutWr)
    /\ LeaveWrite
    /\ UNCHANGED <<shutWr, wire, drained, sendVars, stateVars, peerVars, streamVars>>

\* Nothing left: stop asking for EPOLLOUT, and half-close if that was deferred.
WriteDone ==
    /\ inWrite /\ ~Backlog
    /\ shutWr' = (shutWr \/ shutdownAfterWrite)
    /\ Update(events \ kWriteEvent, Room, shutWr')
    /\ LeaveWrite
    /\ UNCHANGED <<wire, drained, sendVars, stateVars, peerVars, streamVars>>

-----------------------------------------------------------------------------
(* The peer and the kernel.                                                *)

PeerSend ==
    /\ ~closed /\ ~fin /\ ~reset
    /\ rcv + received < MaxRequests
    /\ rcv' = rcv + 1
    /\ queued' = (queued \/ "IN" \in events)
    /\ UNCHANGED <<events, shutWr, wire, drained, received, fin, reset,
                   sendVars, stateVars, threadVars, streamVars>>

PeerFin ==
    /\ ~closed /\ ~fin /\ ~reset
    /\ fin' = TRUE
    /\ queued' = (events # {})
    /\ UNCHANGED <<events, shutWr, wire, drained, rcv, received, reset, sendVars,
                   stateVars, threadVars, streamVars>>

PeerReset ==
    /\ ~closed /\ ~reset
    /\ reset' = TRUE
    /\ queued' = (events # {})
    /\ UNCHANGED <<events, shutWr, wire, drained, rcv, received, fin, sendVars,
                   stateVars, threadVars, streamVars>>

\* The peer acknowledges some bytes; a full buffer becomes writable.
PeerDrain ==
    /\ ~reset
    /\ \E k \in 1..(Len(wire) - drained) : drained' = drained + k
    /\ queued' = (queued \/ (Room = 0 /\ "OUT" \in events))
    /\ UNCHANGED <<events, shutWr, wire, sendVars, stateVars, threadVars,
                   peerVars, streamVars>>

-----------------------------------------------------------------------------
App == \/ \E n \in 1..MaxPromise : Send(n) \/ SendFileBuffered(n) \/ SendFile(n)
       \/ ShutdownWrite \/ ForceClose

handleRead  == ReadSome \/ ReadDrained \/ ReadFailed \/ ReadAfterClose
handleWrite == \/ WriteError \/ WriteBlocked \/ WriteHead
               \/ SendFileSome \/ SendFileTruncated \/ WriteTail \/ WriteDone

Peer == PeerSend \/ PeerFin \/ PeerReset \/ PeerDrain

Next == \/ Start \/ App \/ BeginFunctor \/ EndApp
        \/ HandleEvent \/ handleRead \/ handleWrite \/ HandleIdleTimeout
        \/ Peer

Spec == Init /\ [][Next]_vars

\* A handler runs to its end; every round of EventLoop::loop() polls and
\* dispatches before it runs tasks, so a ready channel cannot be starved by
\* them; and the peer goes on reading.
Fairness ==
    /\ WF_vars(Start \/ EndApp \/ handleRead \/ handleWrite)
    /\ SF_vars(HandleEvent)
    /\ WF_vars(PeerDrain)

FairSpec == Spec /\ Fairness
-----------------------------------------------------------------------------
(* Properties.                                                             *)

TypeOK ==
    /\ events \subseteq (kReadEvent \cup kWriteEvent)
    /\ revents \subseteq {"IN", "PRI", "OUT", "HUP"}
    /\ thread \in {"new", "loop", "read", "callback", "functor"}
    /\ output \in Seq(Nat) /\ wire \in Seq(Nat)
    /\ preFileBytes \in 0..Len(output)
    /\ fileOffset \in Nat \ {0} /\ fileRemaining \in Nat
    /\ drained \in 0..Len(wire)
    /\ promised \in Nat /\ closeCalls \in Nat
    /\ rcv \in Nat /\ received \in Nat
    /\ lost \subseteq Nat
    /\ inWrite \in BOOLEAN /\ pendingFile \in BOOLEAN /\ closed \in BOOLEAN
    /\ shutdownAfterWrite \in BOOLEAN /\ idleTimer \in BOOLEAN
    /\ queued \in BOOLEAN /\ fin \in BOOLEAN /\ reset \in BOOLEAN
    /\ shutWr \in BOOLEAN

\* The bytes leave in the order they were promised, each at most once: a
\* header never passes a file, nor a later response an earlier one
\* (TcpConnection.h, sendFile()).
WireInOrder ==
    \A i, j \in 1..Len(wire) : i < j => wire[i] < wire[j]

\* Whatever is unsent is waited for: EPOLLOUT stays in the interest set until
\* the buffer and the file are both empty.
UnsentIsAwaited ==
    ~closed /\ Backlog => "OUT" \in events

\* No edge is lost: between two handlers, if the socket is readable, or is
\* writable while something is unsent, epoll will report the channel.
NoLostEdge ==
    Idle /\ ~closed =>
        /\ rcv > 0 \/ fin \/ reset => queued
        /\ Backlog /\ (Room > 0 \/ WriteFails) => queued

\* A closed connection has released everything (file, timer, epoll entry)
\* and told its owner exactly once.
ClosedReleased ==
    /\ closed => ~pendingFile /\ ~idleTimer /\ events = {} /\ ~queued
    /\ closeCalls = IF closed THEN 1 ELSE 0

\* With an idle timeout configured, an open connection always has its timer.
IdleTimerArmed ==
    IdleOn /\ thread # "new" /\ ~closed => idleTimer

\* What a connection holds goes with its state: the timer is there as long as it
\* is open, and nothing is left of it once it is closed (handleClose(),
\* refreshIdleTimer()).
HoldsWhatItNeeds == ClosedReleased /\ IdleTimerArmed

\* The write side is shut down only when nothing is left to send
\* (TcpConnection.cpp, shutdownWrite()).
HalfCloseWhenFlushed ==
    [][shutWr' /\ ~shutWr => ~Backlog /\ ~Backlog']_vars

\* What is promised reaches the wire, unless the connection closes.
PromisedIsSent ==
    \A b \in 1..MaxPromise :
        promised >= b ~> \/ closed \/ b \in lost
                          \/ \E i \in 1..Len(wire) : wire[i] = b

\* A half-close asked for while something is unsent is carried out.
DeferredHalfClose ==
    shutdownAfterWrite /\ Backlog ~> shutWr \/ closed

\* A connection does what it was asked to do before it closes, or closes: the bytes
\* are sent and the half-close behind them happens (handleWrite()).
PromisesAreKept == PromisedIsSent /\ DeferredHalfClose

\* The connection implements the byte stream it promises.
Stream == INSTANCE ByteStream WITH open <- ~closed
ImplementsByteStream == Stream!Spec

(* A statement of a comment that the code does not keep.                   *)

\* "Data is left in the output buffer or the file, so the half-close waits
\* until handleWrite has flushed it": a deferred half-close happens.
HalfCloseHappens == shutdownAfterWrite ~> shutWr \/ closed
=============================================================================
