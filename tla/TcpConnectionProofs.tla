------------------------ MODULE TcpConnectionProofs ------------------------
(***************************************************************************)
(* Proofs about TcpConnection, for every send buffer size and every bound. *)
(***************************************************************************)
EXTENDS TcpConnection, CommonLemmas

-----------------------------------------------------------------------------
(* Facts about the sequences of positions.                                 *)

LEMMA PositionsProperties ==
    ASSUME NEW from \in Nat, NEW n \in Nat
    PROVE  /\ Positions(from, n) \in Seq(Nat)
           /\ Len(Positions(from, n)) = n
           /\ \A i \in 1..n : Positions(from, n)[i] = from + i
BY DEF Positions

-----------------------------------------------------------------------------
(* Type correctness.                                                       *)

LEMMA TypeInit == Init => TypeOK
<1> SUFFICES ASSUME Init PROVE TypeOK
  OBVIOUS
<1>1. /\ output \in Seq(Nat) /\ wire \in Seq(Nat)
      /\ drained \in 0..Len(wire) /\ preFileBytes \in 0..Len(output)
  BY EmptySeq DEF Init
<1>2. rcv \in Nat
  BY BoundsAssumption DEF Init
<1>3. events \subseteq kReadEvent /\ revents = {} /\ lost = {}
  BY DEF Init
<1>4. /\ inWrite \in BOOLEAN /\ pendingFile \in BOOLEAN /\ closed \in BOOLEAN
      /\ shutdownAfterWrite \in BOOLEAN /\ idleTimer \in BOOLEAN
      /\ queued \in BOOLEAN /\ fin \in BOOLEAN /\ reset \in BOOLEAN
      /\ shutWr \in BOOLEAN
  BY DEF Init
<1>5. QED  BY <1>1, <1>2, <1>3, <1>4 DEF Init, TypeOK

\* What handleClose() writes is well typed.
LEMMA CloseTyped ==
    ASSUME TypeOK, handleClose
    PROVE  /\ events' \subseteq kReadEvent \cup kWriteEvent
           /\ output' \in Seq(Nat) /\ preFileBytes' \in 0..Len(output')
           /\ fileOffset' \in Nat \ {0} /\ fileRemaining' \in Nat
           /\ closeCalls' \in Nat
           /\ pendingFile' \in BOOLEAN /\ closed' \in BOOLEAN
           /\ shutdownAfterWrite' \in BOOLEAN /\ idleTimer' \in BOOLEAN
           /\ queued' \in BOOLEAN
<1>1. /\ closed' \in BOOLEAN /\ idleTimer' \in BOOLEAN
      /\ pendingFile' \in BOOLEAN /\ queued' \in BOOLEAN
      /\ fileRemaining' \in Nat /\ preFileBytes' = 0 /\ events' = {}
  BY DEF handleClose
<1>2. UNCHANGED <<output, fileOffset, shutdownAfterWrite>>
  BY DEF handleClose
<1>3. /\ output' \in Seq(Nat) /\ fileOffset' \in Nat \ {0}
      /\ shutdownAfterWrite' \in BOOLEAN
  BY <1>2 DEF TypeOK
<1>4. closeCalls' \in Nat
  BY DEF TypeOK, handleClose
<1>5. QED  BY <1>1, <1>3, <1>4, LenProperties

\* A send types its buffers, whether it writes directly or not.
LEMMA SendTyped ==
    ASSUME TypeOK, NEW taken \in Nat, NEW cut \in 0..taken,
           SendInLoop(taken, cut), UNCHANGED drained
    PROVE  /\ events' \subseteq kReadEvent \cup kWriteEvent
           /\ output' \in Seq(Nat) /\ wire' \in Seq(Nat)
           /\ preFileBytes' \in 0..Len(output')
           /\ fileOffset' \in Nat \ {0} /\ fileRemaining' \in Nat
           /\ drained' \in 0..Len(wire')
           /\ promised' \in Nat /\ closeCalls' \in Nat
           /\ lost' \subseteq Nat
           /\ pendingFile' \in BOOLEAN /\ closed' \in BOOLEAN
           /\ shutdownAfterWrite' \in BOOLEAN /\ idleTimer' \in BOOLEAN
           /\ queued' \in BOOLEAN
<1> DEFINE n == taken - cut
<1>0. n \in Nat /\ promised \in Nat /\ wire \in Seq(Nat) /\ output \in Seq(Nat)
  BY DEF TypeOK
<1>1. CASE handleClose /\ UNCHANGED <<wire, streamVars>>
  BY <1>1, CloseTyped DEF TypeOK, streamVars
<1>2. ASSUME NEW k \in 0..n,
             wire' = wire \o Positions(promised, k),
             promised' = promised + taken,
             lost' = lost \cup ((promised + n + 1)..(promised + taken)),
             IF k < n
             THEN /\ output' = output \o Positions(promised + k, n - k)
                  /\ enableWriting(Room - k)
             ELSE UNCHANGED <<output, events, queued>>,
             UNCHANGED <<preFileBytes, pendingFile, fileOffset,
                         fileRemaining, stateVars>>
      PROVE  /\ events' \subseteq kReadEvent \cup kWriteEvent
             /\ output' \in Seq(Nat) /\ wire' \in Seq(Nat)
             /\ preFileBytes' \in 0..Len(output')
             /\ drained' \in 0..Len(wire')
             /\ promised' \in Nat /\ lost' \subseteq Nat
             /\ queued' \in BOOLEAN
  <2>1. wire' \in Seq(Nat) /\ Len(wire') = Len(wire) + k /\ Len(wire) \in Nat
    <3>1. k \in Nat
      BY <1>0
    <3>2. Positions(promised, k) \in Seq(Nat) /\ Len(Positions(promised, k)) = k
      BY <1>0, <3>1, PositionsProperties
    <3>3. QED  BY <1>0, <1>2, <3>2, JoinPoints
  <2>2. output' \in Seq(Nat) /\ preFileBytes' \in 0..Len(output')
    <3>1. CASE k < n
      <4>1. promised + k \in Nat /\ n - k \in Nat
        BY <1>0, <3>1
      <4>2. /\ Positions(promised + k, n - k) \in Seq(Nat)
            /\ Len(Positions(promised + k, n - k)) = n - k
        BY <4>1, PositionsProperties
      <4>3. /\ output' = output \o Positions(promised + k, n - k)
        BY <1>2, <3>1
      <4>4. /\ output' \in Seq(Nat) /\ Len(output) \in Nat
            /\ Len(output') = Len(output) + (n - k)
        BY <1>0, <4>2, <4>3, JoinPoints
      <4>5. QED  BY <1>2, <4>1, <4>4 DEF TypeOK
    <3>2. CASE ~(k < n)
      BY <1>0, <1>2, <3>2 DEF TypeOK
    <3>3. QED  BY <3>1, <3>2
  <2>3. events' \subseteq kReadEvent \cup kWriteEvent /\ queued' \in BOOLEAN
    <3>1. CASE enableWriting(Room - k)
      BY <3>1 DEF TypeOK, enableWriting, Update
    <3>2. CASE UNCHANGED <<events, queued>>
      BY <3>2 DEF TypeOK
    <3>3. QED  BY <1>2, <3>1, <3>2
  <2>4. promised' \in Nat /\ lost' \subseteq Nat
    BY <1>0, <1>2 DEF TypeOK
  <2>5. QED  BY <2>1, <2>2, <2>3, <2>4 DEF TypeOK
<1>3. QED
  BY <1>1, <1>2 DEF TypeOK, SendInLoop, stateVars

\* So does a write from the buffer.
LEMMA FlushTyped ==
    ASSUME TypeOK, NEW limit \in 0..Len(output), Flush(limit)
    PROVE  /\ output' \in Seq(Nat) /\ wire' \in Seq(Nat)
           /\ preFileBytes' \in 0..Len(output')
           /\ drained' \in 0..Len(wire')
<1>0. wire \in Seq(Nat) /\ output \in Seq(Nat) /\ Len(output) \in Nat
  BY LenProperties DEF TypeOK
<1>1. PICK k \in 1..limit :
          /\ wire' = wire \o SubSeq(output, 1, k)
          /\ output' = SubSeq(output, k + 1, Len(output))
          /\ preFileBytes' = IF preFileBytes > k THEN preFileBytes - k ELSE 0
  BY DEF Flush
<1>2. k \in 0..Len(output)
  BY <1>0
<1>3. output' \in Seq(Nat) /\ wire' \in Seq(Nat) /\ Len(wire') = Len(wire) + k
        /\ Len(wire) \in Nat /\ Len(output') = Len(output) - k
  BY <1>0, <1>1, <1>2, Cut, JoinPoints DEF Take, Drop
<1>4. preFileBytes' \in 0..Len(output')
  BY <1>0, <1>1, <1>2, <1>3 DEF TypeOK
<1>5. drained' \in 0..Len(wire')
  BY <1>3 DEF TypeOK, Flush
<1>6. QED  BY <1>3, <1>4, <1>5

\* Every step keeps the variables in their types.
LEMMA TypeStep == TypeOK /\ [Next]_vars => TypeOK'
<1> SUFFICES ASSUME TypeOK, [Next]_vars PROVE TypeOK'
  OBVIOUS
<1>1. CASE Start
  BY <1>1, IdleOnAssumption DEF TypeOK, Start, Update, refreshIdleTimer, vars, sendVars, stateVars,
     threadVars, peerVars, streamVars
<1>2. ASSUME NEW n \in 1..MaxPromise, Send(n) PROVE TypeOK'
  BY <1>2, BoundsAssumption, SendTyped DEF TypeOK, Send, threadVars, peerVars
<1>3. ASSUME NEW n \in 1..MaxPromise, SendFileBuffered(n) PROVE TypeOK'
  <2>1. PICK cut \in 0..n : SendInLoop(n, cut)
    BY <1>3 DEF SendFileBuffered
  <2>2. QED
    BY <1>3, <2>1, BoundsAssumption, SendTyped
    DEF TypeOK, SendFileBuffered, threadVars, peerVars
<1>4. ASSUME NEW n \in 1..MaxPromise, SendFile(n) PROVE TypeOK'
  <2>1. /\ preFileBytes' \in 0..Len(output') /\ fileOffset' \in Nat \ {0}
        /\ fileRemaining' \in Nat /\ promised' \in Nat
    BY <1>4, BoundsAssumption, LenProperties DEF TypeOK, SendFile
  <2>2. events' \subseteq kReadEvent \cup kWriteEvent /\ queued' \in BOOLEAN
    BY <1>4 DEF TypeOK, SendFile, enableWriting, Update
  <2>3. QED
    BY <1>4, <2>1, <2>2 DEF TypeOK, SendFile, stateVars, peerVars
<1>5. CASE ShutdownWrite
  BY <1>5 DEF TypeOK, ShutdownWrite, Update, vars, sendVars, stateVars,
     threadVars, peerVars, streamVars
<1>6. CASE ForceClose
  BY <1>6, CloseTyped DEF TypeOK, ForceClose, vars, sendVars, stateVars,
     threadVars, peerVars, streamVars
<1>7. CASE BeginFunctor
  BY <1>7 DEF TypeOK, BeginFunctor, vars, sendVars, stateVars,
     threadVars, peerVars, streamVars
<1>8. CASE EndApp
  BY <1>8 DEF TypeOK, EndApp, vars, sendVars, stateVars,
     threadVars, peerVars, streamVars
<1>9. CASE HandleEvent
  <2>1. revents' \subseteq {"IN", "PRI", "OUT", "HUP"}
    BY <1>9 DEF TypeOK, HandleEvent, Ready, kReadEvent, kWriteEvent
  <2>2. CASE handleClose /\ UNCHANGED <<thread, inWrite>>
    BY <1>9, <2>1, <2>2, CloseTyped
    DEF TypeOK, HandleEvent, peerVars, streamVars
  <2>3. CASE ~(handleClose /\ UNCHANGED <<thread, inWrite>>)
    BY <1>9, <2>1, <2>3
    DEF TypeOK, HandleEvent, peerVars, streamVars, sendVars, stateVars
  <2>4. QED  BY <2>2, <2>3
<1>10. CASE ReadSome
  BY <1>10 DEF TypeOK, ReadSome, vars, sendVars, stateVars,
     threadVars, peerVars, streamVars
<1>11. CASE ReadDrained
  BY <1>11, IdleOnAssumption DEF TypeOK, ReadDrained, refreshIdleTimer, LeaveRead, vars, sendVars, stateVars,
     threadVars, peerVars, streamVars
<1>12. CASE ReadFailed
  BY <1>12, CloseTyped DEF TypeOK, ReadFailed, LeaveRead, vars, sendVars, stateVars,
     threadVars, peerVars, streamVars
<1>13. CASE ReadAfterClose
  BY <1>13 DEF TypeOK, ReadAfterClose, LeaveRead, vars, sendVars, stateVars,
     threadVars, peerVars, streamVars
<1>14. CASE WriteError
  BY <1>14, CloseTyped DEF TypeOK, WriteError, LeaveWrite, vars, sendVars, stateVars,
     threadVars, peerVars, streamVars
<1>15. CASE WriteBlocked
  BY <1>15 DEF TypeOK, WriteBlocked, LeaveWrite, vars, sendVars, stateVars,
     threadVars, peerVars, streamVars
<1>16. CASE WriteHead
  <2>1. preFileBytes \in 0..Len(output) /\ Flush(preFileBytes)
    BY <1>16 DEF TypeOK, WriteHead
  <2>2. /\ output' \in Seq(Nat) /\ wire' \in Seq(Nat)
        /\ preFileBytes' \in 0..Len(output')
        /\ drained' \in 0..Len(wire')
    BY <2>1, FlushTyped
  <2>3. QED
    BY <2>1, <2>2
    DEF TypeOK, Flush, stateVars, threadVars, peerVars, streamVars
<1>17. CASE WriteTail
  <2>1. Len(output) \in 0..Len(output) /\ Flush(Len(output))
    BY <1>17, LenProperties DEF TypeOK, WriteTail
  <2>2. /\ output' \in Seq(Nat) /\ wire' \in Seq(Nat)
        /\ preFileBytes' \in 0..Len(output')
        /\ drained' \in 0..Len(wire')
    BY <2>1, FlushTyped
  <2>3. QED
    BY <2>1, <2>2
    DEF TypeOK, Flush, stateVars, threadVars, peerVars, streamVars
<1>18. CASE SendFileSome
  <2>1. PICK k \in 1..fileRemaining :
            /\ wire' = wire \o Positions(fileOffset - 1, k)
            /\ fileOffset' = fileOffset + k
            /\ fileRemaining' = fileRemaining - k
            /\ pendingFile' = (k < fileRemaining)
    BY <1>18 DEF SendFileSome
  <2>2. /\ fileOffset' \in Nat \ {0} /\ fileRemaining' \in Nat
        /\ pendingFile' \in BOOLEAN /\ fileOffset - 1 \in Nat /\ k \in Nat
    BY <2>1 DEF TypeOK
  <2>3. /\ Positions(fileOffset - 1, k) \in Seq(Nat)
        /\ Len(Positions(fileOffset - 1, k)) = k
    BY <2>2, PositionsProperties
  <2>4. /\ wire' \in Seq(Nat) /\ Len(wire') = Len(wire) + k
        /\ Len(wire) \in Nat
    BY <2>1, <2>3, JoinPoints DEF TypeOK
  <2>5. drained' \in 0..Len(wire')
    BY <1>18, <2>2, <2>4 DEF TypeOK, SendFileSome
  <2>6. QED
    BY <1>18, <2>2, <2>4, <2>5
    DEF TypeOK, SendFileSome, stateVars, threadVars, peerVars, streamVars
<1>19. CASE SendFileTruncated
  <2>1. lost' \subseteq Nat
    BY <1>19 DEF TypeOK, SendFileTruncated
  <2>2. QED
    BY <1>19, <2>1 DEF TypeOK, SendFileTruncated, stateVars, threadVars, peerVars
<1>20. CASE WriteDone
  BY <1>20 DEF TypeOK, WriteDone, LeaveWrite, Update, vars, sendVars, stateVars,
     threadVars, peerVars, streamVars
<1>21. CASE HandleIdleTimeout
  BY <1>21, CloseTyped DEF TypeOK, HandleIdleTimeout, vars, sendVars, stateVars,
     threadVars, peerVars, streamVars
<1>22. CASE PeerSend
  BY <1>22 DEF TypeOK, PeerSend, vars, sendVars, stateVars,
     threadVars, peerVars, streamVars
<1>23. CASE PeerFin
  BY <1>23 DEF TypeOK, PeerFin, vars, sendVars, stateVars,
     threadVars, peerVars, streamVars
<1>24. CASE PeerReset
  BY <1>24 DEF TypeOK, PeerReset, vars, sendVars, stateVars,
     threadVars, peerVars, streamVars
<1>25. CASE PeerDrain
  BY <1>25, LenProperties DEF TypeOK, PeerDrain, vars, sendVars, stateVars,
     threadVars, peerVars, streamVars
<1>26. CASE UNCHANGED vars
  BY <1>26 DEF TypeOK, vars, sendVars, stateVars,
     threadVars, peerVars, streamVars
<1>27. QED
  BY <1>1, <1>2, <1>3, <1>4, <1>5, <1>6, <1>7, <1>8, <1>9, <1>10, <1>11, <1>12,
     <1>13, <1>14, <1>15, <1>16, <1>17, <1>18, <1>19, <1>20, <1>21, <1>22,
     <1>23, <1>24, <1>25, <1>26
  DEF Next, App, handleRead, handleWrite, Peer

\* Every variable keeps its type, and the buffers their bounds.
THEOREM TypeCorrect == Spec => []TypeOK
BY TypeInit, TypeStep, PTL DEF Spec

-----------------------------------------------------------------------------
(* Control: what the frame of the IO thread tells about the connection.    *)

ControlInv ==
    /\ thread = "new" => ~inWrite /\ ~closed
    /\ thread = "read" => ~inWrite
    /\ closed => ~inWrite

CI == ControlInv /\ UnsentIsAwaited /\ ClosedReleased /\ IdleTimerArmed

LEMMA ControlInit == Init => CI
BY EmptySeq DEF Init, CI, ControlInv, UnsentIsAwaited, ClosedReleased, IdleTimerArmed, Backlog

LEMMA ControlStep == TypeOK /\ CI /\ [Next]_vars => CI'
<1> SUFFICES ASSUME TypeOK, CI, [Next]_vars PROVE CI'
  OBVIOUS
<1> USE DEF CI, ControlInv, UnsentIsAwaited, ClosedReleased, IdleTimerArmed, Backlog
<1>1. CASE Start
  BY <1>1 DEF Start, Update, refreshIdleTimer, kReadEvent,
     sendVars, stateVars, threadVars, peerVars, streamVars
<1>2. ASSUME NEW n \in 1..MaxPromise, Send(n) PROVE CI'
  BY <1>2 DEF Send, SendInLoop, handleClose, enableWriting, Update, kWriteEvent, InApp, MayWriteDirectly, isWriting,
     sendVars, stateVars, threadVars, peerVars, streamVars
<1>3. ASSUME NEW n \in 1..MaxPromise, SendFileBuffered(n) PROVE CI'
  BY <1>3 DEF SendFileBuffered, SendInLoop, handleClose, enableWriting, Update, kWriteEvent, InApp, MayWriteDirectly, isWriting,
     sendVars, stateVars, threadVars, peerVars, streamVars
<1>4. ASSUME NEW n \in 1..MaxPromise, SendFile(n) PROVE CI'
  BY <1>4 DEF SendFile, enableWriting, Update, kWriteEvent, InApp,
     sendVars, stateVars, threadVars, peerVars, streamVars
<1>5. CASE ShutdownWrite
  BY <1>5 DEF ShutdownWrite, Update, InApp,
     sendVars, stateVars, threadVars, peerVars, streamVars
<1>6. CASE ForceClose
  BY <1>6 DEF ForceClose, handleClose, InApp,
     sendVars, stateVars, threadVars, peerVars, streamVars
<1>7. CASE BeginFunctor
  BY <1>7 DEF BeginFunctor, Idle,
     sendVars, stateVars, threadVars, peerVars, streamVars
<1>8. CASE EndApp
  BY <1>8 DEF EndApp, InApp,
     sendVars, stateVars, threadVars, peerVars, streamVars
<1>9. CASE HandleEvent
  <2>1. thread = "loop" /\ ~inWrite /\ ~closed
    BY <1>9 DEF HandleEvent, Idle
  <2>2. CASE "HUP" \in Ready(events, Room, shutWr)
    BY <1>9, <2>1, <2>2 DEF HandleEvent, handleClose
  <2>3. CASE "HUP" \notin Ready(events, Room, shutWr)
    <3>1. thread' = "read" => ~inWrite'
      BY <1>9, <2>3 DEF HandleEvent
    <3>2. thread' # "new" /\ UNCHANGED <<events, sendVars, stateVars>>
      BY <1>9, <2>3 DEF HandleEvent
    <3>3. QED  BY <2>1, <3>1, <3>2 DEF sendVars, stateVars
  <2>4. QED  BY <2>2, <2>3
<1>10. CASE ReadSome
  BY <1>10 DEF ReadSome,
     sendVars, stateVars, threadVars, peerVars, streamVars
<1>11. CASE ReadDrained
  BY <1>11 DEF ReadDrained, refreshIdleTimer, LeaveRead,
     sendVars, stateVars, threadVars, peerVars, streamVars
<1>12. CASE ReadFailed
  <2>1. thread' = "loop" /\ ~inWrite' /\ ~closed /\ handleClose
    BY <1>12 DEF ReadFailed, LeaveRead
  <2>2. QED  BY <2>1 DEF handleClose
<1>13. CASE ReadAfterClose
  BY <1>13 DEF ReadAfterClose, LeaveRead,
     sendVars, stateVars, threadVars, peerVars, streamVars
<1>14. CASE WriteError
  BY <1>14 DEF WriteError, LeaveWrite, handleClose,
     sendVars, stateVars, threadVars, peerVars, streamVars
<1>15. CASE WriteBlocked
  BY <1>15 DEF WriteBlocked, LeaveWrite,
     sendVars, stateVars, threadVars, peerVars, streamVars
<1>16. CASE WriteHead
  BY <1>16 DEF WriteHead, Flush,
     sendVars, stateVars, threadVars, peerVars, streamVars
<1>17. CASE WriteTail
  BY <1>17 DEF WriteTail, Flush,
     sendVars, stateVars, threadVars, peerVars, streamVars
<1>18. CASE SendFileSome
  BY <1>18 DEF SendFileSome,
     sendVars, stateVars, threadVars, peerVars, streamVars
<1>19. CASE SendFileTruncated
  BY <1>19 DEF SendFileTruncated,
     sendVars, stateVars, threadVars, peerVars, streamVars
<1>20. CASE WriteDone
  BY <1>20 DEF WriteDone, LeaveWrite, Update, Backlog,
     sendVars, stateVars, threadVars, peerVars, streamVars
<1>21. CASE HandleIdleTimeout
  BY <1>21 DEF HandleIdleTimeout, handleClose, Idle,
     sendVars, stateVars, threadVars, peerVars, streamVars
<1>22. CASE PeerSend
  BY <1>22 DEF PeerSend,
     sendVars, stateVars, threadVars, peerVars, streamVars
<1>23. CASE PeerFin
  BY <1>23 DEF PeerFin,
     sendVars, stateVars, threadVars, peerVars, streamVars
<1>24. CASE PeerReset
  BY <1>24 DEF PeerReset,
     sendVars, stateVars, threadVars, peerVars, streamVars
<1>25. CASE PeerDrain
  BY <1>25 DEF PeerDrain,
     sendVars, stateVars, threadVars, peerVars, streamVars
<1>26. CASE UNCHANGED vars
  BY <1>26 DEF vars,
     sendVars, stateVars, threadVars, peerVars, streamVars
<1>27. QED
  BY <1>1, <1>2, <1>3, <1>4, <1>5, <1>6, <1>7, <1>8, <1>9, <1>10, <1>11, <1>12, <1>13, <1>14, <1>15, <1>16, <1>17, <1>18, <1>19, <1>20, <1>21, <1>22, <1>23, <1>24, <1>25, <1>26
  DEF Next, App, handleRead, handleWrite, Peer

\* Whatever is unsent is waited for.
THEOREM Awaited == Spec => []UnsentIsAwaited
<1>1. Init => TypeOK /\ CI
  BY TypeInit, ControlInit
<1>2. (TypeOK /\ CI) /\ [Next]_vars => (TypeOK /\ CI)'
  BY TypeStep, ControlStep
<1>3. TypeOK /\ CI => UnsentIsAwaited
  BY DEF CI
<1>4. QED  BY <1>1, <1>2, <1>3, PTL DEF Spec

\* A connection keeps its timer as long as it is open, and once it is closed it
\* has let go of its timer, its file and its place in epoll and told its owner
\* once (handleClose(), refreshIdleTimer()).
THEOREM Resources == Spec => []HoldsWhatItNeeds
<1>1. Init => TypeOK /\ CI
  BY TypeInit, ControlInit
<1>2. (TypeOK /\ CI) /\ [Next]_vars => (TypeOK /\ CI)'
  BY TypeStep, ControlStep
<1>3. TypeOK /\ CI => HoldsWhatItNeeds
  BY DEF CI, HoldsWhatItNeeds
<1>4. QED  BY <1>1, <1>2, <1>3, PTL DEF Spec

-----------------------------------------------------------------------------
(* The ways in which a step can touch the bytes.                     *)

BytesUntouched ==
    UNCHANGED <<wire, output, preFileBytes, pendingFile, fileOffset,
                fileRemaining, promised, lost, closed>>

Closing == handleClose /\ UNCHANGED <<wire, promised, lost>>

\* A send of `taken' bytes that drops `cut' and writes `k' directly.
Taking(taken, cut, k) ==
    LET n == taken - cut
    IN  /\ k > 0 => output = <<>> /\ ~pendingFile
        /\ wire' = wire \o Positions(promised, k)
        /\ promised' = promised + taken
        /\ lost' = lost \cup ((promised + n + 1)..(promised + taken))
        /\ k < n  => output' = output \o Positions(promised + k, n - k)
        /\ k >= n => output' = output
        /\ UNCHANGED <<preFileBytes, pendingFile, fileOffset, fileRemaining, closed>>

BytesStep ==
    \/ BytesUntouched
    \/ Closing
    \/ \E taken \in 1..MaxPromise : \E cut \in 0..taken : \E k \in 0..(taken - cut) :
          Taking(taken, cut, k)
    \/ \E n \in 1..MaxPromise : SendFile(n)
    \/ WriteHead \/ WriteTail \/ SendFileSome \/ SendFileTruncated

LEMMA SendTakes ==
    ASSUME TypeOK, CI, ~closed, NEW taken \in 1..MaxPromise, NEW cut \in 0..taken,
           SendInLoop(taken, cut)
    PROVE  BytesStep
<1>1. CASE handleClose /\ UNCHANGED <<wire, streamVars>>
  BY <1>1 DEF BytesStep, Closing, streamVars
<1>2. ASSUME NEW k \in 0..(taken - cut),
             k > 0 => MayWriteDirectly /\ k <= Room,
             wire' = wire \o Positions(promised, k),
             promised' = promised + taken,
             lost' = lost \cup ((promised + (taken - cut) + 1)..(promised + taken)),
             IF k < taken - cut
             THEN /\ output' = output \o Positions(promised + k, taken - cut - k)
                  /\ enableWriting(Room - k)
             ELSE UNCHANGED <<output, events, queued>>,
             UNCHANGED <<preFileBytes, pendingFile, fileOffset,
                         fileRemaining, stateVars>>
      PROVE  BytesStep
  <2>1. k > 0 => output = <<>> /\ ~pendingFile
    BY <1>2 DEF CI, UnsentIsAwaited, Backlog, MayWriteDirectly, isWriting, kWriteEvent
  <2>2. k >= taken - cut => output' = output
    BY <1>2, BoundsAssumption
  <2>3. Taking(taken, cut, k)
    BY <1>2, <2>1, <2>2 DEF Taking, stateVars
  <2>4. QED  BY <2>3 DEF BytesStep
<1>3. QED
  BY <1>1, <1>2 DEF SendInLoop

LEMMA StepIsBytesStep == TypeOK /\ CI /\ [Next]_vars => BytesStep
<1> SUFFICES ASSUME TypeOK, CI, [Next]_vars PROVE BytesStep
  OBVIOUS
<1>1. ASSUME NEW n \in 1..MaxPromise, Send(n) PROVE BytesStep
  BY <1>1, BoundsAssumption, SendTakes DEF Send
<1>2. ASSUME NEW n \in 1..MaxPromise, SendFileBuffered(n) PROVE BytesStep
  BY <1>2, BoundsAssumption, SendTakes DEF SendFileBuffered
<1>3. ASSUME NEW n \in 1..MaxPromise, SendFile(n) PROVE BytesStep
  BY <1>3 DEF BytesStep
<1>4. CASE ForceClose \/ ReadFailed \/ WriteError \/ HandleIdleTimeout
  BY <1>4 DEF ForceClose, ReadFailed, WriteError, HandleIdleTimeout, BytesStep,
     Closing, streamVars
<1>5. CASE HandleEvent
  <2>1. CASE handleClose
    BY <1>5, <2>1 DEF HandleEvent, BytesStep, Closing, streamVars
  <2>2. CASE UNCHANGED <<events, sendVars, stateVars>>
    BY <1>5, <2>2
    DEF HandleEvent, BytesStep, BytesUntouched, streamVars, sendVars, stateVars
  <2>3. QED  BY <1>5, <2>1, <2>2 DEF HandleEvent
<1>6. CASE WriteHead \/ WriteTail \/ SendFileSome \/ SendFileTruncated
  BY <1>6 DEF BytesStep
<1>7. CASE Start \/ ShutdownWrite \/ BeginFunctor \/ EndApp
  BY <1>7 DEF Start, ShutdownWrite, BeginFunctor, EndApp, BytesStep,
     BytesUntouched, sendVars, stateVars, streamVars
<1>8. CASE ReadSome \/ ReadDrained \/ ReadAfterClose \/ WriteBlocked \/ WriteDone
  BY <1>8 DEF ReadSome, ReadDrained, ReadAfterClose, WriteBlocked, WriteDone,
     BytesStep, BytesUntouched, sendVars, stateVars, streamVars
<1>9. CASE Peer
  BY <1>9 DEF Peer, PeerSend, PeerFin, PeerReset, PeerDrain, BytesStep,
     BytesUntouched, sendVars, stateVars, streamVars
<1>10. CASE UNCHANGED vars
  BY <1>10 DEF vars, BytesStep, BytesUntouched, sendVars, stateVars, streamVars
<1>11. QED
  BY <1>1, <1>2, <1>3, <1>4, <1>5, <1>6, <1>7, <1>8, <1>9, <1>10
  DEF Next, App, handleRead, handleWrite

-----------------------------------------------------------------------------
(* The order of the bytes.  The wire, then the head of the buffer, then the *)
(* pending file, then the rest of the buffer hold increasing positions.     *)

BufferInv ==
    /\ Between(wire, 1, promised) /\ Between(output, 1, promised)
    /\ Increasing(wire) /\ Increasing(output) /\ Below(wire, output)

FileInv ==
    /\ ~pendingFile => preFileBytes = 0
    /\ pendingFile =>
          /\ fileRemaining > 0
          /\ fileOffset + fileRemaining <= promised + 1
          /\ Between(wire, 1, fileOffset - 1)
          /\ Window(output, 1, preFileBytes, 1, fileOffset - 1)
          /\ Window(output, preFileBytes + 1, Len(output),
                    fileOffset + fileRemaining, promised)

OrderInv == BufferInv /\ FileInv

LEMMA OrderInit == Init => OrderInv
BY EmptySeq DEF Init, OrderInv, BufferInv, FileInv, Between, Window, Increasing, Below

\* Fresh positions are in order.
LEMMA PositionsOrder ==
    ASSUME NEW from \in Nat, NEW n \in Nat
    PROVE  /\ Increasing(Positions(from, n))
           /\ Between(Positions(from, n), from + 1, from + n)
<1> DEFINE t == Positions(from, n)
<1>1. t \in Seq(Nat) /\ Len(t) = n /\ \A i \in 1..n : t[i] = from + i
  BY PositionsProperties
<1> HIDE DEF t
<1>2. Increasing(t) /\ Between(t, from + 1, from + n)
  BY <1>1 DEF Increasing, Between, Window
<1>3. QED  BY <1>2 DEF t

LEMMA TakingOrder ==
    ASSUME TypeOK, OrderInv, NEW taken \in Nat, NEW cut \in 0..taken,
           NEW k \in 0..(taken - cut), Taking(taken, cut, k)
    PROVE  OrderInv'
<1> DEFINE n == taken - cut
           direct == Positions(promised, k)
           rest == Positions(promised + k, n - k)
<1>0. /\ n \in Nat /\ k \in Nat /\ n - k \in Nat /\ promised \in Nat
      /\ promised + k \in Nat /\ wire \in Seq(Nat) /\ output \in Seq(Nat)
      /\ taken >= n /\ Len(wire) \in Nat /\ Len(output) \in Nat
      /\ promised + 1 \in Nat /\ promised + k + 1 \in Nat
      /\ promised + k + (n - k) \in Nat /\ promised + taken \in Nat
      /\ promised + k + (n - k) <= promised + taken
      /\ promised + k <= promised + taken
  BY LenProperties DEF TypeOK
<1>1. /\ direct \in Seq(Nat) /\ Increasing(direct) /\ Len(direct) = k
      /\ Between(direct, promised + 1, promised + k)
      /\ rest \in Seq(Nat) /\ Increasing(rest) /\ Len(rest) = n - k
      /\ Between(rest, promised + k + 1, promised + k + (n - k))
  BY <1>0, PositionsProperties, PositionsOrder
<1>2. /\ wire' = wire \o direct
      /\ promised' = promised + taken /\ pendingFile' = pendingFile
      /\ fileOffset' = fileOffset /\ fileRemaining' = fileRemaining
      /\ preFileBytes' = preFileBytes
      /\ k > 0 => Len(output) = 0 /\ ~pendingFile
  BY EmptySeq DEF Taking
<1>3. output' = output \o rest
  <2>1. CASE k < n
    BY <2>1 DEF Taking
  <2>2. CASE k >= n
    BY <1>0, <1>1, <2>2, ConcatEmptySeq, EmptySeq DEF Taking
  <2>3. QED  BY <1>0, <2>1, <2>2
<1> HIDE DEF direct, rest, n
<1>4. BufferInv'
  <2>1. /\ Between(wire, 1, promised) /\ Between(output, 1, promised)
        /\ Increasing(wire) /\ Increasing(output) /\ Below(wire, output)
    BY DEF OrderInv, BufferInv
  <2>2. Len(output) = 0 \/ Len(direct) = 0
    BY <1>0, <1>1, <1>2
  <2> DEFINE y == promised + k + (n - k)
             q == promised + k
             z == promised + taken
  <2>3. /\ z \in Nat /\ y \in Nat /\ q \in Nat
        /\ promised <= q /\ q <= y /\ y <= z
    BY <1>0
  <2>4. Between(direct, promised + 1, q) /\ Between(rest, q + 1, y)
    BY <1>1
  <2> HIDE DEF z, y, q
  <2>5. /\ Between(wire \o direct, 1, z) /\ Between(output \o rest, 1, z)
        /\ Increasing(wire \o direct) /\ Increasing(output \o rest)
        /\ Below(wire \o direct, output \o rest)
    BY <1>0, <1>1, <2>1, <2>2, <2>3, <2>4, Extend
  <2>6. QED  BY <1>2, <1>3, <2>5 DEF BufferInv, z
<1>5. FileInv'
  <2>1. CASE ~pendingFile
    BY <1>2, <2>1 DEF OrderInv, FileInv
  <2>2. CASE pendingFile
    <3>0. /\ preFileBytes \in 0..Len(output) /\ fileOffset \in Nat \ {0}
          /\ fileRemaining \in Nat /\ fileRemaining > 0 /\ k = 0
          /\ fileOffset + fileRemaining <= promised + 1
          /\ Between(wire, 1, fileOffset - 1)
          /\ Window(output, 1, preFileBytes, 1, fileOffset - 1)
          /\ Window(output, preFileBytes + 1, Len(output),
                    fileOffset + fileRemaining, promised)
      BY <1>0, <1>2, <2>2 DEF OrderInv, FileInv, TypeOK
    <3>1. Between(wire', 1, fileOffset - 1)
      <4>1. Between(direct, 1, fileOffset - 1)
        BY <1>1, <3>0, NothingInOrder
      <4>2. QED  BY <1>0, <1>1, <1>2, <3>0, <4>1, JoinBetween
    <3>2. Window(output', 1, preFileBytes, 1, fileOffset - 1)
      BY <1>0, <1>1, <1>3, <3>0, JoinWindowHead
    <3>3. Window(output', preFileBytes + 1, Len(output'),
                 fileOffset + fileRemaining, promised')
      <4>0. /\ preFileBytes + 1 \in Nat \ {0} /\ fileOffset + fileRemaining \in Nat
            /\ Len(output) \in 0..Len(output) /\ promised' \in Nat
            /\ promised <= promised'
            /\ fileOffset + fileRemaining <= promised + k + 1
            /\ promised + k + (n - k) <= promised'
        BY <1>0, <1>2, <3>0
      <4> DEFINE a == fileOffset + fileRemaining
                 m == preFileBytes + 1
                 c == promised + k + 1
                 d == promised + k + (n - k)
                 z == promised'
      <4>1. /\ a \in Nat /\ m \in Nat \ {0} /\ z \in Nat /\ promised <= z
            /\ c \in Nat /\ d \in Nat /\ a <= c /\ d <= z
            /\ Window(output, m, Len(output), a, promised) /\ Between(rest, c, d)
        BY <1>0, <1>1, <3>0, <4>0
      <4> HIDE DEF a, m, z, c, d
      <4>2. Window(output \o rest, m, Len(output \o rest), a, z)
        BY <1>0, <1>1, <4>1, ExtendWindow
      <4>3. QED  BY <1>3, <4>2 DEF a, m, z
    <3>4. QED
      BY <1>0, <1>2, <2>2, <3>0, <3>1, <3>2, <3>3 DEF FileInv
  <2>3. QED  BY <2>1, <2>2
<1>6. QED  BY <1>4, <1>5 DEF OrderInv

\* A write from the buffer moves its head to the wire.
LEMMA FlushOrder ==
    ASSUME TypeOK, OrderInv, WriteHead \/ WriteTail
    PROVE  OrderInv'
<1> DEFINE limit == IF preFileBytes > 0 THEN preFileBytes ELSE Len(output)
<1>0. /\ wire \in Seq(Nat) /\ output \in Seq(Nat) /\ promised \in Nat
      /\ Len(output) \in Nat /\ preFileBytes \in 0..Len(output)
      /\ fileOffset \in Nat \ {0} /\ fileRemaining \in Nat
  BY LenProperties DEF TypeOK
<1>1. /\ Flush(limit)
      /\ pendingFile => preFileBytes > 0
      /\ ~pendingFile => preFileBytes = 0
  BY <1>0 DEF WriteHead, WriteTail, OrderInv, FileInv
<1>2. PICK k \in 1..limit :
          /\ wire' = wire \o Take(output, k)
          /\ output' = Drop(output, k)
          /\ preFileBytes' = IF preFileBytes > k THEN preFileBytes - k ELSE 0
  BY <1>1 DEF Flush, Take, Drop
<1>3. UNCHANGED <<promised, pendingFile, fileOffset, fileRemaining>>
  BY <1>1 DEF Flush, streamVars
<1>4. k \in 0..Len(output)
  BY <1>0
<1>5. BufferInv'
  <2>1. /\ Between(wire, 1, promised) /\ Between(output, 1, promised)
        /\ Increasing(wire) /\ Increasing(output) /\ Below(wire, output)
    BY DEF OrderInv, BufferInv
  <2>2. /\ Between(wire \o Take(output, k), 1, promised)
        /\ Between(Drop(output, k), 1, promised)
        /\ Increasing(wire \o Take(output, k)) /\ Increasing(Drop(output, k))
        /\ Below(wire \o Take(output, k), Drop(output, k))
    BY <1>0, <1>4, <2>1, Move
  <2>3. QED  BY <1>2, <1>3, <2>2 DEF BufferInv
<1>6. FileInv'
  <2>1. CASE ~pendingFile
    <3>1. preFileBytes' = 0
      BY <1>0, <1>1, <1>2, <2>1
    <3>2. QED  BY <1>3, <2>1, <3>1 DEF FileInv
  <2>2. CASE pendingFile
    <3>1. /\ k \in 0..preFileBytes /\ preFileBytes' = preFileBytes - k
          /\ preFileBytes \in Nat
      BY <1>0, <1>1, <1>2, <2>2
    <3> DEFINE a == fileOffset - 1
               c == fileOffset + fileRemaining
    <3>2. /\ a \in Nat /\ c \in Nat
          /\ Between(wire, 1, a) /\ Window(output, 1, preFileBytes, 1, a)
          /\ Window(output, preFileBytes + 1, Len(output), c, promised)
          /\ fileRemaining > 0 /\ c <= promised + 1
      BY <1>0, <2>2 DEF OrderInv, FileInv
    <3> HIDE DEF a, c
    <3>3. /\ Between(wire \o Take(output, k), 1, a)
          /\ Window(Drop(output, k), 1, preFileBytes - k, 1, a)
          /\ Window(Drop(output, k), preFileBytes - k + 1, Len(Drop(output, k)),
                    c, promised)
      BY <1>0, <3>1, <3>2, MoveWindows
    <3>4. QED  BY <1>2, <1>3, <2>2, <3>1, <3>2, <3>3 DEF FileInv, a, c
  <2>3. QED  BY <2>1, <2>2
<1>7. QED  BY <1>5, <1>6 DEF OrderInv

\* A new file goes behind everything that is buffered.
LEMMA SendFileOrder ==
    ASSUME TypeOK, OrderInv, NEW n \in Nat \ {0}, SendFile(n)
    PROVE  OrderInv'
<1>0. /\ wire \in Seq(Nat) /\ output \in Seq(Nat) /\ promised \in Nat
      /\ Len(output) \in Nat
  BY LenProperties DEF TypeOK
<1>1. /\ wire' = wire /\ output' = output /\ promised' = promised + n
      /\ preFileBytes' = Len(output) /\ pendingFile'
      /\ fileOffset' = promised + 1 /\ fileRemaining' = n
  BY DEF SendFile
<1>2. /\ Between(wire, 1, promised) /\ Between(output, 1, promised)
      /\ Increasing(wire) /\ Increasing(output) /\ Below(wire, output)
  BY DEF OrderInv, BufferInv
<1> DEFINE z == promised + n
<1>3. z \in Nat /\ promised <= z /\ 1 <= 1 /\ 1 \in Nat
  BY <1>0
<1> HIDE DEF z
<1>4. Between(wire, 1, z)
  BY <1>0, <1>2, <1>3, RelaxBetween
<1>5. Between(output, 1, z)
  BY <1>0, <1>2, <1>3, RelaxBetween
<1>6. BufferInv'
  BY <1>1, <1>2, <1>4, <1>5 DEF BufferInv, z
<1>7. fileOffset' - 1 = promised /\ fileOffset' + fileRemaining' <= promised' + 1
  BY <1>0, <1>1
<1>8. Window(output, Len(output) + 1, Len(output), fileOffset' + fileRemaining', promised')
  BY <1>0 DEF Window
<1>9. FileInv'
  BY <1>1, <1>2, <1>7, <1>8 DEF FileInv, Between
<1>10. QED  BY <1>6, <1>9 DEF OrderInv

\* sendfile() moves positions that are above the wire and below the buffer.
LEMMA FileOrder ==
    ASSUME TypeOK, OrderInv, SendFileSome
    PROVE  OrderInv'
<1>0. /\ wire \in Seq(Nat) /\ output \in Seq(Nat) /\ promised \in Nat
      /\ Len(output) \in Nat /\ preFileBytes = 0 /\ pendingFile
      /\ fileOffset \in Nat \ {0} /\ fileRemaining \in Nat
  BY LenProperties DEF TypeOK, SendFileSome
<1>1. PICK k \in 1..fileRemaining :
          /\ wire' = wire \o Positions(fileOffset - 1, k)
          /\ fileOffset' = fileOffset + k
          /\ fileRemaining' = fileRemaining - k
          /\ pendingFile' = (k < fileRemaining)
  BY DEF SendFileSome
<1>2. UNCHANGED <<output, preFileBytes, promised>>
  BY DEF SendFileSome, streamVars
<1> DEFINE d == Positions(fileOffset - 1, k)
           a == fileOffset - 1
           b == fileOffset - 1 + k
           c == fileOffset + fileRemaining
<1>3. /\ a \in Nat /\ b \in Nat /\ c \in Nat /\ a <= b /\ b < c /\ b <= promised
      /\ fileOffset' - 1 = b /\ fileOffset' + fileRemaining' = c /\ c <= promised + 1
      /\ k \in Nat /\ (k < fileRemaining => fileRemaining' > 0)
  BY <1>0, <1>1 DEF OrderInv, FileInv
<1>4. /\ Between(wire, 1, a) /\ Window(output, 1, Len(output), c, promised)
      /\ Between(output, 1, promised)
      /\ Increasing(wire) /\ Increasing(output) /\ Below(wire, output)
  BY <1>0 DEF OrderInv, FileInv, BufferInv
<1>5. d \in Seq(Nat) /\ Increasing(d) /\ Between(d, a + 1, b)
  <2>1. /\ d \in Seq(Nat) /\ Increasing(d)
        /\ Between(d, fileOffset - 1 + 1, fileOffset - 1 + k)
    BY <1>3, PositionsProperties, PositionsOrder
  <2>2. QED  BY <2>1
<1>6. wire' = wire \o d
  BY <1>1
<1> HIDE DEF a, b, c, d
<1>7. /\ Between(wire \o d, 1, b) /\ Between(wire \o d, 1, promised)
      /\ Increasing(wire \o d) /\ Below(wire \o d, output)
  BY <1>0, <1>3, <1>4, <1>5, InsertOrder DEF Between
<1>8. BufferInv'
  BY <1>2, <1>4, <1>6, <1>7 DEF BufferInv
<1>9. FileInv'
  <2>1. CASE pendingFile'
    <3>1. Window(output, 1, 0, 1, b)
      BY DEF Window
    <3>2. fileRemaining' > 0
      BY <1>1, <1>3, <2>1
    <3>3. QED
      BY <1>0, <1>2, <1>3, <1>4, <1>6, <1>7, <2>1, <3>1, <3>2 DEF FileInv
  <2>2. CASE ~pendingFile'
    BY <1>0, <1>2, <2>2 DEF FileInv
  <2>3. QED  BY <2>1, <2>2
<1>10. QED  BY <1>8, <1>9 DEF OrderInv

LEMMA OrderStep ==
    ASSUME TypeOK, OrderInv, BytesStep
    PROVE  OrderInv'
<1>1. CASE BytesUntouched
  BY <1>1 DEF BytesUntouched, OrderInv, BufferInv, FileInv
<1>2. CASE Closing
  BY <1>2 DEF Closing, handleClose, OrderInv, BufferInv, FileInv
<1>3. ASSUME NEW taken \in 1..MaxPromise, NEW cut \in 0..taken,
             NEW k \in 0..(taken - cut), Taking(taken, cut, k)
      PROVE  OrderInv'
  BY <1>3, BoundsAssumption, TakingOrder
<1>4. ASSUME NEW n \in 1..MaxPromise, SendFile(n) PROVE OrderInv'
  BY <1>4, BoundsAssumption, SendFileOrder
<1>5. CASE WriteHead \/ WriteTail
  BY <1>5, FlushOrder
<1>6. CASE SendFileSome
  BY <1>6, FileOrder
<1>7. CASE SendFileTruncated
  BY <1>7 DEF SendFileTruncated, OrderInv, BufferInv, FileInv
<1>8. QED
  BY <1>1, <1>2, <1>3, <1>4, <1>5, <1>6, <1>7 DEF BytesStep

\* The bytes leave in the order they were promised, each at most once.
THEOREM InOrder == Spec => []WireInOrder
<1> DEFINE Inv == TypeOK /\ CI /\ OrderInv
<1>1. Init => Inv
  BY TypeInit, ControlInit, OrderInit
<1>2. Inv /\ [Next]_vars => Inv'
  BY TypeStep, ControlStep, StepIsBytesStep, OrderStep
<1>3. Inv => WireInOrder
  BY DEF OrderInv, BufferInv, WireInOrder, Increasing
<1>4. QED  BY <1>1, <1>2, <1>3, PTL DEF Spec

\* The write side is shut down only when nothing is left to send.
THEOREM HalfCloseAfterFlush == Spec => HalfCloseWhenFlushed
<1>1. [Next]_vars => [shutWr' /\ ~shutWr => ~Backlog /\ ~Backlog']_vars
  <2> SUFFICES ASSUME Next, shutWr' /\ ~shutWr PROVE ~Backlog /\ ~Backlog'
    BY DEF vars
  <2>1. ShutdownWrite \/ WriteDone
    BY DEF Next, App, Start, Send, SendFileBuffered, SendFile, ForceClose, BeginFunctor,
       EndApp, HandleEvent, handleRead, ReadSome, ReadDrained, ReadFailed,
       ReadAfterClose, HandleIdleTimeout, handleWrite, WriteError, WriteBlocked,
       WriteHead, WriteTail, Flush, SendFileSome, SendFileTruncated, Peer, PeerSend,
       PeerFin, PeerReset, PeerDrain
  <2>2. UNCHANGED <<output, pendingFile>>
    BY <2>1 DEF ShutdownWrite, WriteDone, sendVars
  <2>3. CASE WriteDone
    BY <2>2, <2>3 DEF WriteDone, Backlog
  <2>4. CASE ShutdownWrite
    <3>1. output = <<>> /\ ~pendingFile
      BY <2>4, Zenon DEF ShutdownWrite, NothingQueued
    <3>2. QED  BY <2>2, <3>1 DEF Backlog
  <2>5. QED  BY <2>1, <2>3, <2>4
<1>2. QED  BY <1>1, PTL DEF Spec, HalfCloseWhenFlushed

-----------------------------------------------------------------------------
(* The edges.  What is there to be read or could be written is known to    *)
(* epoll, or to a handler that has still to come to it.                    *)

Readable == rcv > 0 \/ fin \/ reset
Writable == Room > 0 \/ WriteFails

EdgeInv ==
    /\ Room \in Nat
    /\ thread # "new" /\ ~closed => "IN" \in events
    /\ ~closed /\ Readable => queued \/ thread \in {"new", "read", "callback"}
    /\ ~closed /\ Backlog /\ Writable =>
          queued \/ inWrite \/ (thread \in {"read", "callback"} /\ "OUT" \in revents)

\* What epoll finds of a socket.
LEMMA ReadyTells ==
    ASSUME NEW interest, NEW room, NEW shut
    PROVE  /\ "IN" \in Ready(interest, room, shut) <=> "IN" \in interest /\ Readable
           /\ "OUT" \in Ready(interest, room, shut)
                 <=> "OUT" \in interest /\ (room > 0 \/ reset \/ shut)
BY DEF Ready, Readable

\* epoll_ctl() finds what is there.
LEMMA UpdateTells ==
    ASSUME NEW interest, NEW room, NEW shut, Update(interest, room, shut)
    PROVE  /\ events' = interest
           /\ queued => queued'
           /\ "IN" \in interest /\ Readable => queued'
           /\ "OUT" \in interest /\ (room > 0 \/ reset \/ shut) => queued'
BY ReadyTells DEF Update

LEMMA EdgeInit == Init => EdgeInv
BY SndBufAssumption, EmptySeq DEF Init, EdgeInv, Readable, Writable, Backlog, Room, WriteFails

\* The room in the kernel's buffer.
LEMMA RoomTyped ==
    ASSUME TypeOK
    PROVE  /\ Len(wire) \in Nat /\ drained \in Nat /\ SndBuf \in Nat
           /\ Room = SndBuf - (Len(wire) - drained)
BY SndBufAssumption, LenProperties DEF TypeOK, Room

\* Bytes that the kernel accepts take room.
LEMMA RoomTaken ==
    ASSUME TypeOK, NEW t \in Seq(Nat), wire' = wire \o t, drained' = drained
    PROVE  Room' = Room - Len(t) /\ Len(t) \in Nat
<1>1. Len(wire') = Len(wire) + Len(t) /\ Len(t) \in Nat
  BY JoinPoints DEF TypeOK
<1>2. Len(wire) \in Nat /\ drained \in Nat /\ SndBuf \in Nat
  BY RoomTyped
<1>3. QED  BY <1>1, <1>2 DEF Room

\* A send, which may write directly and then waits for the rest.
LEMMA EdgeSend ==
    ASSUME TypeOK, CI, EdgeInv, ~closed, NEW taken \in Nat, NEW cut \in 0..taken,
           SendInLoop(taken, cut), UNCHANGED <<threadVars, shutWr, drained, peerVars>>
    PROVE  EdgeInv'
<1> DEFINE n == taken - cut
<1>0. n \in Nat /\ promised \in Nat
  BY DEF TypeOK
<1>1. CASE handleClose /\ UNCHANGED <<wire, streamVars>>
  <2>1. Room' = Room /\ closed'
    BY <1>1 DEF handleClose, Room
  <2>2. QED  BY <2>1 DEF EdgeInv
<1>2. ASSUME NEW k \in 0..n,
             k > 0 => MayWriteDirectly /\ k <= Room,
             wire' = wire \o Positions(promised, k),
             IF k < n
             THEN /\ output' = output \o Positions(promised + k, n - k)
                  /\ enableWriting(Room - k)
             ELSE UNCHANGED <<output, events, queued>>,
             UNCHANGED <<preFileBytes, pendingFile, fileOffset,
                         fileRemaining, stateVars>>
      PROVE  EdgeInv'
  <2>0. k \in Nat
    BY <1>0
  <2>1. Room' = Room - k
    <3>1. Positions(promised, k) \in Seq(Nat) /\ Len(Positions(promised, k)) = k
      BY <1>0, <2>0, PositionsProperties
    <3>2. drained' = drained
      OBVIOUS
    <3>3. QED  BY <1>2, <3>1, <3>2, RoomTaken
  <2>2. Room \in Nat /\ Room' \in Nat
    BY <1>2, <2>0, <2>1 DEF EdgeInv
  <2>3. /\ closed' = closed /\ pendingFile' = pendingFile /\ thread' = thread
        /\ inWrite' = inWrite /\ revents' = revents
        /\ Readable' = Readable /\ WriteFails' = WriteFails
    BY <1>2 DEF stateVars, threadVars, peerVars, Readable, WriteFails
  <2>4. CASE k < n
    <3>1. Update(events \cup kWriteEvent, Room - k, shutWr)
      BY <1>2, <2>4 DEF enableWriting
    <3>2. /\ events' = events \cup kWriteEvent /\ (queued => queued')
          /\ (Room - k > 0 \/ reset \/ shutWr => queued')
      BY <3>1, UpdateTells DEF kWriteEvent
    <3>3. Writable' => queued'
      BY <2>1, <2>3, <3>2 DEF Writable, WriteFails
    <3>4. QED  BY <2>2, <2>3, <3>2, <3>3 DEF EdgeInv
  <2>5. CASE ~(k < n)
    <3>1. UNCHANGED <<output, events, queued>>
      BY <1>2, <2>5
    <3>2. Backlog' = Backlog /\ (Writable' => Writable)
      BY <2>0, <2>1, <2>2, <2>3, <3>1 DEF Backlog, Writable
    <3>3. QED  BY <2>2, <2>3, <3>1, <3>2 DEF EdgeInv
  <2>6. QED  BY <2>4, <2>5
<1>3. QED
  BY <1>1, <1>2 DEF SendInLoop

\* A step that leaves the socket, the interest set and what is unsent as they are,
\* and takes nothing from epoll's list.
LEMMA EdgeKept ==
    ASSUME EdgeInv, UNCHANGED <<wire, drained, events, output, pendingFile, closed>>,
           UNCHANGED <<shutWr, rcv, fin, reset>>, queued => queued',
           ~closed => thread # "new" \/ thread' = "new",
           ~closed /\ Readable /\ thread \in {"new", "read", "callback"}
              => queued' \/ thread' \in {"new", "read", "callback"},
           ~closed /\ Backlog /\ Writable /\ inWrite => queued' \/ inWrite',
           ~closed /\ thread \in {"read", "callback"} /\ "OUT" \in revents
              => queued' \/ inWrite' \/ (thread' \in {"read", "callback"} /\ "OUT" \in revents')
    PROVE  EdgeInv'
<1>1. /\ Room' = Room /\ Readable' = Readable /\ Writable' = Writable
      /\ Backlog' = Backlog
  BY DEF Room, Readable, Writable, Backlog, WriteFails
<1>2. QED  BY <1>1 DEF EdgeInv

\* handleClose() ends it.
LEMMA EdgeClose ==
    ASSUME EdgeInv, handleClose, UNCHANGED <<wire, drained>>
    PROVE  EdgeInv'
<1>1. Room' = Room /\ closed'
  BY DEF handleClose, Room
<1>2. QED  BY <1>1 DEF EdgeInv

LEMMA EdgeApp ==
    ASSUME TypeOK, CI, EdgeInv, App
    PROVE  EdgeInv'
<1>1. ASSUME NEW n \in 1..MaxPromise, Send(n) PROVE EdgeInv'
  BY <1>1, BoundsAssumption, EdgeSend DEF Send
<1>2. ASSUME NEW n \in 1..MaxPromise, SendFileBuffered(n) PROVE EdgeInv'
  BY <1>2, BoundsAssumption, EdgeSend DEF SendFileBuffered
<1>3. ASSUME NEW n \in 1..MaxPromise, SendFile(n) PROVE EdgeInv'
  <2>1. /\ Update(events \cup kWriteEvent, Room, shutWr) /\ inWrite' /\ closed' = closed
        /\ thread' = thread
        /\ Room' = Room /\ Readable' = Readable
    BY <1>3 DEF SendFile, enableWriting, Room, Readable, stateVars, peerVars
  <2>2. events' = events \cup kWriteEvent /\ (queued => queued')
    BY <2>1, UpdateTells
  <2>3. QED  BY <2>1, <2>2 DEF EdgeInv
<1>4. CASE ShutdownWrite
  <2>1. /\ Update(events, Room, shutWr') /\ closed' = closed /\ thread' = thread
        /\ inWrite' = inWrite /\ revents' = revents
        /\ Room' = Room /\ Readable' = Readable /\ Backlog' = Backlog /\ reset' = reset
    BY <1>4
    DEF ShutdownWrite, Room, Readable, Backlog, sendVars, threadVars, peerVars
  <2>2. /\ events' = events /\ (queued => queued')
        /\ "OUT" \in events /\ (Room > 0 \/ reset \/ shutWr') => queued'
    BY <2>1, UpdateTells
  <2>3. ~closed /\ Backlog => "OUT" \in events
    BY DEF CI, UnsentIsAwaited
  <2>4. Writable' => Room > 0 \/ reset \/ shutWr'
    BY <2>1 DEF Writable, WriteFails
  <2>5. QED  BY <2>1, <2>2, <2>3, <2>4 DEF EdgeInv
<1>5. CASE ForceClose
  BY <1>5, EdgeClose DEF ForceClose
<1>6. QED  BY <1>1, <1>2, <1>3, <1>4, <1>5 DEF App

\* epoll_wait() hands out what is there; what was not there is not missed.
LEMMA EdgeDispatch ==
    ASSUME TypeOK, CI, EdgeInv, HandleEvent
    PROVE  EdgeInv'
<1> DEFINE ready == Ready(events, Room, shutWr)
<1>1. CASE "HUP" \in ready
  BY <1>1, EdgeClose DEF HandleEvent
<1>2. CASE "HUP" \notin ready
  <2>1. /\ thread = "loop" /\ ~closed /\ revents' = ready
        /\ thread' = IF "IN" \in ready THEN "read" ELSE "loop"
        /\ inWrite' = ("IN" \notin ready)
        /\ UNCHANGED <<events, sendVars, stateVars, shutWr, wire, drained, peerVars>>
    BY <1>2 DEF HandleEvent, Idle
  <2>2. /\ "IN" \in ready <=> "IN" \in events /\ Readable
        /\ "OUT" \in ready <=> "OUT" \in events /\ (Room > 0 \/ reset \/ shutWr)
    BY ReadyTells
  <2>3. /\ Room' = Room /\ Readable' = Readable /\ Writable' = Writable
        /\ Backlog' = Backlog /\ closed' = closed /\ events' = events
    BY <2>1 DEF Room, Readable, Writable, Backlog, WriteFails, sendVars, stateVars, peerVars
  <2>4. Backlog => "OUT" \in events
    BY <2>1 DEF CI, UnsentIsAwaited
  <2>5. "IN" \in events
    BY <2>1 DEF EdgeInv
  <2>6. Writable => Room > 0 \/ reset \/ shutWr
    BY DEF Writable, WriteFails
  <2> HIDE DEF ready
  <2>7. QED  BY <2>1, <2>2, <2>3, <2>4, <2>5, <2>6 DEF EdgeInv
<1>3. QED  BY <1>1, <1>2

\* A read frame ends when nothing is left to read, and goes on to the write bits.
LEMMA EdgeRead ==
    ASSUME TypeOK, CI, EdgeInv, handleRead
    PROVE  EdgeInv'
<1>1. CASE ReadSome
  <2>1. PICK k \in 1..rcv : rcv' = rcv - k
    BY <1>1 DEF ReadSome
  <2>2. rcv \in Nat /\ rcv > 0
    BY <2>1 DEF TypeOK
  <2>3. /\ Room' = Room /\ Writable' = Writable /\ Backlog' = Backlog
        /\ closed' = closed /\ events' = events /\ queued' = queued
        /\ inWrite' = inWrite /\ revents' = revents
        /\ thread = "read" /\ thread' = "callback"
    BY <1>1 DEF ReadSome, Room, Writable, Backlog, WriteFails, sendVars, stateVars
  <2>4. QED  BY <2>3 DEF EdgeInv
<1>2. CASE ReadDrained
  <2>1. ~Readable
    BY <1>2 DEF ReadDrained, Readable
  <2>2. /\ Room' = Room /\ Writable' = Writable /\ Backlog' = Backlog
        /\ Readable' = Readable
        /\ closed' = closed /\ events' = events /\ queued' = queued
        /\ thread = "read" /\ thread' = "loop" /\ inWrite' = ("OUT" \in revents)
    BY <1>2 DEF ReadDrained, LeaveRead, Room, Writable, Readable, Backlog, WriteFails,
       sendVars, peerVars
  <2>3. ~inWrite
    BY <2>2 DEF CI, ControlInv
  <2>4. QED  BY <2>1, <2>2, <2>3 DEF EdgeInv
<1>3. CASE ReadFailed
  BY <1>3, EdgeClose DEF ReadFailed
<1>4. CASE ReadAfterClose
  <2>1. Room' = Room /\ closed'
    BY <1>4 DEF ReadAfterClose, Room, stateVars
  <2>2. QED  BY <2>1 DEF EdgeInv
<1>5. QED  BY <1>1, <1>2, <1>3, <1>4 DEF handleRead

\* A write from the buffer or the file takes room, inside handleWrite().
LEMMA EdgeTaken ==
    ASSUME TypeOK, EdgeInv, NEW t \in Seq(Nat), wire' = wire \o t, Len(t) <= Room,
           drained' = drained, inWrite',
           UNCHANGED <<events, queued, closed, thread, rcv, fin, reset>>
    PROVE  EdgeInv'
<1>1. Room' = Room - Len(t) /\ Len(t) \in Nat
  BY RoomTaken
<1>2. Room' \in Nat /\ Readable' = Readable
  BY <1>1 DEF EdgeInv, Readable
<1>3. QED  BY <1>2 DEF EdgeInv

LEMMA EdgeFlush ==
    ASSUME TypeOK, EdgeInv, inWrite, NEW limit \in 0..Len(output), Flush(limit)
    PROVE  EdgeInv'
<1>1. PICK k \in 1..limit : k <= Room /\ wire' = wire \o Take(output, k)
  BY DEF Flush, Take
<1>2. output \in Seq(Nat) /\ k \in 0..Len(output)
  BY LenProperties DEF TypeOK
<1>3. Take(output, k) \in Seq(Nat) /\ Len(Take(output, k)) = k
  BY <1>2, Cut
<1>4. /\ drained' = drained /\ inWrite'
      /\ UNCHANGED <<events, queued, closed, thread, rcv, fin, reset>>
  BY DEF Flush, stateVars, threadVars, peerVars
<1>5. Len(Take(output, k)) <= Room
  BY <1>1, <1>3
<1>6. QED  BY <1>1, <1>3, <1>4, <1>5, EdgeTaken

LEMMA EdgeWrite ==
    ASSUME TypeOK, CI, EdgeInv, handleWrite
    PROVE  EdgeInv'
<1>1. CASE WriteError
  BY <1>1, EdgeClose DEF WriteError
<1>2. CASE WriteBlocked
  <2>1. ~Writable
    BY <1>2 DEF WriteBlocked, Writable
  <2>2. /\ UNCHANGED <<wire, drained, events, output, pendingFile, closed>>
        /\ UNCHANGED <<shutWr, rcv, fin, reset>>
        /\ UNCHANGED <<queued, thread, revents>>
    BY <1>2 DEF WriteBlocked, LeaveWrite, sendVars, stateVars, peerVars
  <2>3. QED  BY <2>1, <2>2, EdgeKept
<1>3. CASE WriteHead
  <2>1. inWrite /\ preFileBytes \in 0..Len(output) /\ Flush(preFileBytes)
    BY <1>3 DEF WriteHead, TypeOK
  <2>2. QED  BY <2>1, EdgeFlush
<1>4. CASE WriteTail
  <2>1. inWrite /\ Len(output) \in 0..Len(output) /\ Flush(Len(output))
    BY <1>4, LenProperties DEF WriteTail, TypeOK
  <2>2. QED  BY <2>1, EdgeFlush
<1>5. CASE SendFileSome
  <2>1. PICK k \in 1..fileRemaining :
            k <= Room /\ wire' = wire \o Positions(fileOffset - 1, k)
    BY <1>5 DEF SendFileSome
  <2>2. k \in Nat /\ fileOffset - 1 \in Nat
    BY DEF TypeOK
  <2> DEFINE t == Positions(fileOffset - 1, k)
  <2>3. t \in Seq(Nat) /\ Len(t) = k
    BY <2>2, PositionsProperties
  <2>4. /\ drained' = drained /\ inWrite'
        /\ UNCHANGED <<events, queued, closed, thread, rcv, fin, reset>>
    BY <1>5 DEF SendFileSome, stateVars, threadVars, peerVars
  <2>5. wire' = wire \o t /\ Len(t) <= Room
    BY <2>1, <2>3
  <2> HIDE DEF t
  <2>6. QED  BY <2>3, <2>4, <2>5, EdgeTaken
<1>6. CASE SendFileTruncated
  <2>1. /\ inWrite' /\ Room' = Room /\ Readable' = Readable
        /\ UNCHANGED <<events, queued, closed, thread>>
    BY <1>6 DEF SendFileTruncated, Room, Readable, stateVars, threadVars, peerVars
  <2>2. QED  BY <2>1 DEF EdgeInv
<1>7. CASE WriteDone
  <2>1. /\ Update(events \ kWriteEvent, Room, shutWr')
        /\ ~Backlog' /\ Room' = Room /\ Readable' = Readable
        /\ thread' = thread /\ closed' = closed
    BY <1>7
    DEF WriteDone, LeaveWrite, Backlog, Room, Readable, sendVars, stateVars, peerVars
  <2>2. events' = events \ kWriteEvent /\ (queued => queued')
    BY <2>1, UpdateTells
  <2>3. QED  BY <2>1, <2>2 DEF EdgeInv, kWriteEvent
<1>8. QED  BY <1>1, <1>2, <1>3, <1>4, <1>5, <1>6, <1>7 DEF handleWrite

\* What the peer does is an edge if it is awaited.
LEMMA EdgePeer ==
    ASSUME TypeOK, CI, EdgeInv, Peer
    PROVE  EdgeInv'
<1>0. thread # "new" /\ ~closed => "IN" \in events
  BY DEF EdgeInv
<1>1. CASE PeerSend
  <2>1. /\ Room' = Room /\ Writable' = Writable /\ Backlog' = Backlog
        /\ UNCHANGED <<closed, events, thread, inWrite, revents>>
        /\ queued' = (queued \/ "IN" \in events)
    BY <1>1 DEF PeerSend, Room, Writable, Backlog, WriteFails, sendVars, stateVars, threadVars
  <2>2. QED  BY <1>0, <2>1 DEF EdgeInv
<1>2. CASE PeerFin \/ PeerReset
  <2>1. /\ Room' = Room /\ Backlog' = Backlog
        /\ UNCHANGED <<closed, events, thread, inWrite, revents>>
        /\ queued' = (events # {})
    BY <1>2 DEF PeerFin, PeerReset, Room, Backlog, sendVars, stateVars, threadVars
  <2>2. ~closed /\ Backlog => "OUT" \in events
    BY DEF CI, UnsentIsAwaited
  <2>3. QED  BY <1>0, <2>1, <2>2 DEF EdgeInv
<1>3. CASE PeerDrain
  <2>1. PICK k \in 1..(Len(wire) - drained) : drained' = drained + k
    BY <1>3 DEF PeerDrain
  <2>2. /\ wire' = wire /\ Readable' = Readable /\ Backlog' = Backlog
        /\ WriteFails' = WriteFails
        /\ UNCHANGED <<closed, events, thread, inWrite, revents>>
        /\ queued' = (queued \/ (Room = 0 /\ "OUT" \in events))
    BY <1>3
    DEF PeerDrain, Readable, Backlog, WriteFails, sendVars, stateVars, threadVars, peerVars
  <2>3. Room \in Nat /\ Room' \in Nat
    BY <2>1, <2>2, RoomTyped DEF EdgeInv, Room
  <2>4. Room = 0 \/ Room > 0
    BY <2>3
  <2>5. ~closed /\ Backlog => "OUT" \in events
    BY DEF CI, UnsentIsAwaited
  <2>6. QED  BY <2>2, <2>3, <2>4, <2>5 DEF EdgeInv, Writable
<1>4. QED  BY <1>1, <1>2, <1>3 DEF Peer

LEMMA EdgeStep == TypeOK /\ CI /\ EdgeInv /\ [Next]_vars => EdgeInv'
<1> SUFFICES ASSUME TypeOK, CI, EdgeInv, [Next]_vars PROVE EdgeInv'
  OBVIOUS
<1>1. CASE Start
  <2>1. /\ Update(events \cup kReadEvent, Room, shutWr) /\ closed' = closed
        /\ thread = "new" /\ thread' = "loop" /\ reset' = reset /\ shutWr' = shutWr
        /\ Room' = Room /\ Readable' = Readable /\ Backlog' = Backlog
    BY <1>1 DEF Start, Room, Readable, Backlog, sendVars, peerVars
  <2>2. /\ events' = events \cup kReadEvent
        /\ Readable => queued'
        /\ "OUT" \in events /\ (Room > 0 \/ reset \/ shutWr) => queued'
    BY <2>1, UpdateTells DEF kReadEvent
  <2>3. ~closed /\ Backlog => "OUT" \in events
    BY DEF CI, UnsentIsAwaited
  <2>4. Writable' => Room > 0 \/ reset \/ shutWr
    BY <2>1 DEF Writable, WriteFails
  <2>5. QED  BY <2>1, <2>2, <2>3, <2>4 DEF EdgeInv, kReadEvent
<1>2. CASE App
  BY <1>2, EdgeApp
<1>3. CASE BeginFunctor \/ EndApp
  <2>1. /\ UNCHANGED <<wire, drained, events, output, pendingFile, closed>>
        /\ UNCHANGED <<shutWr, rcv, fin, reset>>
        /\ UNCHANGED <<queued, inWrite, revents>>
    BY <1>3 DEF BeginFunctor, EndApp, sendVars, stateVars, peerVars
  <2>2. /\ thread \notin {"new", "read"} /\ thread' # "new"
        /\ thread = "callback" => thread' = "read"
    BY <1>3 DEF BeginFunctor, EndApp, Idle, InApp
  <2>3. QED  BY <2>1, <2>2, EdgeKept
<1>4. CASE HandleEvent
  BY <1>4, EdgeDispatch
<1>5. CASE handleRead
  BY <1>5, EdgeRead
<1>6. CASE handleWrite
  BY <1>6, EdgeWrite
<1>7. CASE HandleIdleTimeout
  BY <1>7, EdgeClose DEF HandleIdleTimeout
<1>8. CASE Peer
  BY <1>8, EdgePeer
<1>9. CASE UNCHANGED vars
  <2>1. /\ UNCHANGED <<wire, drained, events, output, pendingFile, closed>>
        /\ UNCHANGED <<shutWr, rcv, fin, reset>>
        /\ UNCHANGED <<queued, inWrite, revents, thread>>
    BY <1>9 DEF vars, sendVars, stateVars, threadVars, peerVars
  <2>2. QED  BY <2>1, EdgeKept
<1>10. QED
  BY <1>1, <1>2, <1>3, <1>4, <1>5, <1>6, <1>7, <1>8, <1>9 DEF Next

\* Between two handlers, what there is to read, and room for what is unsent, will be
\* reported, with an interest set that is edge-triggered at some times and
\* level-triggered at others (Channel::enableWriting(), disableWriting(),
\* handleRead(), handleWrite()).
THEOREM EdgesArrive == Spec => []NoLostEdge
<1>1. Init => TypeOK /\ CI /\ EdgeInv
  BY TypeInit, ControlInit, EdgeInit
<1>2. (TypeOK /\ CI /\ EdgeInv) /\ [Next]_vars => (TypeOK /\ CI /\ EdgeInv)'
  BY TypeStep, ControlStep, EdgeStep
<1>3. TypeOK /\ CI /\ EdgeInv => NoLostEdge
  BY DEF EdgeInv, NoLostEdge, Idle, Readable, Writable
<1>4. QED  BY <1>1, <1>2, <1>3, PTL DEF Spec

-----------------------------------------------------------------------------
(* The abstract byte stream.                                               *)

\* The first k elements of an increasing sequence are k.
LEMMA FirstAreMany ==
    ASSUME NEW t \in Seq(Nat), Increasing(t), NEW k \in 0..Len(t)
    PROVE  Cardinality({t[j] : j \in 1..k}) = k
<1> DEFINE T == {t[j] : j \in 1..k}
           f == [j \in 1..k |-> t[j]]
<1>1. k \in Nat /\ Len(t) \in Nat /\ \A i \in 1..k : t[i] \in Nat /\ i \in 1..Len(t)
  BY LenProperties
<1>2. \A i, j \in 1..k : t[i] = t[j] => i = j
  <2> SUFFICES ASSUME NEW i \in 1..k, NEW j \in 1..k, t[i] = t[j] PROVE i = j
    OBVIOUS
  <2>1. /\ i < j => t[i] < t[j]
        /\ j < i => t[j] < t[i]
    BY <1>1 DEF Increasing
  <2>2. i \in Nat /\ j \in Nat /\ t[i] \in Nat /\ t[j] \in Nat
    BY <1>1
  <2>3. QED  BY <2>1, <2>2
<1>3. f \in [1..k -> T] /\ \A i \in 1..k : f[i] = t[i]
  OBVIOUS
<1>4. \A x \in T : \E j \in 1..k : f[j] = x
  OBVIOUS
<1> HIDE DEF f
<1>5. f \in Injection(1..k, T)
  BY <1>2, <1>3 DEF Injection, IsInjective
<1>6. f \in Surjection(1..k, T)
  BY <1>3, <1>4 DEF Surjection
<1> HIDE DEF T
<1>7. ExistsBijection(1..k, T)
  BY <1>5, <1>6 DEF ExistsBijection, Bijection
<1>8. IsFiniteSet(1..k) /\ Cardinality(1..k) = k
  BY <1>1, FS_Interval
<1>9. Cardinality(T) = Cardinality(1..k)
  BY <1>7, <1>8, FS_Bijection
<1>10. QED  BY <1>8, <1>9 DEF T

\* A set has as many elements in the abstract specification as here.
LEMMA SameCardinality == \A S : Stream!Cardinality(S) = Cardinality(S)
BY Zenon DEF Stream!Cardinality, Cardinality, Stream!IsFiniteSet, IsFiniteSet

\* The increasing sequence of the elements of a set is the only one.
LEMMA AscendingIsIncreasing ==
    ASSUME NEW t \in Seq(Nat), Increasing(t), NEW S,
           \A x : x \in S <=> \E i \in 1..Len(t) : t[i] = x
    PROVE  Stream!Ascending(S) = t
<1> DEFINE n == Len(t)
           Before(x) == {y \in S : y < x}
<1>0. n \in Nat /\ \A i \in 1..n : t[i] \in Nat
  BY LenProperties
<1>1. S = {t[j] : j \in 1..n}
  OBVIOUS
<1>2. Cardinality(S) = n
  <2>1. n \in 0..n
    BY <1>0
  <2>2. QED  BY <1>1, <2>1, FirstAreMany
<1>3. ASSUME NEW i \in 1..n PROVE Cardinality(Before(t[i])) = i - 1
  <2>1. i - 1 \in 0..n
    BY <1>0
  <2>2. ASSUME NEW j \in 1..n PROVE t[j] < t[i] <=> j \in 1..(i - 1)
    <3>1. /\ i < j => t[i] < t[j]
          /\ j < i => t[j] < t[i]
      BY DEF Increasing
    <3>2. i \in Nat /\ j \in Nat /\ t[i] \in Nat /\ t[j] \in Nat
      BY <1>0
    <3>3. QED  BY <3>1, <3>2
  <2>3. Before(t[i]) = {t[j] : j \in 1..(i - 1)}
    <3>1. \A j \in 1..(i - 1) : j \in 1..n
      BY <1>0
    <3>2. QED  BY <1>1, <2>2, <3>1
  <2>4. QED  BY <2>1, <2>3, FirstAreMany
<1>4. \A x \in S : Stream!Cardinality(Before(x)) = Cardinality(Before(x))
  BY SameCardinality, Zenon
<1>5. ASSUME NEW i \in 1..n
      PROVE  (CHOOSE x \in S : Stream!Cardinality(Before(x)) = i - 1) = t[i]
  <2>1. t[i] \in S /\ Stream!Cardinality(Before(t[i])) = i - 1
    BY <1>3, <1>4
  <2>2. PICK x \in S : x = CHOOSE y \in S : Stream!Cardinality(Before(y)) = i - 1
    BY <2>1
  <2>3. Cardinality(Before(x)) = i - 1
    BY <1>4, <2>1, <2>2
  <2>4. PICK j \in 1..n : x = t[j]
    OBVIOUS
  <2>5. i - 1 = j - 1
    BY <1>3, <2>3, <2>4
  <2>6. i = j
    BY <2>5
  <2>7. QED  BY <2>2, <2>4, <2>6
<1>6. Stream!Cardinality(S) = n
  BY <1>2, SameCardinality, Zenon
<1>7. Stream!Ascending(S) = [i \in 1..n |-> t[i]]
  BY <1>5, <1>6 DEF Stream!Ascending
<1>8. QED  BY <1>0, <1>7

-----------------------------------------------------------------------------
(* Where a promised byte is: on the wire, in the buffer, in the file, or it *)
(* was given up with the end of a file.                                    *)

On(s, b) == \E i \in 1..Len(s) : s[i] = b
InFile(b) == pendingFile /\ fileOffset <= b /\ b < fileOffset + fileRemaining

KeptInv ==
    /\ lost \subseteq 1..promised
    /\ \A b \in lost : ~On(wire, b) /\ ~On(output, b) /\ ~InFile(b)
    /\ ~closed => \A b \in 1..promised :
          b \in lost \/ On(wire, b) \/ On(output, b) \/ InFile(b)

LEMMA OnJoin ==
    ASSUME NEW s \in Seq(Nat), NEW t \in Seq(Nat)
    PROVE  \A b : On(s \o t, b) <=> On(s, b) \/ On(t, b)
<1> DEFINE e == s \o t
           L == Len(s)
           k == Len(t)
<1>1. /\ Len(e) = L + k /\ L \in Nat /\ k \in Nat
      /\ \A i \in 1..(L + k) : e[i] = IF i <= L THEN s[i] ELSE t[i - L]
  BY JoinPoints
<1> HIDE DEF e
<1> SUFFICES ASSUME NEW b PROVE On(e, b) <=> On(s, b) \/ On(t, b)
  BY DEF e
<1>2. ASSUME On(e, b) PROVE On(s, b) \/ On(t, b)
  <2>1. PICK i \in 1..(L + k) : e[i] = b
    BY <1>1, <1>2 DEF On
  <2>2. CASE i <= L
    <3>1. i \in 1..L /\ s[i] = b
      BY <1>1, <2>1, <2>2
    <3>2. QED  BY <3>1 DEF On
  <2>3. CASE ~(i <= L)
    <3>1. i - L \in 1..k /\ t[i - L] = b
      BY <1>1, <2>1, <2>3
    <3>2. QED  BY <3>1 DEF On
  <2>4. QED  BY <2>2, <2>3
<1>3. ASSUME On(s, b) PROVE On(e, b)
  <2>1. PICK i \in 1..L : s[i] = b
    BY <1>3 DEF On
  <2>2. i \in 1..(L + k) /\ e[i] = b
    BY <1>1, <2>1
  <2>3. QED  BY <1>1, <2>2 DEF On
<1>4. ASSUME On(t, b) PROVE On(e, b)
  <2>1. PICK i \in 1..k : t[i] = b
    BY <1>4 DEF On
  <2>2. L + i \in 1..(L + k) /\ ~(L + i <= L) /\ (L + i) - L = i
    BY <1>1
  <2>3. e[L + i] = b
    BY <1>1, <2>1, <2>2
  <2>4. QED  BY <1>1, <2>2, <2>3 DEF On
<1>5. QED  BY <1>2, <1>3, <1>4

LEMMA OnCut ==
    ASSUME NEW s \in Seq(Nat), NEW k \in 0..Len(s)
    PROVE  \A b : On(s, b) <=> On(Take(s, k), b) \/ On(Drop(s, k), b)
<1> DEFINE u == Take(s, k)
           v == Drop(s, k)
           n == Len(s)
<1>1. /\ Len(u) = k /\ Len(v) = n - k /\ k \in Nat /\ n \in Nat /\ k <= n
      /\ \A i \in 1..k : u[i] = s[i]
      /\ \A i \in 1..(n - k) : v[i] = s[k + i]
  BY Cut
<1> HIDE DEF u, v
<1> SUFFICES ASSUME NEW b PROVE On(s, b) <=> On(u, b) \/ On(v, b)
  BY DEF u, v
<1>2. ASSUME On(s, b) PROVE On(u, b) \/ On(v, b)
  <2>1. PICK i \in 1..n : s[i] = b
    BY <1>2 DEF On
  <2>2. CASE i <= k
    <3>1. i \in 1..k /\ u[i] = b
      BY <1>1, <2>1, <2>2
    <3>2. QED  BY <1>1, <3>1 DEF On
  <2>3. CASE ~(i <= k)
    <3>1. i - k \in 1..(n - k) /\ k + (i - k) = i
      BY <1>1, <2>1, <2>3
    <3>2. v[i - k] = b
      BY <1>1, <2>1, <3>1
    <3>3. QED  BY <1>1, <3>1, <3>2 DEF On
  <2>4. QED  BY <2>2, <2>3
<1>3. ASSUME On(u, b) PROVE On(s, b)
  <2>1. PICK i \in 1..k : s[i] = b
    BY <1>1, <1>3 DEF On
  <2>2. QED  BY <1>1, <2>1 DEF On
<1>4. ASSUME On(v, b) PROVE On(s, b)
  <2>1. PICK i \in 1..(n - k) : s[k + i] = b
    BY <1>1, <1>4 DEF On
  <2>2. k + i \in 1..n
    BY <1>1
  <2>3. QED  BY <2>1, <2>2 DEF On
<1>5. QED  BY <1>2, <1>3, <1>4

LEMMA OnPositions ==
    ASSUME NEW from \in Nat, NEW n \in Nat
    PROVE  \A b : On(Positions(from, n), b) <=> b \in (from + 1)..(from + n)
<1> DEFINE t == Positions(from, n)
<1>1. Len(t) = n /\ \A i \in 1..n : t[i] = from + i
  BY PositionsProperties
<1> HIDE DEF t
<1> SUFFICES ASSUME NEW b PROVE On(t, b) <=> b \in (from + 1)..(from + n)
  BY DEF t
<1>2. ASSUME On(t, b) PROVE b \in (from + 1)..(from + n)
  BY <1>1, <1>2 DEF On
<1>3. ASSUME b \in (from + 1)..(from + n) PROVE On(t, b)
  <2>1. b - from \in 1..n /\ from + (b - from) = b
    BY <1>3
  <2>2. t[b - from] = b
    BY <1>1, <2>1
  <2>3. QED  BY <1>1, <2>1, <2>2 DEF On
<1>4. QED  BY <1>2, <1>3

LEMMA OnNothing == \A b : ~On(<<>>, b)
BY EmptySeq DEF On

LEMMA OnBetween ==
    ASSUME NEW s, NEW a, NEW c, Between(s, a, c)
    PROVE  \A b : On(s, b) => a <= b /\ b <= c
BY DEF On, Between, Window

LEMMA KeptInit == Init => KeptInv
BY OnNothing DEF Init, KeptInv, InFile

\* What is sent goes on the wire or into the buffer, and only what is cut is lost.
LEMMA KeptTaking ==
    ASSUME TypeOK, OrderInv, KeptInv, NEW taken \in Nat, NEW cut \in 0..taken,
           NEW k \in 0..(taken - cut), Taking(taken, cut, k)
    PROVE  KeptInv'
<1> DEFINE n == taken - cut
           direct == Positions(promised, k)
           rest == Positions(promised + k, n - k)
<1>0. /\ n \in Nat /\ k \in Nat /\ n - k \in Nat /\ promised \in Nat /\ n <= taken
      /\ promised + k \in Nat /\ wire \in Seq(Nat) /\ output \in Seq(Nat)
  BY DEF TypeOK
<1>1. direct \in Seq(Nat) /\ rest \in Seq(Nat) /\ Len(rest) = n - k
  BY <1>0, PositionsProperties
<1>2. output' = output \o rest
  <2>1. CASE k < n
    BY <2>1 DEF Taking
  <2>2. CASE k >= n
    BY <1>0, <1>1, <2>2, ConcatEmptySeq, EmptySeq DEF Taking
  <2>3. QED  BY <1>0, <2>1, <2>2
<1>3. /\ wire' = wire \o direct /\ promised' = promised + taken
      /\ lost' = lost \cup ((promised + n + 1)..(promised + taken))
      /\ UNCHANGED <<pendingFile, fileOffset, fileRemaining, closed>>
  BY DEF Taking
<1>4. /\ \A b : On(direct, b) <=> b \in (promised + 1)..(promised + k)
      /\ \A b : On(rest, b) <=> b \in (promised + k + 1)..(promised + k + (n - k))
  BY <1>0, OnPositions
<1> HIDE DEF direct, rest
<1>5. /\ \A b : On(wire', b) <=> On(wire, b) \/ b \in (promised + 1)..(promised + k)
      /\ \A b : On(output', b) <=> On(output, b) \/ b \in (promised + k + 1)..(promised + n)
  <2>1. promised + k + (n - k) = promised + n
    BY <1>0
  <2>2. \A b : On(wire', b) <=> On(wire, b) \/ On(direct, b)
    BY <1>0, <1>1, <1>3, OnJoin
  <2>3. \A b : On(output', b) <=> On(output, b) \/ On(rest, b)
    BY <1>0, <1>1, <1>2, OnJoin
  <2>4. QED  BY <1>4, <2>1, <2>2, <2>3
<1>6. \A b : InFile(b)' <=> InFile(b)
  BY <1>3 DEF InFile
<1>7. \A b : (On(wire, b) \/ On(output, b)) => b <= promised
  <2>1. Between(wire, 1, promised) /\ Between(output, 1, promised)
    BY DEF OrderInv, BufferInv
  <2>2. QED  BY <2>1, OnBetween
<1>8. \A b \in Nat : InFile(b) => b <= promised
  BY <1>0 DEF InFile, OrderInv, FileInv, TypeOK
<1>9. lost' \subseteq 1..promised'
  BY <1>0, <1>3 DEF KeptInv
<1> HIDE DEF n
<1>10. ASSUME NEW b \in lost' PROVE ~On(wire', b) /\ ~On(output', b) /\ ~InFile(b)'
  <2>1. CASE b \in lost
    <3>1. b \in 1..promised /\ ~On(wire, b) /\ ~On(output, b) /\ ~InFile(b)
      BY <2>1 DEF KeptInv
    <3>2. b \notin (promised + 1)..(promised + k) /\ b \notin (promised + k + 1)..(promised + n)
      BY <1>0, <3>1
    <3>3. QED  BY <1>5, <1>6, <3>1, <3>2
  <2>2. CASE b \in (promised + n + 1)..(promised + taken)
    <3>1. b \in Nat /\ ~(b <= promised) /\ k <= n
      BY <1>0, <2>2
    <3>2. b \notin (promised + 1)..(promised + k) /\ b \notin (promised + k + 1)..(promised + n)
      BY <1>0, <2>2, <3>1
    <3>3. QED  BY <1>5, <1>6, <1>7, <1>8, <3>1, <3>2
  <2>3. QED  BY <1>3, <2>1, <2>2
<1>11. ASSUME ~closed', NEW b \in 1..promised'
       PROVE  b \in lost' \/ On(wire', b) \/ On(output', b) \/ InFile(b)'
  <2>1. CASE b \in 1..promised
    BY <1>3, <1>5, <1>6, <1>11, <2>1 DEF KeptInv
  <2>2. CASE b \notin 1..promised
    <3>1. \/ b \in (promised + 1)..(promised + k) \/ b \in (promised + k + 1)..(promised + n)
          \/ b \in (promised + n + 1)..(promised + taken)
      BY <1>0, <1>3, <2>2
    <3>2. QED  BY <1>3, <1>5, <3>1
  <2>3. QED  BY <2>1, <2>2
<1>12. QED  BY <1>9, <1>10, <1>11 DEF KeptInv

\* A file that is sent holds the bytes it promises.
LEMMA KeptSendFile ==
    ASSUME TypeOK, OrderInv, KeptInv, NEW n \in Nat \ {0}, SendFile(n)
    PROVE  KeptInv'
<1>1. /\ promised' = promised + n /\ ~pendingFile /\ pendingFile'
      /\ fileOffset' = promised + 1 /\ fileRemaining' = n
      /\ UNCHANGED <<wire, output, lost, closed>> /\ promised \in Nat
  BY DEF SendFile, stateVars, TypeOK
<1>2. /\ \A b : ~InFile(b)
      /\ \A b \in Int : InFile(b)' <=> promised + 1 <= b /\ b <= promised + n
  BY <1>1 DEF InFile
<1>3. ASSUME NEW b \in 1..promised' PROVE b \in 1..promised \/ InFile(b)'
  BY <1>1, <1>2
<1>4. ASSUME NEW b \in lost PROVE b \in 1..promised' /\ ~InFile(b)'
  BY <1>1, <1>2 DEF KeptInv
<1>5. QED  BY <1>1, <1>2, <1>3, <1>4 DEF KeptInv, On

\* A write from the buffer moves bytes to the wire.
LEMMA KeptFlush ==
    ASSUME TypeOK, KeptInv, NEW limit \in 0..Len(output), Flush(limit)
    PROVE  KeptInv'
<1>1. PICK k \in 1..limit : wire' = wire \o Take(output, k) /\ output' = Drop(output, k)
  BY DEF Flush, Take, Drop
<1>2. output \in Seq(Nat) /\ wire \in Seq(Nat) /\ k \in 0..Len(output)
  BY LenProperties DEF TypeOK
<1>3. Take(output, k) \in Seq(Nat)
  BY <1>2, Cut
<1>4. \A b : On(wire', b) <=> On(wire, b) \/ On(Take(output, k), b)
  BY <1>1, <1>2, <1>3, OnJoin
<1>5. \A b : On(output, b) <=> On(Take(output, k), b) \/ On(output', b)
  BY <1>1, <1>2, OnCut
<1>6. UNCHANGED <<promised, lost, closed>> /\ \A b : InFile(b)' <=> InFile(b)
  BY DEF Flush, streamVars, stateVars, InFile
<1>7. QED  BY <1>4, <1>5, <1>6 DEF KeptInv

\* So does sendfile() from the file.
LEMMA KeptFileSome ==
    ASSUME TypeOK, OrderInv, KeptInv, SendFileSome
    PROVE  KeptInv'
<1>1. PICK k \in 1..fileRemaining :
          /\ wire' = wire \o Positions(fileOffset - 1, k)
          /\ fileOffset' = fileOffset + k
          /\ fileRemaining' = fileRemaining - k
          /\ pendingFile' = (k < fileRemaining)
  BY DEF SendFileSome
<1>2. /\ fileOffset \in Nat \ {0} /\ fileRemaining \in Nat /\ k \in Nat
      /\ wire \in Seq(Nat) /\ fileOffset - 1 \in Nat /\ pendingFile
      /\ promised \in Nat
      /\ UNCHANGED <<output, promised, lost, closed>>
  BY DEF TypeOK, SendFileSome, streamVars, stateVars
<1>3. Positions(fileOffset - 1, k) \in Seq(Nat)
  BY <1>2, PositionsProperties
<1>4. \A b : On(wire', b) <=> On(wire, b) \/ b \in fileOffset..(fileOffset + k - 1)
  <2>1. fileOffset - 1 + 1 = fileOffset /\ fileOffset - 1 + k = fileOffset + k - 1
    BY <1>2
  <2>2. \A b : On(Positions(fileOffset - 1, k), b)
                  <=> b \in (fileOffset - 1 + 1)..(fileOffset - 1 + k)
    BY <1>2, OnPositions
  <2>3. \A b : On(wire', b) <=> On(wire, b) \/ On(Positions(fileOffset - 1, k), b)
    BY <1>1, <1>2, <1>3, OnJoin
  <2>4. QED  BY <2>1, <2>2, <2>3
<1>5. ASSUME NEW b \in Nat
      PROVE  InFile(b) <=> b \in fileOffset..(fileOffset + k - 1) \/ InFile(b)'
  <2>1. InFile(b) <=> fileOffset <= b /\ b < fileOffset + fileRemaining
    BY <1>2 DEF InFile
  <2>2. CASE k < fileRemaining
    <3>1. InFile(b)' <=> fileOffset + k <= b /\ b < fileOffset + k + (fileRemaining - k)
      BY <1>1, <2>2 DEF InFile
    <3>2. QED  BY <1>2, <2>1, <2>2, <3>1
  <2>3. CASE ~(k < fileRemaining)
    <3>1. ~InFile(b)' /\ k = fileRemaining
      BY <1>1, <1>2, <2>3 DEF InFile
    <3>2. QED  BY <1>2, <2>1, <3>1
  <2>4. QED  BY <2>2, <2>3
<1>6. lost \subseteq Nat /\ 1..promised \subseteq Nat
  BY <1>2 DEF TypeOK
<1>7. output' = output /\ lost' = lost /\ promised' = promised /\ closed' = closed
  BY <1>2
<1>8. ASSUME NEW b \in lost' PROVE ~On(wire', b) /\ ~On(output', b) /\ ~InFile(b)'
  BY <1>4, <1>5, <1>6, <1>7 DEF KeptInv
<1>9. ASSUME ~closed', NEW b \in 1..promised'
      PROVE  b \in lost' \/ On(wire', b) \/ On(output', b) \/ InFile(b)'
  BY <1>4, <1>5, <1>6, <1>7, <1>9 DEF KeptInv
<1>10. QED  BY <1>7, <1>8, <1>9 DEF KeptInv

\* What is missing from a file is given up.
LEMMA KeptFileTruncated ==
    ASSUME TypeOK, OrderInv, KeptInv, SendFileTruncated
    PROVE  KeptInv'
<1>1. /\ lost' = lost \cup (fileOffset..(fileOffset + fileRemaining - 1))
      /\ ~pendingFile' /\ pendingFile /\ preFileBytes = 0
      /\ UNCHANGED <<wire, output, promised, closed>>
      /\ fileOffset \in Nat \ {0} /\ fileRemaining \in Nat /\ promised \in Nat
      /\ wire \in Seq(Nat) /\ output \in Seq(Nat)
  BY DEF SendFileTruncated, stateVars, TypeOK
<1>2. /\ fileOffset + fileRemaining <= promised + 1
      /\ Between(wire, 1, fileOffset - 1)
      /\ Between(output, fileOffset + fileRemaining, promised)
  BY <1>1 DEF OrderInv, FileInv, Between
<1>3. /\ \A b : On(wire, b) => b <= fileOffset - 1
      /\ \A b : On(output, b) => fileOffset + fileRemaining <= b
  BY <1>2, OnBetween
<1>4. \A b : ~InFile(b)'
  BY <1>1 DEF InFile
<1>5. ASSUME NEW b \in fileOffset..(fileOffset + fileRemaining - 1)
      PROVE  ~On(wire, b) /\ ~On(output, b) /\ b \in 1..promised
  BY <1>1, <1>2, <1>3
<1>6. \A b \in 1..promised : InFile(b) => b \in fileOffset..(fileOffset + fileRemaining - 1)
  BY <1>1 DEF InFile
<1>7. wire' = wire /\ output' = output /\ promised' = promised /\ closed' = closed
  BY <1>1
<1>8. lost' \subseteq 1..promised'
  BY <1>1, <1>5, <1>7 DEF KeptInv
<1>9. ASSUME NEW b \in lost' PROVE ~On(wire', b) /\ ~On(output', b) /\ ~InFile(b)'
  BY <1>1, <1>4, <1>5, <1>7 DEF KeptInv
<1>10. ASSUME ~closed', NEW b \in 1..promised'
       PROVE  b \in lost' \/ On(wire', b) \/ On(output', b) \/ InFile(b)'
  BY <1>1, <1>6, <1>7, <1>10 DEF KeptInv
<1>11. QED  BY <1>8, <1>9, <1>10 DEF KeptInv

LEMMA KeptStep ==
    ASSUME TypeOK, OrderInv, KeptInv, BytesStep
    PROVE  KeptInv'
<1>1. CASE BytesUntouched
  BY <1>1 DEF BytesUntouched, KeptInv, On, InFile
<1>2. CASE Closing
  BY <1>2 DEF Closing, handleClose, KeptInv, On, InFile
<1>3. ASSUME NEW taken \in 1..MaxPromise, NEW cut \in 0..taken,
             NEW k \in 0..(taken - cut), Taking(taken, cut, k)
      PROVE  KeptInv'
  BY <1>3, BoundsAssumption, KeptTaking
<1>4. ASSUME NEW n \in 1..MaxPromise, SendFile(n) PROVE KeptInv'
  BY <1>4, BoundsAssumption, KeptSendFile
<1>5. CASE WriteHead \/ WriteTail
  <2>1. PICK limit \in 0..Len(output) : Flush(limit)
    BY <1>5, LenProperties DEF WriteHead, WriteTail, TypeOK
  <2>2. QED  BY <2>1, KeptFlush
<1>6. CASE SendFileSome
  BY <1>6, KeptFileSome
<1>7. CASE SendFileTruncated
  BY <1>7, KeptFileTruncated
<1>8. QED
  BY <1>1, <1>2, <1>3, <1>4, <1>5, <1>6, <1>7 DEF BytesStep

-----------------------------------------------------------------------------
(* The connection implements the byte stream.                              *)

\* What an open connection adds to the wire are the next bytes that are not lost.
LEMMA GrowthAdvances ==
    ASSUME TypeOK, TypeOK', OrderInv, OrderInv', KeptInv', ~closed, ~closed',
           NEW t \in Seq(Nat), wire' = wire \o t, promised' >= promised, lost \subseteq lost'
    PROVE  Stream!Advance
<1> DEFINE n == Len(wire)
           k == Len(t)
           c == Stream!Cursor
           upto == IF k = 0 THEN c ELSE t[k]
           S == ((c + 1)..upto) \ lost'
<1>0. /\ wire \in Seq(Nat) /\ wire' \in Seq(Nat) /\ n \in Nat /\ k \in Nat
      /\ promised \in Nat /\ promised' \in Nat /\ Len(wire') = n + k
      /\ \A i \in 1..(n + k) : wire'[i] = IF i <= n THEN wire[i] ELSE t[i - n]
      /\ \A i \in 1..n : wire[i] \in Nat
      /\ \A i \in 1..k : t[i] \in Nat
  BY JoinPoints DEF TypeOK
<1>1. /\ \A i \in 1..n : wire[i] \in 1..promised /\ wire[i] = wire'[i]
      /\ \A i \in 1..k : t[i] \in 1..promised' /\ t[i] = wire'[n + i]
  <2>1. /\ \A i \in 1..n : 1 <= wire[i] /\ wire[i] <= promised
        /\ \A i \in 1..(n + k) : 1 <= wire'[i] /\ wire'[i] <= promised'
    BY <1>0 DEF OrderInv, BufferInv, Between, Window
  <2>2. \A i \in 1..n : i \in 1..(n + k) /\ i <= n
    BY <1>0
  <2>3. \A i \in 1..k : n + i \in 1..(n + k) /\ ~(n + i <= n) /\ (n + i) - n = i
    BY <1>0
  <2>4. ASSUME NEW i \in 1..n PROVE wire[i] \in 1..promised /\ wire[i] = wire'[i]
    <3>1. wire[i] \in Nat /\ 1 <= wire[i] /\ wire[i] <= promised
      BY <1>0, <2>1
    <3>2. wire[i] = wire'[i]
      BY <1>0, <2>2
    <3> HIDE DEF n
    <3>3. QED  BY <1>0, <3>1, <3>2
  <2>5. ASSUME NEW i \in 1..k PROVE t[i] \in 1..promised' /\ t[i] = wire'[n + i]
    <3> HIDE DEF n, k
    <3>1. n + i \in 1..(n + k) /\ ~(n + i <= n) /\ (n + i) - n = i
      BY <2>3
    <3>2. wire'[n + i] = t[i]
      BY <1>0, <3>1
    <3>3. 1 <= wire'[n + i] /\ wire'[n + i] <= promised'
      BY <2>1, <3>1
    <3>4. t[i] \in Nat
      BY <1>0
    <3>5. QED  BY <1>0, <3>2, <3>3, <3>4
  <2> HIDE DEF n, k
  <2>6. QED  BY <2>4, <2>5
<1>2. \A i, j \in 1..(n + k) : i < j => wire'[i] < wire'[j]
  BY <1>0 DEF OrderInv, BufferInv, Increasing
<1>3. c \in 0..promised /\ (n = 0 => c = 0) /\ (n > 0 => c = wire[n])
  <2>1. n = 0 <=> wire = <<>>
    BY <1>0, EmptySeq
  <2>2. CASE n = 0
    BY <1>0, <2>1, <2>2 DEF Stream!Cursor
  <2>3. CASE n > 0
    <3>1. n \in 1..n
      BY <1>0, <2>3
    <3>2. c = wire[n]
      BY <2>1, <2>3 DEF Stream!Cursor, Stream!Last
    <3>3. QED  BY <1>0, <1>1, <2>3, <3>1, <3>2
  <2>4. QED  BY <1>0, <2>2, <2>3
<1> HIDE DEF n, k, c
<1>4. \A i \in 1..n : wire[i] <= c
  <2> SUFFICES ASSUME NEW i \in 1..n PROVE wire[i] <= c
    OBVIOUS
  <2>1. /\ n \in 1..n /\ i \in 1..(n + k) /\ n \in 1..(n + k) /\ n > 0
        /\ i < n \/ i = n
    BY <1>0
  <2>2. wire[i] \in Nat /\ wire[n] \in Nat /\ wire[i] = wire'[i] /\ wire[n] = wire'[n]
    BY <1>0, <1>1, <2>1
  <2>3. i < n => wire'[i] < wire'[n]
    BY <1>2, <2>1
  <2>4. wire[n] = c
    BY <1>3, <2>1
  <2>5. CASE i < n
    <3>1. wire[i] < wire[n]
      BY <2>2, <2>3, <2>5
    <3>2. wire[i] < c /\ wire[i] \in Nat /\ c \in Nat
      BY <1>3, <2>2, <2>4, <3>1, <1>0
    <3>3. QED  BY <3>2
  <2>6. CASE i = n
    <3>1. wire[i] = c /\ wire[i] \in Nat
      BY <2>2, <2>4, <2>6, Zenon
    <3>2. c <= c
      BY <2>2, <2>4
    <3>3. QED  BY <3>1, <3>2, Zenon
  <2>7. QED  BY <2>1, <2>5, <2>6
<1>5. \A i \in 1..k : c < t[i]
  <2> SUFFICES ASSUME NEW i \in 1..k PROVE c < t[i]
    OBVIOUS
  <2>1. t[i] \in 1..promised' /\ t[i] = wire'[n + i] /\ n + i \in 1..(n + k)
    BY <1>0, <1>1
  <2>2. CASE n = 0
    <3>1. c = 0 /\ 1 <= t[i] /\ t[i] \in Nat
      BY <1>0, <1>3, <2>1, <2>2
    <3>2. QED  BY <3>1
  <2>3. CASE n > 0
    <3>1. n \in 1..n /\ n \in 1..(n + k) /\ n < n + i
      BY <1>0, <2>3
    <3>2. c = wire'[n]
      BY <1>1, <1>3, <2>3, <3>1
    <3>3. QED  BY <1>2, <2>1, <3>1, <3>2
  <2>4. QED  BY <1>0, <2>2, <2>3
<1>6. Increasing(t)
  <2> SUFFICES ASSUME NEW i \in 1..k, NEW j \in 1..k, i < j PROVE t[i] < t[j]
    BY DEF Increasing, k
  <2>1. n + i \in 1..(n + k) /\ n + j \in 1..(n + k) /\ n + i < n + j
    BY <1>0
  <2>2. QED  BY <1>1, <1>2, <2>1
<1>7. upto \in c..promised'
  <2>1. CASE k = 0
    BY <1>0, <1>3, <2>1
  <2>2. CASE k # 0
    <3>1. k \in 1..k
      BY <1>0, <2>2
    <3>2. QED  BY <1>0, <1>1, <1>3, <1>5, <2>2, <3>1
  <2>3. QED  BY <2>1, <2>2
<1>8. \A i \in 1..k : t[i] <= upto
  <2> SUFFICES ASSUME NEW i \in 1..k PROVE t[i] <= t[k]
    BY <1>0
  <2>1. k \in 1..k /\ (i < k \/ i = k)
    BY <1>0
  <2>2. t[i] \in Nat /\ t[k] \in Nat
    BY <1>0, <2>1
  <2>3. i < k => t[i] < t[k]
    BY <1>6, <2>1 DEF Increasing, k
  <2>4. QED  BY <2>1, <2>2, <2>3
<1>9. ASSUME NEW i \in 1..k PROVE t[i] \in S
  <2>1. t[i] \in (c + 1)..upto
    <3>1. t[i] \in Nat /\ c < t[i] /\ t[i] <= upto
      BY <1>0, <1>5, <1>8
    <3>2. c \in Nat /\ upto \in Nat
      BY <1>0, <1>3, <1>7
    <3> HIDE DEF upto
    <3>3. QED  BY <3>1, <3>2
  <2>2. On(wire', t[i])
    <3>1. n + i \in 1..(n + k) /\ wire'[n + i] = t[i]
      BY <1>0, <1>1
    <3>2. QED  BY <1>0, <3>1 DEF On
  <2>3. t[i] \notin lost'
    BY <2>2 DEF KeptInv
  <2>4. QED  BY <2>1, <2>3
<1>10. ASSUME NEW x \in S PROVE \E i \in 1..k : t[i] = x
  <2>1. k \in 1..k /\ x \in 1..promised' /\ x \notin lost' /\ c < x /\ x <= t[k]
    BY <1>0, <1>3, <1>7
  <2>2. n + k \in 1..(n + k) /\ wire'[n + k] = t[k]
    BY <1>0, <1>1, <2>1
  <2>3. ~On(output', x)
    <3>1. SUFFICES ASSUME NEW j \in 1..Len(output'), output'[j] = x PROVE FALSE
      BY DEF On
    <3>2. wire'[n + k] < output'[j]
      BY <1>0, <2>2 DEF OrderInv, BufferInv, Below
    <3>3. t[k] \in Nat
      BY <1>0, <2>1
    <3>4. QED  BY <2>1, <2>2, <3>1, <3>2, <3>3
  <2>4. ~InFile(x)'
    <3>1. SUFFICES ASSUME pendingFile', fileOffset' <= x PROVE FALSE
      BY DEF InFile
    <3>2. wire'[n + k] <= fileOffset' - 1
      BY <1>0, <2>2, <3>1 DEF OrderInv, FileInv, Between, Window
    <3>3. t[k] \in Nat /\ fileOffset' \in Nat
      BY <1>0, <2>1 DEF TypeOK
    <3>4. QED  BY <2>1, <2>2, <3>1, <3>2, <3>3
  <2>5. PICK j \in 1..(n + k) : wire'[j] = x
    BY <1>0, <2>1, <2>3, <2>4 DEF KeptInv, On
  <2>6. ~(j <= n)
    <3>1. SUFFICES ASSUME j \in 1..n PROVE FALSE
      BY <1>0
    <3>2. x <= c /\ x \in Nat
      <4>1. wire[j] = x /\ wire[j] <= c /\ wire[j] \in Nat
        BY <1>0, <1>1, <1>4, <2>5, <3>1
      <4>2. QED  BY <4>1
    <3>3. QED  BY <1>3, <2>1, <3>2
  <2>7. j - n \in 1..k /\ n + (j - n) = j
    BY <1>0, <2>6
  <2>8. t[j - n] = x
    BY <1>1, <2>5, <2>7
  <2>9. QED  BY <2>7, <2>8
<1> HIDE DEF S, upto
<1>11. \A x : x \in S <=> \E i \in 1..Len(t) : t[i] = x
  BY <1>9, <1>10 DEF k
<1>12. Stream!Ascending(S) = t
  BY <1>6, <1>11, AscendingIsIncreasing
<1>13. wire' = wire \o Stream!Ascending(((c + 1)..upto) \ lost')
  BY <1>12 DEF S
<1>14. lost' \subseteq 1..promised'
  BY DEF KeptInv
<1>15. QED
  BY <1>7, <1>13, <1>14, Zenon DEF Stream!Advance, c

\* A step on the bytes adds something to the wire, or nothing, unless it closes.
LEMMA WireGrows ==
    ASSUME TypeOK, BytesStep, ~closed
    PROVE  \/ Closing
           \/ /\ closed' = closed /\ promised' >= promised /\ lost \subseteq lost'
              /\ \E t \in Seq(Nat) : wire' = wire \o t
<1>0. /\ wire \in Seq(Nat) /\ output \in Seq(Nat) /\ promised \in Nat
      /\ fileOffset \in Nat \ {0} /\ wire \o <<>> = wire /\ <<>> \in Seq(Nat)
  BY ConcatEmptySeq DEF TypeOK
<1>1. CASE BytesUntouched
  <2>1. /\ wire' = wire \o <<>> /\ promised' = promised
        /\ closed' = closed /\ lost' = lost
    BY <1>0, <1>1 DEF BytesUntouched
  <2>2. promised' >= promised /\ lost \subseteq lost'
    BY <1>0, <2>1
  <2>3. QED  BY <1>0, <2>1, <2>2, Zenon
<1>2. CASE Closing
  BY <1>2
<1>3. ASSUME NEW taken \in 1..MaxPromise, NEW cut \in 0..taken,
             NEW k \in 0..(taken - cut), Taking(taken, cut, k)
      PROVE  /\ closed' = closed /\ promised' >= promised /\ lost \subseteq lost'
             /\ \E t \in Seq(Nat) : wire' = wire \o t
  <2>1. taken \in Nat /\ k \in Nat
    BY BoundsAssumption
  <2>2. Positions(promised, k) \in Seq(Nat)
    BY <1>0, <2>1, PositionsProperties
  <2>3. /\ wire' = wire \o Positions(promised, k) /\ promised' = promised + taken
        /\ closed' = closed /\ lost \subseteq lost'
    BY <1>3 DEF Taking
  <2>4. promised' >= promised
    BY <1>0, <2>1, <2>3
  <2>5. QED  BY <2>2, <2>3, <2>4, Zenon
<1>4. ASSUME NEW n \in 1..MaxPromise, SendFile(n)
      PROVE  /\ closed' = closed /\ promised' >= promised /\ lost \subseteq lost'
             /\ wire' = wire \o <<>>
  BY <1>0, <1>4, BoundsAssumption DEF SendFile, stateVars
<1>5. CASE WriteHead \/ WriteTail
  <2>1. PICK limit \in 0..Len(output) : Flush(limit)
    BY <1>5, LenProperties DEF WriteHead, WriteTail, TypeOK
  <2>2. PICK k \in 1..limit : wire' = wire \o Take(output, k)
    BY <2>1 DEF Flush, Take
  <2>3. k \in 0..Len(output)
    BY LenProperties, <1>0
  <2>4. Take(output, k) \in Seq(Nat)
    BY <1>0, <2>3, Cut
  <2>5. closed' = closed /\ promised' = promised /\ lost' = lost
    BY <2>1 DEF Flush, stateVars, streamVars
  <2>6. promised' >= promised /\ lost \subseteq lost'
    BY <1>0, <2>5
  <2>7. QED  BY <2>2, <2>4, <2>5, <2>6, Zenon
<1>6. CASE SendFileSome
  <2>1. PICK k \in 1..fileRemaining : wire' = wire \o Positions(fileOffset - 1, k)
    BY <1>6 DEF SendFileSome
  <2>2. k \in Nat /\ fileOffset - 1 \in Nat
    BY <1>0 DEF TypeOK
  <2>3. Positions(fileOffset - 1, k) \in Seq(Nat)
    BY <2>2, PositionsProperties
  <2>4. closed' = closed /\ promised' = promised /\ lost' = lost
    BY <1>6 DEF SendFileSome, stateVars, streamVars
  <2>5. promised' >= promised /\ lost \subseteq lost'
    BY <1>0, <2>4
  <2>6. QED  BY <2>1, <2>3, <2>4, <2>5, Zenon
<1>7. CASE SendFileTruncated
  <2>1. /\ closed' = closed /\ promised' = promised /\ lost \subseteq lost'
        /\ wire' = wire \o <<>>
    BY <1>0, <1>7 DEF SendFileTruncated, stateVars
  <2>2. promised' >= promised
    BY <1>0, <2>1
  <2>3. QED  BY <1>0, <2>1, <2>2, Zenon
<1>8. QED
  BY <1>0, <1>1, <1>2, <1>3, <1>4, <1>5, <1>6, <1>7 DEF BytesStep

\* Nothing happens to the stream of a closed connection.
LEMMA ClosedIsStill ==
    ASSUME CI, closed, [Next]_vars
    PROVE  UNCHANGED Stream!vars
<1>1. ~inWrite /\ thread # "new"
  BY DEF CI, ControlInv
<1>2. UNCHANGED <<promised, wire, lost, closed>>
  <2>1. CASE UNCHANGED vars
    BY <2>1 DEF vars, stateVars, streamVars
  <2>2. CASE App
    BY <2>2 DEF App, Send, SendFileBuffered, SendFile, ShutdownWrite, ForceClose,
       stateVars, streamVars
  <2>3. CASE Start \/ BeginFunctor \/ EndApp
    BY <2>3 DEF Start, BeginFunctor, EndApp, stateVars, streamVars
  <2>4. CASE HandleEvent \/ HandleIdleTimeout
    BY <2>4 DEF HandleEvent, HandleIdleTimeout
  <2>5. CASE handleRead
    BY <2>5 DEF handleRead, ReadSome, ReadDrained, ReadFailed, ReadAfterClose,
       stateVars, streamVars
  <2>6. CASE handleWrite
    BY <1>1, <2>6 DEF handleWrite, WriteError, WriteBlocked, WriteHead, WriteTail,
       SendFileSome, SendFileTruncated, WriteDone
  <2>7. CASE Peer
    BY <2>7 DEF Peer, PeerSend, PeerFin, PeerReset, PeerDrain, stateVars, streamVars
  <2>8. QED  BY <2>1, <2>2, <2>3, <2>4, <2>5, <2>6, <2>7 DEF Next
<1>3. QED  BY <1>2 DEF Stream!vars

\* A connection is a byte stream: the bytes of send() and sendFile() leave in the
\* order of the calls, each once, and only what is missing from a truncated file is
\* skipped, until it is closed (send(), sendFile(), handleWrite(), handleClose()).
THEOREM Refinement == Spec => ImplementsByteStream
<1> DEFINE Inv == TypeOK /\ CI /\ OrderInv /\ KeptInv
<1>1. Init => Inv
  BY TypeInit, ControlInit, OrderInit, KeptInit
<1>2. Inv /\ [Next]_vars => Inv'
  BY TypeStep, ControlStep, StepIsBytesStep, OrderStep, KeptStep
<1>3. Init => Stream!Init
  BY DEF Init, Stream!Init
<1>4. Inv /\ Inv' /\ [Next]_vars => [Stream!Next]_(Stream!vars)
  <2> SUFFICES ASSUME Inv, Inv', [Next]_vars PROVE [Stream!Next]_(Stream!vars)
    OBVIOUS
  <2>1. CASE closed
    BY <2>1, ClosedIsStill
  <2>2. CASE ~closed
    <3>1. BytesStep
      BY StepIsBytesStep
    <3>2. CASE Closing
      <4>1. UNCHANGED <<promised, wire, lost>> /\ closed'
        BY <3>2 DEF Closing, handleClose
      <4>2. Stream!Close
        BY <2>2, <4>1, Zenon DEF Stream!Close
      <4>3. QED  BY <4>2 DEF Stream!Next
    <3>3. CASE ~Closing
      <4>1. /\ closed' = closed /\ promised' >= promised /\ lost \subseteq lost'
            /\ \E t \in Seq(Nat) : wire' = wire \o t
        BY <2>2, <3>1, <3>3, WireGrows
      <4>2. PICK t \in Seq(Nat) : wire' = wire \o t
        BY <4>1
      <4>3. Stream!Advance
        BY <2>2, <4>1, <4>2, GrowthAdvances
      <4>4. QED  BY <4>3 DEF Stream!Next
    <3>4. QED  BY <3>2, <3>3
  <2>3. QED  BY <2>1, <2>2
<1>5. QED
  BY <1>1, <1>2, <1>3, <1>4, PTL DEF Spec, ImplementsByteStream, Stream!Spec
=============================================================================
