------------------------------ MODULE LogFile ------------------------------
(***************************************************************************)
(* The log file that rolls by size and by age (src/log/LogFile.cpp).  A    *)
(* file is named after the second it is opened in and opened for           *)
(* appending; what is appended is its length.  mutex_ makes every call one *)
(* step, taken as part of a step of the caller: AsyncLogging is the one    *)
(* caller, its constants are assumed of there.  rollFile() is called by    *)
(* the constructor only.                                                   *)
(*                                                                         *)
(* The disk may fail: fwrite() may take fewer bytes than it is given, and  *)
(* of what stdio writes out, at fflush(), at fclose() or when its buffer   *)
(* is full, any part may not arrive.  The code looks at neither result but *)
(* to count what fwrite() took.  What stdio writes out when its buffer is  *)
(* full, and loses then, is here written out or lost by the next flush.    *)
(*                                                                         *)
(* A definition named X_Y is X with a mistake in it: put in the place of X  *)
(* it must break the property that guards against the mistake.             *)
(***************************************************************************)
EXTENDS Naturals, FiniteSetsExt

CONSTANTS
    RollSize,      \* rollSize_
    CheckEveryN,   \* checkEveryN_
    FlushInterval, \* flushIntervalSeconds_
    RollPeriod,    \* kRollPerSeconds
    MaxTime,       \* bound: seconds
    Nil

VARIABLES
    now,     \* time()
    log,     \* the members of the LogFile, and what stdio buffers of its file
    size,    \* the bytes in each file
    appended,   \* history: the bytes append() was given
    dropped, \* history: those it dropped, no file being open
    lost,    \* history: those fwrite() did not take or stdio could not write
    late     \* history: appends to the open file since it reached its age

vars == <<now, log, size, appended, dropped, lost, late>>

Times == 0..MaxTime

\* rollFileLocked(): close, which flushes, and open the file of this second.
Rolled_Unflushed(l, ok) ==
    IF ok THEN [file |-> now, writtenBytes |-> 0, count |-> 0,
                lastRoll |-> now, lastFlush |-> now, buffered |-> l.buffered]
          ELSE [l EXCEPT !.file = Nil]

Rolled(l, ok) ==
    IF ok THEN [file |-> now, writtenBytes |-> 0, count |-> 0,
                lastRoll |-> now, lastFlush |-> now, buffered |-> 0]
          ELSE [l EXCEPT !.file = Nil, !.buffered = 0]

\* The constructor opens the first file, if it can.
Init ==
    /\ now = 0
    /\ \E ok \in BOOLEAN :
          log = [file |-> IF ok THEN 0 ELSE Nil, writtenBytes |-> 0, count |-> 0,
                 lastRoll |-> 0, lastFlush |-> 0, buffered |-> 0]
    /\ size = [t \in Times |-> 0]
    /\ appended = 0 /\ dropped = 0 /\ lost = 0 /\ late = 0

\* fwrite(), which takes n bytes.
Written(l, n) ==
    [l EXCEPT !.writtenBytes = @ + n, !.count = @ + 1, !.buffered = @ + n]

\* Every checkEveryN_-th line: flush if it is time to.
Checked(l) ==
    IF now - l.lastFlush >= FlushInterval
    THEN [l EXCEPT !.count = 0, !.lastFlush = now, !.buffered = 0]
    ELSE [l EXCEPT !.count = 0]

AfterWrite_NoAgeCheck(l, ok) ==
    IF l.writtenBytes > RollSize THEN Rolled(l, ok)
    ELSE IF l.count >= CheckEveryN THEN Checked(l) ELSE l

\* Roll at once if the file is too long, else, every checkEveryN_-th line, if
\* it is too old.
AfterWrite(l, ok) ==
    IF l.writtenBytes > RollSize THEN Rolled(l, ok)
    ELSE IF l.count < CheckEveryN THEN l
    ELSE IF now - l.lastRoll >= RollPeriod THEN Rolled(Checked(l), ok)
    ELSE Checked(l)

\* Of the bytes that leave stdio's buffer for file t any number may fail to
\* arrive, and so do those fwrite() has left.
WrittenOut(t, out, left) ==
    \E failed \in 0..out :
        /\ size' = [size EXCEPT ![t] = @ + (out - failed)]
        /\ lost' = lost + left + failed

\* append() with no file open, and none that can be opened.
Drop(n) ==
    /\ log.file = Nil
    /\ appended' = appended + n /\ dropped' = dropped + n
    /\ UNCHANGED <<now, log, size, lost, late>>

\* append(): reopen if need be, write, roll or flush if it is time to.
Append_(n) ==
    /\ \E ok \in BOOLEAN, taken \in 0..n :
          LET l == IF log.file = Nil THEN Rolled(log, TRUE) ELSE log
              w == Written(l, taken)
          IN  /\ log' = AfterWrite(w, ok)
              /\ WrittenOut(l.file, w.buffered - log'.buffered, n - taken)
              /\ late' = IF log'.lastRoll # l.lastRoll \/ log'.file = Nil THEN 0
                         ELSE IF now - l.lastRoll >= RollPeriod THEN late + 1 ELSE late
    /\ appended' = appended + n
    /\ UNCHANGED <<now, dropped>>

\* flush().
Flush ==
    /\ IF log.file = Nil THEN UNCHANGED <<log, size, lost>>
       ELSE /\ log' = [log EXCEPT !.buffered = 0]
            /\ WrittenOut(log.file, log.buffered, 0)
    /\ UNCHANGED <<now, appended, dropped, late>>

Tick ==
    /\ now < MaxTime
    /\ now' = now + 1
    /\ UNCHANGED <<log, size, appended, dropped, lost, late>>

-----------------------------------------------------------------------------
(* Properties.                                                             *)

TypeOK ==
    /\ now \in Times
    /\ log.file \in Times \cup {Nil}
    /\ log.lastRoll \in 0..now /\ log.lastFlush \in log.lastRoll..now
    /\ log.writtenBytes \in Nat /\ log.buffered \in 0..log.writtenBytes
    /\ size \in [Times -> Nat]
    /\ appended \in Nat /\ dropped \in 0..appended
    /\ lost \in Nat /\ late \in Nat

\* The bytes in all the files.
Stored == MapThenSumSet(LAMBDA t : size[t], Times)

\* Every byte is in a file or on its way in stdio's buffer, except those given
\* while no file could be opened (append(): "dropped silently") and those the
\* disk refused, which nobody is told of either.
BytesAccounted ==
    appended = dropped + lost + Stored + log.buffered

\* What stdio holds is part of what the open file says it has written, what it
\* says is in it but for what was lost, and a closed file leaves nothing behind
\* (rollFileLocked()).
BufferIsOfOpenFile ==
    IF log.file = Nil THEN log.buffered = 0
    ELSE /\ log.buffered <= log.writtenBytes
         /\ log.writtenBytes <= size[log.file] + log.buffered + lost

\* The open file never counts more than the roll size (append()).
OpenFileIsShort == log.file # Nil => log.writtenBytes <= RollSize

\* Rolling, reopening and failing to open lose no byte by themselves and leave
\* none in the buffer of a closed file (append(), rollFileLocked()).
BytesSurvive ==
    TypeOK /\ BytesAccounted /\ BufferIsOfOpenFile /\ OpenFileIsShort

\* A file that has reached its age takes fewer than checkEveryN_ more calls.
OldFileIsLeft == log.file # Nil => late < CheckEveryN /\ late <= log.count
=============================================================================
