---------------------------- MODULE AsyncLogging ----------------------------
(***************************************************************************)
(* The asynchronous log back end (src/log/AsyncLogging.cpp): the threads   *)
(* of the server append lines to a buffer under a mutex, one background    *)
(* thread takes the full buffers and writes them to the LogFile.           *)
(*                                                                         *)
(* A line is its number in the order of the appends (which thread it is of *)
(* makes no difference to the code), a buffer a sequence of lines, Nil     *)
(* a null pointer.  A step is one critical section of mutex_, or one call  *)
(* on the LogFile (that module), which only the background thread uses and *)
(* to which a line is one byte.  wait_for() ends *)
(* by a notification or by its timeout, so how long the background thread  *)
(* sleeps is left open.                                                    *)
(*                                                                         *)
(* A definition named X_Y is X with a mistake in it: put in the place of X  *)
(* it must break the property that guards against the mistake.             *)
(***************************************************************************)
EXTENDS Naturals, SequencesExt

CONSTANTS
    Threads,  \* the threads that log
    MaxLines, \* bound: lines logged
    Cap,      \* lines a buffer holds
    MaxFlush, \* bound: calls of flush()
    RollSize, CheckEveryN, FlushInterval, RollPeriod, \* of the LogFile
    MaxTime,  \* bound: seconds
    Nil

ASSUME CapAssumption == Cap \in Nat \ {0}
ASSUME BoundsAssumption == MaxLines \in Nat /\ MaxFlush \in Nat /\ MaxTime \in Nat
ASSUME LogFileAssumption ==
    /\ RollSize \in Nat /\ FlushInterval \in Nat
    /\ CheckEveryN \in Nat \ {0} /\ RollPeriod \in Nat \ {0}
\* A null pointer is neither a buffer nor an open file.
ASSUME NilAssumption == Nil \notin Seq(1..MaxLines) /\ Nil \notin 0..MaxTime

VARIABLES
    current,    \* current_
    next,       \* next_
    buffers,    \* buffers_
    running,    \* running_
    newBuffer1, \* threadFunc()'s spare buffers
    newBuffer2,
    toWrite,    \* what is left of buffersToWrite
    recycled,   \* the written ones it keeps, at most two
    back,       \* where the background thread is
    owner,      \* main(): "off", "on", "joining" (in stop()) or "stopped"
    flushes,    \* how often flush() has been called
    gone,       \* the threads that have been joined
    logged,     \* history: how many lines have been logged
    file,       \* the lines given to the LogFile
    flushed,    \* how many of them it has been told to flush
    now, log, size, appended, dropped, lost, late \* the LogFile

bufferVars == <<current, next, buffers>>
backVars   == <<newBuffer1, newBuffer2, toWrite, recycled, back>>
threadVars == <<flushes, gone>>
diskVars   == <<now, log, size, appended, dropped, lost, late>>
fileVars   == <<file, flushed, diskVars>>

logFile == INSTANCE LogFile
vars == <<running, owner, logged, bufferVars, backVars, threadVars, fileVars>>

Init ==
    /\ current = <<>> /\ next = <<>> /\ buffers = <<>>
    /\ running = FALSE /\ owner = "off"
    /\ newBuffer1 = Nil /\ newBuffer2 = Nil
    /\ toWrite = <<>> /\ recycled = <<>> /\ back = "none"
    /\ flushes = 0 /\ gone = {}
    /\ logged = 0 /\ file = <<>> /\ flushed = 0
    /\ logFile!Init

\* A buffer to go on with: the spare one, or a new one.
Fresh == IF next # Nil THEN next ELSE <<>>

-----------------------------------------------------------------------------
(* The threads that log.                                                   *)

\* append(): a full buffer is handed over and another one taken.
Append_(t) ==
    LET line == logged + 1
    IN  /\ t \notin gone /\ logged < MaxLines
        /\ IF Len(current) < Cap
           THEN /\ current' = Append(current, line)
                /\ UNCHANGED <<next, buffers>>
           ELSE /\ buffers' = Append(buffers, current)
                /\ current' = Append(Fresh, line)
                /\ next' = Nil
        /\ logged' = line
        /\ UNCHANGED <<running, owner, flushes, gone, backVars, fileVars>>

Flush_ToFront(t) ==
    /\ t \notin gone /\ flushes < MaxFlush
    /\ IF current # <<>>
       THEN /\ buffers' = IF current = Nil THEN buffers ELSE <<current>> \o buffers
            /\ current' = Fresh
            /\ next' = Nil
       ELSE UNCHANGED bufferVars
    /\ flushes' = flushes + 1
    /\ UNCHANGED <<running, owner, gone, logged, backVars, fileVars>>

\* flush(): hand the current buffer over, if there is anything in it.
Flush(t) ==
    /\ t \notin gone /\ flushes < MaxFlush
    /\ IF current # <<>>
       THEN /\ buffers' = IF current = Nil THEN buffers ELSE Append(buffers, current)
            /\ current' = Fresh
            /\ next' = Nil
       ELSE UNCHANGED bufferVars
    /\ flushes' = flushes + 1
    /\ UNCHANGED <<running, owner, gone, logged, backVars, fileVars>>

\* The thread ends and main() joins it.
Joined(t) ==
    /\ t \notin gone
    /\ gone' = gone \cup {t}
    /\ UNCHANGED <<running, owner, flushes, logged, bufferVars, backVars, fileVars>>

-----------------------------------------------------------------------------
(* main().                                                                 *)

Start ==
    /\ owner = "off"
    /\ running' = TRUE /\ owner' = "on"
    /\ back' = "head" /\ newBuffer1' = <<>> /\ newBuffer2' = <<>>
    /\ UNCHANGED <<toWrite, recycled, logged, bufferVars, threadVars, fileVars>>

\* stop(), after every other thread has been joined.
Stop ==
    /\ owner = "on" /\ gone = Threads
    /\ running' = FALSE /\ owner' = "joining"
    /\ UNCHANGED <<logged, bufferVars, backVars, threadVars, fileVars>>

StopReturns ==
    /\ owner = "joining" /\ back = "ended"
    /\ owner' = "stopped"
    /\ UNCHANGED <<running, logged, bufferVars, backVars, threadVars, fileVars>>

-----------------------------------------------------------------------------
(* threadFunc().                                                           *)

Head_ ==
    /\ back = "head"
    /\ back' = IF running THEN "wait" ELSE "drain"
    /\ UNCHANGED <<running, owner, newBuffer1, newBuffer2, toWrite, recycled, logged,
                   bufferVars, threadVars, fileVars>>

Swap_OnlyFull ==
    /\ back = "wait"
    /\ toWrite' = buffers /\ buffers' = <<>>
    /\ back' = "write"
    /\ UNCHANGED <<running, owner, newBuffer1, newBuffer2, current, next, recycled, logged,
                   threadVars, fileVars>>

\* Under the mutex, at once or after the wait: take all the buffers and leave
\* the spare ones.
Swap ==
    /\ back = "wait"
    /\ toWrite' = Append(buffers, current)
    /\ buffers' = <<>>
    /\ current' = newBuffer1 /\ newBuffer1' = Nil
    /\ IF next = Nil
       THEN next' = newBuffer2 /\ newBuffer2' = Nil
       ELSE UNCHANGED <<next, newBuffer2>>
    /\ back' = "write"
    /\ UNCHANGED <<running, owner, recycled, logged, threadVars, fileVars>>

\* Two of the buffers written are kept.
Keep(b) == IF Len(recycled) < 2 THEN Append(recycled, b) ELSE recycled

\* logFile_.append() of one buffer, empty or not.
Write ==
    /\ back \in {"write", "rest"} /\ toWrite # <<>>
    /\ LET n == Len(toWrite[1]) IN logFile!Drop(n) \/ logFile!Append_(n)
    /\ file' = file \o toWrite[1]
    /\ toWrite' = Tail(toWrite)
    /\ recycled' = Keep(toWrite[1])
    /\ UNCHANGED <<running, owner, newBuffer1, newBuffer2, back, logged, flushed,
                   bufferVars, threadVars>>

\* Take a buffer back from those just written, and empty it.
reset(b) == <<>>

\* logFile_.flush(), then refill the spare buffers, the last written one first.
Recycle ==
    LET given == IF newBuffer1 = Nil THEN 1 ELSE 0
        kept  == Len(recycled)
        Spare(i) == IF i <= kept THEN reset(recycled[kept + 1 - i]) ELSE <<>>
    IN  /\ back = "write" /\ toWrite = <<>>
        /\ flushed' = Len(file) /\ logFile!Flush
        /\ newBuffer1' = IF newBuffer1 = Nil THEN Spare(1) ELSE newBuffer1
        /\ newBuffer2' = IF newBuffer2 = Nil THEN Spare(given + 1) ELSE newBuffer2
        /\ recycled' = <<>>
        /\ back' = "head"
        /\ UNCHANGED <<running, owner, toWrite, logged, file, bufferVars, threadVars>>

Drain_ForgetsCurrent ==
    /\ back = "drain"
    /\ toWrite' = buffers
    /\ buffers' = <<>> /\ current' = Nil
    /\ back' = "rest"
    /\ UNCHANGED <<running, owner, newBuffer1, newBuffer2, recycled, logged, next,
                   threadVars, fileVars>>

\* "Write the rest before the exit": everything, under the mutex; current_ is
\* null from here on.
Drain ==
    /\ back = "drain"
    /\ toWrite' = Append(buffers, current)
    /\ buffers' = <<>> /\ current' = Nil
    /\ back' = "rest"
    /\ UNCHANGED <<running, owner, newBuffer1, newBuffer2, recycled, logged, next,
                   threadVars, fileVars>>

\* The last logFile_.flush().
LastFlush ==
    /\ back = "rest" /\ toWrite = <<>>
    /\ flushed' = Len(file) /\ logFile!Flush
    /\ back' = "ended"
    /\ UNCHANGED <<running, owner, newBuffer1, newBuffer2, toWrite, recycled, logged,
                   file, bufferVars, threadVars>>

\* time() goes on.
Tick ==
    /\ logFile!Tick
    /\ UNCHANGED <<running, owner, logged, file, flushed, bufferVars, backVars, threadVars>>

-----------------------------------------------------------------------------
threadFunc == Head_ \/ Swap \/ Write \/ Recycle \/ Drain \/ LastFlush

Next ==
    \/ \E t \in Threads : Append_(t) \/ Flush(t) \/ Joined(t)
    \/ Start \/ Stop \/ StopReturns \/ Tick
    \/ threadFunc

Spec == Init /\ [][Next]_vars

\* The background thread runs (its wait times out); stop() returns when it can.
FairSpec == Spec /\ WF_vars(threadFunc) /\ WF_vars(StopReturns)

-----------------------------------------------------------------------------
(* Properties.                                                             *)

Buffer == Seq(1..MaxLines)

TypeOK ==
    /\ current \in Buffer \cup {Nil} /\ next \in Buffer \cup {Nil}
    /\ newBuffer1 \in Buffer \cup {Nil} /\ newBuffer2 \in Buffer \cup {Nil}
    /\ buffers \in Seq(Buffer) /\ toWrite \in Seq(Buffer) /\ recycled \in Seq(Buffer)
    /\ Len(recycled) <= 2
    /\ \A i \in DOMAIN buffers : Len(buffers[i]) <= Cap
    /\ back \in {"none", "head", "wait", "write", "drain", "rest", "ended"}
    /\ owner \in {"off", "on", "joining", "stopped"}
    /\ running = (owner = "on")
    /\ file \in Buffer /\ flushed \in 0..Len(file)

Contents(b) == IF b = Nil THEN <<>> ELSE b

\* No line is lost, written twice or overtaken on its way to the LogFile,
\* whichever buffer it goes through (append(), flush(), the swap and the drain in
\* threadFunc()).
LinesInOrder ==
    [i \in 1..logged |-> i] =
        file \o FlattenSeq(toWrite) \o FlattenSeq(buffers) \o Contents(current)

\* A buffer that is used again has been emptied, and the background thread has
\* one to leave whenever it swaps (threadFunc()).
SparesReady ==
    /\ {next, newBuffer1, newBuffer2} \subseteq {Nil, <<>>}
    /\ back \in {"head", "wait"} => newBuffer1 # Nil /\ newBuffer2 # Nil

\* Through every exchange of buffers the lines stay whole and in order, and only
\* emptied buffers come back into use (append(), flush(), threadFunc()).
LinesSurvive == TypeOK /\ LinesInOrder /\ SparesReady

\* append() uses current_ without a test: no thread may log once the background
\* thread has given it up (append(), stop(), and main()'s order of the two).
CurrentIsThere == gone # Threads => current # Nil

\* When stop() is over, all that was ever logged has been given to the LogFile and
\* none of it is in stdio's buffer: it is in the files, but for what was dropped
\* while no file could be opened and what the disk refused; and nobody is left who
\* would log more into the missing buffer (stop(), the end of threadFunc(),
\* LogFile's append() and flush(), and main()'s order).
StoppedIsFlushed ==
    /\ owner = "stopped" =>
          /\ Len(file) = logged /\ log.buffered = 0
          /\ logFile!Stored = logged - dropped - lost
    /\ CurrentIsThere

\* Whatever the rolls, the reopenings, the failures to open and those to write:
\* each byte of the lines given to the LogFile is in a file, in the buffer of the
\* open one, was dropped for want of a file or refused by the disk, and a roll
\* loses none (LogFile's append(), rollFileLocked(), flush()).
BytesSurviveRolls == appended = Len(file) /\ logFile!BytesSurvive

\* A file that has reached its age takes fewer than checkEveryN_ more buffers
\* (LogFile's append()).
OldFileIsLeft == logFile!OldFileIsLeft

\* A line that is logged is given to the LogFile, and that is flushed, once the
\* back end is started, and a stop() returns (threadFunc(), stop()).  What could
\* not be written then, StoppedIsFlushed accounts for.
LoggedIsFlushed ==
    /\ \A n \in 1..MaxLines :
          owner # "off" /\ logged >= n ~> flushed >= n
    /\ owner = "joining" ~> owner = "stopped"
=============================================================================
