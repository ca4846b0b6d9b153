---------------------------- MODULE HttpSession ----------------------------
(***************************************************************************)
(* One connection's conversation in HTTP: the message callback of          *)
(* main.cpp with its parser (module HttpParser), the rate limiter, the     *)
(* worker pool that files are handed to, and the way a worker's answer     *)
(* takes back to the IO thread.                                            *)
(*                                                                         *)
(* The peer's bytes are fixed in the initial state and arrive in pieces    *)
(* of any size.  Of TcpConnection there remain whether it is closed and    *)
(* how far a half-close is: asked for, and done once everything is         *)
(* flushed.  An answer is the number of its request and its kind.          *)
(*                                                                         *)
(* A definition named X_Y is X with a mistake in it: put in the place of X  *)
(* it must break the property that guards against the mistake.             *)
(***************************************************************************)
EXTENDS HttpParser

CONSTANTS
    Streams,     \* what a peer may send, as sequences of bytes
    WorkerCounts \* main()'s -w

ASSUME StreamsAssumption == \A s \in Streams : s \in Seq(ToSet(s))
ASSUME WorkerCountsAssumption == WorkerCounts \subseteq Nat

VARIABLES
    stream,  \* what this peer sends
    arrived, \* how many bytes of it have been read
    workers, \* workerPool.threadCount()
    jobs,    \* requests handed to the pool and not answered by a worker yet
    posted,  \* answers of workers queued for the IO thread
    write,   \* write side: "open", "closing" (shutdownWrite() called) or "shut"
    closed,  \* the connection is closed
    taken,   \* history: the requests parsed, and where each ends in the stream
    answers, \* history: the answers the connection took on
    lost     \* history: the requests whose answer a closed connection dropped

peerVars == <<stream, arrived, workers>>
poolVars == <<jobs, posted>>
connVars == <<write, closed, answers, lost>>
vars == <<input, parser, io, taken, peerVars, poolVars, connVars>>

Init ==
    /\ stream \in Streams /\ arrived = 0 /\ workers \in WorkerCounts
    /\ input = <<>> /\ parser = Fresh /\ io = "idle"
    /\ jobs = <<>> /\ posted = <<>>
    /\ write = "open" /\ closed = FALSE
    /\ taken = <<>> /\ answers = <<>> /\ lost = {}

-----------------------------------------------------------------------------
(* The connection.                                                         *)

\* handleRead(): a piece is read and the message callback called.
Read(n) ==
    /\ io = "idle" /\ ~closed /\ arrived + n <= Len(stream)
    /\ input' = input \o SubSeq(stream, arrived + 1, arrived + n)
    /\ arrived' = arrived + n
    /\ io' = "parse"
    /\ UNCHANGED <<parser, taken, stream, workers, poolVars, connVars>>

\* handleWrite() has flushed everything and half-closes.
Flushed ==
    /\ io = "idle" /\ ~closed /\ write = "closing"
    /\ write' = "shut"
    /\ UNCHANGED <<input, parser, io, taken, peerVars, poolVars, closed, answers, lost>>

\* The peer closes, the connection fails or idles for too long.
Close ==
    /\ io = "idle" /\ ~closed
    /\ closed' = TRUE
    /\ UNCHANGED <<input, parser, io, taken, peerVars, poolVars, write, answers, lost>>

\* send() of an answer, and of its file: nothing on a closed connection; a
\* failing write, as every one is after the half-close, closes it.  Then
\* shutdownWrite(), if the answer is the last.
Answer(n, kind, last) ==
    \/ /\ closed
       /\ lost' = lost \cup {n}
       /\ UNCHANGED <<write, closed, answers>>
    \/ /\ ~closed
       /\ closed' = TRUE
       /\ lost' = lost \cup {n}
       /\ UNCHANGED <<write, answers>>
    \/ /\ ~closed /\ write # "shut"
       /\ answers' = Append(answers, [request |-> n, kind |-> kind])
       /\ write' = IF last THEN "closing" ELSE write
       /\ UNCHANGED <<closed, lost>>

-----------------------------------------------------------------------------
(* The message callback.                                                   *)

Parse == parse /\ UNCHANGED <<taken, peerVars, poolVars, connVars>>

\* kBadRequest, now or, as the parser stays in error, for all later bytes.
BadRequest ==
    /\ Parsing("error")
    /\ Answer(Len(taken) + 1, "bad", TRUE)
    /\ io' = "idle"
    /\ UNCHANGED <<input, parser, taken, peerVars, poolVars>>

\* The paths the limiter lets through, and the ones a worker answers: files, and
\* what ReverseProxy forwards.
IsManagement(line) == line = "/metrics"
Offloaded(line) == workers > 0 /\ line # "/api/data"

\* takeRequest(), which resets the parser.
takeRequest_KeepsCount == [Fresh EXCEPT !.headerBytes = parser.headerBytes]
takeRequest == Fresh

\* kComplete: the request is taken on, and the callback goes on parsing, or
\* returns if the connection is not kept alive.
Take ==
    /\ Parsing("gotAll")
    /\ taken' = Append(taken, [line |-> parser.line, keepAlive |-> parser.keepAlive,
                               end |-> arrived - Len(input)])
    /\ parser' = takeRequest
    /\ io' = IF parser.keepAlive THEN "parse" ELSE "idle"
    /\ UNCHANGED <<input, peerVars>>

Limited ==
    /\ Take
    /\ ~IsManagement(parser.line)
    /\ Answer(Len(taken) + 1, "limited", ~parser.keepAlive)
    /\ UNCHANGED poolVars

Offload_AnswersToo ==
    /\ Take
    /\ Offloaded(parser.line)
    /\ jobs' = Append(jobs, Len(taken) + 1)
    /\ Answer(Len(taken) + 1, "ok", ~parser.keepAlive)
    /\ UNCHANGED posted

\* workerPool.submit().
Offload ==
    /\ Take
    /\ Offloaded(parser.line)
    /\ jobs' = Append(jobs, Len(taken) + 1)
    /\ UNCHANGED <<posted, connVars>>

Respond ==
    /\ Take
    /\ ~Offloaded(parser.line)
    /\ Answer(Len(taken) + 1, "ok", ~parser.keepAlive)
    /\ UNCHANGED poolVars

-----------------------------------------------------------------------------
(* The workers, and the way back.                                          *)

Handle_OnlyKeepAlive(i) ==
    /\ i <= workers /\ i <= Len(jobs)
    /\ posted' = IF taken[jobs[i]].keepAlive THEN Append(posted, jobs[i]) ELSE posted
    /\ jobs' = RemoveAt(jobs, i)
    /\ UNCHANGED <<input, parser, io, taken, peerVars, connVars>>

\* A worker has answered the i-th request of those in the pool, the first
\* threadCount() of which are in work, and posts the answer by runInLoop().
Handle(i) ==
    /\ i <= workers /\ i <= Len(jobs)
    /\ posted' = Append(posted, jobs[i])
    /\ jobs' = RemoveAt(jobs, i)
    /\ UNCHANGED <<input, parser, io, taken, peerVars, connVars>>

\* The IO thread runs the posted answer, between two handlers.
RunPosted ==
    /\ io = "idle" /\ posted # <<>>
    /\ Answer(posted[1], "ok", ~taken[posted[1]].keepAlive)
    /\ posted' = Tail(posted)
    /\ UNCHANGED <<input, parser, io, taken, peerVars, jobs>>

-----------------------------------------------------------------------------
Callback == Parse \/ BadRequest \/ Limited \/ Offload \/ Respond

Next ==
    \/ \E n \in 1..Len(stream) : Read(n)
    \/ Flushed \/ Close
    \/ Callback
    \/ \E i \in 1..Len(jobs) : Handle(i)
    \/ RunPosted

Spec == Init /\ [][Next]_vars

\* The IO thread ends its callback and runs what is posted; the workers work.
FairSpec ==
    /\ Spec
    /\ WF_vars(Callback)
    /\ WF_vars(RunPosted)
    /\ WF_vars(\E i \in 1..Len(jobs) : Handle(i))

-----------------------------------------------------------------------------
(* Properties.                                                             *)

TypeOK ==
    /\ arrived \in 0..Len(stream) /\ IsSuffix(input, SubSeq(stream, 1, arrived))
    /\ parser.state \in {"requestLine", "headers", "body", "gotAll", "error"}
    /\ io \in {"idle", "parse"}
    /\ write \in {"open", "closing", "shut"}

\* Where the n-th message begins, and all that has come from there on.
Begin(n) == IF n = 1 THEN 0 ELSE taken[n - 1].end
From(n) == SubSeq(stream, Begin(n) + 1, arrived)

\* The callback returned after a request that ends the connection: what follows
\* waits for more to be read.
LeftUnread ==
    taken # <<>> /\ ~Last(taken).keepAlive /\ arrived - Len(input) = Last(taken).end

\* However the bytes are cut into pieces, the parser makes of them what they mean
\* as a whole: the requests taken are the messages that have come, a malformed or
\* oversized one is found and never passed, and nothing that is complete waits
\* (HttpParser::parse(), takeRequest(), the callback's loop).
FragmentsDoNotMatter ==
    /\ TypeOK
    /\ \A n \in DOMAIN taken :
          /\ IsWhole(From(n))
          /\ LET r == Request(From(n))
             IN  /\ taken[n].line = r.line /\ taken[n].keepAlive = r.keepAlive
                 /\ taken[n].end = Begin(n) + r.size
    /\ io = "idle" /\ ~LeftUnread =>
          LET rest == From(Len(taken) + 1)
          IN  /\ parser.state = "error" <=> IsBad(rest)
              /\ ~IsWhole(rest)

\* The requests answered, those that a worker has or has posted the answer of.
Own == {i \in DOMAIN answers : answers[i].kind # "bad"}
Answered == {answers[i].request : i \in Own}
InPool == ToSet(jobs) \cup ToSet(posted)

\* A request is in one place, and there once: answered, with the workers, posted, or
\* dropped with its connection.
OneAnswerEach ==
    /\ \A i, j \in Own : answers[i].request = answers[j].request => i = j
    /\ IsInjective(jobs) /\ IsInjective(posted) /\ ToSet(jobs) \cap ToSet(posted) = {}
    /\ Answered \cap InPool = {} /\ lost \cap (Answered \cup InPool) = {}
    /\ DOMAIN taken \subseteq Answered \cup InPool \cup lost
    /\ Answered \cup InPool \subseteq DOMAIN taken
    /\ lost # {} => closed

\* An answer comes before that of an earlier request only if the earlier one went to a
\* worker, and the later one did not or there is a second worker.
OvertakenIsOffloaded ==
    \A i, j \in DOMAIN answers :
        i < j /\ answers[j].request < answers[i].request =>
            /\ answers[j].kind = "ok" /\ Offloaded(taken[answers[j].request].line)
            /\ \/ workers > 1
               \/ answers[i].kind # "ok"
               \/ ~Offloaded(taken[answers[i].request].line)

\* Every request has one answer at most, on the connection and in the order the
\* documents promise as far as the workers allow (the callback's respond, its
\* `continue' and `return's, workerPool.submit() and runInLoop()).
AnswersMatchRequests == OneAnswerEach /\ OvertakenIsOffloaded

\* What the documents promise of pipelined requests: "two complete requests sent
\* at once: two responses one after the other, in the right order".
ResponsesInOrder ==
    \A i, j \in DOMAIN answers :
        i < j /\ answers[i].kind = "ok" /\ answers[j].kind = "ok" =>
            answers[i].request < answers[j].request

\* A request taken on is answered, or its connection is closed (the callback,
\* the worker's task and runInLoop()).
RequestsAreAnswered ==
    \A n \in 1..3 : Len(taken) >= n ~> closed \/ n \in Answered
=============================================================================
