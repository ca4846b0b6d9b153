------------------------------- MODULE Router -------------------------------
(***************************************************************************)
(* Router::handle() (src/http/Router.cpp) and what becomes of its answer:  *)
(* one client asks for one thing after the other, a thread handles the     *)
(* request and the IO thread sends the answer (main.cpp's respond).        *)
(*                                                                         *)
(* Meanwhile the file that is asked for changes: it is written in place,   *)
(* replaced by another, as by rename(), with a new or an older time, or    *)
(* removed.  Its content is a sequence of blocks, each the number of the   *)
(* change that wrote it; times are seconds.  The client keeps what it got  *)
(* and has it revalidated.                                                 *)
(*                                                                         *)
(* A definition named X_Y is X with a mistake in it: put in the place of X  *)
(* it must break the property that guards against the mistake.             *)
(***************************************************************************)
EXTENDS ReverseProxy, HttpDate

CONSTANTS
    StartTimes,        \* when a behaviour begins, in seconds since 1970
    Clients,           \* how a client asks for a revalidation; "none": it wants no file
    MaxSize,           \* bound: blocks of a file
    zeroCopyThreshold_,
    MaxTicks,          \* bound: seconds
    MaxChanges         \* bound: contents of the file

ASSUME RouterAssumption ==
    /\ StartTimes \subseteq Nat
    /\ Clients \subseteq {"none", "tag", "both", "any"} \cup Forms
    /\ MaxSize \in Nat /\ zeroCopyThreshold_ \in Nat
    /\ MaxTicks \in Nat /\ MaxChanges \in Nat \ {0}

VARIABLES
    \* The file system.
    start, clock, \* the first second, and the present one
    file,         \* what the path leads to, or NoFile
    changes,      \* history: how many contents there have been
    \* The client.
    client,       \* how it asks
    copy,         \* what it keeps, or NoCopy
    request,      \* the request it waits for an answer to
    wire,         \* what it has of the answer
    \* The server.
    at,           \* where the request is
    info,         \* what stat() told
    fd,           \* the file that is open: "none", "path" or "unlinked"
    unlinked,     \* the open file when the path leads to it no more
    response,     \* the HttpResponse, as far as it is made
    \* History.
    prints,       \* the fingerprints the file has had, in their order
    since         \* what happened to the file since stat()

fileVars   == <<start, clock, file, changes, prints>>
clientVars == <<client, copy, request, wire>>
serverVars == <<at, info, fd, unlinked, response>>
vars == <<fileVars, clientVars, serverVars, since, proxyVars>>

NoFile == [mtime |-> 0, blocks |-> <<>>, exists |-> FALSE]
File(mtime, blocks) == [mtime |-> mtime, blocks |-> blocks, exists |-> TRUE]
Written(change, size) == [i \in 1..size |-> change]
Sizes == 0..MaxSize

NoCopy == [etag |-> {}, modified |-> {}, blocks |-> <<>>]
AnyTag == [any |-> "*"]
NoRequest == [method |-> "GET", target |-> "none", ifNoneMatch |-> {}, ifModifiedSince |-> <<>>]
NoInfo == [mtime |-> 0, size |-> 0]
NoAnswer == serialize(Response(0), TRUE)

Stamp(f) == [mtime |-> f.mtime, size |-> Len(f.blocks)]

Init ==
    /\ start \in StartTimes /\ clock = start
    /\ \E size \in Sizes : file = File(start, Written(1, size))
    /\ changes = 1 /\ prints = <<Stamp(file)>> /\ since = "nothing"
    /\ client \in Clients /\ copy = NoCopy
    /\ request = NoRequest /\ wire = NoAnswer
    /\ at = "idle" /\ info = NoInfo /\ fd = "none" /\ unlinked = NoFile
    /\ response = NoResult
    /\ ProxyInit

-----------------------------------------------------------------------------
(* The file system: whoever edits the site.                                *)

Tick ==
    /\ clock < start + MaxTicks
    /\ clock' = clock + 1
    /\ UNCHANGED <<start, file, changes, prints, since, clientVars, serverVars, proxyVars>>

\* The path leads to f from now on, the same file or another one.
Change(f, other) ==
    /\ file' = f
    /\ prints' = IF f.exists THEN Append(prints, Stamp(f)) ELSE prints
    /\ since' = IF since = "shrunk" \/ Len(f.blocks) < info.size THEN "shrunk" ELSE "changed"
    /\ IF other /\ fd = "path"
       THEN fd' = "unlinked" /\ unlinked' = file
       ELSE UNCHANGED <<fd, unlinked>>
    /\ UNCHANGED <<start, clock, clientVars, at, info, response, proxyVars>>

\* Written in place, or replaced by a file that is new or keeps the time of an
\* older one.
WriteFile(size) ==
    /\ changes < MaxChanges /\ changes' = changes + 1
    /\ \/ file.exists /\ Change(File(clock, Written(changes', size)), FALSE)
       \/ \E mtime \in {start, clock} : Change(File(mtime, Written(changes', size)), TRUE)

\* Or another thing than a regular file is there now.
RemoveFile ==
    /\ file.exists /\ changes < MaxChanges
    /\ changes' = changes + 1
    /\ Change(NoFile, TRUE)

Opened == IF fd = "path" THEN file ELSE unlinked

-----------------------------------------------------------------------------
(* The client.                                                             *)

\* If-None-Match and If-Modified-Since, once it has a copy.
Conditional(r) ==
    IF copy = NoCopy THEN r
    ELSE [r EXCEPT
            !.ifNoneMatch = CASE client \in {"tag", "both"} -> copy.etag
                              [] client = "any"            -> {AnyTag}
                              [] OTHER                     -> {},
            !.ifModifiedSince = LET date == CHOOSE d \in copy.modified : TRUE
                                IN  CASE client = "both"    -> Text("IMF-fixdate", date)
                                      [] client \in Forms   -> Text(client, date)
                                      [] OTHER              -> <<>>]

Ask(method, target) ==
    /\ at = "idle"
    /\ LET plain == [NoRequest EXCEPT !.method = method, !.target = target]
       IN  request' \in {plain, IF target = "file" THEN Conditional(plain) ELSE plain}
    /\ at' = "handle"
    /\ UNCHANGED <<fileVars, client, copy, wire, info, fd, unlinked, response, since, proxyVars>>

\* The answer tells its receiver that there is no body, or how long it is.
Bodiless == request.method = "HEAD" \/ wire.status = 304
Complete == Bodiless \/ wire.lengths = {Len(wire.body)}

\* What the client keeps of a whole answer.
CopyAfter ==
    IF request.target = "file" /\ request.method = "GET" /\ wire.status = 200
    THEN [etag |-> wire.etag, modified |-> wire.modified, blocks |-> wire.body]
    ELSE copy

Done ==
    /\ request' = NoRequest /\ wire' = NoAnswer
    /\ at' = "idle" /\ info' = NoInfo /\ response' = NoResult
    /\ fd' = "none" /\ unlinked' = NoFile /\ since' = "nothing"
    /\ Forget
    /\ UNCHANGED <<fileVars, client>>

Receive ==
    /\ at = "sent" /\ Complete
    /\ copy' = CopyAfter
    /\ Done

\* The connection ends, by whomever, or has ended before the answer is there; the
\* client drops what is not whole, and the descriptors go with the response.
Disconnect ==
    /\ at \in {"respond", "sendfile", "sent"}
    /\ UNCHANGED copy
    /\ Done

-----------------------------------------------------------------------------
(* Conditional requests.                                                   *)

\* makeETag(): the modification time, in seconds, and the size.
makeETag(i) == [mtime |-> i.mtime, size |-> i.size]

etagMatches(tags, etag) == AnyTag \in tags \/ etag \in tags

isNotModified_EitherWay(i) ==
    \/ etagMatches(request.ifNoneMatch, makeETag(i))
    \/ \E t \in parseHttpDate(request.ifModifiedSince) : i.mtime <= t

\* If-Modified-Since counts only without If-None-Match.
isNotModified(i) ==
    IF request.ifNoneMatch # {}
    THEN etagMatches(request.ifNoneMatch, makeETag(i))
    ELSE \E t \in parseHttpDate(request.ifModifiedSince) : i.mtime <= t

-----------------------------------------------------------------------------
(* handle().                                                               *)

\* formatHttpDate(), by the date that the text shows.
formatHttpDate(t) == gmtime_r(t)

Validated(r, i) ==
    setHeader(setHeader(r, "ETag", makeETag(i)), "Last-Modified", formatHttpDate(i.mtime))

Answer(r) == at' = "respond" /\ response' = r

\* What is not a file: an unsafe path, a registered handler, a method that files
\* do not have.
Handle ==
    /\ at = "handle"
    /\ \/ request.target = "unsafe" /\ Answer(badRequest)
       \/ request.target = "/api/status" /\ Answer(setBody(Response(200), <<"status">>))
       \/ /\ request.target = "file" /\ request.method \notin {"GET", "HEAD"}
          /\ Answer(methodNotAllowed)
    /\ UNCHANGED <<fileVars, clientVars, info, fd, unlinked, since, proxyVars>>

\* The prefix handler.
HandlePrefix ==
    /\ at = "handle" /\ request.target = "gateway"
    /\ at' = "forward"
    /\ Forward(request.method = "HEAD")
    /\ UNCHANGED <<fileVars, clientVars, info, fd, unlinked, response, since>>

Forwarding ==
    /\ at = "forward"
    /\ ProxyStep
    /\ IF step' = "no" THEN Answer(result') ELSE UNCHANGED <<at, response>>
    /\ UNCHANGED <<fileVars, clientVars, info, fd, unlinked, since>>

Upstream == FallSilent /\ UNCHANGED <<fileVars, clientVars, serverVars, since>>

\* serveStaticFile(): stat(), and the answer if it needs no more.
Stat ==
    /\ at = "handle" /\ request.target = "file" /\ request.method \in {"GET", "HEAD"}
    /\ IF ~file.exists THEN Answer(notFound) /\ info' = NoInfo
       ELSE /\ info' = Stamp(file)
            /\ IF isNotModified(info') THEN Answer(Validated(Response(304), info'))
               ELSE IF zeroCopyThreshold_ > 0 /\ info'.size >= zeroCopyThreshold_
                    THEN at' = "openBody" /\ UNCHANGED response
               ELSE IF info'.size = 0 THEN Answer(Validated(Response(200), info'))
                    ELSE at' = "openStream" /\ UNCHANGED response
    /\ since' = "nothing"
    /\ UNCHANGED <<fileVars, clientVars, fd, unlinked, proxyVars>>

\* Open the file, if it is still there and a descriptor is to be had.
Open(from, to, r) ==
    /\ at = from
    /\ \/ file.exists /\ fd' = "path" /\ at' = to /\ response' = r
       \/ Answer(notFound) /\ UNCHANGED fd
    /\ UNCHANGED <<fileVars, clientVars, info, unlinked, since, proxyVars>>

\* serveFileBody().
OpenBody ==
    Open("openBody", "respond",
         setHeader(Validated(Response(200), info), "Content-Length", info.size))

OpenStream == Open("openStream", "read", Validated(Response(200), info))

Close == fd' = "none" /\ unlinked' = NoFile

\* Blocks of the open file follow those in `sofar' until there are as many as
\* stat() told, or no more.
More(sofar) == Len(sofar) < info.size /\ Len(sofar) < Len(Opened.blocks)
WithNext(sofar) == Append(sofar, Opened.blocks[Len(sofar) + 1])

\* file.read(), and resize() to what was read.
ReadFile ==
    /\ at = "read"
    /\ IF More(response.body)
       THEN response' = setBody(response, WithNext(response.body)) /\ UNCHANGED <<at, fd, unlinked>>
       ELSE Answer(response) /\ Close
    /\ UNCHANGED <<fileVars, clientVars, info, since, proxyVars>>

-----------------------------------------------------------------------------
(* The answer, on the IO thread.                                           *)

\* respond: send(), and sendFile() unless the request was HEAD.
Respond ==
    LET head == request.method = "HEAD"
    IN  /\ at = "respond"
        /\ wire' = serialize(response, ~head)
        /\ IF fd # "none" /\ ~head THEN at' = "sendfile" /\ UNCHANGED <<fd, unlinked>>
           ELSE at' = "sent" /\ Close
        /\ UNCHANGED <<fileVars, client, copy, request, info, response, since, proxyVars>>

\* sendPendingFile(): sendfile() until all is sent or the file ends early.
SendFile ==
    /\ at = "sendfile"
    /\ IF More(wire.body)
       THEN wire' = [wire EXCEPT !.body = WithNext(@)] /\ UNCHANGED <<at, fd, unlinked>>
       ELSE at' = "sent" /\ Close /\ UNCHANGED wire
    /\ UNCHANGED <<fileVars, client, copy, request, info, response, since, proxyVars>>

-----------------------------------------------------------------------------
Serve ==
    \/ Handle \/ HandlePrefix \/ Forwarding
    \/ Stat \/ OpenBody \/ OpenStream \/ ReadFile
    \/ Respond \/ SendFile

\* What a client asks for; one request leaves nothing behind for the next but the
\* copy of the file, so that one client need not ask for everything.
Requests ==
    IF client = "none"
    THEN ({"GET", "HEAD", "POST"} \X {"gateway"}) \cup {<<"GET", "unsafe">>, <<"GET", "/api/status">>}
    ELSE {"GET", "HEAD", "POST"} \X {"file"}

Next ==
    \/ Serve
    \/ \E r \in Requests : Ask(r[1], r[2])
    \/ Receive \/ Disconnect \/ Upstream
    \/ Tick \/ RemoveFile \/ \E size \in Sizes : WriteFile(size)

Spec == Init /\ [][Next]_vars

\* The threads run; a blocking call returns when the upstream answers or its
\* timeout is over.
FairSpec == Spec /\ WF_vars(Serve)

-----------------------------------------------------------------------------
(* Properties.                                                             *)

TypeOK ==
    /\ clock \in start..(start + MaxTicks) /\ changes \in 1..MaxChanges
    /\ Len(file.blocks) \in Sizes /\ Len(copy.blocks) \in Sizes
    /\ fd \in {"none", "path", "unlinked"} /\ (fd = "unlinked" <=> unlinked.exists)
    /\ since \in {"nothing", "changed", "shrunk"}

\* Nothing that is open outlives the answer it was opened for: not the socket of
\* forward(), left in nine places, nor the FileBody, of which HEAD and a lost
\* connection make no use (close() in forward(), ~FileBody()).
DescriptorsReturned ==
    /\ TypeOK
    /\ step = "no" => ~socket
    /\ at \notin {"read", "respond", "sendfile"} => fd = "none"

\* What forward() makes of a reply that is not as long as it says: it passes on the
\* length it was told, and no more than what came.
PassedOn(answer) ==
    /\ request.target = "gateway" /\ ~Truthful(reply)
    /\ answer.lengths \subseteq Announced(reply) \cup {Len(answer.body)}
    /\ Len(answer.body) <= Len(reply.body)

\* An answer is as long as it says, on a connection that may be used for more:
\* never longer; shorter only if the file it was being sent from shrank, or the
\* upstream closed before the end.  No other wrong length is told than one the
\* upstream told itself (serialize(), serveFileBody(), sendPendingFile(),
\* forward()).
Delimited ==
    LET sent == Len(wire.body)
    IN  at = "sent" =>
          \/ PassedOn(wire)
          \/ IF Bodiless THEN sent = 0
             ELSE /\ \A n \in wire.lengths : sent <= n
                  /\ \/ wire.lengths = {sent}
                     \/ /\ request.target = "file" /\ since = "shrunk"
                        /\ info.size >= zeroCopyThreshold_
                     \/ request.target = "gateway" /\ CutShort

\* No change has brought back a modification time and size; each has come with a
\* later time.
TagsTell  == IsInjective(prints)
DatesTell == \A i, j \in DOMAIN prints : i < j => prints[i].mtime < prints[j].mtime

\* After an answer during which the file was left alone the client has what is in
\* it: the body it got is that, or 304 was right about its copy.  So it is even
\* if its copy was made while the file changed, as long as the tags (or, for one
\* that has dates only, the dates) tell the contents apart (isNotModified(),
\* makeETag(), and stat() before open()).
CopyIsCurrent ==
    at = "sent" /\ request.target = "file" /\ since = "nothing" =>
        /\ wire.status = 200 /\ request.method = "GET" => wire.body = file.blocks
        /\ wire.status = 304 /\ client # "any"
           /\ (IF client \in {"tag", "both"} THEN TagsTell ELSE DatesTell) =>
               copy.blocks = file.blocks

\* Two digits do not tell a year from 2070 on, and those of 2000 are refused.
Ambiguous(d) == d.year % 100 = 0 \/ d.year >= 2070

\* A file that has not changed is not sent again to a client that asks for its
\* revalidation, in whatever form it writes the date, except for the years that two
\* digits do not tell (isNotModified(), parseHttpDate()).
UnchangedIsNotResent ==
    /\ at = "sent" /\ wire.status = 200 /\ since = "nothing"
    /\ request.ifNoneMatch # {} \/ request.ifModifiedSince # <<>>
    => \/ copy.etag # {Stamp(file)}
       \/ /\ client = "RFC850"
          /\ \A d \in copy.modified : Ambiguous(d)

\* Revalidation neither keeps a client with what is old nor sends it what it has
\* (serveStaticFile(), isNotModified()).
RevalidationIsRight == CopyIsCurrent /\ UnchangedIsNotResent

\* Whatever becomes of the file, and however an upstream whose answer has an end
\* stops before it, the thread that handles a request has done with it in the end
\* (forward()'s timeouts).
RequestsEnd == at = "handle" ~> at \in {"sent", "idle"}
=============================================================================
