---------------------------- MODULE RouterProofs ----------------------------
(***************************************************************************)
(* Proofs about Router, ReverseProxy, HttpResponse and HttpDate, for every *)
(* file, clock, upstream and client: what an answer opens is closed, an    *)
(* answer is as long as it says, and revalidation neither keeps a client   *)
(* with what is old nor sends it what it has.  The last rests on what      *)
(* HttpDate writes being read back, for which the calendar is proved to    *)
(* count days as it should.                                                *)
(***************************************************************************)
EXTENDS Router, CommonLemmas

-----------------------------------------------------------------------------
(* Types.                                                                  *)

Stamps == [mtime : Nat, size : Sizes]
IsAFile(f) == f \in [mtime : Nat, blocks : Seq(Nat), exists : BOOLEAN] /\ Len(f.blocks) \in Sizes

Stages == {"idle", "handle", "forward", "openBody", "openStream", "read", "respond",
           "sendfile", "sent"}
Methods == {"GET", "HEAD", "POST"}
Targets == {"file", "gateway", "unsafe", "/api/status"}

TypeInv ==
    /\ start \in Nat /\ clock \in start..(start + MaxTicks) /\ changes \in 1..MaxChanges
    /\ IsAFile(file) /\ IsAFile(unlinked) /\ info \in Stamps
    /\ fd \in {"none", "path", "unlinked"} /\ (fd = "unlinked" <=> unlinked.exists)
    /\ fd = "path" => file.exists
    /\ since \in {"nothing", "changed", "shrunk"}
    /\ at \in Stages /\ client \in Clients
    /\ prints \in Seq(Stamps) /\ prints # <<>>
    /\ at # "idle" => request.method \in Methods /\ request.target \in Targets

\* What is left open.
OpenInv ==
    /\ step = "no" => ~socket
    /\ at # "forward" => step = "no"
    /\ at \notin {"read", "respond", "sendfile"} => fd = "none"
    /\ at \in {"read", "sendfile"} => fd # "none"

\* What the upstream may have said.
IsReply(r) ==
    /\ r = [status |-> r.status, headers |-> r.headers, body |-> r.body]
    /\ r.status \in Nat /\ r.body \in Seq(ToSet(r.body))

ProxyInv ==
    /\ at \in {"idle", "handle"} => got = 0
    /\ at = "forward" => /\ request.target = "gateway" /\ step # "no"
                         /\ IsReply(reply) /\ got \in 0..Pieces(reply)

\* The same block again and again.
LEMMA WrittenIs ==
    ASSUME NEW change \in Nat, NEW size \in Nat
    PROVE  Written(change, size) \in Seq(Nat) /\ Len(Written(change, size)) = size
<1>1. Written(change, size) \in [1..size -> Nat]
  BY DEF Written
<1>2. Written(change, size) \in Seq(Nat)
  BY <1>1, SeqDef
<1>3. DOMAIN Written(change, size) = 1..size
  BY <1>1
<1>4. Len(Written(change, size)) = size
  BY <1>2, <1>3, LenProperties
<1>5. QED  BY <1>2, <1>4

LEMMA StampIs == ASSUME NEW f, IsAFile(f) PROVE Stamp(f) \in Stamps
BY DEF IsAFile, Stamp, Stamps

LEMMA NoFileIs == IsAFile(NoFile) /\ Len(NoFile.blocks) = 0 /\ ~NoFile.exists
<1>1. <<>> \in Seq(Nat) /\ Len(<<>>) = 0
  BY EmptySeq
<1>2. QED  BY <1>1, RouterAssumption DEF IsAFile, NoFile, Sizes

\* The ways the path comes to lead to something else.
LEMMA Changing ==
    ASSUME TypeInv, RemoveFile \/ \E size \in Sizes : WriteFile(size)
    PROVE  \E f, other :
              /\ IsAFile(f) /\ (f.exists \/ f = NoFile) /\ (~other => f.exists /\ file.exists)
              /\ Change(f, other) /\ changes' \in 1..MaxChanges
<1>1. CASE RemoveFile
  <2>1. Change(NoFile, TRUE)
    BY <1>1 DEF RemoveFile
  <2>2. changes' \in 1..MaxChanges
    BY <1>1, RouterAssumption DEF RemoveFile, TypeInv
  <2>3. QED  BY <2>1, <2>2, NoFileIs
<1>2. CASE \E size \in Sizes : WriteFile(size)
  <2>1. PICK size \in Sizes : WriteFile(size)
    BY <1>2
  <2>2. changes' \in 1..MaxChanges /\ start \in Nat /\ clock \in Nat
    BY <2>1, RouterAssumption DEF WriteFile, TypeInv
  <2> DEFINE blocks == Written(changes', size)
  <2>3. blocks \in Seq(Nat) /\ Len(blocks) = size
    BY <2>2, WrittenIs DEF Sizes
  <2>4. ASSUME NEW mtime \in Nat PROVE IsAFile(File(mtime, blocks)) /\ File(mtime, blocks).exists
    BY <2>3 DEF IsAFile, File
  <2>5. \/ file.exists /\ Change(File(clock, blocks), FALSE)
        \/ \E mtime \in {start, clock} : Change(File(mtime, blocks), TRUE)
    BY <2>1 DEF WriteFile
  <2>6. QED  BY <2>2, <2>4, <2>5
<1>3. QED  BY <1>1, <1>2

-----------------------------------------------------------------------------
(* Every step keeps the types.                                             *)

ServerStep == Handle \/ HandlePrefix \/ Forwarding \/ OpenBody \/ OpenStream \/ ReadFile
                \/ Respond \/ SendFile

LEMMA TypeStep == TypeInv /\ OpenInv /\ [Next]_vars => TypeInv'
<1> SUFFICES ASSUME TypeInv, OpenInv, [Next]_vars PROVE TypeInv'
  OBVIOUS
<1>0. NoInfo \in Stamps /\ IsAFile(NoFile) /\ ~NoFile.exists
  BY NoFileIs, RouterAssumption DEF NoInfo, Stamps, Sizes
<1>1. CASE RemoveFile \/ \E size \in Sizes : WriteFile(size)
  <2>1. PICK f, other :
              /\ IsAFile(f) /\ (f.exists \/ f = NoFile) /\ (~other => f.exists /\ file.exists)
              /\ Change(f, other) /\ changes' \in 1..MaxChanges
    BY <1>1, Changing
  <2>2. Stamp(f) \in Stamps
    BY <2>1, StampIs
  <2>3. prints' \in Seq(Stamps) /\ prints' # <<>>
    BY <2>1, <2>2, AppendProperties DEF Change, TypeInv
  <2>4. since' \in {"nothing", "changed", "shrunk"}
    BY <2>1 DEF Change
  <2>5. /\ file' = f /\ IsAFile(file') /\ IsAFile(unlinked')
        /\ fd' \in {"none", "path", "unlinked"} /\ (fd' = "unlinked" <=> unlinked'.exists)
        /\ fd' = "path" => file'.exists
    BY <2>1, <1>0 DEF Change, TypeInv
  <2>6. UNCHANGED <<start, clock, clientVars, at, info>>
    BY <2>1 DEF Change
  <2>7. QED  BY <2>1, <2>3, <2>4, <2>5, <2>6 DEF TypeInv, clientVars
<1>2. CASE Tick
  BY <1>2, RouterAssumption DEF Tick, TypeInv, clientVars, serverVars
<1>3. CASE \E r \in Requests : Ask(r[1], r[2])
  <2>1. PICK method \in Methods, target \in Targets : Ask(method, target)
    BY <1>3 DEF Requests, Methods, Targets
  <2>2. request'.method = method /\ request'.target = target
    BY <2>1 DEF Ask, Conditional, NoRequest
  <2>3. QED  BY <2>1, <2>2 DEF Ask, TypeInv, fileVars, Stages
<1>4. CASE Receive \/ Disconnect
  BY <1>4, <1>0 DEF Receive, Disconnect, Done, TypeInv, fileVars, Stages
<1>5. CASE Stat
  <2>1. info' \in Stamps
    BY <1>5, <1>0, StampIs DEF Stat, TypeInv
  <2>2. at' \in Stages
    BY <1>5 DEF Stat, Answer, Stages
  <2>3. QED  BY <1>5, <2>1, <2>2 DEF Stat, TypeInv, fileVars, clientVars
<1>6. CASE Handle \/ HandlePrefix \/ Forwarding
  <2>1. at' \in Stages
    BY <1>6 DEF Handle, HandlePrefix, Forwarding, Answer, Stages, TypeInv
  <2>2. UNCHANGED <<fileVars, clientVars, info, fd, unlinked, since>> /\ at # "idle"
    BY <1>6 DEF Handle, HandlePrefix, Forwarding
  <2>3. QED  BY <2>1, <2>2 DEF TypeInv, fileVars, clientVars
<1>7. CASE OpenBody \/ OpenStream
  <2>1. /\ at' \in Stages /\ at # "idle"
        /\ fd = "none" /\ (fd' = fd \/ (fd' = "path" /\ file.exists))
    BY <1>7 DEF OpenBody, OpenStream, Open, Answer, Stages, OpenInv
  <2>2. UNCHANGED <<fileVars, clientVars, info, unlinked, since>>
    BY <1>7 DEF OpenBody, OpenStream, Open
  <2>3. QED  BY <2>1, <2>2 DEF TypeInv, fileVars, clientVars
<1>8. CASE ReadFile
  BY <1>8, <1>0 DEF ReadFile, Answer, Close, TypeInv, fileVars, clientVars, Stages
<1>9. CASE Respond \/ SendFile
  BY <1>9, <1>0 DEF Respond, SendFile, Close, TypeInv, fileVars, Stages
<1>10. CASE Upstream \/ UNCHANGED vars
  BY <1>10 DEF Upstream, vars, TypeInv, fileVars, clientVars, serverVars
<1>11. QED
  BY <1>1, <1>2, <1>3, <1>4, <1>5, <1>6, <1>7, <1>8, <1>9, <1>10 DEF Next, Serve

-----------------------------------------------------------------------------
(* Every step keeps what is open, and what forward() has.                  *)

LEMMA OpenStep == TypeInv /\ OpenInv /\ [Next]_vars => OpenInv'
<1> SUFFICES ASSUME TypeInv, OpenInv, [Next]_vars PROVE OpenInv'
  OBVIOUS
<1> USE DEF OpenInv
<1>1. CASE RemoveFile \/ \E size \in Sizes : WriteFile(size)
  <2>1. PICK f, other : Change(f, other)
    BY <1>1, Changing
  <2>2. QED  BY <2>1 DEF Change, proxyVars
<1>2. CASE Forwarding
  <2>1. step' = "no" => ~socket'
    BY <1>2 DEF Forwarding, ProxyStep, OpenSocket, Resolve, Connect, Write, ReadPiece, ReadEnd,
                ReadTimeout, ReadFails, Return, Continue
  <2>2. step' = "no" \/ at' = "forward"
    BY <1>2 DEF Forwarding
  <2>3. fd' = "none" /\ at' \notin {"read", "sendfile"}
    BY <1>2 DEF Forwarding, Answer
  <2>4. QED  BY <2>1, <2>2, <2>3
<1>3. CASE Handle \/ HandlePrefix \/ Stat \/ OpenBody \/ OpenStream \/ ReadFile
  BY <1>3 DEF Handle, HandlePrefix, Forward, Stat, OpenBody, OpenStream, Open, ReadFile, Answer,
              Close, proxyVars
<1>4. CASE Respond \/ SendFile
  BY <1>4 DEF Respond, SendFile, Close, proxyVars
<1>5. CASE \E r \in Requests : Ask(r[1], r[2])
  BY <1>5 DEF Ask, proxyVars
<1>6. CASE Receive \/ Disconnect
  BY <1>6 DEF Receive, Disconnect, Done, Forget
<1>7. CASE Tick \/ Upstream \/ UNCHANGED vars
  BY <1>7 DEF Tick, Upstream, FallSilent, vars, serverVars, proxyVars
<1>8. QED
  BY <1>1, <1>2, <1>3, <1>4, <1>5, <1>6, <1>7 DEF Next, Serve

\* A reply is what the upstream may say, cut off for a HEAD.
LEMMA ReplyIs ==
    ASSUME NEW headOnly \in BOOLEAN, Forward(headOnly)
    PROVE  IsReply(reply')
<1>1. CASE headOnly
  <2>1. PICK r \in Replies : reply' = setBody(r, <<>>)
    BY <1>1 DEF Forward
  <2>2. r = [status |-> r.status, headers |-> r.headers, body |-> r.body] /\ r.status \in Nat
    BY ProxyAssumption
  <2>3. reply' = [status |-> r.status, headers |-> r.headers, body |-> <<>>]
    BY <2>1, <2>2 DEF setBody
  <2>4. <<>> \in Seq(ToSet(<<>>))
    BY EmptySeq
  <2>5. QED  BY <2>2, <2>3, <2>4 DEF IsReply
<1>2. CASE ~headOnly
  <2>1. reply' \in Replies
    BY <1>2 DEF Forward
  <2>2. QED  BY <2>1, ProxyAssumption DEF IsReply
<1>3. QED  BY <1>1, <1>2

LEMMA ProxyStepKeeps == TypeInv /\ OpenInv /\ ProxyInv /\ [Next]_vars => ProxyInv'
<1> SUFFICES ASSUME TypeInv, OpenInv, ProxyInv, [Next]_vars PROVE ProxyInv'
  OBVIOUS
<1> USE DEF ProxyInv
<1>1. CASE RemoveFile \/ \E size \in Sizes : WriteFile(size)
  <2>1. PICK f, other : Change(f, other)
    BY <1>1, Changing
  <2>2. QED  BY <2>1 DEF Change, proxyVars, upstreamVars, clientVars, Pieces
<1>2. CASE HandlePrefix
  <2>1. IsReply(reply')
    BY <1>2, ReplyIs DEF HandlePrefix
  <2>2. Len(reply'.body) \in Nat
    BY <2>1, LenProperties DEF IsReply
  <2>3. got' = 0 /\ request'.target = "gateway" /\ step' = "socket" /\ at' = "forward"
    BY <1>2 DEF HandlePrefix, Forward, clientVars
  <2>4. QED  BY <2>1, <2>2, <2>3 DEF Pieces
<1>3. CASE Forwarding
  <2>1. /\ UNCHANGED <<reply, request>>
        /\ got' = got \/ (got' = got + 1 /\ got < Pieces(reply))
    BY <1>3 DEF Forwarding, ProxyStep, OpenSocket, Resolve, Connect, Write, ReadPiece, ReadEnd,
                ReadTimeout, ReadFails, Return, Continue, upstreamVars, clientVars
  <2>2. (step' = "no" /\ at' = "respond") \/ (step' # "no" /\ at' = "forward")
    BY <1>3 DEF Forwarding, Answer
  <2>3. Len(reply.body) \in Nat /\ got \in 0..Pieces(reply)
    BY <1>3, LenProperties DEF IsReply, Forwarding
  <2>4. got' \in 0..Pieces(reply)
    BY <2>1, <2>3 DEF Pieces
  <2>5. QED  BY <1>3, <2>1, <2>2, <2>4 DEF Forwarding
<1>4. CASE Handle \/ Stat \/ OpenBody \/ OpenStream \/ ReadFile
  BY <1>4 DEF Handle, Stat, OpenBody, OpenStream, Open, ReadFile, Answer, Close, proxyVars
<1>5. CASE Respond \/ SendFile
  BY <1>5 DEF Respond, SendFile, Close, proxyVars
<1>6. CASE \E r \in Requests : Ask(r[1], r[2])
  BY <1>6 DEF Ask, proxyVars
<1>7. CASE Receive \/ Disconnect
  BY <1>7 DEF Receive, Disconnect, Done, Forget
<1>8. CASE Tick \/ Upstream \/ UNCHANGED vars
  BY <1>8 DEF Tick, Upstream, FallSilent, vars, serverVars, clientVars, proxyVars, upstreamVars, Pieces
<1>9. QED
  BY <1>1, <1>2, <1>3, <1>4, <1>5, <1>6, <1>7, <1>8 DEF Next, Serve

-----------------------------------------------------------------------------
(* An answer from its making to its end.                                   *)

Opening == {"openBody", "openStream", "read"}
Validating == {200, 304}

IsFileRequest == request.target = "file" /\ request.method \in {"GET", "HEAD"}

\* What is made of the answer comes from what stat() told.
FromStat ==
    \/ at \in Opening \cup {"sendfile"}
    \/ at = "respond" /\ request.target = "file" /\ response.status \in Validating
    \/ at = "sent" /\ request.target = "file" /\ wire.status \in Validating

\* The file that is open, and the one at the path, since stat().
FileKept ==
    /\ since # "shrunk" => info.size <= Len(file.blocks)
    /\ fd = "unlinked" => /\ since # "nothing"
                          /\ since # "shrunk" => info.size <= Len(unlinked.blocks)

\* What stat() told is what the file was at some time; it still is if nothing happened.
Known ==
    /\ file.exists => Stamp(file) = prints[Len(prints)]
    /\ FromStat => \E i \in DOMAIN prints :
                      /\ info = prints[i]
                      /\ since = "nothing" <=> (i = Len(prints) /\ file.exists)

\* Blocks read from the file, and all of them.
IsTaken(body) ==
    /\ body \in Seq(Nat) /\ Len(body) <= info.size
    /\ since = "nothing" => \A i \in 1..Len(body) : body[i] = file.blocks[i]
IsWhole(body) ==
    /\ body \in Seq(Nat) /\ Len(body) <= info.size
    /\ since = "nothing" => body = file.blocks

OfFile(status, body) == setBody(Validated(Response(status), info), body)
FileBody == setHeader(OfFile(200, <<>>), "Content-Length", info.size)

\* An answer, other than to a HEAD, with a body that is as long as it says, or as its
\* upstream said.
Measured(r) ==
    /\ Len(r.body) \in Nat
    /\ request.method # "HEAD" =>
          \/ PassedOn(r)
          \/ /\ \A n \in r.lengths : Len(r.body) <= n
             /\ r.lengths = {Len(r.body)} \/ (request.target = "gateway" /\ CutShort)
             /\ r.status = 304 => r.body = <<>>

FileAnswer ==
    \/ response \in {notFound, methodNotAllowed}
    \/ response = OfFile(304, <<>>) /\ isNotModified(info)
    \/ \E body : response = OfFile(200, body) /\ IsWhole(body) /\ ~isNotModified(info)

AnswerInv ==
    /\ at \in Opening => IsFileRequest /\ ~isNotModified(info)
    /\ at = "openBody" => info.size >= zeroCopyThreshold_
    /\ at = "read" => \E body : response = OfFile(200, body) /\ IsTaken(body)
    /\ at = "respond" =>
          IF fd # "none"
          THEN /\ IsFileRequest /\ info.size >= zeroCopyThreshold_ /\ ~isNotModified(info)
               /\ response = FileBody
          ELSE IF request.target = "file" THEN FileAnswer
               ELSE Measured(serialize(response, TRUE))

\* The answer as it is sent.
Sending(body) ==
    wire = [status |-> 200, lengths |-> {info.size}, etag |-> {makeETag(info)},
            modified |-> {formatHttpDate(info.mtime)}, body |-> body]

Sent200 ==
    /\ wire.status = 200
    /\ wire.etag = {makeETag(info)} /\ wire.modified = {formatHttpDate(info.mtime)}
    /\ wire.body \in Seq(Nat) /\ Len(wire.body) <= info.size
    /\ since = "nothing" /\ request.method = "GET" => wire.body = file.blocks
    /\ ~isNotModified(info)

SentInv ==
    /\ at = "sendfile" =>
          /\ request.target = "file" /\ request.method = "GET"
          /\ info.size >= zeroCopyThreshold_ /\ ~isNotModified(info)
          /\ \E body : Sending(body) /\ IsTaken(body)
    /\ at = "sent" =>
          /\ Delimited
          /\ request.target = "file" => \/ wire.status \in {404, 405}
                                        \/ wire.status = 304 /\ isNotModified(info)
                                        \/ Sent200

MadeInv == FileKept /\ Known /\ AnswerInv /\ SentInv

\* The headers of a file, and what the client is told.
TagAndDate ==
    [n \in {"ETag", "Last-Modified"} |->
        IF n = "ETag" THEN makeETag(info) ELSE formatHttpDate(info.mtime)]

LEMMA ValidatedIs ==
    ASSUME NEW status
    PROVE  Validated(Response(status), info) =
              [status |-> status, headers |-> TagAndDate, body |-> <<>>]
<1>1. setHeader(Response(status), "ETag", makeETag(info)) =
         [status |-> status, headers |-> [n \in {"ETag"} |-> makeETag(info)], body |-> <<>>]
  <2>1. [n \in DOMAIN NoHeaders \cup {"ETag"} |->
            IF n = "ETag" THEN makeETag(info) ELSE NoHeaders[n]] = [n \in {"ETag"} |-> makeETag(info)]
    BY DEF NoHeaders
  <2>2. QED  BY <2>1 DEF setHeader, Response
<1>2. QED
  <2> DEFINE tag == [n \in {"ETag"} |-> makeETag(info)]
             r == [status |-> status, headers |-> tag, body |-> <<>>]
  <2>1. DOMAIN tag \cup {"Last-Modified"} = {"ETag", "Last-Modified"} /\ tag["ETag"] = makeETag(info)
    OBVIOUS
  <2>2. [n \in DOMAIN tag \cup {"Last-Modified"} |->
            IF n = "Last-Modified" THEN formatHttpDate(info.mtime) ELSE tag[n]] = TagAndDate
    BY <2>1 DEF TagAndDate
  <2>3. r.headers = tag
    OBVIOUS
  <2>4. setHeader(r, "Last-Modified", formatHttpDate(info.mtime)) = [r EXCEPT !.headers = TagAndDate]
    BY <2>2, <2>3 DEF setHeader
  <2>5. QED  BY <1>1, <2>4 DEF Validated

LEMMA OfFileIs ==
    ASSUME NEW status, NEW body
    PROVE  /\ OfFile(status, body) = [status |-> status, headers |-> TagAndDate, body |-> body]
           /\ OfFile(status, <<>>) = Validated(Response(status), info)
           /\ \A other : setBody(OfFile(status, other), body) = OfFile(status, body)
<1>1. \A b : OfFile(status, b) = [status |-> status, headers |-> TagAndDate, body |-> b]
  BY ValidatedIs DEF OfFile, setBody
<1>2. \A b : setBody([status |-> status, headers |-> TagAndDate, body |-> b], body) =
                [status |-> status, headers |-> TagAndDate, body |-> body]
  BY DEF setBody
<1>3. QED  BY <1>1, <1>2, ValidatedIs

LEMMA PlainFile ==
    /\ OfFile(304, <<>>) = Validated(Response(304), info)
    /\ OfFile(200, <<>>) = Validated(Response(200), info)
BY OfFileIs

LEMMA SerializedFile ==
    ASSUME NEW status, NEW body, NEW include \in BOOLEAN
    PROVE  serialize(OfFile(status, body), include) =
              [status |-> status, lengths |-> {Len(body)}, etag |-> {makeETag(info)},
               modified |-> {formatHttpDate(info.mtime)},
               body |-> IF include THEN body ELSE <<>>]
<1> DEFINE r == [status |-> status, headers |-> TagAndDate, body |-> body]
<1>1. DOMAIN TagAndDate = {"ETag", "Last-Modified"}
  BY DEF TagAndDate
<1>2. UNION {Header(r, name) : name \in LengthNames} = {}
  BY <1>1 DEF Header, LengthNames
<1>3. Header(r, "ETag") = {makeETag(info)} /\ Header(r, "Last-Modified") = {formatHttpDate(info.mtime)}
  BY DEF Header, TagAndDate
<1>4. {Len(body)} = (UNION {Header(r, name) : name \in LengthNames}) \cup
                    (IF "Content-Length" \in DOMAIN r.headers THEN {} ELSE {Len(r.body)})
  <2>1. r.headers = TagAndDate /\ r.body = body
    OBVIOUS
  <2> HIDE DEF r
  <2>2. QED  BY <1>1, <1>2, <2>1
<1>5. r.status = status /\ r.body = body /\ OfFile(status, body) = r
  BY OfFileIs
<1> HIDE DEF r
<1>6. QED  BY <1>3, <1>4, <1>5, ZenonT(60) DEF serialize

LEMMA SerializedBody ==
    ASSUME NEW include \in BOOLEAN
    PROVE  /\ FileBody.status = 200
           /\ serialize(FileBody, include) =
                 [status |-> 200, lengths |-> {info.size}, etag |-> {makeETag(info)},
                  modified |-> {formatHttpDate(info.mtime)}, body |-> <<>>]
<1> DEFINE headers == [n \in {"ETag", "Last-Modified", "Content-Length"} |->
                         IF n = "Content-Length" THEN info.size
                         ELSE IF n = "ETag" THEN makeETag(info) ELSE formatHttpDate(info.mtime)]
           r == [status |-> 200, headers |-> headers, body |-> <<>>]
<1>1. FileBody = r
  <2>1. OfFile(200, <<>>) = [status |-> 200, headers |-> TagAndDate, body |-> <<>>]
    BY OfFileIs
  <2>2. [n \in DOMAIN TagAndDate \cup {"Content-Length"} |->
            IF n = "Content-Length" THEN info.size ELSE TagAndDate[n]] = headers
    BY DEF TagAndDate
  <2>3. QED  BY <2>1, <2>2 DEF FileBody, setHeader
<1>2. UNION {Header(r, name) : name \in LengthNames} = {info.size} /\ "Content-Length" \in DOMAIN headers
  BY DEF Header, LengthNames
<1>3. Header(r, "ETag") = {makeETag(info)} /\ Header(r, "Last-Modified") = {formatHttpDate(info.mtime)}
  BY DEF Header
<1>4. {info.size} = (UNION {Header(r, name) : name \in LengthNames}) \cup
                    (IF "Content-Length" \in DOMAIN r.headers THEN {} ELSE {Len(r.body)})
  BY <1>2
<1>5. r.status = 200 /\ (IF include THEN r.body ELSE <<>>) = <<>>
  OBVIOUS
<1> HIDE DEF r
<1>6. serialize(r, include) =
         [status |-> 200, lengths |-> {info.size}, etag |-> {makeETag(info)},
          modified |-> {formatHttpDate(info.mtime)}, body |-> <<>>]
  BY <1>3, <1>4, <1>5 DEF serialize
<1>7. QED  BY <1>1, <1>5, <1>6

LEMMA SerializedFailure ==
    ASSUME NEW status, NEW body, NEW include \in BOOLEAN
    PROVE  serialize(setBody(Response(status), body), include) =
              [status |-> status, lengths |-> {Len(body)}, etag |-> {}, modified |-> {},
               body |-> IF include THEN body ELSE <<>>]
<1> DEFINE r == [status |-> status, headers |-> NoHeaders, body |-> body]
<1>1. setBody(Response(status), body) = r /\ DOMAIN NoHeaders = {}
  BY DEF setBody, Response, NoHeaders
<1>2. \A name : Header(r, name) = {}
  BY <1>1 DEF Header
<1>3. UNION {Header(r, name) : name \in LengthNames} = {}
  BY <1>2
<1>4. {Len(body)} = (UNION {Header(r, name) : name \in LengthNames}) \cup
                    (IF "Content-Length" \in DOMAIN r.headers THEN {} ELSE {Len(r.body)})
  <2>1. r.headers = NoHeaders /\ r.body = body
    OBVIOUS
  <2> HIDE DEF r
  <2>2. QED  BY <1>1, <1>3, <2>1
<1>5. r.status = status /\ r.body = body
  OBVIOUS
<1> HIDE DEF r
<1>6. QED  BY <1>1, <1>2, <1>4, <1>5 DEF serialize

-----------------------------------------------------------------------------
LEMMA KeptStep == TypeInv /\ OpenInv /\ FileKept /\ [Next]_vars => FileKept'
<1> SUFFICES ASSUME TypeInv, OpenInv, FileKept, [Next]_vars PROVE FileKept'
  OBVIOUS
<1> USE DEF FileKept
<1>1. CASE RemoveFile \/ \E size \in Sizes : WriteFile(size)
  <2>1. PICK f, other : IsAFile(f) /\ Change(f, other)
    BY <1>1, Changing
  <2>2. Len(f.blocks) \in Nat /\ info.size \in Nat
    BY <2>1 DEF IsAFile, Sizes, TypeInv, Stamps
  <2>3. since' # "nothing" /\ (since' # "shrunk" => since # "shrunk" /\ info.size <= Len(f.blocks))
    BY <2>1, <2>2 DEF Change
  <2>4. QED  BY <2>1, <2>3 DEF Change
<1>2. CASE Stat
  <2>1. NoInfo.size = 0 /\ \A n \in Nat : 0 <= n
    BY DEF NoInfo
  <2>2. info'.size <= Len(file.blocks)
    BY <1>2, <2>1 DEF Stat, Stamp, TypeInv, IsAFile, Sizes
  <2>3. fd' = "none" /\ file' = file
    BY <1>2 DEF Stat, OpenInv, fileVars
  <2>4. QED  BY <2>2, <2>3
<1>3. CASE Receive \/ Disconnect
  <2>1. info' = NoInfo /\ fd' = "none" /\ file' = file
    BY <1>3 DEF Receive, Disconnect, Done, fileVars
  <2>2. QED  BY <2>1 DEF NoInfo, TypeInv, IsAFile, Sizes
<1>4. CASE Handle \/ HandlePrefix \/ Forwarding \/ Upstream \/ Tick \/ UNCHANGED vars
  BY <1>4 DEF Handle, HandlePrefix, Forwarding, Upstream, Tick, vars, fileVars, serverVars
<1>5. CASE \E r \in Requests : Ask(r[1], r[2])
  BY <1>5 DEF Ask, fileVars
<1>6. CASE OpenBody \/ OpenStream
  <2>1. fd' # "unlinked"
    BY <1>6 DEF OpenBody, OpenStream, Open, OpenInv
  <2>2. QED  BY <1>6, <2>1 DEF OpenBody, OpenStream, Open, fileVars
<1>7. CASE ReadFile \/ Respond \/ SendFile
  BY <1>7 DEF ReadFile, Respond, SendFile, Close, fileVars
<1>8. QED
  BY <1>1, <1>2, <1>3, <1>4, <1>5, <1>6, <1>7 DEF Next, Serve

\* Nobody but the file's editor and stat() touches what `Known' is about.
LEMMA KnownStays ==
    ASSUME Known, UNCHANGED <<file, prints, since, info>>, FromStat' => FromStat
    PROVE  Known'
BY DEF Known

LEMMA KnownStep == TypeInv /\ OpenInv /\ ProxyInv /\ MadeInv /\ [Next]_vars => Known'
<1> SUFFICES ASSUME TypeInv, OpenInv, ProxyInv, MadeInv, [Next]_vars PROVE Known'
  OBVIOUS
<1>a. Known /\ AnswerInv /\ SentInv
  BY DEF MadeInv
<1>1. CASE RemoveFile \/ \E size \in Sizes : WriteFile(size)
  <2>1. PICK f, other : IsAFile(f) /\ Change(f, other) /\ (f.exists \/ f = NoFile)
    BY <1>1, Changing
  <2>2. since' # "nothing" /\ file' = f /\ (FromStat' <=> FromStat) /\ info' = info
    BY <2>1 DEF Change, FromStat, clientVars
  <2>3. CASE f.exists
    <3>1. prints' = Append(prints, Stamp(f)) /\ Stamp(f) \in Stamps
      BY <2>1, <2>3, StampIs DEF Change
    <3>2. /\ Len(prints') = Len(prints) + 1 /\ prints'[Len(prints')] = Stamp(f)
          /\ \A i \in 1..Len(prints) : prints'[i] = prints[i]
          /\ prints' \in Seq(Stamps) /\ Len(prints) \in Nat
      BY <3>1, AppendProperties, LenProperties DEF TypeInv
    <3>3. DOMAIN prints = 1..Len(prints) /\ DOMAIN prints' = 1..Len(prints')
      BY <3>2, LenProperties DEF TypeInv
    <3>4. \A i \in DOMAIN prints : i \in DOMAIN prints' /\ i # Len(prints') /\ prints'[i] = prints[i]
      BY <3>2, <3>3
    <3>5. QED  BY <1>a, <2>2, <3>2, <3>4 DEF Known
  <2>4. CASE ~f.exists
    BY <1>a, <2>1, <2>2, <2>4 DEF Known, Change
  <2>5. QED  BY <2>3, <2>4
<1>2. CASE Stat
  <2>1. UNCHANGED <<file, prints>> /\ since' = "nothing"
    BY <1>2 DEF Stat, fileVars
  <2>2. CASE file.exists
    <3>1. info' = prints[Len(prints)] /\ Len(prints) \in DOMAIN prints
      BY <1>2, <1>a, <2>2, EmptySeq, LenProperties DEF Stat, Known, TypeInv
    <3>2. QED  BY <1>a, <2>1, <2>2, <3>1 DEF Known
  <2>3. CASE ~file.exists
    <3>1. at' = "respond" /\ response' = notFound
      BY <1>2, <2>3 DEF Stat, Answer
    <3>2. ~FromStat'
      BY <3>1 DEF FromStat, notFound, Failure, setBody, Response, Opening, Validating
    <3>3. QED  BY <2>1, <2>3, <3>2 DEF Known
  <2>4. QED  BY <2>2, <2>3
<1>3. CASE Receive \/ Disconnect
  <2>1. ~FromStat' /\ UNCHANGED <<file, prints>>
    BY <1>3 DEF Receive, Disconnect, Done, FromStat, Opening, fileVars
  <2>2. QED  BY <1>a, <2>1 DEF Known
<1>4. CASE \E r \in Requests : Ask(r[1], r[2])
  <2>1. ~FromStat' /\ UNCHANGED <<file, prints>>
    BY <1>4 DEF Ask, FromStat, Opening, fileVars
  <2>2. QED  BY <1>a, <2>1 DEF Known
<1>5. CASE Handle \/ HandlePrefix \/ Forwarding
  <2>1. UNCHANGED <<file, prints, since, info, request>>
    BY <1>5 DEF Handle, HandlePrefix, Forwarding, fileVars, clientVars
  <2>2. ~FromStat'
    <3>1. CASE HandlePrefix
      BY <3>1 DEF HandlePrefix, FromStat, Opening
    <3>2. CASE Handle
      <4>1. at' = "respond" /\ (request.target # "file" \/ response' = methodNotAllowed)
        BY <3>2 DEF Handle, Answer
      <4>2. QED
        BY <4>1, <2>1 DEF FromStat, Opening, methodNotAllowed, Failure, setBody, Response, Validating
    <3>3. CASE Forwarding
      <4>1. at' \in {"forward", "respond"} /\ request.target = "gateway"
        BY <3>3 DEF Forwarding, Answer, ProxyInv
      <4>2. QED  BY <4>1, <2>1 DEF FromStat, Opening
    <3>4. QED  BY <1>5, <3>1, <3>2, <3>3
  <2>3. QED  BY <2>1, <2>2, KnownStays, <1>a
<1>6. CASE OpenBody \/ OpenStream
  <2>1. UNCHANGED <<file, prints, since, info, request>> /\ FromStat
    BY <1>6 DEF OpenBody, OpenStream, Open, fileVars, clientVars, FromStat, Opening
  <2>2. QED  BY <2>1, KnownStays, <1>a
<1>7. CASE ReadFile \/ SendFile
  <2>1. UNCHANGED <<file, prints, since, info, request>> /\ FromStat
    BY <1>7 DEF ReadFile, SendFile, fileVars, clientVars, FromStat, Opening
  <2>2. QED  BY <2>1, KnownStays, <1>a
<1>8. CASE Respond
  <2>1. UNCHANGED <<file, prints, since, info, request>>
    BY <1>8 DEF Respond, fileVars
  <2>2. FromStat' => FromStat
    <3>1. wire'.status = response.status
      BY <1>8 DEF Respond, serialize
    <3>2. at = "respond" /\ at' \in {"sendfile", "sent"} /\ (at' = "sendfile" => fd # "none")
      BY <1>8 DEF Respond
    <3>3. fd # "none" => request.target = "file" /\ response.status = 200
      BY <1>a, <3>2, SerializedBody DEF AnswerInv, IsFileRequest
    <3>4. QED  BY <2>1, <3>1, <3>2, <3>3 DEF FromStat, Opening, Validating
  <2>3. QED  BY <2>1, <2>2, KnownStays, <1>a
<1>9. CASE Upstream \/ Tick \/ UNCHANGED vars
  <2>1. UNCHANGED <<file, prints, since, info, request, at, response, wire>>
    BY <1>9 DEF Upstream, Tick, vars, fileVars, serverVars, clientVars
  <2>2. QED  BY <2>1, KnownStays, <1>a DEF FromStat
<1>10. QED
  BY <1>1, <1>2, <1>3, <1>4, <1>5, <1>6, <1>7, <1>8, <1>9 DEF Next, Serve

-----------------------------------------------------------------------------
(* Reading the file.                                                       *)

LEMMA Unchanged ==
    ASSUME TypeInv, Known, FromStat, since = "nothing"
    PROVE  file.exists /\ info = Stamp(file)
BY DEF Known

LEMMA TakeNext ==
    ASSUME TypeInv, OpenInv, FileKept, NEW body, IsTaken(body), fd # "none", More(body)
    PROVE  IsTaken(WithNext(body))
<1> DEFINE block == Opened.blocks[Len(body) + 1]
<1>1. Opened.blocks \in Seq(Nat) /\ (since = "nothing" => Opened = file)
  BY DEF Opened, TypeInv, IsAFile, FileKept
<1>2. body \in Seq(Nat) /\ Len(body) \in Nat /\ Len(Opened.blocks) \in Nat /\ info.size \in Nat
  BY <1>1, LenProperties DEF IsTaken, TypeInv, Stamps, Sizes
<1>3. block \in Nat
  BY <1>1, <1>2, ElementOfSeq DEF More
<1>4. /\ WithNext(body) \in Seq(Nat) /\ Len(WithNext(body)) = Len(body) + 1
      /\ \A i \in 1..Len(body) : WithNext(body)[i] = body[i]
      /\ WithNext(body)[Len(body) + 1] = block
  BY <1>2, <1>3, AppendProperties DEF WithNext
<1>5. Len(body) + 1 <= info.size
  BY <1>2 DEF More
<1>6. ASSUME since = "nothing", NEW i \in 1..Len(WithNext(body)) PROVE WithNext(body)[i] = file.blocks[i]
  <2>1. CASE i \in 1..Len(body)
    BY <1>4, <1>6, <2>1 DEF IsTaken
  <2>2. CASE i = Len(body) + 1
    BY <1>1, <1>4, <1>6, <2>2
  <2>3. QED  BY <1>2, <1>4, <2>1, <2>2
<1>7. QED  BY <1>4, <1>5, <1>6 DEF IsTaken

LEMMA TakeAll ==
    ASSUME TypeInv, FileKept, Known, FromStat, NEW body, IsTaken(body), fd # "none", ~More(body)
    PROVE  IsWhole(body) /\ (since # "shrunk" => Len(body) = info.size)
<1>1. /\ body \in Seq(Nat) /\ Len(body) \in Nat /\ info.size \in Nat
      /\ Len(file.blocks) \in Nat /\ Len(unlinked.blocks) \in Nat
  BY LenProperties DEF IsTaken, TypeInv, Stamps, Sizes, IsAFile
<1>2. ASSUME since # "shrunk" PROVE Len(body) = info.size
  BY <1>1, <1>2 DEF IsTaken, More, Opened, FileKept, TypeInv
<1>3. ASSUME since = "nothing" PROVE body = file.blocks
  <2>1. Len(file.blocks) = info.size
    BY <1>3, Unchanged DEF Stamp
  <2>2. Len(body) = info.size /\ file.blocks \in Seq(Nat)
    BY <1>2, <1>3 DEF TypeInv, IsAFile
  <2>3. QED  BY <1>1, <1>3, <2>1, <2>2, SeqEqual DEF IsTaken
<1>4. QED  BY <1>2, <1>3 DEF IsTaken, IsWhole

-----------------------------------------------------------------------------
(* What forward() returns is as long as it says.                           *)

\* What the server says of its own accord.
IsText(r) == \E status, body : status # 304 /\ Len(body) = 1 /\ r = setBody(Response(status), body)

LEMMA Texts ==
    /\ IsText(badRequest) /\ IsText(notFound) /\ IsText(methodNotAllowed)
    /\ IsText(badGateway) /\ IsText(gatewayTimeout)
    /\ IsText(setBody(Response(200), <<"raw">>)) /\ IsText(setBody(Response(200), <<"status">>))
<1>1. ASSUME NEW status, status # 304, NEW block PROVE IsText(setBody(Response(status), <<block>>))
  <2>1. Len(<<block>>) = 1
    OBVIOUS
  <2>2. QED  BY <1>1, <2>1 DEF IsText
<1>2. QED  BY <1>1 DEF badRequest, notFound, methodNotAllowed, badGateway, gatewayTimeout, Failure

LEMMA TextMeasured ==
    ASSUME NEW text, IsText(text)
    PROVE  Measured(serialize(text, TRUE))
<1>1. PICK status, body : status # 304 /\ Len(body) = 1 /\ text = setBody(Response(status), body)
  BY DEF IsText
<1> DEFINE r == serialize(text, TRUE)
<1>2. r = [status |-> status, lengths |-> {Len(body)}, etag |-> {}, modified |-> {}, body |-> body]
  BY <1>1, SerializedFailure
<1> HIDE DEF r
<1>3. r.status # 304 /\ r.lengths = {1} /\ Len(r.body) = 1
  BY <1>1, <1>2
<1>4. Measured(r)
  BY <1>3 DEF Measured
<1>5. QED  BY <1>4 DEF r

LEMMA ParsedMeasured ==
    ASSUME IsReply(reply), got \in 0..Pieces(reply),
           request.target = "gateway"
    PROVE  Measured(serialize(ParseReply, TRUE))
<1>1. reply.body \in Seq(ToSet(reply.body)) /\ Len(reply.body) \in Nat /\ got \in Nat
  BY LenProperties DEF IsReply, Pieces
<1>2. CASE got \in {0, 1} \/ reply.status = 0
  <2>1. ParseReply \in {badGateway, setBody(Response(200), <<"raw">>)}
    BY <1>2 DEF ParseReply
  <2>2. QED  BY <2>1, Texts, TextMeasured
<1>3. CASE got \notin {0, 1} /\ reply.status # 0
  <2> DEFINE body == SubSeq(reply.body, 1, got - 2)
             r == [status |-> reply.status, headers |-> Copied(reply), body |-> body]
             told == UNION {Header(r, name) : name \in LengthNames}
             sent == Len(body)
             answer == serialize(ParseReply, TRUE)
  <2>1. ParseReply = r
    BY <1>3 DEF ParseReply
  <2>2. got - 2 \in Nat /\ got - 2 <= Len(reply.body)
    BY <1>1, <1>3 DEF Pieces
  <2>3. sent = got - 2
    <3>1. \A i \in 1..(got - 2) : reply.body[i] \in ToSet(reply.body)
      BY <1>1, <2>2, ElementOfSeq
    <3>2. Len(SubSeq(reply.body, 1, got - 2)) = IF 1 <= got - 2 THEN (got - 2) - 1 + 1 ELSE 0
      BY <2>2, <3>1, SubSeqProperties
    <3>3. QED  BY <2>2, <3>2
  <2>4. told \subseteq Announced(reply)
    <3>0. SUFFICES ASSUME NEW n \in told PROVE n \in Announced(reply)
      OBVIOUS
    <3>1. PICK name \in LengthNames : n \in Header(r, name)
      OBVIOUS
    <3>2. name \in DOMAIN Copied(reply) /\ n = Copied(reply)[name]
      BY <3>1 DEF Header
    <3>3. name \in DOMAIN reply.headers /\ n = reply.headers[name]
      BY <3>2 DEF Copied
    <3>4. QED  BY <3>1, <3>3 DEF Announced
  <2>5. reply.body = <<>> => body = <<>>
    <3>1. ASSUME reply.body = <<>> PROVE body = <<>>
      <4>1. got - 2 = 0
        BY <2>2, <3>1, EmptySeq
      <4>2. QED  BY <4>1, SubSeqEmpty
    <3>2. QED  BY <3>1
  <2>6. /\ answer.status = reply.status /\ answer.body = body
        /\ answer.lengths = told \cup (IF "Content-Length" \in DOMAIN r.headers THEN {} ELSE {sent})
    BY <2>1 DEF serialize
  <2>7. told # {} \/ "Content-Length" \notin DOMAIN r.headers
    <3>1. SUFFICES ASSUME "Content-Length" \in DOMAIN r.headers PROVE told # {}
      OBVIOUS
    <3>2. r.headers["Content-Length"] \in Header(r, "Content-Length")
      BY <3>1 DEF Header
    <3>3. QED  BY <3>2 DEF LengthNames
  <2> HIDE DEF told, sent, r
  <2>8. ASSUME Truthful(reply)
        PROVE  /\ \A n \in answer.lengths : sent <= n
               /\ answer.lengths = {sent} \/ (request.target = "gateway" /\ CutShort)
               /\ answer.status = 304 => answer.body = <<>>
    <3>0. told \subseteq {Len(reply.body)} /\ (reply.status = 304 => reply.body = <<>>)
      BY <2>4, <2>8 DEF Truthful
    <3>1. /\ answer.lengths \subseteq {sent, Len(reply.body)} /\ answer.lengths # {}
          /\ sent \in Nat /\ sent <= Len(reply.body)
      BY <2>2, <2>3, <2>6, <2>7, <3>0
    <3>2. sent # Len(reply.body) => CutShort
      BY <1>1, <2>2, <2>3 DEF CutShort, Pieces
    <3>3. answer.status = 304 => answer.body = <<>>
      BY <2>5, <2>6, <3>0
    <3> HIDE DEF answer
    <3>4. QED  BY <1>1, <3>1, <3>2, <3>3
  <2>9. Len(answer.body) = sent /\ sent \in Nat /\ sent <= Len(reply.body)
    BY <1>1, <2>2, <2>3, <2>6 DEF sent
  <2>10. answer.lengths \subseteq Announced(reply) \cup {Len(answer.body)}
    BY <2>4, <2>6, <2>9
  <2> HIDE DEF answer
  <2>11. ASSUME Truthful(reply) PROVE Measured(answer)
    BY <2>8, <2>9, <2>11 DEF Measured
  <2>12. ASSUME ~Truthful(reply) PROVE Measured(answer)
    BY <2>9, <2>10, <2>12 DEF Measured, PassedOn
  <2>13. Measured(answer)
    BY <2>11, <2>12
  <2>14. QED  BY <2>13 DEF answer
<1>4. QED  BY <1>2, <1>3

-----------------------------------------------------------------------------
(* Every step keeps the answer right.                                      *)

\* What others do, the file's editor among them, leaves the answer right.
LEMMA AnswerStays ==
    ASSUME AnswerInv, UNCHANGED <<at, info, response, request, got, reply>>,
           fd # "none" <=> fd' # "none", since' # "nothing" \/ UNCHANGED <<since, file>>
    PROVE  AnswerInv'
<1>1. \A body : (IsTaken(body) => IsTaken(body)') /\ (IsWhole(body) => IsWhole(body)')
  BY DEF IsTaken, IsWhole
<1>2. \A status, body : OfFile(status, body)' = OfFile(status, body)
  BY DEF OfFile
<1>3. FileBody' = FileBody /\ IsFileRequest' = IsFileRequest /\ isNotModified(info)' = isNotModified(info)
  BY DEF FileBody, OfFile, IsFileRequest, isNotModified
<1>4. Measured(serialize(response, TRUE))' = Measured(serialize(response, TRUE))
  BY DEF Measured, CutShort, PassedOn
<1>5. FileAnswer => FileAnswer'
  BY <1>1, <1>2, <1>3 DEF FileAnswer
<1>6. QED  BY <1>1, <1>2, <1>3, <1>4, <1>5 DEF AnswerInv

LEMMA AnswerAfterStat ==
    ASSUME TypeInv, OpenInv, Stat
    PROVE  AnswerInv'
<1>1. /\ IsFileRequest' /\ fd' = "none" /\ since' = "nothing" /\ file' = file
      /\ at' \in {"openBody", "openStream", "respond"}
  BY DEF Stat, OpenInv, IsFileRequest, Answer, fileVars, clientVars
<1>2. isNotModified(info)' = isNotModified(info')
  BY DEF Stat, isNotModified, clientVars
<1>3. CASE ~file.exists
  <2>1. at' = "respond" /\ response' = notFound
    BY <1>3 DEF Stat, Answer
  <2>2. QED  BY <1>1, <2>1 DEF AnswerInv, IsFileRequest, Opening, FileAnswer
<1>4. CASE file.exists
  <2>1. info' = Stamp(file) /\ info'.size = Len(file.blocks)
    BY <1>4 DEF Stat, Stamp
  <2>2. ASSUME at' = "respond" PROVE FileAnswer'
    <3>1. CASE isNotModified(info')
      <4>1. response' = Validated(Response(304), info')
        BY <1>4, <3>1, <2>2 DEF Stat, Answer
      <4>2. response' = OfFile(304, <<>>)'
        <5>1. (OfFile(304, <<>>) = Validated(Response(304), info))'
          BY PlainFile, PTL
        <5>2. QED  BY <4>1, <5>1
      <4>3. QED  BY <4>2, <3>1, <1>2 DEF FileAnswer
    <3>2. CASE ~isNotModified(info')
      <4>1. response' = Validated(Response(200), info') /\ info'.size = 0
        BY <1>4, <3>2, <2>2 DEF Stat, Answer
      <4>2. response' = OfFile(200, <<>>)'
        <5>1. (OfFile(200, <<>>) = Validated(Response(200), info))'
          BY PlainFile, PTL
        <5>2. QED  BY <4>1, <5>1
      <4>3. IsWhole(<<>>)'
        <5>1. file.blocks = <<>> /\ Len(<<>>) = 0 /\ <<>> \in Seq(Nat)
          BY <2>1, <4>1, EmptySeq DEF TypeInv, IsAFile
        <5>2. QED  BY <5>1, <4>1, <1>1 DEF IsWhole
      <4>4. QED  BY <4>2, <4>3, <3>2, <1>2 DEF FileAnswer
    <3>3. QED  BY <3>1, <3>2
  <2>3. ASSUME at' # "respond"
        PROVE  ~isNotModified(info') /\ (at' = "openBody" => info'.size >= zeroCopyThreshold_)
    BY <1>4, <2>3 DEF Stat, Answer
  <2>4. QED  BY <1>1, <1>2, <2>2, <2>3 DEF AnswerInv, IsFileRequest, Opening
<1>5. QED  BY <1>3, <1>4

LEMMA AnswerStep == TypeInv /\ OpenInv /\ ProxyInv /\ MadeInv /\ [Next]_vars => AnswerInv'
<1> SUFFICES ASSUME TypeInv, OpenInv, ProxyInv, MadeInv, [Next]_vars PROVE AnswerInv'
  OBVIOUS
<1>a. FileKept /\ Known /\ AnswerInv
  BY DEF MadeInv
<1>1. CASE RemoveFile \/ \E size \in Sizes : WriteFile(size)
  <2>1. PICK f, other : Change(f, other)
    BY <1>1, Changing
  <2>2. since' # "nothing" /\ (fd # "none" <=> fd' # "none")
    BY <2>1 DEF Change
  <2>3. UNCHANGED <<at, info, response, request, got, reply>>
    BY <2>1 DEF Change, clientVars, proxyVars, upstreamVars
  <2>4. QED  BY <1>a, <2>2, <2>3, AnswerStays
<1>2. CASE Tick \/ Upstream \/ UNCHANGED vars
  <2>1. UNCHANGED <<at, info, response, request, got, reply, fd, since, file>>
    BY <1>2 DEF Tick, Upstream, FallSilent, vars, fileVars, clientVars, serverVars, proxyVars, upstreamVars
  <2>2. QED  BY <1>a, <2>1, AnswerStays
<1>3. CASE HandlePrefix \/ Respond \/ SendFile \/ Receive \/ Disconnect
  <2>1. at' \in {"forward", "sendfile", "sent", "idle"}
    BY <1>3 DEF HandlePrefix, Respond, SendFile, Receive, Disconnect, Done
  <2>2. QED  BY <2>1 DEF AnswerInv, Opening
<1>4. CASE \E r \in Requests : Ask(r[1], r[2])
  BY <1>4 DEF Ask, AnswerInv, Opening
<1>5. CASE Stat
  BY <1>5, AnswerAfterStat
<1>6. CASE Handle
  <2>1. at' = "respond" /\ fd' = "none" /\ request' = request
    BY <1>6 DEF Handle, Answer, OpenInv, clientVars
  <2>2. CASE request.target = "file"
    BY <1>6, <2>1, <2>2 DEF Handle, Answer, AnswerInv, FileAnswer, Opening
  <2>3. CASE request.target # "file"
    <3>1. response' \in {badRequest, setBody(Response(200), <<"status">>)}
      BY <1>6, <2>3 DEF Handle, Answer
    <3>2. IsText(response')
      BY <3>1, Texts
    <3>3. Measured(serialize(response, TRUE))'
      <4>1. Measured(serialize(response', TRUE))
        BY <3>2, TextMeasured
      <4>2. UNCHANGED <<got, reply>>
        BY <1>6 DEF Handle, proxyVars, upstreamVars
      <4>3. QED  BY <2>1, <4>1, <4>2 DEF Measured, CutShort, PassedOn
    <3>4. QED  BY <2>1, <2>3, <3>3 DEF AnswerInv, Opening
  <2>4. QED  BY <2>2, <2>3
<1>7. CASE Forwarding
  <2>1. /\ at = "forward" /\ request' = request /\ request.target = "gateway" /\ fd' = "none"
        /\ IsReply(reply) /\ got \in 0..Pieces(reply)
    BY <1>7 DEF Forwarding, OpenInv, ProxyInv, clientVars
  <2>2. CASE step' # "no"
    BY <2>1, <2>2, <1>7 DEF Forwarding, AnswerInv, Opening
  <2>3. CASE step' = "no"
    <3>1. at' = "respond" /\ response' = result'
      BY <1>7, <2>3 DEF Forwarding, Answer
    <3>2. /\ UNCHANGED <<got, reply>>
          /\ result' \in {badGateway, gatewayTimeout, ParseReply}
      BY <1>7, <2>3 DEF Forwarding, ProxyStep, OpenSocket, Resolve, Connect, Write, ReadPiece, ReadEnd,
                ReadTimeout, ReadFails, Return, Continue, upstreamVars
    <3>3. Measured(serialize(result', TRUE))
      BY <2>1, <3>2, Texts, TextMeasured, ParsedMeasured
    <3>4. Measured(serialize(response, TRUE))'
      BY <2>1, <3>1, <3>2, <3>3 DEF Measured, CutShort, PassedOn
    <3>5. QED  BY <2>1, <3>1, <3>4 DEF AnswerInv, Opening
  <2>4. QED  BY <2>2, <2>3
<1>8. CASE OpenBody \/ OpenStream
  <2>1. /\ UNCHANGED <<request, info, since, file>> /\ IsFileRequest /\ ~isNotModified(info) /\ fd = "none"
        /\ (OpenBody => info.size >= zeroCopyThreshold_)
    BY <1>a, <1>8 DEF OpenBody, OpenStream, Open, AnswerInv, Opening, OpenInv, clientVars, fileVars
  <2>2. IsFileRequest' /\ ~isNotModified(info)'
    BY <2>1 DEF IsFileRequest, isNotModified
  <2>3. CASE at' = "respond" /\ fd' = "none" /\ response' = notFound
    BY <2>2, <2>3 DEF AnswerInv, Opening, FileAnswer, IsFileRequest
  <2>4. CASE OpenBody /\ at' = "respond" /\ fd' = "path" /\ response' = FileBody
    <3>1. response' = FileBody'
      BY <2>1, <2>4 DEF FileBody, OfFile
    <3>2. QED  BY <2>1, <2>2, <2>4, <3>1 DEF AnswerInv, Opening
  <2>5. CASE OpenStream /\ at' = "read" /\ response' = OfFile(200, <<>>)
    <3>1. response' = OfFile(200, <<>>)'
      BY <2>1, <2>5 DEF OfFile
    <3>2. IsTaken(<<>>)'
      BY <2>1, EmptySeq DEF IsTaken, TypeInv, Stamps, Sizes
    <3>3. QED  BY <2>2, <2>5, <3>1, <3>2 DEF AnswerInv, Opening
  <2>6. QED
    BY <1>8, <2>1, <2>3, <2>4, <2>5, PlainFile DEF OpenBody, OpenStream, Open, Answer, FileBody
<1>9. CASE ReadFile
  <2>1. PICK body : response = OfFile(200, body) /\ IsTaken(body)
    BY <1>9, <1>a DEF ReadFile, AnswerInv
  <2>2. /\ UNCHANGED <<request, info, since, file>> /\ IsFileRequest /\ ~isNotModified(info)
        /\ fd # "none" /\ FromStat
    BY <1>9, <1>a DEF ReadFile, AnswerInv, Opening, OpenInv, FromStat, clientVars, fileVars
  <2>3. IsFileRequest' /\ ~isNotModified(info)'
    BY <2>2 DEF IsFileRequest, isNotModified
  <2>4. response.body = body
    BY <2>1, OfFileIs
  <2>5. \A b : OfFile(200, b)' = OfFile(200, b) /\ (IsTaken(b) <=> IsTaken(b)') /\ (IsWhole(b) <=> IsWhole(b)')
    BY <2>2 DEF OfFile, IsTaken, IsWhole
  <2>6. CASE More(body)
    <3>1. response' = OfFile(200, WithNext(body)) /\ at' = "read"
      BY <1>9, <2>1, <2>4, <2>6, OfFileIs DEF ReadFile
    <3>2. IsTaken(WithNext(body))
      BY <1>a, <2>1, <2>2, <2>6, TakeNext
    <3>3. QED  BY <2>3, <2>5, <3>1, <3>2 DEF AnswerInv, Opening
  <2>7. CASE ~More(body)
    <3>1. response' = OfFile(200, body) /\ at' = "respond" /\ fd' = "none"
      BY <1>9, <2>1, <2>4, <2>7 DEF ReadFile, Answer, Close
    <3>2. IsWhole(body)
      BY <1>a, <2>1, <2>2, <2>7, TakeAll
    <3>3. FileAnswer'
      BY <2>3, <2>5, <3>1, <3>2 DEF FileAnswer
    <3>4. QED  BY <2>3, <3>1, <3>3 DEF AnswerInv, Opening, IsFileRequest
  <2>8. QED  BY <2>6, <2>7
<1>10. QED
  BY <1>1, <1>2, <1>3, <1>4, <1>5, <1>6, <1>7, <1>8, <1>9 DEF Next, Serve

LEMMA SentStays ==
    ASSUME SentInv, UNCHANGED <<at, info, wire, request, got, reply>>,
           since = "shrunk" => since' = "shrunk", since' # "nothing" \/ UNCHANGED <<since, file>>
    PROVE  SentInv'
<1>1. \A body : (IsTaken(body) => IsTaken(body)') /\ (Sending(body) => Sending(body)')
  BY DEF IsTaken, Sending
<1>2. isNotModified(info)' = isNotModified(info)
  BY DEF isNotModified
<1>3. Delimited => Delimited'
  BY DEF Delimited, Bodiless, CutShort, PassedOn
<1>4. Sent200 => Sent200'
  BY <1>2 DEF Sent200
<1>5. QED  BY <1>1, <1>2, <1>3, <1>4 DEF SentInv

\* The whole answer is sent with its headers.
LEMMA SentAtOnce ==
    ASSUME NEW r, wire' = serialize(r, request'.method # "HEAD"),
           IF request'.method = "HEAD" THEN TRUE ELSE Measured(serialize(r, TRUE)),
           UNCHANGED <<request, got, reply>>
    PROVE  Delimited'
<1>1. CASE request'.method = "HEAD"
  <2>1. Len(wire'.body) = 0
    BY <1>1, EmptySeq DEF serialize
  <2>2. QED  BY <1>1, <2>1 DEF Delimited, Bodiless
<1>2. CASE request'.method # "HEAD"
  <2>1. Measured(wire')
    BY <1>2
  <2>2. Len(<<>>) = 0
    BY EmptySeq
  <2>3. QED  BY <1>2, <2>1, <2>2 DEF Measured, Delimited, Bodiless, CutShort, PassedOn
<1>3. QED  BY <1>1, <1>2

LEMMA SentAfterRespond ==
    ASSUME TypeInv, OpenInv, MadeInv, Respond
    PROVE  SentInv'
<1> DEFINE head == request.method = "HEAD"
<1>a. AnswerInv /\ Known /\ UNCHANGED <<info, since, file, request, got, reply>> /\ at = "respond"
  BY DEF MadeInv, Respond, fileVars, proxyVars, upstreamVars
<1>b. PICK include \in BOOLEAN : (include <=> ~head) /\ wire' = serialize(response, include)
  BY DEF Respond
<1>c. /\ isNotModified(info)' = isNotModified(info)
      /\ <<>> \in Seq(Nat) /\ Len(<<>>) = 0 /\ info.size \in Nat
  BY <1>a, EmptySeq DEF isNotModified, TypeInv, Stamps, Sizes
<1>1. CASE fd # "none"
  <2>1. IsFileRequest /\ info.size >= zeroCopyThreshold_ /\ ~isNotModified(info) /\ response = FileBody
    BY <1>1, <1>a DEF AnswerInv
  <2>2. wire' = [status |-> 200, lengths |-> {info.size}, etag |-> {makeETag(info)},
                 modified |-> {formatHttpDate(info.mtime)}, body |-> <<>>]
    BY <1>b, <2>1, SerializedBody
  <2>3. CASE head
    <3>1. at' = "sent"
      BY <2>3 DEF Respond
    <3>2. Delimited'
      BY <1>a, <1>c, <2>2, <2>3 DEF Delimited, Bodiless
    <3>3. Sent200'
      BY <1>a, <1>c, <2>1, <2>2, <2>3 DEF Sent200
    <3>4. QED  BY <3>1, <3>2, <3>3 DEF SentInv
  <2>4. CASE ~head
    <3>1. at' = "sendfile"
      BY <1>1, <2>4 DEF Respond
    <3>2. Sending(<<>>)' /\ IsTaken(<<>>)'
      BY <1>a, <1>c, <2>2 DEF Sending, IsTaken
    <3>3. QED  BY <1>a, <1>c, <2>1, <2>4, <3>1, <3>2 DEF SentInv, IsFileRequest
  <2>5. QED  BY <2>3, <2>4
<1>2. CASE fd = "none"
  <2>1. at' = "sent"
    BY <1>2 DEF Respond
  <2>2. CASE request.target = "file"
    <3>1. FileAnswer
      BY <1>2, <1>a, <2>2 DEF AnswerInv
    <3>2. CASE response \in {notFound, methodNotAllowed}
      <4>1. IsText(response) /\ response.status \in {404, 405}
        BY <3>2, Texts DEF notFound, methodNotAllowed, Failure, setBody, Response
      <4>2. Delimited'
        <5>1. Measured(serialize(response, TRUE))
          BY <4>1, TextMeasured
        <5>2. QED  BY <1>a, <1>b, <5>1, SentAtOnce
      <4>3. wire'.status \in {404, 405}
        BY <1>b, <4>1 DEF serialize
      <4>4. QED  BY <2>1, <4>2, <4>3 DEF SentInv
    <3>3. CASE response = OfFile(304, <<>>) /\ isNotModified(info)
      <4>1. wire'.status = 304 /\ wire'.lengths = {0} /\ wire'.body = <<>>
        <5>1. PICK status, body : status = 304 /\ body = <<>> /\ response = OfFile(status, body)
          BY <3>3
        <5>2. wire' = [status |-> status, lengths |-> {Len(body)}, etag |-> {makeETag(info)},
                       modified |-> {formatHttpDate(info.mtime)},
                       body |-> IF include THEN body ELSE <<>>]
          BY <1>b, <5>1, SerializedFile
        <5>3. QED  BY <1>c, <5>1, <5>2
      <4>2. Delimited'
        BY <1>c, <4>1 DEF Delimited, Bodiless
      <4>3. QED  BY <1>c, <2>1, <3>3, <4>1, <4>2 DEF SentInv
    <3>4. CASE \E body : response = OfFile(200, body) /\ IsWhole(body) /\ ~isNotModified(info)
      <4>1. PICK body : response = OfFile(200, body) /\ IsWhole(body) /\ ~isNotModified(info)
        BY <3>4
      <4>2. wire' = [status |-> 200, lengths |-> {Len(body)}, etag |-> {makeETag(info)},
                     modified |-> {formatHttpDate(info.mtime)},
                     body |-> IF include THEN body ELSE <<>>]
        BY <1>b, <4>1, SerializedFile
      <4>3. Len(body) \in Nat /\ Len(body) <= info.size /\ body \in Seq(Nat)
        BY <4>1, LenProperties DEF IsWhole
      <4>a. /\ wire'.status = 200 /\ wire'.lengths = {Len(body)}
            /\ wire'.etag = {makeETag(info)} /\ wire'.modified = {formatHttpDate(info.mtime)}
            /\ wire'.body = IF request.method = "HEAD" THEN <<>> ELSE body
        BY <1>b, <4>2
      <4>4. Delimited'
        BY <1>a, <1>c, <4>a, <4>3 DEF Delimited, Bodiless
      <4>5. Sent200'
        BY <1>a, <1>c, <4>1, <4>a, <4>3 DEF Sent200, IsWhole
      <4>6. QED  BY <2>1, <4>4, <4>5 DEF SentInv
    <3>5. QED  BY <3>1, <3>2, <3>3, <3>4 DEF FileAnswer
  <2>3. CASE request.target # "file"
    <3>1. Measured(serialize(response, TRUE))
      BY <1>2, <1>a, <2>3 DEF AnswerInv
    <3>2. Delimited'
      BY <1>a, <1>b, <3>1, SentAtOnce
    <3>3. QED  BY <1>a, <2>1, <2>3, <3>2 DEF SentInv
  <2>4. QED  BY <2>2, <2>3
<1>3. QED  BY <1>1, <1>2

LEMMA SentStep == TypeInv /\ OpenInv /\ MadeInv /\ [Next]_vars => SentInv'
<1> SUFFICES ASSUME TypeInv, OpenInv, MadeInv, [Next]_vars PROVE SentInv'
  OBVIOUS
<1>a. FileKept /\ Known /\ SentInv
  BY DEF MadeInv
<1>1. CASE RemoveFile \/ \E size \in Sizes : WriteFile(size)
  <2>1. PICK f, other : Change(f, other)
    BY <1>1, Changing
  <2>2. since' # "nothing" /\ (since = "shrunk" => since' = "shrunk")
    BY <2>1 DEF Change
  <2>3. UNCHANGED <<at, info, wire, request, got, reply>>
    BY <2>1 DEF Change, clientVars, proxyVars, upstreamVars
  <2>4. QED  BY <1>a, <2>2, <2>3, SentStays
<1>2. CASE Tick \/ Upstream \/ UNCHANGED vars
  <2>1. UNCHANGED <<at, info, wire, request, got, reply, since, file>>
    BY <1>2 DEF Tick, Upstream, FallSilent, vars, fileVars, clientVars, serverVars, proxyVars, upstreamVars
  <2>2. QED  BY <1>a, <2>1, SentStays
<1>3. CASE Respond
  BY <1>3, SentAfterRespond
<1>4. CASE SendFile
  <2>1. /\ request.target = "file" /\ request.method = "GET" /\ fd # "none" /\ FromStat
        /\ info.size >= zeroCopyThreshold_ /\ ~isNotModified(info)
    BY <1>4, <1>a DEF SendFile, SentInv, OpenInv, FromStat
  <2>2. UNCHANGED <<request, info, since, file>>
    BY <1>4 DEF SendFile, fileVars
  <2>3. PICK body : Sending(body) /\ IsTaken(body)
    BY <1>4, <1>a DEF SendFile, SentInv
  <2>4. wire.body = body
    BY <2>3 DEF Sending
  <2>5. ~isNotModified(info)'
    BY <2>1, <2>2 DEF isNotModified
  <2>6. CASE More(body)
    <3>1. at' = "sendfile" /\ wire' = [wire EXCEPT !.body = WithNext(body)]
      BY <1>4, <2>4, <2>6 DEF SendFile
    <3>2. PICK next : next = WithNext(body)
      OBVIOUS
    <3>3. Sending(next)'
      <4>1. wire' = [wire EXCEPT !.body = next]
        BY <3>1, <3>2
      <4>2. wire' = [status |-> 200, lengths |-> {info.size}, etag |-> {makeETag(info)},
                     modified |-> {formatHttpDate(info.mtime)}, body |-> next]
        BY <2>3, <4>1 DEF Sending
      <4>3. QED  BY <2>2, <4>2 DEF Sending
    <3>4. IsTaken(next)
      BY <1>a, <2>1, <2>3, <2>6, <3>2, TakeNext
    <3>5. IsTaken(next)'
      BY <2>2, <3>4 DEF IsTaken
    <3>6. QED  BY <2>1, <2>2, <2>5, <3>1, <3>3, <3>5 DEF SentInv
  <2>7. CASE ~More(body)
    <3>1. at' = "sent" /\ wire' = wire
      BY <1>4, <2>4, <2>7 DEF SendFile
    <3>2. IsWhole(body) /\ (since # "shrunk" => Len(body) = info.size)
      BY <1>a, <2>1, <2>3, <2>7, TakeAll
    <3>3. Delimited'
      BY <2>1, <2>2, <2>3, <3>1, <3>2 DEF Delimited, Bodiless, Sending, IsWhole
    <3>4. Sent200'
      BY <2>2, <2>3, <2>5, <3>1, <3>2 DEF Sent200, Sending, IsWhole
    <3>5. QED  BY <3>1, <3>3, <3>4 DEF SentInv
  <2>8. QED  BY <2>6, <2>7
<1>5. CASE \/ Handle \/ HandlePrefix \/ Forwarding \/ Stat \/ OpenBody \/ OpenStream \/ ReadFile
           \/ Receive \/ Disconnect \/ \E r \in Requests : Ask(r[1], r[2])
  <2>1. at' \notin {"sendfile", "sent"}
    <3>1. CASE Handle \/ HandlePrefix \/ Forwarding \/ Stat \/ Receive
      BY <3>1 DEF Handle, HandlePrefix, Forwarding, Stat, Receive, Answer, Done
    <3>2. CASE OpenBody \/ OpenStream \/ ReadFile
      BY <3>2 DEF OpenBody, OpenStream, Open, ReadFile, Answer
    <3>3. CASE Disconnect \/ \E r \in Requests : Ask(r[1], r[2])
      BY <3>3 DEF Disconnect, Done, Ask
    <3>4. QED  BY <1>5, <3>1, <3>2, <3>3
  <2>2. QED  BY <2>1 DEF SentInv
<1>6. QED
  BY <1>1, <1>2, <1>3, <1>4, <1>5 DEF Next, Serve

-----------------------------------------------------------------------------
(* The calendar.                                                           *)

\* Centuries and eras of a year.
LEMMA YearParts ==
    ASSUME NEW y \in Nat
    PROVE  \E e \in Nat, c \in 0..3, q \in 0..24, r \in 0..3 :
              /\ y = 400 * e + 100 * c + 4 * q + r
              /\ y \div 4 = 100 * e + 25 * c + q /\ y \div 100 = 4 * e + c /\ y \div 400 = e
              /\ y % 4 = r /\ (y % 100 = 0 <=> q = 0 /\ r = 0) /\ (y % 400 = 0 <=> c = 0 /\ q = 0 /\ r = 0)
<1> DEFINE e == y \div 400
           s == y - 400 * e
           c == s \div 100
           u == s - 100 * c
           q == u \div 4
           r == u - 4 * q
<1>1. e \in Nat /\ s \in 0..399 /\ y = 400 * e + s
  OBVIOUS
<1> HIDE DEF s
<1>2. c \in 0..3 /\ u \in 0..99 /\ s = 100 * c + u
  BY <1>1
<1> HIDE DEF u
<1>3. q \in 0..24 /\ r \in 0..3 /\ u = 4 * q + r
  BY <1>2
<1> HIDE DEF e, c, q, r
<1>4. y = 400 * e + 100 * c + 4 * q + r
  BY <1>1, <1>2, <1>3
<1>5. y \div 4 = 100 * e + 25 * c + q /\ y % 4 = r
  BY <1>1, <1>2, <1>3, <1>4
<1>6. y \div 100 = 4 * e + c /\ (y % 100 = 0 <=> q = 0 /\ r = 0)
  BY <1>1, <1>2, <1>3, <1>4
<1>7. y \div 400 = e /\ (y % 400 = 0 <=> c = 0 /\ q = 0 /\ r = 0)
  BY <1>1, <1>2, <1>3, <1>4
<1>8. e \in Nat /\ c \in 0..3 /\ q \in 0..24 /\ r \in 0..3
  BY <1>1, <1>2, <1>3
<1> USE <1>8
<1>9. WITNESS e \in Nat, c \in 0..3, q \in 0..24, r \in 0..3
<1>10. QED  BY <1>4, <1>5, <1>6, <1>7

LeapDay(y) == IF Leap(y) THEN 1 ELSE 0

LEMMA LeapDaysOf ==
    ASSUME NEW y \in Nat \ {0}
    PROVE  LeapDays(y) \in Nat /\ LeapDays(y) = LeapDays(y - 1) + LeapDay(y)
BY DEF LeapDays, LeapDay, Leap

\* Neither fewer nor more leap days than years pass.
LEMMA LeapDaysGrow ==
    ASSUME NEW x \in Nat, NEW y \in Nat, x <= y
    PROVE  /\ LeapDays(x) \in Nat /\ LeapDays(y) \in Nat
           /\ LeapDays(x) <= LeapDays(y) /\ LeapDays(y) - LeapDays(x) <= y - x
<1>1. PICK e \in Nat, c \in 0..3, q \in 0..24, r \in 0..3 :
         y = 400 * e + 100 * c + 4 * q + r /\ LeapDays(y) = 97 * e + 24 * c + q
  <2>1. PICK e \in Nat, c \in 0..3, q \in 0..24, r \in 0..3 :
           /\ y = 400 * e + 100 * c + 4 * q + r
           /\ y \div 4 = 100 * e + 25 * c + q /\ y \div 100 = 4 * e + c /\ y \div 400 = e
    BY YearParts, SMTT(30)
  <2>2. QED  BY <2>1 DEF LeapDays
<1>2. PICK f \in Nat, d \in 0..3, p \in 0..24, s \in 0..3 :
         x = 400 * f + 100 * d + 4 * p + s /\ LeapDays(x) = 97 * f + 24 * d + p
  <2>1. PICK f \in Nat, d \in 0..3, p \in 0..24, s \in 0..3 :
           /\ x = 400 * f + 100 * d + 4 * p + s
           /\ x \div 4 = 100 * f + 25 * d + p /\ x \div 100 = 4 * f + d /\ x \div 400 = f
    BY YearParts, SMTT(30)
  <2>2. QED  BY <2>1 DEF LeapDays
<1>3. f <= e
  BY <1>1, <1>2
<1>4. CASE f = e
  BY <1>1, <1>2, <1>4
<1>5. CASE f < e
  BY <1>1, <1>2, <1>5
<1>6. QED  BY <1>3, <1>4, <1>5

LEMMA YearStartIs ==
    ASSUME NEW y \in Nat, y >= 1970
    PROVE  /\ YearStart(y) \in 365 * (y - 1970)..366 * (y - 1970)
           /\ YearStart(y + 1) = YearStart(y) + 365 + LeapDay(y)
<1>1. y \in Nat \ {0} /\ y - 1 \in Nat /\ 1969 <= y - 1 /\ 1969 \in Nat
  OBVIOUS
<1>2. LeapDays(y) = LeapDays(y - 1) + LeapDay(y)
  BY <1>1, LeapDaysOf
<1>3. PICK a \in Nat, b \in Nat : /\ a = LeapDays(1969) /\ b = LeapDays(y - 1)
                                /\ a <= b /\ b - a <= (y - 1) - 1969
  <2>1. PICK u \in Nat, w \in Nat : u = 1969 /\ w = y - 1 /\ u <= w
    BY <1>1
  <2>2. /\ LeapDays(u) \in Nat /\ LeapDays(w) \in Nat
        /\ LeapDays(u) <= LeapDays(w) /\ LeapDays(w) - LeapDays(u) <= w - u
    BY <2>1, LeapDaysGrow
  <2>3. QED  BY <2>1, <2>2
<1>4. YearStart(y) = 365 * (y - 1970) + b - a
  BY <1>3 DEF YearStart
<1>5. YearStart(y + 1) = 365 * ((y + 1) - 1970) + (b + LeapDay(y)) - a
  BY <1>2, <1>3 DEF YearStart
<1>6. LeapDay(y) \in 0..1
  BY DEF LeapDay
<1>7. QED  BY <1>3, <1>4, <1>5, <1>6

LEMMA YearStartGrows ==
    ASSUME NEW x \in Nat, NEW y \in Nat, 1970 <= x, x < y
    PROVE  YearStart(x + 1) <= YearStart(y)
<1>1. x \in Nat /\ y - 1 \in Nat /\ x <= y - 1 /\ 1969 <= x /\ 1969 \in Nat
  OBVIOUS
<1>2. PICK a \in Nat, b \in Nat, c \in Nat :
         a = LeapDays(1969) /\ b = LeapDays(x) /\ c = LeapDays(y - 1) /\ b <= c
  <2>1. PICK u \in Nat, w \in Nat : u = 1969 /\ w = y - 1 /\ x <= w
    BY <1>1
  <2>2. LeapDays(x) \in Nat /\ LeapDays(w) \in Nat /\ LeapDays(x) <= LeapDays(w)
    BY <2>1, LeapDaysGrow
  <2>3. LeapDays(u) \in Nat
    BY <2>1, LeapDaysGrow
  <2>4. QED  BY <2>1, <2>2, <2>3
<1>3. YearStart(x + 1) = 365 * ((x + 1) - 1970) + b - a /\ YearStart(y) = 365 * (y - 1970) + c - a
  BY <1>2 DEF YearStart
<1>4. QED  BY <1>2, <1>3

LEMMA MonthStarts ==
    ASSUME NEW y
    PROVE  LET leap == LeapDay(y)
           IN  /\ MonthStart(y, 1) = 0 /\ MonthStart(y, 2) = 31
               /\ MonthStart(y, 3) = 59 + leap /\ MonthStart(y, 4) = 90 + leap
               /\ MonthStart(y, 5) = 120 + leap /\ MonthStart(y, 6) = 151 + leap
               /\ MonthStart(y, 7) = 181 + leap /\ MonthStart(y, 8) = 212 + leap
               /\ MonthStart(y, 9) = 243 + leap /\ MonthStart(y, 10) = 273 + leap
               /\ MonthStart(y, 11) = 304 + leap /\ MonthStart(y, 12) = 334 + leap
               /\ MonthStart(y, 13) = 365 + leap
BY DEF MonthStart, LeapDay

\* A day has a year and a month.
LEMMA YearOf ==
    ASSUME NEW days \in Nat
    PROVE  \E y \in (1970 + days \div 366)..(1970 + days \div 365) :
              YearStart(y) <= days /\ days < YearStart(y + 1)
<1> DEFINE S == {n \in Nat : days < YearStart(1970 + n + 1)}
<1>1. \A n \in Nat : /\ YearStart(1970 + n) \in 365 * n..366 * n
                     /\ YearStart(1970 + n + 1) \in 365 * (n + 1)..366 * (n + 1)
  <2>1. TAKE n \in Nat
  <2>2. 1970 + n \in Nat /\ 1970 + n >= 1970 /\ 1970 + n + 1 \in Nat /\ 1970 + n + 1 >= 1970
    OBVIOUS
  <2>3. YearStart(1970 + n) \in 365 * ((1970 + n) - 1970)..366 * ((1970 + n) - 1970)
    BY <2>2, YearStartIs
  <2>4. YearStart(1970 + n + 1) \in 365 * ((1970 + n + 1) - 1970)..366 * ((1970 + n + 1) - 1970)
    BY <2>2, YearStartIs
  <2>5. QED  BY <2>3, <2>4
<1>2. days \in S /\ S \in SUBSET Nat /\ S # {}
  BY <1>1
<1>3. PICK n \in S : \A k \in S : n <= k
  <2> HIDE DEF S
  <2>1. QED  BY <1>2, LeastNatural, Zenon
<1>4. YearStart(1970 + n) <= days
  <2>1. CASE n = 0
    BY <1>1, <2>1
  <2>2. CASE n # 0
    <3>1. n - 1 \in Nat /\ n - 1 \notin S
      BY <1>3, <2>2
    <3>2. 1970 + (n - 1) + 1 = 1970 + n
      BY <1>3
    <3>3. ~(days < YearStart(1970 + n))
      BY <3>1, <3>2
    <3>4. QED  BY <1>1, <1>3, <3>3
  <2>3. QED  BY <2>1, <2>2
<1>5. n \in Nat /\ days < YearStart(1970 + n + 1)
  BY <1>3
<1>6. 365 * n <= days /\ days < 366 * (n + 1)
  BY <1>1, <1>4, <1>5
<1>7. n <= days \div 365 /\ days \div 366 <= n
  BY <1>5, <1>6
<1>8. QED  BY <1>4, <1>5, <1>7

LEMMA MonthOf ==
    ASSUME NEW y, NEW n \in Nat, n < MonthStart(y, 13)
    PROVE  \E m \in 1..12 : MonthStart(y, m) <= n /\ n < MonthStart(y, m + 1)
<1> DEFINE leap == LeapDay(y)
<1>1. /\ MonthStart(y, 1) = 0 /\ MonthStart(y, 2) = 31
      /\ MonthStart(y, 3) = 59 + leap /\ MonthStart(y, 4) = 90 + leap
      /\ MonthStart(y, 5) = 120 + leap /\ MonthStart(y, 6) = 151 + leap
      /\ MonthStart(y, 7) = 181 + leap /\ MonthStart(y, 8) = 212 + leap
      /\ MonthStart(y, 9) = 243 + leap /\ MonthStart(y, 10) = 273 + leap
      /\ MonthStart(y, 11) = 304 + leap /\ MonthStart(y, 12) = 334 + leap
      /\ MonthStart(y, 13) = 365 + leap
  BY MonthStarts
<1>2. leap \in 0..1
  BY DEF LeapDay
<1> HIDE DEF leap
<1> DEFINE Start(m) == MonthStart(y, m)
<1>3. SUFFICES \E m \in 1..12 : Start(m) <= n /\ n < Start(m + 1)
  OBVIOUS
<1>4. /\ Start(1) <= n /\ n < Start(13)
      /\ \A m \in 1..13 : Start(m) \in Nat
  BY <1>1, <1>2
<1> HIDE DEF Start
<1>5. \A m \in 1..12 : Start(m) \in Nat /\ Start(m + 1) \in Nat
  BY <1>4
<1>6. CASE n < Start(7)
  <2>1. CASE n < Start(2)
    BY <2>1, <1>4
  <2>2. CASE Start(2) <= n /\ n < Start(3)
    BY <2>2
  <2>3. CASE Start(3) <= n /\ n < Start(4)
    BY <2>3
  <2>4. CASE Start(4) <= n /\ n < Start(5)
    BY <2>4
  <2>5. CASE Start(5) <= n /\ n < Start(6)
    BY <2>5
  <2>6. CASE Start(6) <= n
    BY <2>6, <1>6
  <2>7. QED  BY <1>4, <2>1, <2>2, <2>3, <2>4, <2>5, <2>6
<1>7. CASE Start(7) <= n
  <2>1. CASE n < Start(8)
    BY <2>1, <1>7
  <2>2. CASE Start(8) <= n /\ n < Start(9)
    BY <2>2
  <2>3. CASE Start(9) <= n /\ n < Start(10)
    BY <2>3
  <2>4. CASE Start(10) <= n /\ n < Start(11)
    BY <2>4
  <2>5. CASE Start(11) <= n /\ n < Start(12)
    BY <2>5
  <2>6. CASE Start(12) <= n
    BY <2>6, <1>4
  <2>7. QED  BY <1>4, <2>1, <2>2, <2>3, <2>4, <2>5, <2>6
<1>8. QED  BY <1>4, <1>6, <1>7

LEMMA MonthLength ==
    ASSUME NEW y, NEW m \in 1..12
    PROVE  /\ MonthStart(y, m) \in 0..366 /\ MonthStart(y, m + 1) \in 0..366
           /\ MonthStart(y, m + 1) - MonthStart(y, m) \in 28..31
<1>1. PICK leap \in 0..1 : leap = LeapDay(y)
  BY DEF LeapDay
<1>2. CASE m \in 1..4
  BY <1>1, <1>2, MonthStarts
<1>3. CASE m \in 5..8
  BY <1>1, <1>3, MonthStarts
<1>4. CASE m \in 9..12
  BY <1>1, <1>4, MonthStarts
<1>5. QED  BY <1>2, <1>3, <1>4

Months  == 1..12
Days    == 1..31
Hours   == 0..23
Sixtieths == 0..59
Seconds(h, mi, s) == h * 3600 + mi * 60 + s
DayNumber(y, m, day) == YearStart(y) + MonthStart(y, m) + day - 1
Instant(days, seconds) == days * 86400 + seconds

\* A second, by its date and time of day.
IsSecond(t, y, m, day, h, mi, s) ==
    /\ gmtime_r(t) = Date(y, m, day, <<h, mi, s>>)
    /\ y >= 1970
    /\ t = Instant(DayNumber(y, m, day), Seconds(h, mi, s))

OfDay == {n \in Nat : n < 86400}
Clock(n) == <<n \div 3600, (n \div 60) % 60, n % 60>>
SplitsInto(t, days, secs) ==
    days \in Nat /\ secs \in OfDay /\ t = Instant(days, secs)

LEMMA DayParts == \A t \in Nat : SplitsInto(t, t \div 86400, t % 86400)
<1>1. \A t \in Nat : t \div 86400 \in Nat /\ t % 86400 \in OfDay
  BY DEF OfDay
<1>2. \A t \in Nat : t = Instant(t \div 86400, t % 86400)
  BY DEF Instant
<1>3. QED  BY <1>1, <1>2 DEF SplitsInto

LEMMA MinuteParts ==
    ASSUME NEW n \in OfDay
    PROVE  /\ n \div 60 \in Nat /\ n % 60 \in 0..59 /\ n = 60 * (n \div 60) + (n % 60)
           /\ n \div 60 < 1440 /\ n \div 3600 = (n \div 60) \div 60
BY SMTT(30) DEF OfDay

LEMMA TimeOfDay ==
    ASSUME NEW n \in OfDay
    PROVE  \E h \in Hours, mi, s \in Sixtieths : Clock(n) = <<h, mi, s>> /\ n = Seconds(h, mi, s)
<1> DEFINE minutes == n \div 60
           second == n % 60
           hour == minutes \div 60
           minute == minutes % 60
<1>1. /\ minutes \in Nat /\ second \in 0..59 /\ n = 60 * minutes + second
      /\ minutes < 1440 /\ n \div 3600 = hour
  BY MinuteParts
<1>2. Clock(n) = <<hour, minute, second>>
  BY <1>1 DEF Clock
<1> HIDE DEF minutes, second
<1>3. hour \in 0..23 /\ minute \in 0..59 /\ minutes = 60 * hour + minute
  BY <1>1
<1> HIDE DEF hour, minute
<1>4. n = Seconds(hour, minute, second)
  BY <1>1, <1>3 DEF Seconds
<1>5. hour \in Hours /\ minute \in Sixtieths /\ second \in Sixtieths
  BY <1>1, <1>3 DEF Hours, Sixtieths
<1>6. QED  BY <1>2, <1>4, <1>5

LEMMA Gmtime ==
    ASSUME NEW t \in Nat
    PROVE  \E y \in Nat, m \in Months, day \in Days, h \in Hours, mi, s \in Sixtieths :
              IsSecond(t, y, m, day, h, mi, s)
<1>0. PICK days, secs : days = t \div 86400 /\ secs = t % 86400 /\ SplitsInto(t, days, secs)
  BY DayParts
<1>1. days \in Nat /\ secs \in OfDay /\ t = Instant(days, secs)
  BY <1>0 DEF SplitsInto
<1> DEFINE time == Clock(secs)
           years == (1970 + days \div 366)..(1970 + days \div 365)
           OnDay(y, m) == Date(y, m, days - YearStart(y) - MonthStart(y, m) + 1, time)
           dates == {OnDay(y, m) : y \in years, m \in 1..12}
<1>2. gmtime_r(t) = CHOOSE d \in dates : IsDate(d)
  BY <1>0 DEF gmtime_r, Clock
<1>3. \A y \in years : y \in Nat /\ y >= 1970
  BY <1>1
<1>4. \A y \in years, m \in 1..12 :
         IsDate(OnDay(y, m)) <=>
            days - YearStart(y) - MonthStart(y, m) + 1 \in 1..(MonthStart(y, m + 1) - MonthStart(y, m))
  BY DEF IsDate, Date
<1>5. \E d \in dates : IsDate(d)
  <2>1. PICK y \in years : YearStart(y) <= days /\ days < YearStart(y + 1)
    BY <1>1, YearOf
  <2>2. /\ YearStart(y) \in Nat /\ YearStart(y + 1) = YearStart(y) + 365 + LeapDay(y)
        /\ MonthStart(y, 13) = 365 + LeapDay(y)
    BY <1>3, YearStartIs, MonthStarts
  <2>3. PICK n \in Nat : n = days - YearStart(y) /\ n < MonthStart(y, 13)
    BY <1>1, <2>1, <2>2 DEF LeapDay
  <2>4. PICK m \in 1..12 : MonthStart(y, m) <= n /\ n < MonthStart(y, m + 1)
    BY <2>3, MonthOf
  <2>5. PICK first \in Nat, next \in Nat : first = MonthStart(y, m) /\ next = MonthStart(y, m + 1)
    <3>1. MonthStart(y, m) \in 0..366 /\ MonthStart(y, m + 1) \in 0..366
      BY MonthLength
    <3>2. MonthStart(y, m) \in Nat /\ MonthStart(y, m + 1) \in Nat
      BY <3>1
    <3> HIDE DEF time, years, OnDay, dates
    <3>3. QED  BY <3>2, Zenon
  <2>6. n - first + 1 \in 1..(next - first)
    BY <2>4, <2>5
  <2>7. IsDate(OnDay(y, m))
    BY <1>4, <2>3, <2>5, <2>6
  <2>8. QED  BY <2>7
<1>6. gmtime_r(t) \in dates /\ IsDate(gmtime_r(t))
  BY <1>2, <1>5
<1>7. PICK y \in years, m \in 1..12 : gmtime_r(t) = OnDay(y, m)
  BY <1>6
<1>8. PICK first \in Nat, next \in Nat, day1 \in Nat :
         /\ first = MonthStart(y, m) /\ next = MonthStart(y, m + 1) /\ day1 = YearStart(y)
         /\ next - first <= 31
  <2>1. /\ MonthStart(y, m) \in Nat /\ MonthStart(y, m + 1) \in Nat
        /\ MonthStart(y, m + 1) - MonthStart(y, m) <= 31
    <3>1. /\ MonthStart(y, m) \in 0..366 /\ MonthStart(y, m + 1) \in 0..366
          /\ MonthStart(y, m + 1) - MonthStart(y, m) \in 28..31
      BY MonthLength
    <3>2. QED  BY <3>1
  <2>2. YearStart(y) \in Nat
    BY <1>3, YearStartIs
  <2>3. QED  BY <2>1, <2>2
<1>9. PICK day \in 1..31 : day = days - YearStart(y) - MonthStart(y, m) + 1
  <2>1. days - YearStart(y) - MonthStart(y, m) + 1 \in 1..(MonthStart(y, m + 1) - MonthStart(y, m))
    BY <1>4, <1>6, <1>7
  <2>2. QED  BY <1>1, <1>8, <2>1
<1>10. PICK h \in Hours, mi, s \in Sixtieths : time = <<h, mi, s>> /\ secs = Seconds(h, mi, s)
  BY <1>1, TimeOfDay
<1>11. gmtime_r(t) = Date(y, m, day, <<h, mi, s>>)
  BY <1>7, <1>9, <1>10
<1>12. t = Instant(DayNumber(y, m, day), Seconds(h, mi, s))
  <2>1. DayNumber(y, m, day) = days
    BY <1>1, <1>8, <1>9 DEF DayNumber
  <2>2. QED  BY <1>1, <1>10, <2>1
<1>13. y \in Nat /\ y >= 1970 /\ m \in Months /\ day \in Days
  BY <1>3, <1>9 DEF Months, Days
<1>14. IsSecond(t, y, m, day, h, mi, s)
  BY <1>11, <1>12, <1>13 DEF IsSecond
<1> HIDE DEF time, years, OnDay, dates
<1>15. QED  BY <1>10, <1>13, <1>14

\* The days of a civil date, whatever its era.
Civil(a, dayOfYear) ==
    LET era == a \div 400
        yearOfEra == a - era * 400
    IN  era * 146097 + (yearOfEra * 365 + yearOfEra \div 4 - yearOfEra \div 100 + dayOfYear) - 719468

LEMMA CivilIs ==
    ASSUME NEW a \in Nat, NEW n \in Nat
    PROVE  Civil(a, n) = 365 * a + LeapDays(a) + n - 719468
<1>1. PICK e \in Nat, c \in 0..3, q \in 0..24, r \in 0..3 :
         /\ a = 400 * e + 100 * c + 4 * q + r
         /\ a \div 4 = 100 * e + 25 * c + q /\ a \div 100 = 4 * e + c /\ a \div 400 = e
  BY YearParts, SMTT(30)
<1>2. PICK b \in Nat : b = a - e * 400 /\ b = 100 * c + 4 * q + r
  BY <1>1, SMT
<1>3. b \div 4 = 25 * c + q /\ b \div 100 = c
  BY <1>2, SMT
<1>4. Civil(a, n) = e * 146097 + (b * 365 + (25 * c + q) - c + n) - 719468
  BY <1>1, <1>2, <1>3, SMT DEF Civil
<1>5. LeapDays(a) = 97 * e + 24 * c + q
  BY <1>1, SMT DEF LeapDays
<1>6. QED  BY <1>1, <1>2, <1>4, <1>5, SMT

LEMMA DaysFromCivilIs ==
    ASSUME NEW y \in Nat, y >= 1970, NEW m \in 1..12, NEW day \in 1..31
    PROVE  DaysFromCivil(y, m, day) = YearStart(y) + MonthStart(y, m) + day - 1
<1> DEFINE n == (153 * (IF m > 2 THEN m - 3 ELSE m + 9) + 2) \div 5 + day - 1
           leap == LeapDay(y)
<1>1. DaysFromCivil(y, m, day) = Civil(IF m <= 2 THEN y - 1 ELSE y, n)
  BY SMT DEF DaysFromCivil, Civil
<1>2. PICK first \in Nat : /\ first = MonthStart(y, m) /\ n \in Nat
                           /\ first + day - 1 = IF m > 2 THEN n + 59 + leap ELSE n - 306
  BY SMT DEF MonthStart, LeapDay
<1> HIDE DEF n
<1>3. PICK b \in Nat, c \in Nat : b = LeapDays(y - 1) /\ c = LeapDays(y) /\ c = b + leap
  BY SMT DEF LeapDays, LeapDay, Leap
<1>4. YearStart(y) = 365 * (y - 1970) + b - LeapDays(1969)
  BY <1>3, SMT DEF YearStart
<1>5. LeapDays(1969) = 477 /\ leap \in 0..1
  BY SMT DEF LeapDays, LeapDay
<1> HIDE DEF leap
<1>6. YearStart(y) = 365 * (y - 1970) + b - 477
  BY <1>4, <1>5, SMT
<1>7. DaysFromCivil(y, m, day) = 365 * (y - 1970) + b - 477 + first + day - 1
  <2>1. CASE m > 2
    <3>0. PICK w \in Nat : w = y
      OBVIOUS
    <3>1. DaysFromCivil(y, m, day) = Civil(w, n) /\ c = LeapDays(w)
      <4>1. DaysFromCivil(y, m, day) = Civil(y, n)
        BY <1>1, <2>1, SMT
      <4>2. c = LeapDays(y)
        BY <1>3
      <4>3. QED  BY <3>0, <4>1, <4>2
    <3>2. Civil(w, n) = 365 * w + c + n - 719468
      BY <1>2, <3>1, CivilIs, SMT
    <3>3. QED  BY <1>2, <1>3, <1>5, <2>1, <3>0, <3>1, <3>2, SMT
  <2>2. CASE ~(m > 2)
    <3>0. PICK w \in Nat : w = y - 1
      OBVIOUS
    <3>1. DaysFromCivil(y, m, day) = Civil(w, n) /\ b = LeapDays(w)
      <4>1. DaysFromCivil(y, m, day) = Civil(y - 1, n)
        BY <1>1, <2>2, SMT
      <4>2. b = LeapDays(y - 1)
        BY <1>3
      <4>3. QED  BY <3>0, <4>1, <4>2
    <3>2. Civil(w, n) = 365 * w + b + n - 719468
      BY <1>2, <3>1, CivilIs, SMT
    <3>3. QED  BY <1>2, <1>3, <1>5, <2>2, <3>0, <3>1, <3>2, SMT
  <2>3. QED  BY <2>1, <2>2
<1>8. QED  BY <1>2, <1>3, <1>6, <1>7, SMT

\* Reading is taking one word after another.
LEMMA ReadWords ==
    ASSUME NEW text, Len(text) \in 0..5
    PROVE  \E f : /\ Read(text) = f[Len(text)] /\ f[0] = Date(0, 0, 0, NoTime)
                  /\ \A n \in 1..Len(text) : f[n] = TakeWord(f[n - 1], text[n])
<1> DEFINE Step(f) == [n \in 0..Len(text) |->
                          IF n = 0 THEN Date(0, 0, 0, NoTime) ELSE TakeWord(f[n - 1], text[n])]
           upTo == CHOOSE f : f = Step(f)
           w0 == Date(0, 0, 0, NoTime)
           w1 == TakeWord(w0, text[1])
           w2 == TakeWord(w1, text[2])
           w3 == TakeWord(w2, text[3])
           w4 == TakeWord(w3, text[4])
           w5 == TakeWord(w4, text[5])
           w == [n \in 0..Len(text) |-> IF n = 0 THEN w0 ELSE IF n = 1 THEN w1 ELSE IF n = 2 THEN w2
                                        ELSE IF n = 3 THEN w3 ELSE IF n = 4 THEN w4 ELSE w5]
<1>1. Read(text) = upTo[Len(text)]
  BY DEF Read
<1>2. w = Step(w)
  <2> HIDE DEF w0, w1, w2, w3, w4, w5
  <2>1. \A n \in 0..Len(text) : w[n] = IF n = 0 THEN w0 ELSE TakeWord(w[n - 1], text[n])
    <3>1. /\ w1 = TakeWord(w0, text[1]) /\ w2 = TakeWord(w1, text[2]) /\ w3 = TakeWord(w2, text[3])
          /\ w4 = TakeWord(w3, text[4]) /\ w5 = TakeWord(w4, text[5])
      BY DEF w1, w2, w3, w4, w5
    <3>2. TAKE n \in 0..Len(text)
    <3>3. n \in 0..5
      <4>1. PICK k \in 0..5 : k = Len(text)
        OBVIOUS
      <4>2. QED  BY <4>1
    <3>4. CASE n = 0
      BY <3>4
    <3>5. CASE n = 1
      BY <3>1, <3>5
    <3>6. CASE n = 2
      BY <3>1, <3>6
    <3>7. CASE n = 3
      BY <3>1, <3>7
    <3>8. CASE n = 4
      BY <3>1, <3>8
    <3>9. CASE n = 5
      BY <3>1, <3>9
    <3>10. QED  BY <3>3, <3>4, <3>5, <3>6, <3>7, <3>8, <3>9
  <2>2. Step(w) = [n \in 0..Len(text) |-> IF n = 0 THEN w0 ELSE TakeWord(w[n - 1], text[n])]
    BY DEF w0
  <2>3. w = [n \in 0..Len(text) |-> w[n]]
    OBVIOUS
  <2> HIDE DEF w
  <2>4. QED  BY <2>1, <2>2, <2>3
<1> HIDE DEF Step, w
<1>3. upTo = Step(upTo)
  BY <1>2
<1> HIDE DEF upTo
<1>4. \A n \in 0..Len(text) : Step(upTo)[n] = IF n = 0 THEN Date(0, 0, 0, NoTime) ELSE TakeWord(upTo[n - 1], text[n])
  BY DEF Step
<1>5. upTo[0] = Date(0, 0, 0, NoTime) /\ \A n \in 1..Len(text) : upTo[n] = TakeWord(upTo[n - 1], text[n])
  BY <1>3, <1>4
<1>6. QED  BY <1>1, <1>5
LEMMA ReadNone == Read(<<>>) = Date(0, 0, 0, NoTime)
<1>1. PICK e : e = <<>> /\ Len(e) = 0
  OBVIOUS
<1>2. Len(e) \in 0..5
  BY <1>1
<1>3. Read(e) = Date(0, 0, 0, NoTime)
  BY <1>1, <1>2, ReadWords
<1>4. QED  BY <1>1, <1>3

LEMMA ReadFive ==
    ASSUME NEW a, NEW b, NEW c, NEW d, NEW e
    PROVE  Read(<<a, b, c, d, e>>) =
              TakeWord(TakeWord(TakeWord(TakeWord(TakeWord(Date(0, 0, 0, NoTime), a), b), c), d), e)
<1>0. PICK text : text = <<a, b, c, d, e>>
  OBVIOUS
<1>1. text = <<a, b, c, d, e>> /\ Len(text) = 5
  BY <1>0
<1>2. Len(text) \in 0..5
  BY <1>1
<1>3. PICK f : /\ Read(text) = f[5] /\ f[0] = Date(0, 0, 0, NoTime)
               /\ \A n \in 1..5 : f[n] = TakeWord(f[n - 1], text[n])
  BY <1>1, <1>2, ReadWords
<1>4. text[1] = a /\ text[2] = b /\ text[3] = c /\ text[4] = d /\ text[5] = e
  BY <1>1
<1>5. /\ f[1] = TakeWord(f[0], a) /\ f[2] = TakeWord(f[1], b) /\ f[3] = TakeWord(f[2], c)
      /\ f[4] = TakeWord(f[3], d) /\ f[5] = TakeWord(f[4], e)
  BY <1>3, <1>4
<1>6. QED  BY <1>1, <1>3, <1>5

\* What a word does to a date.
LEMMA MonthTaken ==
    ASSUME NEW y, NEW m, NEW day, NEW time, NEW v
    PROVE  TakeWord(Date(y, m, day, time), Month(v)) = Date(y, v, day, time)
<1>1. PICK d : d = Date(y, m, day, time)
  OBVIOUS
<1>2. TakeWord(d, Month(v)) = Date(y, v, day, time)
  BY <1>1 DEF Date, TakeWord, Month
<1>3. QED  BY <1>1, <1>2

LEMMA TimeTaken ==
    ASSUME NEW y, NEW m, NEW day, NEW time, NEW v
    PROVE  TakeWord(Date(y, m, day, time), Time(v)) = Date(y, m, day, v)
<1>1. PICK d : d = Date(y, m, day, time)
  OBVIOUS
<1>2. TakeWord(d, Time(v)) = Date(y, m, day, v)
  BY <1>1 DEF Date, TakeWord, Time
<1>3. QED  BY <1>1, <1>2

LEMMA OtherTaken ==
    ASSUME NEW d
    PROVE  TakeWord(d, OtherWord) = d
BY DEF TakeWord, OtherWord

LEMMA DayTaken ==
    ASSUME NEW y, NEW m, NEW day, NEW time, day = 0, NEW v \in Days, NEW k \in {1, 2}
    PROVE  TakeWord(Date(y, m, day, time), Number(v, k)) = Date(y, m, v, time)
<1>1. PICK d : d = Date(y, m, day, time)
  OBVIOUS
<1>2. TakeWord(d, Number(v, k)) = Date(y, m, v, time)
  BY <1>1 DEF Date, TakeWord, Number, Days
<1>3. QED  BY <1>1, <1>2

LEMMA YearTaken ==
    ASSUME NEW y, NEW m, NEW day, NEW time, NEW v, NEW k, k = 4 \/ day \in Days
    PROVE  TakeWord(Date(y, m, day, time), Number(v, k)) = Date(v, m, day, time)
<1>1. PICK d : d = Date(y, m, day, time)
  OBVIOUS
<1>2. TakeWord(d, Number(v, k)) = Date(v, m, day, time)
  BY <1>1 DEF Date, TakeWord, Number, Days
<1>3. QED  BY <1>1, <1>2

\* What is read of a text: its day, its month, its time, its year or the last two digits of it.
LEMMA TextsRead ==
    ASSUME NEW y, NEW m, NEW day \in Days, NEW time, NEW form \in Forms
    PROVE  Read(Text(form, Date(y, m, day, time))) =
              Date(IF form = "RFC850" THEN y % 100 ELSE y, m, day, time)
<1>z. PICK z : z = 0
  OBVIOUS
<1> DEFINE d0 == Date(z, z, z, NoTime)
           shown == IF form = "RFC850" THEN y % 100 ELSE y
           d5 == Date(shown, m, day, time)
<1>p. PICK d : d = Date(y, m, day, time)
  OBVIOUS
<1>0. d = Date(y, m, day, time) /\ d.year = y /\ d.month = m /\ d.day = day /\ d.time = time
  BY <1>p DEF Date
<1>s. shown = IF form = "RFC850" THEN y % 100 ELSE y
  OBVIOUS
<1> HIDE DEF d0, shown, d5
<1>1. CASE form \in {"IMF-fixdate", "RFC850"}
  <2>1. PICK k : k = IF form = "RFC850" THEN 2 ELSE 4
    OBVIOUS
  <2>2. PICK two \in {1, 2} : two = 2
    OBVIOUS
  <2>3. Text(form, d) = <<Number(day, two), Month(m), Number(shown, k), Time(time), OtherWord>>
    BY <1>0, <1>1, <1>s, <2>1, <2>2 DEF Text
  <2>4. TakeWord(d0, Number(day, two)) = Date(z, z, day, NoTime)
    BY <1>z, DayTaken DEF d0
  <2>5. TakeWord(Date(z, z, day, NoTime), Month(m)) = Date(z, m, day, NoTime)
    BY MonthTaken DEF d0
  <2>6. TakeWord(Date(z, m, day, NoTime), Number(shown, k)) = Date(shown, m, day, NoTime)
    BY YearTaken
  <2>7. TakeWord(Date(shown, m, day, NoTime), Time(time)) = Date(shown, m, day, time)
    BY TimeTaken DEF d5
  <2>8. TakeWord(Date(shown, m, day, time), OtherWord) = d5
    BY OtherTaken DEF d0, d5
  <2>9. Read(<<Number(day, two), Month(m), Number(shown, k), Time(time), OtherWord>>) = d5
    BY <1>z, <2>2, <2>4, <2>5, <2>6, <2>7, <2>8, ReadFive DEF d0
  <2>10. QED  BY <1>0, <1>s, <2>3, <2>9 DEF d5, shown
<1>2. CASE form = "asctime"
  <2>1. PICK k \in {1, 2} : k = IF day < 10 THEN 1 ELSE 2
    OBVIOUS
  <2>2. PICK four : four = 4
    OBVIOUS
  <2>3. Text(form, d) = <<OtherWord, Month(m), Number(day, k), Time(time), Number(shown, four)>>
    BY <1>0, <1>2, <1>s, <2>1, <2>2 DEF Text
  <2>4. TakeWord(d0, OtherWord) = d0
    BY OtherTaken
  <2>5. TakeWord(d0, Month(m)) = Date(z, m, z, NoTime)
    BY MonthTaken DEF d0
  <2>6. TakeWord(Date(z, m, z, NoTime), Number(day, k)) = Date(z, m, day, NoTime)
    BY <1>z, DayTaken
  <2>7. TakeWord(Date(z, m, day, NoTime), Time(time)) = Date(z, m, day, time)
    BY TimeTaken
  <2>8. TakeWord(Date(z, m, day, time), Number(shown, four)) = d5
    BY <2>2, YearTaken DEF d5
  <2>9. Read(<<OtherWord, Month(m), Number(day, k), Time(time), Number(shown, four)>>) = d5
    BY <1>z, <2>4, <2>5, <2>6, <2>7, <2>8, ReadFive DEF d0
  <2>10. QED  BY <1>0, <1>s, <2>3, <2>9 DEF d5, shown
<1>3. QED  BY <1>1, <1>2 DEF Forms

\* A date with a year and a time of day is not refused, and means a second.
LEMMA DatesMean ==
    ASSUME NEW year \in Nat, year # 0, NEW y \in Nat, FullYear(year) = y, y >= 1970,
           NEW m \in Months, NEW day \in Days, NEW h \in Hours, NEW mi \in Sixtieths, NEW s \in Sixtieths
    PROVE  LET d == Date(year, m, day, <<h, mi, s>>)
           IN  IsAccepted(d) /\ TimeOf(d) = Instant(DayNumber(y, m, day), Seconds(h, mi, s))
<1>0. PICK d : d = Date(year, m, day, <<h, mi, s>>)
  OBVIOUS
<1>1. /\ d = Date(year, m, day, <<h, mi, s>>) /\ d.year = year /\ d.month = m /\ d.day = day
      /\ d.time = <<h, mi, s>>
  BY <1>0 DEF Date
<1>2. <<h, mi, s>> # NoTime
  BY DEF NoTime
<1>3. IsAccepted(d)
  BY <1>1, <1>2 DEF IsAccepted, Months, Days, Hours, Sixtieths
<1>4. SecondsOf(d.time) = Seconds(h, mi, s)
  BY <1>1 DEF SecondsOf, Seconds
<1>5. DaysFromCivil(y, m, day) = DayNumber(y, m, day)
  BY DaysFromCivilIs DEF Months, Days, DayNumber
<1>6. TimeOf(d) = Instant(DaysFromCivil(y, m, day), Seconds(h, mi, s))
  BY <1>1, <1>4 DEF TimeOf, Instant
<1>7. QED  BY <1>1, <1>3, <1>5, <1>6

\* The last two digits of a year tell it from 1970 to 2069, 2000 aside, and
\* tell a year before 2070 of a later one.
LEMMA TwoDigits ==
    ASSUME NEW y \in Nat, y >= 1970, y % 100 # 0
    PROVE  /\ y % 100 \in Nat /\ FullYear(y % 100) \in 1970..2069
           /\ y < 2070 => FullYear(y % 100) = y
<1>1. PICK r \in 1..99, c \in Nat : r = y % 100 /\ y = 100 * c + r
  <2>1. y % 100 \in 0..99 /\ y \div 100 \in Nat /\ y = 100 * (y \div 100) + (y % 100)
    OBVIOUS
  <2>2. QED  BY <2>1
<1>2. FullYear(r) = IF r < 70 THEN r + 2000 ELSE r + 1900
  BY <1>1 DEF FullYear
<1>3. QED  BY <1>1, <1>2

\* An earlier year's instants are earlier.
LEMMA EarlierYear ==
    ASSUME NEW x \in Nat, NEW y \in Nat, 1970 <= x, x < y, NEW m \in Months, NEW day \in Days
    PROVE  /\ DayNumber(x, m, day) \in Int
           /\ DayNumber(x, m, day) <= DayNumber(y, m, day)
<1>1. YearStart(x) \in Nat /\ YearStart(x + 1) = YearStart(x) + 365 + LeapDay(x)
  BY YearStartIs
<1>2. YearStart(y) \in Nat /\ YearStart(x + 1) <= YearStart(y)
  BY YearStartIs, YearStartGrows
<1>3. LeapDay(x) \in 0..1 /\ LeapDay(y) \in 0..1
  BY DEF LeapDay
<1>4. MonthStart(x, m) \in Nat /\ MonthStart(y, m) \in Nat /\ MonthStart(x, m) <= MonthStart(y, m) + 1
  BY DEF MonthStart, Months
<1>5. PICK a \in Nat, b \in Nat, p \in Nat, q \in Nat :
         a = YearStart(x) /\ b = YearStart(y) /\ p = MonthStart(x, m) /\ q = MonthStart(y, m)
  BY <1>1, <1>2, <1>4
<1>6. a + 365 <= b /\ p <= q + 1
  BY <1>1, <1>2, <1>3, <1>4, <1>5
<1>7. QED  BY <1>5, <1>6 DEF Days, DayNumber

-----------------------------------------------------------------------------
(* What the client keeps and asks for.                                     *)

\* A copy is of something the file has been, or is.
IsCopy(i) ==
    /\ copy.etag = {prints[i]} /\ copy.modified = {formatHttpDate(prints[i].mtime)}
    /\ copy.blocks \in Seq(Nat) /\ Len(copy.blocks) \in Sizes
    /\ i = Len(prints) /\ file.exists => copy.blocks = file.blocks
CopyInv == copy = NoCopy \/ \E i \in DOMAIN prints : IsCopy(i)

\* The headers of a revalidation.
AskedTags == CASE client \in {"tag", "both"} -> copy.etag
               [] client = "any"            -> {AnyTag}
               [] OTHER                     -> {}
AskedDate == LET date == CHOOSE d \in copy.modified : TRUE
             IN  CASE client = "both"   -> Text("IMF-fixdate", date)
                   [] client \in Forms  -> Text(client, date)
                   [] OTHER             -> <<>>

RequestInv ==
    \/ request.ifNoneMatch = {} /\ request.ifModifiedSince = <<>>
    \/ /\ copy # NoCopy
       /\ request = [method |-> request.method, target |-> "file",
                     ifNoneMatch |-> AskedTags, ifModifiedSince |-> AskedDate]

LEMMA InfoIsTag == TypeInv => makeETag(info) = info
BY DEF TypeInv, Stamps, makeETag

LEMMA CopyStep == TypeInv /\ MadeInv /\ CopyInv /\ [Next]_vars => CopyInv'
<1> SUFFICES ASSUME TypeInv, MadeInv, CopyInv, [Next]_vars PROVE CopyInv'
  OBVIOUS
<1>1. CASE RemoveFile \/ \E size \in Sizes : WriteFile(size)
  <2>1. PICK f, other : IsAFile(f) /\ Change(f, other)
    BY <1>1, Changing
  <2>2. copy' = copy /\ file' = f
    BY <2>1 DEF Change, clientVars
  <2>3. CASE copy = NoCopy
    BY <2>2, <2>3 DEF CopyInv, NoCopy
  <2>4. ASSUME NEW i \in DOMAIN prints, IsCopy(i) PROVE CopyInv'
    <3>1. CASE f.exists
      <4>1. prints' = Append(prints, Stamp(f)) /\ Stamp(f) \in Stamps
        BY <2>1, <3>1, StampIs DEF Change
      <4>2. /\ Len(prints') = Len(prints) + 1 /\ prints' \in Seq(Stamps) /\ Len(prints) \in Nat
            /\ \A j \in 1..Len(prints) : prints'[j] = prints[j]
        BY <4>1, AppendProperties, LenProperties DEF TypeInv
      <4>3. DOMAIN prints = 1..Len(prints) /\ DOMAIN prints' = 1..Len(prints')
        BY <4>2, LenProperties DEF TypeInv
      <4>4. i \in DOMAIN prints' /\ i # Len(prints') /\ prints'[i] = prints[i]
        BY <2>4, <4>2, <4>3
      <4>5. IsCopy(i)'
        BY <2>2, <2>4, <4>4 DEF IsCopy
      <4>6. QED  BY <4>4, <4>5 DEF CopyInv
    <3>2. CASE ~f.exists
      <4>1. prints' = prints
        BY <2>1, <3>2 DEF Change
      <4>2. IsCopy(i)'
        BY <2>2, <2>4, <3>2, <4>1 DEF IsCopy
      <4>3. QED  BY <4>1, <4>2 DEF CopyInv
    <3>3. QED  BY <3>1, <3>2
  <2>5. QED  BY <2>3, <2>4 DEF CopyInv
<1>2. ASSUME UNCHANGED <<copy, file, prints>> PROVE CopyInv'
  BY <1>2 DEF CopyInv, IsCopy
<1>3. CASE Receive
  <2>1. UNCHANGED <<file, prints>>
    BY <1>3 DEF Receive, Done, fileVars
  <2>2. CASE request.target = "file" /\ request.method = "GET" /\ wire.status = 200
    <3>1. copy' = [etag |-> wire.etag, modified |-> wire.modified, blocks |-> wire.body]
      BY <1>3, <2>2 DEF Receive, CopyAfter
    <3>2. Sent200 /\ FromStat
      BY <1>3, <2>2 DEF Receive, MadeInv, SentInv, FromStat, Validating
    <3>3. PICK i \in DOMAIN prints : info = prints[i] /\ (since = "nothing" <=> (i = Len(prints) /\ file.exists))
      BY <3>2 DEF MadeInv, Known
    <3>4. Len(wire.body) \in Nat /\ info.size \in 0..MaxSize
      BY <3>2, LenProperties DEF Sent200, TypeInv, Stamps, Sizes
    <3>5. Len(wire.body) \in Sizes
      BY <3>2, <3>4, RouterAssumption DEF Sent200, Sizes
    <3>6. IsCopy(i)'
      BY <2>1, <2>2, <3>1, <3>2, <3>3, <3>5, InfoIsTag DEF IsCopy, Sent200
    <3>7. QED  BY <2>1, <3>6 DEF CopyInv
  <2>3. CASE ~(request.target = "file" /\ request.method = "GET" /\ wire.status = 200)
    BY <1>2, <1>3, <2>1, <2>3 DEF Receive, CopyAfter
  <2>4. QED  BY <2>2, <2>3
<1>4. CASE Disconnect
  BY <1>2, <1>4 DEF Disconnect, Done, fileVars
<1>5. CASE \/ Serve \/ Tick \/ Upstream \/ UNCHANGED vars \/ \E r \in Requests : Ask(r[1], r[2])
  <2>1. UNCHANGED <<copy, file, prints>>
    BY <1>5 DEF Serve, Handle, HandlePrefix, Forwarding, Stat, OpenBody, OpenStream, Open, ReadFile,
                Respond, SendFile, Ask, Tick, Upstream, vars, fileVars, clientVars
  <2>2. QED  BY <1>2, <2>1
<1>6. QED
  BY <1>1, <1>3, <1>4, <1>5 DEF Next

LEMMA ConditionalIs ==
    ASSUME copy # NoCopy, NEW method, NEW target,
           NEW r, r = [method |-> method, target |-> target, ifNoneMatch |-> {}, ifModifiedSince |-> <<>>]
    PROVE  Conditional(r) = [method |-> method, target |-> target,
                             ifNoneMatch |-> AskedTags, ifModifiedSince |-> AskedDate]
<1>1. PICK tags, date : tags = AskedTags /\ date = AskedDate
  OBVIOUS
<1>2. Conditional(r) = [r EXCEPT !.ifNoneMatch = tags, !.ifModifiedSince = date]
  BY <1>1 DEF Conditional, AskedTags, AskedDate
<1>3. Conditional(r) = [method |-> method, target |-> target, ifNoneMatch |-> tags, ifModifiedSince |-> date]
  BY <1>2
<1>4. QED  BY <1>1, <1>3

LEMMA RequestStep == TypeInv /\ RequestInv /\ [Next]_vars => RequestInv'
<1> SUFFICES ASSUME TypeInv, RequestInv, [Next]_vars PROVE RequestInv'
  OBVIOUS
<1>1. ASSUME UNCHANGED <<client, copy, request>> PROVE RequestInv'
  BY <1>1 DEF RequestInv, AskedTags, AskedDate
<1>2. CASE RemoveFile \/ \E size \in Sizes : WriteFile(size)
  <2>1. PICK f, other : IsAFile(f) /\ Change(f, other)
    BY <1>2, Changing
  <2>2. QED  BY <1>1, <2>1 DEF Change, clientVars
<1>3. CASE Receive \/ Disconnect
  BY <1>3 DEF Receive, Disconnect, Done, RequestInv, NoRequest
<1>4. CASE \E r \in Requests : Ask(r[1], r[2])
  <2>1. PICK method, target : Ask(method, target)
    BY <1>4
  <2> DEFINE plain == [NoRequest EXCEPT !.method = method, !.target = target]
  <2>2. plain = [method |-> method, target |-> target, ifNoneMatch |-> {}, ifModifiedSince |-> <<>>]
    <3>1. PICK m, t, tags, date : /\ tags = {} /\ date = <<>>
                                  /\ NoRequest = [method |-> m, target |-> t, ifNoneMatch |-> tags,
                                                  ifModifiedSince |-> date]
      BY DEF NoRequest
    <3>2. PICK r : r = [NoRequest EXCEPT !.method = method]
      OBVIOUS
    <3>3. r = [method |-> method, target |-> t, ifNoneMatch |-> tags, ifModifiedSince |-> date]
      BY <3>1, <3>2
    <3>4. plain = [r EXCEPT !.target = target]
      BY <3>1, <3>2
    <3> HIDE DEF plain
    <3>5. plain = [method |-> method, target |-> target, ifNoneMatch |-> tags, ifModifiedSince |-> date]
      BY <3>3, <3>4
    <3>6. QED  BY <3>1, <3>5
  <2>3. /\ request' = plain \/ (target = "file" /\ request' = Conditional(plain))
        /\ UNCHANGED <<client, copy>>
    BY <2>1 DEF Ask
  <2> HIDE DEF plain
  <2>4. CASE request' = plain \/ copy = NoCopy
    BY <2>2, <2>3, <2>4 DEF RequestInv, Conditional
  <2>5. CASE target = "file" /\ request' = Conditional(plain) /\ copy # NoCopy
    <3>1. request' = [method |-> method, target |-> "file",
                      ifNoneMatch |-> AskedTags, ifModifiedSince |-> AskedDate]
      BY <2>2, <2>5, ConditionalIs
    <3>2. AskedTags' = AskedTags /\ AskedDate' = AskedDate
      BY <2>3 DEF AskedTags, AskedDate
    <3>3. QED
      BY <2>3, <2>5, <3>1, <3>2 DEF RequestInv, NoCopy
  <2>6. QED  BY <2>3, <2>4, <2>5
<1>5. CASE \/ Serve \/ Tick \/ Upstream \/ UNCHANGED vars
  <2>1. UNCHANGED <<client, copy, request>>
    BY <1>5 DEF Serve, Handle, HandlePrefix, Forwarding, Stat, OpenBody, OpenStream, Open, ReadFile,
                Respond, SendFile, Tick, Upstream, vars, clientVars
  <2>2. QED  BY <1>1, <2>1
<1>6. QED
  BY <1>2, <1>3, <1>4, <1>5 DEF Next

\* What is read of a time that was written.
Told(form, m) == parseHttpDate(Text(form, formatHttpDate(m)))

LEMMA DatesRead ==
    ASSUME NEW m \in Nat, NEW form \in Forms
    PROVE  /\ \A t \in Told(form, m) : t \in Int /\ t <= m
           /\ m \in Told(form, m) \/ (form = "RFC850" /\ Ambiguous(formatHttpDate(m)))
<1>0. PICK y \in Nat, month \in Months, day \in Days, h \in Hours, mi, s \in Sixtieths :
         IsSecond(m, y, month, day, h, mi, s)
  BY Gmtime
<1>1. /\ gmtime_r(m) = Date(y, month, day, <<h, mi, s>>)
      /\ y >= 1970
      /\ m = Instant(DayNumber(y, month, day), Seconds(h, mi, s))
  BY <1>0 DEF IsSecond
<1> DEFINE shown == IF form = "RFC850" THEN y % 100 ELSE y
           d == Date(shown, month, day, <<h, mi, s>>)
<1>s. shown = (IF form = "RFC850" THEN y % 100 ELSE y) /\ d = Date(shown, month, day, <<h, mi, s>>)
  OBVIOUS
<1> HIDE DEF shown, d
<1>2. Told(form, m) = {TimeOf(e) : e \in {u \in {d} : IsAccepted(u)}}
  <2>1. Read(Text(form, Date(y, month, day, <<h, mi, s>>))) = d
    BY <1>s, TextsRead
  <2>2. Told(form, m) = parseHttpDate(Text(form, Date(y, month, day, <<h, mi, s>>)))
    BY <1>1 DEF Told, formatHttpDate
  <2>3. QED  BY <2>1, <2>2 DEF parseHttpDate
<1>3. formatHttpDate(m).year = y
  BY <1>1 DEF formatHttpDate, Date
<1>4. ASSUME NEW year \in Nat, year # 0, year = shown, NEW z \in Nat, FullYear(year) = z, z >= 1970
      PROVE  Told(form, m) = {Instant(DayNumber(z, month, day), Seconds(h, mi, s))}
  <2>1. /\ IsAccepted(Date(year, month, day, <<h, mi, s>>))
        /\ TimeOf(Date(year, month, day, <<h, mi, s>>)) =
              Instant(DayNumber(z, month, day), Seconds(h, mi, s))
    BY <1>4, DatesMean
  <2>2. d = Date(year, month, day, <<h, mi, s>>)
    BY <1>4, <1>s
  <2>3. QED  BY <1>2, <2>1, <2>2
<1>5. m \in Int /\ m <= m
  OBVIOUS
<1>6. CASE form # "RFC850" \/ (y % 100 # 0 /\ y < 2070)
  <2>1. PICK year \in Nat : year = shown /\ year # 0 /\ FullYear(year) = y
    <3>1. CASE form # "RFC850"
      BY <1>1, <1>s, <3>1 DEF FullYear
    <3>2. CASE form = "RFC850" /\ y % 100 # 0 /\ y < 2070
      <4>1. y % 100 \in Nat /\ FullYear(y % 100) = y
        BY <1>1, <3>2, TwoDigits
      <4>2. QED  BY <1>s, <3>2, <4>1
    <3>3. QED  BY <1>6, <3>1, <3>2
  <2>2. Told(form, m) = {m}
    BY <1>1, <1>4, <2>1
  <2>3. QED  BY <1>5, <2>2
<1>7. CASE form = "RFC850" /\ y % 100 = 0
  <2>1. PICK u : u = d
    OBVIOUS
  <2>2. u.year = 0
    BY <1>7, <1>s, <2>1 DEF Date
  <2>3. ~IsAccepted(u)
    BY <2>2 DEF IsAccepted
  <2>4. Told(form, m) = {}
    BY <1>2, <2>1, <2>3
  <2>5. QED  BY <1>3, <1>7, <2>4 DEF Ambiguous
<1>8. CASE form = "RFC850" /\ y % 100 # 0 /\ y >= 2070
  <2>1. PICK year \in Nat, z \in Nat : year = shown /\ year # 0 /\ FullYear(year) = z /\ z >= 1970 /\ z < y
    <3>1. y % 100 \in Nat /\ FullYear(y % 100) \in 1970..2069
      BY <1>1, <1>8, TwoDigits
    <3>2. QED  BY <1>8, <1>s, <3>1
  <2>2. /\ DayNumber(z, month, day) \in Int
        /\ DayNumber(z, month, day) <= DayNumber(y, month, day)
    BY <2>1, EarlierYear
  <2>3. PICK a \in Int, b \in Int : /\ a = DayNumber(z, month, day)
                                    /\ b = DayNumber(y, month, day) /\ a <= b
    <3>1. YearStart(y) \in Nat
      BY <1>1, YearStartIs
    <3>2. MonthStart(y, month) \in Nat
      <4>1. MonthStart(y, month) \in 0..366
        BY MonthLength DEF Months
      <4>2. QED  BY <4>1
    <3>3. DayNumber(y, month, day) \in Int
      BY <3>1, <3>2 DEF Days, DayNumber
    <3>4. QED  BY <2>2, <3>3
  <2>4. PICK c \in Nat : c = Seconds(h, mi, s)
    BY DEF Seconds, Hours, Sixtieths
  <2>5. Told(form, m) = {Instant(a, c)} /\ m = Instant(b, c)
    BY <1>1, <1>4, <2>1, <2>3, <2>4
  <2>6. Instant(a, c) \in Int /\ Instant(a, c) <= Instant(b, c)
    BY <2>3, SMT DEF Instant
  <2>7. QED  BY <1>3, <1>8, <2>5, <2>6 DEF Ambiguous
<1>9. QED  BY <1>1, <1>6, <1>7, <1>8

LEMMA NothingRead == parseHttpDate(<<>>) = {}
BY ReadNone DEF parseHttpDate, IsAccepted, Date

-----------------------------------------------------------------------------
(* Revalidation.                                                           *)

LEMMA Asked ==
    ASSUME TypeInv, CopyInv, RequestInv, isNotModified(info) \/ request.ifNoneMatch # {} \/ request.ifModifiedSince # <<>>
    PROVE  /\ request.target = "file" /\ copy # NoCopy
           /\ request.ifNoneMatch = AskedTags /\ request.ifModifiedSince = AskedDate
           /\ \E i \in DOMAIN prints : IsCopy(i)
<1>1. request.ifNoneMatch # {} \/ request.ifModifiedSince # <<>>
  BY NothingRead DEF isNotModified
<1>2. PICK method, target : /\ copy # NoCopy /\ target = "file"
                            /\ request = [method |-> method, target |-> target,
                                          ifNoneMatch |-> AskedTags, ifModifiedSince |-> AskedDate]
  BY <1>1 DEF RequestInv
<1>3. request.target = "file" /\ request.ifNoneMatch = AskedTags /\ request.ifModifiedSince = AskedDate
  BY <1>2
<1>4. QED  BY <1>2, <1>3 DEF CopyInv

\* A tag is never `any'.
LEMMA TagIsNotAny == \A s \in Stamps : s # AnyTag
<1>1. SUFFICES ASSUME NEW mtime, NEW size PROVE [mtime |-> mtime, size |-> size] # AnyTag
  BY DEF Stamps
<1>2. QED  BY DEF AnyTag

LEMMA CurrentCopy ==
    ASSUME TypeInv, MadeInv, CopyInv, RequestInv, at = "sent", request.target = "file", since = "nothing",
           wire.status = 304, client # "any",
           IF client \in {"tag", "both"} THEN TagsTell ELSE DatesTell
    PROVE  copy.blocks = file.blocks
<1>1. isNotModified(info) /\ FromStat
  BY DEF MadeInv, SentInv, Sent200, FromStat, Validating
<1>2. PICK i \in DOMAIN prints : IsCopy(i)
  BY <1>1, Asked
<1>3. request.ifNoneMatch = AskedTags /\ request.ifModifiedSince = AskedDate
  BY <1>1, Asked
<1>4. info = prints[Len(prints)] /\ Len(prints) \in DOMAIN prints /\ file.exists
  BY <1>1 DEF MadeInv, Known
<1>5. prints[i] \in Stamps /\ info \in Stamps /\ i \in 1..Len(prints) /\ Len(prints) \in Nat
  BY <1>2, ElementOfSeq, LenProperties DEF TypeInv
<1>6. SUFFICES i = Len(prints)
  BY <1>2, <1>4 DEF IsCopy
<1>7. CASE client \in {"tag", "both"}
  <2>1. AskedTags = {prints[i]}
    BY <1>2, <1>7 DEF AskedTags, IsCopy
  <2>2. prints[i] = info
    BY <1>1, <1>3, <1>5, <2>1, InfoIsTag, TagIsNotAny DEF isNotModified, etagMatches
  <2>3. QED  BY <1>2, <1>4, <1>7, <2>2 DEF TagsTell, IsInjective
<1>8. CASE client \notin {"tag", "both"}
  <2>1. AskedTags = {}
    BY <1>8 DEF AskedTags
  <2>2. PICK t \in parseHttpDate(AskedDate) : info.mtime <= t
    BY <1>1, <1>3, <2>1 DEF isNotModified
  <2>3. client \in Forms
    BY <1>8, <2>2, NothingRead DEF AskedDate
  <2>4. parseHttpDate(AskedDate) = Told(client, prints[i].mtime)
    BY <1>2, <1>8, <2>3 DEF AskedDate, IsCopy, Forms, Told
  <2>5. PICK m \in Nat : m = prints[i].mtime
    BY <1>5 DEF Stamps
  <2>6. t \in Int /\ t <= m
    <3>1. t \in Told(client, m)
      BY <2>2, <2>4, <2>5
    <3>2. \A s \in Told(client, m) : s \in Int /\ s <= m
      <4>1. m \in Nat
        BY <2>5
      <4>2. client \in Forms
        BY <2>3
      <4>3. \A form \in Forms : \A s \in Told(form, m) : s \in Int /\ s <= m
        BY <4>1, DatesRead
      <4>4. QED  BY <4>2, <4>3
    <3>3. QED  BY <3>1, <3>2
  <2>7. prints[Len(prints)].mtime <= prints[i].mtime /\ info.mtime \in Nat
    BY <1>4, <1>5, <2>2, <2>5, <2>6 DEF Stamps
  <2>8. ~(i < Len(prints))
    BY <1>2, <1>4, <1>5, <1>8, <2>5, <2>6, <2>7 DEF DatesTell
  <2>9. QED  BY <1>5, <2>8
<1>9. QED  BY <1>7, <1>8

LEMMA NotResent == TypeInv /\ MadeInv /\ CopyInv /\ RequestInv => UnchangedIsNotResent
<1> SUFFICES ASSUME TypeInv, MadeInv, CopyInv, RequestInv, at = "sent", wire.status = 200, since = "nothing",
                    request.ifNoneMatch # {} \/ request.ifModifiedSince # <<>>,
                    copy.etag = {Stamp(file)}
             PROVE  client = "RFC850" /\ \A d \in copy.modified : Ambiguous(d)
  BY DEF UnchangedIsNotResent
<1>1. /\ request.target = "file" /\ request.ifNoneMatch = AskedTags /\ request.ifModifiedSince = AskedDate
      /\ \E i \in DOMAIN prints : IsCopy(i)
  BY Asked
<1>2. PICK i \in DOMAIN prints : IsCopy(i)
  BY <1>1
<1>3. Sent200 /\ FromStat
  BY <1>1 DEF MadeInv, SentInv, FromStat, Validating
<1>4. info = Stamp(file) /\ prints[i] = info /\ info.mtime \in Nat
  BY <1>2, <1>3, Unchanged DEF MadeInv, IsCopy, TypeInv, Stamps
<1>5. ~isNotModified(info)
  BY <1>3 DEF Sent200
<1>6. client \notin {"tag", "both", "any"}
  <2>1. ASSUME client \in {"tag", "both"} PROVE FALSE
    <3>1. request.ifNoneMatch = copy.etag
      BY <1>1, <2>1 DEF AskedTags
    <3>2. request.ifNoneMatch = {info} /\ makeETag(info) = info
      BY <1>2, <1>4, <3>1, InfoIsTag DEF IsCopy
    <3>3. info \in request.ifNoneMatch /\ request.ifNoneMatch # {}
      BY <3>2
    <3>4. QED  BY <1>5, <3>2, <3>3 DEF isNotModified, etagMatches
  <2>2. ASSUME client = "any" PROVE FALSE
    BY <1>1, <1>5, <2>2 DEF AskedTags, isNotModified, etagMatches
  <2>3. QED  BY <2>1, <2>2
<1>7. request.ifNoneMatch = {} /\ client \in Forms /\ parseHttpDate(AskedDate) = Told(client, info.mtime)
  <2>1. request.ifNoneMatch = {}
    BY <1>1, <1>6 DEF AskedTags
  <2>2. AskedDate # <<>>
    BY <1>1, <2>1
  <2>3. client \in Forms /\ AskedDate = Text(client, CHOOSE d \in copy.modified : TRUE)
    BY <1>6, <2>2 DEF AskedDate
  <2>4. PICK date : date = formatHttpDate(info.mtime)
    OBVIOUS
  <2>5. (CHOOSE d \in copy.modified : TRUE) = date
    BY <1>2, <1>4, <2>4 DEF IsCopy
  <2>6. QED  BY <2>1, <2>3, <2>4, <2>5 DEF Told
<1>8. info.mtime \notin Told(client, info.mtime)
  <2>1. request.ifNoneMatch = {} /\ parseHttpDate(request.ifModifiedSince) = Told(client, info.mtime)
    BY <1>1, <1>7, Zenon
  <2>2. ~(\E t \in parseHttpDate(request.ifModifiedSince) : info.mtime <= t)
    BY <1>5, <2>1 DEF isNotModified
  <2>3. info.mtime <= info.mtime
    BY <1>4
  <2>4. PICK told : told = Told(client, info.mtime) /\ told = parseHttpDate(request.ifModifiedSince)
    BY <2>1
  <2>5. info.mtime \notin told
    BY <2>2, <2>3, <2>4
  <2>6. QED  BY <2>4, <2>5
<1>9. client = "RFC850" /\ Ambiguous(formatHttpDate(info.mtime))
  BY <1>4, <1>7, <1>8, DatesRead
<1>10. QED  BY <1>2, <1>4, <1>9 DEF IsCopy

-----------------------------------------------------------------------------
(* The invariant, and what it says.                                        *)

IInv == TypeInv /\ OpenInv /\ ProxyInv /\ MadeInv /\ CopyInv /\ RequestInv

\* The invariant: types, what is open and what is being forwarded; what the answer in the
\* making, or on its way, owes to the file that stat() saw; what the client's copy and its
\* request owe to the answers it had (Router::handle(), forward(), sendPendingFile()).
THEOREM RouterInvariance == Spec => []IInv
<1>1. Init => IInv
  <2> SUFFICES ASSUME Init PROVE IInv
    OBVIOUS
  <2>1. PICK size \in Sizes : file = File(start, Written(1, size))
    BY DEF Init
  <2>2. IsAFile(file) /\ start \in Nat /\ Len(file.blocks) \in Nat /\ file.exists
    <3>1. start \in Nat /\ size \in Nat
      BY <2>1, RouterAssumption DEF Init, Sizes
    <3>2. PICK blocks : blocks = Written(1, size)
      OBVIOUS
    <3>3. blocks \in Seq(Nat) /\ Len(blocks) = size
      BY <3>1, <3>2, WrittenIs
    <3>4. QED  BY <2>1, <3>1, <3>2, <3>3 DEF File, IsAFile
  <2>3. prints = <<Stamp(file)>> /\ Stamp(file) \in Stamps
    BY <2>2, StampIs DEF Init
  <2>4. prints \in Seq(Stamps) /\ prints # <<>> /\ Len(prints) = 1
    BY <2>3
  <2>5. TypeInv
    <3>1. NoInfo \in Stamps /\ start + MaxTicks \in Nat /\ 1 \in 1..MaxChanges
      BY <2>2, RouterAssumption DEF NoInfo, Stamps, Sizes
    <3>2. clock \in start..(start + MaxTicks)
      BY <2>2, RouterAssumption DEF Init
    <3>3. IsAFile(unlinked) /\ ~unlinked.exists
      BY NoFileIs DEF Init
    <3>4. QED  BY <2>2, <2>4, <3>1, <3>2, <3>3 DEF Init, TypeInv, Stages
  <2>6. OpenInv /\ ProxyInv
    BY DEF Init, ProxyInit, OpenInv, ProxyInv
  <2>7. MadeInv
    <3>1. FileKept
      BY <2>2 DEF Init, FileKept, NoInfo
    <3>2. Known
      BY <2>3, <2>4 DEF Init, Known, FromStat, Opening
    <3>3. QED  BY <3>1, <3>2 DEF Init, MadeInv, AnswerInv, SentInv, Opening
  <2>8. CopyInv /\ RequestInv
    BY DEF Init, CopyInv, RequestInv, NoRequest
  <2>9. QED  BY <2>5, <2>6, <2>7, <2>8 DEF IInv
<1>2. IInv /\ [Next]_vars => IInv'
  BY TypeStep, OpenStep, ProxyStepKeeps, KeptStep, KnownStep, AnswerStep, SentStep, CopyStep, RequestStep
     DEF IInv, MadeInv
<1>3. QED  BY <1>1, <1>2, PTL DEF Spec

\* However an answer ends, the upstream's socket and the file it opened are closed with it
\* (close() in forward(), ~FileBody()).
THEOREM FilesClose == Spec => []DescriptorsReturned
<1>1. IInv => DescriptorsReturned
  <2> SUFFICES ASSUME IInv PROVE DescriptorsReturned
    OBVIOUS
  <2>1. Len(copy.blocks) \in Sizes
    BY NoFileIs DEF IInv, CopyInv, IsCopy, NoCopy, NoFile, IsAFile
  <2>2. QED  BY <2>1 DEF IInv, TypeInv, OpenInv, IsAFile, DescriptorsReturned, TypeOK
<1>2. QED  BY <1>1, RouterInvariance, PTL

\* An answer is as long as it says; shorter only if its file shrank after stat(), or the
\* upstream closed early; and with any other length only if its upstream told that one
\* itself, and then with no more than what the upstream sent (serialize(),
\* serveFileBody(), sendPendingFile(), forward()).
THEOREM AnswersDelimited == Spec => []Delimited
<1>1. IInv => Delimited
  BY DEF IInv, MadeInv, SentInv, Delimited
<1>2. QED  BY <1>1, RouterInvariance, PTL

\* A client that is told 304 has the file as it is, if its tag or date can tell; and one that
\* has the file as it is, is not sent it again, but for dates that RFC 850 cannot write
\* (isNotModified(), parseHttpDate(), formatHttpDate(), makeETag()).
THEOREM Revalidation == Spec => []RevalidationIsRight
<1>1. IInv => CopyIsCurrent
  BY CurrentCopy DEF IInv, CopyIsCurrent, MadeInv, SentInv, Sent200
<1>2. IInv => UnchangedIsNotResent
  BY NotResent DEF IInv
<1>3. QED  BY <1>1, <1>2, RouterInvariance, PTL DEF RevalidationIsRight
====
