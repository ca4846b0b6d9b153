---------------------------- MODULE ReverseProxy ----------------------------
(***************************************************************************)
(* ReverseProxy::forward() (src/http/ReverseProxy.cpp): a thread passes a  *)
(* request on to the upstream, over a blocking socket with a timeout for   *)
(* each call, and waits for the whole answer.                              *)
(*                                                                         *)
(* A reply comes in pieces: its status line and headers, the empty line    *)
(* after them, and the blocks of its body.  The upstream may stop after    *)
(* any of them, by closing, by failing or by saying nothing any more.  One *)
(* with status 0 begins with the empty line, and its first piece is a part *)
(* of that: it has no status line.                                         *)
(*                                                                         *)
(* A definition named X_Y is X with a mistake in it: put in the place of X  *)
(* it must break the property that guards against the mistake.             *)
(***************************************************************************)
EXTENDS HttpResponse

CONSTANTS
    Replies,      \* what the upstream may answer: status, headers, body
    RequestPieces \* the pieces the request is written in

\* A reply is any status, headers and body, of whatever length it says it is.
ASSUME ProxyAssumption ==
    /\ RequestPieces \in Nat
    /\ \A r \in Replies :
          /\ r = [status |-> r.status, headers |-> r.headers, body |-> r.body]
          /\ r.status \in Nat /\ r.body \in Seq(ToSet(r.body))

VARIABLES
    step,   \* where forward() is: "socket", "resolve", ...; or "no"
    socket, \* its descriptor is open
    unsent, \* pieces of rawRequest not written yet
    reply,  \* what the upstream has to say
    got,    \* the pieces of it in responseRaw
    silent, \* the upstream says nothing any more
    result  \* the response forward() returned

upstreamVars == <<reply, silent>>
proxyVars == <<step, socket, unsent, got, result, upstreamVars>>

NoResult == Response(0)

ProxyInit ==
    /\ step = "no" /\ socket = FALSE /\ unsent = 0 /\ got = 0
    /\ reply = NoResult /\ silent = FALSE /\ result = NoResult

\* The call, with an upstream ready to answer anything, but HEAD without a body.
Forward(headOnly) ==
    /\ step = "no" /\ step' = "socket" /\ unsent' = RequestPieces
    /\ reply' \in IF headOnly THEN {setBody(r, <<>>) : r \in Replies} ELSE Replies
    /\ UNCHANGED <<socket, got, silent, result>>

\* The call is over and its result taken.
Forget ==
    /\ unsent' = 0 /\ got' = 0 /\ silent' = FALSE
    /\ reply' = NoResult /\ result' = NoResult
    /\ UNCHANGED <<step, socket>>

\* The way on from one step, and the way out.
Continue(next) == step' = next /\ UNCHANGED <<result, upstreamVars>>

Return_KeepsSocket(response) ==
    /\ step' = "no" /\ result' = response
    /\ UNCHANGED <<socket, upstreamVars>>

Return(response) ==
    /\ step' = "no" /\ result' = response
    /\ socket' = FALSE
    /\ UNCHANGED upstreamVars

OpenSocket ==
    /\ step = "socket" /\ UNCHANGED <<unsent, got>>
    /\ \/ Continue("resolve") /\ socket' = TRUE
       \/ Return(badGateway)

Resolve ==
    /\ step = "resolve" /\ UNCHANGED <<unsent, got>>
    /\ \/ Continue("connect") /\ UNCHANGED socket
       \/ Return(badGateway)

\* Refused, unreachable, or not done when SO_SNDTIMEO expires.
Connect ==
    /\ step = "connect" /\ UNCHANGED <<unsent, got>>
    /\ \/ Continue("write") /\ UNCHANGED socket
       \/ Return(badGateway)

\* write() takes some of what is left, or fails: an interrupted or a timed-out
\* write is not tried again.
Write ==
    /\ step = "write" /\ UNCHANGED got
    /\ \/ /\ unsent > 0
          /\ \E n \in 1..unsent : unsent' = unsent - n
          /\ Continue(IF unsent' = 0 THEN "read" ELSE "write") /\ UNCHANGED socket
       \/ unsent > 0 /\ Return(badGateway) /\ UNCHANGED unsent

-----------------------------------------------------------------------------
Pieces(r) == 2 + Len(r.body)

\* The response made of the pieces read up to the end of the stream.  Without the
\* empty line, whatever came is passed on as text; with nothing before it, nothing is.
Copied(r) == [n \in DOMAIN r.headers \ {"Connection", "connection"} |-> r.headers[n]]

ParseReply ==
    IF got = 0 THEN badGateway
    ELSE IF got = 1 THEN setBody(Response(200), <<"raw">>)
    ELSE IF reply.status = 0 THEN badGateway
    ELSE [status |-> reply.status, headers |-> Copied(reply),
          body |-> SubSeq(reply.body, 1, got - 2)]

ReadPiece ==
    /\ step = "read" /\ ~silent /\ got < Pieces(reply)
    /\ got' = got + 1
    /\ Continue("read") /\ UNCHANGED <<unsent, socket>>

\* read() returns 0: the upstream has closed, whether or not it has said it all.
ReadEnd ==
    /\ step = "read" /\ ~silent
    /\ Return(ParseReply)
    /\ UNCHANGED <<unsent, got>>

ReadTimeout_Retries ==
    /\ step = "read"
    /\ UNCHANGED proxyVars

\* Nothing for SO_RCVTIMEO.
ReadTimeout ==
    /\ step = "read"
    /\ Return(gatewayTimeout)
    /\ UNCHANGED <<unsent, got>>

ReadFails ==
    /\ step = "read" /\ ~silent
    /\ Return(badGateway)
    /\ UNCHANGED <<unsent, got>>

\* The upstream.
FallSilent ==
    /\ step # "no" /\ ~silent
    /\ silent' = TRUE
    /\ UNCHANGED <<step, socket, unsent, reply, got, result>>

ProxyStep ==
    \/ OpenSocket \/ Resolve \/ Connect \/ Write
    \/ ReadPiece \/ ReadEnd \/ ReadTimeout \/ ReadFails

\* The upstream closed before its reply was whole.
CutShort == 2 <= got /\ got < Pieces(reply)

\* The lengths that an upstream tells, and whether they are right.
Announced(r) == {r.headers[name] : name \in LengthNames \cap DOMAIN r.headers}
Truthful(r) ==
    /\ Announced(r) \subseteq {Len(r.body)}
    /\ r.status = 304 => r.body = <<>>
=============================================================================
