---------------------------- MODULE HttpResponse ----------------------------
(***************************************************************************)
(* Responses (src/http/HttpResponse.cpp) by what delimits and caches them: *)
(* the status, the headers by their names as they are spelt, and the body, *)
(* a sequence of blocks.  A body in a file is not in `body'.               *)
(*                                                                         *)
(* A definition named X_Y is X with a mistake in it: put in the place of X  *)
(* it must break the property that guards against the mistake.             *)
(***************************************************************************)
EXTENDS Naturals, SequencesExt

NoHeaders == [name \in {} |-> 0]

\* The constructor, setStatus(), setHeader() and setBody().
Response(status) == [status |-> status, headers |-> NoHeaders, body |-> <<>>]
setHeader(r, name, value) ==
    [r EXCEPT !.headers = [n \in DOMAIN @ \cup {name} |-> IF n = name THEN value ELSE @[n]]]
setBody(r, body) == [r EXCEPT !.body = body]

\* makeError() and the other responses that say what went wrong.
Failure(status) == setBody(Response(status), <<"reason">>)
badRequest       == Failure(400)
notFound         == Failure(404)
methodNotAllowed == Failure(405)
badGateway       == Failure(502)
gatewayTimeout   == Failure(504)

\* header(), as a set of values: nothing if it is not set.
Header(r, name) == {r.headers[n] : n \in DOMAIN r.headers \cap {name}}

\* How the length of a body may be spelt: names mean the same to the receiver
\* whatever their case, and are different keys of headers_.
LengthNames == {"Content-Length", "content-length"}

serialize_Always(r, includeBody) ==
    [status  |-> r.status,
     lengths |-> (UNION {Header(r, name) : name \in LengthNames}) \cup {Len(r.body)},
     etag     |-> Header(r, "ETag"),
     modified |-> Header(r, "Last-Modified"),
     body     |-> IF includeBody THEN r.body ELSE <<>>]

\* serialize(): what reaches the receiver, with every length it is told.
serialize(r, includeBody) ==
    [status  |-> r.status,
     lengths |-> (UNION {Header(r, name) : name \in LengthNames}) \cup
                 (IF "Content-Length" \in DOMAIN r.headers THEN {} ELSE {Len(r.body)}),
     etag     |-> Header(r, "ETag"),
     modified |-> Header(r, "Last-Modified"),
     body     |-> IF includeBody THEN r.body ELSE <<>>]
=============================================================================
