----------------------------- MODULE HttpParser -----------------------------
(***************************************************************************)
(* The HTTP/1.1 request parser (src/http/HttpParser.cpp) on the input      *)
(* buffer of its connection (Buffer.h).                                    *)
(*                                                                         *)
(* A byte is CR, LF, Filler, or one that stands for the meaning of the line *)
(* it begins: a request line by the path and version it asks for, a header  *)
(* line by what it sets.  A line of any other beginning is malformed, and   *)
(* Filler makes lines longer.  So limits and positions are the code's, in   *)
(* bytes, and a message may be cut anywhere.                               *)
(*                                                                         *)
(* A turn of parse()'s loops is one step; `io' tells where the IO thread   *)
(* is in the message callback that calls parse() (HttpSession).            *)
(*                                                                         *)
(* A definition named X_Y is X with a mistake in it: put in the place of X  *)
(* it must break the property that guards against the mistake.             *)
(***************************************************************************)
EXTENDS Naturals, SequencesExt

CONSTANTS
    CR, LF, Filler,
    MaxHeaderBytes, \* maxHeaderBytes_
    MaxBodyBytes    \* maxBodyBytes_

ASSUME BytesAssumption == CR # LF
ASSUME LimitsAssumption == MaxHeaderBytes \in Nat /\ MaxBodyBytes \in Nat

VARIABLES
    input,  \* the connection's input_
    parser, \* the members of the HttpParser
    io      \* "idle", or "parse": inside the message callback

\* Lines a message may begin with: methodFromString() and the version test
\* accept them.  "file1.0" is HTTP/1.0, the others are HTTP/1.1.
RequestLines == {"/api/data", "/metrics", "/file", "/file1.0"}

\* Header lines, by what parseHeaders() makes of them.
ContentLengths == [len0 |-> 0, len1 |-> 1, len2 |-> 2]
HeaderLines == DOMAIN ContentLengths \cup {"close", "keep-alive", "other"}

KeepAliveByDefault(line) == line # "/file1.0"

\* The constructor and reset().
Fresh == [state |-> "requestLine", contentLength |-> 0, headerBytes |-> 0,
          line |-> CR, keepAlive |-> FALSE]

-----------------------------------------------------------------------------
\* findCRLF(): where the first CR LF begins.
Breaks(b) == {i \in 1..(Len(b) - 1) : b[i] = CR /\ b[i + 1] = LF}
HasLine == Breaks(input) # {}
LineEnd == Min(Breaks(input))

\* A line read off the buffer: its first byte tells its meaning.
Meaning(line) == IF line = <<>> THEN CR ELSE line[1]
Line == SubSeq(input, 1, LineEnd - 1)

\* Take the line and its CR LF, and count them.
TakeLine == input' = SubSeq(input, LineEnd + 2, Len(input))
HeaderBytes == parser.headerBytes + LineEnd + 1
TooLong == HeaderBytes > MaxHeaderBytes

Parsing(state) == io = "parse" /\ parser.state = state

Fail == parser' = [parser EXCEPT !.state = "error"]

\* parseRequestLine() with a whole line.
ParseRequestLine ==
    /\ Parsing("requestLine") /\ HasLine
    /\ TakeLine
    /\ IF TooLong \/ Meaning(Line) \notin RequestLines
       THEN Fail
       ELSE parser' = [parser EXCEPT
                !.state = "headers", !.headerBytes = HeaderBytes,
                !.line = Meaning(Line),
                !.keepAlive = KeepAliveByDefault(Meaning(Line))]
    /\ UNCHANGED io

\* What a header line sets.
SetByHeader(p, h) ==
    CASE h \in DOMAIN ContentLengths -> [p EXCEPT !.contentLength = ContentLengths[h]]
      [] h = "close"      -> [p EXCEPT !.keepAlive = FALSE]
      [] h = "keep-alive" -> [p EXCEPT !.keepAlive = TRUE]
      [] OTHER            -> p

\* parseHeaders() with a line that is not empty.
ParseHeaderLine ==
    /\ Parsing("headers") /\ HasLine /\ Line # <<>>
    /\ TakeLine
    /\ IF TooLong \/ Meaning(Line) \notin HeaderLines
       THEN Fail
       ELSE parser' = SetByHeader([parser EXCEPT !.headerBytes = HeaderBytes],
                                  Meaning(Line))
    /\ UNCHANGED io

\* parseHeaders() with the empty line that ends them.
ParseBlankLine ==
    /\ Parsing("headers") /\ HasLine /\ Line = <<>>
    /\ TakeLine
    /\ IF TooLong \/ parser.contentLength > MaxBodyBytes
       THEN Fail
       ELSE parser' = [parser EXCEPT
                !.state = IF parser.contentLength = 0 THEN "gotAll" ELSE "body",
                !.headerBytes = HeaderBytes]
    /\ UNCHANGED io

\* parseBody() with the whole body.
ParseBody ==
    /\ Parsing("body") /\ Len(input) >= parser.contentLength
    /\ input' = SubSeq(input, parser.contentLength + 1, Len(input))
    /\ parser' = [parser EXCEPT !.state = "gotAll"]
    /\ UNCHANGED io

\* No whole line yet, and too much of it already.
OverlongLine ==
    /\ parser.state \in {"requestLine", "headers"} /\ io = "parse"
    /\ ~HasLine /\ Len(input) > MaxHeaderBytes
    /\ Fail
    /\ UNCHANGED <<input, io>>

\* kNeedMore: parse() and the message callback return.
NeedMore ==
    /\ io = "parse"
    /\ \/ /\ parser.state \in {"requestLine", "headers"}
          /\ ~HasLine /\ Len(input) <= MaxHeaderBytes
       \/ parser.state = "body" /\ Len(input) < parser.contentLength
    /\ io' = "idle"
    /\ UNCHANGED <<input, parser>>

parse == \/ ParseRequestLine \/ ParseHeaderLine \/ ParseBlankLine \/ ParseBody
         \/ OverlongLine \/ NeedMore

-----------------------------------------------------------------------------
(* What the bytes b of a message and of what follows it mean, seen whole   *)
(* and at once: the definition the parser, fed piece by piece, is held to.  *)

\* The head of a message ends with the first empty line.
HeadEnds(b) == LET breaks == Breaks(b) IN {i \in breaks : i - 2 \in breaks}
HasHead(b) == HeadEnds(b) # {}
HeadBreaks(b) == LET end == Min(HeadEnds(b))
                 IN  IF HasHead(b) THEN {i \in Breaks(b) : i < end} ELSE Breaks(b)

\* The bytes of the whole lines of the head.
HeadSize(b) == IF HasHead(b) THEN Min(HeadEnds(b)) + 1
               ELSE IF Breaks(b) = {} THEN 0 ELSE Max(Breaks(b)) + 1

LineBegin(b, i) == Max({1} \cup {j + 2 : j \in {k \in Breaks(b) : k < i}})
MeaningAt(b, i) == LET begin == LineBegin(b, i) IN IF begin = i THEN CR ELSE b[begin]

Headers(b) == {i \in HeadBreaks(b) : LineBegin(b, i) > 1}

\* The last header of a kind counts.
LastOf(b, kind) == {i \in Headers(b) : /\ MeaningAt(b, i) \in kind
                                       /\ \A j \in Headers(b) : j > i => MeaningAt(b, j) \notin kind}

BodySize(b) == LET last == LastOf(b, DOMAIN ContentLengths)
               IN  IF last = {} THEN 0
                   ELSE ContentLengths[MeaningAt(b, CHOOSE i \in last : TRUE)]

KeepsAlive(b) == LET last == LastOf(b, {"close", "keep-alive"})
                 IN  IF last = {} THEN KeepAliveByDefault(b[1])
                     ELSE MeaningAt(b, CHOOSE i \in last : TRUE) = "keep-alive"

IsBad(b) ==
    \/ \E i \in HeadBreaks(b) :
          MeaningAt(b, i) \notin IF LineBegin(b, i) = 1 THEN RequestLines ELSE HeaderLines
    \/ HeadSize(b) > MaxHeaderBytes
    \/ ~HasHead(b) /\ Len(b) - HeadSize(b) > MaxHeaderBytes
    \/ HasHead(b) /\ BodySize(b) > MaxBodyBytes

IsWhole(b) == ~IsBad(b) /\ HasHead(b) /\ Len(b) >= HeadSize(b) + BodySize(b)

\* The request a whole message is.
Request(b) == [line |-> b[1], keepAlive |-> KeepsAlive(b),
               size |-> HeadSize(b) + BodySize(b)]
=============================================================================
