------------------------- MODULE HttpSessionProofs -------------------------
(***************************************************************************)
(* Proofs about HttpSession and HttpParser, for every stream of bytes a    *)
(* peer may send, however it is cut into pieces, and every number of       *)
(* workers: every request has one answer at most, overtaken only where     *)
(* there are workers to do so, and the parser makes of the pieces what the *)
(* whole stream means.                                                     *)
(***************************************************************************)
EXTENDS HttpSession, Integers, SequenceTheorems, FiniteSetTheorems, TLAPS

Common == INSTANCE CommonLemmas

-----------------------------------------------------------------------------
(* Sets of numbers and pieces of sequences.                                *)

LEMMA MinIs ==
    ASSUME NEW S \in SUBSET Nat, S # {}
    PROVE  Min(S) \in S /\ \A k \in S : Min(S) <= k
<1>1. \E m \in S : \A k \in S : m <= k
  BY Common!LeastNatural
<1>2. QED  BY <1>1 DEF Min

\* n elements of a sequence, those behind the i-th.
Piece(s, i, n) == SubSeq(s, i + 1, i + n)

LEMMA PieceIs ==
    ASSUME NEW S, NEW s \in Seq(S), NEW i \in Nat, NEW n \in Nat, i + n <= Len(s)
    PROVE  /\ Piece(s, i, n) \in Seq(S) /\ Len(Piece(s, i, n)) = n
           /\ \A k \in 1..n : Piece(s, i, n)[k] = s[i + k]
<1>1. \A k \in (i + 1)..(i + n) : s[k] \in S
  BY LenProperties
<1>2. PICK a \in Int, b \in Int : a = i + 1 /\ b = i + n
  OBVIOUS
<1>3. /\ SubSeq(s, a, b) \in Seq(S)
      /\ Len(SubSeq(s, a, b)) = IF a <= b THEN b - a + 1 ELSE 0
      /\ \A k \in 1..(b - a + 1) : SubSeq(s, a, b)[k] = s[a + k - 1]
  BY <1>1, <1>2, SubSeqProperties
<1>4. Piece(s, i, n) = SubSeq(s, a, b)
  BY <1>2 DEF Piece
<1>5. /\ b - a + 1 = n /\ (IF a <= b THEN b - a + 1 ELSE 0) = n
      /\ \A k \in 1..n : a + k - 1 = i + k
  BY <1>2
<1>6. QED  BY <1>3, <1>4, <1>5

LEMMA PieceOfPiece ==
    ASSUME NEW S, NEW s \in Seq(S), NEW i \in Nat, NEW n \in Nat, i + n <= Len(s),
           NEW j \in Nat, NEW m \in Nat, j + m <= n
    PROVE  Piece(Piece(s, i, n), j, m) = Piece(s, i + j, m)
<1>1. /\ Piece(s, i, n) \in Seq(S) /\ Len(Piece(s, i, n)) = n
      /\ \A k \in 1..n : Piece(s, i, n)[k] = s[i + k]
  BY PieceIs
<1>2. PICK t : t = Piece(s, i, n)
  OBVIOUS
<1>3. /\ Piece(t, j, m) \in Seq(S) /\ Len(Piece(t, j, m)) = m
      /\ \A k \in 1..m : Piece(t, j, m)[k] = t[j + k]
  <2>1. t \in Seq(S) /\ j + m <= Len(t)
    BY <1>1, <1>2
  <2>2. QED  BY <2>1, PieceIs
<1>4. PICK h \in Nat : h = i + j /\ h + m <= Len(s)
  BY LenProperties
<1>5. /\ Piece(s, h, m) \in Seq(S) /\ Len(Piece(s, h, m)) = m
      /\ \A k \in 1..m : Piece(s, h, m)[k] = s[h + k]
  BY <1>4, PieceIs
<1>6. \A k \in 1..m : j + k \in 1..n /\ t[j + k] = s[i + (j + k)] /\ i + (j + k) = h + k
  BY <1>1, <1>2, <1>4
<1>7. \A k \in 1..m : Piece(t, j, m)[k] = Piece(s, h, m)[k]
  BY <1>3, <1>5, <1>6
<1>8. Piece(t, j, m) = Piece(s, h, m)
  BY <1>3, <1>5, <1>7, SeqEqual
<1>9. QED  BY <1>2, <1>4, <1>8

LEMMA PieceJoin ==
    ASSUME NEW S, NEW s \in Seq(S), NEW i \in Nat, NEW n \in Nat, NEW m \in Nat, i + n + m <= Len(s)
    PROVE  Piece(s, i, n) \o Piece(s, i + n, m) = Piece(s, i, n + m)
<1>1. PICK h \in Nat, l \in Nat : h = i + n /\ h + m <= Len(s) /\ l = n + m /\ i + l <= Len(s) /\ i + n <= Len(s)
  BY LenProperties
<1>2. PICK t, u, v : t = Piece(s, i, n) /\ u = Piece(s, h, m) /\ v = Piece(s, i, l)
  OBVIOUS
<1>3. t \in Seq(S) /\ Len(t) = n /\ \A k \in 1..n : t[k] = s[i + k]
  <2>1. i + n <= Len(s) /\ i \in Nat /\ n \in Nat
    BY <1>1
  <2>2. /\ Piece(s, i, n) \in Seq(S) /\ Len(Piece(s, i, n)) = n
        /\ \A k \in 1..n : Piece(s, i, n)[k] = s[i + k]
    BY <2>1, PieceIs
  <2>3. QED  BY <1>2, <2>2
<1>4. u \in Seq(S) /\ Len(u) = m /\ \A k \in 1..m : u[k] = s[h + k]
  <2>1. h + m <= Len(s) /\ h \in Nat /\ m \in Nat
    BY <1>1
  <2>2. /\ Piece(s, h, m) \in Seq(S) /\ Len(Piece(s, h, m)) = m
        /\ \A k \in 1..m : Piece(s, h, m)[k] = s[h + k]
    BY <2>1, PieceIs
  <2>3. QED  BY <1>2, <2>2
<1>5. v \in Seq(S) /\ Len(v) = l /\ \A k \in 1..l : v[k] = s[i + k]
  <2>1. i + l <= Len(s) /\ i \in Nat /\ l \in Nat
    BY <1>1
  <2>2. /\ Piece(s, i, l) \in Seq(S) /\ Len(Piece(s, i, l)) = l
        /\ \A k \in 1..l : Piece(s, i, l)[k] = s[i + k]
    BY <2>1, PieceIs
  <2>3. QED  BY <1>2, <2>2
<1>6. t \o u \in Seq(S) /\ Len(t \o u) = l
  BY <1>1, <1>3, <1>4, ConcatProperties
<1>7. \A k \in 1..l : (t \o u)[k] = v[k]
  <2>1. TAKE k \in 1..l
  <2>2. (t \o u)[k] = IF k <= n THEN t[k] ELSE u[k - n]
    BY <1>1, <1>3, <1>4, ConcatProperties
  <2>3. CASE k <= n
    BY <1>3, <1>5, <2>2, <2>3
  <2>4. CASE ~(k <= n)
    <3>1. k - n \in 1..m /\ h + (k - n) = i + k
      BY <1>1, <2>4
    <3>2. u[k - n] = s[i + k]
      BY <1>4, <3>1
    <3>3. QED  BY <1>5, <2>2, <2>4, <3>2
  <2>5. QED  BY <2>3, <2>4
<1>8. t \o u = v
  BY <1>5, <1>6, <1>7, SeqEqual
<1>9. QED  BY <1>1, <1>2, <1>8

LEMMA PieceEmpty ==
    ASSUME NEW s, NEW i \in Nat
    PROVE  Piece(s, i, 0) = <<>>
BY SubSeqEmpty DEF Piece

-----------------------------------------------------------------------------
(* Type correctness.                                                       *)

States == {"requestLine", "headers", "body", "gotAll", "error"}
Lines == RequestLines \cup {CR}
Received == [line : Lines, keepAlive : BOOLEAN, end : Nat]
Replies == [request : Nat, kind : {"ok", "bad", "limited"}]
Parsers == [state : States, contentLength : Nat, headerBytes : Nat, line : Lines, keepAlive : BOOLEAN]

\* The unread input is the end of what has arrived.
InputInv ==
    /\ stream \in Seq(ToSet(stream)) /\ arrived \in 0..Len(stream)
    /\ Len(input) \in 0..arrived
    /\ input = Piece(stream, arrived - Len(input), Len(input))

ParserInv == parser \in Parsers /\ io \in {"idle", "parse"}

AnswersInv ==
    /\ jobs \in Seq(Nat) /\ posted \in Seq(Nat) /\ workers \in Nat
    /\ write \in {"open", "closing", "shut"} /\ closed \in BOOLEAN
    /\ answers \in Seq(Replies) /\ lost \subseteq Nat

TakenInv == taken \in Seq(Received)

TypeInv == InputInv /\ ParserInv /\ AnswersInv /\ TakenInv

LEMMA TypeStart == Init => TypeInv
<1> SUFFICES ASSUME Init PROVE TypeInv
  OBVIOUS
<1>1. stream \in Seq(ToSet(stream)) /\ workers \in Nat
  BY StreamsAssumption, WorkerCountsAssumption DEF Init
<1>2. InputInv
  <2>1. arrived = 0 /\ input = <<>> /\ Len(input) = 0
    BY DEF Init
  <2>2. Len(stream) \in Nat
    BY <1>1, LenProperties
  <2>3. PICK z \in Nat : z = 0
    OBVIOUS
  <2>4. Piece(stream, z, 0) = <<>>
    BY PieceEmpty
  <2>5. QED  BY <1>1, <2>1, <2>2, <2>3, <2>4 DEF InputInv
<1>3. ParserInv
  BY DEF Init, Fresh, ParserInv, Parsers, States, Lines
<1>4. AnswersInv /\ TakenInv
  BY <1>1, EmptySeq DEF Init, AnswersInv, TakenInv
<1>5. QED  BY <1>2, <1>3, <1>4 DEF TypeInv

\* What is left of the input when k bytes are taken off.
LEMMA Rest ==
    ASSUME InputInv, NEW k \in 0..Len(input), input' = SubSeq(input, k + 1, Len(input)),
           stream' = stream, arrived' = arrived
    PROVE  InputInv' /\ Len(input') = Len(input) - k
<1>1. PICK S : stream \in Seq(S) /\ S = ToSet(stream)
  BY DEF InputInv
<1>2. PICK n \in Nat, i \in Nat, l \in Nat : /\ n = Len(input) /\ i = arrived - n /\ i + n = arrived
                                           /\ l = Len(stream) /\ i + n <= l /\ k \in 0..n
  BY LenProperties, <1>1 DEF InputInv
<1>3. input = Piece(stream, i, n)
  BY <1>2 DEF InputInv
<1>a. k \in Nat /\ k <= n
  BY <1>2
<1>b. n - k \in Nat /\ i + k \in Nat
  BY <1>a
<1>c. PICK m, h : m = n - k /\ h = i + k
  OBVIOUS
<1>4. /\ m \in Nat /\ h \in Nat /\ m = n - k /\ h = i + k /\ k \in Nat /\ k + m <= n /\ k + m = n
      /\ h + m = i + n
  BY <1>a, <1>b, <1>c
<1>0. i + n <= Len(stream) /\ h + m <= Len(stream) /\ h + m = arrived
  BY <1>2, <1>4
<1>5. input' = Piece(input, k, m)
  BY <1>2, <1>4 DEF Piece
<1>6. Piece(Piece(stream, i, n), k, m) = Piece(stream, i + k, m)
  <2>1. PICK s, j : s = stream /\ j = k
    OBVIOUS
  <2>2. s \in Seq(S) /\ i + n <= Len(s) /\ j \in Nat /\ j + m <= n
    BY <1>0, <1>1, <1>4, <2>1
  <2>3. Piece(Piece(s, i, n), j, m) = Piece(s, i + j, m)
    BY <1>4, <2>2, PieceOfPiece
  <2>4. QED  BY <2>1, <2>3
<1>7. input' = Piece(stream, h, m)
  BY <1>3, <1>4, <1>5, <1>6
<1>8. Len(input') = m
  BY <1>0, <1>1, <1>4, <1>7, PieceIs
<1>9. arrived' - Len(input') = h /\ Len(input') \in 0..arrived'
  <2>1. arrived' = h + m /\ Len(input') = m
    BY <1>0, <1>4, <1>8
  <2>2. (h + m) - m = h /\ m \in 0..(h + m)
    BY <1>4
  <2>3. QED  BY <2>1, <2>2
<1>10. QED  BY <1>0, <1>1, <1>2, <1>4, <1>7, <1>8, <1>9 DEF InputInv

\* Where a line ends.
LEMMA LineEndIs ==
    ASSUME InputInv, HasLine
    PROVE  /\ LineEnd \in Breaks(input) /\ LineEnd \in 1..(Len(input) - 1)
           /\ \A i \in Breaks(input) : LineEnd <= i
<1>1. Breaks(input) \in SUBSET Nat /\ Breaks(input) # {} /\ \A i \in Breaks(input) : i \in 1..(Len(input) - 1)
  BY DEF Breaks, HasLine
<1>2. QED  BY <1>1, MinIs DEF LineEnd

LEMMA LineTaken ==
    ASSUME InputInv, HasLine, TakeLine, stream' = stream, arrived' = arrived
    PROVE  InputInv' /\ Len(input') = Len(input) - (LineEnd + 1)
<1>1. PICK k \in 0..Len(input) : k = LineEnd + 1 /\ k + 1 = LineEnd + 2
  BY LineEndIs DEF InputInv
<1>2. input' = SubSeq(input, k + 1, Len(input))
  BY <1>1 DEF TakeLine
<1>3. QED  BY <1>1, <1>2, Rest

LEMMA HeaderTyped ==
    ASSUME NEW p \in Parsers, NEW h
    PROVE  SetByHeader(p, h) \in Parsers /\ SetByHeader(p, h).state = p.state
           /\ SetByHeader(p, h).headerBytes = p.headerBytes /\ SetByHeader(p, h).line = p.line
<1>1. CASE h \in DOMAIN ContentLengths
  <2>1. PICK n \in Nat : n = ContentLengths[h]
    BY <1>1 DEF ContentLengths
  <2>2. SetByHeader(p, h) = [p EXCEPT !.contentLength = n]
    <3>1. h \notin {"close", "keep-alive"}
      BY <1>1 DEF ContentLengths
    <3>2. QED  BY <1>1, <2>1, <3>1 DEF SetByHeader
  <2>3. QED  BY <2>2 DEF Parsers
<1>2. CASE h \notin DOMAIN ContentLengths
  <2>1. \/ SetByHeader(p, h) = [p EXCEPT !.keepAlive = FALSE]
        \/ SetByHeader(p, h) = [p EXCEPT !.keepAlive = TRUE]
        \/ SetByHeader(p, h) = p
    BY <1>2 DEF SetByHeader
  <2>2. QED  BY <2>1 DEF Parsers
<1>3. QED  BY <1>1, <1>2

\* What a turn of the parser keeps.
LEMMA ParseTyped ==
    ASSUME InputInv, ParserInv, parse, stream' = stream, arrived' = arrived
    PROVE  InputInv' /\ ParserInv'
<1>1. HasLine => HeaderBytes \in Nat
  BY LineEndIs DEF HeaderBytes, ParserInv, Parsers
<1>2. CASE ParseRequestLine
  <2>1. InputInv'
    BY <1>2, LineTaken DEF ParseRequestLine
  <2>2. \/ parser' = [parser EXCEPT !.state = "error"]
        \/ \E n \in Nat, l \in Lines, k \in BOOLEAN :
              parser' = [parser EXCEPT !.state = "headers", !.headerBytes = n, !.line = l, !.keepAlive = k]
    BY <1>1, <1>2 DEF ParseRequestLine, Fail, Lines, KeepAliveByDefault
  <2>3. ParserInv'
    BY <1>2, <2>2 DEF ParseRequestLine, ParserInv, Parsers, States
  <2>4. QED  BY <2>1, <2>3
<1>3. CASE ParseHeaderLine
  <2>1. InputInv'
    BY <1>3, LineTaken DEF ParseHeaderLine
  <2>2. [parser EXCEPT !.headerBytes = HeaderBytes] \in Parsers
    BY <1>1, <1>3 DEF ParseHeaderLine, ParserInv, Parsers
  <2>3. SetByHeader([parser EXCEPT !.headerBytes = HeaderBytes], Meaning(Line)) \in Parsers
    BY <2>2, HeaderTyped
  <2>4. [parser EXCEPT !.state = "error"] \in Parsers
    BY DEF ParserInv, Parsers, States
  <2>5. QED  BY <1>3, <2>1, <2>3, <2>4 DEF ParseHeaderLine, Fail, ParserInv
<1>4. CASE ParseBlankLine
  <2>1. InputInv'
    BY <1>4, LineTaken DEF ParseBlankLine
  <2>2. \/ parser' = [parser EXCEPT !.state = "error"]
        \/ \E n \in Nat, st \in {"gotAll", "body"} :
              parser' = [parser EXCEPT !.state = st, !.headerBytes = n]
    BY <1>1, <1>4 DEF ParseBlankLine, Fail
  <2>3. ParserInv'
    BY <1>4, <2>2 DEF ParseBlankLine, ParserInv, Parsers, States
  <2>4. QED  BY <2>1, <2>3
<1>5. CASE ParseBody
  <2>1. parser.contentLength \in 0..Len(input)
    BY <1>5 DEF ParseBody, ParserInv, Parsers, InputInv
  <2>2. InputInv'
    BY <1>5, <2>1, Rest DEF ParseBody
  <2>3. QED  BY <1>5, <2>2 DEF ParseBody, ParserInv, Parsers, States
<1>6. CASE OverlongLine
  BY <1>6 DEF OverlongLine, Fail, ParserInv, Parsers, States, InputInv
<1>7. CASE NeedMore
  BY <1>7 DEF NeedMore, ParserInv, InputInv
<1>8. QED  BY <1>2, <1>3, <1>4, <1>5, <1>6, <1>7 DEF parse

-----------------------------------------------------------------------------
(* Queues of requests.                                                     *)

Rising(s) == \A i, j \in DOMAIN s : i < j => s[i] < s[j]

LEMMA RemovedIs ==
    ASSUME NEW S, NEW s \in Seq(S), NEW i \in 1..Len(s)
    PROVE  /\ RemoveAt(s, i) \in Seq(S) /\ Len(RemoveAt(s, i)) = Len(s) - 1
           /\ \A k \in 1..(Len(s) - 1) : RemoveAt(s, i)[k] = IF k < i THEN s[k] ELSE s[k + 1]
<1>1. PICK n \in Nat : n = Len(s) /\ i \in 1..n
  BY LenProperties
<1>2. PICK t, u : t = SubSeq(s, 1, i - 1) /\ u = SubSeq(s, i + 1, n)
  OBVIOUS
<1>3. t \in Seq(S) /\ Len(t) = i - 1 /\ \A k \in 1..(i - 1) : t[k] = s[k]
  <2>1. PICK a \in Int, b \in Int : a = 1 /\ b = i - 1
    BY <1>1
  <2>2. \A k \in a..b : s[k] \in S
    BY <1>1, <2>1, LenProperties
  <2>3. /\ SubSeq(s, a, b) \in Seq(S)
        /\ Len(SubSeq(s, a, b)) = IF a <= b THEN b - a + 1 ELSE 0
        /\ \A k \in 1..(b - a + 1) : SubSeq(s, a, b)[k] = s[a + k - 1]
    BY <2>2, SubSeqProperties
  <2>4. b - a + 1 = i - 1 /\ (IF a <= b THEN b - a + 1 ELSE 0) = i - 1
    BY <1>1, <2>1
  <2>5. \A k \in 1..(i - 1) : a + k - 1 = k
    BY <1>1, <2>1
  <2>6. QED  BY <1>2, <2>1, <2>3, <2>4, <2>5
<1>4. u \in Seq(S) /\ Len(u) = n - i /\ \A k \in 1..(n - i) : u[k] = s[i + k]
  <2>1. PICK a \in Int, b \in Int : a = i + 1 /\ b = n
    BY <1>1
  <2>2. \A k \in a..b : s[k] \in S
    BY <1>1, <2>1, LenProperties
  <2>3. /\ SubSeq(s, a, b) \in Seq(S)
        /\ Len(SubSeq(s, a, b)) = IF a <= b THEN b - a + 1 ELSE 0
        /\ \A k \in 1..(b - a + 1) : SubSeq(s, a, b)[k] = s[a + k - 1]
    BY <2>2, SubSeqProperties
  <2>4. b - a + 1 = n - i /\ (IF a <= b THEN b - a + 1 ELSE 0) = n - i
    BY <1>1, <2>1
  <2>5. \A k \in 1..(n - i) : a + k - 1 = i + k
    BY <1>1, <2>1
  <2>6. QED  BY <1>2, <2>1, <2>3, <2>4, <2>5
<1>5. RemoveAt(s, i) = t \o u
  BY <1>1, <1>2 DEF RemoveAt
<1>6. t \o u \in Seq(S) /\ Len(t \o u) = n - 1
  BY <1>1, <1>3, <1>4, ConcatProperties
<1>7. ASSUME NEW k \in 1..(n - 1) PROVE (t \o u)[k] = IF k < i THEN s[k] ELSE s[k + 1]
  <2>1. (t \o u)[k] = IF k <= i - 1 THEN t[k] ELSE u[k - (i - 1)]
    BY <1>1, <1>3, <1>4, ConcatProperties
  <2>2. CASE k < i
    BY <1>1, <1>3, <2>1, <2>2
  <2>3. CASE ~(k < i)
    <3>1. k - (i - 1) \in 1..(n - i) /\ i + (k - (i - 1)) = k + 1 /\ ~(k <= i - 1)
      BY <1>1, <2>3
    <3>2. u[k - (i - 1)] = s[k + 1]
      BY <1>4, <3>1
    <3>3. QED  BY <2>1, <2>3, <3>1, <3>2
  <2>4. QED  BY <2>2, <2>3
<1>8. QED  BY <1>1, <1>5, <1>6, <1>7

\* A request is taken out of a queue.
LEMMA TakenOut ==
    ASSUME NEW s \in Seq(Nat), NEW i \in 1..Len(s)
    PROVE  /\ RemoveAt(s, i) \in Seq(Nat) /\ s[i] \in ToSet(s) /\ s[i] \in Nat
           /\ ToSet(s) = ToSet(RemoveAt(s, i)) \cup {s[i]}
           /\ IsInjective(s) => IsInjective(RemoveAt(s, i)) /\ s[i] \notin ToSet(RemoveAt(s, i))
           /\ Rising(s) => Rising(RemoveAt(s, i))
           /\ Rising(s) /\ i = 1 => \A n \in ToSet(RemoveAt(s, i)) : s[i] < n
<1>1. PICK n \in Nat : n = Len(s) /\ i \in 1..n /\ DOMAIN s = 1..n /\ \A k \in 1..n : s[k] \in Nat
  BY LenProperties
<1>2. PICK t : t = RemoveAt(s, i)
  OBVIOUS
<1>3. t \in Seq(Nat) /\ Len(t) = n - 1 /\ \A k \in 1..(n - 1) : t[k] = IF k < i THEN s[k] ELSE s[k + 1]
  BY <1>1, <1>2, RemovedIs
<1>4. DOMAIN t = 1..(n - 1)
  BY <1>1, <1>3, LenProperties
<1>5. s[i] \in ToSet(s) /\ s[i] \in Nat
  BY <1>1 DEF ToSet
<1> DEFINE From1(k) == IF k < i THEN k ELSE k + 1
<1>f. /\ \A k \in 1..(n - 1) : From1(k) \in 1..n /\ From1(k) # i /\ t[k] = s[From1(k)]
      /\ \A a, b \in 1..(n - 1) : From1(a) = From1(b) => a = b
      /\ \A a, b \in 1..(n - 1) : a < b => From1(a) < From1(b)
      /\ \A a \in 1..(n - 1) : i = 1 => i < From1(a)
  <2>1. \A k \in 1..(n - 1) : From1(k) \in 1..n /\ From1(k) # i
    BY <1>1
  <2>2. \A k \in 1..(n - 1) : t[k] = s[From1(k)]
    BY <1>3
  <2>3. \A a, b \in 1..(n - 1) : (From1(a) = From1(b) => a = b) /\ (a < b => From1(a) < From1(b))
    BY <1>1
  <2>4. \A a \in 1..(n - 1) : i = 1 => i < From1(a)
    BY <1>1
  <2> HIDE DEF From1
  <2>5. QED  BY <2>1, <2>2, <2>3, <2>4
<1> HIDE DEF From1
<1>6. ToSet(s) = ToSet(t) \cup {s[i]}
  <2>1. \A k \in 1..(n - 1) : t[k] \in ToSet(s)
    BY <1>1, <1>f DEF ToSet
  <2>2. ASSUME NEW k \in 1..n, k # i PROVE s[k] \in ToSet(t)
    <3>1. CASE k < i
      <4>1. k \in 1..(n - 1) /\ t[k] = s[k]
        BY <1>1, <1>3, <3>1
      <4>2. QED  BY <1>4, <4>1 DEF ToSet
    <3>2. CASE k > i
      <4>1. k - 1 \in 1..(n - 1) /\ ~(k - 1 < i) /\ (k - 1) + 1 = k
        BY <1>1, <3>2
      <4>2. t[k - 1] = s[k]
        BY <1>3, <4>1
      <4>3. QED  BY <1>4, <4>1, <4>2 DEF ToSet
    <3>3. QED  BY <1>1, <2>2, <3>1, <3>2
  <2>3. \A x \in ToSet(s) : x = s[i] \/ x \in ToSet(t)
    BY <1>1, <2>2 DEF ToSet
  <2>4. \A x \in ToSet(t) : x \in ToSet(s)
    BY <1>4, <2>1 DEF ToSet
  <2>5. QED  BY <1>5, <2>3, <2>4
<1>7. ASSUME IsInjective(s) PROVE IsInjective(t) /\ s[i] \notin ToSet(t)
  <2>1. \A a, b \in 1..n : s[a] = s[b] => a = b
    BY <1>1, <1>7 DEF IsInjective
  <2>2. \A a, b \in 1..(n - 1) : t[a] = t[b] => a = b
    BY <1>1, <1>f, <2>1
  <2>3. \A a \in 1..(n - 1) : t[a] # s[i]
    BY <1>1, <1>f, <2>1
  <2>4. QED  BY <1>4, <2>2, <2>3 DEF IsInjective, ToSet
<1>8. ASSUME Rising(s) PROVE Rising(t) /\ (i = 1 => \A m \in ToSet(t) : s[i] < m)
  <2>1. \A a, b \in 1..n : a < b => s[a] < s[b]
    BY <1>1, <1>8 DEF Rising
  <2>2. \A a, b \in 1..(n - 1) : a < b => t[a] < t[b]
    BY <1>1, <1>f, <2>1
  <2>3. i = 1 => \A a \in 1..(n - 1) : s[i] < t[a]
    BY <1>1, <1>f, <2>1
  <2>4. QED  BY <1>4, <2>2, <2>3 DEF Rising, ToSet
<1>9. QED  BY <1>2, <1>3, <1>5, <1>6, <1>7, <1>8

\* A request is queued.
LEMMA Queued ==
    ASSUME NEW s \in Seq(Nat), NEW n \in Nat
    PROVE  /\ Append(s, n) \in Seq(Nat) /\ ToSet(Append(s, n)) = ToSet(s) \cup {n}
           /\ IsInjective(s) /\ n \notin ToSet(s) => IsInjective(Append(s, n))
           /\ Rising(s) /\ (\A m \in ToSet(s) : m < n) => Rising(Append(s, n))
<1>1. PICK l \in Nat : l = Len(s) /\ DOMAIN s = 1..l /\ \A k \in 1..l : s[k] \in Nat
  BY LenProperties
<1>2. PICK t : t = Append(s, n)
  OBVIOUS
<1>3. /\ t \in Seq(Nat) /\ Len(t) = l + 1 /\ t[l + 1] = n /\ \A k \in 1..l : t[k] = s[k]
  BY <1>1, <1>2, AppendProperties
<1>4. DOMAIN t = 1..(l + 1)
  BY <1>3, LenProperties
<1>5. ToSet(t) = ToSet(s) \cup {n}
  <2>1. \A k \in 1..(l + 1) : k \in 1..l \/ k = l + 1
    BY <1>1
  <2>2. l + 1 \in 1..(l + 1) /\ \A k \in 1..l : k \in 1..(l + 1)
    BY <1>1
  <2>3. QED  BY <1>1, <1>3, <1>4, <2>1, <2>2 DEF ToSet
<1>6. ASSUME IsInjective(s), n \notin ToSet(s) PROVE IsInjective(t)
  <2>1. \A a, b \in 1..l : s[a] = s[b] => a = b
    BY <1>1, <1>6 DEF IsInjective
  <2>2. \A a \in 1..l : s[a] # n
    BY <1>1, <1>6 DEF ToSet
  <2>3. \A a, b \in 1..(l + 1) : t[a] = t[b] => a = b
    <3>1. TAKE a \in 1..(l + 1), b \in 1..(l + 1)
    <3>2. (a \in 1..l \/ a = l + 1) /\ (b \in 1..l \/ b = l + 1)
      BY <1>1
    <3>3. QED  BY <1>3, <2>1, <2>2, <3>2
  <2>4. QED  BY <1>4, <2>3 DEF IsInjective
<1>7. ASSUME Rising(s), \A m \in ToSet(s) : m < n PROVE Rising(t)
  <2>1. \A a, b \in 1..l : a < b => s[a] < s[b]
    BY <1>1, <1>7 DEF Rising
  <2>2. \A a \in 1..l : s[a] < n
    BY <1>1, <1>7 DEF ToSet
  <2>3. \A a, b \in 1..(l + 1) : a < b => t[a] < t[b]
    <3>1. TAKE a \in 1..(l + 1), b \in 1..(l + 1)
    <3>2. a < b => a \in 1..l /\ (b \in 1..l \/ b = l + 1)
      BY <1>1
    <3>3. QED  BY <1>3, <2>1, <2>2, <3>2
  <2>4. QED  BY <1>4, <2>3 DEF Rising
<1>8. QED  BY <1>2, <1>3, <1>5, <1>6, <1>7

\* The head of a queue leaves it.
LEMMA HeadOut ==
    ASSUME NEW s \in Seq(Nat), s # <<>>
    PROVE  1 \in 1..Len(s) /\ Tail(s) = RemoveAt(s, 1)
<1>1. PICK n \in Nat : n = Len(s) /\ n # 0
  BY LenProperties, EmptySeq
<1>2. PICK o \in 1..n : o = 1
  BY <1>1
<1>3. /\ RemoveAt(s, o) \in Seq(Nat) /\ Len(RemoveAt(s, o)) = n - 1
      /\ \A k \in 1..(n - 1) : RemoveAt(s, o)[k] = IF k < o THEN s[k] ELSE s[k + 1]
  BY <1>1, RemovedIs
<1>4. /\ Tail(s) \in Seq(Nat) /\ Len(Tail(s)) = n - 1
      /\ \A k \in 1..(n - 1) : Tail(s)[k] = s[k + 1]
  BY <1>1, HeadTailProperties
<1>5. \A k \in 1..(n - 1) : RemoveAt(s, o)[k] = Tail(s)[k]
  BY <1>2, <1>3, <1>4
<1>6. Tail(s) = RemoveAt(s, o)
  <2>1. PICK t, u : t = Tail(s) /\ u = RemoveAt(s, o)
    OBVIOUS
  <2>2. t \in Seq(Nat) /\ u \in Seq(Nat) /\ Len(t) = n - 1 /\ Len(u) = n - 1 /\ \A k \in 1..(n - 1) : t[k] = u[k]
    BY <1>3, <1>4, <1>5, <2>1
  <2>3. t = u
    BY <2>2, SeqEqual
  <2>4. QED  BY <2>1, <2>3
<1>7. QED  BY <1>1, <1>2, <1>6

LEMMA Grown ==
    ASSUME NEW S, NEW s \in Seq(S), NEW e \in S
    PROVE  /\ Append(s, e) \in Seq(S) /\ Len(Append(s, e)) = Len(s) + 1
           /\ Len(s) + 1 \in Nat /\ Len(s) + 1 >= 1
           /\ DOMAIN Append(s, e) = DOMAIN s \cup {Len(s) + 1} /\ DOMAIN s = 1..Len(s)
           /\ Append(s, e)[Len(s) + 1] = e
           /\ \A i \in DOMAIN s : Append(s, e)[i] = s[i] /\ i < Len(s) + 1 /\ i \in Nat /\ i >= 1
<1>1. PICK n \in Nat : n = Len(s) /\ DOMAIN s = 1..n
  BY LenProperties
<1>2. PICK t : t = Append(s, e)
  OBVIOUS
<1>3. /\ t \in Seq(S) /\ Len(t) = n + 1 /\ t[n + 1] = e /\ \A i \in 1..n : t[i] = s[i]
  BY <1>1, <1>2, AppendProperties
<1>4. DOMAIN t = 1..(n + 1)
  BY <1>3, LenProperties
<1>5. 1..(n + 1) = 1..n \cup {n + 1}
  BY <1>1
<1>6. QED  BY <1>1, <1>2, <1>3, <1>4, <1>5

-----------------------------------------------------------------------------
(* Where a request is.                                                     *)

\* Whoever is in the pool was offloaded; a malformed message is the last, and not taken.
PlaceInv ==
    /\ \A n \in InPool : n \in DOMAIN taken /\ Offloaded(taken[n].line)
    /\ \A i \in DOMAIN answers :
          IF answers[i].kind = "bad"
          THEN answers[i].request = Len(taken) + 1 /\ parser.state = "error"
          ELSE answers[i].request \in DOMAIN taken
    /\ lost \subseteq 1..(Len(taken) + 1)
    /\ Len(taken) + 1 \in lost => parser.state = "error"

\* One worker answers in order.
OneWorkerInOrder ==
    workers = 1 =>
       /\ Rising(posted) /\ Rising(jobs)
       /\ \A m \in ToSet(posted), n \in ToSet(jobs) : m < n
       /\ \A i \in DOMAIN answers :
             answers[i].kind = "ok" /\ Offloaded(taken[answers[i].request].line) =>
                \A n \in InPool : answers[i].request < n

SessionInv == PlaceInv /\ OneAnswerEach /\ OvertakenIsOffloaded /\ OneWorkerInOrder

\* No step but these moves a request or answers one.
Quiet ==
    /\ UNCHANGED <<jobs, posted, answers, lost, taken, workers>>
    /\ closed => closed'
    /\ parser.state = "error" => parser'.state = "error"

LEMMA QuietStep == SessionInv /\ Quiet => SessionInv'
<1> SUFFICES ASSUME SessionInv, Quiet PROVE SessionInv'
  OBVIOUS
<1> USE DEF Quiet, InPool, Own, Answered, Offloaded
<1>1. PlaceInv'
  BY DEF SessionInv, PlaceInv
<1>2. OneAnswerEach'
  BY DEF SessionInv, OneAnswerEach
<1>3. OvertakenIsOffloaded'
  BY DEF SessionInv, OvertakenIsOffloaded
<1>4. OneWorkerInOrder'
  BY DEF SessionInv, OneWorkerInOrder
<1>5. QED  BY <1>1, <1>2, <1>3, <1>4 DEF SessionInv

\* The answers when one more is taken on.
TakesOn(n, kind) == answers' = Append(answers, [request |-> n, kind |-> kind])
TakenOn(n, kind) ==
    /\ answers' \in Seq(Replies)
    /\ Answered' = IF kind = "bad" THEN Answered ELSE Answered \cup {n}
    /\ \E k \in Nat : /\ DOMAIN answers' = DOMAIN answers \cup {k} /\ k \notin DOMAIN answers
                      /\ answers'[k].request = n /\ answers'[k].kind = kind
                      /\ \A i \in DOMAIN answers : answers'[i] = answers[i] /\ i < k /\ i \in Nat
                      /\ Own' = IF kind = "bad" THEN Own ELSE Own \cup {k}

LEMMA AnswerTaken ==
    ASSUME AnswersInv, NEW n \in Nat, NEW kind \in {"ok", "bad", "limited"},
           TakesOn(n, kind)
    PROVE  TakenOn(n, kind)
<1> USE DEF TakesOn
<1>1. PICK e \in Replies : e = [request |-> n, kind |-> kind] /\ e.request = n /\ e.kind = kind
  BY DEF Replies
<1>a. PICK k : k = Len(answers) + 1
  OBVIOUS
<1>2. /\ answers' \in Seq(Replies) /\ k \in Nat /\ DOMAIN answers' = DOMAIN answers \cup {k}
      /\ answers'[k] = e
      /\ \A i \in DOMAIN answers : answers'[i] = answers[i] /\ i < k /\ i \in Nat
  BY <1>1, <1>a, Grown DEF AnswersInv
<1>3. k \notin DOMAIN answers
  BY <1>2
<1>4. Own' = IF kind = "bad" THEN Own ELSE Own \cup {k}
  BY <1>1, <1>2, <1>3 DEF Own
<1>5. Answered' = IF kind = "bad" THEN Answered ELSE Answered \cup {n}
  <2>1. \A i \in Own : i \in DOMAIN answers
    BY DEF Own
  <2>2. QED  BY <1>1, <1>2, <1>4, <2>1 DEF Answered
<1>6. QED  BY <1>1, <1>2, <1>3, <1>4, <1>5 DEF TakenOn

LEMMA AnswerTyped ==
    ASSUME AnswersInv, NEW n \in Nat, NEW kind \in {"ok", "bad", "limited"}, NEW last, Answer(n, kind, last)
    PROVE  /\ write' \in {"open", "closing", "shut"} /\ closed' \in BOOLEAN
           /\ answers' \in Seq(Replies) /\ lost' \subseteq Nat
<1>1. CASE answers' = answers
  BY <1>1 DEF Answer, AnswersInv
<1>2. CASE answers' = Append(answers, [request |-> n, kind |-> kind])
  <2>0. TakesOn(n, kind)
    BY <1>2 DEF TakesOn
  <2>1. answers' \in Seq(Replies)
    BY <2>0, AnswerTaken DEF TakenOn
  <2>2. QED  BY <1>2, <2>1 DEF Answer, AnswersInv
<1>3. QED  BY <1>1, <1>2 DEF Answer

LEMMA RequestTaken ==
    ASSUME TypeInv, Take
    PROVE  /\ taken' \in Seq(Received) /\ Len(taken) + 1 \in Nat /\ Len(taken) + 1 >= 1
           /\ DOMAIN taken' = DOMAIN taken \cup {Len(taken) + 1} /\ Len(taken') = Len(taken) + 1
           /\ DOMAIN taken = 1..Len(taken)
           /\ taken'[Len(taken) + 1].line = parser.line
           /\ \A i \in DOMAIN taken : taken'[i] = taken[i] /\ i < Len(taken) + 1 /\ i \in Nat /\ i >= 1
           /\ parser.state = "gotAll" /\ workers' = workers
<1>1. arrived - Len(input) \in Nat
  <2>1. Len(stream) \in Nat
    BY LenProperties DEF TypeInv, InputInv
  <2>2. QED  BY <2>1 DEF TypeInv, InputInv
<1>2. PICK e \in Received : /\ e = [line |-> parser.line, keepAlive |-> parser.keepAlive,
                                    end |-> arrived - Len(input)]
                            /\ e.line = parser.line
  <2>1. parser.line \in Lines /\ parser.keepAlive \in BOOLEAN
    BY DEF TypeInv, ParserInv, Parsers
  <2>2. PICK l \in Lines, k \in BOOLEAN, m \in Nat :
           l = parser.line /\ k = parser.keepAlive /\ m = arrived - Len(input)
    BY <1>1, <2>1, Zenon
  <2>3. PICK e : e = [line |-> l, keepAlive |-> k, end |-> m]
    OBVIOUS
  <2>4. e \in Received /\ e.line = l
    BY <2>3 DEF Received
  <2>5. QED  BY <2>2, <2>3, <2>4
<1>3. taken' = Append(taken, e)
  BY <1>2 DEF Take
<1>4. QED
  BY <1>2, <1>3, Grown DEF TypeInv, TakenInv, Take, Parsing, peerVars

\* Requests are numbered, and the numbers of answers are those of requests and the next.
LEMMA Numbers ==
    ASSUME TypeInv, SessionInv
    PROVE  /\ Len(taken) \in Nat /\ DOMAIN taken = 1..Len(taken)
           /\ \A n \in InPool : n \in 1..Len(taken)
           /\ \A i \in DOMAIN answers : answers[i].request \in 1..(Len(taken) + 1)
           /\ parser.state # "error" => /\ \A i \in DOMAIN answers : answers[i].request \in 1..Len(taken)
                                        /\ lost \subseteq 1..Len(taken)
<1>1. Len(taken) \in Nat /\ DOMAIN taken = 1..Len(taken)
  BY LenProperties DEF TypeInv, TakenInv
<1>2. \A i \in DOMAIN answers : /\ answers[i].request \in 1..(Len(taken) + 1)
                                /\ parser.state # "error" => answers[i].request \in 1..Len(taken)
  BY <1>1 DEF SessionInv, PlaceInv
<1>3. parser.state # "error" => lost \subseteq 1..Len(taken)
  BY <1>1 DEF SessionInv, PlaceInv
<1>4. QED  BY <1>1, <1>2, <1>3 DEF SessionInv, PlaceInv

\* An answer the IO thread gives at once.
LEMMA BadStep == TypeInv /\ SessionInv /\ BadRequest => SessionInv'
<1> SUFFICES ASSUME TypeInv, SessionInv, BadRequest PROVE SessionInv'
  OBVIOUS
<1>1. PICK n \in Nat : n = Len(taken) + 1 /\ DOMAIN taken = 1..Len(taken) /\ n \notin DOMAIN taken
  BY Numbers
<1>2. /\ Answer(n, "bad", TRUE) /\ parser.state = "error"
      /\ UNCHANGED <<parser, taken, workers, jobs, posted>>
  BY <1>1 DEF BadRequest, Parsing, peerVars, poolVars
<1>3. InPool' = InPool /\ n \notin InPool /\ n \notin Answered
  <2>1. InPool' = InPool
    BY <1>2 DEF InPool
  <2>2. n \notin InPool
    BY <1>1 DEF SessionInv, PlaceInv
  <2>3. n \notin Answered
    BY <1>1 DEF SessionInv, OneAnswerEach
  <2>4. QED  BY <2>1, <2>2, <2>3
<1>4. CASE answers' = answers /\ lost' = lost \cup {n} /\ closed'
  <2>1. Own' = Own /\ Answered' = Answered
    BY <1>4 DEF Own, Answered
  <2>2. PlaceInv'
    <3>1. n \in 1..n
      BY <1>1
    <3>2. QED  BY <1>1, <1>2, <1>3, <1>4, <3>1 DEF SessionInv, PlaceInv, Offloaded
  <2>3. OneAnswerEach'
    BY <1>2, <1>3, <1>4, <2>1 DEF SessionInv, OneAnswerEach
  <2>4. OvertakenIsOffloaded'
    BY <1>2, <1>4 DEF SessionInv, OvertakenIsOffloaded, Offloaded
  <2>5. OneWorkerInOrder'
    BY <1>2, <1>3, <1>4 DEF SessionInv, OneWorkerInOrder, Offloaded
  <2>6. QED  BY <2>2, <2>3, <2>4, <2>5 DEF SessionInv
<1>5. CASE answers' = Append(answers, [request |-> n, kind |-> "bad"]) /\ closed' = closed /\ lost' = lost
  <2>0. TakenOn(n, "bad")
    <3>1. AnswersInv /\ TakesOn(n, "bad")
      BY <1>5 DEF TypeInv, TakesOn
    <3>2. QED  BY <3>1, AnswerTaken
  <2>1. Answered' = Answered
    BY <2>0 DEF TakenOn
  <2>2. PICK k \in Nat : /\ DOMAIN answers' = DOMAIN answers \cup {k} /\ k \notin DOMAIN answers
                         /\ answers'[k].request = n /\ answers'[k].kind = "bad"
                         /\ \A i \in DOMAIN answers : answers'[i] = answers[i] /\ i < k /\ i \in Nat
                         /\ Own' = Own
    BY <2>0 DEF TakenOn
  <2>3. PlaceInv'
    BY <1>1, <1>2, <1>3, <1>5, <2>2 DEF SessionInv, PlaceInv, Offloaded
  <2>4. OneAnswerEach'
    <3>1. \A i \in Own : i \in DOMAIN answers
      BY DEF Own
    <3>2. QED  BY <1>2, <1>3, <1>5, <2>1, <2>2, <3>1 DEF SessionInv, OneAnswerEach
  <2>5. OvertakenIsOffloaded'
    <3>1. \A i \in DOMAIN answers : answers[i].request \in 1..n
      BY <1>1, Numbers
    <3>2. \A i \in DOMAIN answers : ~(k < i) /\ ~(n < answers[i].request)
      BY <1>1, <2>2, <3>1
    <3>3. ~(k < k)
      BY <2>2
    <3>4. QED  BY <1>2, <2>2, <3>2, <3>3 DEF SessionInv, OvertakenIsOffloaded, Offloaded
  <2>6. OneWorkerInOrder'
    BY <1>2, <1>3, <2>2 DEF SessionInv, OneWorkerInOrder, Offloaded
  <2>7. QED  BY <2>3, <2>4, <2>5, <2>6 DEF SessionInv
<1>6. QED  BY <1>2, <1>4, <1>5 DEF Answer

LEMMA DirectStep ==
    ASSUME TypeInv, SessionInv, Take, NEW kind \in {"ok", "limited"},
           kind = "ok" => ~Offloaded(parser.line),
           Answer(Len(taken) + 1, kind, ~parser.keepAlive), UNCHANGED poolVars
    PROVE  SessionInv'
<1>0. kind \in {"ok", "bad", "limited"} /\ kind # "bad"
  OBVIOUS
<1>1. PICK n \in Nat : n = Len(taken) + 1
  BY RequestTaken
<1>2. /\ DOMAIN taken' = DOMAIN taken \cup {n} /\ Len(taken') = n /\ taken'[n].line = parser.line
      /\ \A i \in DOMAIN taken : taken'[i] = taken[i] /\ i < n /\ i \in Nat /\ i >= 1
      /\ parser.state = "gotAll" /\ workers' = workers /\ n >= 1
  BY <1>1, RequestTaken
<1>3. UNCHANGED <<jobs, posted>> /\ InPool' = InPool
  BY DEF poolVars, InPool
<1>4. n \notin DOMAIN taken /\ DOMAIN taken = 1..Len(taken) /\ Len(taken) \in Nat
  BY <1>2, Numbers
<1>5. n \notin InPool /\ n \notin Answered
  BY <1>4 DEF SessionInv, PlaceInv, OneAnswerEach
<1>6. /\ \A i \in DOMAIN answers : answers[i].kind # "bad" /\ answers[i].request \in DOMAIN taken
      /\ \A m \in lost : m \in 1..Len(taken)
  BY <1>2, Numbers DEF SessionInv, PlaceInv
<1>7. n \notin lost /\ (\A m \in lost : m \in 1..n) /\ n \in 1..n
  BY <1>1, <1>4, <1>6
<1>8. ~(n + 1 \in 1..n) /\ Len(taken') + 1 = n + 1 /\ \A m \in 1..n : m \in 1..(n + 1)
  BY <1>2
<1>9. CASE answers' = answers /\ lost' = lost \cup {n} /\ closed'
  <2>1. Own' = Own /\ Answered' = Answered
    BY <1>9 DEF Own, Answered
  <2>2. PlaceInv'
    <3>1. lost' \subseteq 1..(Len(taken') + 1) /\ Len(taken') + 1 \notin lost'
      BY <1>7, <1>8, <1>9
    <3>2. \A m \in InPool' : m \in DOMAIN taken' /\ Offloaded(taken'[m].line)
      BY <1>2, <1>3 DEF SessionInv, PlaceInv
    <3>3. \A i \in DOMAIN answers' : answers'[i].kind # "bad" /\ answers'[i].request \in DOMAIN taken'
      BY <1>2, <1>6, <1>9
    <3>4. QED  BY <1>2, <3>1, <3>2, <3>3 DEF PlaceInv, Offloaded
  <2>3. OneAnswerEach'
    BY <1>2, <1>3, <1>5, <1>9, <2>1 DEF SessionInv, OneAnswerEach
  <2>4. OvertakenIsOffloaded'
    BY <1>2, <1>6, <1>9 DEF SessionInv, OvertakenIsOffloaded, Offloaded
  <2>5. OneWorkerInOrder'
    BY <1>2, <1>3, <1>6, <1>9 DEF SessionInv, OneWorkerInOrder, Offloaded
  <2>6. QED  BY <2>2, <2>3, <2>4, <2>5 DEF SessionInv
<1>10. CASE answers' = Append(answers, [request |-> n, kind |-> kind]) /\ closed' = closed /\ lost' = lost
  <2>0. TakenOn(n, kind)
    <3>1. AnswersInv /\ TakesOn(n, kind)
      BY <1>10 DEF TypeInv, TakesOn
    <3>2. QED  BY <1>0, <3>1, AnswerTaken
  <2>1. Answered' = Answered \cup {n}
    BY <1>0, <2>0 DEF TakenOn
  <2>a. PICK k \in Nat : /\ DOMAIN answers' = DOMAIN answers \cup {k} /\ k \notin DOMAIN answers
                         /\ answers'[k].request = n /\ answers'[k].kind = kind
                         /\ \A i \in DOMAIN answers : answers'[i] = answers[i] /\ i < k /\ i \in Nat
                         /\ Own' = IF kind = "bad" THEN Own ELSE Own \cup {k}
    BY <2>0, Zenon DEF TakenOn
  <2>2. /\ DOMAIN answers' = DOMAIN answers \cup {k} /\ k \notin DOMAIN answers
        /\ answers'[k].request = n /\ answers'[k].kind = kind
        /\ \A i \in DOMAIN answers : answers'[i] = answers[i] /\ i < k /\ i \in Nat
        /\ Own' = Own \cup {k}
    BY <1>0, <2>a
  <2>3. PlaceInv'
    <3>1. lost' \subseteq 1..(Len(taken') + 1) /\ Len(taken') + 1 \notin lost'
      BY <1>7, <1>8, <1>10
    <3>2. \A m \in InPool' : m \in DOMAIN taken' /\ Offloaded(taken'[m].line)
      BY <1>2, <1>3 DEF SessionInv, PlaceInv
    <3>3. \A i \in DOMAIN answers' : answers'[i].kind # "bad" /\ answers'[i].request \in DOMAIN taken'
      BY <1>2, <1>6, <2>2
    <3>4. QED  BY <1>2, <3>1, <3>2, <3>3 DEF PlaceInv, Offloaded
  <2>4. OneAnswerEach'
    <3>1. \A i \in Own : i \in DOMAIN answers /\ answers[i].request # n
      BY <1>4, <1>6 DEF Own
    <3>2. \A i, j \in Own' : answers'[i].request = answers'[j].request => i = j
      BY <2>2, <3>1 DEF SessionInv, OneAnswerEach
    <3>3. QED  BY <1>2, <1>3, <1>5, <1>7, <1>10, <2>1, <3>2 DEF SessionInv, OneAnswerEach
  <2>5. OvertakenIsOffloaded'
    <3>1. \A i \in DOMAIN answers : answers[i].request < n /\ answers[i].request \in Nat
      BY <1>2, <1>6
    <3>2. \A i \in DOMAIN answers : ~(k < i) /\ ~(n < answers[i].request)
      BY <2>2, <3>1
    <3>3. ~(k < k)
      BY <2>2
    <3>4. QED  BY <1>2, <1>6, <2>2, <3>2, <3>3 DEF SessionInv, OvertakenIsOffloaded, Offloaded
  <2>6. OneWorkerInOrder'
    BY <1>2, <1>3, <1>6, <2>2 DEF SessionInv, OneWorkerInOrder, Offloaded
  <2>7. QED  BY <2>3, <2>4, <2>5, <2>6 DEF SessionInv
<1>11. QED  BY <1>1, <1>9, <1>10 DEF Answer

\* A request goes to the workers.
LEMMA OffloadStep == TypeInv /\ SessionInv /\ Offload => SessionInv'
<1> SUFFICES ASSUME TypeInv, SessionInv, Offload PROVE SessionInv'
  OBVIOUS
<1>1. PICK n \in Nat : n = Len(taken) + 1
  BY RequestTaken DEF Offload
<1>2. /\ DOMAIN taken' = DOMAIN taken \cup {n} /\ Len(taken') = n /\ taken'[n].line = parser.line
      /\ \A i \in DOMAIN taken : taken'[i] = taken[i] /\ i < n /\ i \in Nat /\ i >= 1
      /\ parser.state = "gotAll" /\ workers' = workers /\ n >= 1
  BY <1>1, RequestTaken DEF Offload
<1>3. /\ jobs' = Append(jobs, n) /\ UNCHANGED <<posted, write, closed, answers, lost>>
      /\ Offloaded(parser.line)
  BY <1>1 DEF Offload, connVars
<1>4. n \notin DOMAIN taken /\ DOMAIN taken = 1..Len(taken) /\ Len(taken) \in Nat
  BY <1>2, Numbers
<1>5. n \notin InPool /\ n \notin Answered
  BY <1>4 DEF SessionInv, PlaceInv, OneAnswerEach
<1>6. /\ \A i \in DOMAIN answers : answers[i].kind # "bad" /\ answers[i].request \in DOMAIN taken
      /\ \A m \in lost : m \in 1..Len(taken)
  BY <1>2, Numbers DEF SessionInv, PlaceInv
<1>7. n \notin lost /\ \A m \in lost : m \in 1..n
  BY <1>1, <1>4, <1>6
<1>8. ~(n + 1 \in 1..n) /\ Len(taken') + 1 = n + 1 /\ \A m \in 1..n : m \in 1..(n + 1)
  BY <1>2
<1>9. /\ ToSet(jobs') = ToSet(jobs) \cup {n} /\ IsInjective(jobs')
      /\ Rising(jobs) => Rising(jobs')
  <2>1. jobs \in Seq(Nat) /\ IsInjective(jobs) /\ n \notin ToSet(jobs)
    BY <1>5 DEF TypeInv, AnswersInv, SessionInv, OneAnswerEach, InPool
  <2>2. \A m \in ToSet(jobs) : m < n
    BY <1>2 DEF SessionInv, PlaceInv, InPool
  <2>3. QED  BY <1>3, <2>1, <2>2, Queued
<1>10. InPool' = InPool \cup {n} /\ Own' = Own /\ Answered' = Answered
  BY <1>3, <1>9 DEF InPool, Own, Answered
<1>11. PlaceInv'
  <2>1. lost' \subseteq 1..(Len(taken') + 1) /\ Len(taken') + 1 \notin lost'
    BY <1>3, <1>7, <1>8
  <2>2. \A m \in InPool' : m \in DOMAIN taken' /\ Offloaded(taken'[m].line)
    BY <1>2, <1>3, <1>10 DEF SessionInv, PlaceInv
  <2>3. \A i \in DOMAIN answers' : answers'[i].kind # "bad" /\ answers'[i].request \in DOMAIN taken'
    BY <1>2, <1>3, <1>6
  <2>4. QED  BY <1>2, <2>1, <2>2, <2>3 DEF PlaceInv, Offloaded
<1>12. OneAnswerEach'
  <2>1. ToSet(jobs') \cap ToSet(posted') = {}
    BY <1>3, <1>5, <1>9 DEF SessionInv, OneAnswerEach, InPool
  <2>2. IsInjective(posted')
    BY <1>3 DEF SessionInv, OneAnswerEach
  <2>3. QED  BY <1>2, <1>3, <1>5, <1>7, <1>9, <1>10, <2>1, <2>2 DEF SessionInv, OneAnswerEach
<1>13. OvertakenIsOffloaded'
  BY <1>2, <1>3, <1>6 DEF SessionInv, OvertakenIsOffloaded, Offloaded
<1>14. OneWorkerInOrder'
  <2>1. \A m \in InPool : m < n
    BY <1>2 DEF SessionInv, PlaceInv
  <2>2. \A m \in ToSet(posted) : m \in InPool
    BY DEF InPool
  <2>3. \A i \in DOMAIN answers : answers[i].request < n
    BY <1>2, <1>6
  <2>4. QED  BY <1>2, <1>3, <1>6, <1>9, <1>10, <2>1, <2>2, <2>3 DEF SessionInv, OneWorkerInOrder, Offloaded
<1>15. QED  BY <1>11, <1>12, <1>13, <1>14 DEF SessionInv

\* A worker has computed an answer.
LEMMA HandleStep ==
    ASSUME TypeInv, SessionInv, NEW i \in 1..Len(jobs), Handle(i)
    PROVE  SessionInv'
<1>1. PICK n \in Nat : n = jobs[i] /\ n \in ToSet(jobs)
  BY TakenOut DEF TypeInv, AnswersInv
<1>2. /\ posted' = Append(posted, n) /\ jobs' = RemoveAt(jobs, i) /\ i <= workers
      /\ UNCHANGED <<parser, taken, workers, answers, lost, closed>>
  BY <1>1 DEF Handle, peerVars, connVars
<1>3. /\ ToSet(jobs) = ToSet(jobs') \cup {n}
      /\ IsInjective(jobs') /\ n \notin ToSet(jobs')
      /\ Rising(jobs) => Rising(jobs')
      /\ Rising(jobs) /\ i = 1 => \A m \in ToSet(jobs') : n < m
  BY <1>1, <1>2, TakenOut DEF TypeInv, AnswersInv, SessionInv, OneAnswerEach
<1>4. n \notin ToSet(posted)
  BY <1>1 DEF SessionInv, OneAnswerEach
<1>5. /\ ToSet(posted') = ToSet(posted) \cup {n} /\ IsInjective(posted')
      /\ Rising(posted) /\ (\A m \in ToSet(posted) : m < n) => Rising(posted')
  BY <1>2, <1>4, Queued DEF TypeInv, AnswersInv, SessionInv, OneAnswerEach
<1>6. InPool' = InPool /\ Own' = Own /\ Answered' = Answered
  BY <1>2, <1>3, <1>5 DEF InPool, Own, Answered
<1>7. PlaceInv'
  BY <1>2, <1>6 DEF SessionInv, PlaceInv, Offloaded
<1>8. OneAnswerEach'
  <2>1. ToSet(jobs') \cap ToSet(posted') = {}
    BY <1>3, <1>5 DEF SessionInv, OneAnswerEach
  <2>2. QED  BY <1>2, <1>3, <1>5, <1>6, <2>1 DEF SessionInv, OneAnswerEach
<1>9. OvertakenIsOffloaded'
  BY <1>2 DEF SessionInv, OvertakenIsOffloaded, Offloaded
<1>10. ASSUME workers = 1 PROVE OneWorkerInOrder'
  <2>1. i = 1
    BY <1>2, <1>10
  <2>2. /\ Rising(posted) /\ Rising(jobs)
        /\ \A p \in ToSet(posted), q \in ToSet(jobs) : p < q
    BY <1>10 DEF SessionInv, OneWorkerInOrder
  <2>3. Rising(posted') /\ Rising(jobs')
    BY <1>1, <1>3, <1>5, <2>2
  <2>4. \A p \in ToSet(posted'), q \in ToSet(jobs') : p < q
    BY <1>3, <1>5, <2>1, <2>2
  <2>5. QED  BY <1>2, <1>6, <2>3, <2>4 DEF SessionInv, OneWorkerInOrder, Offloaded
<1>11. ASSUME workers # 1 PROVE OneWorkerInOrder'
  BY <1>2, <1>11 DEF OneWorkerInOrder
<1>12. QED  BY <1>7, <1>8, <1>9, <1>10, <1>11 DEF SessionInv

\* The IO thread takes a posted answer.
LEMMA PostedStep == TypeInv /\ SessionInv /\ RunPosted => SessionInv'
<1> SUFFICES ASSUME TypeInv, SessionInv, RunPosted PROVE SessionInv'
  OBVIOUS
<1>0. posted \in Seq(Nat) /\ posted # <<>>
  BY DEF RunPosted, TypeInv, AnswersInv
<1>a. PICK o \in 1..Len(posted) : o = 1 /\ Tail(posted) = RemoveAt(posted, o)
  BY <1>0, HeadOut
<1>1. PICK n \in Nat : n = posted[1] /\ n \in ToSet(posted)
  BY <1>0, <1>a, TakenOut
<1>2. /\ posted' = RemoveAt(posted, o) /\ UNCHANGED <<parser, taken, workers, jobs>>
      /\ Answer(n, "ok", ~taken[n].keepAlive)
  BY <1>1, <1>a DEF RunPosted, peerVars
<1>3. /\ ToSet(posted) = ToSet(posted') \cup {n}
      /\ IsInjective(posted') /\ n \notin ToSet(posted')
      /\ Rising(posted) => Rising(posted') /\ \A m \in ToSet(posted') : n < m
  BY <1>0, <1>1, <1>2, <1>a, TakenOut DEF SessionInv, OneAnswerEach
<1>4. /\ n \notin Answered /\ n \notin lost /\ n \notin ToSet(jobs)
      /\ n \in DOMAIN taken /\ Offloaded(taken[n].line)
  BY <1>1 DEF SessionInv, OneAnswerEach, PlaceInv, InPool
<1>5. InPool = InPool' \cup {n} /\ n \notin InPool'
  BY <1>2, <1>3, <1>4 DEF InPool
<1>6. ToSet(jobs') \cap ToSet(posted') = {} /\ IsInjective(jobs')
  BY <1>2, <1>3 DEF SessionInv, OneAnswerEach
<1>7. ASSUME workers = 1
      PROVE  /\ Rising(posted') /\ Rising(jobs')
             /\ \A p \in ToSet(posted'), q \in ToSet(jobs') : p < q
             /\ \A m \in InPool' : n < m
             /\ \A i \in DOMAIN answers :
                   answers[i].kind = "ok" /\ Offloaded(taken[answers[i].request].line) =>
                      answers[i].request < n /\ \A m \in InPool' : answers[i].request < m
  <2>1. /\ Rising(posted) /\ Rising(jobs)
        /\ \A p \in ToSet(posted), q \in ToSet(jobs) : p < q
        /\ \A i \in DOMAIN answers :
              answers[i].kind = "ok" /\ Offloaded(taken[answers[i].request].line) =>
                 \A m \in InPool : answers[i].request < m
    BY <1>7 DEF SessionInv, OneWorkerInOrder
  <2>2. \A m \in InPool' : n < m
    BY <1>1, <1>2, <1>3, <2>1 DEF InPool
  <2>3. QED  BY <1>2, <1>3, <1>5, <2>1, <2>2
<1>8. n \in 1..(Len(taken) + 1) /\ n # Len(taken) + 1
  BY <1>4, Numbers
<1>9. CASE answers' = answers /\ lost' = lost \cup {n} /\ closed'
  <2>1. Own' = Own /\ Answered' = Answered
    BY <1>9 DEF Own, Answered
  <2>2. PlaceInv'
    BY <1>2, <1>5, <1>8, <1>9 DEF SessionInv, PlaceInv, Offloaded
  <2>3. OneAnswerEach'
    BY <1>2, <1>3, <1>5, <1>6, <1>9, <2>1 DEF SessionInv, OneAnswerEach
  <2>4. OvertakenIsOffloaded'
    BY <1>2, <1>9 DEF SessionInv, OvertakenIsOffloaded, Offloaded
  <2>5. OneWorkerInOrder'
    BY <1>2, <1>7, <1>9 DEF OneWorkerInOrder, Offloaded
  <2>6. QED  BY <2>2, <2>3, <2>4, <2>5 DEF SessionInv
<1>10. CASE answers' = Append(answers, [request |-> n, kind |-> "ok"]) /\ closed' = closed /\ lost' = lost
  <2>0. TakenOn(n, "ok")
    <3>1. AnswersInv /\ TakesOn(n, "ok")
      BY <1>10 DEF TypeInv, TakesOn
    <3>2. QED  BY <3>1, AnswerTaken
  <2>1. Answered' = Answered \cup {n}
    BY <2>0 DEF TakenOn
  <2>2. PICK k \in Nat : /\ DOMAIN answers' = DOMAIN answers \cup {k} /\ k \notin DOMAIN answers
                         /\ answers'[k].request = n /\ answers'[k].kind = "ok"
                         /\ \A i \in DOMAIN answers : answers'[i] = answers[i] /\ i < k /\ i \in Nat
                         /\ Own' = Own \cup {k}
    BY <2>0 DEF TakenOn
  <2>3. PlaceInv'
    BY <1>2, <1>4, <1>5, <1>10, <2>2 DEF SessionInv, PlaceInv, Offloaded
  <2>4. OneAnswerEach'
    <3>1. \A i \in Own : i \in DOMAIN answers /\ answers[i].request # n
      BY <1>4 DEF Own, Answered
    <3>2. \A i, j \in Own' : answers'[i].request = answers'[j].request => i = j
      BY <2>2, <3>1 DEF SessionInv, OneAnswerEach
    <3>3. Answered' \cap InPool' = {} /\ lost' \cap (Answered' \cup InPool') = {}
      BY <1>4, <1>5, <1>10, <2>1 DEF SessionInv, OneAnswerEach
    <3>4. /\ DOMAIN taken' \subseteq Answered' \cup InPool' \cup lost'
          /\ Answered' \cup InPool' \subseteq DOMAIN taken'
      BY <1>2, <1>4, <1>5, <1>10, <2>1 DEF SessionInv, OneAnswerEach
    <3>5. lost' # {} => closed'
      BY <1>10 DEF SessionInv, OneAnswerEach
    <3>6. QED  BY <1>3, <1>6, <3>2, <3>3, <3>4, <3>5 DEF OneAnswerEach
  <2>5. OvertakenIsOffloaded'
    <3>1. \A i \in DOMAIN answers : ~(k < i)
      BY <2>2
    <3>2. ~(k < k)
      BY <2>2
    <3>3. workers \in Nat /\ workers > 0
      BY <1>4 DEF Offloaded, TypeInv, AnswersInv
    <3>4. ASSUME NEW i \in DOMAIN answers, n < answers[i].request
          PROVE  \/ workers > 1
                 \/ answers[i].kind # "ok"
                 \/ ~Offloaded(taken[answers[i].request].line)
      <4>1. CASE workers > 1
        BY <4>1
      <4>2. CASE workers = 1
        <5>1. answers[i].request \in Nat
          BY Numbers
        <5>2. ~(answers[i].request < n)
          BY <3>4, <5>1
        <5>3. QED  BY <1>7, <4>2, <5>2
      <4>3. QED  BY <3>3, <4>1, <4>2
    <3>5. \A i, j \in DOMAIN answers :
             i < j /\ answers[j].request < answers[i].request =>
                /\ answers[j].kind = "ok" /\ Offloaded(taken[answers[j].request].line)
                /\ \/ workers > 1
                   \/ answers[i].kind # "ok"
                   \/ ~Offloaded(taken[answers[i].request].line)
      BY DEF SessionInv, OvertakenIsOffloaded
    <3>6. QED  BY <1>2, <1>4, <2>2, <3>1, <3>2, <3>4, <3>5 DEF OvertakenIsOffloaded, Offloaded
  <2>6. OneWorkerInOrder'
    <3>1. SUFFICES ASSUME workers = 1 PROVE OneWorkerInOrder'
      BY <1>2 DEF OneWorkerInOrder
    <3>2. QED  BY <1>2, <1>7, <2>2, <3>1 DEF OneWorkerInOrder, Offloaded
  <2>7. QED  BY <2>3, <2>4, <2>5, <2>6 DEF SessionInv
<1>11. QED  BY <1>2, <1>9, <1>10 DEF Answer

-----------------------------------------------------------------------------
(* The invariant.                                                          *)

LEMMA ReadTyped ==
    ASSUME InputInv, NEW n \in 1..Len(stream), Read(n)
    PROVE  InputInv'
<1>1. PICK S : stream \in Seq(S) /\ S = ToSet(stream)
  BY DEF InputInv
<1>a. PICK l \in Nat : l = Len(stream)
  BY <1>1, LenProperties
<1>b. PICK m \in Nat, a \in Nat : m = Len(input) /\ a = arrived /\ m <= a
  BY <1>a DEF InputInv
<1>c. n \in Nat /\ a + n <= l
  BY <1>a, <1>b DEF Read
<1>d. PICK i \in Nat : i = a - m
  BY <1>b
<1>2. /\ i = arrived - m /\ i + m = a /\ i + m + n <= l /\ arrived + n = a + n /\ arrived + 1 = a + 1
  BY <1>b, <1>c, <1>d
<1>3. /\ input = Piece(stream, i, m) /\ input' = input \o Piece(stream, a, n)
      /\ UNCHANGED stream /\ arrived' = a + n
  BY <1>b, <1>d, <1>2 DEF InputInv, Read, Piece
<1>4. PICK k \in Nat : k = m + n /\ i + k <= l /\ a + n = i + k
  BY <1>b, <1>c, <1>d
<1>5. input' = Piece(stream, i, k)
  <2>1. Piece(stream, i, m) \o Piece(stream, i + m, n) = Piece(stream, i, m + n)
    <3>1. PICK p : p = stream
      OBVIOUS
    <3>2. p \in Seq(S) /\ i + m + n <= Len(p)
      BY <1>1, <1>a, <1>2, <3>1
    <3>3. Piece(p, i, m) \o Piece(p, i + m, n) = Piece(p, i, m + n)
      BY <1>c, <3>2, PieceJoin
    <3>4. QED  BY <3>1, <3>3
  <2>2. Piece(stream, i + m, n) = Piece(stream, a, n) /\ Piece(stream, i, m + n) = Piece(stream, i, k)
    BY <1>2, <1>4
  <2>3. QED  BY <1>3, <2>1, <2>2
<1>6. Len(input') = k
  BY <1>1, <1>a, <1>4, <1>5, PieceIs
<1>7. arrived' - Len(input') = i /\ Len(input') \in 0..arrived' /\ arrived' \in 0..l
  BY <1>3, <1>4, <1>6
<1>8. QED  BY <1>1, <1>a, <1>3, <1>5, <1>6, <1>7 DEF InputInv

LEMMA TypeStep == TypeInv /\ SessionInv /\ [Next]_vars => TypeInv'
<1> SUFFICES ASSUME TypeInv, SessionInv, [Next]_vars PROVE TypeInv'
  OBVIOUS
<1>0. InputInv /\ ParserInv /\ AnswersInv /\ TakenInv
  BY DEF TypeInv
<1>1. ASSUME UNCHANGED <<input, stream, arrived>> PROVE InputInv'
  BY <1>0, <1>1 DEF InputInv, Piece
<1>2. ASSUME UNCHANGED <<jobs, posted, workers, write, closed, answers, lost>> PROVE AnswersInv'
  BY <1>0, <1>2 DEF AnswersInv
<1>3. ASSUME NEW n \in 1..Len(stream), Read(n) PROVE TypeInv'
  <2>1. InputInv'
    BY <1>0, <1>3, ReadTyped
  <2>2. ParserInv' /\ TakenInv'
    BY <1>0, <1>3 DEF Read, ParserInv, TakenInv
  <2>3. AnswersInv'
    BY <1>2, <1>3 DEF Read, poolVars, connVars
  <2>4. QED  BY <2>1, <2>2, <2>3 DEF TypeInv
<1>4. CASE Flushed
  <2>1. InputInv'
    BY <1>1, <1>4 DEF Flushed, peerVars
  <2>2. ParserInv' /\ TakenInv' /\ AnswersInv'
    BY <1>0, <1>4 DEF Flushed, peerVars, poolVars, ParserInv, TakenInv, AnswersInv
  <2>3. QED  BY <2>1, <2>2 DEF TypeInv
<1>5. CASE Close
  <2>1. InputInv'
    BY <1>1, <1>5 DEF Close, peerVars
  <2>2. ParserInv' /\ TakenInv' /\ AnswersInv'
    BY <1>0, <1>5 DEF Close, peerVars, poolVars, ParserInv, TakenInv, AnswersInv
  <2>3. QED  BY <2>1, <2>2 DEF TypeInv
<1>6. CASE Parse
  <2>1. parse /\ UNCHANGED <<taken, peerVars, poolVars, connVars>>
    BY <1>6 DEF Parse
  <2>2. InputInv' /\ ParserInv'
    BY <1>0, <2>1, ParseTyped DEF peerVars
  <2>3. TakenInv' /\ AnswersInv'
    BY <1>0, <1>2, <2>1 DEF TakenInv, peerVars, poolVars, connVars
  <2>4. QED  BY <2>2, <2>3 DEF TypeInv
<1>7. CASE BadRequest
  <2>1. /\ Answer(Len(taken) + 1, "bad", TRUE) /\ io' = "idle"
        /\ UNCHANGED <<input, parser, taken, stream, arrived, workers, jobs, posted>>
    BY <1>7 DEF BadRequest, peerVars, poolVars
  <2>2. Len(taken) + 1 \in Nat
    BY Numbers
  <2>3. /\ write' \in {"open", "closing", "shut"} /\ closed' \in BOOLEAN
        /\ answers' \in Seq(Replies) /\ lost' \subseteq Nat
    BY <1>0, <2>1, <2>2, AnswerTyped
  <2>4. InputInv'
    BY <1>1, <2>1
  <2>5. ParserInv' /\ TakenInv' /\ AnswersInv'
    BY <1>0, <2>1, <2>3 DEF ParserInv, TakenInv, AnswersInv
  <2>6. QED  BY <2>4, <2>5 DEF TypeInv
<1>8. ASSUME Take, AnswersInv' PROVE TypeInv'
  <2>1. TakenInv'
    BY <1>8, RequestTaken DEF TakenInv
  <2>2. InputInv'
    BY <1>1, <1>8 DEF Take, peerVars
  <2>3. Fresh \in Parsers
    BY DEF Fresh, Parsers, States, Lines
  <2>4. parser' \in Parsers /\ io' \in {"idle", "parse"}
    BY <1>8, <2>3 DEF Take, takeRequest
  <2>5. QED  BY <1>8, <2>1, <2>2, <2>4 DEF TypeInv, ParserInv
<1>9. ASSUME Take, NEW kind \in {"ok", "limited"},
             Answer(Len(taken) + 1, kind, ~parser.keepAlive), UNCHANGED poolVars
      PROVE  AnswersInv'
  <2>0. kind \in {"ok", "bad", "limited"} /\ UNCHANGED <<jobs, posted, workers>>
    BY <1>9 DEF Take, peerVars, poolVars
  <2>1. PICK n \in Nat : n = Len(taken) + 1
    BY Numbers
  <2>2. Answer(n, kind, ~parser.keepAlive)
    BY <1>9, <2>1
  <2>3. /\ write' \in {"open", "closing", "shut"} /\ closed' \in BOOLEAN
        /\ answers' \in Seq(Replies) /\ lost' \subseteq Nat
    BY <1>0, <2>0, <2>2, AnswerTyped
  <2>4. QED  BY <1>0, <2>0, <2>3 DEF AnswersInv
<1>10. CASE Limited
  <2>1. /\ Take /\ "limited" \in {"ok", "limited"}
        /\ Answer(Len(taken) + 1, "limited", ~parser.keepAlive) /\ UNCHANGED poolVars
    BY <1>10 DEF Limited
  <2>2. AnswersInv'
    BY <1>9, <2>1
  <2>3. QED  BY <1>8, <2>1, <2>2
<1>11. CASE Respond
  <2>1. /\ Take /\ "ok" \in {"ok", "limited"}
        /\ Answer(Len(taken) + 1, "ok", ~parser.keepAlive) /\ UNCHANGED poolVars
    BY <1>11 DEF Respond
  <2>2. AnswersInv'
    BY <1>9, <2>1
  <2>3. QED  BY <1>8, <2>1, <2>2
<1>12. CASE Offload
  <2>1. PICK n \in Nat : n = Len(taken) + 1
    BY Numbers
  <2>2. Take /\ jobs' = Append(jobs, n) /\ UNCHANGED <<posted, write, closed, answers, lost, workers>>
    BY <1>12, <2>1 DEF Offload, Take, connVars, peerVars
  <2>3. jobs' \in Seq(Nat)
    BY <1>0, <2>2, Queued DEF AnswersInv
  <2>4. AnswersInv'
    BY <1>0, <2>2, <2>3 DEF AnswersInv
  <2>5. QED  BY <1>8, <2>2, <2>4
<1>13. ASSUME NEW i \in 1..Len(jobs), Handle(i) PROVE TypeInv'
  <2>1. /\ posted' = Append(posted, jobs[i]) /\ jobs' = RemoveAt(jobs, i)
        /\ UNCHANGED <<input, parser, io, taken, stream, arrived, workers, write, closed, answers, lost>>
    BY <1>13 DEF Handle, peerVars, connVars
  <2>2. jobs' \in Seq(Nat) /\ jobs[i] \in Nat
    BY <1>0, <2>1, TakenOut DEF AnswersInv
  <2>3. posted' \in Seq(Nat)
    BY <1>0, <2>1, <2>2, Queued DEF AnswersInv
  <2>4. InputInv'
    BY <1>1, <2>1
  <2>5. ParserInv' /\ TakenInv' /\ AnswersInv'
    BY <1>0, <2>1, <2>2, <2>3 DEF ParserInv, TakenInv, AnswersInv
  <2>6. QED  BY <2>4, <2>5 DEF TypeInv
<1>14. CASE RunPosted
  <2>0. posted \in Seq(Nat) /\ posted # <<>>
    BY <1>0, <1>14 DEF RunPosted, AnswersInv
  <2>1. PICK o \in 1..Len(posted) : o = 1 /\ Tail(posted) = RemoveAt(posted, o)
    BY <2>0, HeadOut
  <2>2. PICK n \in Nat : n = posted[1]
    BY <2>0, <2>1, TakenOut
  <2>3. /\ Answer(n, "ok", ~taken[n].keepAlive) /\ posted' = RemoveAt(posted, o)
        /\ UNCHANGED <<input, parser, io, taken, stream, arrived, workers, jobs>>
    BY <1>14, <2>1, <2>2 DEF RunPosted, peerVars
  <2>4. posted' \in Seq(Nat)
    BY <2>0, <2>3, TakenOut
  <2>5. /\ write' \in {"open", "closing", "shut"} /\ closed' \in BOOLEAN
        /\ answers' \in Seq(Replies) /\ lost' \subseteq Nat
    BY <1>0, <2>3, AnswerTyped
  <2>6. InputInv'
    BY <1>1, <2>3
  <2>7. ParserInv' /\ TakenInv' /\ AnswersInv'
    BY <1>0, <2>3, <2>4, <2>5 DEF ParserInv, TakenInv, AnswersInv
  <2>8. QED  BY <2>6, <2>7 DEF TypeInv
<1>15. CASE UNCHANGED vars
  <2>1. InputInv'
    BY <1>1, <1>15 DEF vars, peerVars
  <2>2. ParserInv' /\ TakenInv' /\ AnswersInv'
    BY <1>0, <1>15 DEF vars, peerVars, poolVars, connVars, ParserInv, TakenInv, AnswersInv
  <2>3. QED  BY <2>1, <2>2 DEF TypeInv
<1>16. QED
  BY <1>3, <1>4, <1>5, <1>6, <1>7, <1>10, <1>11, <1>12, <1>13, <1>14, <1>15 DEF Next, Callback

\* A turn of the parser never leaves the state of error.
LEMMA ErrorStays == parse /\ parser.state = "error" => parser' = parser
BY DEF parse, ParseRequestLine, ParseHeaderLine, ParseBlankLine, ParseBody, OverlongLine, NeedMore, Parsing

LEMMA SessionStart == Init => SessionInv
<1> SUFFICES ASSUME Init PROVE SessionInv
  OBVIOUS
<1>1. /\ jobs = <<>> /\ posted = <<>> /\ answers = <<>> /\ taken = <<>> /\ lost = {}
      /\ DOMAIN jobs = {} /\ DOMAIN posted = {} /\ DOMAIN answers = {} /\ DOMAIN taken = {}
  BY EmptySeq, LenProperties DEF Init
<1>2. Own = {} /\ Answered = {} /\ InPool = {} /\ ToSet(jobs) = {} /\ ToSet(posted) = {}
  BY <1>1 DEF Own, Answered, InPool, ToSet
<1>3. PlaceInv
  BY <1>1, <1>2 DEF PlaceInv
<1>4. OneAnswerEach
  BY <1>1, <1>2 DEF OneAnswerEach, IsInjective
<1>5. OvertakenIsOffloaded
  BY <1>1 DEF OvertakenIsOffloaded
<1>6. OneWorkerInOrder
  BY <1>1, <1>2 DEF OneWorkerInOrder, Rising
<1>7. QED  BY <1>3, <1>4, <1>5, <1>6 DEF SessionInv

LEMMA SessionStep == TypeInv /\ SessionInv /\ [Next]_vars => SessionInv'
<1> SUFFICES ASSUME TypeInv, SessionInv, [Next]_vars PROVE SessionInv'
  OBVIOUS
<1>1. ASSUME NEW n \in 1..Len(stream), Read(n) PROVE Quiet
  BY <1>1 DEF Read, Quiet, poolVars, connVars
<1>2. CASE Flushed
  BY <1>2, QuietStep DEF Flushed, Quiet, peerVars, poolVars
<1>3. CASE Close
  BY <1>3, QuietStep DEF Close, Quiet, peerVars, poolVars
<1>4. CASE Parse
  BY <1>4, QuietStep, ErrorStays DEF Parse, Quiet, peerVars, poolVars, connVars
<1>5. CASE BadRequest
  BY <1>5, BadStep
<1>6. CASE Limited
  BY <1>6, DirectStep DEF Limited
<1>7. CASE Respond
  BY <1>7, DirectStep DEF Respond
<1>8. CASE Offload
  BY <1>8, OffloadStep
<1>9. ASSUME NEW i \in 1..Len(jobs), Handle(i) PROVE SessionInv'
  BY <1>9, HandleStep
<1>10. CASE RunPosted
  BY <1>10, PostedStep
<1>11. CASE UNCHANGED vars
  BY <1>11, QuietStep DEF vars, Quiet, peerVars, poolVars, connVars
<1>12. QED
  BY <1>1, <1>2, <1>3, <1>4, <1>5, <1>6, <1>7, <1>8, <1>9, <1>10, <1>11, QuietStep DEF Next, Callback

-----------------------------------------------------------------------------
(* What the bytes of a message mean, as more of them come.                 *)

LEMMA MaxIs ==
    ASSUME NEW n \in Nat, NEW S \in SUBSET (0..n), S # {}
    PROVE  Max(S) \in S /\ Max(S) \in Nat /\ \A k \in S : k <= Max(S)
<1> DEFINE T == {n - k : k \in S}
<1>1. T \in SUBSET Nat /\ T # {}
  <2>1. \A k \in S : n - k \in Nat
    OBVIOUS
  <2>2. PICK k : k \in S
    OBVIOUS
  <2>3. n - k \in T
    BY <2>2
  <2>4. QED  BY <2>1, <2>3
<1> HIDE DEF T
<1>2. PICK m \in T : \A k \in T : m <= k
  BY <1>1, Common!LeastNatural
<1>3. PICK x \in S : m = n - x
  BY <1>2 DEF T
<1>4. \A k \in S : x >= k
  <2>1. TAKE k \in S
  <2>2. n - x <= n - k
    BY <1>2, <1>3 DEF T
  <2>3. QED  BY <2>2
<1>5. Max(S) \in S /\ \A k \in S : Max(S) >= k
  <2>1. \E y \in S : \A k \in S : y >= k
    BY <1>4
  <2>2. QED  BY <2>1 DEF Max
<1>6. PICK y : y = Max(S)
  OBVIOUS
<1>7. y \in S /\ \A k \in S : y >= k
  BY <1>5, <1>6
<1>8. y \in Nat /\ \A k \in S : k <= y
  BY <1>7
<1>9. QED  BY <1>6, <1>7, <1>8

LEMMA MaxAt ==
    ASSUME NEW S \in SUBSET Nat, NEW m \in S, \A k \in S : k <= m
    PROVE  Max(S) = m
<1>1. \A k \in S : m >= k
  OBVIOUS
<1>2. Max(S) \in S /\ \A k \in S : Max(S) >= k
  BY <1>1 DEF Max
<1>3. PICK y : y = Max(S)
  OBVIOUS
<1>4. y \in S /\ y >= m /\ m >= y
  BY <1>1, <1>2, <1>3
<1>5. QED  BY <1>3, <1>4

\* b begins with the bytes of p.
Extends(b, p) ==
    /\ \E S : b \in Seq(S) /\ p \in Seq(S)
    /\ Len(p) <= Len(b)
    /\ \A k \in 1..Len(p) : b[k] = p[k]

LEMMA BreaksAre ==
    ASSUME NEW S, NEW b \in Seq(S)
    PROVE  /\ Len(b) \in Nat /\ Breaks(b) \in SUBSET Nat /\ HeadEnds(b) \in SUBSET Breaks(b)
           /\ HeadBreaks(b) \in SUBSET Breaks(b) /\ Headers(b) \in SUBSET HeadBreaks(b)
           /\ \A i \in Breaks(b) : 1 <= i /\ i < Len(b)
           /\ HasHead(b) => Min(HeadEnds(b)) \in HeadEnds(b) /\ \A i \in HeadEnds(b) : Min(HeadEnds(b)) <= i
<1>1. Len(b) \in Nat
  BY LenProperties
<1>2. Breaks(b) \in SUBSET Nat /\ \A i \in Breaks(b) : 1 <= i /\ i < Len(b)
  BY <1>1 DEF Breaks
<1>3. HeadEnds(b) \in SUBSET Breaks(b) /\ HeadBreaks(b) \in SUBSET Breaks(b) /\ Headers(b) \in SUBSET HeadBreaks(b)
  BY DEF HeadEnds, HeadBreaks, Headers
<1>4. HasHead(b) => Min(HeadEnds(b)) \in HeadEnds(b) /\ \A i \in HeadEnds(b) : Min(HeadEnds(b)) <= i
  BY <1>2, <1>3, MinIs DEF HasHead
<1>5. QED  BY <1>1, <1>2, <1>3, <1>4

\* The breaks and the end of the head that p has are those of b.
LEMMA BreaksStay ==
    ASSUME NEW b, NEW p, Extends(b, p)
    PROVE  /\ Len(p) \in Nat /\ Len(b) \in Nat
           /\ Breaks(p) = {i \in Breaks(b) : i < Len(p)}
           /\ HeadEnds(p) = {i \in HeadEnds(b) : i < Len(p)}
           /\ HasHead(p) => HasHead(b) /\ Min(HeadEnds(b)) = Min(HeadEnds(p)) /\ HeadBreaks(b) = HeadBreaks(p)
           /\ HeadBreaks(p) \in SUBSET HeadBreaks(b)
<1>1. PICK S : b \in Seq(S) /\ p \in Seq(S)
  BY DEF Extends
<1>2. /\ Len(p) \in Nat /\ Len(b) \in Nat /\ Len(p) <= Len(b)
      /\ \A k \in 1..Len(p) : b[k] = p[k]
  BY <1>1, LenProperties DEF Extends
<1>3. Breaks(p) = {i \in Breaks(b) : i < Len(p)}
  <2>1. ASSUME NEW i \in Breaks(p) PROVE i \in Breaks(b) /\ i < Len(p)
    <3>1. i \in 1..(Len(p) - 1) /\ i \in 1..Len(p) /\ i + 1 \in 1..Len(p) /\ i \in 1..(Len(b) - 1)
      BY <1>2 DEF Breaks
    <3>2. b[i] = p[i] /\ b[i + 1] = p[i + 1]
      BY <1>2, <3>1
    <3>3. QED  BY <1>2, <3>1, <3>2 DEF Breaks
  <2>2. ASSUME NEW i \in Breaks(b), i < Len(p) PROVE i \in Breaks(p)
    <3>1. i \in 1..(Len(p) - 1) /\ i \in 1..Len(p) /\ i + 1 \in 1..Len(p)
      BY <1>2, <2>2 DEF Breaks
    <3>2. b[i] = p[i] /\ b[i + 1] = p[i + 1]
      BY <1>2, <3>1
    <3>3. QED  BY <1>2, <3>1, <3>2 DEF Breaks
  <2>3. QED  BY <2>1, <2>2
<1>4. Breaks(b) \in SUBSET Nat
  BY <1>1, BreaksAre
<1>5. HeadEnds(p) = {i \in HeadEnds(b) : i < Len(p)}
  <2>1. \A i \in Breaks(b) : i < Len(p) => i - 2 < Len(p)
    BY <1>2, <1>4
  <2>2. QED  BY <1>3, <2>1 DEF HeadEnds
<1>6. ASSUME HasHead(p)
      PROVE  HasHead(b) /\ Min(HeadEnds(b)) = Min(HeadEnds(p)) /\ HeadBreaks(b) = HeadBreaks(p)
  <2>1. PICK m : m = Min(HeadEnds(p)) /\ m \in HeadEnds(p) /\ \A i \in HeadEnds(p) : m <= i
    BY <1>1, <1>6, BreaksAre
  <2>2. m \in HeadEnds(b) /\ m < Len(p) /\ m \in Nat /\ HeadEnds(b) \in SUBSET Nat
    BY <1>1, <1>4, <1>5, <2>1, BreaksAre
  <2>3. HasHead(b)
    BY <2>2 DEF HasHead
  <2>4. PICK l : l = Min(HeadEnds(b)) /\ l \in HeadEnds(b) /\ \A i \in HeadEnds(b) : l <= i
    BY <1>1, <2>3, BreaksAre
  <2>5. l \in Nat /\ l <= m /\ l \in HeadEnds(p)
    BY <1>2, <1>5, <2>2, <2>4
  <2>6. l = m
    BY <2>1, <2>2, <2>5
  <2>7. \A i \in Breaks(b) : i < m => i < Len(p)
    BY <1>2, <1>4, <2>2
  <2>8. HeadBreaks(b) = HeadBreaks(p)
    BY <1>3, <1>6, <2>1, <2>3, <2>4, <2>6, <2>7 DEF HeadBreaks
  <2>9. QED  BY <2>1, <2>3, <2>4, <2>6, <2>8
<1>7. ASSUME ~HasHead(p) PROVE HeadBreaks(p) \in SUBSET HeadBreaks(b)
  <2>1. HeadBreaks(p) = Breaks(p)
    BY <1>7 DEF HeadBreaks
  <2>2. CASE ~HasHead(b)
    BY <1>3, <2>1, <2>2 DEF HeadBreaks
  <2>3. CASE HasHead(b)
    <3>1. PICK l : l = Min(HeadEnds(b)) /\ l \in HeadEnds(b)
      BY <1>1, <2>3, BreaksAre
    <3>2. l \in Nat /\ ~(l < Len(p))
      BY <1>1, <1>4, <1>5, <1>7, <3>1, BreaksAre DEF HasHead
    <3>3. \A i \in Breaks(p) : i \in Breaks(b) /\ i < l
      BY <1>2, <1>3, <1>4, <3>2
    <3>4. QED  BY <2>1, <2>3, <3>1, <3>3 DEF HeadBreaks
  <2>4. QED  BY <2>2, <2>3
<1>8. QED  BY <1>2, <1>3, <1>5, <1>6, <1>7

\* So is what a line means.
LEMMA LineBegins ==
    ASSUME NEW S, NEW b \in Seq(S), NEW i \in Breaks(b)
    PROVE  LineBegin(b, i) \in Nat /\ 1 <= LineBegin(b, i) /\ LineBegin(b, i) <= i + 1
           /\ \A j \in Breaks(b) : j < i => j + 2 <= LineBegin(b, i)
<1>1. Breaks(b) \in SUBSET Nat /\ \A j \in Breaks(b) : 1 <= j /\ j < Len(b)
  BY BreaksAre
<1> DEFINE T == {1} \cup {j + 2 : j \in {k \in Breaks(b) : k < i}}
<1>2. PICK n \in Nat : n = i + 1
  BY <1>1
<1>3. T \in SUBSET (0..n) /\ 1 \in T
  BY <1>1, <1>2
<1>4. Max(T) \in T /\ Max(T) \in Nat /\ \A k \in T : k <= Max(T)
  BY <1>3, MaxIs
<1>5. LineBegin(b, i) = Max(T)
  BY DEF LineBegin
<1>a. \A j \in Breaks(b) : j < i => j + 2 \in T
  OBVIOUS
<1> HIDE DEF T
<1>6. PICK m : m = Max(T)
  OBVIOUS
<1>7. m \in T /\ m \in Nat /\ \A k \in T : k <= m
  BY <1>4, <1>6
<1>8. m <= n /\ 1 <= m
  <2>1. m \in 0..n /\ 1 <= m
    BY <1>3, <1>7
  <2>2. QED  BY <2>1
<1>9. \A j \in Breaks(b) : j < i => j + 2 <= m
  BY <1>7, <1>a
<1>10. QED  BY <1>2, <1>5, <1>6, <1>7, <1>8, <1>9

LEMMA LinesStay ==
    ASSUME NEW b, NEW p, Extends(b, p), NEW i \in Breaks(p)
    PROVE  LineBegin(b, i) = LineBegin(p, i) /\ MeaningAt(b, i) = MeaningAt(p, i)
<1>1. PICK S : b \in Seq(S) /\ p \in Seq(S)
  BY DEF Extends
<1>2. /\ Breaks(p) = {k \in Breaks(b) : k < Len(p)} /\ Len(p) \in Nat
      /\ Breaks(b) \in SUBSET Nat
  BY <1>1, BreaksStay, BreaksAre
<1>3. {k \in Breaks(b) : k < i} = {k \in Breaks(p) : k < i}
  BY <1>2
<1>4. LineBegin(b, i) = LineBegin(p, i)
  BY <1>3 DEF LineBegin
<1>5. PICK m : m = LineBegin(p, i)
  OBVIOUS
<1>6. m \in Nat /\ 1 <= m /\ m <= i + 1
  BY <1>1, <1>5, LineBegins
<1>7. i \in Nat /\ i < Len(p)
  BY <1>2
<1>8. m \in 1..Len(p)
  BY <1>2, <1>6, <1>7
<1>9. b[m] = p[m]
  BY <1>8 DEF Extends
<1>10. QED  BY <1>4, <1>5, <1>9 DEF MeaningAt

LEMMA HeadSizeIs ==
    ASSUME NEW S, NEW b \in Seq(S)
    PROVE  /\ HeadSize(b) \in Nat /\ HeadSize(b) <= Len(b)
           /\ HasHead(b) => HeadSize(b) = Min(HeadEnds(b)) + 1
           /\ ~HasHead(b) => \A i \in Breaks(b) : i + 1 <= HeadSize(b)
           /\ HeadSize(b) # 0 => HeadSize(b) - 1 \in Breaks(b)
<1>1. /\ Len(b) \in Nat /\ Breaks(b) \in SUBSET Nat /\ HeadEnds(b) \in SUBSET Breaks(b)
      /\ \A i \in Breaks(b) : 1 <= i /\ i < Len(b)
      /\ HasHead(b) => Min(HeadEnds(b)) \in HeadEnds(b)
  BY BreaksAre
<1>2. CASE HasHead(b)
  <2>1. HeadSize(b) = Min(HeadEnds(b)) + 1
    BY <1>2 DEF HeadSize
  <2>2. PICK m : m = Min(HeadEnds(b))
    OBVIOUS
  <2>3. m \in Breaks(b) /\ m \in Nat /\ m < Len(b)
    BY <1>1, <1>2, <2>2
  <2>4. (m + 1) - 1 = m /\ m + 1 \in Nat /\ m + 1 <= Len(b)
    BY <1>1, <2>3
  <2>5. QED  BY <1>2, <2>1, <2>2, <2>3, <2>4
<1>3. CASE ~HasHead(b) /\ Breaks(b) = {}
  BY <1>1, <1>3 DEF HeadSize
<1>4. CASE ~HasHead(b) /\ Breaks(b) # {}
  <2>1. HeadSize(b) = Max(Breaks(b)) + 1
    BY <1>4 DEF HeadSize
  <2>2. PICK m : m = Max(Breaks(b))
    OBVIOUS
  <2>3. Breaks(b) \in SUBSET (0..Len(b))
    BY <1>1
  <2>4. m \in Breaks(b) /\ m \in Nat /\ \A k \in Breaks(b) : k <= m
    BY <1>1, <1>4, <2>2, <2>3, MaxIs
  <2>5. (m + 1) - 1 = m /\ m + 1 \in Nat /\ m + 1 <= Len(b)
    BY <1>1, <2>4
  <2>6. \A k \in Breaks(b) : k + 1 <= m + 1
    BY <1>1, <2>4
  <2>7. QED  BY <1>4, <2>1, <2>2, <2>4, <2>5, <2>6
<1>5. QED  BY <1>2, <1>3, <1>4

\* A line that is none a message begins with, or none of a header.
BadLine(b, i) == MeaningAt(b, i) \notin IF LineBegin(b, i) = 1 THEN RequestLines ELSE HeaderLines

One(S) == CHOOSE i \in S : TRUE
Lengths == DOMAIN ContentLengths
Options == {"close", "keep-alive"}

LEMMA SizeIs ==
    ASSUME NEW b
    PROVE  /\ BodySize(b) = IF LastOf(b, Lengths) = {} THEN 0
                           ELSE ContentLengths[MeaningAt(b, One(LastOf(b, Lengths)))]
           /\ KeepsAlive(b) = IF LastOf(b, Options) = {} THEN KeepAliveByDefault(b[1])
                             ELSE MeaningAt(b, One(LastOf(b, Options))) = "keep-alive"
BY DEF BodySize, KeepsAlive, One, Lengths, Options

LEMMA OneOf ==
    ASSUME NEW S, S # {}
    PROVE  One(S) \in S
BY DEF One

\* What the head says.
SameHead(b, p) ==
    /\ HasHead(b) <=> HasHead(p)
    /\ HeadBreaks(b) = HeadBreaks(p) /\ HeadSize(b) = HeadSize(p)
    /\ Headers(b) = Headers(p) /\ \A K : LastOf(b, K) = LastOf(p, K)
    /\ BodySize(b) = BodySize(p)
    /\ Breaks(p) # {} => b[1] = p[1] /\ KeepsAlive(b) = KeepsAlive(p)
    /\ \A i \in HeadBreaks(p) : BadLine(b, i) <=> BadLine(p, i)

LEMMA HeadStays ==
    ASSUME NEW b, NEW p, Extends(b, p), HasHead(p) \/ Breaks(b) = Breaks(p)
    PROVE  SameHead(b, p)
<1>1. PICK S : b \in Seq(S) /\ p \in Seq(S)
  BY DEF Extends
<1>2. /\ Len(p) \in Nat /\ Len(b) \in Nat
      /\ Breaks(p) = {i \in Breaks(b) : i < Len(p)}
      /\ HeadEnds(p) = {i \in HeadEnds(b) : i < Len(p)}
      /\ HasHead(p) => HasHead(b) /\ Min(HeadEnds(b)) = Min(HeadEnds(p)) /\ HeadBreaks(b) = HeadBreaks(p)
  BY BreaksStay
<1>3. /\ HasHead(b) <=> HasHead(p)
      /\ HeadBreaks(b) = HeadBreaks(p) /\ HeadSize(b) = HeadSize(p)
  <2>1. CASE HasHead(p)
    BY <1>2, <2>1 DEF HeadSize
  <2>2. CASE Breaks(b) = Breaks(p)
    <3>1. HeadEnds(b) = HeadEnds(p)
      BY <2>2 DEF HeadEnds
    <3>2. QED  BY <2>2, <3>1 DEF HasHead, HeadBreaks, HeadSize
  <2>3. QED  BY <2>1, <2>2
<1>4. \A i \in Breaks(p) : LineBegin(b, i) = LineBegin(p, i) /\ MeaningAt(b, i) = MeaningAt(p, i)
  BY LinesStay
<1>5. HeadBreaks(p) \in SUBSET Breaks(p) /\ Headers(p) \in SUBSET HeadBreaks(p)
  BY <1>1, BreaksAre
<1>6. Headers(b) = Headers(p)
  BY <1>3, <1>4, <1>5 DEF Headers
<1>7. \A K : LastOf(b, K) = LastOf(p, K)
  <2>1. TAKE K
  <2>2. \A i \in Headers(p) : MeaningAt(b, i) = MeaningAt(p, i)
    BY <1>4, <1>5
  <2>3. QED  BY <1>6, <2>2 DEF LastOf
<1>8. \A K : \A i \in LastOf(p, K) : MeaningAt(b, i) = MeaningAt(p, i)
  BY <1>4, <1>5 DEF LastOf
<1>9. \A K : LastOf(p, K) # {} =>
         MeaningAt(b, One(LastOf(p, K))) = MeaningAt(p, One(LastOf(p, K)))
  BY <1>8, OneOf
<1>10. BodySize(b) = BodySize(p)
  <2>1. LastOf(b, Lengths) = LastOf(p, Lengths)
    BY <1>7
  <2>2. LastOf(p, Lengths) # {} =>
           MeaningAt(b, One(LastOf(p, Lengths))) = MeaningAt(p, One(LastOf(p, Lengths)))
    BY <1>9
  <2>3. QED  BY <2>1, <2>2, SizeIs
<1>11. ASSUME Breaks(p) # {} PROVE b[1] = p[1] /\ KeepsAlive(b) = KeepsAlive(p)
  <2>1. PICK i : i \in Breaks(p)
    BY <1>11
  <2>2. 1 \in 1..Len(p)
    BY <1>1, <1>2, <2>1, BreaksAre
  <2>3. b[1] = p[1]
    BY <2>2 DEF Extends
  <2>4. LastOf(b, Options) = LastOf(p, Options)
    BY <1>7
  <2>5. LastOf(p, Options) # {} =>
           MeaningAt(b, One(LastOf(p, Options))) = MeaningAt(p, One(LastOf(p, Options)))
    BY <1>9
  <2>6. KeepsAlive(b) = KeepsAlive(p)
    BY <2>3, <2>4, <2>5, SizeIs
  <2>7. QED  BY <2>3, <2>6
<1>12. \A i \in HeadBreaks(p) : BadLine(b, i) <=> BadLine(p, i)
  BY <1>4, <1>5 DEF BadLine
<1>13. QED  BY <1>3, <1>6, <1>7, <1>10, <1>11, <1>12 DEF SameHead

LEMMA BadIs ==
    ASSUME NEW b
    PROVE  IsBad(b) <=> \/ \E i \in HeadBreaks(b) : BadLine(b, i)
                        \/ HeadSize(b) > MaxHeaderBytes
                        \/ ~HasHead(b) /\ Len(b) - HeadSize(b) > MaxHeaderBytes
                        \/ HasHead(b) /\ BodySize(b) > MaxBodyBytes
BY DEF IsBad, BadLine

\* A whole head settles whether the message is malformed.
LEMMA WholeHeadSettles ==
    ASSUME NEW b, NEW p, Extends(b, p), HasHead(p)
    PROVE  IsBad(b) <=> IsBad(p)
BY HeadStays, BadIs DEF SameHead

\* What is malformed stays so.
LEMMA BadStays ==
    ASSUME NEW b, NEW p, Extends(b, p), IsBad(p)
    PROVE  IsBad(b)
<1>1. PICK S : b \in Seq(S) /\ p \in Seq(S)
  BY DEF Extends
<1>2. /\ Len(p) \in Nat /\ Len(b) \in Nat /\ Len(p) <= Len(b) /\ MaxHeaderBytes \in Nat
      /\ Breaks(p) = {i \in Breaks(b) : i < Len(p)}
      /\ HeadEnds(p) = {i \in HeadEnds(b) : i < Len(p)}
      /\ HeadBreaks(p) \in SUBSET HeadBreaks(b)
      /\ Breaks(b) \in SUBSET Nat /\ HeadEnds(b) \in SUBSET Breaks(b) /\ HeadBreaks(p) \in SUBSET Breaks(p)
      /\ HasHead(b) => Min(HeadEnds(b)) \in HeadEnds(b)
  BY <1>1, BreaksStay, BreaksAre, LimitsAssumption DEF Extends
<1>3. CASE HasHead(p)
  BY <1>3, WholeHeadSettles
<1>4. CASE \E i \in HeadBreaks(p) : BadLine(p, i)
  <2>1. PICK i \in HeadBreaks(p) : BadLine(p, i)
    BY <1>4
  <2>2. BadLine(b, i)
    BY <1>2, <2>1, LinesStay DEF BadLine
  <2>3. QED  BY <1>2, <2>1, <2>2, BadIs
<1>5. /\ HeadSize(p) \in Nat /\ HeadSize(b) \in Nat /\ HeadSize(p) <= Len(p)
      /\ HeadSize(p) # 0 => HeadSize(p) - 1 \in Breaks(p)
      /\ ~HasHead(b) => \A i \in Breaks(b) : i + 1 <= HeadSize(b)
      /\ HasHead(b) => HeadSize(b) = Min(HeadEnds(b)) + 1
  BY <1>1, HeadSizeIs
<1> DEFINE h == HeadSize(p)
           g == HeadSize(b)
<1>6. ASSUME ~HasHead(p), NEW i \in Breaks(b), HasHead(b) => i < Len(p) PROVE i + 1 <= g
  <2>1. CASE ~HasHead(b)
    BY <1>5, <2>1
  <2>2. CASE HasHead(b)
    <3>1. PICK m : m = Min(HeadEnds(b))
      OBVIOUS
    <3>2. m \in Nat /\ m \in HeadEnds(b) /\ ~(m < Len(p)) /\ g = m + 1
      BY <1>2, <1>5, <1>6, <2>2, <3>1 DEF HasHead
    <3>3. i \in Nat /\ i < Len(p)
      BY <1>2, <1>6, <2>2
    <3>4. QED  BY <1>2, <3>2, <3>3
  <2>3. QED  BY <2>1, <2>2
<1>7. CASE ~HasHead(p) /\ h > MaxHeaderBytes
  <2>1. h # 0
    BY <1>2, <1>7
  <2>2. PICK i : i = h - 1
    OBVIOUS
  <2>3. i \in Breaks(b) /\ i < Len(p) /\ i + 1 = h
    BY <1>2, <1>5, <2>1, <2>2
  <2>4. i + 1 <= g
    BY <1>6, <1>7, <2>3
  <2>5. g > MaxHeaderBytes
    <3>1. MaxHeaderBytes \in Nat /\ g \in Nat /\ h \in Nat /\ h <= g /\ h > MaxHeaderBytes
      BY <1>2, <1>5, <1>7, <2>3, <2>4
    <3> HIDE DEF g, h
    <3>2. QED  BY <3>1
  <2>6. QED  BY <1>5, <2>5, BadIs
<1>8. CASE ~HasHead(p) /\ Len(p) - h > MaxHeaderBytes
  <2>1. CASE Breaks(b) = Breaks(p)
    <3>1. ~HasHead(b) /\ g = h
      BY <1>5, <1>8, <2>1, HeadStays DEF SameHead
    <3>2. Len(b) - g > MaxHeaderBytes
      <4>1. /\ MaxHeaderBytes \in Nat /\ Len(b) \in Nat /\ Len(p) \in Nat /\ h \in Nat
            /\ Len(p) <= Len(b) /\ Len(p) - h > MaxHeaderBytes /\ g = h
        BY <1>2, <1>5, <1>8, <3>1
      <4> HIDE DEF g, h
      <4>2. Len(b) - h > MaxHeaderBytes
        BY <4>1
      <4>3. QED  BY <4>1, <4>2
    <3>3. QED  BY <1>5, <3>1, <3>2, BadIs
  <2>2. CASE Breaks(b) # Breaks(p)
    <3>1. PICK i \in Breaks(b) : ~(i < Len(p)) /\ i \in Nat
      BY <1>2, <2>2
    <3>2. g > Len(p)
      <4>1. CASE ~HasHead(b)
        <5>1. i + 1 <= g
          BY <1>5, <4>1
        <5>2. g \in Nat /\ Len(p) \in Nat
          BY <1>2, <1>5
        <5> HIDE DEF g, h
        <5>3. QED  BY <3>1, <5>1, <5>2
      <4>2. CASE HasHead(b)
        <5>1. PICK m : m = Min(HeadEnds(b))
          OBVIOUS
        <5>2. m \in Nat /\ m \in HeadEnds(b) /\ ~(m < Len(p)) /\ g = m + 1
          BY <1>2, <1>5, <1>8, <4>2, <5>1 DEF HasHead
        <5>3. QED  BY <1>2, <5>2
      <4>3. QED  BY <4>1, <4>2
    <3>3. g > MaxHeaderBytes
      BY <1>2, <1>5, <1>8, <3>2
    <3>4. QED  BY <1>5, <3>3, BadIs
  <2>3. QED  BY <2>1, <2>2
<1>9. QED  BY <1>3, <1>4, <1>5, <1>7, <1>8, BadIs

-----------------------------------------------------------------------------
(* One more line.                                                          *)

\* p consists of whole lines, none of them the empty one behind another.
HeadSoFar(p) == ~HasHead(p) /\ (Len(p) = 0 \/ Len(p) - 1 \in Breaks(p))

\* b is p and one more line, its e - 1 bytes and its CR LF.
OneLineMore(b, p, e) ==
    /\ Extends(b, p) /\ HeadSoFar(p)
    /\ e \in Nat /\ 1 <= e /\ Len(b) = Len(p) + e + 1
    /\ Len(p) + e \in Breaks(b)
    /\ \A i \in Breaks(b) : Len(p) < i => Len(p) + e <= i

LEMMA LineAdded ==
    ASSUME NEW b, NEW p, NEW e, OneLineMore(b, p, e)
    PROVE  /\ Len(p) \in Nat /\ Len(p) + e \in Nat
           /\ Breaks(b) = Breaks(p) \cup {Len(p) + e} /\ \A i \in Breaks(p) : i < Len(p) /\ i \in Nat
           /\ HasHead(b) <=> e = 1 /\ Len(p) > 0
           /\ HeadSize(b) = Len(b)
           /\ LineBegin(b, Len(p) + e) = Len(p) + 1
           /\ HeadBreaks(b) = IF HasHead(b) THEN HeadBreaks(p) ELSE HeadBreaks(p) \cup {Len(p) + e}
           /\ HeadBreaks(p) = Breaks(p)
<1>1. PICK S : b \in Seq(S) /\ p \in Seq(S)
  BY DEF OneLineMore, Extends
<1>2. PICK c \in Nat, n \in Nat : c = Len(p) /\ n = c + e
  BY <1>1, LenProperties DEF OneLineMore
<1>3. /\ e \in Nat /\ 1 <= e /\ Len(b) = n + 1 /\ n \in Breaks(b)
      /\ \A i \in Breaks(b) : c < i => n <= i
      /\ ~HasHead(p) /\ (c = 0 \/ c - 1 \in Breaks(p)) /\ c < n
      /\ Extends(b, p)
  BY <1>2 DEF OneLineMore, HeadSoFar
<1>4. /\ Breaks(p) = {i \in Breaks(b) : i < c}
      /\ HeadEnds(p) = {i \in HeadEnds(b) : i < c}
      /\ Breaks(b) \in SUBSET Nat /\ \A i \in Breaks(b) : 1 <= i /\ i < n + 1
  BY <1>1, <1>2, <1>3, BreaksStay, BreaksAre
<1>5. c \notin Breaks(b)
  <2>1. CASE c = 0
    BY <1>4, <2>1
  <2>2. CASE c - 1 \in Breaks(p)
    <3>1. PICK i \in Breaks(b) : i = c - 1
      BY <1>4, <2>2
    <3>2. b[i + 1] = LF
      BY DEF Breaks
    <3>3. i + 1 = c
      BY <1>2, <3>1
    <3>4. b[c] = LF
      BY <3>2, <3>3
    <3>5. QED  BY <3>4, BytesAssumption DEF Breaks
  <2>3. QED  BY <1>3, <2>1, <2>2
<1>6. Breaks(b) = Breaks(p) \cup {n} /\ n \notin Breaks(p)
  <2>1. ASSUME NEW i \in Breaks(b) PROVE i \in Breaks(p) \/ i = n
    <3>1. i \in Nat /\ i # c /\ i <= n
      BY <1>2, <1>4, <1>5
    <3>2. CASE i < c
      BY <1>4, <3>2
    <3>3. CASE ~(i < c)
      <4>1. c < i
        BY <1>2, <3>1, <3>3
      <4>2. n <= i
        BY <1>3, <4>1
      <4>3. QED  BY <1>2, <3>1, <4>2
    <3>4. QED  BY <3>2, <3>3
  <2>2. n \notin Breaks(p)
    BY <1>2, <1>3, <1>4
  <2>3. QED  BY <1>3, <1>4, <2>1, <2>2
<1>7. \A i \in HeadEnds(b) : i = n
  BY <1>3, <1>4, <1>6 DEF HasHead, HeadEnds
<1>8. HasHead(b) <=> n - 2 \in Breaks(b)
  BY <1>3, <1>7 DEF HasHead, HeadEnds
<1>9. n - 2 \in Breaks(b) <=> e = 1 /\ c > 0
  <2>1. ASSUME n - 2 \in Breaks(b) PROVE e = 1 /\ c > 0
    <3>1. n - 2 \in Breaks(p)
      BY <1>2, <1>6, <2>1
    <3>2. n - 2 < c /\ n - 2 \in Nat
      BY <1>4, <3>1
    <3>3. QED  BY <1>2, <1>3, <3>2
  <2>2. ASSUME e = 1, c > 0 PROVE n - 2 \in Breaks(b)
    <3>1. n - 2 = c - 1
      BY <1>2, <2>2
    <3>2. QED  BY <1>2, <1>3, <1>6, <2>2, <3>1
  <2>3. QED  BY <2>1, <2>2
<1>10. HeadSize(b) = Len(b)
  <2>1. CASE HasHead(b)
    <3>1. Min(HeadEnds(b)) = n
      BY <1>1, <1>7, <2>1, BreaksAre
    <3>2. QED  BY <1>3, <2>1, <3>1 DEF HeadSize
  <2>2. CASE ~HasHead(b)
    <3>1. \A k \in Breaks(b) : k <= n
      BY <1>2, <1>4
    <3>2. Max(Breaks(b)) = n
      BY <1>3, <1>4, <3>1, MaxAt
    <3>3. QED  BY <1>3, <2>2, <3>2 DEF HeadSize
  <2>3. QED  BY <2>1, <2>2
<1>11. LineBegin(b, n) = c + 1
  <2> DEFINE T == {1} \cup {j + 2 : j \in {k \in Breaks(b) : k < n}}
  <2>1. {k \in Breaks(b) : k < n} = Breaks(p)
    BY <1>2, <1>3, <1>4, <1>6
  <2>2. T = {1} \cup {j + 2 : j \in Breaks(p)}
    BY <2>1
  <2>3. \A j \in Breaks(p) : j \in Nat /\ j + 2 <= c + 1
    BY <1>2, <1>4
  <2>4. T \in SUBSET Nat /\ \A k \in T : k <= c + 1
    <3> HIDE DEF T
    <3>1. \A k \in T : k = 1 \/ \E j \in Breaks(p) : k = j + 2
      BY <2>2
    <3>2. \A k \in T : k \in Nat /\ k <= c + 1
      BY <1>2, <2>3, <3>1
    <3>3. QED  BY <3>2
  <2>5. c + 1 \in T
    <3>1. CASE c = 0
      BY <2>2, <3>1
    <3>2. CASE c - 1 \in Breaks(p)
      <4>1. (c - 1) + 2 = c + 1
        BY <1>2
      <4>2. QED  BY <2>2, <3>2, <4>1
    <3>3. QED  BY <1>3, <3>1, <3>2
  <2>6. LineBegin(b, n) = Max(T)
    BY DEF LineBegin
  <2> HIDE DEF T
  <2>7. QED  BY <2>4, <2>5, <2>6, MaxAt
<1>12. HeadBreaks(p) = Breaks(p)
  BY <1>3 DEF HeadBreaks
<1>13. HeadBreaks(b) = IF HasHead(b) THEN Breaks(p) ELSE Breaks(p) \cup {n}
  <2>1. CASE HasHead(b)
    <3>1. Min(HeadEnds(b)) = n
      BY <1>1, <1>7, <2>1, BreaksAre
    <3>2. {k \in Breaks(b) : k < n} = Breaks(p)
      BY <1>2, <1>3, <1>4, <1>6
    <3>3. QED  BY <2>1, <3>1, <3>2 DEF HeadBreaks
  <2>2. CASE ~HasHead(b)
    BY <1>6, <2>2 DEF HeadBreaks
  <2>3. QED  BY <2>1, <2>2
<1>14. \A i \in Breaks(p) : i < c /\ i \in Nat
  BY <1>4
<1>15. QED  BY <1>2, <1>6, <1>8, <1>9, <1>10, <1>11, <1>12, <1>13, <1>14

\* A request line.
LEMMA RequestLineAdded ==
    ASSUME NEW b, NEW p, NEW e, OneLineMore(b, p, e), Len(p) = 0
    PROVE  /\ ~HasHead(b) /\ BodySize(b) = 0 /\ MeaningAt(b, e) = b[1]
           /\ KeepsAlive(b) = KeepAliveByDefault(b[1])
           /\ IsBad(b) <=> b[1] \notin RequestLines \/ Len(b) > MaxHeaderBytes
<1>0. e \in Nat /\ 1 <= e /\ Len(b) = e + 1 /\ 0 + e = e
  BY DEF OneLineMore
<1>1. /\ Breaks(b) = Breaks(p) \cup {e} /\ Breaks(p) = {} /\ ~HasHead(b)
      /\ HeadSize(b) = Len(b) /\ LineBegin(b, e) = 1 /\ HeadBreaks(b) = {e}
  <2>1. /\ Breaks(b) = Breaks(p) \cup {Len(p) + e} /\ \A i \in Breaks(p) : i < Len(p) /\ i \in Nat
        /\ HasHead(b) <=> e = 1 /\ Len(p) > 0
        /\ HeadSize(b) = Len(b)
        /\ LineBegin(b, Len(p) + e) = Len(p) + 1
        /\ HeadBreaks(b) = IF HasHead(b) THEN HeadBreaks(p) ELSE HeadBreaks(p) \cup {Len(p) + e}
        /\ HeadBreaks(p) = Breaks(p)
    BY LineAdded
  <2>2. Len(p) + e = e /\ Len(p) + 1 = 1 /\ ~(Len(p) > 0)
    BY <1>0
  <2>3. Breaks(p) = {}
    BY <2>1
  <2>4. QED  BY <2>1, <2>2, <2>3
<1>2. MeaningAt(b, e) = b[1]
  <2>1. CASE e = 1
    BY <1>1, <2>1 DEF MeaningAt, Breaks
  <2>2. CASE e # 1
    BY <1>1, <2>2 DEF MeaningAt
  <2>3. QED  BY <2>1, <2>2
<1>3. Headers(b) = {} /\ \A K : LastOf(b, K) = {}
  BY <1>1 DEF Headers, LastOf
<1>4. BodySize(b) = 0 /\ KeepsAlive(b) = KeepAliveByDefault(b[1])
  BY <1>3, SizeIs
<1>5. BadLine(b, e) <=> b[1] \notin RequestLines
  BY <1>1, <1>2 DEF BadLine
<1>6. ~(Len(b) - HeadSize(b) > MaxHeaderBytes)
  BY <1>0, <1>1, LimitsAssumption
<1>7. QED  BY <1>1, <1>2, <1>4, <1>5, <1>6, BadIs

\* A header, or the empty line behind the headers.
LEMMA HeaderAdded ==
    ASSUME NEW b, NEW p, NEW e, OneLineMore(b, p, e), Len(p) > 0, ~IsBad(p), e > 1
    PROVE  /\ ~HasHead(b) /\ b[1] = p[1]
           /\ BodySize(b) = IF b[Len(p) + 1] \in Lengths THEN ContentLengths[b[Len(p) + 1]] ELSE BodySize(p)
           /\ KeepsAlive(b) = IF b[Len(p) + 1] \in Options THEN b[Len(p) + 1] = "keep-alive" ELSE KeepsAlive(p)
           /\ IsBad(b) <=> b[Len(p) + 1] \notin HeaderLines \/ Len(b) > MaxHeaderBytes
<1>0. PICK c \in Nat, n \in Nat : c = Len(p) /\ n = c + e /\ c > 0 /\ c < n
  BY LineAdded DEF OneLineMore
<1>1. /\ Breaks(b) = Breaks(p) \cup {n} /\ \A i \in Breaks(p) : i < c /\ i \in Nat
      /\ ~HasHead(b) /\ HeadSize(b) = Len(b) /\ LineBegin(b, n) = c + 1
      /\ HeadBreaks(b) = HeadBreaks(p) \cup {n} /\ HeadBreaks(p) = Breaks(p)
  <2>1. /\ Breaks(b) = Breaks(p) \cup {n} /\ \A i \in Breaks(p) : i < c /\ i \in Nat
        /\ HasHead(b) <=> e = 1 /\ c > 0
        /\ HeadSize(b) = Len(b)
        /\ LineBegin(b, n) = c + 1
        /\ HeadBreaks(b) = IF HasHead(b) THEN HeadBreaks(p) ELSE HeadBreaks(p) \cup {n}
        /\ HeadBreaks(p) = Breaks(p)
    BY <1>0, LineAdded
  <2>2. e # 1
    BY DEF OneLineMore
  <2>3. QED  BY <2>1, <2>2
<1>2. MeaningAt(b, n) = b[c + 1] /\ (BadLine(b, n) <=> b[c + 1] \notin HeaderLines)
  <2>1. c + 1 # n /\ c + 1 # 1
    BY <1>0 DEF OneLineMore
  <2>2. QED  BY <1>1, <2>1 DEF MeaningAt, BadLine
<1>3. Extends(b, p) /\ \A i \in Breaks(p) : LineBegin(b, i) = LineBegin(p, i) /\ MeaningAt(b, i) = MeaningAt(p, i)
  BY LinesStay DEF OneLineMore
<1>4. Headers(b) = Headers(p) \cup {n} /\ Headers(p) \in SUBSET Breaks(p)
  <2>1. LineBegin(b, n) > 1
    BY <1>0, <1>1
  <2>2. QED  BY <1>1, <1>3, <2>1 DEF Headers
<1>5. \A K : LastOf(b, K) = IF b[c + 1] \in K THEN {n} ELSE LastOf(p, K)
  <2>1. TAKE K
  <2>2. \A i \in Headers(p) : i < n /\ ~(i > n) /\ n > i /\ MeaningAt(b, i) = MeaningAt(p, i)
    BY <1>0, <1>1, <1>3, <1>4
  <2>3. ~(n > n) /\ n \notin Headers(p)
    BY <1>0, <2>2
  <2>4. QED  BY <1>2, <1>4, <2>2, <2>3 DEF LastOf
<1>6. One({n}) = n
  BY OneOf
<1>7. \A K : LastOf(p, K) # {} => MeaningAt(b, One(LastOf(p, K))) = MeaningAt(p, One(LastOf(p, K)))
  <2>1. TAKE K
  <2>2. \A i \in LastOf(p, K) : MeaningAt(b, i) = MeaningAt(p, i)
    BY <1>3, <1>4 DEF LastOf
  <2>3. QED  BY <2>2, OneOf
<1>8. BodySize(b) = IF b[c + 1] \in Lengths THEN ContentLengths[b[c + 1]] ELSE BodySize(p)
  <2>1. LastOf(b, Lengths) = IF b[c + 1] \in Lengths THEN {n} ELSE LastOf(p, Lengths)
    BY <1>5
  <2>2. LastOf(p, Lengths) # {} =>
           MeaningAt(b, One(LastOf(p, Lengths))) = MeaningAt(p, One(LastOf(p, Lengths)))
    BY <1>7
  <2>3. QED  BY <1>2, <1>6, <2>1, <2>2, SizeIs
<1>9. b[1] = p[1]
  BY <1>0 DEF OneLineMore, Extends
<1>10. KeepsAlive(b) = IF b[c + 1] \in Options THEN b[c + 1] = "keep-alive" ELSE KeepsAlive(p)
  <2>1. LastOf(b, Options) = IF b[c + 1] \in Options THEN {n} ELSE LastOf(p, Options)
    BY <1>5
  <2>2. LastOf(p, Options) # {} =>
           MeaningAt(b, One(LastOf(p, Options))) = MeaningAt(p, One(LastOf(p, Options)))
    BY <1>7
  <2>3. CASE b[c + 1] \in Options
    <3>1. LastOf(b, Options) = {n} /\ {n} # {}
      BY <2>1, <2>3
    <3>2. KeepsAlive(b) = (MeaningAt(b, One({n})) = "keep-alive")
      BY <3>1, SizeIs
    <3>3. MeaningAt(b, One({n})) = b[c + 1]
      BY <1>2, <1>6
    <3>4. QED  BY <2>3, <3>2, <3>3
  <2>4. CASE b[c + 1] \notin Options
    <3>1. LastOf(b, Options) = LastOf(p, Options)
      BY <2>1, <2>4
    <3>2. KeepsAlive(b) = KeepsAlive(p)
      BY <1>9, <2>2, <3>1, SizeIs
    <3>3. QED  BY <2>4, <3>2
  <2>5. QED  BY <2>3, <2>4
<1>11. \A i \in HeadBreaks(p) : ~BadLine(b, i)
  BY <1>1, <1>3, BadIs DEF BadLine
<1>12. ~(Len(b) - HeadSize(b) > MaxHeaderBytes)
  <2>1. Len(b) \in Nat
    BY LineAdded DEF OneLineMore
  <2>2. QED  BY <1>1, <2>1, LimitsAssumption
<1>13. IsBad(b) <=> b[c + 1] \notin HeaderLines \/ Len(b) > MaxHeaderBytes
  BY <1>1, <1>2, <1>11, <1>12, BadIs
<1>14. QED  BY <1>0, <1>1, <1>8, <1>9, <1>10, <1>13

LEMMA BlankLineAdded ==
    ASSUME NEW b, NEW p, NEW e, OneLineMore(b, p, e), Len(p) > 0, ~IsBad(p), e = 1
    PROVE  /\ HasHead(b) /\ HeadSize(b) = Len(b) /\ b[1] = p[1]
           /\ BodySize(b) = BodySize(p) /\ KeepsAlive(b) = KeepsAlive(p)
           /\ IsBad(b) <=> BodySize(p) > MaxBodyBytes \/ Len(b) > MaxHeaderBytes
<1>1. /\ HasHead(b) /\ HeadSize(b) = Len(b) /\ HeadBreaks(b) = HeadBreaks(p) /\ HeadBreaks(p) = Breaks(p)
  BY LineAdded
<1>2. Extends(b, p) /\ \A i \in Breaks(p) : LineBegin(b, i) = LineBegin(p, i) /\ MeaningAt(b, i) = MeaningAt(p, i)
  BY LinesStay DEF OneLineMore
<1>3. Headers(b) = Headers(p) /\ Headers(p) \in SUBSET Breaks(p)
  BY <1>1, <1>2 DEF Headers
<1>4. \A K : LastOf(b, K) = LastOf(p, K)
  <2>1. TAKE K
  <2>2. \A i \in Headers(p) : MeaningAt(b, i) = MeaningAt(p, i)
    BY <1>2, <1>3
  <2>3. QED  BY <1>3, <2>2 DEF LastOf
<1>5. \A K : LastOf(p, K) # {} => MeaningAt(b, One(LastOf(p, K))) = MeaningAt(p, One(LastOf(p, K)))
  <2>1. TAKE K
  <2>2. \A i \in LastOf(p, K) : MeaningAt(b, i) = MeaningAt(p, i)
    BY <1>2, <1>3 DEF LastOf
  <2>3. QED  BY <2>2, OneOf
<1>6. b[1] = p[1]
  <2>1. 1 \in 1..Len(p)
    BY LineAdded
  <2>2. QED  BY <2>1 DEF OneLineMore, Extends
<1>7. BodySize(b) = BodySize(p)
  <2>1. LastOf(b, Lengths) = LastOf(p, Lengths)
    BY <1>4
  <2>2. LastOf(p, Lengths) # {} =>
           MeaningAt(b, One(LastOf(p, Lengths))) = MeaningAt(p, One(LastOf(p, Lengths)))
    BY <1>5
  <2>3. QED  BY <2>1, <2>2, SizeIs
<1>8. KeepsAlive(b) = KeepsAlive(p)
  <2>1. LastOf(b, Options) = LastOf(p, Options)
    BY <1>4
  <2>2. LastOf(p, Options) # {} =>
           MeaningAt(b, One(LastOf(p, Options))) = MeaningAt(p, One(LastOf(p, Options)))
    BY <1>5
  <2>3. QED  BY <1>6, <2>1, <2>2, SizeIs
<1>9. \A i \in HeadBreaks(b) : ~BadLine(b, i)
  BY <1>1, <1>2, BadIs DEF BadLine
<1>10. IsBad(b) <=> BodySize(p) > MaxBodyBytes \/ Len(b) > MaxHeaderBytes
  BY <1>1, <1>7, <1>9, BadIs
<1>11. QED  BY <1>1, <1>6, <1>7, <1>8, <1>10

\* No line more: only too many bytes without one are malformed.
LEMMA NoLineAdded ==
    ASSUME NEW b, NEW p, Extends(b, p), HeadSoFar(p), ~IsBad(p), Breaks(b) = Breaks(p)
    PROVE  ~HasHead(b) /\ (IsBad(b) <=> Len(b) - Len(p) > MaxHeaderBytes)
<1>1. SameHead(b, p)
  BY HeadStays
<1>2. /\ ~HasHead(b) /\ HeadBreaks(b) = HeadBreaks(p) /\ HeadSize(b) = HeadSize(p)
      /\ \A i \in HeadBreaks(p) : ~BadLine(b, i)
      /\ ~(HeadSize(p) > MaxHeaderBytes)
  BY <1>1, BadIs DEF SameHead, HeadSoFar
<1>3. HeadSize(p) = Len(p)
  <2>1. PICK S : p \in Seq(S)
    BY DEF Extends
  <2>2. /\ HeadSize(p) \in Nat /\ HeadSize(p) <= Len(p) /\ Len(p) \in Nat
        /\ \A i \in Breaks(p) : i + 1 <= HeadSize(p)
    BY <2>1, HeadSizeIs, LenProperties DEF HeadSoFar
  <2>3. CASE Len(p) = 0
    BY <2>2, <2>3
  <2>4. CASE Len(p) - 1 \in Breaks(p)
    <3>1. (Len(p) - 1) + 1 <= HeadSize(p)
      BY <2>2, <2>4
    <3>2. QED  BY <2>2, <3>1
  <2>5. QED  BY <2>3, <2>4 DEF HeadSoFar
<1>4. QED  BY <1>2, <1>3, BadIs

-----------------------------------------------------------------------------
(* The bytes of a message and the state of the parser.                     *)

\* The bytes of the stream taken off the input; those of the message being parsed,
\* and all that has come from where it begins.
Done == arrived - Len(input)
Now == Begin(Len(taken) + 1)
Eaten == Piece(stream, Now, Done - Now)
All == Piece(stream, Now, arrived - Now)

IsMessage(w) == IsWhole(w) /\ Len(w) = HeadSize(w) + BodySize(w)

PastInv ==
    \A n \in DOMAIN taken :
       /\ Begin(n) <= taken[n].end /\ taken[n].end <= Done
       /\ IsMessage(Piece(stream, Begin(n), taken[n].end - Begin(n)))
       /\ taken[n].line = Piece(stream, Begin(n), taken[n].end - Begin(n))[1]
       /\ taken[n].keepAlive = KeepsAlive(Piece(stream, Begin(n), taken[n].end - Begin(n)))

\* The members of the parser are what the bytes p say.
Reads(p) == parser.line = p[1] /\ parser.keepAlive = KeepsAlive(p)

AtLine(p) == p = <<>> /\ parser.headerBytes = 0 /\ parser.contentLength = 0
InHeaders(p) ==
    /\ HeadSoFar(p) /\ Len(p) > 0 /\ ~IsBad(p) /\ Reads(p)
    /\ parser.headerBytes = Len(p) /\ parser.contentLength = BodySize(p)
InBody(p) ==
    /\ HasHead(p) /\ HeadSize(p) = Len(p) /\ ~IsBad(p) /\ Reads(p)
    /\ parser.contentLength = BodySize(p)

NowInv ==
    /\ parser.state = "requestLine" => AtLine(Eaten)
    /\ parser.state = "headers" => InHeaders(Eaten)
    /\ parser.state = "body" => InBody(Eaten)
    /\ parser.state = "gotAll" => IsMessage(Eaten) /\ Reads(Eaten)
    /\ parser.state = "error" => IsBad(All)

\* Nothing more can be parsed.
Settled ==
    /\ parser.state # "gotAll"
    /\ parser.state \in {"requestLine", "headers"} => ~HasLine /\ Len(input) <= MaxHeaderBytes
    /\ parser.state = "body" => Len(input) < parser.contentLength

RestedInv == io = "idle" => LeftUnread \/ Settled

ReadingInv == PastInv /\ NowInv /\ RestedInv

LEMMA BeginIs ==
    ASSUME TypeInv
    PROVE  /\ Len(taken) \in Nat /\ DOMAIN taken = 1..Len(taken) /\ Len(taken) + 1 \in 1..(Len(taken) + 1)
           /\ \A n \in 1..(Len(taken) + 1) : Begin(n) \in Nat
           /\ \A n \in DOMAIN taken : taken[n].end \in Nat
<1>1. Len(taken) \in Nat /\ DOMAIN taken = 1..Len(taken) /\ Len(taken) + 1 \in 1..(Len(taken) + 1)
  BY LenProperties DEF TypeInv, TakenInv
<1>2. \A n \in DOMAIN taken : taken[n].end \in Nat
  <2>1. TAKE n \in DOMAIN taken
  <2>2. taken[n] \in Received
    BY <1>1 DEF TypeInv, TakenInv
  <2>3. QED  BY <2>2 DEF Received
<1>3. \A n \in 1..(Len(taken) + 1) : n # 1 => n - 1 \in DOMAIN taken
  BY <1>1
<1>4. QED  BY <1>1, <1>2, <1>3 DEF Begin

LEMMA PieceExtends ==
    ASSUME NEW S, NEW s \in Seq(S), NEW i \in Nat, NEW m \in Nat, NEW n \in Nat, m <= n, i + n <= Len(s)
    PROVE  Extends(Piece(s, i, n), Piece(s, i, m))
<1>1. i + m <= Len(s)
  BY LenProperties
<1>2. /\ Piece(s, i, n) \in Seq(S) /\ Len(Piece(s, i, n)) = n
      /\ \A k \in 1..n : Piece(s, i, n)[k] = s[i + k]
  BY PieceIs
<1>3. /\ Piece(s, i, m) \in Seq(S) /\ Len(Piece(s, i, m)) = m
      /\ \A k \in 1..m : Piece(s, i, m)[k] = s[i + k]
  BY <1>1, PieceIs
<1>4. \A k \in 1..m : k \in 1..n
  OBVIOUS
<1>5. QED  BY <1>2, <1>3, <1>4 DEF Extends

\* n bytes of the stream.
IsPart(w, i, n) ==
    w \in Seq(ToSet(stream)) /\ Len(w) = n /\ \A k \in 1..n : w[k] = stream[i + k]

LEMMA PartIs ==
    ASSUME TypeInv, NEW i \in Nat, NEW n \in Nat, i + n <= Len(stream)
    PROVE  IsPart(Piece(stream, i, n), i, n)
<1>1. PICK s : s = stream
  OBVIOUS
<1>2. s \in Seq(ToSet(s)) /\ i + n <= Len(s)
  BY <1>1 DEF TypeInv, InputInv
<1>3. /\ Piece(s, i, n) \in Seq(ToSet(s)) /\ Len(Piece(s, i, n)) = n
      /\ \A k \in 1..n : Piece(s, i, n)[k] = s[i + k]
  BY <1>2, PieceIs
<1>4. QED  BY <1>1, <1>3 DEF IsPart

LEMMA PartExtends ==
    ASSUME TypeInv, NEW i \in Nat, NEW m \in Nat, NEW n \in Nat, m <= n, i + n <= Len(stream)
    PROVE  Extends(Piece(stream, i, n), Piece(stream, i, m))
<1>1. PICK s : s = stream
  OBVIOUS
<1>2. s \in Seq(ToSet(s)) /\ i + n <= Len(s)
  BY <1>1 DEF TypeInv, InputInv
<1>3. Extends(Piece(s, i, n), Piece(s, i, m))
  BY <1>2, PieceExtends
<1>4. QED  BY <1>1, <1>3

\* How the message's bytes lie in the stream.
LEMMA View ==
    ASSUME TypeInv, PastInv
    PROVE  /\ Now \in Nat /\ Done \in Nat /\ Now <= Done /\ Done <= arrived /\ arrived \in Nat
           /\ stream \in Seq(ToSet(stream)) /\ arrived <= Len(stream) /\ Len(stream) \in Nat
           /\ Len(input) \in Nat /\ arrived = Done + Len(input)
           /\ Eaten \in Seq(ToSet(stream)) /\ Len(Eaten) = Done - Now /\ Len(Eaten) \in Nat
           /\ All \in Seq(ToSet(stream)) /\ Len(All) = arrived - Now
           /\ Len(All) = Len(Eaten) + Len(input)
           /\ Extends(All, Eaten)
           /\ \A k \in 1..Len(input) : input[k] = stream[Done + k]
           /\ \A k \in 1..Len(input) : input[k] = All[Len(Eaten) + k]
<1>1. stream \in Seq(ToSet(stream)) /\ Len(stream) \in Nat
  BY LenProperties DEF TypeInv, InputInv
<1>2. PICK l \in Nat, a \in Nat : l = Len(input) /\ a = arrived /\ l <= a /\ a <= Len(stream)
  BY <1>1 DEF TypeInv, InputInv
<1>3. PICK d \in Nat : d = Done /\ d = a - l /\ d + l = a
  BY <1>2 DEF Done
<1>4. PICK h \in Nat : h = Now /\ h <= d
  <2>1. Now \in Nat
    BY BeginIs DEF Now
  <2>2. Now <= d
    <3>1. CASE Len(taken) = 0
      <4>1. Now = 0
        BY <3>1 DEF Now, Begin
      <4>2. QED  BY <1>3, <4>1
    <3>2. CASE Len(taken) # 0
      <4>1. Len(taken) \in DOMAIN taken /\ Len(taken) + 1 # 1 /\ (Len(taken) + 1) - 1 = Len(taken)
        BY <3>2, BeginIs
      <4>2. Now = taken[Len(taken)].end
        BY <4>1 DEF Now, Begin
      <4>3. QED  BY <1>3, <4>1, <4>2 DEF PastInv
    <3>3. QED  BY <3>1, <3>2
  <2>3. QED  BY <2>1, <2>2
<1>5. PICK m \in Nat, n \in Nat : m = d - h /\ n = a - h /\ m <= n /\ h + n = a /\ h + m = d /\ n = m + l
  <2>1. d - h \in Nat /\ a - h \in Nat /\ a = d + l
    BY <1>3, <1>4
  <2>2. PICK m \in Nat, n \in Nat : m = d - h /\ n = a - h
    BY <2>1
  <2>3. m <= n /\ h + n = a /\ h + m = d /\ n = m + l
    BY <1>3, <1>4, <2>1, <2>2
  <2>4. QED  BY <2>2, <2>3
<1>6. Eaten = Piece(stream, h, m) /\ All = Piece(stream, h, n) /\ h + n <= Len(stream) /\ h + m <= Len(stream)
  BY <1>1, <1>2, <1>3, <1>4, <1>5 DEF Eaten, All
<1>7. /\ Eaten \in Seq(ToSet(stream)) /\ Len(Eaten) = m
  <2>1. IsPart(Eaten, h, m)
    BY <1>6, PartIs
  <2>2. QED  BY <2>1 DEF IsPart
<1>8. /\ All \in Seq(ToSet(stream)) /\ Len(All) = n
      /\ \A k \in 1..n : All[k] = stream[h + k]
  <2>1. IsPart(All, h, n)
    BY <1>6, PartIs
  <2>2. QED  BY <2>1 DEF IsPart
<1>9. Extends(All, Eaten)
  BY <1>5, <1>6, PartExtends
<1>10. \A k \in 1..l : input[k] = stream[d + k]
  <2>1. input = Piece(stream, d, l) /\ d + l <= Len(stream)
    BY <1>2, <1>3 DEF TypeInv, InputInv
  <2>2. IsPart(input, d, l)
    BY <2>1, PartIs
  <2>3. QED  BY <2>2 DEF IsPart
<1>11. \A k \in 1..l : input[k] = All[m + k]
  <2>1. TAKE k \in 1..l
  <2>2. m + k \in 1..n /\ h + (m + k) = d + k
    BY <1>5
  <2>3. All[m + k] = stream[d + k]
    BY <1>8, <2>2
  <2>4. QED  BY <1>10, <2>3
<1>12. QED
  BY <1>1, <1>2, <1>3, <1>4, <1>5, <1>7, <1>8, <1>9, <1>10, <1>11

LEMMA NothingEaten ==
    ASSUME NEW p, p = <<>>
    PROVE  /\ Len(p) = 0 /\ Breaks(p) = {} /\ HeadSoFar(p) /\ ~IsBad(p)
<1>1. Len(p) = 0
  BY EmptySeq
<1>2. Breaks(p) = {}
  BY <1>1 DEF Breaks
<1>3. HeadEnds(p) = {} /\ ~HasHead(p) /\ HeadBreaks(p) = {} /\ HeadSize(p) = 0
  BY <1>2 DEF HeadEnds, HasHead, HeadBreaks, HeadSize
<1>4. ~IsBad(p)
  BY <1>1, <1>3, BadIs, LimitsAssumption
<1>5. QED  BY <1>1, <1>2, <1>3, <1>4 DEF HeadSoFar

\* The next line of the input is one more line of the message.
LEMMA NextLine ==
    ASSUME TypeInv, PastInv, HeadSoFar(Eaten), HasLine, TakeLine,
           UNCHANGED <<taken, stream, arrived>>
    PROVE  /\ OneLineMore(Eaten', Eaten, LineEnd) /\ Extends(All, Eaten') /\ All' = All
           /\ Eaten'[Len(Eaten) + 1] = Meaning(Line)
           /\ Len(Eaten') = Len(Eaten) + LineEnd + 1
           /\ Line = <<>> <=> LineEnd = 1
           /\ LineEnd \in Nat /\ LineEnd >= 1 /\ Done' = Done + LineEnd + 1 /\ Now' = Now
<1>1. /\ Now \in Nat /\ Done \in Nat /\ Now <= Done /\ arrived \in Nat
      /\ stream \in Seq(ToSet(stream)) /\ arrived <= Len(stream) /\ Len(stream) \in Nat
      /\ Len(input) \in Nat /\ arrived = Done + Len(input)
      /\ Len(Eaten) = Done - Now
      /\ \A k \in 1..Len(input) : input[k] = stream[Done + k]
  BY View
<1>2. PICK h \in Nat, d \in Nat, l \in Nat, c \in Nat :
         h = Now /\ d = Done /\ l = Len(input) /\ c = Len(Eaten) /\ h + c = d /\ arrived = d + l
  <2>1. Done - Now \in Nat /\ Now + (Done - Now) = Done
    BY <1>1
  <2>2. QED  BY <1>1, <2>1
<1>3. InputInv
  BY DEF TypeInv
<1>4. /\ LineEnd \in Breaks(input) /\ LineEnd \in 1..(Len(input) - 1)
      /\ \A i \in Breaks(input) : LineEnd <= i
  BY <1>3, LineEndIs
<1>5. PICK e \in Nat : e = LineEnd /\ 1 <= e /\ e + 1 <= l /\ e \in Breaks(input) /\ \A i \in Breaks(input) : e <= i
  BY <1>2, <1>4
<1>6. Len(input') = l - (e + 1)
  BY <1>2, <1>3, <1>5, LineTaken
<1>7. Now' = Now /\ All' = All /\ Done' = d + e + 1
  <2>1. Now' = Now
    BY DEF Now, Begin
  <2>2. All' = All
    BY <2>1 DEF All, Piece
  <2>3. Done' = (d + l) - (l - (e + 1))
    BY <1>2, <1>6 DEF Done
  <2>4. QED  BY <1>2, <1>5, <2>1, <2>2, <2>3
<1>8. PICK n \in Nat : n = c + e + 1 /\ n = Done' - Now' /\ h + n <= Len(stream) /\ n <= arrived - h /\ c <= n
  BY <1>1, <1>2, <1>5, <1>7
<1>9. PICK q : q = Eaten' /\ q = Piece(stream, h, n)
  BY <1>2, <1>7, <1>8 DEF Eaten, Piece
<1>10. /\ q \in Seq(ToSet(stream)) /\ Len(q) = n /\ \A k \in 1..n : q[k] = stream[h + k]
  <2>1. IsPart(q, h, n)
    BY <1>8, <1>9, PartIs
  <2>2. QED  BY <2>1 DEF IsPart
<1>11. Eaten = Piece(stream, h, c) /\ All = Piece(stream, h, d + l - h) /\ h + (d + l - h) <= Len(stream) /\ d + l - h \in Nat /\ n <= d + l - h
  <2>1. d - h = c /\ h + (d + l - h) = d + l /\ d + l - h \in Nat
    BY <1>2
  <2>2. QED  BY <1>1, <1>2, <1>8, <2>1 DEF Eaten, All
<1>12. Extends(q, Eaten)
  BY <1>8, <1>9, <1>11, PartExtends
<1>13. Extends(All, q)
  BY <1>8, <1>9, <1>11, PartExtends
<1>14. \A k \in 1..(e + 1) : q[c + k] = input[k]
  <2>1. TAKE k \in 1..(e + 1)
  <2>2. c + k \in 1..n /\ h + (c + k) = d + k /\ k \in 1..l
    BY <1>2, <1>5, <1>8, SMTT(20)
  <2>3. q[c + k] = stream[d + k]
    BY <1>10, <2>2
  <2>4. QED  BY <1>1, <1>2, <2>2, <2>3
<1>15. input[e] = CR /\ input[e + 1] = LF
  BY <1>5 DEF Breaks
<1>16. c + e \in Breaks(q)
  <2>1. q[c + e] = CR
    BY <1>5, <1>14, <1>15
  <2>2. q[c + (e + 1)] = LF /\ c + (e + 1) = (c + e) + 1
    BY <1>5, <1>14, <1>15
  <2>3. c + e \in 1..(n - 1)
    BY <1>5, <1>8
  <2>4. QED  BY <1>10, <2>1, <2>2, <2>3 DEF Breaks
<1>17. ASSUME NEW i \in Breaks(q), c < i PROVE c + e <= i
  <2>1. i \in 1..(n - 1) /\ q[i] = CR /\ q[i + 1] = LF
    BY <1>10 DEF Breaks
  <2>2. SUFFICES ASSUME ~(c + e <= i) PROVE FALSE
    OBVIOUS
  <2>3. PICK k \in Nat : k = i - c /\ k >= 1 /\ k < e /\ i = c + k /\ i + 1 = c + (k + 1)
    BY <1>5, <1>8, <1>17, <2>1, <2>2
  <2>4. input[k] = CR /\ input[k + 1] = LF
    BY <1>5, <1>14, <2>1, <2>3
  <2>5. k \in 1..(Len(input) - 1)
    BY <1>2, <1>5, <2>3
  <2>6. k \in Breaks(input)
    BY <2>4, <2>5 DEF Breaks
  <2>7. e <= k
    BY <1>5, <2>6
  <2>8. QED  BY <1>5, <2>3, <2>7
<1>18. OneLineMore(q, Eaten, e)
  BY <1>2, <1>5, <1>8, <1>10, <1>12, <1>16, <1>17 DEF OneLineMore
<1>19. /\ Line = <<>> <=> e = 1
       /\ q[c + 1] = Meaning(Line)
  <2>1. input \in Seq(ToSet(stream))
    <3>1. input = Piece(stream, d, l) /\ d + l <= Len(stream)
      BY <1>1, <1>2, <1>3 DEF InputInv, Done
    <3>2. IsPart(input, d, l)
      BY <3>1, PartIs
    <3>3. QED  BY <3>2 DEF IsPart
  <2>2. CASE e = 1
    <3>1. Line = <<>>
      <4>1. PICK z \in Nat : z = 0
        OBVIOUS
      <4>2. Line = Piece(input, z, 0)
        BY <1>5, <2>2, <4>1 DEF Line, Piece
      <4>3. QED  BY <4>2, PieceEmpty
    <3>2. q[c + 1] = CR
      BY <1>5, <1>14, <1>15, <2>2
    <3>3. QED  BY <2>2, <3>1, <3>2 DEF Meaning
  <2>3. CASE e # 1
    <3>1. PICK f \in Nat : f = e - 1 /\ f >= 1 /\ 0 + f <= Len(input)
      BY <1>2, <1>5, <2>3
    <3>2. PICK z \in Nat : z = 0 /\ z + 1 = 1 /\ z + f = f
      BY <3>1
    <3>3. Line = Piece(input, z, f)
      BY <1>5, <3>1, <3>2 DEF Line, Piece
    <3>4. Len(Line) = f /\ Line[1] = input[1]
      <4>1. Len(Piece(input, z, f)) = f /\ \A k \in 1..f : Piece(input, z, f)[k] = input[z + k]
        <5>1. PICK s : s = input
          OBVIOUS
        <5>2. s \in Seq(ToSet(stream)) /\ z + f <= Len(s)
          BY <2>1, <3>1, <3>2, <5>1
        <5>3. Len(Piece(s, z, f)) = f /\ \A k \in 1..f : Piece(s, z, f)[k] = s[z + k]
          BY <5>2, PieceIs
        <5>4. QED  BY <5>1, <5>3
      <4>2. 1 \in 1..f
        BY <3>1
      <4>3. QED  BY <3>2, <3>3, <4>1, <4>2
    <3>5. Line # <<>>
      BY <3>1, <3>4, EmptySeq
    <3>6. q[c + 1] = input[1]
      BY <1>5, <1>14
    <3>7. QED  BY <2>3, <3>4, <3>5, <3>6 DEF Meaning
  <2>4. QED  BY <2>2, <2>3
<1>20. QED
  BY <1>2, <1>5, <1>7, <1>8, <1>9, <1>10, <1>13, <1>18, <1>19

\* With no line in the input, the lines that have come are those taken off.
LEMMA NoNextLine ==
    ASSUME TypeInv, PastInv, HeadSoFar(Eaten), ~IsBad(Eaten), ~HasLine
    PROVE  ~HasHead(All) /\ (IsBad(All) <=> Len(input) > MaxHeaderBytes)
<1>1. /\ Len(input) \in Nat /\ Len(Eaten) \in Nat /\ Len(All) = Len(Eaten) + Len(input) /\ Extends(All, Eaten)
      /\ \A k \in 1..Len(input) : input[k] = All[Len(Eaten) + k]
      /\ All \in Seq(ToSet(stream))
  BY View
<1>a. PICK c \in Nat, l \in Nat : c = Len(Eaten) /\ l = Len(input)
  BY <1>1
<1>b. PICK b : b = All
  OBVIOUS
<1>2. c = Len(Eaten) /\ l = Len(input) /\ b = All
  BY <1>a, <1>b
<1>3. Breaks(Eaten) = {i \in Breaks(b) : i < c} /\ Breaks(b) \in SUBSET Nat
  BY <1>1, <1>2, BreaksStay, BreaksAre
<1>4. ASSUME NEW i \in Breaks(b) PROVE i < c
  <2>1. i \in 1..(c + l - 1) /\ b[i] = CR /\ b[i + 1] = LF
    BY <1>1, <1>2 DEF Breaks
  <2>2. SUFFICES ASSUME ~(i < c) PROVE FALSE
    OBVIOUS
  <2>3. CASE i = c
    <3>1. c # 0
      BY <2>1, <2>3
    <3>2. PICK j \in Breaks(Eaten) : j = c - 1
      BY <1>2, <3>1 DEF HeadSoFar
    <3>3. j \in Breaks(b) /\ j + 1 = c
      BY <1>2, <1>3, <3>2
    <3>4. b[j + 1] = LF
      BY <3>3 DEF Breaks
    <3>5. b[c] = LF
      BY <3>3, <3>4
    <3>6. QED  BY <2>1, <2>3, <3>5, BytesAssumption
  <2>4. CASE i # c
    <3>1. PICK k \in Nat : k = i - c /\ k >= 1 /\ k <= l - 1 /\ i = c + k /\ i + 1 = c + (k + 1)
      BY <1>2, <2>1, <2>2, <2>4
    <3>2. k \in 1..Len(input) /\ k + 1 \in 1..Len(input) /\ k \in 1..(Len(input) - 1)
      BY <1>2, <3>1
    <3>3. input[k] = CR /\ input[k + 1] = LF
      BY <1>1, <1>2, <2>1, <3>1, <3>2
    <3>4. QED  BY <3>2, <3>3 DEF HasLine, Breaks
  <2>5. QED  BY <2>3, <2>4
<1>5. Breaks(b) = Breaks(Eaten)
  BY <1>3, <1>4
<1>6. ~HasHead(b) /\ (IsBad(b) <=> Len(b) - Len(Eaten) > MaxHeaderBytes)
  BY <1>1, <1>2, <1>5, NoLineAdded
<1>7. (c + l) - c = l
  BY <1>2
<1>8. QED  BY <1>1, <1>2, <1>6, <1>7

-----------------------------------------------------------------------------
(* The parser keeps to the meaning of the bytes.                           *)

\* The messages taken on stay what they are.
LEMMA PastStays ==
    ASSUME TypeInv, PastInv, UNCHANGED <<taken, stream>>, Done' \in Nat, Done <= Done'
    PROVE  PastInv'
<1>1. Done \in Nat /\ \A n \in DOMAIN taken : taken[n].end \in Nat
  BY View, BeginIs
<1>2. \A n \in DOMAIN taken : taken[n].end <= Done'
  <2>1. TAKE n \in DOMAIN taken
  <2>2. PICK a \in Nat, d \in Nat, f \in Nat : a = taken[n].end /\ d = Done /\ f = Done'
    BY <1>1
  <2>3. a <= d
    BY <2>2 DEF PastInv
  <2>4. QED  BY <2>2, <2>3
<1>3. \A n : Begin(n)' = Begin(n)
  BY DEF Begin
<1>4. QED  BY <1>2, <1>3 DEF PastInv, IsMessage, Piece

LEMMA RequestLineStep ==
    ASSUME TypeInv, ReadingInv, ParseRequestLine, UNCHANGED <<taken, stream, arrived>>
    PROVE  ReadingInv'
<1>1. /\ parser.state = "requestLine" /\ io = "parse" /\ HasLine /\ TakeLine /\ io' = io
      /\ AtLine(Eaten) /\ PastInv
  BY DEF ParseRequestLine, Parsing, ReadingInv, NowInv
<1>2. Len(Eaten) = 0 /\ HeadSoFar(Eaten) /\ ~IsBad(Eaten) /\ Breaks(Eaten) = {}
  BY <1>1, NothingEaten DEF AtLine
<1>3. /\ OneLineMore(Eaten', Eaten, LineEnd) /\ Extends(All, Eaten') /\ All' = All
      /\ Eaten'[Len(Eaten) + 1] = Meaning(Line) /\ Len(Eaten') = Len(Eaten) + LineEnd + 1
      /\ LineEnd \in Nat /\ LineEnd >= 1 /\ Done' = Done + LineEnd + 1
  BY <1>1, <1>2, NextLine
<1>a. PICK e \in Nat : e = LineEnd
  BY <1>3
<1>b. PICK q : q = Eaten'
  OBVIOUS
<1>4. q = Eaten' /\ e = LineEnd /\ e >= 1 /\ Len(q) = e + 1 /\ q[1] = Meaning(Line)
  <2>1. Len(Eaten) + 1 = 1 /\ Len(Eaten) + LineEnd + 1 = LineEnd + 1
    BY <1>2, <1>3
  <2>2. Len(Eaten') = LineEnd + 1 /\ Eaten'[1] = Meaning(Line)
    BY <1>3, <2>1
  <2>3. QED  BY <1>3, <1>a, <1>b, <2>2
<1>5. /\ ~HasHead(q) /\ BodySize(q) = 0
      /\ KeepsAlive(q) = KeepAliveByDefault(q[1])
      /\ IsBad(q) <=> q[1] \notin RequestLines \/ Len(q) > MaxHeaderBytes
  BY <1>2, <1>3, <1>4, RequestLineAdded
<1>6. TooLong <=> Len(q) > MaxHeaderBytes
  <2>1. HeaderBytes = 0 + e + 1
    BY <1>1, <1>4 DEF HeaderBytes, AtLine
  <2>2. 0 + e + 1 = e + 1
    BY <1>4
  <2>3. QED  BY <1>4, <2>1, <2>2 DEF TooLong
<1>7. PastInv'
  <2>1. Done \in Nat /\ Done' \in Nat /\ Done <= Done'
    <3>1. Done \in Nat
      BY <1>1, View
    <3>2. PICK d \in Nat, k \in Nat : d = Done /\ k = LineEnd
      BY <1>3, <3>1
    <3>3. Done' = d + k + 1
      BY <1>3, <3>2
    <3>4. d + k + 1 \in Nat /\ d <= d + k + 1
      OBVIOUS
    <3>5. QED  BY <3>2, <3>3, <3>4
  <2>2. QED  BY <1>1, <2>1, PastStays
<1>8. CASE TooLong \/ Meaning(Line) \notin RequestLines
  <2>1. IsBad(q)
    BY <1>4, <1>5, <1>6, <1>8
  <2>2. IsBad(All')
    BY <1>3, <1>4, <2>1, BadStays
  <2>3. parser'.state = "error"
    BY <1>8 DEF ParseRequestLine, Fail, TypeInv, ParserInv, Parsers
  <2>4. QED  BY <1>1, <1>7, <2>2, <2>3 DEF ReadingInv, NowInv, RestedInv
<1>9. CASE ~(TooLong \/ Meaning(Line) \notin RequestLines)
  <2>1. /\ parser'.state = "headers" /\ parser'.headerBytes = HeaderBytes
        /\ parser'.line = Meaning(Line) /\ parser'.keepAlive = KeepAliveByDefault(Meaning(Line))
        /\ parser'.contentLength = parser.contentLength
    BY <1>9 DEF ParseRequestLine, TypeInv, ParserInv, Parsers
  <2>2. HeadSoFar(q) /\ Len(q) > 0
    <3>1. 0 + e \in Breaks(q)
      BY <1>2, <1>3, <1>4 DEF OneLineMore
    <3>2. Len(q) - 1 = 0 + e /\ Len(q) > 0
      BY <1>4
    <3>3. QED  BY <1>5, <3>1, <3>2 DEF HeadSoFar
  <2>3. HeaderBytes = Len(q)
    <3>1. HeaderBytes = 0 + e + 1
      BY <1>1, <1>4 DEF HeaderBytes, AtLine
    <3>2. 0 + e + 1 = e + 1
      BY <1>4
    <3>3. QED  BY <1>4, <3>1, <3>2
  <2>4. InHeaders(Eaten)'
    BY <1>1, <1>4, <1>5, <1>6, <1>9, <2>1, <2>2, <2>3 DEF InHeaders, Reads, AtLine
  <2>5. QED  BY <1>1, <1>7, <2>1, <2>4 DEF ReadingInv, NowInv, RestedInv
<1>10. QED  BY <1>8, <1>9

\* What a header sets, member by member.
LEMMA HeaderSets ==
    ASSUME NEW p \in Parsers, NEW h
    PROVE  /\ SetByHeader(p, h).contentLength = IF h \in Lengths THEN ContentLengths[h] ELSE p.contentLength
           /\ SetByHeader(p, h).keepAlive = IF h \in Options THEN h = "keep-alive" ELSE p.keepAlive
<1> USE DEF Lengths, Options
<1>1. CASE h \in DOMAIN ContentLengths
  <2>1. h \notin {"close", "keep-alive"}
    BY <1>1 DEF ContentLengths
  <2>2. PICK n : n = ContentLengths[h]
    OBVIOUS
  <2>3. SetByHeader(p, h) = [p EXCEPT !.contentLength = n]
    BY <1>1, <2>1, <2>2 DEF SetByHeader
  <2>4. QED  BY <1>1, <2>1, <2>2, <2>3 DEF Parsers
<1>2. CASE h = "close"
  <2>1. h \notin DOMAIN ContentLengths /\ h # "keep-alive"
    BY <1>2 DEF ContentLengths
  <2>2. SetByHeader(p, h) = [p EXCEPT !.keepAlive = FALSE]
    BY <1>2, <2>1 DEF SetByHeader
  <2>3. QED  BY <1>2, <2>1, <2>2 DEF Parsers
<1>3. CASE h = "keep-alive"
  <2>1. h \notin DOMAIN ContentLengths /\ h # "close"
    BY <1>3 DEF ContentLengths
  <2>2. SetByHeader(p, h) = [p EXCEPT !.keepAlive = TRUE]
    BY <1>3, <2>1 DEF SetByHeader
  <2>3. QED  BY <1>3, <2>1, <2>2 DEF Parsers
<1>4. CASE h \notin DOMAIN ContentLengths /\ h # "close" /\ h # "keep-alive"
  BY <1>4 DEF SetByHeader
<1>5. QED  BY <1>1, <1>2, <1>3, <1>4

LEMMA HeaderLineStep ==
    ASSUME TypeInv, ReadingInv, ParseHeaderLine, UNCHANGED <<taken, stream, arrived>>
    PROVE  ReadingInv'
<1>1. /\ parser.state = "headers" /\ io = "parse" /\ HasLine /\ TakeLine /\ io' = io
      /\ InHeaders(Eaten) /\ PastInv /\ Line # <<>>
  BY DEF ParseHeaderLine, Parsing, ReadingInv, NowInv
<1>2. HeadSoFar(Eaten) /\ ~IsBad(Eaten) /\ Len(Eaten) > 0 /\ Len(Eaten) \in Nat
  BY <1>1, View DEF InHeaders
<1>3. /\ OneLineMore(Eaten', Eaten, LineEnd) /\ Extends(All, Eaten') /\ All' = All
      /\ Eaten'[Len(Eaten) + 1] = Meaning(Line) /\ Len(Eaten') = Len(Eaten) + LineEnd + 1
      /\ LineEnd \in Nat /\ LineEnd >= 1 /\ Done' = Done + LineEnd + 1 /\ LineEnd # 1
  BY <1>1, <1>2, NextLine
<1>a. PICK e \in Nat, c \in Nat : e = LineEnd /\ c = Len(Eaten)
  BY <1>2, <1>3
<1>b. PICK q, m : q = Eaten' /\ m = Meaning(Line)
  OBVIOUS
<1>4. /\ q = Eaten' /\ e = LineEnd /\ c = Len(Eaten) /\ m = Meaning(Line)
      /\ e > 1 /\ Len(q) = c + e + 1 /\ q[c + 1] = m
  <2>1. e > 1
    BY <1>3, <1>a
  <2>2. QED  BY <1>3, <1>a, <1>b, <2>1
<1>5. /\ ~HasHead(q) /\ q[1] = Eaten[1]
      /\ BodySize(q) = IF m \in Lengths THEN ContentLengths[m] ELSE BodySize(Eaten)
      /\ KeepsAlive(q) = IF m \in Options THEN m = "keep-alive" ELSE KeepsAlive(Eaten)
      /\ IsBad(q) <=> m \notin HeaderLines \/ Len(q) > MaxHeaderBytes
  <2>1. OneLineMore(q, Eaten, e) /\ q[Len(Eaten) + 1] = m
    BY <1>3, <1>4
  <2>2. /\ ~HasHead(q) /\ q[1] = Eaten[1]
        /\ BodySize(q) = IF q[Len(Eaten) + 1] \in Lengths THEN ContentLengths[q[Len(Eaten) + 1]] ELSE BodySize(Eaten)
        /\ KeepsAlive(q) = IF q[Len(Eaten) + 1] \in Options THEN q[Len(Eaten) + 1] = "keep-alive" ELSE KeepsAlive(Eaten)
        /\ IsBad(q) <=> q[Len(Eaten) + 1] \notin HeaderLines \/ Len(q) > MaxHeaderBytes
    BY <1>2, <1>4, <2>1, HeaderAdded
  <2>3. QED  BY <2>1, <2>2
<1>6. HeaderBytes = Len(q)
  BY <1>1, <1>4 DEF HeaderBytes, InHeaders
<1>7. PastInv'
  <2>1. Done \in Nat /\ Done' \in Nat /\ Done <= Done'
    <3>1. Done \in Nat
      BY <1>1, View
    <3>2. PICK d \in Nat, k \in Nat : d = Done /\ k = LineEnd
      BY <1>3, <3>1
    <3>3. Done' = d + k + 1
      BY <1>3, <3>2
    <3>4. d + k + 1 \in Nat /\ d <= d + k + 1
      OBVIOUS
    <3>5. QED  BY <3>2, <3>3, <3>4
  <2>2. QED  BY <1>1, <2>1, PastStays
<1>8. CASE TooLong \/ m \notin HeaderLines
  <2>1. IsBad(q)
    BY <1>5, <1>6, <1>8 DEF TooLong
  <2>2. IsBad(All')
    BY <1>3, <1>4, <2>1, BadStays
  <2>3. parser'.state = "error"
    BY <1>4, <1>8 DEF ParseHeaderLine, Fail, TypeInv, ParserInv, Parsers
  <2>4. QED  BY <1>1, <1>7, <2>2, <2>3 DEF ReadingInv, NowInv, RestedInv
<1>9. CASE ~(TooLong \/ m \notin HeaderLines)
  <2>1. PICK p \in Parsers : /\ p = [parser EXCEPT !.headerBytes = HeaderBytes]
                            /\ p.state = "headers" /\ p.headerBytes = HeaderBytes /\ p.line = parser.line
                            /\ p.keepAlive = parser.keepAlive /\ p.contentLength = parser.contentLength
    <3>1. HeaderBytes \in Nat
      BY <1>4, <1>6
    <3>2. [parser EXCEPT !.headerBytes = HeaderBytes] \in Parsers
      BY <3>1 DEF TypeInv, ParserInv, Parsers
    <3>3. QED  BY <1>1, <3>2 DEF TypeInv, ParserInv, Parsers
  <2>2. parser' = SetByHeader(p, m)
    BY <1>4, <1>9, <2>1 DEF ParseHeaderLine
  <2>3. /\ parser'.state = "headers" /\ parser'.headerBytes = HeaderBytes /\ parser'.line = parser.line
        /\ parser'.contentLength = IF m \in Lengths THEN ContentLengths[m] ELSE parser.contentLength
        /\ parser'.keepAlive = IF m \in Options THEN m = "keep-alive" ELSE parser.keepAlive
    BY <2>1, <2>2, HeaderSets, HeaderTyped
  <2>4. HeadSoFar(q) /\ Len(q) > 0
    <3>1. c + e \in Breaks(q)
      BY <1>3, <1>4 DEF OneLineMore
    <3>2. Len(q) - 1 = c + e /\ Len(q) > 0
      BY <1>4
    <3>3. QED  BY <1>5, <3>1, <3>2 DEF HeadSoFar
  <2>5. InHeaders(q)'
    BY <1>1, <1>5, <1>6, <1>9, <2>3, <2>4 DEF InHeaders, Reads, TooLong
  <2>6. InHeaders(Eaten)'
    BY <1>4, <2>5 DEF InHeaders, Reads
  <2>7. QED  BY <1>1, <1>7, <2>3, <2>6 DEF ReadingInv, NowInv, RestedInv
<1>10. QED  BY <1>8, <1>9

LEMMA BlankLineStep ==
    ASSUME TypeInv, ReadingInv, ParseBlankLine, UNCHANGED <<taken, stream, arrived>>
    PROVE  ReadingInv'
<1>1. /\ parser.state = "headers" /\ io = "parse" /\ HasLine /\ TakeLine /\ io' = io
      /\ InHeaders(Eaten) /\ PastInv /\ Line = <<>>
  BY DEF ParseBlankLine, Parsing, ReadingInv, NowInv
<1>2. HeadSoFar(Eaten) /\ ~IsBad(Eaten) /\ Len(Eaten) > 0 /\ Len(Eaten) \in Nat
  BY <1>1, View DEF InHeaders
<1>3. /\ OneLineMore(Eaten', Eaten, LineEnd) /\ Extends(All, Eaten') /\ All' = All
      /\ Len(Eaten') = Len(Eaten) + LineEnd + 1
      /\ LineEnd \in Nat /\ Done' = Done + LineEnd + 1 /\ LineEnd = 1
  BY <1>1, <1>2, NextLine
<1>a. PICK c \in Nat : c = Len(Eaten)
  BY <1>2
<1>b. PICK q : q = Eaten'
  OBVIOUS
<1>4. q = Eaten' /\ c = Len(Eaten) /\ Len(q) = c + LineEnd + 1 /\ OneLineMore(q, Eaten, LineEnd)
  BY <1>3, <1>a, <1>b
<1>5. /\ HasHead(q) /\ HeadSize(q) = Len(q) /\ q[1] = Eaten[1]
      /\ BodySize(q) = BodySize(Eaten) /\ KeepsAlive(q) = KeepsAlive(Eaten)
      /\ IsBad(q) <=> BodySize(Eaten) > MaxBodyBytes \/ Len(q) > MaxHeaderBytes
  BY <1>2, <1>3, <1>4, BlankLineAdded
<1>6. HeaderBytes = Len(q)
  BY <1>1, <1>4 DEF HeaderBytes, InHeaders
<1>7. PastInv'
  <2>1. Done \in Nat /\ Done' \in Nat /\ Done <= Done'
    <3>1. Done \in Nat
      BY <1>1, View
    <3>2. PICK d \in Nat, k \in Nat : d = Done /\ k = LineEnd
      BY <1>3, <3>1
    <3>3. Done' = d + k + 1
      BY <1>3, <3>2
    <3>4. d + k + 1 \in Nat /\ d <= d + k + 1
      OBVIOUS
    <3>5. QED  BY <3>2, <3>3, <3>4
  <2>2. QED  BY <1>1, <2>1, PastStays
<1>8. parser.contentLength = BodySize(Eaten) /\ parser.contentLength \in Nat
  BY <1>1 DEF InHeaders, TypeInv, ParserInv, Parsers
<1>9. CASE TooLong \/ parser.contentLength > MaxBodyBytes
  <2>1. IsBad(q)
    BY <1>5, <1>6, <1>8, <1>9 DEF TooLong
  <2>2. IsBad(All')
    BY <1>3, <1>4, <2>1, BadStays
  <2>3. parser'.state = "error"
    BY <1>9 DEF ParseBlankLine, Fail, TypeInv, ParserInv, Parsers
  <2>4. QED  BY <1>1, <1>7, <2>2, <2>3 DEF ReadingInv, NowInv, RestedInv
<1>10. CASE ~(TooLong \/ parser.contentLength > MaxBodyBytes)
  <2>1. /\ parser'.state = IF parser.contentLength = 0 THEN "gotAll" ELSE "body"
        /\ parser'.line = parser.line /\ parser'.keepAlive = parser.keepAlive
        /\ parser'.contentLength = parser.contentLength
    BY <1>10 DEF ParseBlankLine, TypeInv, ParserInv, Parsers
  <2>2. ~IsBad(q)
    BY <1>5, <1>6, <1>8, <1>10 DEF TooLong
  <2>3. Reads(Eaten)'
    BY <1>1, <1>4, <1>5, <2>1 DEF InHeaders, Reads
  <2>4. CASE parser.contentLength = 0
    <3>1. BodySize(q) = 0 /\ Len(q) \in Nat
      BY <1>4, <1>5, <1>8, <2>4, <1>3
    <3>2. Len(q) = HeadSize(q) + BodySize(q)
      BY <1>5, <3>1
    <3>3. Len(q) >= HeadSize(q) + BodySize(q)
      BY <1>5, <3>1
    <3>4. IsMessage(Eaten)'
      BY <1>4, <1>5, <2>2, <3>2, <3>3 DEF IsMessage, IsWhole
    <3>5. parser'.state = "gotAll"
      BY <2>1, <2>4
    <3>6. QED  BY <1>1, <1>7, <2>3, <3>4, <3>5 DEF ReadingInv, NowInv, RestedInv
  <2>5. CASE parser.contentLength # 0
    <3>1. InBody(Eaten)'
      BY <1>4, <1>5, <1>8, <2>1, <2>2, <2>3 DEF InBody
    <3>2. parser'.state = "body"
      BY <2>1, <2>5
    <3>3. QED  BY <1>1, <1>7, <3>1, <3>2 DEF ReadingInv, NowInv, RestedInv
  <2>6. QED  BY <2>4, <2>5
<1>11. QED  BY <1>9, <1>10

LEMMA BodyStep ==
    ASSUME TypeInv, ReadingInv, ParseBody, UNCHANGED <<taken, stream, arrived>>
    PROVE  ReadingInv'
<1>1. /\ parser.state = "body" /\ io = "parse" /\ io' = io /\ InBody(Eaten) /\ PastInv
      /\ Len(input) >= parser.contentLength
      /\ input' = SubSeq(input, parser.contentLength + 1, Len(input))
  BY DEF ParseBody, Parsing, ReadingInv, NowInv
<1>2. /\ Now \in Nat /\ Done \in Nat /\ Now <= Done /\ arrived \in Nat
      /\ arrived <= Len(stream) /\ Len(stream) \in Nat
      /\ Len(input) \in Nat /\ arrived = Done + Len(input) /\ Len(Eaten) = Done - Now
  BY <1>1, View
<1>3. PICK k \in Nat, h \in Nat, d \in Nat, l \in Nat, c \in Nat :
         /\ k = parser.contentLength /\ h = Now /\ d = Done /\ l = Len(input) /\ c = Len(Eaten)
         /\ k <= l /\ h + c = d /\ arrived = d + l
  <2>1. parser.contentLength \in Nat
    BY DEF TypeInv, ParserInv, Parsers
  <2>2. Done - Now \in Nat /\ Now + (Done - Now) = Done
    BY <1>2
  <2>3. PICK k \in Nat, h \in Nat, d \in Nat, l \in Nat, c \in Nat :
           k = parser.contentLength /\ h = Now /\ d = Done /\ l = Len(input) /\ c = Done - Now
    BY <1>2, <2>1, <2>2
  <2>4. c = Len(Eaten) /\ k <= l /\ h + c = d /\ arrived = d + l
    BY <1>1, <1>2, <2>2, <2>3
  <2>5. QED  BY <2>3, <2>4
<1>c. k <= l /\ h + c = d
  BY <1>3
<1>4. Len(input') = l - k
  <2>1. k \in 0..Len(input) /\ InputInv
    BY <1>3 DEF TypeInv
  <2>2. QED  BY <1>1, <1>3, <2>1, Rest
<1>5. Now' = Now /\ Done' = d + k
  <2>1. Now' = Now
    BY DEF Now, Begin
  <2>2. Done' = (d + l) - (l - k)
    BY <1>3, <1>4 DEF Done
  <2>3. (d + l) - (l - k) = d + k
    OBVIOUS
  <2>4. QED  BY <2>1, <2>2, <2>3
<1>6. PICK n \in Nat : n = c + k /\ n = Done' - Now' /\ h + n <= Len(stream) /\ c <= n
  <2>1. c + k \in Nat /\ c + k = (d + k) - h /\ c <= c + k /\ h + (c + k) <= d + l
    BY <1>c
  <2>2. Done' - Now' = (d + k) - h /\ d + l <= Len(stream)
    BY <1>2, <1>3, <1>5
  <2>3. PICK n \in Nat : n = c + k
    BY <2>1
  <2>4. h + n <= Len(stream)
    BY <1>2, <1>3, <2>1, <2>2, <2>3
  <2>5. QED  BY <2>1, <2>2, <2>3, <2>4
<1>7. PICK q : q = Eaten' /\ q = Piece(stream, h, n)
  BY <1>3, <1>5, <1>6 DEF Eaten, Piece
<1>8. Eaten = Piece(stream, h, c)
  <2>1. d - h = c
    BY <1>3
  <2>2. QED  BY <1>3, <2>1 DEF Eaten
<1>9. Extends(q, Eaten)
  BY <1>6, <1>7, <1>8, PartExtends
<1>10. Len(q) = n
  <2>1. IsPart(q, h, n)
    BY <1>6, <1>7, PartIs
  <2>2. QED  BY <2>1 DEF IsPart
<1>11. /\ HasHead(Eaten) /\ HeadSize(Eaten) = c /\ ~IsBad(Eaten) /\ BodySize(Eaten) = k
       /\ parser.line = Eaten[1] /\ parser.keepAlive = KeepsAlive(Eaten)
  BY <1>1, <1>3 DEF InBody, Reads
<1>12. Breaks(Eaten) # {}
  BY <1>11 DEF HasHead, HeadEnds
<1>13. SameHead(q, Eaten) /\ ~IsBad(q)
  BY <1>9, <1>11, HeadStays, WholeHeadSettles
<1>14. HasHead(q) /\ HeadSize(q) = c /\ BodySize(q) = k /\ q[1] = Eaten[1] /\ KeepsAlive(q) = KeepsAlive(Eaten)
  BY <1>11, <1>12, <1>13 DEF SameHead
<1>15. IsMessage(q)
  BY <1>6, <1>10, <1>13, <1>14 DEF IsMessage, IsWhole
<1>16. parser'.state = "gotAll" /\ parser'.line = parser.line /\ parser'.keepAlive = parser.keepAlive
  BY DEF ParseBody, TypeInv, ParserInv, Parsers
<1>17. IsMessage(Eaten)' /\ Reads(Eaten)'
  <2>1. IsMessage(Eaten')
    BY <1>7, <1>15
  <2>2. QED  BY <1>7, <1>11, <1>14, <1>16, <2>1 DEF IsMessage, Reads
<1>18. PastInv'
  <2>1. Done' \in Nat /\ Done <= Done'
    <3>1. d + k \in Nat /\ d <= d + k
      OBVIOUS
    <3>2. QED  BY <1>3, <1>5, <3>1
  <2>2. QED  BY <1>1, <2>1, PastStays
<1>19. QED  BY <1>1, <1>16, <1>17, <1>18 DEF ReadingInv, NowInv, RestedInv

LEMMA ParseStep ==
    ASSUME TypeInv, ReadingInv, parse, UNCHANGED <<taken, stream, arrived>>
    PROVE  ReadingInv'
<1>0. PastInv /\ NowInv
  BY DEF ReadingInv
<1>1. ASSUME UNCHANGED input
      PROVE  Now' = Now /\ Done' = Done /\ Eaten' = Eaten /\ All' = All /\ PastInv'
  <2>1. Now' = Now /\ Done' = Done
    BY <1>1 DEF Now, Begin, Done
  <2>2. Eaten' = Eaten /\ All' = All
    BY <2>1 DEF Eaten, All, Piece
  <2>3. Done' \in Nat /\ Done <= Done'
    BY <1>0, <2>1, View
  <2>4. QED  BY <1>0, <2>1, <2>2, <2>3, PastStays
<1>2. CASE OverlongLine
  <2>1. ~HasLine /\ Len(input) > MaxHeaderBytes /\ UNCHANGED <<input, io>> /\ io = "parse"
        /\ parser.state \in {"requestLine", "headers"}
    BY <1>2 DEF OverlongLine
  <2>2. HeadSoFar(Eaten) /\ ~IsBad(Eaten)
    BY <1>0, <2>1, NothingEaten DEF NowInv, AtLine, InHeaders
  <2>3. IsBad(All)
    BY <1>0, <2>1, <2>2, NoNextLine
  <2>4. IsBad(All') /\ PastInv'
    BY <1>1, <2>1, <2>3
  <2>5. parser'.state = "error"
    BY <1>2 DEF OverlongLine, Fail, TypeInv, ParserInv, Parsers
  <2>6. QED  BY <2>1, <2>4, <2>5 DEF ReadingInv, NowInv, RestedInv
<1>3. CASE NeedMore
  <2>1. UNCHANGED <<input, parser>> /\ Settled
    BY <1>3 DEF NeedMore, Settled
  <2>2. Settled'
    BY <2>1 DEF Settled, HasLine, Breaks
  <2>3. Eaten' = Eaten /\ All' = All /\ PastInv'
    BY <1>1, <2>1
  <2>4. NowInv'
    BY <1>0, <2>1, <2>3 DEF NowInv, AtLine, InHeaders, InBody, Reads, IsMessage
  <2>5. QED  BY <2>2, <2>3, <2>4 DEF ReadingInv, RestedInv
<1>4. QED
  BY <1>2, <1>3, RequestLineStep, HeaderLineStep, BlankLineStep, BodyStep DEF parse

LEMMA TakeStep == TypeInv /\ ReadingInv /\ Take => ReadingInv'
<1> SUFFICES ASSUME TypeInv, ReadingInv, Take PROVE ReadingInv'
  OBVIOUS
<1>0. PastInv /\ NowInv
  BY DEF ReadingInv
<1>1. /\ parser.state = "gotAll" /\ io = "parse" /\ parser' = Fresh
      /\ UNCHANGED <<input, stream, arrived>> /\ IsMessage(Eaten) /\ Reads(Eaten)
      /\ parser.keepAlive \in BOOLEAN
  BY <1>0 DEF Take, Parsing, peerVars, takeRequest, NowInv, TypeInv, ParserInv, Parsers
<1>a. Len(taken) \in Nat
  BY BeginIs
<1>b. PICK l \in Nat : l = Len(taken)
  BY <1>a
<1>c. PICK n \in Nat : n = l + 1
  OBVIOUS
<1>2. l = Len(taken) /\ n = l + 1 /\ DOMAIN taken = 1..l
  BY <1>b, <1>c, BeginIs
<1>3. /\ Done \in Nat /\ Now \in Nat /\ Now <= Done /\ Done' = Done /\ Now = Begin(n)
  BY <1>0, <1>1, <1>2, View DEF Done, Now
<1>4. PICK e \in Received : /\ e.line = parser.line /\ e.keepAlive = parser.keepAlive /\ e.end = Done
                           /\ taken' = Append(taken, e)
  <2>1. PICK a \in Lines, b \in BOOLEAN, d \in Nat : a = parser.line /\ b = parser.keepAlive /\ d = Done
    BY <1>3 DEF TypeInv, ParserInv, Parsers
  <2>2. PICK e : e = [line |-> a, keepAlive |-> b, end |-> d]
    OBVIOUS
  <2>3. e \in Received /\ e.line = a /\ e.keepAlive = b /\ e.end = d
    BY <2>2 DEF Received
  <2>4. taken' = Append(taken, e)
    BY <2>1, <2>2 DEF Take, Done
  <2>5. QED  BY <2>1, <2>3, <2>4
<1>5. /\ Len(taken') = n /\ DOMAIN taken' = 1..l \cup {n} /\ taken'[n] = e /\ n \notin 1..l
      /\ \A i \in 1..l : taken'[i] = taken[i]
  BY <1>2, <1>4, AppendProperties, LenProperties, Grown DEF TypeInv, TakenInv
<1>6. \A i \in 1..n : Begin(i)' = Begin(i)
  <2>1. TAKE i \in 1..n
  <2>2. CASE i = 1
    BY <2>2 DEF Begin
  <2>3. CASE i # 1
    <3>1. i - 1 \in 1..l
      BY <1>2, <2>3
    <3>2. QED  BY <1>5, <2>3, <3>1 DEF Begin
  <2>4. QED  BY <2>2, <2>3
<1>7. Now' = Done
  <2>1. Now' = Begin(n + 1)' /\ n + 1 # 1 /\ (n + 1) - 1 = n
    BY <1>2, <1>5 DEF Now
  <2>2. Begin(n + 1)' = taken'[n].end
    BY <2>1 DEF Begin
  <2>3. QED  BY <1>4, <1>5, <2>1, <2>2
<1>8. PastInv'
  <2>1. \A i \in 1..l : i \in DOMAIN taken /\ i \in 1..n
    BY <1>2
  <2>2. \A i \in 1..l :
           /\ Begin(i)' <= taken'[i].end /\ taken'[i].end <= Done'
           /\ IsMessage(Piece(stream', Begin(i)', taken'[i].end - Begin(i)'))
           /\ taken'[i].line = Piece(stream', Begin(i)', taken'[i].end - Begin(i)')[1]
           /\ taken'[i].keepAlive = KeepsAlive(Piece(stream', Begin(i)', taken'[i].end - Begin(i)'))
    BY <1>0, <1>1, <1>3, <1>5, <1>6, <2>1 DEF PastInv
  <2>3. /\ Begin(n)' = Now /\ taken'[n].end = Done /\ stream' = stream
        /\ taken'[n].line = parser.line /\ taken'[n].keepAlive = parser.keepAlive
    BY <1>1, <1>2, <1>3, <1>4, <1>5, <1>6
  <2>4. Piece(stream', Begin(n)', taken'[n].end - Begin(n)') = Eaten
    BY <2>3 DEF Eaten
  <2>5. Begin(n)' <= taken'[n].end /\ taken'[n].end <= Done'
    BY <1>3, <2>3
  <2>6. /\ IsMessage(Eaten) /\ taken'[n].line = Eaten[1] /\ taken'[n].keepAlive = KeepsAlive(Eaten)
    BY <1>1, <2>3 DEF Reads
  <2>7. \A i \in DOMAIN taken' : i \in 1..l \/ i = n
    BY <1>5
  <2>8. QED  BY <2>2, <2>4, <2>5, <2>6, <2>7 DEF PastInv, IsMessage
<1>9. NowInv'
  <2>1. Eaten' = <<>>
    <3>1. Done' - Now' = 0
      BY <1>3, <1>7
    <3>2. Eaten' = Piece(stream, Done, 0)
      BY <1>1, <1>7, <3>1 DEF Eaten, Piece
    <3>3. QED  BY <1>3, <3>2, PieceEmpty
  <2>2. AtLine(Eaten)' /\ parser'.state = "requestLine"
    BY <1>1, <2>1 DEF AtLine, Fresh
  <2>3. QED  BY <2>2 DEF NowInv
<1>10. RestedInv'
  <2>1. ASSUME io' = "idle" PROVE LeftUnread'
    <3>1. parser.keepAlive = FALSE
      BY <1>1, <2>1 DEF Take
    <3>2. Last(taken') = e
      BY <1>5 DEF Last
    <3>3. taken' # <<>>
      BY <1>2, <1>5, EmptySeq
    <3>4. arrived' - Len(input') = Done
      BY <1>1 DEF Done
    <3>5. QED  BY <1>4, <3>1, <3>2, <3>3, <3>4 DEF LeftUnread
  <2>2. QED  BY <2>1 DEF RestedInv
<1>11. QED  BY <1>8, <1>9, <1>10 DEF ReadingInv

\* What leaves the input, the parser and the requests alone.
LEMMA ParkedStep ==
    ASSUME ReadingInv, UNCHANGED <<input, parser, taken, stream, arrived>>,
           io' = io \/ Settled
    PROVE  ReadingInv'
<1>1. Now' = Now /\ Done' = Done /\ \A n : Begin(n)' = Begin(n)
  BY DEF Now, Begin, Done
<1>2. Eaten' = Eaten /\ All' = All
  BY <1>1 DEF Eaten, All, Piece
<1>3. PastInv'
  BY <1>1 DEF ReadingInv, PastInv, IsMessage, Piece
<1>4. NowInv'
  BY <1>2 DEF ReadingInv, NowInv, AtLine, InHeaders, InBody, Reads, IsMessage
<1>5. (LeftUnread' <=> LeftUnread) /\ (Settled' <=> Settled)
  BY DEF LeftUnread, Settled, HasLine, Breaks
<1>6. QED  BY <1>3, <1>4, <1>5 DEF ReadingInv, RestedInv

LEMMA ReadStep ==
    ASSUME TypeInv, TypeInv', ReadingInv, NEW n \in 1..Len(stream), Read(n)
    PROVE  ReadingInv'
<1>0. PastInv /\ NowInv
  BY DEF ReadingInv
<1>1. /\ UNCHANGED <<parser, taken, stream>> /\ arrived' = arrived + n /\ io' = "parse"
      /\ input' = input \o SubSeq(stream, arrived + 1, arrived + n) /\ arrived + n <= Len(stream)
  BY DEF Read
<1>2. /\ Now \in Nat /\ Done \in Nat /\ Now <= Done /\ Done <= arrived /\ arrived \in Nat
      /\ arrived = Done + Len(input) /\ Len(input) \in Nat /\ Len(stream) \in Nat
  BY <1>0, View
<1>3. Len(input') = Len(input) + n
  <2>1. SubSeq(stream, arrived + 1, arrived + n) = Piece(stream, arrived, n) /\ n \in Nat
    BY <1>2 DEF Piece
  <2>2. IsPart(Piece(stream, arrived, n), arrived, n)
    BY <1>1, <1>2, <2>1, PartIs
  <2>3. IsPart(input, Done, Len(input))
    <3>1. input = Piece(stream, Done, Len(input)) /\ Done + Len(input) <= Len(stream)
      BY <1>2 DEF TypeInv, InputInv, Done
    <3>2. QED  BY <1>2, <3>1, PartIs
  <2>4. PICK u, v, S : /\ u = input /\ v = Piece(stream, arrived, n) /\ u \in Seq(S) /\ v \in Seq(S)
                       /\ Len(v) = n
    BY <2>2, <2>3 DEF IsPart
  <2>5. Len(u \o v) = Len(u) + Len(v)
    BY <2>4, ConcatProperties
  <2>6. QED  BY <1>1, <2>1, <2>4, <2>5
<1>4. Done' = Done /\ Now' = Now
  <2>1. PICK a \in Nat, l \in Nat, k \in Nat : a = arrived /\ l = Len(input) /\ k = n
    BY <1>2
  <2>2. Done' = (a + k) - (l + k) /\ Done = a - l
    BY <1>1, <1>3, <2>1 DEF Done
  <2>3. (a + k) - (l + k) = a - l
    OBVIOUS
  <2>4. QED  BY <1>1, <2>2, <2>3 DEF Now, Begin
<1>5. Eaten' = Eaten
  BY <1>1, <1>4 DEF Eaten, Piece
<1>6. Extends(All', All)
  <2>1. PICK a \in Nat, h \in Nat, k \in Nat : a = arrived /\ h = Now /\ k = n /\ h <= a /\ a + k <= Len(stream)
    BY <1>1, <1>2
  <2>2. PICK x \in Nat, y \in Nat : x = a - h /\ y = (a + k) - h /\ x <= y /\ h + y = a + k
    <3>1. a - h \in Nat /\ (a + k) - h \in Nat /\ a - h <= (a + k) - h /\ h + ((a + k) - h) = a + k
      BY <2>1
    <3>2. QED  BY <3>1
  <2>3. All = Piece(stream, h, x) /\ All' = Piece(stream, h, y) /\ h + y <= Len(stream)
    BY <1>1, <1>4, <2>1, <2>2 DEF All, Piece
  <2>4. QED  BY <2>2, <2>3, PartExtends
<1>7. PastInv'
  BY <1>0, <1>1, <1>2, <1>4, PastStays
<1>8. NowInv'
  <2>1. parser.state = "error" => IsBad(All')
    BY <1>0, <1>6, BadStays DEF NowInv
  <2>2. QED  BY <1>0, <1>1, <1>5, <2>1 DEF NowInv, AtLine, InHeaders, InBody, Reads, IsMessage
<1>9. QED  BY <1>1, <1>7, <1>8 DEF ReadingInv, RestedInv

LEMMA ReadingStart == Init => ReadingInv
<1> SUFFICES ASSUME Init PROVE ReadingInv
  OBVIOUS
<1>1. /\ taken = <<>> /\ input = <<>> /\ arrived = 0 /\ parser = Fresh
      /\ Len(taken) = 0 /\ DOMAIN taken = {} /\ Len(input) = 0
  BY EmptySeq, LenProperties DEF Init
<1>2. Done = 0 /\ Now = 0
  <2>1. Done = 0
    <3>1. arrived = 0 /\ Len(input) = 0
      BY <1>1
    <3>2. QED  BY <3>1 DEF Done
  <2>2. Len(taken) + 1 = 1
    BY <1>1
  <2>3. QED  BY <2>1, <2>2 DEF Now, Begin
<1>3. Eaten = <<>>
  <2>1. PICK z \in Nat : z = 0 /\ z - z = 0
    OBVIOUS
  <2>2. Eaten = Piece(stream, z, 0)
    BY <1>2, <2>1 DEF Eaten
  <2>3. QED  BY <2>2, PieceEmpty
<1>4. PastInv
  BY <1>1 DEF PastInv
<1>5. NowInv
  BY <1>1, <1>3 DEF NowInv, AtLine, Fresh
<1>6. Settled
  <2>1. ~HasLine
    BY <1>1, NothingEaten DEF HasLine
  <2>2. parser.state = "requestLine"
    BY <1>1 DEF Fresh
  <2>3. QED  BY <1>1, <2>1, <2>2, LimitsAssumption DEF Settled
<1>7. QED  BY <1>4, <1>5, <1>6 DEF ReadingInv, RestedInv

LEMMA ReadingStep == TypeInv /\ TypeInv' /\ ReadingInv /\ [Next]_vars => ReadingInv'
<1> SUFFICES ASSUME TypeInv, TypeInv', ReadingInv, [Next]_vars PROVE ReadingInv'
  OBVIOUS
<1>1. ASSUME NEW n \in 1..Len(stream), Read(n) PROVE ReadingInv'
  BY <1>1, ReadStep
<1>2. CASE Flushed
  BY <1>2, ParkedStep DEF Flushed, peerVars
<1>3. CASE Close
  BY <1>3, ParkedStep DEF Close, peerVars
<1>4. CASE Parse
  BY <1>4, ParseStep DEF Parse, peerVars
<1>5. CASE BadRequest
  <2>1. Settled /\ UNCHANGED <<input, parser, taken, stream, arrived>>
    BY <1>5 DEF BadRequest, Parsing, Settled, peerVars
  <2>2. QED  BY <2>1, ParkedStep
<1>6. CASE Take
  BY <1>6, TakeStep
<1>7. ASSUME NEW i \in 1..Len(jobs), Handle(i) PROVE ReadingInv'
  BY <1>7, ParkedStep DEF Handle, peerVars
<1>8. CASE RunPosted
  BY <1>8, ParkedStep DEF RunPosted, peerVars
<1>9. CASE UNCHANGED vars
  BY <1>9, ParkedStep DEF vars, peerVars
<1>10. QED
  BY <1>1, <1>2, <1>3, <1>4, <1>5, <1>6, <1>7, <1>8, <1>9
  DEF Next, Callback, Limited, Offload, Respond

\* The unread bytes are the last that have come.
LEMMA SuffixIs == TypeInv => IsSuffix(input, SubSeq(stream, 1, arrived))
<1> SUFFICES ASSUME TypeInv PROVE IsSuffix(input, SubSeq(stream, 1, arrived))
  OBVIOUS
<1>1. PICK a \in Nat, l \in Nat, d \in Nat : a = arrived /\ l = Len(input) /\ d = a - l /\ d + l = a /\ a <= Len(stream)
  <2>1. Len(stream) \in Nat
    BY LenProperties DEF TypeInv, InputInv
  <2>2. PICK a \in Nat, l \in Nat : a = arrived /\ l = Len(input) /\ l <= a /\ a <= Len(stream)
    BY <2>1 DEF TypeInv, InputInv
  <2>3. a - l \in Nat /\ (a - l) + l = a
    BY <2>2
  <2>4. QED  BY <2>2, <2>3
<1>2. input = Piece(stream, d, l)
  BY <1>1 DEF TypeInv, InputInv
<1>3. IsPart(input, d, l)
  BY <1>1, <1>2, PartIs
<1>4. PICK t : t = SubSeq(stream, 1, arrived) /\ IsPart(t, 0, a)
  <2>1. PICK z \in Nat : z = 0 /\ z + 1 = 1 /\ z + a = a
    OBVIOUS
  <2>2. IsPart(Piece(stream, z, a), z, a)
    BY <1>1, <2>1, PartIs
  <2>3. Piece(stream, z, a) = SubSeq(stream, 1, arrived)
    BY <1>1, <2>1 DEF Piece
  <2>4. QED  BY <2>1, <2>2, <2>3
<1>5. PICK r, q : r = Reverse(input) /\ q = Reverse(t)
  OBVIOUS
<1>6. r = [i \in 1..l |-> input[(l - i) + 1]] /\ q = [i \in 1..a |-> t[(a - i) + 1]]
  BY <1>1, <1>3, <1>4, <1>5 DEF Reverse, IsPart
<1>7. PICK S : input \in Seq(S) /\ t \in Seq(S)
  BY <1>3, <1>4 DEF IsPart
<1>8. /\ \A i \in 1..l : input[i] \in S /\ input[i] = stream[d + i]
      /\ \A i \in 1..a : t[i] \in S /\ t[i] = stream[0 + i]
  BY <1>3, <1>4, <1>7, ElementOfSeq DEF IsPart
<1>9. \A i \in 1..l : (l - i) + 1 \in 1..l
  OBVIOUS
<1>10. \A i \in 1..a : (a - i) + 1 \in 1..a
  OBVIOUS
<1>11. r \in Seq(S) /\ Len(r) = l /\ q \in Seq(S) /\ Len(q) = a
  <2>1. r \in [1..l -> S] /\ q \in [1..a -> S]
    BY <1>6, <1>8, <1>9, <1>10
  <2>2. QED  BY <2>1, SeqDef
<1>12. \A i \in 1..l : r[i] = q[i]
  <2>1. TAKE i \in 1..l
  <2>2. i \in 1..a /\ (l - i) + 1 \in 1..l /\ (a - i) + 1 \in 1..a /\ d + ((l - i) + 1) = 0 + ((a - i) + 1)
    BY <1>1
  <2>3. r[i] = stream[d + ((l - i) + 1)]
    BY <1>6, <1>8, <2>2
  <2>4. q[i] = stream[0 + ((a - i) + 1)]
    BY <1>6, <1>8, <2>2
  <2>5. QED  BY <2>2, <2>3, <2>4
<1>13. SubSeq(r, 1, l) = SubSeq(q, 1, l)
  <2>1. PICK z \in Nat : z + 1 = 1 /\ z + l = l /\ z + l <= Len(r) /\ z + l <= Len(q) /\ \A k \in 1..l : z + k = k
    <3>1. PICK z \in Nat : z = 0
      OBVIOUS
    <3>2. z + 1 = 1 /\ z + l = l /\ \A k \in 1..l : z + k = k
      BY <3>1
    <3>3. l <= Len(r) /\ l <= Len(q)
      BY <1>1, <1>11
    <3>4. QED  BY <3>2, <3>3
  <2>2. PICK u, v : u = Piece(r, z, l) /\ v = Piece(q, z, l)
    OBVIOUS
  <2>3. u \in Seq(S) /\ Len(u) = l /\ \A k \in 1..l : u[k] = r[z + k]
    <3>1. r \in Seq(S) /\ z + l <= Len(r)
      BY <1>11, <2>1
    <3>2. /\ Piece(r, z, l) \in Seq(S) /\ Len(Piece(r, z, l)) = l
          /\ \A k \in 1..l : Piece(r, z, l)[k] = r[z + k]
      BY <3>1, PieceIs
    <3>3. QED  BY <2>2, <3>2
  <2>4. v \in Seq(S) /\ Len(v) = l /\ \A k \in 1..l : v[k] = q[z + k]
    <3>1. q \in Seq(S) /\ z + l <= Len(q)
      BY <1>11, <2>1
    <3>2. /\ Piece(q, z, l) \in Seq(S) /\ Len(Piece(q, z, l)) = l
          /\ \A k \in 1..l : Piece(q, z, l)[k] = q[z + k]
      BY <3>1, PieceIs
    <3>3. QED  BY <2>2, <3>2
  <2>5. \A k \in 1..l : u[k] = v[k]
    BY <1>12, <2>1, <2>3, <2>4
  <2>6. u = v
    BY <2>3, <2>4, <2>5, SeqEqual
  <2>7. QED  BY <2>1, <2>2, <2>6 DEF Piece
<1>14. IsPrefix(r, q)
  BY <1>1, <1>11, <1>13 DEF IsPrefix
<1>15. QED  BY <1>4, <1>5, <1>14 DEF IsSuffix

LEMMA ReadingMeans == TypeInv /\ ReadingInv => FragmentsDoNotMatter
<1> SUFFICES ASSUME TypeInv, ReadingInv PROVE FragmentsDoNotMatter
  OBVIOUS
<1>0. PastInv /\ NowInv /\ RestedInv
  BY DEF ReadingInv
<1>1. TypeOK
  BY SuffixIs DEF TypeOK, TypeInv, InputInv, ParserInv, Parsers, States, AnswersInv
<1>2. /\ Now \in Nat /\ Done \in Nat /\ Now <= Done /\ Done <= arrived /\ arrived \in Nat
      /\ arrived <= Len(stream) /\ Len(stream) \in Nat
      /\ Len(input) \in Nat /\ Len(Eaten) \in Nat /\ Len(All) = Len(Eaten) + Len(input) /\ Extends(All, Eaten)
  BY <1>0, View
<1>3. ASSUME NEW n \in DOMAIN taken
      PROVE  /\ IsWhole(From(n))
             /\ taken[n].line = From(n)[1] /\ taken[n].keepAlive = KeepsAlive(From(n))
             /\ taken[n].end = Begin(n) + (HeadSize(From(n)) + BodySize(From(n)))
  <2>1. PICK h \in Nat, d \in Nat, a \in Nat :
           h = Begin(n) /\ d = taken[n].end /\ a = arrived /\ h <= d /\ d <= a /\ a <= Len(stream)
    <3>1. Begin(n) \in Nat /\ taken[n].end \in Nat
      BY BeginIs
    <3>2. Begin(n) <= taken[n].end /\ taken[n].end <= Done
      BY <1>0 DEF PastInv
    <3>3. QED  BY <1>2, <3>1, <3>2
  <2>2. PICK x \in Nat, y \in Nat : x = d - h /\ y = a - h /\ x <= y /\ h + y = a /\ h + x = d
    <3>1. h <= d /\ d <= a
      BY <2>1
    <3>2. d - h \in Nat /\ a - h \in Nat /\ d - h <= a - h /\ h + (a - h) = a /\ h + (d - h) = d
      BY <3>1
    <3>3. QED  BY <3>2
  <2>3. PICK w, f : w = Piece(stream, h, x) /\ f = Piece(stream, h, y)
    OBVIOUS
  <2>4. From(n) = f
    BY <2>1, <2>2, <2>3 DEF From, Piece
  <2>5. Extends(f, w)
    BY <2>1, <2>2, <2>3, PartExtends
  <2>6. Len(w) = x /\ Len(f) = y
    <3>1. h + x <= Len(stream) /\ h + y <= Len(stream)
      <4>1. d <= Len(stream) /\ a <= Len(stream)
        BY <1>2, <2>1
      <4>2. QED  BY <2>2, <4>1
    <3>2. IsPart(w, h, x) /\ IsPart(f, h, y)
      BY <2>3, <3>1, PartIs
    <3>3. QED  BY <3>2 DEF IsPart
  <2>7. IsMessage(w) /\ taken[n].line = w[1] /\ taken[n].keepAlive = KeepsAlive(w)
    BY <1>0, <2>1, <2>2, <2>3 DEF PastInv
  <2>8. HasHead(w) /\ ~IsBad(w) /\ x = HeadSize(w) + BodySize(w) /\ Breaks(w) # {}
    BY <2>6, <2>7 DEF IsMessage, IsWhole, HasHead, HeadEnds
  <2>9. SameHead(f, w) /\ ~IsBad(f)
    BY <2>5, <2>8, HeadStays, WholeHeadSettles
  <2>10. /\ HasHead(f) /\ HeadSize(f) + BodySize(f) = x
         /\ f[1] = w[1] /\ KeepsAlive(f) = KeepsAlive(w)
    BY <2>8, <2>9 DEF SameHead
  <2>11. IsWhole(f)
    BY <2>2, <2>6, <2>9, <2>10 DEF IsWhole
  <2>12. QED  BY <2>1, <2>2, <2>4, <2>7, <2>10, <2>11
<1>4. ASSUME io = "idle", ~LeftUnread
      PROVE  (parser.state = "error" <=> IsBad(From(Len(taken) + 1))) /\ ~IsWhole(From(Len(taken) + 1))
  <2>1. From(Len(taken) + 1) = All
    <3>1. Now + (arrived - Now) = arrived
      BY <1>2
    <3>2. QED  BY <3>1 DEF From, All, Piece, Now
  <2>2. Settled
    BY <1>0, <1>4 DEF RestedInv
  <2>3. parser.state \in {"requestLine", "headers", "body", "error"}
    BY <2>2 DEF Settled, TypeInv, ParserInv, Parsers, States
  <2>4. CASE parser.state = "error"
    BY <1>0, <2>1, <2>4 DEF NowInv, IsWhole
  <2>5. CASE parser.state \in {"requestLine", "headers"}
    <3>1. HeadSoFar(Eaten) /\ ~IsBad(Eaten)
      BY <1>0, <2>5, NothingEaten DEF NowInv, AtLine, InHeaders
    <3>2. ~HasLine /\ ~(Len(input) > MaxHeaderBytes)
      BY <1>2, <2>2, <2>5, LimitsAssumption DEF Settled
    <3>3. ~HasHead(All) /\ ~IsBad(All)
      BY <1>0, <3>1, <3>2, NoNextLine
    <3>4. QED  BY <2>1, <2>5, <3>3 DEF IsWhole
  <2>6. CASE parser.state = "body"
    <3>1. HasHead(Eaten) /\ HeadSize(Eaten) = Len(Eaten) /\ ~IsBad(Eaten) /\ parser.contentLength = BodySize(Eaten)
      BY <1>0, <2>6 DEF NowInv, InBody
    <3>2. SameHead(All, Eaten) /\ ~IsBad(All)
      BY <1>2, <3>1, HeadStays, WholeHeadSettles
    <3>3. HeadSize(All) = Len(Eaten) /\ BodySize(All) = parser.contentLength
      BY <3>1, <3>2 DEF SameHead
    <3>4. Len(input) < parser.contentLength /\ parser.contentLength \in Nat
      BY <2>2, <2>6 DEF Settled, TypeInv, ParserInv, Parsers
    <3>5. PICK c \in Nat, l \in Nat, k \in Nat : c = Len(Eaten) /\ l = Len(input) /\ k = parser.contentLength
      BY <1>2, <3>4
    <3>6. ~(c + l >= c + k)
      BY <3>4, <3>5
    <3>7. ~IsWhole(All)
      BY <1>2, <3>3, <3>5, <3>6 DEF IsWhole
    <3>8. QED  BY <2>1, <2>6, <3>2, <3>7
  <2>7. QED  BY <2>3, <2>4, <2>5, <2>6
<1>5. \A n \in DOMAIN taken :
         /\ Request(From(n)).line = From(n)[1] /\ Request(From(n)).keepAlive = KeepsAlive(From(n))
         /\ Request(From(n)).size = HeadSize(From(n)) + BodySize(From(n))
  BY DEF Request
<1>6. QED  BY <1>1, <1>3, <1>4, <1>5 DEF FragmentsDoNotMatter

-----------------------------------------------------------------------------
(* What is proved.                                                         *)

LEMMA SessionInvariance == Spec => [](TypeInv /\ SessionInv /\ ReadingInv)
<1>1. Init => TypeInv /\ SessionInv /\ ReadingInv
  BY TypeStart, SessionStart, ReadingStart
<1>2. TypeInv /\ SessionInv /\ ReadingInv /\ [Next]_vars => (TypeInv /\ SessionInv /\ ReadingInv)'
  BY TypeStep, SessionStep, ReadingStep
<1>3. QED  BY <1>1, <1>2, PTL DEF Spec

\* Every request is in one place: with a worker, on its way back, answered once or dropped
\* with its connection; and an answer overtakes an earlier one only if a worker had the
\* earlier one and not the later, or if there are two workers (the message callback of
\* main(), workerPool.submit(), runInLoop()).
THEOREM AnswersInOrder == Spec => []AnswersMatchRequests
<1>1. SessionInv => AnswersMatchRequests
  BY DEF SessionInv, AnswersMatchRequests
<1>2. QED  BY <1>1, SessionInvariance, PTL

\* Wherever the stream is cut, the requests taken are the messages that the bytes read so
\* far make up as a whole, and a malformed or oversized one is found as soon as it can be
\* (HttpParser::parse(), takeRequest(), the callback's loop).
THEOREM FragmentsMeanTheWhole == Spec => []FragmentsDoNotMatter
<1>1. TypeInv /\ ReadingInv => FragmentsDoNotMatter
  BY ReadingMeans
<1>2. QED  BY <1>1, SessionInvariance, PTL
=============================================================================
