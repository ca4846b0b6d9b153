------------------------- MODULE AsyncLoggingProofs -------------------------
(***************************************************************************)
(* Proofs about AsyncLogging and the LogFile it writes to, for any number  *)
(* of threads, lines and files: the lines stay in order, the files hold    *)
(* them all, and stop() leaves nothing behind.                             *)
(***************************************************************************)
EXTENDS AsyncLogging, CommonLemmas

-----------------------------------------------------------------------------
(* Sequences of sequences laid end to end.                                 *)

\* f[i] is what the first i of ss come to: the function FlattenSeq() is the last
\* value of.
IsFlat(f, ss, n) == f = [i \in 1..n |-> IF i = 1 THEN ss[i] ELSE f[i - 1] \o ss[i]]
Flat(ss) == CHOOSE f : IsFlat(f, ss, Len(ss))

LEMMA FlattenIsFlat ==
    \A ss : FlattenSeq(ss) = IF Len(ss) = 0 THEN ss ELSE Flat(ss)[Len(ss)]
BY Zenon DEF FlattenSeq, Flat, IsFlat

\* There is such a function for the first n of ss, whatever n.
LEMMA FlatExists ==
    ASSUME NEW ss, NEW n \in Nat
    PROVE  \E f : IsFlat(f, ss, n)
<1> DEFINE bad == {k \in Nat : ~ \E f : IsFlat(f, ss, k)}
<1>1. SUFFICES ASSUME bad # {} PROVE FALSE
  BY Zenon
<1>2. PICK m \in bad : \A k \in bad : m <= k
  BY <1>1, LeastNatural
<1>3. CASE m = 0
  <2> DEFINE f == [i \in 1..0 |-> IF i = 1 THEN ss[i] ELSE ss[i]]
  <2>1. f = [i \in 1..0 |-> IF i = 1 THEN ss[i] ELSE f[i - 1] \o ss[i]]
    OBVIOUS
  <2>2. IsFlat(f, ss, 0)
    BY <2>1 DEF IsFlat
  <2>3. QED  BY <1>2, <1>3, <2>2
<1>4. CASE m # 0
  <2>1. m - 1 \in Nat /\ m - 1 \notin bad
    BY <1>2, <1>4
  <2>2. PICK f : IsFlat(f, ss, m - 1)
    BY <2>1
  <2> DEFINE last == IF m = 1 THEN ss[m] ELSE f[m - 1] \o ss[m]
             g == [i \in 1..m |-> IF i = m THEN last ELSE f[i]]
  <2>3. ASSUME NEW i \in 1..m
        PROVE  g[i] = IF i = 1 THEN ss[i] ELSE g[i - 1] \o ss[i]
    <3>1. CASE i = m
      <4>1. i # 1 => i - 1 \in 1..m /\ i - 1 # m
        BY <1>4
      <4>2. i # 1 => g[i - 1] = f[i - 1]
        BY <4>1
      <4>3. QED  BY <3>1, <4>2
    <3>2. CASE i # m
      <4>1. i \in 1..(m - 1) /\ (i # 1 => i - 1 \in 1..m /\ i - 1 # m)
        BY <2>1, <3>2
      <4>2. f[i] = IF i = 1 THEN ss[i] ELSE f[i - 1] \o ss[i]
        BY <2>2, <4>1 DEF IsFlat
      <4>3. i # 1 => g[i - 1] = f[i - 1]
        BY <4>1
      <4>4. QED  BY <3>2, <4>2, <4>3
    <3>3. QED  BY <3>1, <3>2
  <2>4. g = [i \in 1..m |-> g[i]]
    OBVIOUS
  <2> HIDE DEF g
  <2>5. IsFlat(g, ss, m)
    BY <2>3, <2>4 DEF IsFlat
  <2>6. QED  BY <1>2, <2>5
<1>5. QED  BY <1>3, <1>4

\* Its values, one after the other.
LEMMA FlatValues ==
    ASSUME NEW S, NEW ss \in Seq(Seq(S))
    PROVE  /\ \A i \in 1..Len(ss) :
                 /\ Flat(ss)[i] = IF i = 1 THEN ss[i] ELSE Flat(ss)[i - 1] \o ss[i]
                 /\ Flat(ss)[i] \in Seq(S)
           /\ FlattenSeq(ss) \in Seq(S)
<1> DEFINE f == Flat(ss)
           n == Len(ss)
           bad == {k \in 1..n : f[k] \notin Seq(S)}
<1>0. n \in Nat /\ (n = 0 => ss = <<>>) /\ \A i \in 1..n : ss[i] \in Seq(S)
  BY LenProperties, EmptySeq
<1>1. IsFlat(f, ss, n)
  BY <1>0, FlatExists DEF Flat
<1>2. \A i \in 1..n : f[i] = IF i = 1 THEN ss[i] ELSE f[i - 1] \o ss[i]
  BY <1>1, Zenon DEF IsFlat
<1> HIDE DEF f
<1>3. bad = {}
  <2>0. SUFFICES ASSUME bad # {} PROVE FALSE
    OBVIOUS
  <2>1. bad \in SUBSET Nat
    BY <1>0
  <2>2. PICK m \in bad : \A k \in bad : m <= k
    BY <2>0, <2>1, LeastNatural, Zenon
  <2>3. m \in 1..n /\ ss[m] \in Seq(S) /\ f[m] \notin Seq(S)
    BY <1>0
  <2>4. m # 1
    BY <1>2, <2>3
  <2>5. m - 1 \in 1..n /\ m - 1 \notin bad
    BY <1>0, <2>2, <2>3, <2>4
  <2>6. f[m - 1] \in Seq(S) /\ f[m] = f[m - 1] \o ss[m]
    BY <1>2, <2>3, <2>4, <2>5
  <2>7. QED  BY <2>3, <2>6, ConcatProperties
<1>4. \A i \in 1..n : f[i] \in Seq(S)
  BY <1>3
<1>5. FlattenSeq(ss) = IF n = 0 THEN ss ELSE f[n]
  BY FlattenIsFlat DEF f
<1>6. FlattenSeq(ss) \in Seq(S)
  BY <1>0, <1>4, <1>5
<1>7. QED  BY <1>2, <1>4, <1>6 DEF f

\* One more at the end.
LEMMA FlattenAppend ==
    ASSUME NEW S, NEW ss \in Seq(Seq(S)), NEW s \in Seq(S)
    PROVE  FlattenSeq(Append(ss, s)) = FlattenSeq(ss) \o s
<1> DEFINE tt == Append(ss, s)
           n == Len(ss)
           f == Flat(ss)
           g == Flat(tt)
           bad == {k \in 1..n : g[k] # f[k]}
<1>0. /\ n \in Nat /\ Len(tt) = n + 1 /\ tt \in Seq(Seq(S)) /\ tt[n + 1] = s
      /\ \A i \in 1..n : tt[i] = ss[i]
      /\ n = 0 => ss = <<>>
  BY AppendProperties, LenProperties, EmptySeq
<1> HIDE DEF tt
<1>1. \A i \in 1..n : f[i] = IF i = 1 THEN ss[i] ELSE f[i - 1] \o ss[i]
  BY FlatValues
<1>2. \A i \in 1..(n + 1) : g[i] = IF i = 1 THEN tt[i] ELSE g[i - 1] \o tt[i]
  BY <1>0, FlatValues, ZenonT(60)
<1>3. /\ FlattenSeq(ss) = IF n = 0 THEN ss ELSE f[n]
      /\ FlattenSeq(tt) = g[n + 1]
  BY <1>0, FlattenIsFlat
<1> HIDE DEF f, g
<1>4. bad = {}
  <2>0. SUFFICES ASSUME bad # {} PROVE FALSE
    OBVIOUS
  <2>1. bad \in SUBSET Nat
    BY <1>0
  <2>2. PICK m \in bad : \A k \in bad : m <= k
    BY <2>0, <2>1, LeastNatural, Zenon
  <2>3. m \in 1..n /\ m \in 1..(n + 1) /\ g[m] # f[m] /\ tt[m] = ss[m]
    BY <1>0
  <2>4. m # 1
    BY <1>1, <1>2, <2>3
  <2>5. m - 1 \in 1..n /\ m - 1 \notin bad
    BY <1>0, <2>2, <2>3, <2>4
  <2>6. g[m - 1] = f[m - 1]
    BY <2>5
  <2>7. QED  BY <1>1, <1>2, <2>3, <2>4, <2>6
<1>5. CASE n = 0
  <2>1. g[1] = s
    BY <1>0, <1>2, <1>5
  <2>2. QED  BY <1>0, <1>3, <1>5, <2>1, ConcatEmptySeq DEF tt
<1>6. CASE n # 0
  <2>1. n \in 1..n /\ n + 1 \in 1..(n + 1) /\ n + 1 # 1 /\ (n + 1) - 1 = n
    BY <1>0, <1>6
  <2>2. g[n + 1] = g[n] \o s /\ g[n] = f[n]
    BY <1>0, <1>2, <1>4, <2>1
  <2>3. QED  BY <1>3, <1>6, <2>2 DEF tt
<1>7. QED  BY <1>5, <1>6

LEMMA Associates ==
    ASSUME NEW S
    PROVE  \A a, b, c \in Seq(S) : a \o (b \o c) = (a \o b) \o c
<1>1. SUFFICES ASSUME NEW a \in Seq(S), NEW b \in Seq(S), NEW c \in Seq(S)
               PROVE  a \o (b \o c) = (a \o b) \o c
  OBVIOUS
<1>2. (a \o b) \o c = a \o (b \o c)
  BY ConcatAssociative, SMTT(30)
<1>3. QED  BY <1>2

\* The first one taken off.
LEMMA FlattenTail ==
    ASSUME NEW S, NEW ss \in Seq(Seq(S)), ss # <<>>
    PROVE  /\ ss[1] \in Seq(S) /\ Tail(ss) \in Seq(Seq(S))
           /\ FlattenSeq(ss) = ss[1] \o FlattenSeq(Tail(ss))
<1> DEFINE tt == Tail(ss)
           n == Len(ss)
           f == Flat(ss)
           g == Flat(tt)
           h == [k \in 1..(n - 1) |-> ss[1] \o g[k]]
           bad == {k \in 1..(n - 1) : f[k + 1] # h[k]}
<1>0. /\ n \in Nat /\ n >= 1 /\ Len(tt) = n - 1 /\ tt \in Seq(Seq(S))
      /\ \A i \in 1..(n - 1) : tt[i] = ss[i + 1] /\ tt[i] \in Seq(S)
      /\ n = 1 => tt = <<>>
      /\ ss[1] \in Seq(S)
  <2>1. n \in Nat /\ n >= 1 /\ Len(tt) = n - 1 /\ tt \in Seq(Seq(S))
    BY LenProperties, EmptySeq, HeadTailProperties
  <2>2. \A i \in 1..(n - 1) : tt[i] = ss[i + 1] /\ tt[i] \in Seq(S)
    BY <2>1, LenProperties, HeadTailProperties
  <2>3. n = 1 => tt = <<>>
    <3>1. n = 1 => Len(tt) = 0
      BY <2>1
    <3>2. QED  BY <2>1, <3>1, EmptySeq, Zenon
  <2>4. ss[1] \in Seq(S)
    BY <2>1, LenProperties
  <2>5. QED  BY <2>1, <2>2, <2>3, <2>4
<1> HIDE DEF tt
<1>1. \A i \in 1..n : f[i] = IF i = 1 THEN ss[i] ELSE f[i - 1] \o ss[i]
  BY FlatValues
<1>2. \A i \in 1..(n - 1) : /\ g[i] = IF i = 1 THEN tt[i] ELSE g[i - 1] \o tt[i]
                            /\ g[i] \in Seq(S)
  BY <1>0, FlatValues
<1>3. /\ FlattenSeq(ss) = f[n]
      /\ FlattenSeq(tt) = IF n = 1 THEN tt ELSE g[n - 1]
  BY <1>0, FlattenIsFlat
<1>n. n \in Nat /\ n >= 1
  BY <1>0
<1>h. \A k \in 1..(n - 1) : h[k] = ss[1] \o g[k]
  OBVIOUS
<1> HIDE DEF f, g, h, n
<1>a. \A a, b, c \in Seq(S) : a \o (b \o c) = (a \o b) \o c
  BY Associates, SMTT(30)
<1>4. bad = {}
  <2>0. SUFFICES ASSUME bad # {} PROVE FALSE
    OBVIOUS
  <2>1. bad \in SUBSET Nat
    BY <1>n
  <2>2. PICK m \in bad : \A k \in bad : m <= k
    BY <2>0, <2>1, LeastNatural, Zenon
  <2>3. /\ m \in 1..(n - 1) /\ m \in 1..n /\ m + 1 \in 1..n /\ m + 1 # 1 /\ (m + 1) - 1 = m
        /\ f[m + 1] # h[m] /\ tt[m] = ss[m + 1]
    BY <1>0, <1>n
  <2>4. f[m + 1] = f[m] \o tt[m]
    BY <1>1, <2>3
  <2>5. m # 1
    <3>1. m = 1 => f[m] = ss[m] /\ g[m] = tt[m] /\ h[m] = ss[1] \o g[m]
      BY <1>1, <1>h, <1>2, <2>3
    <3>2. QED  BY <2>3, <2>4, <3>1
  <2>6. m - 1 \in 1..(n - 1) /\ m - 1 \notin bad /\ (m - 1) + 1 = m
    BY <1>n, <2>2, <2>3, <2>5
  <2>7. f[m] = ss[1] \o g[m - 1]
    BY <1>h, <2>6
  <2>8. g[m] = g[m - 1] \o tt[m] /\ g[m - 1] \in Seq(S) /\ tt[m] \in Seq(S)
    BY <1>0, <1>2, <2>3, <2>5, <2>6
  <2>9. ss[1] \o (g[m - 1] \o tt[m]) = (ss[1] \o g[m - 1]) \o tt[m]
    BY <1>0, <1>a, <2>8, Zenon
  <2>10. QED  BY <1>h, <2>3, <2>4, <2>7, <2>8, <2>9
<1>5. CASE n = 1
  <2>1. f[1] = ss[1]
    BY <1>0, <1>1
  <2>2. QED  BY <1>0, <1>3, <1>5, <2>1, ConcatEmptySeq DEF tt
<1>6. CASE n # 1
  <2>1. n - 1 \in 1..(n - 1) /\ (n - 1) + 1 = n
    BY <1>0, <1>6
  <2>2. f[n] = ss[1] \o g[n - 1]
    BY <1>4, <1>h, <2>1
  <2>3. QED  BY <1>0, <1>3, <1>6, <2>2 DEF tt
<1>7. QED  BY <1>5, <1>6

-----------------------------------------------------------------------------
(* The lines on their way: n of them in order, in the file, in the buffers *)
(* to write, in the full ones and in the current one.                      *)

Numbers(n) == [i \in 1..n |-> i]
InOrder(f, w, b, c, n) == Numbers(n) = f \o FlattenSeq(w) \o FlattenSeq(b) \o c

LEMMA NextNumber ==
    ASSUME NEW n \in Nat
    PROVE  Numbers(n + 1) = Append(Numbers(n), n + 1)
<1>1. Numbers(n) \in Seq(Nat) /\ Len(Numbers(n)) = n
  BY DEF Numbers
<1>2. Numbers(n + 1) \in Seq(Nat) /\ Len(Numbers(n + 1)) = n + 1
  BY DEF Numbers
<1>3. Append(Numbers(n), n + 1) \in Seq(Nat) /\ Len(Append(Numbers(n), n + 1)) = n + 1
  BY <1>1, AppendProperties
<1>4. ASSUME NEW i \in 1..(n + 1)
      PROVE  Numbers(n + 1)[i] = Append(Numbers(n), n + 1)[i]
  BY <1>1, AppendProperties DEF Numbers
<1>5. QED  BY <1>2, <1>3, <1>4, SeqEqual

LEMMA Chains ==
    ASSUME NEW S
    PROVE  /\ \A a, b \in Seq(S) : a \o b \in Seq(S)
           /\ \A a \in Seq(S) : a \o <<>> = a /\ <<>> \o a = a
           /\ \A ss \in Seq(Seq(S)) : FlattenSeq(ss) \in Seq(S)
           /\ <<>> \in Seq(S) /\ <<>> \in Seq(Seq(S))
           /\ FlattenSeq(<<>>) = <<>>
<1>1. \A a, b \in Seq(S) : a \o b \in Seq(S)
  BY ConcatProperties
<1>2. \A a \in Seq(S) : a \o <<>> = a /\ <<>> \o a = a
  BY ConcatEmptySeq
<1>3. \A ss \in Seq(Seq(S)) : FlattenSeq(ss) \in Seq(S)
  BY FlatValues
<1>4. FlattenSeq(<<>>) = <<>>
  BY FlattenIsFlat
<1>5. QED  BY <1>1, <1>2, <1>3, <1>4

\* One more line, or one buffer more, at the end of a chain.
AtTheEnd(x, c, e) == Append(x \o c, e) = x \o Append(c, e)

LEMMA AppendChain ==
    ASSUME NEW S, NEW x \in Seq(S), NEW c \in Seq(S), NEW e \in S
    PROVE  AtTheEnd(x, c, e)
BY DEF AtTheEnd

Regroups(x, y, c) == x \o (y \o c) = (x \o y) \o c

LEMMA Regroup ==
    ASSUME NEW S
    PROVE  \A x, y, c \in Seq(S) : Regroups(x, y, c)
BY ConcatAssociative DEF Regroups

LEMMA RegroupChain ==
    ASSUME NEW S
    PROVE  \A x, y, c \in Seq(S) :
              /\ (x \o y) \o c = (x \o (y \o c)) \o <<>>
              /\ (x \o y) \o c = ((x \o (y \o c)) \o <<>>) \o <<>>
              /\ x \o (y \o c) = (x \o y) \o c
<1> SUFFICES ASSUME NEW x \in Seq(S), NEW y \in Seq(S), NEW c \in Seq(S)
             PROVE  /\ (x \o y) \o c = (x \o (y \o c)) \o <<>>
                    /\ (x \o y) \o c = ((x \o (y \o c)) \o <<>>) \o <<>>
                    /\ x \o (y \o c) = (x \o y) \o c
  OBVIOUS
<1>1. y \o c \in Seq(S)
  BY ConcatProperties
<1>2. x \o (y \o c) \in Seq(S)
  BY <1>1, ConcatProperties
<1>3. (x \o y) \o c = x \o (y \o c)
  BY ConcatAssociative, SMTT(30)
<1>4. (x \o (y \o c)) \o <<>> = x \o (y \o c)
  BY <1>2, ConcatEmptySeq
<1>5. QED  BY <1>3, <1>4

\* append(): a line more in the current buffer.
LEMMA LineAdded ==
    ASSUME NEW S, NEW f \in Seq(S), NEW w \in Seq(Seq(S)), NEW b \in Seq(Seq(S)),
           NEW c \in Seq(S), NEW n, NEW e \in S, InOrder(f, w, b, c, n),
           Numbers(e) = Append(Numbers(n), e)
    PROVE  InOrder(f, w, b, Append(c, e), e)
<1>1. f \o FlattenSeq(w) \o FlattenSeq(b) \in Seq(S)
  BY Chains, Zenon
<1>2. PICK x \in Seq(S) : x = f \o FlattenSeq(w) \o FlattenSeq(b)
  BY <1>1, Zenon
<1>3. Append(x \o c, e) = x \o Append(c, e)
  <2>1. AtTheEnd(x, c, e)
    BY AppendChain, Zenon
  <2>2. QED  BY <2>1, Zenon DEF AtTheEnd
<1>4. Numbers(n) = x \o c
  BY <1>2, Zenon DEF InOrder
<1>5. Numbers(e) = x \o Append(c, e)
  BY <1>3, <1>4, Zenon
<1>6. QED  BY <1>2, <1>5, Zenon DEF InOrder

\* The current buffer handed over to the full ones.
LEMMA BufferHanded ==
    ASSUME NEW S, NEW f \in Seq(S), NEW w \in Seq(Seq(S)), NEW b \in Seq(Seq(S)),
           NEW c \in Seq(S), NEW n \in Nat, InOrder(f, w, b, c, n)
    PROVE  InOrder(f, w, Append(b, c), <<>>, n)
<1>1. f \o FlattenSeq(w) \in Seq(S) /\ FlattenSeq(b) \in Seq(S)
  BY Chains, Zenon
<1>2. PICK x \in Seq(S) : x = f \o FlattenSeq(w)
  BY <1>1, Zenon
<1>3. PICK y \in Seq(S) : y = FlattenSeq(b)
  BY <1>1, Zenon
<1>4. Numbers(n) = (x \o y) \o c
  BY <1>2, <1>3, Zenon DEF InOrder
<1>5. FlattenSeq(Append(b, c)) = y \o c
  BY <1>3, FlattenAppend, Zenon
<1>6. (x \o y) \o c = (x \o (y \o c)) \o <<>>
  BY RegroupChain
<1>7. QED  BY <1>2, <1>4, <1>5, <1>6, Zenon DEF InOrder

\* All of them taken to be written.
LEMMA BuffersTaken ==
    ASSUME NEW S, NEW f \in Seq(S), NEW b \in Seq(Seq(S)),
           NEW c \in Seq(S), NEW n \in Nat, InOrder(f, <<>>, b, c, n)
    PROVE  InOrder(f, Append(b, c), <<>>, <<>>, n)
<1>0. PICK y \in Seq(S) : y = FlattenSeq(b)
  BY Chains, Zenon
<1>1. Numbers(n) = ((f \o FlattenSeq(<<>>)) \o y) \o c
  BY <1>0, Zenon DEF InOrder
<1>2. FlattenSeq(Append(b, c)) = y \o c
  BY <1>0, FlattenAppend, Zenon
<1>3. FlattenSeq(<<>>) = <<>> /\ f \o <<>> = f
  BY Chains, Zenon
<1>4. (f \o y) \o c = ((f \o (y \o c)) \o <<>>) \o <<>>
  BY RegroupChain
<1>5. Numbers(n) = (f \o y) \o c
  BY <1>1, <1>3, Zenon
<1>6. QED  BY <1>2, <1>3, <1>4, <1>5, Zenon DEF InOrder

\* The first of the buffers written.
LEMMA BufferWritten ==
    ASSUME NEW S, NEW f \in Seq(S), NEW w \in Seq(Seq(S)), NEW b \in Seq(Seq(S)),
           NEW c \in Seq(S), NEW n \in Nat, w # <<>>, InOrder(f, w, b, c, n)
    PROVE  /\ w[1] \in Seq(S) /\ Tail(w) \in Seq(Seq(S)) /\ f \o w[1] \in Seq(S)
           /\ InOrder(f \o w[1], Tail(w), b, c, n)
<1>1. /\ w[1] \in Seq(S) /\ Tail(w) \in Seq(Seq(S))
      /\ FlattenSeq(w) = w[1] \o FlattenSeq(Tail(w))
  BY FlattenTail, Zenon
<1>2. PICK h \in Seq(S) : h = w[1]
  BY <1>1, Zenon
<1>3. PICK r \in Seq(S) : r = FlattenSeq(Tail(w))
  BY <1>1, Chains, Zenon
<1>4. Regroups(f, h, r)
  BY Regroup, Zenon
<1>0. f \o h \in Seq(S)
  BY ConcatProperties, Zenon
<1>5. InOrder(f \o h, Tail(w), b, c, n)
  BY <1>1, <1>2, <1>3, <1>4, Zenon DEF InOrder, Regroups
<1>6. QED  BY <1>0, <1>1, <1>2, <1>5, Zenon

\* Nothing left but the file.
LEMMA AllWritten ==
    ASSUME NEW S, NEW f \in Seq(S), NEW n \in Nat, InOrder(f, <<>>, <<>>, <<>>, n)
    PROVE  f = Numbers(n) /\ Len(f) = n
<1>1. FlattenSeq(<<>>) = <<>> /\ f \o <<>> = f
  BY Chains, Zenon
<1>2. Numbers(n) = ((f \o FlattenSeq(<<>>)) \o FlattenSeq(<<>>)) \o <<>>
  BY Zenon DEF InOrder
<1>3. Numbers(n) = f
  BY <1>1, <1>2, Zenon
<1>4. QED  BY <1>3 DEF Numbers

-----------------------------------------------------------------------------
(* The files.                                                              *)

Times == logFile!Times
LogRecord == [file : Times \cup {Nil}, writtenBytes : Nat, count : Nat,
              lastRoll : Nat, lastFlush : Nat, buffered : Nat]

\* The file: what has been appended is stored, buffered, dropped or lost, and a
\* young file has not been passed over yet.
DiskInv ==
    /\ log \in LogRecord
    /\ logFile!BytesSurvive
    /\ logFile!OldFileIsLeft
    /\ log.file # Nil => /\ log.count < CheckEveryN
                         /\ now - log.lastRoll < RollPeriod => late = 0
    /\ log.file = Nil => late = 0

\* An open file given no more than s bytes: what stdio holds of it, and when it was
\* opened.
Opened(l, s) ==
    /\ l \in LogRecord /\ l.file \in Times
    /\ l.lastRoll <= l.lastFlush /\ l.lastFlush <= now
    /\ l.buffered <= l.writtenBytes /\ l.writtenBytes <= s

LEMMA TimesFinite == IsFiniteSet(Times) /\ Times = 0..MaxTime /\ Nil \notin Times
<1>1. Times = 0..MaxTime
  BY DEF Times, logFile!Times
<1>2. IsFiniteSet(0..MaxTime)
  BY FS_Interval, BoundsAssumption
<1>3. QED  BY <1>1, <1>2, NilAssumption

LEMMA StoredIsSum == logFile!Stored = SumOver(size, Times) /\ logFile!Stored' = SumOver(size', Times)
<1>1. logFile!Stored = SumOver(size, Times)
  BY DEF logFile!Stored, logFile!MapThenSumSet, logFile!MapThenFoldSet, SumOver, Sums, IsSum, Chosen, Times
<1>2. logFile!Stored' = SumOver(size', Times)
  BY DEF logFile!Stored, logFile!MapThenSumSet, logFile!MapThenFoldSet, SumOver, Sums, IsSum, Chosen, Times
<1>3. QED  BY <1>1, <1>2

LEMMA StoredGrows ==
    ASSUME size \in [Times -> Nat], NEW x \in Times, NEW n \in Nat,
           size' \in [Times -> Nat],
           \A y \in Times : size'[y] = IF y = x THEN size[y] + n ELSE size[y]
    PROVE  logFile!Stored' = logFile!Stored + n /\ logFile!Stored \in Nat
<1>1. IsFiniteSet(Times)
  BY TimesFinite
<1>2. SumOver(size', Times) = SumOver(size, Times) + n
  <2>1. Raised(size, size', Times, x, n)
    BY DEF Raised
  <2>2. QED  BY <1>1, <2>1, SumGrows
<1>3. SumOver(size, Times) \in Nat
  BY <1>1, SumTyped DEF SumOver
<1>4. QED  BY <1>2, <1>3, StoredIsSum, Zenon

\* What leaves stdio's buffer is stored or lost.
LEMMA WrittenOutAdds ==
    ASSUME size \in [Times -> Nat], NEW t \in Times, NEW arrived \in Nat,
           size' = [size EXCEPT ![t] = size[t] + arrived]
    PROVE  /\ size' \in [Times -> Nat] /\ size'[t] = size[t] + arrived
           /\ logFile!Stored' = logFile!Stored + arrived /\ logFile!Stored \in Nat
<1>1. size[t] + arrived \in Nat
  OBVIOUS
<1>2. /\ size' \in [Times -> Nat] /\ size'[t] = size[t] + arrived
      /\ \A y \in Times : size'[y] = IF y = t THEN size[y] + arrived ELSE size[y]
  BY <1>1
<1>3. logFile!Stored' = logFile!Stored + arrived /\ logFile!Stored \in Nat
  BY <1>2, StoredGrows, Zenon
<1>4. QED  BY <1>2, <1>3

LEMMA DiskInit == logFile!Init => DiskInv /\ log.buffered = 0 /\ appended = 0
<1> SUFFICES ASSUME logFile!Init
             PROVE  DiskInv /\ log.buffered = 0 /\ appended = 0
  OBVIOUS
<1> USE LogFileAssumption, BoundsAssumption, TimesFinite
<1>1. /\ now = 0 /\ now \in Times
      /\ log \in LogRecord /\ log.file \in {0, Nil} /\ log.writtenBytes = 0 /\ log.count = 0
      /\ log.lastRoll = 0 /\ log.lastFlush = 0 /\ log.buffered = 0
  BY DEF logFile!Init, LogRecord
<1>2. /\ size \in [Times -> Nat] /\ appended = 0 /\ dropped = 0
      /\ lost = 0 /\ late = 0
      /\ \A t \in Times : size[t] = 0
  BY DEF logFile!Init, Times
<1>3. logFile!Stored = 0
  BY <1>2, StoredIsSum, SumOfZeros
<1>4. logFile!TypeOK
  BY <1>1, <1>2 DEF logFile!TypeOK, Times
<1>5. logFile!BytesSurvive
  BY <1>1, <1>2, <1>3, <1>4
     DEF logFile!BytesSurvive, logFile!BytesAccounted, logFile!BufferIsOfOpenFile,
         logFile!OpenFileIsShort
<1>6. QED  BY <1>1, <1>2, <1>5 DEF DiskInv, logFile!OldFileIsLeft

\* The rest, if the file is as before but for what stdio holds of it, and the time.
LEMMA DiskRest ==
    ASSUME DiskInv, now' \in Times, now <= now', log' \in LogRecord,
           log'.file = log.file, log'.writtenBytes = log.writtenBytes, log'.count = log.count,
           log'.lastRoll = log.lastRoll, log'.lastFlush = log.lastFlush,
           log'.buffered <= log.buffered, size' \in [Times -> Nat], lost' \in Nat,
           appended = dropped + lost' + logFile!Stored' + log'.buffered,
           log.file # Nil => log.writtenBytes <= size'[log.file] + log'.buffered + lost',
           UNCHANGED <<appended, dropped, late>>
    PROVE  DiskInv'
<1> USE LogFileAssumption, BoundsAssumption, TimesFinite
<1>1. now \in Nat /\ now' \in Nat /\ log'.buffered \in Nat
  BY DEF DiskInv, LogRecord, logFile!BytesSurvive, logFile!TypeOK, Times
<1>2. /\ log.file \in Times \cup {Nil}
      /\ log.lastRoll \in 0..now /\ log.lastFlush \in log.lastRoll..now
      /\ log.writtenBytes \in Nat /\ log.buffered \in 0..log.writtenBytes
      /\ appended \in Nat /\ dropped \in 0..appended /\ late \in Nat
  BY DEF DiskInv, logFile!BytesSurvive, logFile!TypeOK, Times
<1>3. logFile!TypeOK'
  <2>1. log'.lastRoll \in 0..now'
    BY <1>1, <1>2
  <2>2. log'.lastFlush \in log'.lastRoll..now'
    BY <1>1, <1>2
  <2>3. log'.buffered \in 0..log'.writtenBytes
    BY <1>1, <1>2
  <2>4. QED  BY <1>2, <2>1, <2>2, <2>3 DEF logFile!TypeOK, Times
<1>4. logFile!BytesSurvive'
  <2>1. logFile!BytesAccounted'
    BY DEF logFile!BytesAccounted
  <2>2. /\ log.file = Nil => log.buffered = 0
        /\ log.file # Nil => log.writtenBytes <= RollSize
    BY DEF DiskInv, logFile!BytesSurvive, logFile!BufferIsOfOpenFile, logFile!OpenFileIsShort
  <2>3. log.file = Nil => log'.buffered = 0
    BY <1>1, <2>2
  <2>4. log'.buffered <= log'.writtenBytes
    BY <1>1, <1>2
  <2>5. logFile!BufferIsOfOpenFile' /\ logFile!OpenFileIsShort'
    BY <2>2, <2>3, <2>4 DEF logFile!BufferIsOfOpenFile, logFile!OpenFileIsShort
  <2>6. QED  BY <1>3, <2>1, <2>5 DEF logFile!BytesSurvive
<1>5. now' - log.lastRoll < RollPeriod => now - log.lastRoll < RollPeriod
  BY <1>1, <1>2
<1>6. QED  BY <1>4, <1>5 DEF DiskInv, logFile!OldFileIsLeft

\* What the invariant says of a file that is as before.
LEMMA DiskAsBefore ==
    ASSUME DiskInv, UNCHANGED <<log, size, lost>>
    PROVE  /\ log' \in LogRecord /\ log'.buffered <= log.buffered
           /\ size' \in [Times -> Nat] /\ lost' \in Nat
           /\ appended = dropped + lost' + logFile!Stored' + log'.buffered
           /\ log.file # Nil => log.writtenBytes <= size'[log.file] + log'.buffered + lost'
<1>1. /\ log \in LogRecord /\ log' = log /\ size' = size /\ lost' = lost
      /\ size \in [Times -> Nat] /\ lost \in Nat
      /\ appended = dropped + lost + logFile!Stored + log.buffered
      /\ log.file # Nil => log.writtenBytes <= size[log.file] + log.buffered + lost
  BY DEF DiskInv, logFile!BytesSurvive, logFile!BytesAccounted, logFile!BufferIsOfOpenFile,
         logFile!TypeOK, Times
<1>2. logFile!Stored' = logFile!Stored
  BY <1>1, StoredIsSum
<1>3. log.buffered <= log.buffered
  BY <1>1 DEF LogRecord
<1>4. QED  BY <1>1, <1>2, <1>3

LEMMA DiskFlush ==
    ASSUME DiskInv, logFile!Flush
    PROVE  DiskInv' /\ log'.buffered = 0 /\ UNCHANGED appended
<1>1. /\ now' = now /\ now \in Times /\ now \in Nat
      /\ UNCHANGED <<appended, dropped, late>>
  BY BoundsAssumption, TimesFinite
     DEF DiskInv, logFile!Flush, logFile!BytesSurvive, logFile!TypeOK, Times
<1>2. CASE log.file = Nil
  <2>1. log.buffered = 0 /\ UNCHANGED <<log, size, lost>>
    BY <1>2 DEF DiskInv, logFile!Flush, logFile!BytesSurvive, logFile!BufferIsOfOpenFile
  <2>2. DiskInv'
    BY <1>1, <2>1, DiskAsBefore, DiskRest
  <2>3. QED  BY <1>1, <2>1, <2>2
<1>3. CASE log.file # Nil
  <2>1. /\ log' = [log EXCEPT !.buffered = 0]
        /\ \E failed \in 0..log.buffered :
              /\ size' = [size EXCEPT ![log.file] = @ + (log.buffered - failed)]
              /\ lost' = lost + 0 + failed
    BY <1>3 DEF logFile!Flush, logFile!WrittenOut
  <2>2. /\ log \in LogRecord /\ size \in [Times -> Nat] /\ lost \in Nat
        /\ log.file \in Times /\ log.writtenBytes \in Nat /\ log.buffered \in Nat
        /\ log.writtenBytes <= size[log.file] + log.buffered + lost
        /\ appended = dropped + lost + logFile!Stored + log.buffered
        /\ appended \in Nat /\ dropped \in Nat
    BY <1>3 DEF DiskInv, LogRecord, logFile!BytesSurvive, logFile!BytesAccounted,
                logFile!BufferIsOfOpenFile, logFile!TypeOK, Times
  <2>3. /\ log' \in LogRecord /\ log'.buffered = 0
        /\ log'.file = log.file /\ log'.writtenBytes = log.writtenBytes /\ log'.count = log.count
        /\ log'.lastRoll = log.lastRoll /\ log'.lastFlush = log.lastFlush
    BY <2>1, <2>2 DEF LogRecord
  <2>4. PICK t \in Times, out \in Nat : t = log.file /\ out = log.buffered
    BY <2>2
  <2>5. PICK failed \in 0..out : /\ size' = [size EXCEPT ![t] = size[t] + (out - failed)]
                                /\ lost' = lost + 0 + failed
    BY <2>1, <2>4, Zenon
  <2>6. PICK arrived \in Nat : arrived = out - failed
    OBVIOUS
  <2>7. size' = [size EXCEPT ![t] = size[t] + arrived]
    BY <2>5, <2>6, Zenon
  <2>8. /\ size' \in [Times -> Nat] /\ size'[t] = size[t] + arrived
        /\ logFile!Stored' = logFile!Stored + arrived /\ logFile!Stored \in Nat
    BY <2>2, <2>7, WrittenOutAdds, Zenon
  <2>9. lost' \in Nat /\ log'.buffered <= log.buffered
    BY <2>2, <2>3, <2>5
  <2>10. appended = dropped + lost' + logFile!Stored' + log'.buffered
    BY <2>2, <2>3, <2>4, <2>5, <2>6, <2>8
  <2>11. log.writtenBytes <= size'[log.file] + log'.buffered + lost'
    <3>1. size[t] \in Nat /\ log.writtenBytes <= size[t] + out + lost
      BY <2>2, <2>4
    <3>2. log.writtenBytes <= size'[t] + 0 + lost'
      BY <2>2, <2>5, <2>6, <2>8, <3>1
    <3>3. QED  BY <2>3, <2>4, <3>2
  <2>12. DiskInv'
    BY <1>1, <2>3, <2>8, <2>9, <2>10, <2>11, DiskRest
  <2>13. QED  BY <1>1, <2>3, <2>12
<1>4. QED  BY <1>2, <1>3

LEMMA DiskTick ==
    ASSUME DiskInv, logFile!Tick
    PROVE  DiskInv' /\ UNCHANGED <<log, appended>>
<1>1. /\ UNCHANGED <<log, size, appended, dropped, lost, late>>
      /\ now \in 0..MaxTime /\ now' = now + 1 /\ now < MaxTime
  BY TimesFinite DEF DiskInv, logFile!Tick, logFile!BytesSurvive, logFile!TypeOK, Times
<1>2. now' \in Times /\ now <= now'
  BY <1>1, BoundsAssumption, TimesFinite
<1>3. DiskInv'
  BY <1>1, <1>2, DiskAsBefore, DiskRest
<1>4. QED  BY <1>1, <1>3

LEMMA DiskUnchanged ==
    ASSUME DiskInv, UNCHANGED diskVars
    PROVE  DiskInv'
<1>1. /\ UNCHANGED <<log, size, appended, dropped, lost, late>>
      /\ now \in Times /\ now' = now /\ now \in Nat
  BY BoundsAssumption, TimesFinite
     DEF DiskInv, diskVars, logFile!BytesSurvive, logFile!TypeOK, Times
<1>2. QED  BY <1>1, DiskAsBefore, DiskRest

LEMMA DiskDrop ==
    ASSUME DiskInv, NEW n \in Nat, logFile!Drop(n)
    PROVE  DiskInv' /\ appended' = appended + n
<1>1. /\ log.file = Nil /\ UNCHANGED <<now, log, size, lost, late>>
      /\ appended' = appended + n /\ dropped' = dropped + n
  BY DEF logFile!Drop
<1>2. logFile!Stored' = logFile!Stored
  BY <1>1, StoredIsSum
<1>3. logFile!TypeOK'
  BY <1>1 DEF DiskInv, logFile!BytesSurvive, logFile!TypeOK
<1>4. logFile!BytesAccounted'
  <2>1. logFile!Stored \in Nat
    BY TimesFinite, StoredIsSum, SumTyped
       DEF SumOver, DiskInv, logFile!BytesSurvive, logFile!TypeOK, Times
  <2>2. /\ appended = dropped + lost + logFile!Stored + log.buffered
        /\ appended \in Nat /\ dropped \in Nat /\ lost \in Nat /\ log.buffered \in Nat
    BY DEF DiskInv, LogRecord, logFile!BytesSurvive, logFile!BytesAccounted, logFile!TypeOK
  <2>3. QED  BY <1>1, <1>2, <2>1, <2>2 DEF logFile!BytesAccounted
<1>5. logFile!BytesSurvive'
  BY <1>1, <1>3, <1>4
     DEF DiskInv, logFile!BytesSurvive, logFile!BufferIsOfOpenFile, logFile!OpenFileIsShort
<1>6. QED  BY <1>1, <1>5 DEF DiskInv, logFile!OldFileIsLeft

\* What append() may make of an open file l, given no more than s bytes, when
\* fwrite() takes n more: it stays open, flushed or not, a new one is opened, or
\* none is.
Settled(r, l, s, n) ==
    /\ r \in LogRecord
    /\ r.lastRoll <= r.lastFlush /\ r.lastFlush <= now
    /\ r.buffered <= l.buffered + n
    /\ r.file = Nil => r.buffered = 0
    /\ r.file # Nil =>
          /\ r.buffered <= r.writtenBytes /\ r.writtenBytes <= RollSize
          /\ r.count < CheckEveryN
          /\ \/ /\ r.file = l.file /\ r.writtenBytes <= s + n
                /\ r.lastRoll = l.lastRoll
                /\ r.count = l.count + 1 \/ now - l.lastRoll < RollPeriod
             \/ r.writtenBytes = 0 /\ r.file = now /\ r.lastRoll = now

LEMMA WrittenRecord ==
    ASSUME NEW l \in LogRecord, NEW n \in Nat
    PROVE  LET w == logFile!Written(l, n)
           IN  /\ w \in LogRecord /\ w.file = l.file
               /\ w.writtenBytes = l.writtenBytes + n /\ w.buffered = l.buffered + n
               /\ w.count = l.count + 1 /\ w.lastRoll = l.lastRoll /\ w.lastFlush = l.lastFlush
<1> USE DEF LogRecord
<1>1. \A a, b, c \in Nat :
         LET w == [l EXCEPT !.writtenBytes = a, !.count = b, !.buffered = c]
         IN  /\ w \in LogRecord /\ w.file = l.file
             /\ w.writtenBytes = a /\ w.count = b /\ w.buffered = c
             /\ w.lastRoll = l.lastRoll /\ w.lastFlush = l.lastFlush
  OBVIOUS
<1>2. l.writtenBytes + n \in Nat /\ l.count + 1 \in Nat /\ l.buffered + n \in Nat
  OBVIOUS
<1>3. logFile!Written(l, n) =
         [l EXCEPT !.writtenBytes = l.writtenBytes + n, !.count = l.count + 1,
                   !.buffered = l.buffered + n]
  BY DEF logFile!Written
<1>4. PICK a \in Nat, b \in Nat, c \in Nat :
         a = l.writtenBytes + n /\ b = l.count + 1 /\ c = l.buffered + n
  BY <1>2
<1>5. logFile!Written(l, n) = [l EXCEPT !.writtenBytes = a, !.count = b, !.buffered = c]
  BY <1>3, <1>4, Zenon
<1>6. PICK w : w = [l EXCEPT !.writtenBytes = a, !.count = b, !.buffered = c]
  OBVIOUS
<1>7. /\ w \in LogRecord /\ w.file = l.file
      /\ w.writtenBytes = a /\ w.count = b /\ w.buffered = c
      /\ w.lastRoll = l.lastRoll /\ w.lastFlush = l.lastFlush
  BY <1>1, <1>6, Zenon
<1>8. QED  BY <1>4, <1>5, <1>6, <1>7, Zenon

LEMMA CheckedRecord ==
    ASSUME NEW w \in LogRecord, now \in Nat
    PROVE  LET y == logFile!Checked(w)
           IN  /\ y \in LogRecord /\ y.file = w.file /\ y.lastRoll = w.lastRoll
               /\ y.lastFlush \in {w.lastFlush, now} /\ y.count = 0
               /\ y.writtenBytes = w.writtenBytes /\ y.buffered \in {0, w.buffered}
BY DEF logFile!Checked, LogRecord

LEMMA RolledRecord ==
    ASSUME NEW x \in LogRecord, NEW ok \in BOOLEAN, now \in Times
    PROVE  LET y == logFile!Rolled(x, ok)
           IN  /\ y \in LogRecord /\ y.buffered = 0
               /\ ok => /\ y.file = now /\ y.writtenBytes = 0 /\ y.count = 0
                        /\ y.lastRoll = now /\ y.lastFlush = now
               /\ ~ok => y.file = Nil /\ y.lastRoll = x.lastRoll /\ y.lastFlush = x.lastFlush
<1>1. now \in Nat
  BY BoundsAssumption, TimesFinite
<1>2. CASE ok
  BY <1>1, <1>2 DEF logFile!Rolled, LogRecord
<1>3. CASE ~ok
  <2>1. logFile!Rolled(x, ok) = [x EXCEPT !.file = Nil, !.buffered = 0]
    BY <1>3 DEF logFile!Rolled
  <2>2. LET y == [x EXCEPT !.file = Nil, !.buffered = 0]
        IN  /\ y \in LogRecord /\ y.buffered = 0
            /\ y.file = Nil /\ y.lastRoll = x.lastRoll /\ y.lastFlush = x.lastFlush
    BY DEF LogRecord
  <2>3. QED  BY <1>3, <2>1, <2>2, Zenon
<1>4. QED  BY <1>2, <1>3

\* append() to the open file l, given no more than s bytes.
LEMMA AppendSettles ==
    ASSUME NEW l \in LogRecord, NEW s \in Nat, NEW n \in Nat, NEW ok \in BOOLEAN,
           now \in Times, Opened(l, s), l.count < CheckEveryN
    PROVE  Settled(logFile!AfterWrite(logFile!Written(l, n), ok), l, s, n)
<1> USE LogFileAssumption, BoundsAssumption, TimesFinite
<1>1. now \in Nat /\ now # Nil /\ l.file # Nil
  BY DEF Opened
<1>2. PICK w \in LogRecord :
        /\ w = logFile!Written(l, n) /\ w.file = l.file
        /\ w.writtenBytes = l.writtenBytes + n /\ w.buffered = l.buffered + n
        /\ w.count = l.count + 1 /\ w.lastRoll = l.lastRoll /\ w.lastFlush = l.lastFlush
  BY WrittenRecord, Zenon
<1>3. /\ l.writtenBytes \in Nat /\ l.buffered \in Nat /\ l.count \in Nat
      /\ l.lastRoll \in Nat /\ l.lastFlush \in Nat
      /\ l.lastRoll <= l.lastFlush /\ l.lastFlush <= now
      /\ l.buffered <= l.writtenBytes /\ l.writtenBytes <= s
  BY DEF Opened, LogRecord
<1>4. PICK c \in LogRecord :
        /\ c = logFile!Checked(w) /\ c.file = w.file /\ c.lastRoll = w.lastRoll
        /\ c.lastFlush \in {w.lastFlush, now} /\ c.count = 0
        /\ c.writtenBytes = w.writtenBytes /\ c.buffered \in {0, w.buffered}
  BY <1>1, CheckedRecord, Zenon
<1>5. PICK r : r = logFile!AfterWrite(w, ok)
  OBVIOUS
<1>6. ASSUME NEW x \in {w, c}, r = logFile!Rolled(x, ok)
      PROVE  Settled(r, l, s, n)
  <2>1. x \in LogRecord /\ x.lastRoll <= x.lastFlush /\ x.lastFlush <= now
    BY <1>1, <1>2, <1>3, <1>4
  <2>2. /\ r \in LogRecord /\ r.buffered = 0
        /\ ok => /\ r.file = now /\ r.writtenBytes = 0 /\ r.count = 0
                 /\ r.lastRoll = now /\ r.lastFlush = now
        /\ ~ok => r.file = Nil /\ r.lastRoll = x.lastRoll /\ r.lastFlush = x.lastFlush
    BY <1>6, <2>1, RolledRecord, Zenon
  <2>3. r.buffered <= l.buffered + n
    BY <1>3, <2>2
  <2>4. QED  BY <1>1, <2>1, <2>2, <2>3 DEF Settled
<1>7. CASE w.writtenBytes > RollSize
  <2>1. r = logFile!Rolled(w, ok)
    BY <1>5, <1>7 DEF logFile!AfterWrite
  <2>2. QED  BY <1>2, <1>5, <1>6, <2>1
<1>8. CASE ~(w.writtenBytes > RollSize) /\ w.count < CheckEveryN
  <2>1. r = w
    BY <1>5, <1>8 DEF logFile!AfterWrite
  <2>2. /\ w.writtenBytes <= RollSize /\ w.writtenBytes <= s + n
        /\ w.buffered <= w.writtenBytes
    BY <1>2, <1>3, <1>8
  <2>3. w.buffered <= l.buffered + n /\ w.count = l.count + 1
    BY <1>2, <1>3
  <2>4. w.lastRoll <= w.lastFlush /\ w.lastFlush <= now /\ w.file = l.file /\ w.file # Nil
    BY <1>1, <1>2, <1>3
  <2>5. Settled(w, l, s, n)
    BY <1>2, <1>8, <2>2, <2>3, <2>4 DEF Settled
  <2>6. QED  BY <1>2, <1>5, <2>1, <2>5
<1>9. CASE ~(w.writtenBytes > RollSize) /\ ~(w.count < CheckEveryN) /\ now - w.lastRoll >= RollPeriod
  <2>1. r = logFile!Rolled(c, ok)
    BY <1>4, <1>5, <1>9 DEF logFile!AfterWrite
  <2>2. QED  BY <1>2, <1>5, <1>6, <2>1
<1>10. CASE ~(w.writtenBytes > RollSize) /\ ~(w.count < CheckEveryN) /\ ~(now - w.lastRoll >= RollPeriod)
  <2>1. r = c
    BY <1>4, <1>5, <1>10 DEF logFile!AfterWrite
  <2>2. /\ now - l.lastRoll < RollPeriod /\ c.count < CheckEveryN
        /\ c.writtenBytes <= RollSize /\ c.writtenBytes <= s + n
    BY <1>1, <1>2, <1>3, <1>4, <1>10
  <2>3. /\ c.lastRoll <= c.lastFlush /\ c.lastFlush <= now
        /\ c.buffered <= c.writtenBytes /\ c.buffered <= l.buffered + n
    BY <1>1, <1>2, <1>3, <1>4
  <2>4. c.file = l.file /\ c.lastRoll = l.lastRoll /\ c.file # Nil
    BY <1>1, <1>2, <1>4
  <2>5. Settled(c, l, s, n)
    BY <2>2, <2>3, <2>4 DEF Settled
  <2>6. QED  BY <1>2, <1>5, <2>1, <2>5
<1>11. QED  BY <1>7, <1>8, <1>9, <1>10

LEMMA DiskAppend ==
    ASSUME DiskInv, NEW n \in Nat, logFile!Append_(n)
    PROVE  DiskInv' /\ appended' = appended + n
<1> USE LogFileAssumption, BoundsAssumption, TimesFinite
<1>0. PICK l : l = IF log.file = Nil THEN logFile!Rolled(log, TRUE) ELSE log
  OBVIOUS
<1>1. PICK ok \in BOOLEAN, taken \in 0..n :
         LET w == logFile!Written(l, taken)
         IN  /\ log' = logFile!AfterWrite(w, ok)
             /\ \E failed \in 0..(w.buffered - log'.buffered) :
                   /\ size' = [size EXCEPT ![l.file] = @ + (w.buffered - log'.buffered - failed)]
                   /\ lost' = lost + (n - taken) + failed
             /\ late' = IF log'.lastRoll # l.lastRoll \/ log'.file = Nil THEN 0
                        ELSE IF now - l.lastRoll >= RollPeriod THEN late + 1 ELSE late
  BY <1>0, Zenon DEF logFile!Append_, logFile!WrittenOut
<1>2. appended' = appended + n /\ UNCHANGED <<now, dropped>>
  BY DEF logFile!Append_
<1>3. /\ log \in LogRecord /\ now \in Times /\ now \in Nat
      /\ log.lastRoll <= log.lastFlush /\ log.lastFlush <= now
      /\ log.buffered <= log.writtenBytes
      /\ size \in [Times -> Nat]
      /\ appended \in Nat /\ dropped \in 0..appended /\ lost \in Nat /\ late \in Nat
      /\ appended = dropped + lost + logFile!Stored + log.buffered
      /\ log.file # Nil => /\ log.file \in Times
                           /\ log.writtenBytes <= size[log.file] + log.buffered + lost
                           /\ log.count < CheckEveryN /\ late <= log.count
                           /\ now - log.lastRoll < RollPeriod => late = 0
      /\ log.file = Nil => late = 0 /\ log.buffered = 0
  BY DEF DiskInv, LogRecord, logFile!BytesSurvive, logFile!BytesAccounted,
         logFile!BufferIsOfOpenFile, logFile!OldFileIsLeft, logFile!TypeOK, Times
<1> DEFINE given == size[l.file] + l.buffered + lost
<1>4. /\ l \in LogRecord /\ l.file \in Times /\ l.count < CheckEveryN
      /\ l.buffered = log.buffered /\ l.buffered \in Nat
      /\ Opened(l, given) /\ size[l.file] \in Nat /\ given \in Nat
      /\ late <= l.count /\ late \in Nat
      /\ now - l.lastRoll < RollPeriod => late = 0
  <2>1. CASE log.file = Nil
    <3>1. l = logFile!Rolled(log, TRUE)
      BY <1>0, <2>1
    <3>2. /\ l \in LogRecord /\ l.buffered = 0 /\ l.file = now /\ l.writtenBytes = 0
          /\ l.count = 0 /\ l.lastRoll = now /\ l.lastFlush = now
      BY <1>3, <3>1, RolledRecord, Zenon
    <3>3. size[l.file] \in Nat /\ given \in Nat
      BY <1>3, <3>2
    <3>4. Opened(l, given)
      BY <1>3, <3>2, <3>3 DEF Opened
    <3>5. QED  BY <1>3, <2>1, <3>2, <3>3, <3>4
  <2>2. CASE log.file # Nil
    <3>1. l = log
      BY <1>0, <2>2
    <3>2. size[l.file] \in Nat /\ l.buffered \in Nat /\ given \in Nat
      <4>1. log.buffered \in Nat
        BY <1>3 DEF LogRecord
      <4>2. size[log.file] \in Nat
        BY <1>3, <2>2
      <4>3. QED  BY <1>3, <3>1, <4>1, <4>2
    <3>3. Opened(l, given)
      BY <1>3, <2>2, <3>1, <3>2 DEF Opened
    <3>4. QED  BY <1>3, <2>2, <3>1, <3>2, <3>3
  <2>3. QED  BY <2>1, <2>2
<1> HIDE DEF given
<1>5. Settled(log', l, given, taken) /\ taken \in Nat
  <2>1. taken \in Nat
    OBVIOUS
  <2>2. QED  BY <2>1, <1>1, <1>3, <1>4, AppendSettles, Zenon
<1>6. /\ size' \in [Times -> Nat] /\ lost' \in Nat
      /\ size'[l.file] \in Nat
      /\ given + taken <= size'[l.file] + log'.buffered + lost'
      /\ appended' = dropped + lost' + logFile!Stored' + log'.buffered
  <2>1. log'.buffered <= l.buffered + taken /\ log'.buffered \in Nat
    BY <1>5 DEF Settled, LogRecord
  <2>2. PICK w \in LogRecord : w = logFile!Written(l, taken) /\ w.buffered = l.buffered + taken
    BY <1>4, <1>5, WrittenRecord, Zenon
  <2>3. PICK f \in Times, before \in Nat, after \in Nat :
           f = l.file /\ before = w.buffered /\ after = log'.buffered
    BY <1>4, <2>1, <2>2
  <2>4. PICK failed \in 0..(before - after) :
           /\ size' = [size EXCEPT ![f] = size[f] + (before - after - failed)]
           /\ lost' = lost + (n - taken) + failed
    BY <1>1, <2>2, <2>3, Zenon
  <2>5. PICK arrived \in Nat : arrived = before - after - failed
    <3>1. before - after - failed \in Nat
      OBVIOUS
    <3>2. QED  BY <3>1
  <2>6. size' = [size EXCEPT ![f] = size[f] + arrived]
    BY <2>4, <2>5, Zenon
  <2>7. /\ size' \in [Times -> Nat] /\ size'[f] = size[f] + arrived
        /\ logFile!Stored' = logFile!Stored + arrived /\ logFile!Stored \in Nat
    BY <1>3, <2>6, WrittenOutAdds, Zenon
  <2>8. lost' \in Nat /\ size[f] \in Nat /\ size'[f] \in Nat
    BY <1>3, <2>4, <2>7
  <2>9. l.buffered + taken = after + arrived + failed
    BY <2>2, <2>3, <2>5
  <2>10. given + taken <= size'[f] + after + lost'
    <3>1. given = size[f] + l.buffered + lost
      BY <2>3, Zenon DEF given
    <3>2. lost \in Nat /\ l.buffered \in Nat /\ taken \in Nat /\ n - taken \in Nat
      BY <1>3, <1>4, <1>5
    <3>3. given + taken = size[f] + lost + (l.buffered + taken)
      BY <2>8, <3>1, <3>2
    <3>4. size'[f] + after + lost' = size[f] + lost + (after + arrived + failed) + (n - taken)
      BY <2>4, <2>7, <2>8, <3>2
    <3>5. size[f] + lost + (l.buffered + taken) \in Nat
      BY <2>8, <3>2
    <3>6. QED  BY <2>9, <3>2, <3>3, <3>4, <3>5
  <2>11. appended' = dropped + lost' + logFile!Stored' + after
    <3>1. appended' = dropped + lost + logFile!Stored + l.buffered + n
      BY <1>2, <1>3, <1>4
    <3>2. /\ dropped \in Nat /\ l.buffered \in Nat /\ lost \in Nat
          /\ taken \in Nat /\ n - taken \in Nat
      BY <1>3, <1>4, <1>5
    <3>3. dropped + lost' + logFile!Stored' + after
             = dropped + lost + logFile!Stored + (after + arrived + failed) + (n - taken)
      BY <2>4, <2>7, <3>2
    <3>4. appended' = dropped + lost + logFile!Stored + (l.buffered + taken) + (n - taken)
      BY <2>7, <3>1, <3>2
    <3>5. QED  BY <2>9, <3>3, <3>4
  <2>12. QED  BY <2>3, <2>7, <2>8, <2>10, <2>11
<1>7. /\ log' \in LogRecord /\ log'.lastRoll <= log'.lastFlush /\ log'.lastFlush <= now
      /\ log'.file = Nil => log'.buffered = 0
      /\ log'.lastRoll \in Nat /\ log'.lastFlush \in Nat
      /\ log'.buffered \in Nat /\ log'.writtenBytes \in Nat /\ log'.count \in Nat
      /\ log'.file \in Times \cup {Nil}
  BY <1>5 DEF Settled, LogRecord
<1>8. ASSUME log'.file # Nil
      PROVE  /\ log'.buffered <= log'.writtenBytes /\ log'.writtenBytes <= RollSize
             /\ log'.count < CheckEveryN
             /\ log'.writtenBytes <= size'[log'.file] + log'.buffered + lost'
             /\ late' <= log'.count /\ late' \in Nat
             /\ now - log'.lastRoll < RollPeriod => late' = 0
  <2>1. /\ log'.buffered <= log'.writtenBytes /\ log'.writtenBytes <= RollSize
        /\ log'.count < CheckEveryN
    BY <1>5, <1>8 DEF Settled
  <2>2. CASE /\ log'.file = l.file /\ log'.writtenBytes <= given + taken
             /\ log'.lastRoll = l.lastRoll
             /\ log'.count = l.count + 1 \/ now - l.lastRoll < RollPeriod
    <3>1. late' = IF now - l.lastRoll >= RollPeriod THEN late + 1 ELSE late
      BY <1>1, <1>8, <2>2
    <3>2. l.lastRoll \in Nat /\ l.count \in Nat
      BY <1>4 DEF LogRecord
    <3>3. CASE now - l.lastRoll >= RollPeriod
      <4>1. ~(now - l.lastRoll < RollPeriod) /\ late' = late + 1
        BY <1>3, <3>1, <3>2, <3>3
      <4>2. log'.count = l.count + 1
        BY <2>2, <4>1
      <4>3. late' <= log'.count /\ late' \in Nat
        BY <1>4, <3>2, <4>1, <4>2
      <4>4. log'.writtenBytes <= size'[log'.file] + log'.buffered + lost'
        BY <1>4, <1>6, <1>7, <2>2
      <4>5. QED  BY <2>1, <2>2, <4>1, <4>3, <4>4
    <3>4. CASE ~(now - l.lastRoll >= RollPeriod)
      <4>1. now - l.lastRoll < RollPeriod
        BY <1>3, <3>2, <3>4
      <4>2. late' = 0
        BY <1>4, <3>1, <3>4, <4>1
      <4>3. log'.writtenBytes <= size'[log'.file] + log'.buffered + lost'
        BY <1>4, <1>6, <1>7, <2>2
      <4>4. late' <= log'.count /\ late' \in Nat
        BY <1>7, <4>2
      <4>5. QED  BY <2>1, <4>2, <4>3, <4>4
    <3>5. QED  BY <3>3, <3>4
  <2>3. CASE log'.writtenBytes = 0 /\ log'.file = now /\ log'.lastRoll = now
    <3>1. late' = 0
      <4>1. CASE log'.lastRoll # l.lastRoll
        BY <1>1, <4>1
      <4>2. CASE log'.lastRoll = l.lastRoll
        <5>1. now - l.lastRoll < RollPeriod /\ ~(now - l.lastRoll >= RollPeriod)
          BY <1>3, <2>3, <4>2
        <5>2. QED  BY <1>1, <1>4, <1>8, <4>2, <5>1
      <4>3. QED  BY <4>1, <4>2
    <3>2. size'[now] \in Nat
      BY <1>3, <1>6
    <3>3. QED  BY <1>6, <1>7, <2>1, <2>3, <3>1, <3>2
  <2>4. QED  BY <1>5, <1>8, <2>2, <2>3 DEF Settled
<1>9. log'.file = Nil => late' = 0
  BY <1>1
<1>11. logFile!TypeOK'
  <2>1. now' \in Times
    BY <1>2, <1>3
  <2>2. log'.lastRoll <= now /\ now' = now /\ now \in Nat
    BY <1>2, <1>3, <1>7
  <2>3. log'.lastRoll \in 0..now'
    BY <1>7, <2>2
  <2>4. log'.lastFlush \in log'.lastRoll..now'
    BY <1>7, <2>2
  <2>5. log'.buffered \in 0..log'.writtenBytes
    BY <1>7, <1>8
  <2>6. appended' \in Nat /\ dropped' \in 0..appended'
    BY <1>2, <1>3, SMTT(30)
  <2>7. late' \in Nat
    BY <1>8, <1>9
  <2>8. QED  BY <1>6, <1>7, <2>1, <2>3, <2>4, <2>5, <2>6, <2>7 DEF logFile!TypeOK, Times
<1>12. logFile!BytesAccounted'
  BY <1>2, <1>6 DEF logFile!BytesAccounted
<1>13. logFile!BytesSurvive'
  BY <1>7, <1>8, <1>11, <1>12
     DEF logFile!BytesSurvive, logFile!BufferIsOfOpenFile, logFile!OpenFileIsShort
<1>14. logFile!OldFileIsLeft'
  BY <1>7, <1>8 DEF logFile!OldFileIsLeft
<1>15. now' - log'.lastRoll = now - log'.lastRoll
  BY <1>2
<1>16. DiskInv'
  BY <1>7, <1>8, <1>9, <1>13, <1>14, <1>15 DEF DiskInv
<1>17. QED  BY <1>2, <1>16

-----------------------------------------------------------------------------
(* The inductive invariant.                                                *)

\* The buffers: which of them there are at each place of the background thread,
\* and who is still there to use them.
BackInv ==
    /\ logged \in 0..MaxLines /\ gone \subseteq Threads
    /\ current # Nil => Len(current) <= Cap
    /\ current = Nil <=> back \in {"rest", "ended"}
    /\ back \in {"rest", "ended"} => buffers = <<>>
    /\ back \notin {"write", "rest"} => toWrite = <<>>
    /\ owner = "off" <=> back = "none"
    /\ back \in {"drain", "rest", "ended"} => owner \in {"joining", "stopped"}
    /\ owner \in {"joining", "stopped"} => gone = Threads
    /\ owner = "stopped" => back = "ended"
    /\ back = "ended" => log.buffered = 0

LogInv == LinesSurvive /\ BackInv /\ DiskInv /\ appended = Len(file)

LEMMA BufferType ==
    /\ Buffer = Seq(1..MaxLines) /\ Nil \notin Buffer /\ <<>> \in Buffer /\ <<>> # Nil
    /\ <<>> \in Seq(Buffer)
<1>1. Buffer = Seq(1..MaxLines) /\ Nil \notin Seq(1..MaxLines)
  BY NilAssumption DEF Buffer
<1>2. <<>> \in Seq(1..MaxLines) /\ <<>> \in Seq(Buffer)
  OBVIOUS
<1>3. QED  BY <1>1, <1>2

LEMMA OrderIs ==
    /\ LinesInOrder <=> InOrder(file, toWrite, buffers, Contents(current), logged)
    /\ LinesInOrder' <=> InOrder(file', toWrite', buffers', Contents(current)', logged')
BY Zenon DEF LinesInOrder, InOrder, Numbers

LEMMA ContentsType ==
    ASSUME NEW b \in Buffer \cup {Nil}
    PROVE  Contents(b) \in Buffer /\ (b # Nil => Contents(b) = b) /\ Contents(Nil) = <<>>
BY BufferType DEF Contents

\* A buffer more.
LEMMA OneMore ==
    ASSUME NEW bs \in Seq(Buffer), NEW b \in Buffer
    PROVE  /\ Append(bs, b) \in Seq(Buffer)
           /\ (\A i \in DOMAIN bs : Len(bs[i]) <= Cap) /\ Len(b) <= Cap
                 => \A i \in DOMAIN Append(bs, b) : Len(Append(bs, b)[i]) <= Cap
<1>1. Append(bs, b) \in Seq(Buffer)
  BY AppendProperties
<1>2. ASSUME \A i \in DOMAIN bs : Len(bs[i]) <= Cap, Len(b) <= Cap,
             NEW i \in DOMAIN Append(bs, b)
      PROVE  Len(Append(bs, b)[i]) <= Cap
  <2>1. i \in 1..(Len(bs) + 1) /\ DOMAIN bs = 1..Len(bs) /\ Len(bs) \in Nat
    BY <1>2, AppendProperties, LenProperties
  <2>2. CASE i = Len(bs) + 1
    BY <1>2, <2>1, <2>2, AppendProperties
  <2>3. CASE i # Len(bs) + 1
    <3>1. i \in 1..Len(bs)
      BY <2>1, <2>3
    <3>2. Append(bs, b)[i] = bs[i]
      BY <3>1, AppendProperties
    <3>3. QED  BY <1>2, <2>1, <3>1, <3>2
  <2>4. QED  BY <2>2, <2>3
<1>3. QED  BY <1>1, <1>2

LEMMA InitLogInv == Init => LogInv
<1> SUFFICES ASSUME Init PROVE LogInv
  OBVIOUS
<1>1. DiskInv /\ log.buffered = 0 /\ appended = 0
  BY DiskInit DEF Init
<1>2. TypeOK
  <2>1. /\ current = <<>> /\ next = <<>> /\ buffers = <<>> /\ running = FALSE /\ owner = "off"
        /\ newBuffer1 = Nil /\ newBuffer2 = Nil /\ toWrite = <<>> /\ recycled = <<>>
        /\ back = "none" /\ file = <<>> /\ flushed = 0
    BY DEF Init
  <2>2. Len(<<>>) = 0 /\ DOMAIN <<>> = {}
    OBVIOUS
  <2>3. flushed \in 0..Len(file) /\ Len(recycled) <= 2 /\ \A i \in DOMAIN buffers : Len(buffers[i]) <= Cap
    BY <2>1, <2>2
  <2>4. running = (owner = "on")
    BY <2>1
  <2>5. QED  BY <2>1, <2>3, <2>4, BufferType DEF TypeOK
<1>3. LinesInOrder
  <2>1. FlattenSeq(<<>>) = <<>> /\ <<>> \o <<>> = <<>>
    BY Chains
  <2>2. Numbers(0) = <<>>
    BY DEF Numbers
  <2>3. Contents(<<>>) = <<>>
    BY BufferType DEF Contents
  <2>4. QED  BY <2>1, <2>2, <2>3, OrderIs DEF Init, InOrder
<1>4. SparesReady
  BY DEF Init, SparesReady
<1>5. BackInv
  BY <1>1, BufferType, BoundsAssumption, CapAssumption DEF Init, BackInv
<1>6. QED  BY <1>1, <1>2, <1>3, <1>4, <1>5 DEF Init, LogInv, LinesSurvive

\* Whoever may log finds the current buffer.
LEMMA StillThere ==
    ASSUME LogInv, NEW t \in Threads, t \notin gone
    PROVE  /\ current \in Buffer /\ current # Nil /\ Len(current) <= Cap
           /\ owner \in {"off", "on"} /\ back \notin {"drain", "rest", "ended"}
BY BufferType DEF LogInv, LinesSurvive, TypeOK, BackInv

\* A step of a thread that logs, as far as the rest is concerned.
LEMMA ThreadStep ==
    ASSUME LogInv, NEW t \in Threads, t \notin gone,
           UNCHANGED <<running, owner, gone, backVars, fileVars>>,
           logged' \in 0..MaxLines, LinesInOrder',
           current' \in Buffer, Len(current') <= Cap, next' \in {next, Nil},
           buffers' \in Seq(Buffer), \A i \in DOMAIN buffers' : Len(buffers'[i]) <= Cap
    PROVE  LogInv'
<1>1. /\ TypeOK /\ LinesInOrder /\ SparesReady /\ BackInv /\ DiskInv /\ appended = Len(file)
  BY DEF LogInv, LinesSurvive
<1>2. /\ UNCHANGED <<running, owner, gone, newBuffer1, newBuffer2, toWrite, recycled, back>>
      /\ UNCHANGED <<file, flushed, log, appended>> /\ UNCHANGED diskVars
  BY DEF backVars, fileVars, diskVars
<1>3. current' # Nil /\ back \notin {"drain", "rest", "ended"}
  BY BufferType, StillThere
<1>4. TypeOK'
  BY <1>1, <1>2 DEF TypeOK, Buffer
<1>5. SparesReady'
  BY <1>1, <1>2 DEF SparesReady
<1>6. BackInv'
  BY <1>1, <1>2, <1>3 DEF BackInv
<1>7. DiskInv'
  BY <1>1, <1>2, DiskUnchanged
<1>8. QED  BY <1>1, <1>2, <1>4, <1>5, <1>6, <1>7 DEF LogInv, LinesSurvive

\* The current buffer handed over, and an empty one taken.
LEMMA Handed ==
    ASSUME LogInv, NEW t \in Threads, t \notin gone
    PROVE  /\ Append(buffers, current) \in Seq(Buffer)
           /\ \A i \in DOMAIN Append(buffers, current) : Len(Append(buffers, current)[i]) <= Cap
           /\ Fresh = <<>>
           /\ InOrder(file, toWrite, Append(buffers, current), <<>>, logged)
<1>1. /\ TypeOK /\ LinesInOrder /\ SparesReady /\ BackInv
  BY DEF LogInv, LinesSurvive
<1>2. current \in Buffer /\ Len(current) <= Cap /\ Contents(current) = current
  BY StillThere, ContentsType
<1>3. /\ file \in Seq(1..MaxLines) /\ toWrite \in Seq(Seq(1..MaxLines))
      /\ buffers \in Seq(Seq(1..MaxLines)) /\ current \in Seq(1..MaxLines) /\ logged \in Nat
      /\ InOrder(file, toWrite, buffers, current, logged)
  BY <1>1, <1>2, OrderIs, BufferType, BoundsAssumption DEF TypeOK, BackInv
<1>4. InOrder(file, toWrite, Append(buffers, current), <<>>, logged)
  BY <1>3, BufferHanded, Zenon
<1>5. Fresh = <<>>
  BY <1>1, BufferType DEF Fresh, SparesReady
<1>6. /\ Append(buffers, current) \in Seq(Buffer)
      /\ \A i \in DOMAIN Append(buffers, current) : Len(Append(buffers, current)[i]) <= Cap
  BY <1>1, <1>2, OneMore DEF TypeOK
<1>7. QED  BY <1>4, <1>5, <1>6

LEMMA AppendPreserves ==
    ASSUME LogInv, NEW t \in Threads, Append_(t)
    PROVE  LogInv'
<1> USE BoundsAssumption, CapAssumption
<1>1. /\ TypeOK /\ LinesInOrder /\ SparesReady /\ BackInv
  BY DEF LogInv, LinesSurvive
<1>2. /\ t \notin gone /\ logged < MaxLines /\ logged' = logged + 1
      /\ UNCHANGED <<running, owner, gone, backVars, fileVars>>
  BY DEF Append_
<1>3. /\ current \in Buffer /\ Len(current) <= Cap /\ Contents(current) = current
  BY <1>2, StillThere, ContentsType
<1>4. logged \in Nat /\ logged + 1 \in 1..MaxLines
  BY <1>1, <1>2 DEF BackInv
<1>5. PICK line \in 1..MaxLines : line = logged + 1
  BY <1>4
<1>6. Numbers(line) = Append(Numbers(logged), line)
  BY <1>4, <1>5, NextNumber
<1>7. /\ file \in Seq(1..MaxLines) /\ toWrite \in Seq(Seq(1..MaxLines))
      /\ buffers \in Seq(Seq(1..MaxLines)) /\ current \in Seq(1..MaxLines)
      /\ InOrder(file, toWrite, buffers, current, logged)
      /\ file' = file /\ toWrite' = toWrite
  BY <1>1, <1>2, <1>3, OrderIs, BufferType DEF TypeOK, backVars, fileVars
<1>8. CASE Len(current) < Cap
  <2>1. current' = Append(current, line) /\ UNCHANGED <<next, buffers>>
    BY <1>2, <1>5, <1>8 DEF Append_
  <2>2. current' \in Buffer /\ Len(current') = Len(current) + 1 /\ Len(current) \in Nat
    BY <1>7, <2>1, AppendProperties, LenProperties, BufferType
  <2>3. InOrder(file, toWrite, buffers, Append(current, line), line)
    BY <1>6, <1>7, LineAdded, Zenon
  <2>4. Contents(current)' = current' /\ Len(current') <= Cap
    BY <1>8, <2>2, BufferType DEF Contents
  <2>5. LinesInOrder'
    BY <1>2, <1>5, <1>7, <2>1, <2>3, <2>4, OrderIs, Zenon
  <2>6. \A i \in DOMAIN buffers' : Len(buffers'[i]) <= Cap
    BY <1>1, <2>1 DEF TypeOK
  <2>7. logged' \in 0..MaxLines /\ next' \in {next, Nil} /\ buffers' \in Seq(Buffer)
    BY <1>2, <1>5, <1>7, <2>1, BufferType
  <2>8. QED  BY <1>2, <2>2, <2>4, <2>5, <2>6, <2>7, ThreadStep
<1>9. CASE ~(Len(current) < Cap)
  <2>1. /\ buffers' = Append(buffers, current) /\ next' = Nil
        /\ current' = Append(Fresh, line)
    BY <1>2, <1>5, <1>9 DEF Append_
  <2>2. /\ Append(buffers, current) \in Seq(Buffer) /\ Fresh = <<>>
        /\ \A i \in DOMAIN Append(buffers, current) : Len(Append(buffers, current)[i]) <= Cap
        /\ InOrder(file, toWrite, Append(buffers, current), <<>>, logged)
    BY <1>2, Handed
  <2>3. current' \in Buffer /\ Len(current') <= Cap
    BY <2>1, <2>2, BufferType
  <2>4. InOrder(file, toWrite, Append(buffers, current), Append(<<>>, line), line)
    BY <1>6, <1>7, <2>2, LineAdded, BufferType, Zenon
  <2>5. Contents(current)' = current'
    BY <2>3, BufferType DEF Contents
  <2>6. LinesInOrder'
    BY <1>2, <1>5, <1>7, <2>1, <2>2, <2>4, <2>5, OrderIs, Zenon
  <2>7. logged' \in 0..MaxLines
    BY <1>2, <1>5
  <2>8. QED  BY <1>2, <2>1, <2>2, <2>3, <2>6, <2>7, ThreadStep
<1>10. QED  BY <1>8, <1>9

LEMMA FlushPreserves ==
    ASSUME LogInv, NEW t \in Threads, Flush(t)
    PROVE  LogInv'
<1> USE BoundsAssumption, CapAssumption
<1>1. /\ TypeOK /\ LinesInOrder /\ BackInv
  BY DEF LogInv, LinesSurvive
<1>2. t \notin gone /\ UNCHANGED <<running, owner, gone, logged, backVars, fileVars>>
  BY DEF Flush
<1>3. current \in Buffer /\ current # Nil /\ Len(current) <= Cap
  BY <1>2, StillThere
<1>4. file' = file /\ toWrite' = toWrite /\ logged' = logged /\ logged' \in 0..MaxLines
  BY <1>1, <1>2 DEF backVars, fileVars, BackInv
<1>5. CASE current # <<>>
  <2>1. buffers' = Append(buffers, current) /\ current' = Fresh /\ next' = Nil
    BY <1>3, <1>5 DEF Flush
  <2>2. /\ Append(buffers, current) \in Seq(Buffer) /\ Fresh = <<>>
        /\ \A i \in DOMAIN Append(buffers, current) : Len(Append(buffers, current)[i]) <= Cap
        /\ InOrder(file, toWrite, Append(buffers, current), <<>>, logged)
    BY <1>2, Handed
  <2>3. current' \in Buffer /\ Len(current') <= Cap /\ Contents(current)' = <<>>
    BY <2>1, <2>2, BufferType DEF Contents
  <2>4. LinesInOrder'
    BY <1>4, <2>1, <2>2, <2>3, OrderIs, Zenon
  <2>5. QED  BY <1>2, <1>4, <2>1, <2>2, <2>3, <2>4, ThreadStep
<1>6. CASE current = <<>>
  <2>1. UNCHANGED <<current, next, buffers>>
    BY <1>6 DEF Flush, bufferVars
  <2>2. LinesInOrder'
    BY <1>1, <1>4, <2>1 DEF LinesInOrder, Contents
  <2>3. /\ buffers' \in Seq(Buffer) /\ \A i \in DOMAIN buffers' : Len(buffers'[i]) <= Cap
        /\ current' \in Buffer /\ Len(current') <= Cap /\ next' \in {next, Nil}
    BY <1>1, <1>3, <2>1 DEF TypeOK
  <2>4. QED  BY <1>2, <1>4, <2>2, <2>3, ThreadStep
<1>7. QED  BY <1>5, <1>6

LEMMA MainPreserves ==
    ASSUME LogInv, (\E t \in Threads : Joined(t)) \/ Start \/ Stop \/ StopReturns
    PROVE  LogInv'
<1>1. /\ TypeOK /\ LinesInOrder /\ SparesReady /\ BackInv /\ DiskInv /\ appended = Len(file)
  BY DEF LogInv, LinesSurvive
<1>2. /\ UNCHANGED <<current, next, buffers, logged, file, flushed, log, appended>>
      /\ UNCHANGED diskVars /\ UNCHANGED <<toWrite, recycled>>
  BY DEF Joined, Start, Stop, StopReturns, bufferVars, backVars, fileVars, diskVars
<1>3. DiskInv' /\ appended' = Len(file')
  BY <1>1, <1>2, DiskUnchanged
<1>4. LinesInOrder'
  BY <1>1, <1>2 DEF LinesInOrder, Contents
<1>5. ASSUME NEW t \in Threads, Joined(t)
      PROVE  TypeOK' /\ SparesReady' /\ BackInv'
  <2>1. /\ UNCHANGED <<running, owner, newBuffer1, newBuffer2, back>>
        /\ gone' = gone \cup {t}
    BY <1>5 DEF Joined, backVars
  <2>2. TypeOK'
    BY <1>1, <1>2, <2>1 DEF TypeOK, Buffer
  <2>3. SparesReady'
    BY <1>1, <1>2, <2>1 DEF SparesReady
  <2>4. BackInv'
    BY <1>1, <1>2, <2>1 DEF BackInv
  <2>5. QED  BY <2>2, <2>3, <2>4
<1>6. ASSUME Start
      PROVE  TypeOK' /\ SparesReady' /\ BackInv'
  <2>1. /\ owner = "off" /\ running' = TRUE /\ owner' = "on" /\ gone' = gone
        /\ back' = "head" /\ newBuffer1' = <<>> /\ newBuffer2' = <<>>
    BY <1>6 DEF Start, threadVars
  <2>2. TypeOK'
    BY <1>1, <1>2, <2>1, BufferType DEF TypeOK
  <2>3. SparesReady'
    BY <1>1, <1>2, <2>1, BufferType DEF SparesReady
  <2>4. BackInv'
    BY <1>1, <1>2, <2>1 DEF BackInv
  <2>5. QED  BY <2>2, <2>3, <2>4
<1>7. ASSUME Stop
      PROVE  TypeOK' /\ SparesReady' /\ BackInv'
  <2>1. /\ owner = "on" /\ running' = FALSE /\ owner' = "joining" /\ gone' = gone
        /\ gone = Threads /\ UNCHANGED <<newBuffer1, newBuffer2, back>>
    BY <1>7 DEF Stop, threadVars, backVars
  <2>2. TypeOK'
    BY <1>1, <1>2, <2>1 DEF TypeOK, Buffer
  <2>3. SparesReady'
    BY <1>1, <1>2, <2>1 DEF SparesReady
  <2>4. BackInv'
    BY <1>1, <1>2, <2>1 DEF BackInv
  <2>5. QED  BY <2>2, <2>3, <2>4
<1>8. ASSUME StopReturns
      PROVE  TypeOK' /\ SparesReady' /\ BackInv'
  <2>1. /\ owner = "joining" /\ back = "ended" /\ owner' = "stopped" /\ gone' = gone
        /\ UNCHANGED <<running, newBuffer1, newBuffer2, back>>
    BY <1>8 DEF StopReturns, threadVars, backVars
  <2>2. TypeOK'
    BY <1>1, <1>2, <2>1 DEF TypeOK, Buffer
  <2>3. SparesReady'
    BY <1>1, <1>2, <2>1 DEF SparesReady
  <2>4. BackInv'
    BY <1>1, <1>2, <2>1 DEF BackInv
  <2>5. QED  BY <2>2, <2>3, <2>4
<1>9. TypeOK' /\ SparesReady' /\ BackInv'
  BY <1>5, <1>6, <1>7, <1>8
<1>10. QED  BY <1>3, <1>4, <1>9 DEF LogInv, LinesSurvive

\* Everything taken, in Swap and in Drain.
LEMMA Taken ==
    ASSUME LogInv, back \in {"wait", "drain"}
    PROVE  /\ current \in Buffer /\ current # Nil
           /\ Append(buffers, current) \in Seq(Buffer)
           /\ InOrder(file, Append(buffers, current), <<>>, <<>>, logged)
<1>1. /\ TypeOK /\ LinesInOrder /\ BackInv
  BY DEF LogInv, LinesSurvive
<1>2. current \in Buffer /\ current # Nil /\ toWrite = <<>> /\ Contents(current) = current
  BY <1>1, ContentsType DEF BackInv, TypeOK
<1>3. /\ file \in Seq(1..MaxLines) /\ buffers \in Seq(Seq(1..MaxLines))
      /\ current \in Seq(1..MaxLines) /\ logged \in Nat
      /\ InOrder(file, <<>>, buffers, current, logged)
  BY <1>1, <1>2, OrderIs, BufferType, BoundsAssumption DEF TypeOK, BackInv
<1>4. InOrder(file, Append(buffers, current), <<>>, <<>>, logged)
  BY <1>3, BuffersTaken, Zenon
<1>5. Append(buffers, current) \in Seq(Buffer)
  BY <1>1, <1>2, OneMore DEF TypeOK
<1>6. QED  BY <1>2, <1>4, <1>5

LEMMA SwapPreserves ==
    ASSUME LogInv, Swap
    PROVE  LogInv'
<1>1. /\ TypeOK /\ SparesReady /\ BackInv /\ DiskInv /\ appended = Len(file)
  BY DEF LogInv, LinesSurvive
<1>2. /\ back = "wait" /\ back' = "write" /\ toWrite' = Append(buffers, current)
      /\ buffers' = <<>> /\ current' = newBuffer1 /\ newBuffer1' = Nil
      /\ next' \in {next, newBuffer2} /\ newBuffer2' \in {newBuffer2, Nil}
      /\ UNCHANGED <<running, owner, recycled, logged, gone, file, flushed, log, appended>>
      /\ UNCHANGED diskVars
  BY DEF Swap, threadVars, fileVars, diskVars
<1>3. current' = <<>>
  BY <1>1, <1>2, BufferType DEF SparesReady
<1>4. /\ Append(buffers, current) \in Seq(Buffer)
      /\ InOrder(file, Append(buffers, current), <<>>, <<>>, logged)
  BY <1>2, Taken
<1>5. DiskInv' /\ appended' = Len(file')
  BY <1>1, <1>2, DiskUnchanged
<1>6. Contents(current)' = <<>>
  BY <1>3, BufferType DEF Contents
<1>7. LinesInOrder'
  BY <1>2, <1>4, <1>6, OrderIs, Zenon
<1>8. TypeOK'
  <2>1. DOMAIN <<>> = {}
    OBVIOUS
  <2>2. \A i \in DOMAIN buffers' : Len(buffers'[i]) <= Cap
    BY <1>2, <2>1
  <2>3. /\ current' \in Buffer /\ next' \in Buffer \cup {Nil} /\ buffers' \in Seq(Buffer)
        /\ newBuffer1' \in Buffer \cup {Nil} /\ newBuffer2' \in Buffer \cup {Nil}
        /\ toWrite' \in Seq(Buffer)
    BY <1>1, <1>2, <1>3, <1>4, BufferType DEF TypeOK
  <2>4. QED  BY <1>1, <1>2, <2>2, <2>3 DEF TypeOK, Buffer
<1>9. SparesReady'
  BY <1>1, <1>2, <1>3 DEF SparesReady
<1>10. BackInv'
  <2>1. current' # Nil /\ Len(current') = 0
    BY <1>3, BufferType
  <2>2. QED  BY <1>1, <1>2, <2>1, CapAssumption DEF BackInv
<1>11. QED  BY <1>5, <1>7, <1>8, <1>9, <1>10 DEF LogInv, LinesSurvive

LEMMA DrainPreserves ==
    ASSUME LogInv, Drain
    PROVE  LogInv'
<1>1. /\ TypeOK /\ SparesReady /\ BackInv /\ DiskInv /\ appended = Len(file)
  BY DEF LogInv, LinesSurvive
<1>2. /\ back = "drain" /\ back' = "rest" /\ toWrite' = Append(buffers, current)
      /\ buffers' = <<>> /\ current' = Nil
      /\ UNCHANGED <<running, owner, newBuffer1, newBuffer2, recycled, logged, next>>
      /\ UNCHANGED <<gone, file, flushed, log, appended>> /\ UNCHANGED diskVars
  BY DEF Drain, threadVars, fileVars, diskVars
<1>3. /\ Append(buffers, current) \in Seq(Buffer)
      /\ InOrder(file, Append(buffers, current), <<>>, <<>>, logged)
  BY <1>2, Taken
<1>4. DiskInv' /\ appended' = Len(file')
  BY <1>1, <1>2, DiskUnchanged
<1>5. LinesInOrder'
  <2>1. Contents(current)' = <<>>
    BY <1>2 DEF Contents
  <2>2. QED  BY <1>2, <1>3, <2>1, OrderIs, Zenon
<1>6. TypeOK'
  <2>1. DOMAIN <<>> = {}
    OBVIOUS
  <2>2. \A i \in DOMAIN buffers' : Len(buffers'[i]) <= Cap
    BY <1>2, <2>1
  <2>3. buffers' \in Seq(Buffer) /\ toWrite' \in Seq(Buffer)
    BY <1>2, <1>3, BufferType
  <2>4. QED  BY <1>1, <1>2, <2>2, <2>3 DEF TypeOK, Buffer
<1>7. SparesReady'
  BY <1>1, <1>2 DEF SparesReady
<1>8. BackInv'
  BY <1>1, <1>2 DEF BackInv
<1>9. QED  BY <1>4, <1>5, <1>6, <1>7, <1>8 DEF LogInv, LinesSurvive

LEMMA HeadPreserves ==
    ASSUME LogInv, Head_
    PROVE  LogInv'
<1>1. /\ TypeOK /\ LinesInOrder /\ SparesReady /\ BackInv /\ DiskInv /\ appended = Len(file)
  BY DEF LogInv, LinesSurvive
<1>2. /\ back = "head" /\ back' = IF running THEN "wait" ELSE "drain"
      /\ UNCHANGED <<running, owner, newBuffer1, newBuffer2, toWrite, recycled, logged>>
      /\ UNCHANGED <<current, next, buffers, gone, file, flushed, log, appended>>
      /\ UNCHANGED diskVars
  BY DEF Head_, bufferVars, threadVars, fileVars, diskVars
<1>3. DiskInv' /\ appended' = Len(file')
  BY <1>1, <1>2, DiskUnchanged
<1>4. LinesInOrder'
  BY <1>1, <1>2 DEF LinesInOrder, Contents
<1>5. back' \in {"wait", "drain"} /\ (back' = "drain" => owner \in {"joining", "stopped"})
  BY <1>1, <1>2 DEF TypeOK, BackInv
<1>6. TypeOK'
  BY <1>1, <1>2, <1>5 DEF TypeOK, Buffer
<1>7. SparesReady'
  BY <1>1, <1>2 DEF SparesReady
<1>8. BackInv'
  BY <1>1, <1>2, <1>5 DEF BackInv
<1>9. QED  BY <1>3, <1>4, <1>6, <1>7, <1>8 DEF LogInv, LinesSurvive

LEMMA WritePreserves ==
    ASSUME LogInv, Write
    PROVE  LogInv'
<1>1. /\ TypeOK /\ LinesInOrder /\ SparesReady /\ BackInv /\ DiskInv /\ appended = Len(file)
  BY DEF LogInv, LinesSurvive
<1>2. /\ back \in {"write", "rest"} /\ toWrite # <<>>
      /\ logFile!Drop(Len(toWrite[1])) \/ logFile!Append_(Len(toWrite[1]))
      /\ file' = file \o toWrite[1] /\ toWrite' = Tail(toWrite) /\ recycled' = Keep(toWrite[1])
      /\ UNCHANGED <<running, owner, newBuffer1, newBuffer2, back, logged, flushed>>
      /\ UNCHANGED <<current, next, buffers, gone>>
  BY DEF Write, bufferVars, threadVars
<1>3. Contents(current) \in Buffer
  BY <1>1, ContentsType DEF TypeOK
<1>4. /\ file \in Seq(1..MaxLines) /\ toWrite \in Seq(Seq(1..MaxLines))
      /\ buffers \in Seq(Seq(1..MaxLines)) /\ Contents(current) \in Seq(1..MaxLines)
      /\ InOrder(file, toWrite, buffers, Contents(current), logged) /\ logged \in Nat
  BY <1>1, <1>3, OrderIs, BufferType, BoundsAssumption DEF TypeOK, BackInv
<1>5. /\ toWrite[1] \in Seq(1..MaxLines) /\ Tail(toWrite) \in Seq(Seq(1..MaxLines))
      /\ file \o toWrite[1] \in Seq(1..MaxLines)
      /\ InOrder(file \o toWrite[1], Tail(toWrite), buffers, Contents(current), logged)
  BY <1>2, <1>4, BufferWritten, Zenon
<1>6. PICK n \in Nat : n = Len(toWrite[1])
  BY <1>5, LenProperties
<1>7. DiskInv' /\ appended' = appended + n
  BY <1>1, <1>2, <1>6, DiskDrop, DiskAppend
<1>8. Len(file') = Len(file) + n /\ Len(file) \in Nat
  BY <1>2, <1>4, <1>5, <1>6, ConcatProperties, LenProperties
<1>9. appended' = Len(file')
  BY <1>1, <1>7, <1>8
<1>10. LinesInOrder'
  <2>1. Contents(current)' = Contents(current)
    BY <1>2 DEF Contents
  <2>2. QED  BY <1>2, <1>5, <2>1, OrderIs, Zenon
<1>11. TypeOK'
  <2>1. recycled' \in Seq(Buffer) /\ Len(recycled') <= 2
    <3>1. recycled \in Seq(Buffer) /\ Len(recycled) <= 2 /\ toWrite[1] \in Buffer
      BY <1>1, <1>5, BufferType DEF TypeOK
    <3>2. CASE Len(recycled) < 2
      <4>1. recycled' = Append(recycled, toWrite[1])
        BY <1>2, <3>2 DEF Keep
      <4>2. Len(recycled) \in Nat
        BY <3>1, LenProperties
      <4>3. QED  BY <3>1, <3>2, <4>1, <4>2, AppendProperties
    <3>3. CASE ~(Len(recycled) < 2)
      BY <1>2, <3>1, <3>3 DEF Keep
    <3>4. QED  BY <3>2, <3>3
  <2>2. file' \in Buffer /\ toWrite' \in Seq(Buffer)
    BY <1>2, <1>5, BufferType
  <2>3. flushed' \in 0..Len(file')
    BY <1>1, <1>2, <1>8 DEF TypeOK
  <2>4. QED  BY <1>1, <1>2, <2>1, <2>2, <2>3 DEF TypeOK, Buffer
<1>12. SparesReady'
  BY <1>1, <1>2 DEF SparesReady
<1>13. BackInv'
  BY <1>1, <1>2 DEF BackInv
<1>14. QED  BY <1>7, <1>9, <1>10, <1>11, <1>12, <1>13 DEF LogInv, LinesSurvive

LEMMA RecyclePreserves ==
    ASSUME LogInv, Recycle
    PROVE  LogInv'
<1>1. /\ TypeOK /\ LinesInOrder /\ SparesReady /\ BackInv /\ DiskInv /\ appended = Len(file)
  BY DEF LogInv, LinesSurvive
<1>2. /\ back = "write" /\ back' = "head" /\ toWrite = <<>> /\ recycled' = <<>>
      /\ flushed' = Len(file) /\ logFile!Flush
      /\ UNCHANGED <<running, owner, toWrite, logged, file, current, next, buffers, gone>>
  BY DEF Recycle, bufferVars, threadVars
<1>3. newBuffer1' = <<>> /\ newBuffer2' = <<>>
  BY <1>1 DEF Recycle, SparesReady, reset
<1>4. DiskInv' /\ appended' = Len(file')
  BY <1>1, <1>2, DiskFlush
<1>5. LinesInOrder'
  BY <1>1, <1>2 DEF LinesInOrder, Contents
<1>6. TypeOK'
  <2>1. Len(file) \in Nat /\ Len(<<>>) = 0
    BY <1>1, LenProperties, BufferType DEF TypeOK
  <2>2. flushed' \in 0..Len(file') /\ Len(recycled') <= 2 /\ recycled' \in Seq(Buffer)
    BY <1>2, <2>1, BufferType
  <2>3. newBuffer1' \in Buffer /\ newBuffer2' \in Buffer
    BY <1>3, BufferType
  <2>4. QED  BY <1>1, <1>2, <2>2, <2>3 DEF TypeOK, Buffer
<1>7. SparesReady'
  BY <1>1, <1>2, <1>3, BufferType DEF SparesReady
<1>8. BackInv'
  BY <1>1, <1>2 DEF BackInv
<1>9. QED  BY <1>4, <1>5, <1>6, <1>7, <1>8 DEF LogInv, LinesSurvive

LEMMA LastFlushPreserves ==
    ASSUME LogInv, LastFlush
    PROVE  LogInv'
<1>1. /\ TypeOK /\ LinesInOrder /\ SparesReady /\ BackInv /\ DiskInv /\ appended = Len(file)
  BY DEF LogInv, LinesSurvive
<1>2. /\ back = "rest" /\ back' = "ended" /\ toWrite = <<>>
      /\ flushed' = Len(file) /\ logFile!Flush
      /\ UNCHANGED <<running, owner, newBuffer1, newBuffer2, toWrite, recycled, logged, file>>
      /\ UNCHANGED <<current, next, buffers, gone>>
  BY DEF LastFlush, bufferVars, threadVars
<1>3. DiskInv' /\ appended' = Len(file') /\ log'.buffered = 0
  BY <1>1, <1>2, DiskFlush
<1>4. LinesInOrder'
  BY <1>1, <1>2 DEF LinesInOrder, Contents
<1>5. TypeOK'
  <2>1. Len(file) \in Nat
    BY <1>1, LenProperties, BufferType DEF TypeOK
  <2>2. flushed' \in 0..Len(file')
    BY <1>2, <2>1
  <2>3. QED  BY <1>1, <1>2, <2>2 DEF TypeOK, Buffer
<1>6. SparesReady'
  BY <1>1, <1>2 DEF SparesReady
<1>7. BackInv'
  BY <1>1, <1>2, <1>3 DEF BackInv
<1>8. QED  BY <1>3, <1>4, <1>5, <1>6, <1>7 DEF LogInv, LinesSurvive

LEMMA TickPreserves ==
    ASSUME LogInv, Tick
    PROVE  LogInv'
<1>1. /\ TypeOK /\ LinesInOrder /\ SparesReady /\ BackInv /\ DiskInv /\ appended = Len(file)
  BY DEF LogInv, LinesSurvive
<1>2. /\ logFile!Tick
      /\ UNCHANGED <<running, owner, logged, file, flushed, current, next, buffers, gone>>
      /\ UNCHANGED <<newBuffer1, newBuffer2, toWrite, recycled, back>>
  BY DEF Tick, bufferVars, backVars, threadVars
<1>3. DiskInv' /\ appended' = Len(file') /\ log' = log
  BY <1>1, <1>2, DiskTick
<1>4. LinesInOrder'
  BY <1>1, <1>2 DEF LinesInOrder, Contents
<1>5. TypeOK'
  BY <1>1, <1>2 DEF TypeOK, Buffer
<1>6. SparesReady'
  BY <1>1, <1>2 DEF SparesReady
<1>7. BackInv'
  BY <1>1, <1>2, <1>3 DEF BackInv
<1>8. QED  BY <1>3, <1>4, <1>5, <1>6, <1>7 DEF LogInv, LinesSurvive

LEMMA StutterPreserves ==
    ASSUME LogInv, UNCHANGED vars
    PROVE  LogInv'
<1>1. /\ TypeOK /\ LinesInOrder /\ SparesReady /\ BackInv /\ DiskInv /\ appended = Len(file)
  BY DEF LogInv, LinesSurvive
<1>2. /\ UNCHANGED diskVars /\ UNCHANGED <<log, appended>>
      /\ UNCHANGED <<running, owner, logged, file, flushed, current, next, buffers, gone>>
      /\ UNCHANGED <<newBuffer1, newBuffer2, toWrite, recycled, back>>
  BY DEF vars, bufferVars, backVars, threadVars, fileVars, diskVars
<1>3. DiskInv' /\ appended' = Len(file')
  BY <1>1, <1>2, DiskUnchanged
<1>4. LinesInOrder'
  BY <1>1, <1>2 DEF LinesInOrder, Contents
<1>5. TypeOK'
  BY <1>1, <1>2 DEF TypeOK, Buffer
<1>6. SparesReady'
  BY <1>1, <1>2 DEF SparesReady
<1>7. BackInv'
  BY <1>1, <1>2 DEF BackInv
<1>8. QED  BY <1>3, <1>4, <1>5, <1>6, <1>7 DEF LogInv, LinesSurvive

-----------------------------------------------------------------------------
(* The theorems.                                                           *)

\* The invariant holds of every step of the threads, of main(), of the background
\* thread and of the clock.
THEOREM Invariance == Spec => []LogInv
<1>1. LogInv /\ [Next]_vars => LogInv'
  <2>1. SUFFICES ASSUME LogInv, [Next]_vars PROVE LogInv'
    OBVIOUS
  <2>2. ASSUME NEW t \in Threads, Append_(t) \/ Flush(t) \/ Joined(t) PROVE LogInv'
    BY <2>1, <2>2, AppendPreserves, FlushPreserves, MainPreserves
  <2>3. CASE Start \/ Stop \/ StopReturns
    BY <2>1, <2>3, MainPreserves
  <2>4. CASE Tick
    BY <2>1, <2>4, TickPreserves
  <2>5. CASE threadFunc
    BY <2>1, <2>5, HeadPreserves, SwapPreserves, WritePreserves, RecyclePreserves,
       DrainPreserves, LastFlushPreserves DEF threadFunc
  <2>6. CASE UNCHANGED vars
    BY <2>1, <2>6, StutterPreserves
  <2>7. QED  BY <2>1, <2>2, <2>3, <2>4, <2>5, <2>6 DEF Next
<1>2. QED  BY <1>1, InitLogInv, PTL DEF Spec

\* No line is lost, doubled or overtaken on its way through the buffers, and only
\* emptied buffers are used again (append(), flush(), threadFunc()).
THEOREM NoLineIsLost == Spec => []LinesSurvive
<1>1. LogInv => LinesSurvive
  BY DEF LogInv
<1>2. QED  BY <1>1, Invariance, PTL

\* What has been logged is in the files when stop() returns, but for what was
\* dropped for want of a file and what the disk refused, and nobody ever logs into
\* the buffer that the background thread has given up (stop(), threadFunc()).
THEOREM StopFlushes == Spec => []StoppedIsFlushed
<1>1. LogInv => StoppedIsFlushed
  <2>1. SUFFICES ASSUME LogInv PROVE StoppedIsFlushed
    OBVIOUS
  <2>2. /\ TypeOK /\ LinesInOrder /\ BackInv /\ DiskInv /\ appended = Len(file)
    BY <2>1 DEF LogInv, LinesSurvive
  <2>3. CurrentIsThere
    BY <2>2 DEF BackInv, CurrentIsThere
  <2>4. ASSUME owner = "stopped"
        PROVE  /\ Len(file) = logged /\ log.buffered = 0
               /\ logFile!Stored = logged - dropped - lost
    <3>1. /\ back = "ended" /\ toWrite = <<>> /\ buffers = <<>> /\ current = Nil
          /\ log.buffered = 0 /\ logged \in Nat
      BY <2>2, <2>4, BoundsAssumption DEF BackInv
    <3>2. InOrder(file, <<>>, <<>>, <<>>, logged)
      <4>1. Contents(current) = <<>>
        BY <3>1 DEF Contents
      <4>2. QED  BY <2>2, <3>1, <4>1, OrderIs, Zenon
    <3>3. file \in Seq(1..MaxLines)
      BY <2>2, BufferType DEF TypeOK
    <3>4. Len(file) = logged
      BY <3>1, <3>2, <3>3, AllWritten, Zenon
    <3>5. /\ appended = dropped + lost + logFile!Stored + log.buffered
          /\ dropped \in Nat /\ lost \in Nat
          /\ size \in [Times -> Nat]
      BY <2>2 DEF DiskInv, logFile!BytesSurvive, logFile!BytesAccounted, logFile!TypeOK, Times
    <3>6. logFile!Stored \in Nat
      BY <3>5, TimesFinite, StoredIsSum, SumTyped DEF SumOver
    <3>7. logFile!Stored = logged - dropped - lost
      BY <2>2, <3>1, <3>4, <3>5, <3>6
    <3>8. QED  BY <3>1, <3>4, <3>7
  <2>5. QED  BY <2>3, <2>4 DEF StoppedIsFlushed
<1>2. QED  BY <1>1, Invariance, PTL

\* Every byte given to the LogFile is in a file, in the buffer of the open one,
\* was given while no file could be opened, or refused by the disk; its rolling,
\* reopening and failing to open lose none (append(), rollFileLocked(), flush()).
THEOREM BytesAreAccountedFor == Spec => []BytesSurviveRolls
<1>1. LogInv => BytesSurviveRolls
  BY DEF LogInv, DiskInv, BytesSurviveRolls
<1>2. QED  BY <1>1, Invariance, PTL

\* A file that has reached its age is left before checkEveryN_ more appends
\* (append()).
THEOREM OldFilesAreLeft == Spec => []OldFileIsLeft
<1>1. LogInv => OldFileIsLeft
  BY DEF LogInv, DiskInv, OldFileIsLeft
<1>2. QED  BY <1>1, Invariance, PTL
=============================================================================
