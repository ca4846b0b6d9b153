---------------------------- MODULE CommonLemmas ----------------------------
(***************************************************************************)
(* Sequences of naturals in increasing order, cut and joined, queues, the  *)
(* least of a set, and sums: the facts on which the proofs about buffers,  *)
(* tasks, timers, files and counters rest.                                 *)
(***************************************************************************)
EXTENDS Naturals, Sequences, FiniteSets,
        SequenceTheorems, FiniteSetTheorems, WellFoundedInduction, TLAPS

Increasing(s) == \A i, j \in 1..Len(s) : i < j => s[i] < s[j]
Below(s, t) == \A i \in 1..Len(s), j \in 1..Len(t) : s[i] < t[j]
\* The elements m..n of s lie between a and b.
Window(s, m, n, a, b) == \A i \in m..n : a <= s[i] /\ s[i] <= b
Between(s, a, b) == Window(s, 1, Len(s), a, b)
Take(s, k) == SubSeq(s, 1, k)
Drop(s, k) == SubSeq(s, k + 1, Len(s))

\* Cutting a sequence in two, element by element.
LEMMA Cut ==
    ASSUME NEW s \in Seq(Nat), NEW k \in 0..Len(s)
    PROVE  /\ Take(s, k) \in Seq(Nat) /\ Len(Take(s, k)) = k
           /\ \A i \in 1..k : Take(s, k)[i] = s[i]
           /\ Drop(s, k) \in Seq(Nat) /\ Len(Drop(s, k)) = Len(s) - k
           /\ \A i \in 1..(Len(s) - k) : Drop(s, k)[i] = s[k + i]
           /\ \A i \in 1..Len(s) : s[i] \in Nat
           /\ Len(s) \in Nat /\ k \in Nat
<1>1. /\ Len(s) \in Nat /\ \A i \in 1..Len(s) : s[i] \in Nat
  BY LenProperties
<1>2. \A i \in 1..k : s[i] \in Nat
  BY <1>1
<1>3. \A i \in (k+1)..Len(s) : s[i] \in Nat
  BY <1>1
<1>4. QED  BY <1>1, <1>2, <1>3, SubSeqProperties DEF Take, Drop

\* Joining two sequences, element by element.
LEMMA JoinPoints ==
    ASSUME NEW s \in Seq(Nat), NEW t \in Seq(Nat)
    PROVE  /\ s \o t \in Seq(Nat)
           /\ Len(s) \in Nat /\ Len(t) \in Nat
           /\ Len(s \o t) = Len(s) + Len(t)
           /\ \A i \in 1..(Len(s) + Len(t)) :
                 (s \o t)[i] = IF i <= Len(s) THEN s[i] ELSE t[i - Len(s)]
           /\ \A i \in 1..Len(s) : s[i] \in Nat
           /\ \A i \in 1..Len(t) : t[i] \in Nat
BY ConcatProperties, LenProperties

\* The two halves of an increasing sequence are increasing, one below the other.
LEMMA CutOrder ==
    ASSUME NEW s \in Seq(Nat), NEW k \in 0..Len(s), Increasing(s)
    PROVE  /\ Increasing(Take(s, k)) /\ Increasing(Drop(s, k))
           /\ Below(Take(s, k), Drop(s, k))
<1> DEFINE u == Take(s, k)
           v == Drop(s, k)
           n == Len(s)
<1>1. /\ Len(u) = k /\ Len(v) = n - k /\ k \in Nat /\ n \in Nat /\ k <= n
      /\ \A i \in 1..k : u[i] = s[i]
      /\ \A i \in 1..(n - k) : v[i] = s[k + i]
      /\ \A i \in 1..n : s[i] \in Nat
  BY Cut
<1>2. \A i, j \in 1..n : i < j => s[i] < s[j]
  BY DEF Increasing
<1> HIDE DEF u, v, n
<1>3. Increasing(u)
  <2> SUFFICES ASSUME NEW i \in 1..k, NEW j \in 1..k, i < j
               PROVE  u[i] < u[j]
    BY <1>1 DEF Increasing
  <2>1. i \in 1..n /\ j \in 1..n
    BY <1>1
  <2>2. QED  BY <1>1, <1>2, <2>1
<1>4. Increasing(v)
  <2> SUFFICES ASSUME NEW i \in 1..(n - k), NEW j \in 1..(n - k), i < j
               PROVE  v[i] < v[j]
    BY <1>1 DEF Increasing
  <2>1. k + i \in 1..n /\ k + j \in 1..n /\ k + i < k + j
    BY <1>1
  <2>2. QED  BY <1>1, <1>2, <2>1
<1>5. Below(u, v)
  <2> SUFFICES ASSUME NEW i \in 1..k, NEW j \in 1..(n - k)
               PROVE  u[i] < v[j]
    BY <1>1 DEF Below
  <2>1. i \in 1..n /\ k + j \in 1..n /\ i < k + j
    BY <1>1
  <2>2. QED  BY <1>1, <1>2, <2>1
<1>6. QED  BY <1>3, <1>4, <1>5 DEF u, v

\* Joining increasing sequences, one below the other, gives an increasing one.
LEMMA JoinOrder ==
    ASSUME NEW s \in Seq(Nat), NEW t \in Seq(Nat),
           Increasing(s), Increasing(t), Below(s, t)
    PROVE  Increasing(s \o t)
<1> DEFINE e == s \o t
           L == Len(s)
           k == Len(t)
<1>1. /\ Len(e) = L + k /\ L \in Nat /\ k \in Nat
      /\ \A i \in 1..(L + k) : e[i] = IF i <= L THEN s[i] ELSE t[i - L]
  BY JoinPoints
<1>0. /\ \A i, j \in 1..L : i < j => s[i] < s[j]
      /\ \A i, j \in 1..k : i < j => t[i] < t[j]
      /\ \A i \in 1..L, j \in 1..k : s[i] < t[j]
  BY DEF Increasing, Below
<1> HIDE DEF e, L, k
<1> SUFFICES ASSUME NEW i \in 1..(L + k), NEW j \in 1..(L + k), i < j
             PROVE  e[i] < e[j]
  BY <1>1 DEF Increasing, e
<1>2. CASE j <= L
  BY <1>0, <1>1, <1>2
<1>3. CASE i <= L /\ j > L
  <2>1. j - L \in 1..k
    BY <1>1, <1>3
  <2>2. e[j] = t[j - L] /\ e[i] = s[i] /\ i \in 1..L
    BY <1>1, <1>3
  <2>3. QED  BY <1>0, <2>1, <2>2
<1>4. CASE i > L
  <2>1. j - L \in 1..k /\ i - L \in 1..k /\ i - L < j - L
    BY <1>1, <1>4
  <2>2. e[j] = t[j - L] /\ e[i] = t[i - L]
    BY <1>1, <1>4
  <2>3. QED  BY <1>0, <2>1, <2>2
<1>5. QED  BY <1>1, <1>2, <1>3, <1>4

\* A sequence is below a joined one if it is below both parts, and vice versa.
LEMMA JoinBelow ==
    ASSUME NEW s \in Seq(Nat), NEW t \in Seq(Nat), NEW u \in Seq(Nat)
    PROVE  /\ Below(s, u) /\ Below(t, u) => Below(s \o t, u)
           /\ Below(u, s) /\ Below(u, t) => Below(u, s \o t)
<1> DEFINE e == s \o t
           L == Len(s)
           k == Len(t)
<1>1. /\ Len(e) = L + k /\ L \in Nat /\ k \in Nat
      /\ \A i \in 1..(L + k) : e[i] = IF i <= L THEN s[i] ELSE t[i - L]
  BY JoinPoints
<1>2. \A i \in 1..(L + k) : \/ i \in 1..L /\ e[i] = s[i]
                            \/ i - L \in 1..k /\ e[i] = t[i - L]
  <2> HIDE DEF e, L, k
  <2>1. QED  BY <1>1
<1> HIDE DEF e
<1>3. QED  BY <1>1, <1>2 DEF Below, e

\* Bounds on a window of a sequence survive appending.
LEMMA JoinWindowHead ==
    ASSUME NEW s \in Seq(Nat), NEW t \in Seq(Nat), NEW m \in Nat \ {0},
           NEW n \in 0..Len(s), NEW a, NEW b, Window(s, m, n, a, b)
    PROVE  Window(s \o t, m, n, a, b)
<1>1. /\ Len(s) \in Nat /\ Len(t) \in Nat
      /\ \A i \in 1..(Len(s) + Len(t)) :
            (s \o t)[i] = IF i <= Len(s) THEN s[i] ELSE t[i - Len(s)]
  BY JoinPoints
<1> DEFINE e == s \o t
<1> HIDE DEF e
<1>2. \A i \in m..n : e[i] = s[i]
  BY <1>1 DEF e
<1>3. QED  BY <1>2 DEF Window, e

\* A window that reaches the end grows by what is appended within its bounds.
LEMMA JoinWindowTail ==
    ASSUME NEW s \in Seq(Nat), NEW t \in Seq(Nat), NEW m \in Nat \ {0}, NEW a, NEW b,
           Window(s, m, Len(s), a, b), Between(t, a, b)
    PROVE  Window(s \o t, m, Len(s \o t), a, b)
<1> DEFINE e == s \o t
           L == Len(s)
           k == Len(t)
<1>1. /\ Len(e) = L + k /\ L \in Nat /\ k \in Nat
      /\ \A i \in 1..(L + k) : e[i] = IF i <= L THEN s[i] ELSE t[i - L]
  BY JoinPoints
<1>2. \A i \in 1..(L + k) : \/ i \in 1..L /\ e[i] = s[i]
                            \/ i - L \in 1..k /\ i > L /\ e[i] = t[i - L]
  <2> HIDE DEF e, L, k
  <2>1. QED  BY <1>1
<1> HIDE DEF e
<1>3. Window(e, m, Len(e), a, b)
  <2>1. /\ \A i \in m..L : a <= s[i] /\ s[i] <= b
        /\ \A i \in 1..k : a <= t[i] /\ t[i] <= b
    BY DEF Window, Between
  <2> HIDE DEF L, k
  <2> SUFFICES ASSUME NEW i \in m..(L + k) PROVE a <= e[i] /\ e[i] <= b
    BY <1>1 DEF Window
  <2>2. i \in 1..(L + k) /\ i >= m
    BY <1>1
  <2>3. CASE i \in 1..L /\ e[i] = s[i]
    <3>1. i \in m..L
      BY <2>2, <2>3
    <3>2. QED  BY <2>1, <2>3, <3>1
  <2>4. CASE i - L \in 1..k /\ e[i] = t[i - L]
    BY <2>1, <2>4
  <2>5. QED  BY <1>2, <2>2, <2>3, <2>4
<1>4. QED  BY <1>3 DEF e

\* Two sequences within the same bounds join within them.
LEMMA JoinBetween ==
    ASSUME NEW s \in Seq(Nat), NEW t \in Seq(Nat), NEW a, NEW b,
           Between(s, a, b), Between(t, a, b)
    PROVE  Between(s \o t, a, b)
BY JoinWindowTail DEF Between

\* Bounds on a window of a sequence survive dropping elements before it.
LEMMA CutWindow ==
    ASSUME NEW s \in Seq(Nat), NEW k \in 0..Len(s), NEW a, NEW b
    PROVE  /\ Window(s, 1, k, a, b) => Between(Take(s, k), a, b)
           /\ \A m, n \in Nat : m > k /\ n <= Len(s) /\ Window(s, m, n, a, b)
                 => Window(Drop(s, k), m - k, n - k, a, b)
<1> DEFINE u == Take(s, k)
           v == Drop(s, k)
<1>1. /\ Len(u) = k /\ Len(v) = Len(s) - k /\ k \in Nat /\ Len(s) \in Nat /\ k <= Len(s)
      /\ \A i \in 1..k : u[i] = s[i]
      /\ \A i \in 1..(Len(s) - k) : v[i] = s[k + i]
  BY Cut
<1> HIDE DEF u, v
<1>2. Window(s, 1, k, a, b) => Between(u, a, b)
  BY <1>1 DEF Window, Between
<1>3. ASSUME NEW m \in Nat, NEW n \in Nat, m > k, n <= Len(s), Window(s, m, n, a, b)
      PROVE  Window(v, m - k, n - k, a, b)
  <2> SUFFICES ASSUME NEW i \in (m - k)..(n - k) PROVE a <= v[i] /\ v[i] <= b
    BY DEF Window
  <2>1. k + i \in m..n /\ i \in 1..(Len(s) - k)
    BY <1>1, <1>3
  <2>2. QED  BY <1>1, <1>3, <2>1 DEF Window
<1>4. QED  BY <1>2, <1>3 DEF u, v

\* Sequences that live in disjoint ranges are ordered.
LEMMA Apart ==
    ASSUME NEW s \in Seq(Nat), NEW t \in Seq(Nat), NEW a \in Nat, NEW b \in Nat,
           NEW c \in Nat, NEW d \in Nat,
           Between(s, a, b), Between(t, c, d), b < c
    PROVE  Below(s, t)
<1>1. /\ \A i \in 1..Len(s) : s[i] \in Nat
      /\ \A i \in 1..Len(t) : t[i] \in Nat
  BY LenProperties
<1>2. QED  BY <1>1 DEF Between, Window, Below

\* Bounds may be relaxed.
LEMMA Relax ==
    ASSUME NEW s \in Seq(Nat), NEW m \in Nat \ {0}, NEW n \in 0..Len(s),
           NEW a \in Nat, NEW b \in Nat, NEW c \in Nat, NEW d \in Nat,
           Window(s, m, n, a, b), c <= a, b <= d
    PROVE  Window(s, m, n, c, d)
<1>1. \A i \in m..n : s[i] \in Nat
  BY LenProperties
<1>2. QED  BY <1>1 DEF Window

LEMMA RelaxBetween ==
    ASSUME NEW s \in Seq(Nat), NEW a \in Nat, NEW b \in Nat, NEW c \in Nat,
           NEW d \in Nat, Between(s, a, b), c <= a, b <= d
    PROVE  Between(s, c, d)
<1>1. \A i \in 1..Len(s) : s[i] \in Nat
  BY LenProperties
<1>2. QED  BY <1>1 DEF Between, Window

\* An empty sequence is in order with everything.
LEMMA NothingInOrder ==
    ASSUME NEW s \in Seq(Nat), Len(s) = 0, NEW t, NEW a, NEW b
    PROVE  Increasing(s) /\ Below(s, t) /\ Below(t, s) /\ Between(s, a, b)
BY DEF Increasing, Below, Between, Window

\* What is written or buffered at the end of two ordered sequences, the second
\* of which is empty if the first grows.
LEMMA Extend ==
    ASSUME NEW w \in Seq(Nat), NEW o \in Seq(Nat), NEW d \in Seq(Nat), NEW r \in Seq(Nat),
           NEW p \in Nat, NEW q \in Nat, NEW y \in Nat, NEW z \in Nat,
           p <= q, q <= y, y <= z,
           Between(w, 1, p), Between(o, 1, p), Between(d, p + 1, q), Between(r, q + 1, y),
           Increasing(w), Increasing(o), Increasing(d), Increasing(r),
           Below(w, o), Len(o) = 0 \/ Len(d) = 0
    PROVE  /\ Between(w \o d, 1, z) /\ Between(o \o r, 1, z)
           /\ Increasing(w \o d) /\ Increasing(o \o r)
           /\ Below(w \o d, o \o r)
<1>0. /\ p + 1 \in Nat /\ q + 1 \in Nat /\ 1 \in Nat /\ p < p + 1 /\ p < q + 1
      /\ q < q + 1 /\ p <= z /\ q <= z /\ 1 <= 1 /\ 1 <= p + 1 /\ 1 <= q + 1 /\ z <= z
  OBVIOUS
<1>1. Between(w, 1, z)
  BY <1>0, RelaxBetween
<1>2. Between(o, 1, z)
  BY <1>0, RelaxBetween
<1>3. Between(d, 1, z)
  BY <1>0, RelaxBetween
<1>4. Between(r, 1, z)
  BY <1>0, RelaxBetween
<1>5. Between(w \o d, 1, z)
  BY <1>1, <1>3, JoinBetween
<1>6. Between(o \o r, 1, z)
  BY <1>2, <1>4, JoinBetween
<1>7. Below(w, d)
  BY <1>0, Apart
<1>8. Below(w, r)
  BY <1>0, Apart
<1>9. Below(o, r)
  BY <1>0, Apart
<1>10. Below(d, r)
  BY <1>0, Apart
<1>11. Below(d, o)
  BY NothingInOrder
<1>12. Increasing(w \o d)
  BY <1>7, JoinOrder
<1>13. Increasing(o \o r)
  BY <1>9, JoinOrder
<1>14. Below(w, o \o r)
  BY <1>8, JoinBelow
<1>15. Below(d, o \o r)
  BY <1>10, <1>11, JoinBelow
<1>16. o \o r \in Seq(Nat)
  BY JoinPoints
<1>17. Below(w \o d, o \o r)
  BY <1>14, <1>15, <1>16, JoinBelow
<1>18. QED  BY <1>5, <1>6, <1>12, <1>13, <1>17


\* The same for a window that reaches the end.
LEMMA ExtendWindow ==
    ASSUME NEW s \in Seq(Nat), NEW t \in Seq(Nat), NEW m \in Nat \ {0},
           NEW a \in Nat, NEW b \in Nat, NEW c \in Nat, NEW d \in Nat, NEW z \in Nat,
           Window(s, m, Len(s), a, b), Between(t, c, d), a <= c, b <= z, d <= z
    PROVE  Window(s \o t, m, Len(s \o t), a, z)
<1>1. Len(s) \in 0..Len(s) /\ a <= a
  BY LenProperties
<1>2. Window(s, m, Len(s), a, z)
  BY <1>1, Relax
<1>3. Between(t, a, z)
  BY RelaxBetween
<1>4. QED  BY <1>2, <1>3, JoinWindowTail

\* Moving the head of the second of two ordered sequences to the first.
LEMMA Move ==
    ASSUME NEW w \in Seq(Nat), NEW o \in Seq(Nat), NEW p \in Nat, NEW k \in 0..Len(o),
           Between(w, 1, p), Between(o, 1, p),
           Increasing(w), Increasing(o), Below(w, o)
    PROVE  /\ Between(w \o Take(o, k), 1, p) /\ Between(Drop(o, k), 1, p)
           /\ Increasing(w \o Take(o, k)) /\ Increasing(Drop(o, k))
           /\ Below(w \o Take(o, k), Drop(o, k))
<1> DEFINE u == Take(o, k)
           v == Drop(o, k)
<1>1. /\ u \in Seq(Nat) /\ Len(u) = k /\ \A i \in 1..k : u[i] = o[i]
      /\ v \in Seq(Nat) /\ Len(v) = Len(o) - k
      /\ \A i \in 1..(Len(o) - k) : v[i] = o[k + i]
      /\ Len(o) \in Nat /\ k \in Nat
  BY Cut
<1>2. Increasing(u) /\ Increasing(v) /\ Below(u, v)
  BY CutOrder
<1> HIDE DEF u, v
<1>3. Between(u, 1, p)
  BY <1>1 DEF Between, Window
<1>4. Between(v, 1, p)
  <2> SUFFICES ASSUME NEW i \in 1..(Len(o) - k) PROVE 1 <= v[i] /\ v[i] <= p
    BY <1>1 DEF Between, Window
  <2>1. k + i \in 1..Len(o) /\ v[i] = o[k + i]
    BY <1>1
  <2>2. QED  BY <2>1 DEF Between, Window
<1>5. Below(w, u)
  <2> SUFFICES ASSUME NEW i \in 1..Len(w), NEW j \in 1..k PROVE w[i] < u[j]
    BY <1>1 DEF Below
  <2>1. j \in 1..Len(o) /\ u[j] = o[j]
    BY <1>1
  <2>2. QED  BY <2>1 DEF Below
<1>6. Below(w, v)
  <2> SUFFICES ASSUME NEW i \in 1..Len(w), NEW j \in 1..(Len(o) - k) PROVE w[i] < v[j]
    BY <1>1 DEF Below
  <2>1. k + j \in 1..Len(o) /\ v[j] = o[k + j]
    BY <1>1
  <2>2. QED  BY <2>1 DEF Below
<1>7. Between(w \o u, 1, p)
  BY <1>1, <1>3, JoinBetween
<1>8. Increasing(w \o u)
  BY <1>1, <1>2, <1>5, JoinOrder
<1>9. Below(w \o u, v)
  BY <1>1, <1>2, <1>6, JoinBelow
<1>10. QED  BY <1>2, <1>4, <1>7, <1>8, <1>9 DEF u, v

\* The bounds around a mark in a sequence when elements before it leave.
LEMMA MoveWindows ==
    ASSUME NEW w \in Seq(Nat), NEW o \in Seq(Nat), NEW h \in 0..Len(o), NEW k \in 0..h,
           NEW a \in Nat, NEW c \in Nat, NEW p \in Nat, Between(w, 1, a),
           Window(o, 1, h, 1, a), Window(o, h + 1, Len(o), c, p)
    PROVE  /\ Between(w \o Take(o, k), 1, a)
           /\ Window(Drop(o, k), 1, h - k, 1, a)
           /\ Window(Drop(o, k), h - k + 1, Len(Drop(o, k)), c, p)
<1> DEFINE u == Take(o, k)
           v == Drop(o, k)
<1>0. Len(o) \in Nat /\ k \in 0..Len(o) /\ h <= Len(o) /\ k <= h /\ h \in Nat /\ k \in Nat
  BY LenProperties
<1>1. /\ u \in Seq(Nat) /\ Len(u) = k /\ \A i \in 1..k : u[i] = o[i]
      /\ v \in Seq(Nat) /\ Len(v) = Len(o) - k
      /\ \A i \in 1..(Len(o) - k) : v[i] = o[k + i]
  BY <1>0, Cut
<1>2. /\ \A i \in 1..h : 1 <= o[i] /\ o[i] <= a
      /\ \A i \in (h + 1)..Len(o) : c <= o[i] /\ o[i] <= p
  BY DEF Window
<1> HIDE DEF u, v
<1>3. Between(u, 1, a)
  BY <1>0, <1>1, <1>2 DEF Between, Window
<1>4. Between(w \o u, 1, a)
  BY <1>1, <1>3, JoinBetween
<1>5. Window(v, 1, h - k, 1, a)
  <2> SUFFICES ASSUME NEW i \in 1..(h - k) PROVE 1 <= v[i] /\ v[i] <= a
    BY DEF Window
  <2>1. i \in Nat /\ k + i <= h /\ k + i >= 1 /\ i \in 1..(Len(o) - k)
    BY <1>0
  <2>2. k + i \in 1..h /\ v[i] = o[k + i]
    BY <1>0, <1>1, <2>1
  <2>3. QED  BY <1>2, <2>2
<1>6. Window(v, h - k + 1, Len(v), c, p)
  <2> SUFFICES ASSUME NEW i \in (h - k + 1)..(Len(o) - k) PROVE c <= v[i] /\ v[i] <= p
    BY <1>1 DEF Window
  <2>1. i \in Nat /\ k + i >= h + 1 /\ k + i <= Len(o) /\ i \in 1..(Len(o) - k)
    BY <1>0
  <2>2. k + i \in (h + 1)..Len(o) /\ v[i] = o[k + i]
    BY <1>0, <1>1, <2>1
  <2>3. QED  BY <1>2, <2>2
<1>7. QED  BY <1>4, <1>5, <1>6 DEF u, v

\* Inserting between two ordered sequences.
LEMMA InsertOrder ==
    ASSUME NEW w \in Seq(Nat), NEW o \in Seq(Nat), NEW d \in Seq(Nat),
           NEW a \in Nat, NEW b \in Nat, NEW c \in Nat, NEW p \in Nat,
           a <= b, b < c, b <= p,
           Between(w, 1, a), Between(d, a + 1, b), Between(o, c, p),
           Increasing(w), Increasing(d), Below(w, o)
    PROVE  /\ Between(w \o d, 1, b) /\ Between(w \o d, 1, p)
           /\ Increasing(w \o d) /\ Below(w \o d, o)
<1>0. a + 1 \in Nat /\ 1 \in Nat /\ 1 <= a + 1 /\ a < a + 1 /\ 1 <= 1 /\ b <= b
  OBVIOUS
<1>1. Between(w, 1, b)
  BY <1>0, RelaxBetween
<1>2. Between(d, 1, b)
  BY <1>0, RelaxBetween
<1>3. Between(w \o d, 1, b)
  BY <1>1, <1>2, JoinBetween
<1>4. w \o d \in Seq(Nat)
  BY JoinPoints
<1>5. Between(w \o d, 1, p)
  BY <1>0, <1>3, <1>4, RelaxBetween
<1>6. Below(w, d)
  BY <1>0, Apart
<1>7. Below(d, o)
  BY <1>0, Apart
<1>8. Increasing(w \o d)
  BY <1>6, JoinOrder
<1>9. Below(w \o d, o)
  BY <1>7, JoinBelow
<1>10. QED  BY <1>3, <1>5, <1>8, <1>9

-----------------------------------------------------------------------------
(* A queue of which elements leave at the head and enter at the tail.      *)

\* Moving the head of the second to the end of the first leaves it as it is.
LEMMA MoveHead ==
    ASSUME NEW S, NEW r \in Seq(S), NEW f \in Seq(S), f # <<>>
    PROVE  /\ Append(r, Head(f)) \o Tail(f) = r \o f
           /\ Append(r, Head(f)) \in Seq(S) /\ Tail(f) \in Seq(S)
<1>1. Head(f) \in S /\ Tail(f) \in Seq(S) /\ <<Head(f)>> \in Seq(S)
  BY HeadTailProperties
<1>2. Append(r, Head(f)) = r \o <<Head(f)>>
  BY <1>1, AppendIsConcat
<1>3. f = <<Head(f)>> \o Tail(f)
  BY HeadTailProperties
<1>4. (r \o <<Head(f)>>) \o Tail(f) = r \o (<<Head(f)>> \o Tail(f))
  BY <1>1, ConcatAssociative
<1>5. Append(r, Head(f)) \in Seq(S)
  BY <1>1, AppendProperties
<1>6. QED  BY <1>1, <1>2, <1>3, <1>4, <1>5

\* The head of the second is the element that follows the first in the three.
LEMMA NextElement ==
    ASSUME NEW S, NEW r \in Seq(S), NEW f \in Seq(S), NEW p \in Seq(S), f # <<>>
    PROVE  /\ Len(r) < Len(r \o f \o p)
           /\ (r \o f \o p)[Len(r) + 1] = Head(f)
<1>1. /\ Len(r) \in Nat /\ Len(f) \in Nat \ {0} /\ Len(p) \in Nat
  BY LenProperties, EmptySeq
<1>2. /\ r \o f \in Seq(S) /\ Len(r \o f) = Len(r) + Len(f)
      /\ (r \o f)[Len(r) + 1] = f[1]
  BY <1>1, ConcatProperties
<1>3. /\ Len(r \o f \o p) = Len(r) + Len(f) + Len(p)
      /\ (r \o f \o p)[Len(r) + 1] = (r \o f)[Len(r) + 1]
  BY <1>1, <1>2, ConcatProperties
<1>4. QED  BY <1>1, <1>2, <1>3

-----------------------------------------------------------------------------
(* A queue of tagged values, each pair <<tag, value>>.                     *)

\* The values that the queue has under a tag.
Tagged(q, tag) == {q[i][2] : i \in {j \in DOMAIN q : q[j][1] = tag}}

\* It has each of them once.
TaggedOnce(q, tag) ==
    \A i, j \in DOMAIN q : q[i][1] = tag /\ q[j][1] = tag /\ q[i][2] = q[j][2] => i = j

LEMMA TaggedTyped ==
    ASSUME NEW K, NEW V
    PROVE  \A q \in Seq(K \X V) : \A tag : Tagged(q, tag) \subseteq V
BY LenProperties DEF Tagged

LEMMA TaggedNone == \A tag : Tagged(<<>>, tag) = {} /\ TaggedOnce(<<>>, tag)
BY DEF Tagged, TaggedOnce

\* What is queued comes under its tag, once if it was not there.
LEMMA TaggedAppend ==
    ASSUME NEW S, NEW q \in Seq(S), NEW e \in S, NEW tag
    PROVE  /\ Append(q, e) \in Seq(S) /\ Append(q, e) # <<>>
           /\ e[1] = tag => Tagged(Append(q, e), tag) = Tagged(q, tag) \cup {e[2]}
           /\ e[1] # tag => Tagged(Append(q, e), tag) = Tagged(q, tag)
           /\ TaggedOnce(q, tag) /\ (e[1] = tag => e[2] \notin Tagged(q, tag))
                 => TaggedOnce(Append(q, e), tag)
<1> DEFINE r == Append(q, e)
           n == Len(q)
<1>1. /\ r \in Seq(S) /\ Len(r) = n + 1 /\ n \in Nat /\ r[n + 1] = e
      /\ \A i \in 1..n : r[i] = q[i]
      /\ DOMAIN r = 1..(n + 1) /\ DOMAIN q = 1..n /\ r # <<>>
  BY AppendProperties, LenProperties
<1> HIDE DEF r, n
<1>2. /\ e[1] = tag => Tagged(r, tag) = Tagged(q, tag) \cup {e[2]}
      /\ e[1] # tag => Tagged(r, tag) = Tagged(q, tag)
  <2>1. ASSUME NEW x
        PROVE  x \in Tagged(r, tag) <=> x \in Tagged(q, tag) \/ (e[1] = tag /\ x = e[2])
    <3>1. x \in Tagged(r, tag) <=> \E i \in 1..(n + 1) : r[i][1] = tag /\ x = r[i][2]
      BY <1>1 DEF Tagged
    <3>2. x \in Tagged(q, tag) <=> \E i \in 1..n : q[i][1] = tag /\ x = q[i][2]
      BY <1>1 DEF Tagged
    <3>3. \A i \in 1..(n + 1) : i \in 1..n \/ i = n + 1
      BY <1>1
    <3>4. n + 1 \in 1..(n + 1) /\ \A i \in 1..n : i \in 1..(n + 1)
      BY <1>1
    <3>5. QED  BY <1>1, <3>1, <3>2, <3>3, <3>4
  <2>2. QED  BY <2>1
<1>3. TaggedOnce(q, tag) /\ (e[1] = tag => e[2] \notin Tagged(q, tag)) => TaggedOnce(r, tag)
  BY <1>1 DEF Tagged, TaggedOnce
<1>4. QED  BY <1>1, <1>2, <1>3 DEF r

\* The head leaves its tag if it was there once.
LEMMA TaggedTail ==
    ASSUME NEW S, NEW q \in Seq(S), q # <<>>, NEW tag
    PROVE  /\ Tail(q) \in Seq(S) /\ q[1] \in S
           /\ Tagged(Tail(q), tag) \subseteq Tagged(q, tag)
           /\ q[1][1] = tag => q[1][2] \in Tagged(q, tag)
           /\ TaggedOnce(q, tag) => TaggedOnce(Tail(q), tag)
           /\ TaggedOnce(q, tag) /\ q[1][1] = tag => q[1][2] \notin Tagged(Tail(q), tag)
<1> DEFINE r == Tail(q)
           n == Len(q)
<1>1. /\ r \in Seq(S) /\ n \in Nat \ {0} /\ Len(r) = n - 1
      /\ \A i \in 1..(n - 1) : r[i] = q[i + 1]
      /\ DOMAIN r = 1..(n - 1) /\ DOMAIN q = 1..n
      /\ \A i \in 1..n : q[i] \in S
  BY HeadTailProperties, LenProperties, EmptySeq
<1> HIDE DEF r, n
<1>2. 1 \in 1..n /\ \A i \in 1..(n - 1) : i + 1 \in 1..n /\ i + 1 # 1
  BY <1>1
<1>3. Tagged(r, tag) \subseteq Tagged(q, tag) /\ (q[1][1] = tag => q[1][2] \in Tagged(q, tag))
  <2>1. ASSUME NEW i \in 1..(n - 1), r[i][1] = tag PROVE r[i][2] \in Tagged(q, tag)
    <3>1. i + 1 \in DOMAIN q /\ q[i + 1] = r[i]
      BY <1>1, <1>2
    <3>2. QED  BY <2>1, <3>1 DEF Tagged
  <2>2. Tagged(r, tag) \subseteq Tagged(q, tag)
    BY <1>1, <2>1 DEF Tagged
  <2>3. 1 \in DOMAIN q
    BY <1>1, <1>2
  <2>4. QED  BY <2>2, <2>3 DEF Tagged
<1>4. ASSUME TaggedOnce(q, tag) PROVE TaggedOnce(r, tag)
  <2> SUFFICES ASSUME NEW i \in 1..(n - 1), NEW j \in 1..(n - 1),
                      r[i][1] = tag, r[j][1] = tag, r[i][2] = r[j][2]
               PROVE  i = j
    BY <1>1 DEF TaggedOnce
  <2>1. /\ i + 1 \in DOMAIN q /\ j + 1 \in DOMAIN q
        /\ q[i + 1] = r[i] /\ q[j + 1] = r[j]
    BY <1>1, <1>2
  <2>2. i + 1 = j + 1
    BY <1>4, <2>1 DEF TaggedOnce
  <2>3. QED  BY <2>2
<1>5. ASSUME TaggedOnce(q, tag), q[1][1] = tag, q[1][2] \in Tagged(r, tag) PROVE FALSE
  <2>1. PICK i \in 1..(n - 1) : r[i][1] = tag /\ q[1][2] = r[i][2]
    BY <1>1, <1>5 DEF Tagged
  <2>2. /\ q[i + 1] \in S /\ q[1] \in S
        /\ r[i] = q[i + 1] /\ i + 1 \in 1..n /\ i + 1 # 1
    BY <1>1, <1>2
  <2>3. QED  BY <1>1, <1>2, <1>5, <2>1, <2>2 DEF TaggedOnce
<1>6. QED  BY <1>1, <1>2, <1>3, <1>4, <1>5 DEF r

-----------------------------------------------------------------------------
(* The order of the naturals.                                              *)

Less == {n \in Nat \X Nat : n[1] < n[2]}

LEMMA LeastNatural ==
    ASSUME NEW S \in SUBSET Nat, S # {}
    PROVE  \E m \in S : \A k \in S : m <= k
<1>1. IsWellFoundedOn(Less, Nat)
  BY NatLessThanWellFounded, Zenon DEF OpToRel, Less
<1>2. PICK m \in S : \A k \in S : <<k, m>> \notin Less
  BY <1>1, WFMin, Zenon
<1>3. \A k \in S : k \in Nat /\ m \in Nat /\ ~(k < m)
  BY <1>2 DEF Less
<1>4. \A k \in S : m <= k
  BY <1>3
<1>5. QED  BY <1>4

-----------------------------------------------------------------------------
(* Sums over a finite set.                                                 *)

Chosen(s) == CHOOSE x \in s : TRUE

\* g[s] is the sum of h over s, for every s among the subsets of S.
IsSum(g, h, S) ==
    g = [s \in SUBSET S |-> IF s = {} THEN 0 ELSE h[Chosen(s)] + g[s \ {Chosen(s)}]]
Sums(h, S) == CHOOSE g : IsSum(g, h, S)
SumOver(h, S) == Sums(h, S)[S]

\* A set that is not empty is one more than what is left without the chosen one.
LEMMA Smaller ==
    ASSUME NEW S, IsFiniteSet(S), NEW s \in SUBSET S
    PROVE  /\ Cardinality(s) \in Nat
           /\ s # {} => /\ Chosen(s) \in s /\ s \ {Chosen(s)} \in SUBSET S
                        /\ Cardinality(s \ {Chosen(s)}) = Cardinality(s) - 1
<1>1. IsFiniteSet(s) /\ Cardinality(s) \in Nat
  BY FS_Subset, FS_CardinalityType
<1>2. ASSUME s # {} PROVE Chosen(s) \in s
  BY <1>2, Zenon DEF Chosen
<1>3. ASSUME s # {} PROVE Cardinality(s \ {Chosen(s)}) = Cardinality(s) - 1
  BY <1>1, <1>2, <1>3, FS_RemoveElement
<1>4. QED  BY <1>1, <1>2, <1>3

LEMMA Descent ==
    ASSUME NEW S, IsFiniteSet(S), NEW s \in SUBSET S, s # {}
    PROVE  /\ Chosen(s) \in s /\ Chosen(s) \in S /\ s \ {Chosen(s)} \in SUBSET S
           /\ Cardinality(s \ {Chosen(s)}) < Cardinality(s)
BY Smaller

\* What holds of no least set holds of none.
LEMMA LeastSet ==
    ASSUME NEW S, IsFiniteSet(S), NEW bad \in SUBSET SUBSET S, bad # {}
    PROVE  \E s \in bad : \A r \in SUBSET S : Cardinality(r) < Cardinality(s) => r \notin bad
<1> DEFINE sizes == {Cardinality(s) : s \in bad}
<1>1. \A s \in SUBSET S : Cardinality(s) \in Nat
  BY Smaller
<1>2. sizes \in SUBSET Nat /\ sizes # {}
  BY <1>1
<1>3. PICK m \in sizes : \A k \in sizes : m <= k
  BY <1>2, LeastNatural, Zenon
<1>4. PICK s \in bad : m = Cardinality(s)
  BY <1>3
<1>5. \A r \in bad : Cardinality(s) <= Cardinality(r)
  BY <1>3, <1>4
<1>6. \A r \in SUBSET S : Cardinality(r) < Cardinality(s) => r \notin bad
  BY <1>1, <1>5
<1>7. QED  BY <1>6

LEMMA SumExists ==
    ASSUME NEW S, IsFiniteSet(S), NEW h
    PROVE  \E g : IsSum(g, h, S)
<1> DEFINE Term(g, s) == IF s = {} THEN 0 ELSE h[Chosen(s)] + g[s \ {Chosen(s)}]
           UpTo(g, k) == \A s \in SUBSET S : Cardinality(s) <= k => g[s] = Term(g, s)
           bad == {k \in Nat : ~ \E g : UpTo(g, k)}
<1>0. \A s \in SUBSET S :
         /\ Cardinality(s) \in Nat
         /\ s # {} => /\ s \ {Chosen(s)} \in SUBSET S
                      /\ Cardinality(s \ {Chosen(s)}) = Cardinality(s) - 1
  BY Smaller
<1>c. \A s \in SUBSET S : Cardinality(s) \in Nat
  BY <1>0
<1>1. bad = {}
  <2>0. SUFFICES ASSUME bad # {} PROVE FALSE
    OBVIOUS
  <2>a. bad \in SUBSET Nat /\ \A k \in Nat : k \notin bad => \E g : UpTo(g, k)
    BY Zenon
  <2>b. \A k \in bad : ~ \E g : UpTo(g, k)
    BY Zenon
  <2> HIDE DEF bad
  <2>1. PICK m \in bad : \A k \in bad : m <= k
    BY <2>0, <2>a, LeastNatural, Zenon
  <2>c. m \in Nat /\ (m # 0 => m - 1 \in Nat /\ m - 1 \notin bad)
    BY <2>a, <2>1
  <2>2. \E f : \A s \in SUBSET S : Cardinality(s) < m => f[s] = Term(f, s)
    <3>1. CASE m = 0
      <4>1. \A s \in SUBSET S : ~ (Cardinality(s) < m)
        BY <1>c, <3>1
      <4>2. QED  BY <4>1, Zenon
    <3>2. CASE m # 0
      <4>1. PICK f : UpTo(f, m - 1)
        BY <2>a, <2>c, <3>2, Zenon
      <4>2. ASSUME NEW s \in SUBSET S, Cardinality(s) < m
            PROVE  Cardinality(s) <= m - 1
        BY <1>c, <2>c, <4>2
      <4>3. QED  BY <4>1, <4>2, Zenon
    <3>3. QED  BY <3>1, <3>2
  <2>3. PICK f : \A s \in SUBSET S : Cardinality(s) < m => f[s] = Term(f, s)
    BY <2>2
  <2> DEFINE g == [s \in SUBSET S |-> Term(f, s)]
  <2>4. ASSUME NEW s \in SUBSET S, Cardinality(s) <= m
        PROVE  g[s] = Term(g, s)
    <3>1. s = {} => g[s] = Term(g, s)
      OBVIOUS
    <3>2. ASSUME s # {} PROVE g[s \ {Chosen(s)}] = f[s \ {Chosen(s)}]
      <4>1. /\ s \ {Chosen(s)} \in SUBSET S
            /\ Cardinality(s \ {Chosen(s)}) < m
        BY <1>0, <2>c, <2>4, <3>2
      <4>2. f[s \ {Chosen(s)}] = Term(f, s \ {Chosen(s)})
        BY <2>3, <4>1
      <4>3. g[s \ {Chosen(s)}] = Term(f, s \ {Chosen(s)})
        BY <4>1, Zenon
      <4>4. QED  BY <4>2, <4>3, Zenon
    <3>3. g[s] = Term(f, s)
      BY Zenon
    <3> HIDE DEF g
    <3>4. QED  BY <3>1, <3>2, <3>3
  <2> HIDE DEF g
  <2>5. UpTo(g, m)
    BY <2>4
  <2>6. QED  BY <2>b, <2>5, Zenon
<1>2. Cardinality(S) \in Nat /\ \A s \in SUBSET S : Cardinality(s) <= Cardinality(S)
  BY FS_Subset, FS_CardinalityType
<1>3. PICK g : UpTo(g, Cardinality(S))
  BY <1>1, <1>2
<1> DEFINE f == [s \in SUBSET S |-> g[s]]
<1>4. \A s \in SUBSET S : f[s] = g[s] /\ g[s] = Term(g, s)
  BY <1>2, <1>3
<1>5. \A s \in SUBSET S : s # {} => f[s \ {Chosen(s)}] = g[s \ {Chosen(s)}]
  BY <1>0
<1>6. f = [s \in SUBSET S |-> f[s]]
  OBVIOUS
<1> HIDE DEF f
<1>7. \A s \in SUBSET S : f[s] = Term(f, s)
  BY <1>4, <1>5
<1>8. f = [s \in SUBSET S |-> Term(f, s)]
  BY <1>6, <1>7
<1>9. IsSum(f, h, S)
  BY <1>8, Zenon DEF IsSum
<1>10. QED  BY <1>9

LEMMA SumValues ==
    ASSUME NEW S, IsFiniteSet(S), NEW h
    PROVE  \A s \in SUBSET S :
              Sums(h, S)[s] = IF s = {} THEN 0
                              ELSE h[Chosen(s)] + Sums(h, S)[s \ {Chosen(s)}]
<1>1. IsSum(Sums(h, S), h, S)
  BY SumExists DEF Sums
<1> DEFINE g == Sums(h, S)
<1> HIDE DEF g
<1>2. \A s \in SUBSET S : g[s] = IF s = {} THEN 0 ELSE h[Chosen(s)] + g[s \ {Chosen(s)}]
  BY <1>1, Zenon DEF IsSum, g
<1>3. QED  BY <1>2, Zenon DEF g

LEMMA SumTyped ==
    ASSUME NEW S, IsFiniteSet(S), NEW h, \A x \in S : h[x] \in Nat
    PROVE  /\ \A s \in SUBSET S : Sums(h, S)[s] \in Nat
           /\ SumOver(h, S) \in Nat
<1> DEFINE g == Sums(h, S)
           Right(s) == g[s] \in Nat
           bad == {s \in SUBSET S : ~Right(s)}
<1>1. \A s \in SUBSET S : g[s] = IF s = {} THEN 0 ELSE h[Chosen(s)] + g[s \ {Chosen(s)}]
  BY SumValues
<1> HIDE DEF g
<1>2. SUFFICES ASSUME bad # {} PROVE FALSE
  BY DEF g, SumOver
<1>0. bad \in SUBSET SUBSET S
  OBVIOUS
<1> HIDE DEF bad, Right
<1>3. PICK s \in bad : \A r \in SUBSET S : Cardinality(r) < Cardinality(s) => r \notin bad
  BY <1>0, <1>2, LeastSet, Zenon
<1>4. s \in SUBSET S /\ g[s] \notin Nat
  BY Zenon DEF bad, Right
<1>5. s # {}
  <2>1. g[s] = IF s = {} THEN 0 ELSE h[Chosen(s)] + g[s \ {Chosen(s)}]
    BY <1>1, <1>4, Zenon
  <2>2. 0 \in Nat
    OBVIOUS
  <2>3. QED  BY <1>4, <2>1, <2>2, Zenon
<1>6. /\ Chosen(s) \in S /\ s \ {Chosen(s)} \in SUBSET S
      /\ Cardinality(s \ {Chosen(s)}) < Cardinality(s)
  BY <1>4, <1>5, Descent, Zenon
<1>7. g[s \ {Chosen(s)}] \in Nat
  BY <1>3, <1>6 DEF bad, Right
<1>8. h[Chosen(s)] \in Nat
  BY <1>6
<1>9. g[s] = h[Chosen(s)] + g[s \ {Chosen(s)}]
  BY <1>1, <1>4, <1>5
<1>10. QED  BY <1>4, <1>7, <1>8, <1>9

LEMMA SumOfZeros ==
    ASSUME NEW S, IsFiniteSet(S), NEW h, \A x \in S : h[x] = 0
    PROVE  SumOver(h, S) = 0
<1> DEFINE g == Sums(h, S)
           bad == {s \in SUBSET S : g[s] # 0}
<1>1. \A s \in SUBSET S : g[s] = IF s = {} THEN 0 ELSE h[Chosen(s)] + g[s \ {Chosen(s)}]
  BY SumValues
<1> HIDE DEF g
<1>2. SUFFICES ASSUME bad # {} PROVE FALSE
  <2>1. S \notin bad
    BY <1>2
  <2>2. QED  BY <2>1 DEF SumOver, g
<1>0. bad \in SUBSET SUBSET S
  OBVIOUS
<1> HIDE DEF bad
<1>3. PICK s \in bad : \A r \in SUBSET S : Cardinality(r) < Cardinality(s) => r \notin bad
  BY <1>0, <1>2, LeastSet, Zenon
<1>4. s \in SUBSET S /\ g[s] # 0
  BY Zenon DEF bad
<1>5. s # {}
  BY <1>1, <1>4
<1>6. /\ Chosen(s) \in S /\ s \ {Chosen(s)} \in SUBSET S
      /\ Cardinality(s \ {Chosen(s)}) < Cardinality(s)
  BY <1>4, <1>5, Smaller
<1>7. g[s \ {Chosen(s)}] = 0 /\ h[Chosen(s)] = 0
  BY <1>3, <1>6 DEF bad
<1>8. g[s] = h[Chosen(s)] + g[s \ {Chosen(s)}]
  BY <1>1, <1>4, <1>5
<1>9. QED  BY <1>4, <1>7, <1>8

\* Over S, hh is h with n more at x.
Raised(h, hh, S, x, n) ==
    \A y \in S : h[y] \in Nat /\ hh[y] = IF y = x THEN h[y] + n ELSE h[y]

\* One of them made greater, if it is there.
LEMMA SumGrows ==
    ASSUME NEW S, IsFiniteSet(S), NEW h, NEW hh, NEW x, NEW n \in Nat,
           Raised(h, hh, S, x, n)
    PROVE  /\ SumOver(h, S) \in Nat
           /\ SumOver(hh, S) = IF x \in S THEN SumOver(h, S) + n ELSE SumOver(h, S)
<1> DEFINE f == Sums(h, S)
           g == Sums(hh, S)
           Right(s) == IF x \in s THEN g[s] = f[s] + n ELSE g[s] = f[s]
           bad == {s \in SUBSET S : ~Right(s)}
<1>1. \A s \in SUBSET S : f[s] = IF s = {} THEN 0 ELSE h[Chosen(s)] + f[s \ {Chosen(s)}]
  BY SumValues, Zenon
<1>2. \A s \in SUBSET S : g[s] = IF s = {} THEN 0 ELSE hh[Chosen(s)] + g[s \ {Chosen(s)}]
  BY SumValues, Zenon
<1>3. \A s \in SUBSET S : f[s] \in Nat
  BY SumTyped DEF Raised
<1>4. \A y \in S : h[y] \in Nat /\ hh[y] = IF y = x THEN h[y] + n ELSE h[y]
  BY DEF Raised
<1> HIDE DEF f, g
<1>5. bad = {}
  <2>0. SUFFICES ASSUME bad # {} PROVE FALSE
    OBVIOUS
  <2>1. bad \in SUBSET SUBSET S
    OBVIOUS
  <2> HIDE DEF bad
  <2>2. PICK s \in bad : \A r \in SUBSET S : Cardinality(r) < Cardinality(s) => r \notin bad
    BY <2>0, <2>1, LeastSet, Zenon
  <2>3. s \in SUBSET S /\ ~Right(s)
    BY Zenon DEF bad
  <2>4. s # {}
    BY <1>1, <1>2, <2>3
  <2> DEFINE c == Chosen(s)
             r == s \ {c}
  <2>5. c \in s /\ c \in S /\ r \in SUBSET S /\ Cardinality(r) < Cardinality(s)
    BY <2>3, <2>4, Descent, Zenon
  <2>6. Right(r)
    BY <2>2, <2>5 DEF bad
  <2>7. f[s] = h[c] + f[r] /\ g[s] = hh[c] + g[r] /\ f[r] \in Nat
    BY <1>1, <1>2, <1>3, <2>3, <2>4, <2>5
  <2>8. h[c] \in Nat /\ hh[c] = IF c = x THEN h[c] + n ELSE h[c]
    BY <1>4, <2>5
  <2>9. x \in r <=> x \in s /\ c # x
    OBVIOUS
  <2> HIDE DEF c, r
  <2>10. CASE c = x
    BY <2>3, <2>5, <2>6, <2>7, <2>8, <2>9, <2>10
  <2>11. CASE c # x
    BY <2>3, <2>5, <2>6, <2>7, <2>8, <2>9, <2>11
  <2>12. QED  BY <2>10, <2>11
<1>6. f[S] \in Nat /\ g[S] = IF x \in S THEN f[S] + n ELSE f[S]
  BY <1>3, <1>5
<1>7. QED  BY <1>6 DEF SumOver, f, g

LEMMA SumOfOne ==
    ASSUME NEW x, NEW h, h[x] \in Nat
    PROVE  SumOver(h, {x}) = h[x]
<1>1. IsFiniteSet({x})
  BY FS_Singleton
<1> DEFINE g == Sums(h, {x})
<1>2. \A s \in SUBSET {x} : g[s] = IF s = {} THEN 0 ELSE h[Chosen(s)] + g[s \ {Chosen(s)}]
  BY <1>1, SumValues, Zenon
<1>3. Chosen({x}) = x
  BY Zenon DEF Chosen
<1> HIDE DEF g
<1>4. g[{}] = 0
  BY <1>2
<1>5. g[{x}] = h[Chosen({x})] + g[{x} \ {Chosen({x})}]
  BY <1>2
<1>6. {x} \ {Chosen({x})} = {}
  BY <1>3
<1>7. g[{x}] = h[x] + 0
  BY <1>3, <1>4, <1>5, <1>6
<1>8. QED  BY <1>7 DEF g, SumOver

\* Over S, hh is nowhere less than h.
Dominated(h, hh, S) == \A y \in S : h[y] \in Nat /\ hh[y] \in Nat /\ h[y] <= hh[y]

LEMMA SumMonotone ==
    ASSUME NEW S, IsFiniteSet(S), NEW h, NEW hh, Dominated(h, hh, S)
    PROVE  SumOver(h, S) <= SumOver(hh, S)
<1> DEFINE f == Sums(h, S)
           g == Sums(hh, S)
           Right(s) == f[s] <= g[s]
           bad == {s \in SUBSET S : ~Right(s)}
<1>1. \A s \in SUBSET S : f[s] = IF s = {} THEN 0 ELSE h[Chosen(s)] + f[s \ {Chosen(s)}]
  BY SumValues, Zenon
<1>2. \A s \in SUBSET S : g[s] = IF s = {} THEN 0 ELSE hh[Chosen(s)] + g[s \ {Chosen(s)}]
  BY SumValues, Zenon
<1>3. \A s \in SUBSET S : f[s] \in Nat
  BY SumTyped DEF Dominated
<1>4. \A s \in SUBSET S : g[s] \in Nat
  BY SumTyped DEF Dominated
<1> HIDE DEF f, g
<1>5. bad = {}
  <2>0. SUFFICES ASSUME bad # {} PROVE FALSE
    OBVIOUS
  <2>1. bad \in SUBSET SUBSET S
    OBVIOUS
  <2> HIDE DEF bad
  <2>2. PICK s \in bad : \A r \in SUBSET S : Cardinality(r) < Cardinality(s) => r \notin bad
    BY <2>0, <2>1, LeastSet, Zenon
  <2>3. s \in SUBSET S /\ ~(f[s] <= g[s])
    BY Zenon DEF bad
  <2>4. s # {}
    <3>1. f[s] = 0 /\ g[s] = 0 => f[s] <= g[s]
      OBVIOUS
    <3>2. s = {} => f[s] = 0 /\ g[s] = 0
      BY <1>1, <1>2, <2>3
    <3>3. QED  BY <2>3, <3>1, <3>2
  <2> DEFINE c == Chosen(s)
             r == s \ {c}
  <2>5. c \in S /\ r \in SUBSET S /\ Cardinality(r) < Cardinality(s)
    BY <2>3, <2>4, Descent, Zenon
  <2>6. f[r] <= g[r]
    BY <2>2, <2>5 DEF bad
  <2>7. /\ f[s] = h[c] + f[r] /\ g[s] = hh[c] + g[r]
        /\ f[r] \in Nat /\ g[r] \in Nat
    BY <1>1, <1>2, <1>3, <1>4, <2>3, <2>4, <2>5
  <2>8. h[c] \in Nat /\ hh[c] \in Nat /\ h[c] <= hh[c]
    BY <2>5 DEF Dominated
  <2> HIDE DEF c, r
  <2>9. QED  BY <2>3, <2>6, <2>7, <2>8
<1>6. QED  BY <1>5 DEF SumOver, f, g

\* The sum over a part is the same, whatever it is a part of.
LEMMA SumOfPart ==
    ASSUME NEW S, IsFiniteSet(S), NEW h, NEW T \in SUBSET S
    PROVE  Sums(h, S)[T] = SumOver(h, T)
<1> DEFINE f == Sums(h, S)
           g == Sums(h, T)
           bad == {s \in SUBSET T : f[s] # g[s]}
<1>0. IsFiniteSet(T) /\ SUBSET T \subseteq SUBSET S
  BY FS_Subset
<1>1. \A s \in SUBSET S : f[s] = IF s = {} THEN 0 ELSE h[Chosen(s)] + f[s \ {Chosen(s)}]
  BY SumValues, Zenon
<1>2. \A s \in SUBSET T : g[s] = IF s = {} THEN 0 ELSE h[Chosen(s)] + g[s \ {Chosen(s)}]
  BY <1>0, SumValues, Zenon
<1> HIDE DEF f, g
<1>5. bad = {}
  <2>0. SUFFICES ASSUME bad # {} PROVE FALSE
    OBVIOUS
  <2>1. bad \in SUBSET SUBSET T
    OBVIOUS
  <2> HIDE DEF bad
  <2>2. PICK s \in bad : \A r \in SUBSET T : Cardinality(r) < Cardinality(s) => r \notin bad
    BY <1>0, <2>0, <2>1, LeastSet, Zenon
  <2>3. s \in SUBSET T /\ s \in SUBSET S /\ f[s] # g[s]
    BY <1>0, Zenon DEF bad
  <2>4. s # {}
    BY <1>1, <1>2, <2>3
  <2> DEFINE c == Chosen(s)
             r == s \ {c}
  <2>5. c \in T /\ r \in SUBSET T /\ Cardinality(r) < Cardinality(s)
    BY <1>0, <2>3, <2>4, Descent, Zenon
  <2>6. f[r] = g[r]
    BY <2>2, <2>5 DEF bad
  <2>7. f[s] = h[c] + f[r] /\ g[s] = h[c] + g[r]
    BY <1>1, <1>2, <2>3, <2>4
  <2>8. QED  BY <2>3, <2>6, <2>7
<1>6. QED  BY <1>5 DEF SumOver, f, g

\* What one of them adds.
LEMMA SumWithout ==
    ASSUME NEW S, IsFiniteSet(S), NEW h, \A y \in S : h[y] \in Nat, NEW x \in S
    PROVE  SumOver(h, S) = SumOver(h, S \ {x}) + h[x]
<1> DEFINE f == Sums(h, S)
           Right(s) == \A y \in s : f[s] = f[s \ {y}] + h[y]
           bad == {s \in SUBSET S : ~Right(s)}
<1>1. \A s \in SUBSET S : f[s] = IF s = {} THEN 0 ELSE h[Chosen(s)] + f[s \ {Chosen(s)}]
  BY SumValues, Zenon
<1>2. \A s \in SUBSET S : f[s] \in Nat
  BY SumTyped
<1>3. f[S \ {x}] = SumOver(h, S \ {x}) /\ f[S] = SumOver(h, S)
  BY SumOfPart, Zenon DEF SumOver
<1> HIDE DEF f
<1>5. bad = {}
  <2>0. SUFFICES ASSUME bad # {} PROVE FALSE
    OBVIOUS
  <2>1. bad \in SUBSET SUBSET S
    OBVIOUS
  <2> HIDE DEF bad
  <2>2. PICK s \in bad : \A r \in SUBSET S : Cardinality(r) < Cardinality(s) => r \notin bad
    BY <2>0, <2>1, LeastSet, Zenon
  <2>3. s \in SUBSET S /\ \E y \in s : f[s] # f[s \ {y}] + h[y]
    BY Zenon DEF bad
  <2>4. PICK y \in s : f[s] # f[s \ {y}] + h[y]
    BY <2>3
  <2> DEFINE c == Chosen(s)
             r == s \ {c}
             q == s \ {y}
  <2>5. c \in s /\ c \in S /\ r \in SUBSET S /\ Cardinality(r) < Cardinality(s)
    BY <2>3, <2>4, Descent, Zenon
  <2>6. f[s] = h[c] + f[r] /\ h[c] \in Nat /\ f[r] \in Nat
    BY <1>1, <1>2, <2>3, <2>4, <2>5
  <2>7. y # c
    BY <2>4, <2>6
  <2>8. y \in r /\ c \in q /\ q \in SUBSET S /\ r \ {y} = q \ {c}
    BY <2>3, <2>4, <2>5, <2>7
  <2>9. Cardinality(q) < Cardinality(s)
    <3>1. IsFiniteSet(s) /\ Cardinality(s) \in Nat
      BY <2>3, FS_Subset, FS_CardinalityType
    <3>2. Cardinality(q) = Cardinality(s) - 1
      BY <3>1, FS_RemoveElement
    <3>3. QED  BY <3>1, <3>2
  <2>10. f[r] = f[r \ {y}] + h[y]
    BY <2>2, <2>5, <2>8 DEF bad
  <2>11. f[q] = f[q \ {c}] + h[c]
    BY <2>2, <2>8, <2>9 DEF bad
  <2>12. h[y] \in Nat /\ f[q \ {c}] \in Nat
    <3>1. q \ {c} \in SUBSET S /\ y \in S
      BY <2>3, <2>8
    <3>2. QED  BY <1>2, <3>1
  <2> HIDE DEF c, r, q
  <2>13. f[s] = f[q] + h[y]
    BY <2>6, <2>8, <2>10, <2>11, <2>12
  <2>14. QED  BY <2>4, <2>13 DEF q
<1>6. f[S] = f[S \ {x}] + h[x]
  BY <1>5
<1>7. QED  BY <1>3, <1>6
=============================================================================
