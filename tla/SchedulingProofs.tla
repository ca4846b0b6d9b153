--------------------------- MODULE SchedulingProofs ---------------------------
(***************************************************************************)
(* Proofs about what runs when: the timers of a loop (TimerQueue), the     *)
(* loop and its thread (EventLoop, EventLoopThread) and the workers        *)
(* (ThreadPool), for every value of their constants.                       *)
(*                                                                         *)
(* The three have no state in common, and each names its specification:  *)
(* TimerSpec, Spec and ThreadSpec, PoolSpec.                               *)
(***************************************************************************)
EXTENDS TimerQueue, EventLoopThread, ThreadPool, CommonLemmas

Op == {"insert", "cancel"} \X Timers

-----------------------------------------------------------------------------
(* Types of the timers.                                                    *)

LEMMA CancelTyped ==
    ASSUME TimerTypeOK, NEW t \in Timers, cancelInLoop(t)
    PROVE  /\ active' \subseteq Timers /\ entries' \subseteq Nat \X Timers
           /\ cancelled' \subseteq Timers /\ raced' \subseteq cancelled'
           /\ UNCHANGED <<expiration, interval, fired>>
BY DEF TimerTypeOK, cancelInLoop

LEMMA NewTimerTyped ==
    ASSUME TimerTypeOK, NEW d \in Delays, NEW i \in Intervals, NewTimer(d, i)
    PROVE  /\ created' \in 0..MaxTimers /\ created + 1 \in Timers
           /\ d \in Nat /\ i \in Nat /\ now + d \in Nat
           /\ expiration' = [expiration EXCEPT ![created + 1] = now + d]
           /\ interval' = [interval EXCEPT ![created + 1] = i]
           /\ expiration' \in [Timers -> Nat] /\ interval' \in [Timers -> Nat]
<1>1. created + 1 \in Timers /\ created' \in 0..MaxTimers
  BY TimesAssumption DEF TimerTypeOK, NewTimer, Timers
<1>2. d \in Nat /\ i \in Nat /\ now + d \in Nat
  BY TimesAssumption DEF TimerTypeOK
<1>3. QED  BY <1>1, <1>2 DEF TimerTypeOK, NewTimer

LEMMA TimerTypeInit == TimerInit => TimerTypeOK
<1> SUFFICES ASSUME TimerInit PROVE TimerTypeOK
  OBVIOUS
<1>1. ops \in Seq(Op) /\ batch \in Seq(Op)
  BY EmptySeq DEF TimerInit
<1>2. /\ now \in Nat /\ deadline \in Nat /\ currentTime \in Nat
      /\ created \in 0..MaxTimers
  BY TimesAssumption DEF TimerInit, Never
<1>3. /\ expiration \in [Timers -> Nat] /\ interval \in [Timers -> Nat]
      /\ fired \in [Timers -> Nat]
  BY DEF TimerInit
<1>4. QED  BY <1>1, <1>2, <1>3 DEF TimerInit, TimerTypeOK, Op

-----------------------------------------------------------------------------
(* The order of the entries.                                               *)

\* The first entry in the order of the set is there whenever there is an entry.
LEMMA FirstEntry ==
    ASSUME NEW es \in SUBSET (Nat \X Timers), es # {}
    PROVE  \E e \in es : \A f \in es : e = f \/ Precedes(e, f)
<1> DEFINE W == {e[1] : e \in es}
<1>1. PICK m \in W : \A w \in W : m <= w
  <2>1. \A e \in es : e[1] \in Nat
    OBVIOUS
  <2>2. W \in SUBSET Nat
    BY <2>1
  <2>3. W # {}
    OBVIOUS
  <2> HIDE DEF W
  <2>4. QED  BY <2>2, <2>3, LeastNatural
<1> DEFINE I == {e[2] : e \in {f \in es : f[1] = m}}
<1>2. PICK i \in I : \A j \in I : i <= j
  <2>1. \A e \in es : e[2] \in Nat
    BY DEF Timers
  <2>2. I \in SUBSET Nat
    BY <2>1
  <2>3. I # {}
    BY <1>1
  <2> HIDE DEF I
  <2>4. QED  BY <2>2, <2>3, LeastNatural
<1>3. PICK e \in es : e[1] = m /\ e[2] = i
  BY <1>2
<1>4. ASSUME NEW f \in es PROVE e = f \/ Precedes(e, f)
  <2>1. e \in Nat \X Timers /\ f \in Nat \X Timers /\ m <= f[1]
    BY <1>1
  <2>2. f[1] = m => i <= f[2]
    BY <1>2
  <2>3. e = <<e[1], e[2]>> /\ f = <<f[1], f[2]>>
    BY <2>1
  <2>4. e[1] \in Nat /\ e[2] \in Nat /\ f[1] \in Nat /\ f[2] \in Nat
    BY <2>1 DEF Timers
  <2>5. QED  BY <1>3, <2>1, <2>2, <2>3, <2>4 DEF Precedes
<1>5. QED  BY <1>4

\* nextTimeoutMs() is no later than any entry.
LEMMA NextTimeoutIsFirst ==
    ASSUME TimerTypeOK
    PROVE  nextTimeout \in Nat /\ \A e \in entries : nextTimeout <= e[1]
<1>1. CASE entries = {}
  BY <1>1, TimesAssumption DEF nextTimeout, Never
<1>2. CASE entries # {}
  <2> DEFINE first == CHOOSE e \in entries : \A f \in entries : e = f \/ Precedes(e, f)
  <2>1. entries \in SUBSET (Nat \X Timers)
    BY DEF TimerTypeOK
  <2>2. first \in entries /\ \A f \in entries : first = f \/ Precedes(first, f)
    BY <1>2, <2>1, FirstEntry
  <2>3. nextTimeout = first[1]
    BY <1>2 DEF nextTimeout
  <2> HIDE DEF first
  <2>4. first[1] \in Nat /\ \A f \in entries : f[1] \in Nat
    BY <2>1, <2>2
  <2>5. QED  BY <2>2, <2>3, <2>4 DEF Precedes
<1>3. QED  BY <1>1, <1>2

-----------------------------------------------------------------------------
(* The inductive invariant.  A timer another thread has built is inserted by  *)
(* one task, and nothing has happened to it before; the entries of a batch    *)
(* are due; a loop that sleeps was told of the first timer, and of the tasks. *)

Inserts(q)  == Tagged(q, "insert")
EachOnce(q) == TaggedOnce(q, "insert")

\* Timers that exist, or will, but are not inserted yet.
Outside == handed \cup Inserts(ops) \cup Inserts(batch)
Unborn  == Outside \cup {t \in Timers : t > created}

HandoffInv ==
    /\ batch # <<>> => place = "functor"
    /\ EachOnce(ops) /\ EachOnce(batch)
    /\ Inserts(ops) \cap Inserts(batch) = {}
    /\ handed \cap (Inserts(ops) \cup Inserts(batch)) = {}
    /\ \A t \in Outside : t <= created

Untouched(t) ==
    /\ t \notin active /\ t \notin Ids(entries \cup expired)
    /\ fired[t] = 0 /\ t \notin cancelled

IndexInv == IndexesAgree /\ CancelledIsGone /\ OneShotOnce

TimeInv ==
    /\ currentTime <= now
    /\ \A e \in expired : e[1] <= currentTime
    /\ place = "wait" => \A e \in entries : deadline <= e[1]
    /\ place \in {"functor", "head", "wait"} /\ ops # <<>> => woken

TimerInv ==
    /\ TimerTypeOK /\ HandoffInv /\ IndexInv /\ TimeInv
    /\ \A t \in Unborn : Untouched(t)

-----------------------------------------------------------------------------
(* Queues of tasks.                                                        *)

LEMMA AppendTask ==
    ASSUME NEW q \in Seq(Op), NEW e \in Op
    PROVE  /\ Append(q, e) \in Seq(Op) /\ Append(q, e) # <<>>
           /\ Inserts(Append(q, e)) =
                 Inserts(q) \cup (IF e[1] = "insert" THEN {e[2]} ELSE {})
           /\ EachOnce(q) /\ (e[1] = "insert" => e[2] \notin Inserts(q))
                 => EachOnce(Append(q, e))
BY TaggedAppend DEF Inserts, EachOnce

LEMMA TailTask ==
    ASSUME NEW q \in Seq(Op), q # <<>>
    PROVE  /\ Tail(q) \in Seq(Op) /\ q[1] \in Op
           /\ Inserts(Tail(q)) \subseteq Inserts(q)
           /\ q[1][1] = "insert" => q[1][2] \in Inserts(q)
           /\ EachOnce(q) => EachOnce(Tail(q))
           /\ EachOnce(q) /\ q[1][1] = "insert" => q[1][2] \notin Inserts(Tail(q))
BY TaggedTail DEF Inserts, EachOnce

LEMMA NoTask == Inserts(<<>>) = {} /\ EachOnce(<<>>)
BY TaggedNone DEF Inserts, EachOnce

LEMMA InsertsTyped == \A q \in Seq(Op) : Inserts(q) \subseteq Timers
BY TaggedTyped DEF Op, Inserts

-----------------------------------------------------------------------------
\* Fire takes the first entry of the batch.
FireOf(e) ==
    /\ place = "expire"
    /\ \A f \in expired : e = f \/ Precedes(e, f)
    /\ expired' = expired \ {e}
    /\ fired' = [fired EXCEPT ![e[2]] = @ + 1]
    /\ IF interval[e[2]] > 0
       THEN /\ expiration' = [expiration EXCEPT ![e[2]] = currentTime + interval[e[2]]]
            /\ Insert(e[2], currentTime + interval[e[2]])
       ELSE active' = active \ {e[2]} /\ UNCHANGED <<entries, expiration>>
    /\ place' = "callback"
    /\ UNCHANGED <<now, created, interval, deadline, woken, currentTime,
                   otherVars, cancelled, raced>>

LEMMA FireFires == Fire => \E e \in expired : FireOf(e)
BY Zenon DEF Fire, FireOf

\* Every variable of the loop keeps its type in every step of the loop and of the threads
\* that post to it (EventLoop.cpp).
LEMMA TimerTypeStep == TimerTypeOK /\ [TimerNext]_timerVars => TimerTypeOK'
<1> SUFFICES ASSUME TimerTypeOK, [TimerNext]_timerVars PROVE TimerTypeOK'
  OBVIOUS
<1> USE DEF loopVars, indexVars, expiryVars, otherVars, history
<1>0. ops \in Seq(Op) /\ batch \in Seq(Op)
  BY DEF TimerTypeOK, Op
<1>1. CASE Poll
  BY <1>1, NextTimeoutIsFirst DEF Poll, TimerTypeOK
<1>2. CASE WaitReturns
  BY <1>2 DEF WaitReturns, TimerTypeOK
<1>3. CASE TakeExpired
  BY <1>3 DEF TakeExpired, TimerTypeOK
<1>4. CASE Fire
  <2> PICK e \in expired : FireOf(e)
    BY <1>4, FireFires
  <2> USE DEF FireOf
  <2>1. e[2] \in Timers
    BY DEF TimerTypeOK
  <2>2. fired[e[2]] + 1 \in Nat /\ currentTime + interval[e[2]] \in Nat
    BY <2>1 DEF TimerTypeOK
  <2>3. fired' \in [Timers -> Nat] /\ expiration' \in [Timers -> Nat]
    BY <2>1, <2>2 DEF TimerTypeOK
  <2>4. active' \subseteq Timers /\ entries' \subseteq Nat \X Timers
    BY <2>1, <2>2 DEF TimerTypeOK, Insert
  <2>5. QED  BY <2>3, <2>4 DEF TimerTypeOK
<1>5. CASE CallbackReturns
  BY <1>5 DEF CallbackReturns, TimerTypeOK
<1>6. CASE TakeFunctors
  BY <1>6, EmptySeq DEF TakeFunctors, TimerTypeOK
<1>7. CASE RunInsert
  <2>1. Tail(batch) \in Seq(Op) /\ batch[1][2] \in Timers
    BY <1>0, <1>7, TailTask DEF RunInsert, Op
  <2>2. active' \subseteq Timers /\ entries' \subseteq Nat \X Timers
    BY <1>7, <2>1 DEF RunInsert, Insert, TimerTypeOK
  <2>3. QED  BY <1>7, <2>1, <2>2 DEF RunInsert, TimerTypeOK, Op
<1>8. CASE RunCancel
  <2>1. Tail(batch) \in Seq(Op) /\ batch[1][2] \in Timers
    BY <1>0, <1>8, TailTask DEF RunCancel, Op
  <2>2. QED  BY <1>8, <2>1, CancelTyped DEF RunCancel, TimerTypeOK, Op
<1>9. CASE EndRound
  BY <1>9 DEF EndRound, TimerTypeOK
<1>10. ASSUME NEW d \in Delays, NEW i \in Intervals, AddTimer(d, i) PROVE TimerTypeOK'
  <2>1. /\ created' \in 0..MaxTimers /\ created + 1 \in Timers /\ now + d \in Nat
        /\ expiration' \in [Timers -> Nat] /\ interval' \in [Timers -> Nat]
    BY <1>10, NewTimerTyped DEF AddTimer
  <2>2. active' \subseteq Timers /\ entries' \subseteq Nat \X Timers
    BY <1>10, <2>1 DEF AddTimer, Insert, TimerTypeOK
  <2>3. QED  BY <1>10, <2>1, <2>2 DEF AddTimer, TimerTypeOK
<1>11. ASSUME NEW d \in Delays, NEW i \in Intervals, AddFromOutside(d, i) PROVE TimerTypeOK'
  <2>1. /\ created' \in 0..MaxTimers /\ created + 1 \in Timers
        /\ expiration' \in [Timers -> Nat] /\ interval' \in [Timers -> Nat]
    BY <1>11, NewTimerTyped DEF AddFromOutside
  <2>2. QED  BY <1>11, <2>1 DEF AddFromOutside, TimerTypeOK
<1>12. ASSUME NEW t \in Timers, Cancel(t) PROVE TimerTypeOK'
  BY <1>12, CancelTyped DEF Cancel, TimerTypeOK
<1>13. ASSUME NEW t \in Timers, InsertFromOutside(t) PROVE TimerTypeOK'
  <2>1. ops' \in Seq(Op)
    BY <1>0, <1>13, AppendTask DEF InsertFromOutside, Op
  <2>2. QED  BY <1>13, <2>1 DEF InsertFromOutside, TimerTypeOK, Op
<1>14. ASSUME NEW t \in Timers, CancelFromOutside(t) PROVE TimerTypeOK'
  <2>1. ops' \in Seq(Op)
    BY <1>0, <1>14, AppendTask DEF CancelFromOutside, Op
  <2>2. QED  BY <1>14, <2>1 DEF CancelFromOutside, TimerTypeOK, Op
<1>15. CASE Tick
  BY <1>15 DEF Tick, TimerTypeOK
<1>16. CASE UNCHANGED timerVars
  BY <1>16 DEF timerVars, TimerTypeOK
<1>17. QED
  BY <1>1, <1>2, <1>3, <1>4, <1>5, <1>6, <1>7, <1>8, <1>9, <1>10, <1>11, <1>12,
     <1>13, <1>14, <1>15, <1>16
  DEF TimerNext, TimerThread, Calls, Wakes

-----------------------------------------------------------------------------
(* The indexes.                                                            *)

LEMMA IdsOf == \A es, fs : Ids(es \cup fs) = Ids(es) \cup Ids(fs)
BY DEF Ids

LEMMA IdsOfOne == \A w, t : Ids({<<w, t>>}) = {t}
BY DEF Ids

\* A timer that is inserted with the time it is set for, and was not before.
LEMMA InsertIndexes ==
    ASSUME TimerTypeOK, IndexInv, NEW t \in Timers, NEW when \in Nat, Untouched(t),
           Insert(t, when), expiration' \in [Timers -> Nat], expiration'[t] = when,
           \A u \in Timers \ {t} : expiration'[u] = expiration[u] /\ interval'[u] = interval[u],
           UNCHANGED <<expired, fired, cancelled, raced>>
    PROVE  /\ IndexInv'
           /\ \A u \in Timers \ {t} : Untouched(u) => Untouched(u)'
<1>1. /\ active' = active \cup {t} /\ entries' = entries \cup {<<when, t>>}
      /\ t \notin active /\ t \notin Ids(entries \cup expired) /\ fired[t] = 0
      /\ t \notin cancelled
  BY DEF Insert, Untouched
<1>2. /\ Ids(entries') = Ids(entries) \cup {t}
      /\ Ids(entries' \cup expired') = Ids(entries \cup expired) \cup {t}
  <2>1. Ids(entries') = Ids(entries) \cup Ids({<<when, t>>})
    BY <1>1, IdsOf, Zenon
  <2>2. Ids({<<when, t>>}) = {t}
    BY IdsOfOne, Zenon
  <2>3. Ids(entries' \cup expired') = Ids(entries') \cup Ids(expired)
    BY IdsOf, Zenon
  <2>4. Ids(entries \cup expired) = Ids(entries) \cup Ids(expired)
    BY IdsOf, Zenon
  <2>5. QED  BY <2>1, <2>2, <2>3, <2>4
<1>3. \A e \in entries \cup expired : e[2] \in Timers \ {t}
  BY <1>1 DEF TimerTypeOK, Ids
<1>4. IndexesAgree'
  <2>1. \A e \in entries' \cup expired' : expiration'[e[2]] = e[1]
    BY <1>1, <1>3 DEF IndexInv, IndexesAgree
  <2>2. t \notin Ids(expired)
    BY <1>1 DEF Ids
  <2>3. Ids(entries') = active' \ Ids(expired')
    BY <1>1, <1>2, <2>2 DEF IndexInv, IndexesAgree
  <2>4. QED  BY <2>1, <2>3 DEF IndexesAgree
<1>5. CancelledIsGone'
  BY <1>1, <1>2 DEF IndexInv, CancelledIsGone
<1>6. OneShotOnce'
  <2>1. ASSUME NEW u \in Timers
        PROVE  /\ fired'[u] <= 1 \/ interval'[u] > 0
               /\ u \in Ids(entries' \cup expired') /\ interval'[u] = 0 => fired'[u] = 0
    <3>1. CASE u = t
      BY <1>1, <3>1
    <3>2. CASE u # t
      <4>1. interval'[u] = interval[u] /\ fired'[u] = fired[u]
        BY <3>2
      <4>2. u \in Ids(entries' \cup expired') <=> u \in Ids(entries \cup expired)
        BY <1>2, <3>2
      <4>3. QED  BY <4>1, <4>2 DEF IndexInv, OneShotOnce
    <3>3. QED  BY <3>1, <3>2
  <2>2. QED  BY <2>1 DEF OneShotOnce
<1>7. ASSUME NEW u \in Timers \ {t}, Untouched(u) PROVE Untouched(u)'
  BY <1>1, <1>2, <1>7 DEF Untouched
<1>8. QED  BY <1>4, <1>5, <1>6, <1>7 DEF IndexInv

LEMMA CancelIndexes ==
    ASSUME TimerTypeOK, IndexInv, NEW t \in Timers, cancelInLoop(t), UNCHANGED expired
    PROVE  IndexInv' /\ \A u \in Timers : Untouched(u) => Untouched(u)'
<1>1. CASE t \notin active
  BY <1>1 DEF cancelInLoop, IndexInv, IndexesAgree, CancelledIsGone, OneShotOnce, Untouched
<1>2. CASE t \in active
  <2>1. /\ active' = active \ {t} /\ entries' = entries \ {<<expiration[t], t>>}
        /\ cancelled' = cancelled \cup {t}
        /\ raced' = IF t \in Ids(expired) THEN raced \cup {t} ELSE raced \ {t}
        /\ UNCHANGED <<expiration, interval, fired>>
    BY <1>2 DEF cancelInLoop
  <2>2. \A e \in entries : e = <<e[1], e[2]>> /\ e[1] = expiration[e[2]]
    BY DEF TimerTypeOK, IndexInv, IndexesAgree
  <2>3. Ids(entries') = Ids(entries) \ {t}
    BY <2>1, <2>2 DEF Ids
  <2>4. Ids(entries' \cup expired') = Ids(entries') \cup Ids(expired)
    BY DEF Ids
  <2>5. Ids(entries \cup expired) = Ids(entries) \cup Ids(expired)
    BY DEF Ids
  <2>6. IndexesAgree'
    BY <2>1, <2>3 DEF IndexInv, IndexesAgree
  <2>7. CancelledIsGone'
    BY <2>1, <2>3, <2>4, <2>5 DEF IndexInv, CancelledIsGone
  <2>8. OneShotOnce'
    BY <2>1, <2>3, <2>4, <2>5 DEF IndexInv, OneShotOnce
  <2>9. ASSUME NEW u \in Timers, Untouched(u) PROVE Untouched(u)'
    BY <1>2, <2>1, <2>3, <2>4, <2>5, <2>9 DEF Untouched
  <2>10. QED  BY <2>6, <2>7, <2>8, <2>9 DEF IndexInv
<1>3. QED  BY <1>1, <1>2

\* handleExpiredTimers() moves what is due from the set to its vector.
LEMMA ExpireIndexes ==
    ASSUME TimerTypeOK, IndexInv, TakeExpired
    PROVE  IndexInv' /\ \A u \in Timers : Untouched(u) => Untouched(u)'
<1>1. /\ expired = {} /\ entries' \cup expired' = entries
      /\ UNCHANGED <<active, expiration, interval, fired, cancelled, raced>>
  <2>1. \A e \in entries : e[1] \in Nat /\ now \in Nat
    BY DEF TimerTypeOK
  <2>2. QED  BY <2>1 DEF TakeExpired, TimerTypeOK, otherVars, history
<1>2. /\ Ids(entries) = Ids(entries') \cup Ids(expired') /\ Ids(expired) = {}
      /\ Ids(entries \cup expired) = Ids(entries)
      /\ Ids(entries' \cup expired') = Ids(entries)
  BY <1>1 DEF Ids
<1>3. Ids(entries') \cap Ids(expired') = {}
  <2> SUFFICES ASSUME NEW e \in entries', NEW f \in expired', e[2] = f[2] PROVE FALSE
    BY DEF Ids
  <2>1. e \in entries /\ f \in entries /\ e[1] > now /\ f[1] <= now
    BY DEF TakeExpired
  <2>2. e[1] = f[1] /\ e[1] \in Nat /\ now \in Nat
    BY <2>1 DEF IndexInv, IndexesAgree, TimerTypeOK
  <2>3. QED  BY <2>1, <2>2
<1>4. IndexesAgree'
  BY <1>1, <1>2, <1>3 DEF IndexInv, IndexesAgree
<1>5. CancelledIsGone' /\ OneShotOnce'
  BY <1>1, <1>2 DEF IndexInv, CancelledIsGone, OneShotOnce
<1>6. ASSUME NEW u \in Timers, Untouched(u) PROVE Untouched(u)'
  BY <1>1, <1>2, <1>6 DEF Untouched
<1>7. QED  BY <1>4, <1>5, <1>6 DEF IndexInv

\* The timer that fires leaves the batch; a repeating one goes back into the set.
LEMMA FireIndexes ==
    ASSUME TimerTypeOK, IndexInv, NEW e \in expired, FireOf(e)
    PROVE  IndexInv' /\ \A u \in Timers : Untouched(u) => Untouched(u)'
<1> PICK t \in Timers : t = e[2]
  BY DEF TimerTypeOK
<1>0. /\ t \in Timers /\ e = <<e[1], t>> /\ expiration[t] = e[1]
      /\ fired[t] \in Nat /\ currentTime + interval[t] \in Nat /\ interval[t] \in Nat
      /\ t \in Ids(expired)
  BY DEF TimerTypeOK, IndexInv, IndexesAgree, Ids
<1>1. /\ expired' = expired \ {e} /\ UNCHANGED <<interval, cancelled, raced>>
      /\ fired'[t] = fired[t] + 1 /\ \A u \in Timers \ {t} : fired'[u] = fired[u]
  BY <1>0 DEF FireOf, TimerTypeOK
<1>2. /\ \A f \in expired : f[2] = t => f = e
      /\ \A f \in entries : f[2] # t
  <2>1. ASSUME NEW f \in expired, f[2] = t PROVE f = e
    <3>1. f = <<f[1], f[2]>>
      BY DEF TimerTypeOK
    <3>2. expiration[f[2]] = f[1]
      BY DEF IndexInv, IndexesAgree
    <3>3. QED  BY <1>0, <2>1, <3>1, <3>2
  <2>2. Ids(entries) \cap Ids(expired) = {}
    BY DEF IndexInv, IndexesAgree
  <2>3. QED  BY <1>0, <2>1, <2>2 DEF Ids
<1>3. /\ Ids(expired') = Ids(expired) \ {t} /\ t \notin Ids(entries)
      /\ Ids(entries \cup expired) = Ids(entries) \cup Ids(expired)
      /\ Ids(entries' \cup expired') = Ids(entries') \cup Ids(expired')
  BY <1>1, <1>2 DEF Ids
<1>4. t \in cancelled => t \in raced
  BY <1>0, <1>3 DEF IndexInv, CancelledIsGone
<1>5. CASE interval[t] > 0
  <2>1. /\ expiration'[t] = currentTime + interval[t]
        /\ \A u \in Timers \ {t} : expiration'[u] = expiration[u]
        /\ active' = active \cup {t}
        /\ entries' = entries \cup {<<currentTime + interval[t], t>>}
    BY <1>0, <1>5 DEF FireOf, Insert, TimerTypeOK
  <2>2. Ids(entries') = Ids(entries) \cup {t}
    <3>1. Ids(entries') = Ids(entries) \cup Ids({<<currentTime + interval[t], t>>})
      BY <2>1, IdsOf, Zenon
    <3>2. Ids({<<currentTime + interval[t], t>>}) = {t}
      BY IdsOfOne, Zenon
    <3>3. QED  BY <3>1, <3>2
  <2>3. \A f \in entries' \cup expired' : expiration'[f[2]] = f[1]
    <3>1. ASSUME NEW f \in entries \cup expired, f # e PROVE expiration'[f[2]] = f[1]
      <4>1. f[2] \in Timers \ {t} /\ expiration[f[2]] = f[1]
        BY <1>2, <3>1 DEF TimerTypeOK, IndexInv, IndexesAgree
      <4>2. QED  BY <2>1, <4>1
    <3>2. \A f \in entries' \cup expired' :
             \/ f = <<currentTime + interval[t], t>>
             \/ f \in entries \cup expired /\ f # e
      BY <1>0, <1>1, <1>2, <2>1
    <3>3. QED  BY <2>1, <3>1, <3>2
  <2>4. IndexesAgree'
    BY <1>0, <1>3, <2>1, <2>2, <2>3 DEF IndexInv, IndexesAgree
  <2>5. CancelledIsGone'
    BY <1>1, <1>3, <1>4, <2>1, <2>2 DEF IndexInv, CancelledIsGone
  <2>6. OneShotOnce'
    <3>1. ASSUME NEW u \in Timers, u # t
          PROVE  /\ fired'[u] <= 1 \/ interval'[u] > 0
                 /\ u \in Ids(entries' \cup expired') /\ interval'[u] = 0 => fired'[u] = 0
      <4>1. u \in Ids(entries' \cup expired') => u \in Ids(entries \cup expired)
        BY <1>3, <2>2, <3>1
      <4>2. QED  BY <1>1, <3>1, <4>1 DEF IndexInv, OneShotOnce
    <3>2. interval'[t] > 0 /\ interval'[t] # 0
      BY <1>0, <1>1, <1>5
    <3>3. QED  BY <3>1, <3>2 DEF OneShotOnce
  <2>7. ASSUME NEW u \in Timers, Untouched(u) PROVE Untouched(u)'
    BY <1>0, <1>1, <1>3, <2>1, <2>2, <2>7 DEF Untouched
  <2>8. QED  BY <2>4, <2>5, <2>6, <2>7 DEF IndexInv
<1>6. CASE ~(interval[t] > 0)
  <2>1. active' = active \ {t} /\ UNCHANGED <<entries, expiration>> /\ interval[t] = 0
    BY <1>0, <1>6 DEF FireOf
  <2>2. fired[t] = 0 /\ fired'[t] = 1
    <3>1. t \in Ids(entries \cup expired)
      BY <1>0, <1>3
    <3>2. fired[t] = 0
      BY <2>1, <3>1 DEF IndexInv, OneShotOnce
    <3>3. QED  BY <1>1, <3>2
  <2>3. IndexesAgree'
    BY <1>1, <1>3, <2>1 DEF IndexInv, IndexesAgree
  <2>4. CancelledIsGone'
    BY <1>1, <1>3, <2>1 DEF IndexInv, CancelledIsGone
  <2>5. OneShotOnce'
    <3>1. ASSUME NEW u \in Timers, u # t
          PROVE  /\ fired'[u] <= 1 \/ interval'[u] > 0
                 /\ u \in Ids(entries' \cup expired') /\ interval'[u] = 0 => fired'[u] = 0
      <4>1. u \in Ids(entries' \cup expired') => u \in Ids(entries \cup expired)
        BY <1>3, <2>1, <3>1
      <4>2. QED  BY <1>1, <3>1, <4>1 DEF IndexInv, OneShotOnce
    <3>2. fired'[t] <= 1 /\ t \notin Ids(entries' \cup expired')
      BY <1>3, <2>1, <2>2
    <3>3. QED  BY <3>1, <3>2 DEF OneShotOnce
  <2>6. ASSUME NEW u \in Timers, Untouched(u) PROVE Untouched(u)'
    BY <1>0, <1>1, <1>3, <2>1, <2>6 DEF Untouched
  <2>7. QED  BY <2>3, <2>4, <2>5, <2>6 DEF IndexInv
<1>7. QED  BY <1>5, <1>6

LEMMA IndexStep ==
    TimerTypeOK /\ HandoffInv /\ IndexInv /\ (\A t \in Unborn : Untouched(t)) /\ [TimerNext]_timerVars
        => IndexInv' /\ \A t \in Unborn' : Untouched(t)'
<1> SUFFICES ASSUME TimerTypeOK, HandoffInv, IndexInv, \A t \in Unborn : Untouched(t),
                    [TimerNext]_timerVars
             PROVE  IndexInv' /\ \A t \in Unborn' : Untouched(t)'
  OBVIOUS
<1> USE DEF loopVars, indexVars, expiryVars, otherVars, history
<1>0. ops \in Seq(Op) /\ batch \in Seq(Op)
  BY DEF TimerTypeOK, Op
<1>a. Unborn \subseteq Timers
  <2>1. Inserts(ops) \subseteq Timers /\ Inserts(batch) \subseteq Timers
    BY <1>0, InsertsTyped
  <2>2. QED  BY <2>1 DEF Unborn, Outside, TimerTypeOK
<1>b. \* Nothing but the history of the queue and the clock moves.
      ASSUME UNCHANGED <<entries, active, expiration, interval, expired, fired,
                         cancelled, raced>>,
             Unborn' \subseteq Unborn
      PROVE  IndexInv' /\ \A t \in Unborn' : Untouched(t)'
  BY <1>b DEF IndexInv, IndexesAgree, CancelledIsGone, OneShotOnce, Untouched
<1>c. UNCHANGED <<created, handed, ops, batch>> => Unborn' \subseteq Unborn
  BY DEF Unborn, Outside
<1>1. CASE Poll
  BY <1>1, <1>b, <1>c DEF Poll
<1>2. CASE WaitReturns
  BY <1>2, <1>b, <1>c DEF WaitReturns
<1>3. CASE TakeExpired
  BY <1>3, <1>a, <1>c, ExpireIndexes DEF TakeExpired
<1>4. CASE Fire
  <2> PICK e \in expired : FireOf(e)
    BY <1>4, FireFires
  <2>1. Unborn' \subseteq Unborn
    BY <1>c DEF FireOf
  <2>2. QED  BY <1>a, <2>1, FireIndexes
<1>5. CASE CallbackReturns
  BY <1>5, <1>b, <1>c DEF CallbackReturns
<1>6. CASE TakeFunctors
  <2>1. batch = <<>>
    BY <1>6 DEF HandoffInv, TakeFunctors
  <2>2. Unborn' \subseteq Unborn
    BY <1>6, <2>1, NoTask DEF TakeFunctors, Unborn, Outside
  <2>3. QED  BY <1>6, <1>b, <2>2 DEF TakeFunctors
<1>7. CASE RunInsert
  <2> DEFINE t == batch[1][2]
  <2>1. /\ t \in Timers /\ t \in Inserts(batch) /\ t \notin Inserts(batch')
        /\ Inserts(batch') \subseteq Inserts(batch)
    BY <1>0, <1>7, TailTask DEF RunInsert, HandoffInv, Op
  <2>2. t <= created /\ t \notin Inserts(ops) /\ t \notin handed
    BY <2>1 DEF HandoffInv, Outside
  <2>3. t \in Nat /\ created \in Nat
    BY <2>1 DEF Timers, TimerTypeOK
  <2>4. Unborn' \subseteq Unborn \ {t}
    BY <1>7, <2>1, <2>2, <2>3 DEF RunInsert, Unborn, Outside
  <2>5. Untouched(t)
    BY <2>1 DEF Unborn, Outside
  <2>6. /\ Insert(t, expiration[t]) /\ expiration[t] \in Nat
        /\ UNCHANGED <<expiration, interval, expired, fired, cancelled, raced>>
    BY <1>7, <2>1 DEF RunInsert, TimerTypeOK
  <2>7. expiration' \in [Timers -> Nat]
    BY <2>6 DEF TimerTypeOK
  <2> HIDE DEF t
  <2>8. IndexInv' /\ \A u \in Timers \ {t} : Untouched(u) => Untouched(u)'
    BY <2>1, <2>5, <2>6, <2>7, InsertIndexes
  <2>9. QED  BY <1>a, <2>4, <2>8
<1>8. CASE RunCancel
  <2>1. batch[1][2] \in Timers /\ Inserts(batch') \subseteq Inserts(batch)
    BY <1>0, <1>8, TailTask DEF RunCancel, Op
  <2>2. Unborn' \subseteq Unborn
    BY <1>8, <2>1 DEF RunCancel, Unborn, Outside
  <2>3. QED  BY <1>8, <1>a, <2>1, <2>2, CancelIndexes DEF RunCancel
<1>9. CASE EndRound
  BY <1>9, <1>b, <1>c DEF EndRound
<1>10. ASSUME NEW d \in Delays, NEW i \in Intervals, AddTimer(d, i)
       PROVE  IndexInv' /\ \A t \in Unborn' : Untouched(t)'
  <2> DEFINE t == created + 1
  <2>1. /\ t \in Timers /\ now + d \in Nat
        /\ expiration' = [expiration EXCEPT ![t] = now + d]
        /\ interval' = [interval EXCEPT ![t] = i]
        /\ expiration' \in [Timers -> Nat]
    BY <1>10, NewTimerTyped DEF AddTimer
  <2>2. /\ created' = t /\ t \notin handed' /\ t \notin Inserts(ops') /\ t \notin Inserts(batch')
        /\ created \in Nat
    BY <1>10 DEF AddTimer, NewTimer, TimerTypeOK, HandoffInv, Outside
  <2>3. Unborn' \subseteq Unborn \ {t}
    BY <1>10, <2>2 DEF AddTimer, Unborn, Outside, Timers
  <2>4. Untouched(t)
    BY <2>1, <2>2 DEF Unborn
  <2>5. /\ Insert(t, now + d) /\ expiration'[t] = now + d
        /\ \A u \in Timers \ {t} : expiration'[u] = expiration[u] /\ interval'[u] = interval[u]
        /\ UNCHANGED <<expired, fired, cancelled, raced>>
    BY <1>10, <2>1 DEF AddTimer, TimerTypeOK
  <2> HIDE DEF t
  <2>6. IndexInv' /\ \A u \in Timers \ {t} : Untouched(u) => Untouched(u)'
    BY <2>1, <2>4, <2>5, InsertIndexes
  <2>7. QED  BY <1>a, <2>3, <2>6
<1>11. ASSUME NEW d \in Delays, NEW i \in Intervals, AddFromOutside(d, i)
       PROVE  IndexInv' /\ \A t \in Unborn' : Untouched(t)'
  <2> DEFINE t == created + 1
  <2>1. /\ t \in Timers /\ created' = t /\ created \in Nat
        /\ expiration' = [expiration EXCEPT ![t] = now + d]
        /\ interval' = [interval EXCEPT ![t] = i]
    <3>1. created' = t /\ created \in Nat
      BY <1>11 DEF AddFromOutside, NewTimer, TimerTypeOK
    <3>2. QED  BY <1>11, <3>1, NewTimerTyped DEF AddFromOutside
  <2>2. /\ handed' = handed \cup {t}
        /\ UNCHANGED <<entries, active, expired, fired, cancelled, raced, ops, batch>>
    BY <1>11 DEF AddFromOutside
  <2>3. t \in Unborn
    BY <2>1 DEF Unborn
  <2>4. Untouched(t)
    BY <2>3
  <2>5. Unborn' \subseteq Unborn
    BY <2>1, <2>2, <2>3 DEF Unborn, Outside, Timers
  <2>6. \A u \in Timers \ {t} : expiration'[u] = expiration[u] /\ interval'[u] = interval[u]
    BY <2>1 DEF TimerTypeOK
  <2> HIDE DEF t
  <2>7. \A e \in entries \cup expired : e[2] \in Timers \ {t}
    BY <2>4 DEF Untouched, Ids, TimerTypeOK
  <2>8. IndexesAgree'
    BY <2>2, <2>6, <2>7 DEF IndexInv, IndexesAgree
  <2>9. CancelledIsGone'
    BY <2>2 DEF IndexInv, CancelledIsGone
  <2>10. OneShotOnce'
    <3>1. ASSUME NEW u \in Timers \ {t}
          PROVE  /\ fired'[u] <= 1 \/ interval'[u] > 0
                 /\ u \in Ids(entries' \cup expired') /\ interval'[u] = 0 => fired'[u] = 0
      BY <2>2, <2>6 DEF IndexInv, OneShotOnce
    <3>2. fired'[t] = 0 /\ 0 <= 1
      BY <2>2, <2>4 DEF Untouched
    <3>3. QED  BY <3>1, <3>2 DEF OneShotOnce
  <2>11. \A u \in Timers : Untouched(u) => Untouched(u)'
    BY <2>2 DEF Untouched
  <2>12. QED  BY <1>a, <2>5, <2>8, <2>9, <2>10, <2>11 DEF IndexInv
<1>12. ASSUME NEW t \in Timers, Cancel(t)
       PROVE  IndexInv' /\ \A u \in Unborn' : Untouched(u)'
  BY <1>12, <1>a, <1>c, CancelIndexes DEF Cancel
<1>13. ASSUME NEW t \in Timers, InsertFromOutside(t)
       PROVE  IndexInv' /\ \A u \in Unborn' : Untouched(u)'
  <2>1. Inserts(ops') \subseteq Inserts(ops) \cup {t}
    BY <1>0, <1>13, AppendTask DEF InsertFromOutside, Op
  <2>2. Unborn' \subseteq Unborn
    BY <1>13, <2>1 DEF InsertFromOutside, Unborn, Outside
  <2>3. QED  BY <1>13, <1>b, <2>2 DEF InsertFromOutside
<1>14. ASSUME NEW t \in Timers, CancelFromOutside(t)
       PROVE  IndexInv' /\ \A u \in Unborn' : Untouched(u)'
  <2>1. Inserts(ops') \subseteq Inserts(ops)
    BY <1>0, <1>14, AppendTask DEF CancelFromOutside, Op
  <2>2. Unborn' \subseteq Unborn
    BY <1>14, <2>1 DEF CancelFromOutside, Unborn, Outside
  <2>3. QED  BY <1>14, <1>b, <2>2 DEF CancelFromOutside
<1>15. CASE Tick
  BY <1>15, <1>b, <1>c DEF Tick
<1>16. CASE UNCHANGED timerVars
  BY <1>16, <1>b, <1>c DEF timerVars
<1>17. QED
  BY <1>1, <1>2, <1>3, <1>4, <1>5, <1>6, <1>7, <1>8, <1>9, <1>10, <1>11, <1>12,
     <1>13, <1>14, <1>15, <1>16
  DEF TimerNext, TimerThread, Calls, Wakes

-----------------------------------------------------------------------------
(* The handing over of timers and tasks.                                   *)

LEMMA HandoffStep == TimerTypeOK /\ HandoffInv /\ [TimerNext]_timerVars => HandoffInv'
<1> SUFFICES ASSUME TimerTypeOK, HandoffInv, [TimerNext]_timerVars PROVE HandoffInv'
  OBVIOUS
<1> USE DEF loopVars, indexVars, expiryVars, otherVars, history
<1>0. ops \in Seq(Op) /\ batch \in Seq(Op)
  BY DEF TimerTypeOK, Op
<1>a. ASSUME UNCHANGED <<handed, ops, batch>>, batch # <<>> => place' = "functor",
             \A t \in Outside : t <= created'
      PROVE  HandoffInv'
  BY <1>a DEF HandoffInv, Outside
<1>b. ASSUME UNCHANGED <<handed, ops, batch, place, created>> PROVE HandoffInv'
  BY <1>b DEF HandoffInv, Outside
<1>c. \A t \in Outside : t \in Nat /\ t <= created
  <2>1. Inserts(ops) \subseteq Timers /\ Inserts(batch) \subseteq Timers
    BY <1>0, InsertsTyped
  <2>2. QED  BY <2>1 DEF HandoffInv, Outside, TimerTypeOK, Timers
<1>1. CASE Poll
  BY <1>1, <1>a, <1>c DEF Poll, HandoffInv
<1>2. CASE WaitReturns
  BY <1>2, <1>a, <1>c DEF WaitReturns, HandoffInv
<1>3. CASE TakeExpired
  BY <1>3, <1>a, <1>c DEF TakeExpired, HandoffInv
<1>4. CASE Fire
  <2> PICK e \in expired : FireOf(e)
    BY <1>4, FireFires
  <2>1. QED  BY <1>a, <1>c DEF FireOf, HandoffInv
<1>5. CASE CallbackReturns
  BY <1>5, <1>a, <1>c DEF CallbackReturns, HandoffInv
<1>6. CASE TakeFunctors
  BY <1>6, NoTask DEF TakeFunctors, HandoffInv, Outside
<1>7. CASE RunInsert
  <2>1. Inserts(batch') \subseteq Inserts(batch) /\ EachOnce(batch')
    BY <1>0, <1>7, TailTask DEF RunInsert, HandoffInv
  <2>2. QED  BY <1>7, <2>1 DEF RunInsert, HandoffInv, Outside
<1>8. CASE RunCancel
  <2>1. Inserts(batch') \subseteq Inserts(batch) /\ EachOnce(batch')
    BY <1>0, <1>8, TailTask DEF RunCancel, HandoffInv
  <2>2. QED  BY <1>8, <2>1 DEF RunCancel, HandoffInv, Outside
<1>9. CASE EndRound
  BY <1>9, <1>a, <1>c DEF EndRound
<1>10. ASSUME NEW d \in Delays, NEW i \in Intervals, AddTimer(d, i) PROVE HandoffInv'
  <2>1. created \in Nat /\ created' = created + 1
    BY <1>10 DEF AddTimer, NewTimer, TimerTypeOK
  <2>2. \A t \in Outside : t <= created'
    BY <1>c, <2>1
  <2>3. QED  BY <1>10, <1>a, <2>2 DEF AddTimer, HandoffInv
<1>11. ASSUME NEW d \in Delays, NEW i \in Intervals, AddFromOutside(d, i) PROVE HandoffInv'
  <2>1. created \in Nat /\ created' = created + 1
    BY <1>11 DEF AddFromOutside, NewTimer, TimerTypeOK
  <2>2. \A t \in Outside : t <= created' /\ t # created'
    BY <1>c, <2>1
  <2>3. handed' = handed \cup {created'} /\ UNCHANGED <<ops, batch, place>>
    BY <1>11, <2>1 DEF AddFromOutside
  <2>4. created' <= created'
    BY <2>1
  <2>5. QED  BY <2>2, <2>3, <2>4 DEF HandoffInv, Outside
<1>12. ASSUME NEW t \in Timers, Cancel(t) PROVE HandoffInv'
  BY <1>12, <1>b DEF Cancel
<1>13. ASSUME NEW t \in Timers, InsertFromOutside(t) PROVE HandoffInv'
  <2>1. t \in handed /\ t \notin Inserts(ops) /\ t \notin Inserts(batch)
    BY <1>13 DEF InsertFromOutside, HandoffInv
  <2>2. <<"insert", t>> \in Op
    BY DEF Op
  <2>3. Inserts(ops') = Inserts(ops) \cup {t} /\ EachOnce(ops')
    BY <1>0, <1>13, <2>1, <2>2, AppendTask DEF InsertFromOutside, HandoffInv
  <2>4. handed' = handed \ {t} /\ UNCHANGED <<batch, place, created>>
    BY <1>13 DEF InsertFromOutside
  <2>5. QED  BY <2>1, <2>3, <2>4 DEF HandoffInv, Outside
<1>14. ASSUME NEW t \in Timers, CancelFromOutside(t) PROVE HandoffInv'
  <2>1. <<"cancel", t>> \in Op
    BY DEF Op
  <2>2. Inserts(ops') = Inserts(ops) /\ EachOnce(ops')
    BY <1>0, <1>14, <2>1, AppendTask DEF CancelFromOutside, HandoffInv
  <2>3. UNCHANGED <<handed, batch, place, created>>
    BY <1>14 DEF CancelFromOutside
  <2>4. QED  BY <2>2, <2>3 DEF HandoffInv, Outside
<1>15. CASE Tick
  BY <1>15, <1>b DEF Tick
<1>16. CASE UNCHANGED timerVars
  BY <1>16, <1>b DEF timerVars
<1>17. QED
  BY <1>1, <1>2, <1>3, <1>4, <1>5, <1>6, <1>7, <1>8, <1>9, <1>10, <1>11, <1>12,
     <1>13, <1>14, <1>15, <1>16
  DEF TimerNext, TimerThread, Calls, Wakes

-----------------------------------------------------------------------------
(* Time and wakeups.                                                       *)

LEMMA TimeStep == TimerTypeOK /\ TimeInv /\ [TimerNext]_timerVars => TimeInv'
<1> SUFFICES ASSUME TimerTypeOK, TimeInv, [TimerNext]_timerVars PROVE TimeInv'
  OBVIOUS
<1> USE DEF loopVars, indexVars, expiryVars, otherVars, history
<1>0. ops \in Seq(Op) /\ batch \in Seq(Op)
  BY DEF TimerTypeOK, Op
<1>1. CASE Poll
  BY <1>1, NextTimeoutIsFirst DEF Poll, TimeInv
<1>2. CASE WaitReturns
  BY <1>2 DEF WaitReturns, TimeInv
<1>3. CASE TakeExpired
  <2>1. /\ currentTime' = now' /\ now \in Nat /\ now' = now
        /\ \A e \in expired' : e[1] <= currentTime'
        /\ place' = "expire"
    BY <1>3 DEF TakeExpired, TimerTypeOK
  <2>2. QED  BY <2>1 DEF TimeInv
<1>4. CASE Fire
  <2> PICK e \in expired : FireOf(e)
    BY <1>4, FireFires
  <2>1. QED  BY DEF FireOf, TimeInv
<1>5. CASE CallbackReturns
  BY <1>5 DEF CallbackReturns, TimeInv
<1>6. CASE TakeFunctors
  BY <1>6 DEF TakeFunctors, TimeInv
<1>7. CASE RunInsert
  BY <1>7 DEF RunInsert, TimeInv
<1>8. CASE RunCancel
  BY <1>8 DEF RunCancel, TimeInv
<1>9. CASE EndRound
  BY <1>9 DEF EndRound, TimeInv
<1>10. ASSUME NEW d \in Delays, NEW i \in Intervals, AddTimer(d, i) PROVE TimeInv'
  BY <1>10 DEF AddTimer, InApp, TimeInv
<1>11. ASSUME NEW d \in Delays, NEW i \in Intervals, AddFromOutside(d, i) PROVE TimeInv'
  BY <1>11 DEF AddFromOutside, TimeInv
<1>12. ASSUME NEW t \in Timers, Cancel(t) PROVE TimeInv'
  BY <1>12 DEF Cancel, InApp, TimeInv
<1>13. ASSUME NEW t \in Timers, InsertFromOutside(t) PROVE TimeInv'
  BY <1>13 DEF InsertFromOutside, TimeInv
<1>14. ASSUME NEW t \in Timers, CancelFromOutside(t) PROVE TimeInv'
  BY <1>14 DEF CancelFromOutside, TimeInv
<1>15. CASE Tick
  <2>1. currentTime' <= now'
    BY <1>15 DEF Tick, TimeInv, TimerTypeOK
  <2>2. QED  BY <1>15, <2>1 DEF Tick, TimeInv
<1>16. CASE UNCHANGED timerVars
  BY <1>16 DEF timerVars, TimeInv
<1>17. QED
  BY <1>1, <1>2, <1>3, <1>4, <1>5, <1>6, <1>7, <1>8, <1>9, <1>10, <1>11, <1>12,
     <1>13, <1>14, <1>15, <1>16
  DEF TimerNext, TimerThread, Calls, Wakes

-----------------------------------------------------------------------------
(* What is proved of the timers.                                           *)

LEMMA TimerStart == TimerInit => TimerInv
<1> SUFFICES ASSUME TimerInit PROVE TimerInv
  OBVIOUS
<1>1. TimerTypeOK
  BY TimerTypeInit
<1>2. HandoffInv
  BY NoTask DEF TimerInit, HandoffInv, Outside
<1>3. IndexInv
  BY DEF TimerInit, IndexInv, IndexesAgree, CancelledIsGone, OneShotOnce, Ids
<1>4. TimeInv
  BY DEF TimerInit, TimeInv
<1>5. Unborn \subseteq Timers
  BY NoTask DEF TimerInit, Unborn, Outside
<1>6. \A t \in Unborn : Untouched(t)
  BY <1>5 DEF TimerInit, Untouched, Ids
<1>7. QED  BY <1>1, <1>2, <1>3, <1>4, <1>6 DEF TimerInv

LEMMA TimerInvariance == TimerSpec => []TimerInv
<1>1. TimerInv /\ [TimerNext]_timerVars => TimerInv'
  BY TimerTypeStep, HandoffStep, IndexStep, TimeStep DEF TimerInv
<1>2. QED  BY <1>1, TimerStart, PTL DEF TimerSpec

\* Whatever is added, cancelled and fired, from whichever thread: the set and the map
\* agree, what was cancelled in time is gone, and a one-shot timer fires once
\* (insertInLoop(), cancelInLoop(), handleExpiredTimers()).
THEOREM IndexesStayConsistent == TimerSpec => []TimersAreConsistent
<1>1. TimerInv => TimersAreConsistent
  BY DEF TimerInv, IndexInv, TimersAreConsistent
<1>2. QED  BY <1>1, TimerInvariance, PTL

\* epoll_wait() never sleeps past a timer, nor over a task that adds or cancels one
\* (nextTimeoutMs(), queueInLoop()).
THEOREM SleepsInTime == TimerSpec => []NoOversleep
<1>1. TimerInv => NoOversleep
  BY DEF TimerInv, TimeInv, NoOversleep
<1>2. QED  BY <1>1, TimerInvariance, PTL

\* A step that fires a timer fires one that is due, and the earliest of those that
\* have expired (handleExpiredTimers()).
Due ==
    \A t \in Timers : fired'[t] > fired[t] =>
        /\ expiration[t] <= now
        /\ \A e \in expired : e[2] = t \/ Precedes(<<expiration[t], t>>, e)

LEMMA FiresInOrder == TimerInv /\ [TimerNext]_timerVars => [Due]_timerVars
<1> SUFFICES ASSUME TimerInv, [TimerNext]_timerVars PROVE [Due]_timerVars
  OBVIOUS
<1> USE DEF loopVars, indexVars, expiryVars, otherVars, history
<1>1. CASE Fire
  <2> PICK e \in expired : FireOf(e)
    BY <1>1, FireFires
  <2>1. /\ e[2] \in Timers /\ e = <<e[1], e[2]>> /\ expiration[e[2]] = e[1]
        /\ e[1] \in Nat /\ currentTime \in Nat /\ now \in Nat
        /\ e[1] <= currentTime /\ currentTime <= now
    BY DEF TimerInv, TimerTypeOK, IndexInv, IndexesAgree, TimeInv
  <2>2. \A t \in Timers \ {e[2]} : fired'[t] = fired[t] /\ fired[t] \in Nat
    BY <2>1 DEF FireOf, TimerInv, TimerTypeOK
  <2>3. \A f \in expired : f[2] = e[2] \/ Precedes(e, f)
    BY DEF FireOf
  <2>4. \A t \in Timers : fired'[t] > fired[t] => t = e[2]
    BY <2>2
  <2>5. expiration[e[2]] <= now
    BY <2>1
  <2>6. QED  BY <2>1, <2>3, <2>4, <2>5 DEF Due
<1>2. ASSUME UNCHANGED fired PROVE Due
  <2>1. \A t \in Timers : fired[t] \in Nat /\ ~(fired'[t] > fired[t])
    BY <1>2 DEF TimerInv, TimerTypeOK
  <2>2. QED  BY <2>1 DEF Due
<1>3. [TimerNext]_timerVars => Fire \/ UNCHANGED fired \/ UNCHANGED timerVars
  BY DEF TimerNext, TimerThread, Calls, Poll, Wakes, WaitReturns, TakeExpired, CallbackReturns,
         TakeFunctors, RunInsert, RunCancel, EndRound, AddTimer, AddFromOutside, Cancel,
         InsertFromOutside, CancelFromOutside, cancelInLoop, Tick
<1>4. QED  BY <1>1, <1>2, <1>3

\* No timer fires before it is due, and of a batch the earliest goes first
\* (handleExpiredTimers()).
THEOREM FiresWhenDue == TimerSpec => InDueOrder
<1>1. TimerInv /\ [TimerNext]_timerVars =>
        [\A t \in Timers : fired'[t] > fired[t] =>
            /\ expiration[t] <= now
            /\ \A e \in expired : e[2] = t \/ Precedes(<<expiration[t], t>>, e)]_timerVars
  BY FiresInOrder DEF Due
<1>2. QED  BY <1>1, TimerInvariance, PTL DEF TimerSpec, InDueOrder

-----------------------------------------------------------------------------
(* Types of the loop.                                                      *)

LEMMA LoopTypeInit == Init => TypeOK
<1> SUFFICES ASSUME Init PROVE TypeOK
  OBVIOUS
<1>1. /\ pending \in Seq(Task) /\ functors \in Seq(Task)
      /\ posted \in Seq(Task) /\ ran \in Seq(Task)
  BY EmptySeq DEF Init
<1>2. /\ pc \in [Producers -> {"idle", "wake", "quit", "over"}]
      /\ posts \in [Producers -> Nat]
  BY DEF Init
<1>3. QED  BY <1>1, <1>2 DEF Init, TypeOK

\* A task in the queue is a task.
LEMMA EnqueueTyped ==
    ASSUME TypeOK, NEW t \in Task, Enqueue(t)
    PROVE  /\ pending' \in Seq(Task) /\ posted' \in Seq(Task)
           /\ functors' \in Seq(Task) /\ ran' \in Seq(Task)
BY AppendProperties DEF TypeOK, Enqueue

LEMMA LoopTypeStep == TypeOK /\ [Next]_vars => TypeOK'
<1> SUFFICES ASSUME TypeOK, [Next]_vars PROVE TypeOK'
  OBVIOUS
<1> USE DEF TypeOK, fdVars, taskVars, userVars
<1>1. CASE Enter
  BY <1>1 DEF Enter
<1>2. CASE Round
  BY <1>2 DEF Round
<1>3. CASE Wait
  BY <1>3 DEF Wait
<1>4. CASE ReadWakeup
  BY <1>4 DEF ReadWakeup
<1>5. CASE WakeupDrained
  BY <1>5 DEF WakeupDrained
<1>6. CASE HandlerReturns
  BY <1>6 DEF HandlerReturns
<1>7. CASE TimersRun
  BY <1>7 DEF TimersRun
<1>8. CASE Swap
  <2>1. functors' \in Seq(Task) /\ pending' \in Seq(Task)
    BY <1>8, EmptySeq DEF Swap
  <2>2. QED  BY <1>8, <2>1 DEF Swap
<1>9. CASE RunFunctor
  <2>1. functors' \in Seq(Task) /\ ran' \in Seq(Task)
    BY <1>9, MoveHead DEF RunFunctor
  <2>2. QED  BY <1>9, <2>1 DEF RunFunctor
<1>10. CASE FunctorReturns
  BY <1>10 DEF FunctorReturns
<1>11. CASE BatchDone
  BY <1>11 DEF BatchDone
<1>12. CASE QueueFromLoop
  <2>1. <<Self, selfPosts>> \in Task /\ selfPosts' \in Nat
    BY <1>12, PostsAssumption DEF QueueFromLoop,
         Task
  <2>2. /\ pending' \in Seq(Task) /\ posted' \in Seq(Task)
        /\ functors' \in Seq(Task) /\ ran' \in Seq(Task)
    BY <1>12, <2>1, EnqueueTyped DEF QueueFromLoop
  <2>3. counter' \in BOOLEAN /\ edge' \in BOOLEAN
    BY <1>12 DEF QueueFromLoop, wakeup
  <2>4. UNCHANGED <<at, handling, functors>>
    BY <1>12 DEF QueueFromLoop, Enqueue
  <2>5. QED  BY <1>12, <2>1, <2>2, <2>3, <2>4 DEF QueueFromLoop
<1>13. CASE QuitFromLoop
  BY <1>13 DEF QuitFromLoop
<1>14. CASE IoReady
  BY <1>14 DEF IoReady
<1>15. ASSUME NEW p \in Producers, QueueInLoop(p) PROVE TypeOK'
  <2>1. <<p, posts[p]>> \in Task /\ posts' \in [Producers -> Nat]
    BY <1>15, PostsAssumption DEF QueueInLoop, Task
  <2>2. /\ pending' \in Seq(Task) /\ posted' \in Seq(Task)
        /\ functors' \in Seq(Task) /\ ran' \in Seq(Task)
    BY <1>15, <2>1, EnqueueTyped DEF QueueInLoop
  <2>3. pc' \in [Producers -> {"idle", "wake", "quit", "over"}]
    BY <1>15 DEF QueueInLoop
  <2>4. UNCHANGED <<at, handling, functors>>
    BY <1>15 DEF QueueInLoop, Enqueue
  <2>5. QED  BY <1>15, <2>1, <2>2, <2>3, <2>4 DEF QueueInLoop
<1>16. ASSUME NEW p \in Producers, Quit(p) PROVE TypeOK'
  BY <1>16 DEF Quit
<1>17. ASSUME NEW p \in Producers, Wake(p) PROVE TypeOK'
  <2>1. pc' \in [Producers -> {"idle", "wake", "quit", "over"}]
    BY <1>17 DEF Wake
  <2>2. QED  BY <1>17, <2>1 DEF Wake, wakeup
<1>18. CASE UNCHANGED vars
  BY <1>18 DEF vars
<1>19. QED
  BY <1>1, <1>2, <1>3, <1>4, <1>5, <1>6, <1>7, <1>8, <1>9, <1>10, <1>11,
     <1>12, <1>13, <1>14, <1>15, <1>16, <1>17, <1>18
  DEF Next, LoopThread, Producer

\* Every variable of the loop keeps its type in every step of the loop and of the threads
\* that post to it (EventLoop.cpp).
THEOREM LoopTypeCorrect == Spec => []TypeOK
BY LoopTypeInit, LoopTypeStep, PTL DEF Spec

-----------------------------------------------------------------------------
(* The order of the loop's tasks.                                          *)

LEMMA QueueInit == Init => TasksInOrder
BY EmptySeq, ConcatEmptySeq DEF Init, TasksInOrder

LEMMA EnqueueOrder ==
    ASSUME TypeOK, TasksInOrder, NEW t \in Task, Enqueue(t)
    PROVE  TasksInOrder'
<1>1. /\ ran \in Seq(Task) /\ functors \in Seq(Task) /\ pending \in Seq(Task)
      /\ posted = ran \o functors \o pending
  BY DEF TypeOK, TasksInOrder
<1>2. <<t>> \in Seq(Task) /\ ran \o functors \in Seq(Task) /\ posted \in Seq(Task)
  BY <1>1, ConcatProperties DEF TypeOK
<1>3. posted' = posted \o <<t>> /\ pending' = pending \o <<t>>
  BY <1>1, <1>2, AppendIsConcat DEF Enqueue
<1>4. (ran \o functors \o pending) \o <<t>> = ran \o functors \o (pending \o <<t>>)
  BY <1>1, <1>2, ConcatAssociative
<1>5. UNCHANGED <<ran, functors>>
  BY DEF Enqueue
<1>6. QED  BY <1>1, <1>3, <1>4, <1>5 DEF TasksInOrder

LEMMA QueueStep == TypeOK /\ TasksInOrder /\ [Next]_vars => TasksInOrder'
<1> SUFFICES ASSUME TypeOK, TasksInOrder, [Next]_vars
             PROVE TasksInOrder'
  OBVIOUS
<1> USE DEF TasksInOrder, fdVars, taskVars, userVars
<1>1. CASE Enter
  BY <1>1 DEF Enter
<1>2. CASE Round
  BY <1>2 DEF Round
<1>3. CASE Wait
  BY <1>3 DEF Wait
<1>4. CASE ReadWakeup
  BY <1>4 DEF ReadWakeup
<1>5. CASE WakeupDrained
  BY <1>5 DEF WakeupDrained
<1>6. CASE HandlerReturns
  BY <1>6 DEF HandlerReturns
<1>7. CASE TimersRun
  BY <1>7 DEF TimersRun
<1>8. CASE Swap
  <2>1. functors = <<>> /\ posted = ran \o functors \o pending
    BY <1>8 DEF Swap, TypeOK
  <2>2. ran \o functors = ran
    BY <2>1, ConcatEmptySeq DEF TypeOK
  <2>3. ran \o pending \in Seq(Task)
    BY ConcatProperties DEF TypeOK
  <2>4. ran \o pending \o <<>> = ran \o pending
    BY <2>3, ConcatEmptySeq
  <2>5. QED  BY <1>8, <2>1, <2>2, <2>4 DEF Swap
<1>9. CASE RunFunctor
  <2>1. Append(ran, Head(functors)) \o Tail(functors) = ran \o functors
    BY <1>9, MoveHead DEF RunFunctor, TypeOK
  <2>2. QED  BY <1>9, <2>1 DEF RunFunctor
<1>10. CASE FunctorReturns
  BY <1>10 DEF FunctorReturns
<1>11. CASE BatchDone
  BY <1>11 DEF BatchDone
<1>12. CASE QueueFromLoop
  <2>1. <<Self, selfPosts>> \in Task
    BY <1>12, PostsAssumption DEF QueueFromLoop, TypeOK,
         Task
  <2>2. TasksInOrder'
    BY <1>12, <2>1, EnqueueOrder DEF QueueFromLoop
  <2>3. QED  BY <1>12, <2>2 DEF QueueFromLoop, Enqueue
<1>13. CASE QuitFromLoop
  BY <1>13 DEF QuitFromLoop
<1>14. CASE IoReady
  BY <1>14 DEF IoReady
<1>15. ASSUME NEW p \in Producers, QueueInLoop(p) PROVE TasksInOrder'
  <2>1. <<p, posts[p]>> \in Task
    BY <1>15, PostsAssumption DEF QueueInLoop, TypeOK, Task
  <2>2. TasksInOrder'
    BY <1>15, <2>1, EnqueueOrder DEF QueueInLoop
  <2>3. QED  BY <1>15, <2>2 DEF QueueInLoop, Enqueue
<1>16. ASSUME NEW p \in Producers, Quit(p) PROVE TasksInOrder'
  BY <1>16 DEF Quit
<1>17. ASSUME NEW p \in Producers, Wake(p) PROVE TasksInOrder'
  BY <1>17 DEF Wake
<1>18. CASE UNCHANGED vars
  BY <1>18 DEF vars
<1>19. QED
  BY <1>1, <1>2, <1>3, <1>4, <1>5, <1>6, <1>7, <1>8, <1>9, <1>10, <1>11,
     <1>12, <1>13, <1>14, <1>15, <1>16, <1>17, <1>18
  DEF Next, LoopThread, Producer

\* No task is lost, run twice or overtaken (queueInLoop(), doPendingFunctors()).
THEOREM LoopRunsInOrder == Spec => []TasksInOrder
<1>1. Init => TypeOK /\ TasksInOrder
  BY LoopTypeInit, QueueInit
<1>2. (TypeOK /\ TasksInOrder) /\ [Next]_vars => (TypeOK /\ TasksInOrder)'
  BY LoopTypeStep, QueueStep
<1>3. QED  BY <1>1, <1>2, PTL DEF Spec

-----------------------------------------------------------------------------
(* Wakeups.  From the end of one batch to the next epoll_wait() a task that  *)
(* is in the queue has a wakeup; before the swap it needs none.              *)

WakeInv ==
    /\ at \in {"new", "head", "wait", "run", "functor"} /\ pending # <<>> => Signalled
    /\ NoLostQuit
    /\ NoStaleCount

LEMMA WakeInit == Init => WakeInv
BY DEF Init, WakeInv, NoLostQuit, NoStaleCount

LEMMA WakeStep == TypeOK /\ WakeInv /\ [Next]_vars => WakeInv'
<1> SUFFICES ASSUME TypeOK, WakeInv, [Next]_vars PROVE WakeInv'
  OBVIOUS
<1> USE DEF WakeInv, NoLostQuit, NoStaleCount, Signalled,
            callingPendingFunctors, InHandler, InTimer, InFunctor,
            wakeup, Enqueue, fdVars, taskVars, userVars
<1>1. CASE Enter
  BY <1>1 DEF Enter
<1>2. CASE Round
  BY <1>2 DEF Round
<1>3. CASE Wait
  BY <1>3 DEF Wait, TypeOK
<1>4. CASE ReadWakeup
  BY <1>4 DEF ReadWakeup
<1>5. CASE WakeupDrained
  BY <1>5 DEF WakeupDrained
<1>6. CASE HandlerReturns
  BY <1>6 DEF HandlerReturns
<1>7. CASE TimersRun
  BY <1>7 DEF TimersRun
<1>8. CASE Swap
  BY <1>8 DEF Swap
<1>9. CASE RunFunctor
  BY <1>9 DEF RunFunctor
<1>10. CASE FunctorReturns
  BY <1>10 DEF FunctorReturns
<1>11. CASE BatchDone
  BY <1>11 DEF BatchDone
<1>12. CASE QueueFromLoop
  BY <1>12 DEF QueueFromLoop
<1>13. CASE QuitFromLoop
  BY <1>13 DEF QuitFromLoop
<1>14. CASE IoReady
  BY <1>14 DEF IoReady
<1>15. ASSUME NEW p \in Producers, QueueInLoop(p) PROVE WakeInv'
  <2>1. pc'[p] = "wake"
    BY <1>15 DEF QueueInLoop, TypeOK
  <2>2. Signalled'
    BY <2>1
  <2>3. QED  BY <1>15, <2>2 DEF QueueInLoop
<1>16. ASSUME NEW p \in Producers, Quit(p) PROVE WakeInv'
  <2>1. pc'[p] = "quit"
    BY <1>16 DEF Quit, TypeOK
  <2>2. Signalled'
    BY <2>1
  <2>3. QED  BY <1>16, <2>2 DEF Quit
<1>17. ASSUME NEW p \in Producers, Wake(p) PROVE WakeInv'
  <2>1. Signalled' /\ edge'
    BY <1>17 DEF Wake
  <2>2. QED  BY <1>17, <2>1 DEF Wake
<1>18. CASE UNCHANGED vars
  BY <1>18 DEF vars
<1>19. QED
  BY <1>1, <1>2, <1>3, <1>4, <1>5, <1>6, <1>7, <1>8, <1>9, <1>10, <1>11,
     <1>12, <1>13, <1>14, <1>15, <1>16, <1>17, <1>18
  DEF Next, LoopThread, Producer

LoopInv == TypeOK /\ TasksInOrder /\ WakeInv

LEMMA LoopInvariance == Spec => []LoopInv
<1>1. Init => LoopInv
  BY LoopTypeInit, QueueInit, WakeInit DEF LoopInv
<1>2. LoopInv /\ [Next]_vars => LoopInv'
  BY LoopTypeStep, QueueStep, WakeStep DEF LoopInv
<1>3. QED  BY <1>1, <1>2, PTL DEF Spec

\* Whatever should wake the loop up does: a task queued, a quit(), a count of the
\* eventfd (queueInLoop(), quit(), handleWakeup()).
THEOREM WakeupsReachLoop == Spec => []WakeupsArrive
<1>1. LoopInv => NoLostWakeup
  BY DEF LoopInv, WakeInv, NoLostWakeup
<1>2. LoopInv => NoLostQuit /\ NoStaleCount
  BY DEF LoopInv, WakeInv
<1>3. QED  BY <1>1, <1>2, LoopInvariance, PTL DEF WakeupsArrive

-----------------------------------------------------------------------------
(* The loop implements a mailbox.                                           *)

LEMMA LoopBoxInit == Init => Box!Init
BY DEF Init, Box!Init

LEMMA LoopBoxStep == LoopInv /\ [Next]_vars => [Box!Next]_<<posted, ran>>
<1> SUFFICES ASSUME LoopInv, [Next]_vars PROVE [Box!Next]_<<posted, ran>>
  OBVIOUS
<1> USE DEF fdVars, taskVars, userVars
<1>1. CASE Enter
  BY <1>1 DEF Enter
<1>2. CASE Round
  BY <1>2 DEF Round
<1>3. CASE Wait
  BY <1>3 DEF Wait
<1>4. CASE ReadWakeup
  BY <1>4 DEF ReadWakeup
<1>5. CASE WakeupDrained
  BY <1>5 DEF WakeupDrained
<1>6. CASE HandlerReturns
  BY <1>6 DEF HandlerReturns
<1>7. CASE TimersRun
  BY <1>7 DEF TimersRun
<1>8. CASE Swap
  BY <1>8 DEF Swap
<1>9. CASE RunFunctor
  <2>1. /\ Len(ran) < Len(ran \o functors \o pending)
        /\ (ran \o functors \o pending)[Len(ran) + 1] = Head(functors)
    BY <1>9, NextElement DEF RunFunctor, LoopInv, TypeOK
  <2>2. posted = ran \o functors \o pending
    BY DEF LoopInv, TasksInOrder
  <2>3. Box!Run
    BY <1>9, <2>1, <2>2 DEF RunFunctor, Box!Run
  <2>4. QED  BY <2>3 DEF Box!Next
<1>10. CASE FunctorReturns
  BY <1>10 DEF FunctorReturns
<1>11. CASE BatchDone
  BY <1>11 DEF BatchDone
<1>12. CASE QueueFromLoop
  <2>1. <<Self, selfPosts>> \in Task
    BY <1>12, PostsAssumption DEF QueueFromLoop, LoopInv,
         TypeOK, Task
  <2>2. QED  BY <1>12, <2>1 DEF QueueFromLoop, Enqueue, Box!Next, Box!Post
<1>13. CASE QuitFromLoop
  BY <1>13 DEF QuitFromLoop
<1>14. CASE IoReady
  BY <1>14 DEF IoReady
<1>15. ASSUME NEW p \in Producers, QueueInLoop(p) PROVE [Box!Next]_<<posted, ran>>
  <2>1. <<p, posts[p]>> \in Task
    BY <1>15, PostsAssumption DEF QueueInLoop, LoopInv,
         TypeOK, Task
  <2>2. QED  BY <1>15, <2>1 DEF QueueInLoop, Enqueue, Box!Next, Box!Post
<1>16. ASSUME NEW p \in Producers, Quit(p) PROVE [Box!Next]_<<posted, ran>>
  BY <1>16 DEF Quit
<1>17. ASSUME NEW p \in Producers, Wake(p) PROVE [Box!Next]_<<posted, ran>>
  BY <1>17 DEF Wake
<1>18. CASE UNCHANGED vars
  BY <1>18 DEF vars
<1>19. QED
  BY <1>1, <1>2, <1>3, <1>4, <1>5, <1>6, <1>7, <1>8, <1>9, <1>10, <1>11,
     <1>12, <1>13, <1>14, <1>15, <1>16, <1>17, <1>18
  DEF Next, LoopThread, Producer

\* Every step of the loop is a step of the mailbox or leaves it alone (queueInLoop(),
\* doPendingFunctors()).
THEOREM LoopIsAMailbox == Spec => ImplementsMailbox
<1>1. Init => Box!Init
  BY LoopBoxInit
<1>2. LoopInv /\ [Next]_vars => [Box!Next]_<<posted, ran>>
  BY LoopBoxStep
<1>3. QED
  BY <1>1, <1>2, LoopInvariance, PTL DEF Spec, ImplementsMailbox, Box!Spec

-----------------------------------------------------------------------------
(* The life of the loop.  A post is under way only while the owner has not    *)
(* told the loop to quit, and an IO thread's loop ends only after it has been *)
(* told; main() waits for the posts before it destroys the base loop.         *)

LifeInv ==
    /\ thread = "looping" => at # "new"
    /\ thread \in {"cleared", "ended"} => at = "done"
    /\ at = "done" => quit
    /\ IsBase => loop_ /\ (thread = "ended" => \A p \in Producers : pc[p] # "wake")
    /\ ~IsBase =>
          /\ owner = "idle" => thread = "none"
          /\ thread \in {"published", "looping"} <=> loop_
          /\ quit => owner \in {"quitting", "joining", "joined"}
          /\ owner = "running" => thread \notin {"none", "starting"}
          /\ \A p \in Producers : pc[p] = "wake" => owner = "running"

ThreadInv == ThreadTypeOK /\ LifeInv

LEMMA ThreadInvInit == ThreadInit => ThreadInv
<1> SUFFICES ASSUME ThreadInit PROVE ThreadInv
  OBVIOUS
<1>1. TypeOK
  BY LoopTypeInit DEF ThreadInit
<1>2. ThreadTypeOK
  BY <1>1 DEF ThreadInit, ThreadTypeOK
<1>3. LifeInv
  BY DEF ThreadInit, Init, LifeInv, IsBase
<1>4. QED  BY <1>2, <1>3 DEF ThreadInv

\* Whatever the owner and the thread do, the loop takes a step of its own or none.
LEMMA ThreadStepIsLoopStep == [ThreadNext]_allVars => [Next]_vars
BY OwnerAssumption DEF ThreadNext, allVars, StartLoop,
     StartReturns, Post, PostWakes, QuitLoop, QuitWakes,
    Join, threadFunc, Publish, BeginLoop, LoopRuns, LoopQueues,
         ClearLoop, DestroyLoop,
    Next, LoopThread, Producer

\* The loop's own steps end it only when it was told to quit, and neither quit nor
\* post in a producer's name.
LEMMA LoopThreadFrame ==
    ASSUME LoopThread, at # "new"
    PROVE  /\ UNCHANGED <<quit, pc>>
           /\ at # "done" /\ at' # "new" /\ (at' = "done" => quit)
BY DEF LoopThread, Enter, Round, Wait, ReadWakeup,
     WakeupDrained, HandlerReturns, TimersRun,
       Swap, RunFunctor, FunctorReturns, BatchDone, InHandler,
            userVars

LEMMA ThreadInvStep == ThreadInv /\ [ThreadNext]_allVars => ThreadInv'
<1> SUFFICES ASSUME ThreadInv, [ThreadNext]_allVars PROVE ThreadInv'
  OBVIOUS
<1> USE DEF ThreadInv, LifeInv, ThreadTypeOK, IsBase, userVars, threadVars
<1>1. TypeOK'
  BY ThreadStepIsLoopStep, LoopTypeStep
<1>2. CASE StartLoop
  BY <1>1, <1>2 DEF StartLoop, vars
<1>3. CASE StartReturns
  BY <1>1, <1>3 DEF StartReturns, vars
<1>4. ASSUME NEW p \in Producers, Post(p) PROVE ThreadInv'
  <2>1. pc \in [Producers -> {"idle", "wake", "quit", "over"}]
    BY DEF TypeOK
  <2>2. QED  BY <1>1, <1>4, <2>1
        DEF Post, QueueInLoop
<1>5. ASSUME NEW p \in Producers, PostWakes(p) PROVE ThreadInv'
  <2>1. pc \in [Producers -> {"idle", "wake", "quit", "over"}]
    BY DEF TypeOK
  <2>2. QED  BY <1>1, <1>5, <2>1
        DEF PostWakes, Wake
<1>6. CASE QuitLoop
  <2>1. pc \in [Producers -> {"idle", "wake", "quit", "over"}] /\ Owner \in Producers
    BY OwnerAssumption DEF TypeOK
  <2>2. QED  BY <1>1, <1>6, <2>1 DEF QuitLoop, Quit
<1>7. CASE QuitWakes
  <2>1. pc \in [Producers -> {"idle", "wake", "quit", "over"}] /\ Owner \in Producers
    BY OwnerAssumption DEF TypeOK
  <2>2. QED  BY <1>1, <1>7, <2>1 DEF QuitWakes, Wake
<1>8. CASE Join
  BY <1>1, <1>8 DEF Join, vars
<1>9. CASE Publish
  BY <1>1, <1>9 DEF Publish, vars
<1>10. CASE BeginLoop
  BY <1>1, <1>10 DEF BeginLoop, Enter
<1>11. CASE LoopRuns
  BY <1>1, <1>11, LoopThreadFrame DEF LoopRuns
<1>12. CASE LoopQueues
  BY <1>1, <1>12
  DEF LoopQueues, QueueFromLoop, IoReady, QuitFromLoop
<1>13. CASE ClearLoop
  BY <1>1, <1>13 DEF ClearLoop, vars
<1>14. CASE DestroyLoop
  BY <1>1, <1>14 DEF DestroyLoop, vars
<1>15. CASE UNCHANGED allVars
  BY <1>1, <1>15 DEF allVars, vars
<1>16. QED
  BY <1>2, <1>3, <1>4, <1>5, <1>6, <1>7, <1>8, <1>9, <1>10, <1>11, <1>12, <1>13,
     <1>14, <1>15
  DEF ThreadNext, threadFunc

\* Nobody posts to a loop that is gone: an IO thread's loop ends only once the owner,
\* which has joined the workers, has told it to, and the base loop is destroyed only
\* when nobody posts (EventLoopThread::threadFunc(), ~EventLoopThreadPool(), main()).
THEOREM PostsFindALoop == ThreadSpec => []LoopOutlivesPosts
<1>1. ThreadInv => LoopOutlivesPosts
  BY DEF ThreadInv, LifeInv, LoopOutlivesPosts, ThreadTypeOK, PostersSeeALoop
<1>2. QED  BY <1>1, ThreadInvInit, ThreadInvStep, PTL DEF ThreadSpec

\* A loop in its thread is a loop: it runs what is queued in order, as a mailbox
\* does, and no wakeup is lost over the start, the quit and the end of the thread
\* (threadFunc()).
THEOREM ThreadRunsALoop == ThreadSpec => []WakeupsArrive /\ ImplementsMailbox
<1>1. ThreadInit => Init
  BY DEF ThreadInit
<1>2. ThreadSpec => Spec
  BY <1>1, ThreadStepIsLoopStep, PTL DEF ThreadSpec, Spec
<1>3. QED  BY <1>2, WakeupsReachLoop, LoopIsAMailbox, PTL

-----------------------------------------------------------------------------
(* Types of the pool.                                                      *)

LEMMA PoolTypeInit == PoolInit => PoolTypeOK
<1> SUFFICES ASSUME PoolInit PROVE PoolTypeOK
  OBVIOUS
<1>1. tasks \in Seq(Submission) /\ submitted \in Seq(Submission) /\ begun \in Seq(Submission)
  BY EmptySeq DEF PoolInit
<1>2. /\ worker \in [Workers -> {"none", "awake", "waiting", "busy", "exited"}]
      /\ submit \in [Submitters -> {"idle", "notify", "threw"}]
      /\ submits \in [Submitters -> Nat]
  BY DEF PoolInit
<1>3. In("none") = Workers
  BY DEF PoolInit, In
<1>4. QED  BY <1>1, <1>2, <1>3 DEF PoolInit, PoolTypeOK

WorkerStates == {"none", "awake", "waiting", "busy", "exited"}

\* One worker goes from one state to another.
LEMMA Moved ==
    ASSUME PoolTypeOK, NEW w \in Workers, NEW to \in WorkerStates,
         worker' = [worker EXCEPT ![w] = to]
    PROVE  /\ worker' \in [Workers -> WorkerStates]
           /\ In(to)' = In(to) \union {w}
           /\ \A s \in WorkerStates \ {to} : In(s)' = In(s) \ {w}
BY DEF PoolTypeOK, In, WorkerStates

\* A step of a worker, or one that wakes it: none of them starts or ends a thread.
LEMMA MovedTyped ==
    ASSUME PoolTypeOK, NEW w \in Workers, NEW to \in WorkerStates \ {"none"},
         worker[w] # "none",
           worker' = [worker EXCEPT ![w] = to],
           running' = running, phase' = phase, starts' = starts,
           tasks' \in Seq(Submission), submitted' \in Seq(Submission), begun' \in Seq(Submission),
           submit' \in [Submitters -> {"idle", "notify", "threw"}],
           submits' \in [Submitters -> Nat]
    PROVE  PoolTypeOK'
<1>1. worker' \in [Workers -> WorkerStates] /\ In("none")' = In("none") \ {w}
  BY Moved DEF WorkerStates
<1>2. w \notin In("none")
  BY DEF In
<1>3. In("none")' = In("none")
  BY <1>1, <1>2
<1>4. QED  BY <1>1, <1>3 DEF PoolTypeOK, WorkerStates

LEMMA PoolTypeStep == PoolTypeOK /\ [PoolNext]_poolVars => PoolTypeOK'
<1> SUFFICES ASSUME PoolTypeOK, [PoolNext]_poolVars PROVE PoolTypeOK'
  OBVIOUS
<1> USE DEF queueVars, submitVars, ownerVars
<1>1. ASSUME NEW s \in Submitters, Push(s) PROVE PoolTypeOK'
  <2>1. <<s, submits[s]>> \in Submission
    BY <1>1, BoundsAssumption DEF Push, PoolTypeOK, Submission
  <2>2. tasks' \in Seq(Submission) /\ submitted' \in Seq(Submission)
    BY <1>1, <2>1, AppendProperties DEF Push, PoolTypeOK
  <2>3. In("none")' = In("none")
    BY <1>1 DEF Push, In
  <2>4. QED  BY <1>1, <2>2, <2>3 DEF Push, PoolTypeOK
<1>2. ASSUME NEW s \in Submitters, Refuse(s) PROVE PoolTypeOK'
  BY <1>2 DEF Refuse, PoolTypeOK, In
<1>3. ASSUME NEW s \in Submitters, Caught(s) PROVE PoolTypeOK'
  BY <1>3 DEF Caught, PoolTypeOK, In
<1>4. ASSUME NEW s \in Submitters, NotifyOne(s) PROVE PoolTypeOK'
  <2>1. /\ submit' \in [Submitters -> {"idle", "notify", "threw"}]
        /\ UNCHANGED <<running, queueVars, submits, ownerVars>>
    BY <1>4 DEF NotifyOne, PoolTypeOK
  <2>2. CASE UNCHANGED worker
    BY <2>1, <2>2 DEF PoolTypeOK, In
  <2>3. ASSUME NEW w \in In("waiting"), worker' = [worker EXCEPT ![w] = "awake"]
        PROVE  PoolTypeOK'
    <3>1. w \in Workers /\ worker[w] # "none" /\ "awake" \in WorkerStates \ {"none"}
      BY DEF In, WorkerStates
    <3>2. /\ tasks' \in Seq(Submission) /\ submitted' \in Seq(Submission) /\ begun' \in Seq(Submission)
          /\ submits' \in [Submitters -> Nat]
      BY <2>1 DEF PoolTypeOK
    <3>3. QED  BY <2>1, <2>3, <3>1, <3>2, MovedTyped
  <2>4. QED  BY <1>4, <2>2, <2>3 DEF NotifyOne
<1>5. ASSUME NEW w \in Workers, TakeTask(w) PROVE PoolTypeOK'
  <2>1. tasks' \in Seq(Submission) /\ begun' \in Seq(Submission)
    BY <1>5, MoveHead DEF TakeTask, PoolTypeOK
  <2>2. "busy" \in WorkerStates \ {"none"}
    BY DEF WorkerStates
  <2>3. QED  BY <1>5, <2>1, <2>2, MovedTyped DEF TakeTask, PoolTypeOK
<1>6. ASSUME NEW w \in Workers, Sleep(w) PROVE PoolTypeOK'
  <2>1. "waiting" \in WorkerStates \ {"none"}
    BY DEF WorkerStates
  <2>2. QED  BY <1>6, <2>1, MovedTyped DEF Sleep, PoolTypeOK
<1>7. ASSUME NEW w \in Workers, Exit(w) PROVE PoolTypeOK'
  <2>1. "exited" \in WorkerStates \ {"none"}
    BY DEF WorkerStates
  <2>2. QED  BY <1>7, <2>1, MovedTyped DEF Exit, PoolTypeOK
<1>8. ASSUME NEW w \in Workers, TaskReturns(w) PROVE PoolTypeOK'
  <2>1. "awake" \in WorkerStates \ {"none"}
    BY DEF WorkerStates
  <2>2. QED  BY <1>8, <2>1, MovedTyped DEF TaskReturns, PoolTypeOK
<1>9. ASSUME NEW w \in Workers, SpuriousWakeup(w) PROVE PoolTypeOK'
  <2>1. "awake" \in WorkerStates \ {"none"}
    BY DEF WorkerStates
  <2>2. QED  BY <1>9, <2>1, MovedTyped DEF SpuriousWakeup, PoolTypeOK
<1>10. CASE Start
  <2>1. In("none")' = {} /\ Workers # {}
    BY <1>10, WorkersAssumption DEF Start, In
  <2>2. worker' \in [Workers -> WorkerStates]
    BY <1>10 DEF Start, WorkerStates
  <2>3. QED  BY <1>10, <2>1, <2>2 DEF Start, PoolTypeOK, WorkerStates
<1>11. CASE Stop
  BY <1>11 DEF Stop, PoolTypeOK, In
<1>12. CASE NotifyAll
  <2>1. In("none")' = In("none")
    BY <1>12 DEF NotifyAll, In, PoolTypeOK
  <2>2. worker' \in [Workers -> WorkerStates]
    BY <1>12 DEF NotifyAll, PoolTypeOK, WorkerStates
  <2>3. QED  BY <1>12, <2>1, <2>2 DEF NotifyAll, PoolTypeOK, WorkerStates
<1>13. CASE JoinWorkers
  <2>1. In("none")' = Workers
    BY <1>13 DEF JoinWorkers, In
  <2>2. worker' \in [Workers -> WorkerStates]
    BY <1>13 DEF JoinWorkers, WorkerStates
  <2>3. QED  BY <1>13, <2>1, <2>2 DEF JoinWorkers, PoolTypeOK, WorkerStates
<1>14. CASE UNCHANGED poolVars
  BY <1>14 DEF poolVars, PoolTypeOK, In
<1>15. QED
  BY <1>1, <1>2, <1>3, <1>4, <1>5, <1>6, <1>7, <1>8, <1>9, <1>10, <1>11, <1>12,
     <1>13, <1>14
  DEF PoolNext, Submit, workerLoop

-----------------------------------------------------------------------------
(* Who is awake.                                                           *)

SleepInv == EnoughAwake /\ NobodyMissesStop

\* The sets that EnoughAwake counts are finite.
LEMMA Counts ==
    /\ \A s : IsFiniteSet(In(s)) /\ Cardinality(In(s)) \in Nat
    /\ IsFiniteSet(Notifying) /\ Cardinality(Notifying) \in Nat
<1>1. Notifying \subseteq Submitters
  BY DEF Notifying
<1>2. ASSUME NEW s PROVE In(s) \subseteq Workers
  BY DEF In
<1>3. QED
  BY <1>1, <1>2, FS_Subset, FS_CardinalityType, WorkersAssumption, SubmittersAssumption

\* A worker that wakes up is one more of those who are awake.
LEMMA WakesUp ==
    ASSUME PoolTypeOK, NEW w \in Workers, worker[w] # "awake",
           worker' = [worker EXCEPT ![w] = "awake"]
    PROVE  /\ Cardinality(In("awake")') = Cardinality(In("awake")) + 1
           /\ In("waiting")' \subseteq In("waiting")
<1>1. In("awake")' = In("awake") \union {w} /\ In("waiting")' = In("waiting") \ {w}
  BY Moved DEF WorkerStates
<1>2. w \notin In("awake")
  BY DEF In
<1>3. QED  BY <1>1, <1>2, Counts, FS_AddElement

LEMMA SleepStep == PoolTypeOK /\ SleepInv /\ [PoolNext]_poolVars => SleepInv'
<1> SUFFICES ASSUME PoolTypeOK, SleepInv, [PoolNext]_poolVars PROVE SleepInv'
  OBVIOUS
<1> USE DEF queueVars, submitVars, ownerVars
<1>0. /\ Cardinality(In("awake")) \in Nat /\ Cardinality(Notifying) \in Nat
      /\ Cardinality(In("awake")') \in Nat /\ Cardinality(Notifying') \in Nat
      /\ Len(tasks) \in Nat
  <2>1. Cardinality(In("awake")') \in Nat /\ Cardinality(Notifying') \in Nat
    <3>1. In("awake")' \subseteq Workers /\ Notifying' \subseteq Submitters
      BY DEF In, Notifying
    <3>2. QED
      BY <3>1, FS_Subset, FS_CardinalityType, WorkersAssumption, SubmittersAssumption
  <2>2. QED  BY <2>1, Counts, LenProperties DEF PoolTypeOK
<1>1. ASSUME NEW s \in Submitters, Push(s) PROVE SleepInv'
  <2>1. Notifying' = Notifying \union {s} /\ s \notin Notifying
    BY <1>1 DEF Push, Notifying, PoolTypeOK
  <2>2. Cardinality(Notifying') = Cardinality(Notifying) + 1
    BY <2>1, Counts, FS_AddElement
  <2>3. <<s, submits[s]>> \in Submission
    BY <1>1, BoundsAssumption DEF Push, PoolTypeOK, Submission
  <2>4. Len(tasks') = Len(tasks) + 1
    BY <1>1, <2>3, AppendProperties DEF Push, PoolTypeOK
  <2>5. In("waiting")' = In("waiting") /\ In("awake")' = In("awake") /\ phase' = phase
    BY <1>1 DEF Push, In
  <2>6. QED  BY <1>0, <2>2, <2>4, <2>5 DEF SleepInv, EnoughAwake, NobodyMissesStop
<1>2. ASSUME NEW s \in Submitters, Refuse(s) \/ Caught(s) PROVE SleepInv'
  <2>1. Notifying' = Notifying
    BY <1>2 DEF Refuse, Caught, Notifying, PoolTypeOK
  <2>2. /\ In("waiting")' = In("waiting") /\ In("awake")' = In("awake")
        /\ phase' = phase /\ tasks' = tasks
    BY <1>2 DEF Refuse, Caught, In
  <2>3. QED  BY <2>1, <2>2 DEF SleepInv, EnoughAwake, NobodyMissesStop
<1>3. ASSUME NEW s \in Submitters, NotifyOne(s) PROVE SleepInv'
  <2>1. Notifying' = Notifying \ {s} /\ s \in Notifying
    BY <1>3 DEF NotifyOne, Notifying, PoolTypeOK
  <2>2. Cardinality(Notifying') = Cardinality(Notifying) - 1
    BY <2>1, Counts, FS_RemoveElement
  <2>3. phase' = phase /\ tasks' = tasks
    BY <1>3 DEF NotifyOne
  <2>4. CASE In("waiting") = {}
    <3>1. In("waiting")' = {}
      BY <1>3, <2>4 DEF NotifyOne, In
    <3>2. QED  BY <3>1 DEF SleepInv, EnoughAwake, NobodyMissesStop
  <2>5. ASSUME NEW w \in In("waiting"), worker' = [worker EXCEPT ![w] = "awake"]
        PROVE  SleepInv'
    <3>1. w \in Workers /\ worker[w] # "awake"
      BY DEF In
    <3>2. /\ Cardinality(In("awake")') = Cardinality(In("awake")) + 1
          /\ In("waiting")' \subseteq In("waiting")
      BY <2>5, <3>1, WakesUp
    <3>3. QED  BY <1>0, <2>2, <2>3, <3>2 DEF SleepInv, EnoughAwake, NobodyMissesStop
  <2>6. QED  BY <1>3, <2>4, <2>5 DEF NotifyOne
<1>4. ASSUME NEW w \in Workers, TakeTask(w) PROVE SleepInv'
  <2>1. /\ In("awake")' = In("awake") \ {w} /\ w \in In("awake")
        /\ In("waiting")' = In("waiting") \ {w}
    BY <1>4, Moved DEF TakeTask, In, WorkerStates
  <2>2. Cardinality(In("awake")') = Cardinality(In("awake")) - 1
    BY <2>1, Counts, FS_RemoveElement
  <2>3. Len(tasks') = Len(tasks) - 1 /\ phase' = phase /\ Notifying' = Notifying
    BY <1>4, HeadTailProperties DEF TakeTask, Notifying, PoolTypeOK
  <2>4. QED  BY <1>0, <2>1, <2>2, <2>3 DEF SleepInv, EnoughAwake, NobodyMissesStop
<1>5. ASSUME NEW w \in Workers, Sleep(w) PROVE SleepInv'
  <2>1. Len(tasks') = 0
    BY <1>5, EmptySeq DEF Sleep
  <2>2. phase' = "on"
    BY <1>5 DEF Sleep, PoolTypeOK
  <2>3. QED  BY <1>0, <2>1, <2>2 DEF SleepInv, EnoughAwake, NobodyMissesStop
<1>6. ASSUME NEW w \in Workers, Exit(w) PROVE SleepInv'
  <2>1. Len(tasks') = 0 /\ phase' = phase
    BY <1>6, EmptySeq DEF Exit
  <2>2. In("waiting")' = In("waiting") \ {w}
    BY <1>6, Moved DEF Exit, WorkerStates
  <2>3. QED  BY <1>0, <2>1, <2>2 DEF SleepInv, EnoughAwake, NobodyMissesStop
<1>7. ASSUME NEW w \in Workers, TaskReturns(w) \/ SpuriousWakeup(w) PROVE SleepInv'
  <2>1. worker[w] # "awake" /\ worker' = [worker EXCEPT ![w] = "awake"]
    BY <1>7 DEF TaskReturns, SpuriousWakeup
  <2>2. /\ Cardinality(In("awake")') = Cardinality(In("awake")) + 1
        /\ In("waiting")' \subseteq In("waiting")
    BY <2>1, WakesUp
  <2>3. tasks' = tasks /\ phase' = phase /\ Notifying' = Notifying
    BY <1>7 DEF TaskReturns, SpuriousWakeup, Notifying
  <2>4. QED  BY <1>0, <2>2, <2>3 DEF SleepInv, EnoughAwake, NobodyMissesStop
<1>8. CASE Start \/ NotifyAll \/ JoinWorkers
  <2>1. In("waiting")' = {}
    BY <1>8 DEF Start, NotifyAll, JoinWorkers, In
  <2>2. QED  BY <2>1 DEF SleepInv, EnoughAwake, NobodyMissesStop
<1>9. CASE Stop
  BY <1>9 DEF Stop, SleepInv, EnoughAwake, NobodyMissesStop, In,
       Notifying
<1>10. CASE UNCHANGED poolVars
  BY <1>10 DEF poolVars, SleepInv, EnoughAwake, NobodyMissesStop, In,
       Notifying
<1>11. QED
  BY <1>1, <1>2, <1>3, <1>4, <1>5, <1>6, <1>7, <1>8, <1>9, <1>10
  DEF PoolNext, Submit, workerLoop

-----------------------------------------------------------------------------
(* What is left when workers leave.                                        *)

LEMMA DrainedStep == PoolTypeOK /\ DrainedOnExit /\ [PoolNext]_poolVars => DrainedOnExit'
<1> SUFFICES ASSUME PoolTypeOK, DrainedOnExit, [PoolNext]_poolVars
             PROVE DrainedOnExit'
  OBVIOUS
<1> USE DEF queueVars, submitVars, ownerVars
<1>1. ASSUME NEW s \in Submitters, Push(s) PROVE DrainedOnExit'
  BY <1>1 DEF Push, DrainedOnExit, In
<1>2. ASSUME NEW s \in Submitters, Refuse(s) \/ Caught(s) PROVE DrainedOnExit'
  BY <1>2 DEF Refuse, Caught, DrainedOnExit, In
<1>3. ASSUME NEW s \in Submitters, NotifyOne(s) PROVE DrainedOnExit'
  <2>1. UNCHANGED <<running, tasks, phase>>
    BY <1>3 DEF NotifyOne
  <2>2. In("exited")' \subseteq In("exited")
    BY <1>3 DEF NotifyOne, In, PoolTypeOK
  <2>3. QED  BY <2>1, <2>2 DEF DrainedOnExit
<1>4. ASSUME NEW w \in Workers, TakeTask(w) PROVE DrainedOnExit'
  <2>1. In("exited")' = In("exited") \ {w} /\ phase' = phase
    BY <1>4, Moved DEF TakeTask, WorkerStates
  <2>2. QED  BY <1>4, <2>1 DEF TakeTask, DrainedOnExit
<1>5. ASSUME NEW w \in Workers, Sleep(w) \/ TaskReturns(w) \/ SpuriousWakeup(w)
      PROVE  DrainedOnExit'
  <2>1. In("exited")' = In("exited") \ {w} /\ UNCHANGED <<running, tasks, phase>>
    BY <1>5, Moved DEF Sleep, TaskReturns, SpuriousWakeup, WorkerStates
  <2>2. QED  BY <2>1 DEF DrainedOnExit
<1>6. ASSUME NEW w \in Workers, Exit(w) PROVE DrainedOnExit'
  BY <1>6 DEF Exit, DrainedOnExit
<1>7. CASE Start
  BY <1>7 DEF Start, DrainedOnExit, In
<1>8. CASE Stop
  BY <1>8 DEF Stop, DrainedOnExit, PoolTypeOK, In
<1>9. CASE NotifyAll
  BY <1>9 DEF NotifyAll, DrainedOnExit, PoolTypeOK, In
<1>10. CASE JoinWorkers
  <2>1. In("exited") # {} /\ UNCHANGED <<running, tasks>>
    BY <1>10, WorkersAssumption DEF JoinWorkers
  <2>2. QED  BY <2>1 DEF DrainedOnExit
<1>11. CASE UNCHANGED poolVars
  BY <1>11 DEF poolVars, DrainedOnExit, In
<1>12. QED
  BY <1>1, <1>2, <1>3, <1>4, <1>5, <1>6, <1>7, <1>8, <1>9, <1>10, <1>11
  DEF PoolNext, Submit, workerLoop

-----------------------------------------------------------------------------
(* The order of the pool's tasks.                                          *)

SubmittedInOrder == submitted = begun \o tasks

LEMMA OrderStep == PoolTypeOK /\ SubmittedInOrder /\ [PoolNext]_poolVars => SubmittedInOrder'
<1> SUFFICES ASSUME PoolTypeOK, SubmittedInOrder, [PoolNext]_poolVars
             PROVE SubmittedInOrder'
  OBVIOUS
<1> USE DEF queueVars, submitVars, ownerVars
<1>1. ASSUME NEW s \in Submitters, Push(s) PROVE SubmittedInOrder'
  <2> DEFINE t == <<s, submits[s]>>
  <2>1. t \in Submission
    BY <1>1, BoundsAssumption DEF Push, PoolTypeOK, Submission
  <2>2. submitted' = Append(submitted, t) /\ tasks' = Append(tasks, t) /\ begun' = begun
    BY <1>1 DEF Push
  <2> HIDE DEF t
  <2>3. begun \in Seq(Submission) /\ tasks \in Seq(Submission) /\ submitted \in Seq(Submission) /\ <<t>> \in Seq(Submission)
    BY <2>1 DEF PoolTypeOK
  <2>4. submitted' = submitted \o <<t>> /\ tasks' = tasks \o <<t>>
    BY <2>1, <2>2, <2>3, AppendIsConcat
  <2>5. (begun \o tasks) \o <<t>> = begun \o (tasks \o <<t>>)
    BY <2>3, ConcatAssociative
  <2>6. QED  BY <2>2, <2>4, <2>5 DEF SubmittedInOrder
<1>2. ASSUME NEW w \in Workers, TakeTask(w) PROVE SubmittedInOrder'
  <2>1. Append(begun, Head(tasks)) \o Tail(tasks) = begun \o tasks
    BY <1>2, MoveHead DEF TakeTask, PoolTypeOK
  <2>2. QED  BY <1>2, <2>1 DEF TakeTask, SubmittedInOrder
<1>3. CASE UNCHANGED queueVars
  BY <1>3 DEF SubmittedInOrder
<1>4. QED
  BY <1>1, <1>2, <1>3
  DEF PoolNext, Submit, workerLoop, poolVars, Refuse, Caught,
       NotifyOne, Sleep, Exit, TaskReturns,
      SpuriousWakeup, Start, Stop, NotifyAll, JoinWorkers

-----------------------------------------------------------------------------
(* What is proved of the pool.                                             *)

PoolInv == PoolTypeOK /\ SleepInv /\ DrainedOnExit /\ SubmittedInOrder

LEMMA PoolStart == PoolInit => PoolInv
<1> SUFFICES ASSUME PoolInit PROVE PoolInv
  OBVIOUS
<1>1. In("waiting") = {} /\ In("exited") = {}
  BY DEF PoolInit, In
<1>2. SleepInv /\ DrainedOnExit
  BY <1>1 DEF PoolInit, SleepInv, EnoughAwake, NobodyMissesStop, DrainedOnExit
<1>3. SubmittedInOrder
  BY EmptySeq, ConcatEmptySeq DEF PoolInit, SubmittedInOrder
<1>4. QED  BY <1>2, <1>3, PoolTypeInit DEF PoolInv

LEMMA PoolInvariance == PoolSpec => []PoolInv
<1>1. PoolInv /\ [PoolNext]_poolVars => PoolInv'
  BY PoolTypeStep, SleepStep, DrainedStep, OrderStep DEF PoolInv
<1>2. QED  BY <1>1, PoolStart, PTL DEF PoolSpec

\* While a worker sleeps, there is one awake, or a notify_one() to come, for every
\* queued task, and stop() is not past its notify_all() (submit(), workerLoop(), stop()).
THEOREM NoWakeupIsLost == PoolSpec => []SleepersAreSpare
<1>1. PoolInv => SleepersAreSpare
  BY DEF PoolInv, SleepInv, SleepersAreSpare
<1>2. QED  BY <1>1, PoolInvariance, PTL

\* No worker leaves while a task is queued, and a stopped pool has run all it accepted
\* (stop(), workerLoop()).
THEOREM StoppedIsDrained == PoolSpec => []DrainedOnExit
<1>1. PoolInv => DrainedOnExit
  BY DEF PoolInv
<1>2. QED  BY <1>1, PoolInvariance, PTL

LEMMA PoolBoxStep == PoolInv /\ [PoolNext]_poolVars => [PoolBox!Next]_<<submitted, begun>>
<1> SUFFICES ASSUME PoolInv, [PoolNext]_poolVars PROVE [PoolBox!Next]_<<submitted, begun>>
  OBVIOUS
<1> USE DEF queueVars, submitVars, ownerVars
<1>1. ASSUME NEW s \in Submitters, Push(s) PROVE PoolBox!Next
  <2>1. <<s, submits[s]>> \in Submission
    BY <1>1, BoundsAssumption DEF Push, PoolInv, PoolTypeOK,
         Submission
  <2>2. QED  BY <1>1, <2>1 DEF Push, PoolBox!Next, PoolBox!Post
<1>2. ASSUME NEW w \in Workers, TakeTask(w) PROVE PoolBox!Next
  <2> DEFINE none == <<>>
  <2>1. /\ begun \in Seq(Submission) /\ tasks \in Seq(Submission) /\ tasks # <<>>
        /\ submitted = begun \o tasks /\ none \in Seq(Submission)
    BY <1>2, EmptySeq DEF TakeTask, PoolInv, PoolTypeOK, SubmittedInOrder
  <2>2. begun \o tasks \in Seq(Submission) /\ (begun \o tasks) \o none = begun \o tasks
    BY <2>1, ConcatProperties, ConcatEmptySeq
  <2>3. /\ Len(begun) < Len(begun \o tasks \o none)
        /\ (begun \o tasks \o none)[Len(begun) + 1] = Head(tasks)
    BY <2>1, NextElement
  <2>4. PoolBox!Run
    BY <1>2, <2>1, <2>2, <2>3 DEF TakeTask, PoolBox!Run
  <2>5. QED  BY <2>4 DEF PoolBox!Next
<1>3. CASE UNCHANGED queueVars
  BY <1>3
<1>4. QED
  BY <1>1, <1>2, <1>3
  DEF PoolNext, Submit, workerLoop, poolVars, Refuse, Caught,
       NotifyOne, Sleep, Exit, TaskReturns,
      SpuriousWakeup, Start, Stop, NotifyAll, JoinWorkers

\* A submission is a post, and a worker that takes a task runs the one posted next;
\* every other step leaves the mailbox alone (submit(), workerLoop()).
THEOREM PoolIsAMailbox == PoolSpec => PoolImplementsMailbox
<1>1. PoolInit => PoolBox!Init
  BY DEF PoolInit, PoolBox!Init
<1>2. PoolInv /\ [PoolNext]_poolVars => [PoolBox!Next]_<<submitted, begun>>
  BY PoolBoxStep
<1>3. QED  BY <1>1, <1>2, PoolInvariance, PTL DEF PoolSpec, PoolImplementsMailbox,
     PoolBox!Spec
=============================================================================
