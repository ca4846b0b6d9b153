----------------------------- MODULE ServerProofs -----------------------------
(***************************************************************************)
(* Proofs about Server, for every number of connections, of requests and   *)
(* of IO loops, with and without workers; what holds for at most one IO    *)
(* loop, or none, says so.                                                 *)
(***************************************************************************)
EXTENDS Server, CommonLemmas

Kinds == {"create", "close", "reply"}
Task  == Kinds \X Conns

\* The tasks of loop l, queued or swapped out.
Queued(l, tag) == Tagged(tasks[l], tag) \cup Tagged(batch[l], tag)
Creates(l)     == Queued(l, "create")
CreateOnce(l)  == /\ TaggedOnce(tasks[l], "create") /\ TaggedOnce(batch[l], "create")
                  /\ Tagged(tasks[l], "create") \cap Tagged(batch[l], "create") = {}

TypeInv ==
    /\ TypeOK
    /\ NLoops \in Nat
    /\ next < NLoops \/ (NLoops = 0 /\ next = 0)
    /\ loopAt \in [Loops -> {"poll", "batch", "ended"}]
    /\ tasks \in [Loops -> Seq(Task)] /\ batch \in [Loops -> Seq(Task)]

\* Those that have a descriptor, or will be given none any more.
Used == {c \in Conns : at[c] \in {"queued", "open"}}
Open == {c \in Conns : at[c] = "open"}

\* At most one loop serves, NLoops, and the server serves.
ServeInv ==
    /\ crash = "none" /\ \A c \in Conns : at[c] # "dropped"
    /\ \A c \in Used : fd[c] \in Fds /\ home[c] = NLoops
    /\ \A c, d \in Used : fd[c] = fd[d] => c = d
    /\ \A l \in Loops : /\ l # NLoops => frame[l] = Idle /\ Creates(l) = {}
                        /\ Queued(l, "close") = {}
    /\ \A l \in Loops, c \in Conns :
          /\ frame[l] = <<"create", c>> => at[c] = "open"
          /\ frame[l] = <<"close", c>> =>
                at[c] = "closed" /\ fd[c] \in Fds /\ registry[fd[c]] = c
    /\ \A c \in Creates(NLoops) : at[c] = "queued"
    /\ CreateOnce(NLoops)
    /\ RegistryAgrees

\* With -t 0 there is only loop 0, which ends before main() closes the connections.
BaseInv ==
    /\ crash = "none"
    /\ \A l \in Loops : l # 0 => loopAt[l] = "ended" /\ frame[l] = Idle
    /\ \A c \in Conns : home[c] = 0 /\ at[c] \notin {"queued", "dropped"}
    /\ accepting => loopAt[0] = "poll"
    /\ phase # "serve" => loopAt[0] = "ended"
    /\ phase = "closing" => Open \subseteq pending
    /\ phase \in {"stopping", "stopped", "joining", "exited"} => Open = {} /\ frame[0] = Idle
    /\ phase \in {"joining", "exited"} => Waiting = {}

ServerInv ==
    /\ TypeInv
    /\ Admission
    /\ NLoops <= 1 /\ phase = "serve" => ServeInv
    /\ NLoops = 0 => BaseInv

States == {"none", "waiting", "queued", "open", "closed", "rejected", "dropped"}

-----------------------------------------------------------------------------
(* Type correctness.                                                       *)

LEMMA SettleTyped ==
    ASSUME TypeInv, NEW l, NEW now \in [Conns -> States], Settle(l, now)
    PROVE  at' \in [Conns -> States] /\ crash' \in {"none", "abort", "terminate", "dangling"}
BY DEF Settle, TypeInv, TypeOK, States

\* The first of the backlog waits, and there is a descriptor for it.
LEMMA NewConnWaits == TypeInv /\ Waiting # {} => NewConn \in Waiting
<1> SUFFICES ASSUME TypeInv, Waiting # {} PROVE NewConn \in Waiting
  OBVIOUS
<1>1. Waiting \in SUBSET Nat
  BY ServerAssumption DEF Waiting, Conns
<1>2. \E m \in Waiting : \A k \in Waiting : m <= k
  BY <1>1, LeastNatural
<1>3. QED  BY <1>2, Zenon DEF NewConn, Min

LEMMA FreeFdIsFree == TypeInv /\ Waiting # {} => FreeFd \in Fds /\ FreeFd \notin UsedFds
<1> SUFFICES ASSUME TypeInv, Waiting # {} PROVE FreeFd \in Fds \ UsedFds
  OBVIOUS
<1> DEFINE U == {d \in Conns : at[d] \in {"queued", "open"}}
           f == [c \in U |-> fd[c]]
<1>1. IsFiniteSet(Conns) /\ Cardinality(Conns) = MaxConns /\ IsFiniteSet(Fds)
      /\ Cardinality(Fds) = MaxConns /\ MaxConns \in Nat
  BY ServerAssumption, FS_Interval DEF Conns, Fds
<1>2. PICK c \in Conns : at[c] = "waiting"
  BY DEF Waiting
<1>3. IsFiniteSet(U) /\ Cardinality(U) <= MaxConns /\ (Cardinality(U) = MaxConns => U = Conns)
  BY <1>1, FS_Subset
<1>4. U # Conns
  BY <1>2
<1>5. f \in Surjection(U, UsedFds)
  BY DEF Surjection, UsedFds
<1>6. IsFiniteSet(UsedFds) /\ Cardinality(UsedFds) <= Cardinality(U)
  BY <1>3, <1>5, FS_Surjection
<1>7. Cardinality(UsedFds) < MaxConns
  BY <1>1, <1>3, <1>4, <1>6, FS_CardinalityType
<1>8. Fds \ UsedFds # {}
  <2> SUFFICES ASSUME Fds \subseteq UsedFds PROVE FALSE
    OBVIOUS
  <2>1. Cardinality(Fds) <= Cardinality(UsedFds)
    BY <1>6, FS_Subset
  <2>2. QED  BY <1>1, <1>6, <1>7, <2>1, FS_CardinalityType
<1>9. Fds \ UsedFds \in SUBSET Nat
  BY DEF Fds
<1>10. \E m \in Fds \ UsedFds : \A k \in Fds \ UsedFds : m <= k
  BY <1>8, <1>9, LeastNatural
<1>11. QED  BY <1>10, Zenon DEF FreeFd, Min

LEMMA TypeInit == Init => TypeInv
<1> SUFFICES ASSUME Init PROVE TypeInv
  OBVIOUS
<1>1. NLoops \in Nat /\ NLoops \in LoopCounts /\ 0 \in 0..NLoops /\ next = 0
  BY ServerAssumption DEF Init
<1>2. /\ 0 \in Loops
      /\ tasks \in [Loops -> Seq(Task)] /\ batch \in [Loops -> Seq(Task)]
  BY <1>1, EmptySeq DEF Init, Loops
<1>3. /\ at \in [Conns -> States] /\ fd \in [Conns -> Fds \union {0}] /\ home \in [Conns -> Loops]
      /\ registry \in [Fds -> Conns \union {Nobody}] /\ frame \in [Loops -> Frames]
      /\ loopAt \in [Loops -> {"poll", "batch", "ended"}]
      /\ \A l \in Loops : batch[l] = <<>>
  BY <1>2 DEF Init, States, Frames, Nobody
<1>4. TypeOK
  BY <1>1, <1>3 DEF Init, TypeOK, States
<1>5. QED  BY <1>1, <1>2, <1>3, <1>4 DEF TypeInv

\* The loops and what they queue.
LEMMA LoopsTyped ==
    ASSUME TypeInv
    PROVE  /\ 0 \in Loops /\ 0..NLoops \subseteq Loops /\ NLoops \in Loops
           /\ NextLoop \in 0..NLoops /\ (NLoops > 0 => NextLoop \in 1..NLoops)
           /\ (NLoops <= 1 => NextLoop = NLoops)
<1>1. NLoops \in Nat /\ NLoops \in LoopCounts /\ next \in 0..NLoops
      /\ (next < NLoops \/ (NLoops = 0 /\ next = 0))
  BY DEF TypeInv, TypeOK
<1>2. 0..NLoops \subseteq Loops
  BY <1>1 DEF Loops
<1>3. QED  BY <1>1, <1>2 DEF NextLoop

LEMMA QueueTyped ==
    ASSUME NEW q \in [Loops -> Seq(Task)], NEW l \in Loops, NEW k \in Kinds,
           NEW c \in Conns
    PROVE  [q EXCEPT ![l] = Append(@, <<k, c>>)] \in [Loops -> Seq(Task)]
<1>1. <<k, c>> \in Task
  BY DEF Task
<1>2. Append(q[l], <<k, c>>) \in Seq(Task)
  BY <1>1, AppendProperties
<1>3. QED  BY <1>2

LEMMA HeadTyped ==
    ASSUME TypeInv, NEW l \in Loops, batch[l] # <<>>
    PROVE  /\ Head(batch[l]) \in Task /\ Head(batch[l])[2] \in Conns
           /\ [batch EXCEPT ![l] = Tail(@)] \in [Loops -> Seq(Task)]
<1>1. batch[l] \in Seq(Task)
  BY DEF TypeInv
<1>2. Head(batch[l]) \in Task /\ Tail(batch[l]) \in Seq(Task)
  BY <1>1, HeadTailProperties
<1>3. QED  BY <1>2 DEF Task, TypeInv

\* What accepting a connection does to the descriptors and the turn of the loops.
LEMMA TakeConnTyped ==
    ASSUME TypeInv, Waiting # {}, TakeConn(NextLoop)
    PROVE  /\ UNCHANGED <<NLoops, Limit>>
           /\ next' \in 0..NLoops /\ (next' < NLoops \/ (NLoops = 0 /\ next' = 0))
           /\ NewConn \in Conns /\ at[NewConn] = "waiting"
           /\ FreeFd \in Fds /\ FreeFd \notin UsedFds
           /\ fd' = [fd EXCEPT ![NewConn] = FreeFd] /\ fd' \in [Conns -> Fds \union {0}]
           /\ home' = [home EXCEPT ![NewConn] = NextLoop] /\ home' \in [Conns -> Loops]
<1>1. NewConn \in Conns /\ at[NewConn] = "waiting"
  BY NewConnWaits DEF Waiting
<1>2. FreeFd \in Fds /\ FreeFd \notin UsedFds
  BY FreeFdIsFree
<1>3. NLoops \in Nat /\ next \in Nat /\ (NLoops = 0 => next = 0)
  BY DEF TypeInv, TypeOK
<1>4. NLoops # 0 => (next + 1) % NLoops \in 0..(NLoops - 1)
  BY <1>3
<1>5. /\ UNCHANGED <<NLoops, Limit>>
      /\ next' \in 0..NLoops /\ (next' < NLoops \/ (NLoops = 0 /\ next' = 0))
  BY <1>3, <1>4 DEF TakeConn
<1>6. NextLoop \in Loops
  BY LoopsTyped
<1>7. fd \in [Conns -> Fds \union {0}] /\ home \in [Conns -> Loops]
  BY DEF TypeInv, TypeOK
<1>8. QED  BY <1>1, <1>2, <1>5, <1>6, <1>7 DEF TakeConn

LEMMA AcceptTyped == TypeInv /\ Accept => TypeInv'
<1> SUFFICES ASSUME TypeInv, Accept PROVE TypeInv'
  OBVIOUS
<1> DEFINE c == NewConn
<1>0. Waiting # {} /\ TakeConn(NextLoop)
  BY DEF Accept, MayAccept
<1>1. /\ UNCHANGED <<NLoops, Limit, mainVars, acceptorVars, loopAt, batch, left, jobs>>
      /\ next' \in 0..NLoops /\ (next' < NLoops \/ (NLoops = 0 /\ next' = 0))
      /\ c \in Conns /\ FreeFd \in Fds /\ fd' = [fd EXCEPT ![c] = FreeFd]
      /\ fd' \in [Conns -> Fds \union {0}] /\ home' \in [Conns -> Loops]
      /\ NextLoop \in Loops
  BY <1>0, TakeConnTyped, LoopsTyped DEF Accept
<1>2. /\ at \in [Conns -> States] /\ registry \in [Fds -> Conns \union {Nobody}]
      /\ frame \in [Loops -> Frames] /\ tasks \in [Loops -> Seq(Task)]
      /\ crash \in {"none", "abort", "terminate", "dangling"} /\ 0 \in Loops
  BY LoopsTyped DEF TypeInv, TypeOK, States
<1>3. <<"create", c>> \in Frames
  BY <1>1 DEF Frames
<1>4. /\ at' \in [Conns -> States] /\ crash' \in {"none", "abort", "terminate", "dangling"}
      /\ registry' \in [Fds -> Conns \union {Nobody}] /\ frame' \in [Loops -> Frames]
      /\ tasks' \in [Loops -> Seq(Task)]
  <2>1. CASE NextLoop = 0
    <3>1. [at EXCEPT ![c] = "open"] \in [Conns -> States]
      BY <1>1, <1>2 DEF States
    <3>2. Settle(0, [at EXCEPT ![c] = "open"])
      BY <2>1 DEF Accept
    <3>3. at' \in [Conns -> States] /\ crash' \in {"none", "abort", "terminate", "dangling"}
      BY <3>1, <3>2, SettleTyped
    <3>4. /\ registry' = [registry EXCEPT ![fd'[c]] = c] /\ UNCHANGED tasks
          /\ frame' = [frame EXCEPT ![0] = <<"create", c>>]
      BY <2>1 DEF Accept, Register
    <3>5. QED  BY <1>1, <1>2, <1>3, <3>3, <3>4
  <2>2. CASE NextLoop # 0
    <3>1. /\ tasks' = [tasks EXCEPT ![NextLoop] = Append(@, <<"create", c>>)]
          /\ at' = [at EXCEPT ![c] = "queued"]
          /\ UNCHANGED <<frame, registry, crash>>
      BY <2>2 DEF Accept
    <3>2. tasks' \in [Loops -> Seq(Task)]
      BY <1>1, <1>2, <3>1, QueueTyped DEF Kinds
    <3>3. QED  BY <1>1, <1>2, <3>1, <3>2 DEF States
  <2>3. QED  BY <2>1, <2>2
<1>5. TypeOK'
  BY <1>1, <1>4 DEF TypeInv, TypeOK, States, mainVars, acceptorVars
<1>6. QED  BY <1>1, <1>4, <1>5 DEF TypeInv

\* What a task does, by its kind.
RunsCreate(l, c) ==
    /\ frame' = [frame EXCEPT ![l] = <<"create", c>>]
    /\ registry' = [registry EXCEPT ![fd[c]] = c]
    /\ Settle(l, [at EXCEPT ![c] = "open"])

LEMMA RunTaskCases ==
    ASSUME NEW l \in Loops, RunTask(l)
    PROVE  LET c == Head(batch[l])[2]
               k == Head(batch[l])[1]
           IN  \/ k = "create" /\ Destroyed /\ crash' = "dangling" /\ UNCHANGED <<frame, registry, at>>
               \/ k = "create" /\ ~Destroyed /\ RunsCreate(l, c)
               \/ k = "close" /\ at[c] = "open" /\ CloseFd(l, c) /\ UNCHANGED <<registry, crash>>
               \/ k # "create" /\ UNCHANGED <<frame, registry>> /\ Settle(l, at)
<1> DEFINE c == Head(batch[l])[2]
           k == Head(batch[l])[1]
<1>1. CASE k = "create" /\ Destroyed
  BY <1>1 DEF RunTask
<1>2. CASE k = "create" /\ ~Destroyed
  BY <1>2 DEF RunTask, RunsCreate
<1>3. CASE k # "create" /\ k = "close" /\ at[c] = "open"
  BY <1>3 DEF RunTask
<1>4. CASE k # "create" /\ ~(k = "close" /\ at[c] = "open")
  BY <1>4 DEF RunTask
<1>5. QED  BY <1>1, <1>2, <1>3, <1>4

LEMMA RunTaskTyped == \A l \in Loops : TypeInv /\ RunTask(l) => TypeInv'
<1> SUFFICES ASSUME NEW l \in Loops, TypeInv, RunTask(l) PROVE TypeInv'
  OBVIOUS
<1> DEFINE c == Head(batch[l])[2]
<1>1. /\ c \in Conns /\ batch' \in [Loops -> Seq(Task)] /\ loopAt[l] = "batch"
      /\ batch' = [batch EXCEPT ![l] = Tail(@)]
      /\ UNCHANGED <<mainVars, acceptorVars, connVars, loopAt, tasks, left, jobs>>
  BY HeadTyped DEF RunTask
<1>2. /\ at \in [Conns -> States] /\ registry \in [Fds -> Conns \union {Nobody}]
      /\ frame \in [Loops -> Frames]
      /\ crash \in {"none", "abort", "terminate", "dangling"}
  BY DEF TypeInv, TypeOK, States
<1>3. <<"create", c>> \in Frames /\ <<"close", c>> \in Frames
  BY <1>1 DEF Frames
<1>4. /\ at' \in [Conns -> States] /\ crash' \in {"none", "abort", "terminate", "dangling"}
      /\ registry' \in [Fds -> Conns \union {Nobody}] /\ frame' \in [Loops -> Frames]
  <2>1. CASE crash' = "dangling" /\ UNCHANGED <<frame, registry, at>>
    BY <1>2, <2>1
  <2>2. CASE RunsCreate(l, c)
    <3>1. [at EXCEPT ![c] = "open"] \in [Conns -> States]
      BY <1>1, <1>2 DEF States
    <3>2. at' \in [Conns -> States] /\ crash' \in {"none", "abort", "terminate", "dangling"}
      BY <2>2, <3>1, SettleTyped DEF RunsCreate
    <3>3. QED  BY <1>1, <1>2, <1>3, <2>2, <3>2 DEF RunsCreate
  <2>3. CASE CloseFd(l, c) /\ UNCHANGED <<registry, crash>>
    BY <1>1, <1>2, <1>3, <2>3 DEF CloseFd, States
  <2>4. CASE UNCHANGED <<frame, registry>> /\ Settle(l, at)
    BY <1>2, <2>4, SettleTyped
  <2>5. QED  BY <2>1, <2>2, <2>3, <2>4, RunTaskCases
<1>5. \A m \in Loops : loopAt'[m] # "batch" => batch'[m] = <<>>
  BY <1>1 DEF TypeInv, TypeOK
<1>6. TypeOK'
  BY <1>1, <1>4, <1>5 DEF TypeInv, TypeOK, States, mainVars, acceptorVars, connVars
<1>7. QED  BY <1>1, <1>4, <1>6 DEF TypeInv, connVars

LEMMA TypeStep == TypeInv /\ [Next]_vars => TypeInv'
<1> SUFFICES ASSUME TypeInv, [Next]_vars PROVE TypeInv'
  OBVIOUS
<1> USE DEF acceptorVars, connVars, loopVars, mainVars
<1>a. /\ at \in [Conns -> States] /\ registry \in [Fds -> Conns \union {Nobody}]
      /\ frame \in [Loops -> Frames] /\ 0 \in Loops
      /\ crash \in {"none", "abort", "terminate", "dangling"}
  BY LoopsTyped DEF TypeInv, TypeOK, States
<1>b. Idle \in Frames /\ \A c \in Conns : <<"close", c>> \in Frames
  BY DEF Frames
<1>c. Waiting # {} => NewConn \in Conns
  BY NewConnWaits DEF Waiting
<1>d. \A l : Settle(l, at) => at' \in [Conns -> States]
                              /\ crash' \in {"none", "abort", "terminate", "dangling"}
  BY <1>a, SettleTyped
<1>1. CASE AcceptBegins
  BY <1>1 DEF AcceptBegins, TypeInv, TypeOK
<1>2. CASE Accept
  BY <1>2, AcceptTyped
<1>3. CASE Reject
  BY <1>3, <1>c DEF Reject, MayAccept, TypeInv, TypeOK
<1>4. CASE \E error \in BOOLEAN : AcceptEnds(error)
  BY <1>4 DEF AcceptEnds, TypeInv, TypeOK
<1>5. CASE QuitTimer
  BY <1>5, <1>a DEF QuitTimer, TypeInv, TypeOK
<1>6. CASE CloseAll
  <2>1. Registered \subseteq Conns
    BY <1>a DEF Registered
  <2>2. at' \in [Conns -> States] /\ crash' \in {"none", "abort", "terminate", "dangling"}
    BY <1>6, <1>d DEF CloseAll, Collect
  <2>3. registry' \in [Fds -> Conns \union {Nobody}]
    BY <1>6 DEF CloseAll, Collect
  <2>4. QED  BY <1>6, <2>1, <2>2, <2>3 DEF CloseAll, Collect, TypeInv, TypeOK, States
<1>7. CASE StopPool
  BY <1>7 DEF StopPool, TypeInv, TypeOK
<1>8. CASE PoolStopped
  BY <1>8 DEF PoolStopped, TypeInv, TypeOK
<1>9. CASE Destroy
  <2>1. [c \in Conns |-> IF c \in Waiting THEN "rejected" ELSE at[c]] \in [Conns -> States]
    BY <1>a DEF States
  <2>2. at' \in [Conns -> States] /\ crash' \in {"none", "abort", "terminate", "dangling"}
    BY <1>9, <2>1, SettleTyped DEF Destroy
  <2>3. registry' \in [Fds -> Conns \union {Nobody}]
    BY <1>9 DEF Destroy
  <2>4. QED  BY <1>9, <2>2, <2>3 DEF Destroy, TypeInv, TypeOK, States
<1>10. CASE Exit
  <2>1. tasks' \in [Loops -> Seq(Task)]
    BY <1>10, EmptySeq DEF Exit, TypeInv
  <2>2. at' \in [Conns -> States] /\ crash' \in {"none", "abort", "terminate", "dangling"}
    BY <1>10, <1>d DEF Exit
  <2>3. QED  BY <1>10, <2>1, <2>2 DEF Exit, TypeInv, TypeOK, States
<1>11. ASSUME NEW c \in Conns, CloseOne(c) PROVE TypeInv'
  <2>1. home[c] \in Loops /\ tasks \in [Loops -> Seq(Task)]
    BY DEF TypeInv, TypeOK
  <2>2. /\ at' \in [Conns -> States] /\ crash' \in {"none", "abort", "terminate", "dangling"}
        /\ frame' \in [Loops -> Frames] /\ tasks' \in [Loops -> Seq(Task)]
    <3>1. CASE home[c] # 0
      <4>1. tasks' = [tasks EXCEPT ![home[c]] = Append(@, <<"close", c>>)]
        BY <1>11, <3>1 DEF CloseOne
      <4>2. tasks' \in [Loops -> Seq(Task)]
        BY <2>1, <4>1, QueueTyped DEF Kinds
      <4>3. QED  BY <1>11, <1>a, <3>1, <4>2 DEF CloseOne
    <3>2. CASE home[c] = 0 /\ at[c] = "open"
      BY <1>11, <1>a, <1>b, <2>1, <3>2 DEF CloseOne, CloseFd, States
    <3>3. CASE home[c] = 0 /\ at[c] # "open"
      BY <1>11, <1>a, <1>d, <2>1, <3>3 DEF CloseOne
    <3>4. QED  BY <3>1, <3>2, <3>3
  <2>3. QED  BY <1>11, <2>2 DEF CloseOne, TypeInv, TypeOK, States
<1>12. ASSUME NEW l \in Loops, QuitLoop(l) PROVE TypeInv'
  BY <1>12 DEF QuitLoop, TypeInv, TypeOK
<1>13. CASE Connect
  <2> DEFINE c == Min({d \in Conns : at[d] = "none"})
  <2>1. at' = [at EXCEPT ![c] = "waiting"]
    BY <1>13 DEF Connect
  <2> HIDE DEF c
  <2>2. at' \in [Conns -> States]
    BY <1>a, <2>1 DEF States
  <2>3. QED  BY <1>13, <2>2 DEF Connect, TypeInv, TypeOK, States
<1>14. CASE Signal
  BY <1>14 DEF Signal, TypeInv, TypeOK
<1>15. ASSUME NEW l \in Loops, NEW c \in Conns, Close(l, c) PROVE TypeInv'
  <2>1. at' \in [Conns -> States] /\ frame' \in [Loops -> Frames]
    BY <1>15, <1>a, <1>b DEF Close, CloseFd, States
  <2>2. QED  BY <1>15, <2>1 DEF Close, TypeInv, TypeOK, States
<1>16. ASSUME NEW l \in Loops, NEW c \in Conns, Request(l, c) PROVE TypeInv'
  BY <1>16 DEF Request, Crashes, TypeInv, TypeOK
<1>17. ASSUME NEW l \in Loops, Swap(l) PROVE TypeInv'
  <2>1. batch' \in [Loops -> Seq(Task)] /\ tasks' \in [Loops -> Seq(Task)]
    BY <1>17, EmptySeq DEF Swap, TypeInv
  <2>2. \A m \in Loops : loopAt'[m] # "batch" => batch'[m] = <<>>
    BY <1>17 DEF Swap, TypeInv, TypeOK
  <2>3. QED  BY <1>17, <2>1, <2>2 DEF Swap, TypeInv, TypeOK
<1>18. ASSUME NEW l \in Loops, RunTask(l) PROVE TypeInv'
  BY <1>18, RunTaskTyped
<1>19. ASSUME NEW l \in Loops, BatchDone(l) PROVE TypeInv'
  <2>1. batch[l] = <<>> /\ LeaveBatch(l)
    BY <1>19 DEF BatchDone
  <2>2. /\ loopAt' \in [Loops -> {"poll", "batch", "ended"}]
        /\ tasks' \in [Loops -> Seq(Task)]
        /\ at' \in [Conns -> States] /\ crash' \in {"none", "abort", "terminate", "dangling"}
    <3>1. CASE l \in quit
      <4>1. tasks' \in [Loops -> Seq(Task)] /\ Settle(l, at)
        BY <2>1, <3>1, EmptySeq DEF LeaveBatch, TypeInv
      <4>2. QED  BY <1>d, <2>1, <3>1, <4>1 DEF LeaveBatch, TypeInv
    <3>2. CASE l \notin quit
      BY <1>a, <2>1, <3>2 DEF LeaveBatch, TypeInv
    <3>3. QED  BY <3>1, <3>2
  <2>3. \A m \in Loops : loopAt'[m] # "batch" => batch'[m] = <<>>
    BY <2>1 DEF LeaveBatch, TypeInv, TypeOK
  <2>4. QED  BY <2>1, <2>2, <2>3 DEF LeaveBatch, TypeInv, TypeOK, States
<1>20. ASSUME NEW l \in Loops, CreateEnds(l) PROVE TypeInv'
  <2>1. CASE Crashes("abort")
    BY <2>1 DEF Crashes, TypeInv, TypeOK
  <2>2. CASE ~Crashes("abort")
    <3>1. /\ frame' = [frame EXCEPT ![l] = Idle] /\ Settle(l, at)
          /\ UNCHANGED <<mainVars, acceptorVars, connVars, loopAt, tasks, batch, left, registry, jobs>>
      BY <1>20, <2>2 DEF CreateEnds
    <3>2. at' \in [Conns -> States] /\ crash' \in {"none", "abort", "terminate", "dangling"}
          /\ frame' \in [Loops -> Frames]
      BY <1>a, <1>b, <1>d, <3>1
    <3>3. QED  BY <3>1, <3>2 DEF TypeInv, TypeOK, States
  <2>3. QED  BY <2>1, <2>2
<1>21. ASSUME NEW l \in Loops, CloseEnds(l) PROVE TypeInv'
  <2>1. CASE Crashes("dangling")
    BY <2>1 DEF Crashes, TypeInv, TypeOK
  <2>2. CASE ~Crashes("dangling")
    <3>1. /\ frame' = [frame EXCEPT ![l] = Idle] /\ Settle(l, at)
          /\ registry' = [registry EXCEPT ![fd[frame[l][2]]] = Nobody]
          /\ UNCHANGED <<mainVars, acceptorVars, connVars, loopAt, tasks, batch, left, jobs>>
      BY <1>21, <2>2 DEF CloseEnds
    <3>2. at' \in [Conns -> States] /\ crash' \in {"none", "abort", "terminate", "dangling"}
          /\ frame' \in [Loops -> Frames] /\ registry' \in [Fds -> Conns \union {Nobody}]
      BY <1>a, <1>b, <1>d, <3>1
    <3>3. QED  BY <3>1, <3>2 DEF TypeInv, TypeOK, States
  <2>3. QED  BY <2>1, <2>2
<1>22. ASSUME NEW c \in Conns, WorkerRuns(c) PROVE TypeInv'
  <2>1. tasks' \in [Loops -> Seq(Task)]
    BY <1>22, QueueTyped, Zenon DEF Kinds, WorkerRuns, TypeInv, TypeOK
  <2>2. QED  BY <1>22, <2>1 DEF WorkerRuns, TypeInv, TypeOK
<1>23. ASSUME NEW c \in Conns, WorkerForgets(c) PROVE TypeInv'
  <2>1. at' \in [Conns -> States] /\ crash' \in {"none", "abort", "terminate", "dangling"}
    BY <1>23, <1>a, SettleTyped DEF WorkerForgets
  <2>2. QED  BY <1>23, <2>1 DEF WorkerForgets, TypeInv, TypeOK, States
<1>24. CASE UNCHANGED vars
  BY <1>24 DEF vars, TypeInv, TypeOK
<1>25. QED
  BY <1>1, <1>2, <1>3, <1>4, <1>5, <1>6, <1>7, <1>8, <1>9, <1>10, <1>11, <1>12, <1>13,
     <1>14, <1>15, <1>16, <1>17, <1>18, <1>19, <1>20, <1>21, <1>22, <1>23, <1>24
  DEF Next, Main, Clients, Round, Drained, AcceptFails

LEMMA ParametersStay == [Next]_vars => UNCHANGED <<NLoops, Limit>>
BY Zenon DEF Next, Main, Clients, Round, AcceptBegins, Accept, TakeConn, Reject, Drained, AcceptFails,
       AcceptEnds, QuitTimer, CloseAll, Collect, StopPool, PoolStopped, Destroy, Exit, CloseOne,
       QuitLoop, Connect, Signal, Close, Request, Crashes, Swap, RunTask, BatchDone, LeaveBatch,
       CreateEnds, CloseEnds, WorkerRuns, WorkerForgets, connVars, vars

-----------------------------------------------------------------------------
(* While the server serves, with at most one loop for the connections.     *)

\* Nobody is lost as long as the registry, or closeAll(), holds who is open.
LEMMA SettleKeeps ==
    ASSUME NEW l, NEW now \in [Conns -> States], Settle(l, now),
           \A c \in Conns : now[c] = "open" =>
               c \in pending' \/ \E f \in Fds : registry'[f] = c
    PROVE  at' = now /\ crash' = crash
<1>1. \A c \in Conns : now[c] = "open" => Held(c)'
  BY DEF Held
<1>2. at' = [c \in Conns |-> now[c]] /\ crash' = crash
  BY <1>1 DEF Settle
<1>3. QED  BY <1>2

LEMMA ServeInit == Init => ServeInv
<1> SUFFICES ASSUME Init PROVE ServeInv
  OBVIOUS
<1>1. \A l \in Loops : Creates(l) = {} /\ Queued(l, "close") = {} /\ CreateOnce(l)
  BY TaggedNone DEF Init, Creates, Queued, CreateOnce
<1>2. NLoops \in Loops
  BY TypeInit, LoopsTyped
<1>3. RegistryAgrees
  BY DEF Init, RegistryAgrees, Nobody
<1>4. \A l \in Loops, c \in Conns : frame[l] = Idle /\ Idle # <<"create", c>> /\ Idle # <<"close", c>>
  BY DEF Init, Idle
<1>5. QED  BY <1>1, <1>2, <1>3, <1>4 DEF Init, ServeInv, Used

\* What the queues hold, and what queueing one more does to the creations.
LEMMA CreatesTyped == TypeInv => \A l \in Loops : Creates(l) \subseteq Conns
<1> SUFFICES ASSUME TypeInv, NEW l \in Loops PROVE Creates(l) \subseteq Conns
  OBVIOUS
<1>1. tasks[l] \in Seq(Task) /\ batch[l] \in Seq(Task)
  BY DEF TypeInv
<1>2. Tagged(tasks[l], "create") \subseteq Conns /\ Tagged(batch[l], "create") \subseteq Conns
  BY <1>1, TaggedTyped, Zenon DEF Task
<1>3. QED  BY <1>2 DEF Creates, Queued

LEMMA TaskQueued ==
    ASSUME NEW q \in Seq(Task), NEW e \in Task, NEW tag
    PROVE  /\ e[1] = tag => Tagged(Append(q, e), tag) = Tagged(q, tag) \cup {e[2]}
           /\ e[1] # tag => Tagged(Append(q, e), tag) = Tagged(q, tag)
           /\ TaggedOnce(q, tag) /\ (e[1] = tag => e[2] \notin Tagged(q, tag))
                 => TaggedOnce(Append(q, e), tag)
BY TaggedAppend

LEMMA QueuedTask ==
    ASSUME NEW q \in Seq(Task), NEW k \in Kinds, NEW c \in Conns, NEW tag
    PROVE  /\ k = tag => Tagged(Append(q, <<k, c>>), tag) = Tagged(q, tag) \cup {c}
           /\ k # tag => Tagged(Append(q, <<k, c>>), tag) = Tagged(q, tag)
           /\ TaggedOnce(q, tag) /\ (k = tag => c \notin Tagged(q, tag))
                 => TaggedOnce(Append(q, <<k, c>>), tag)
<1>1. <<k, c>> \in Task /\ <<k, c>>[1] = k /\ <<k, c>>[2] = c
  BY DEF Task
<1>2. QED  BY <1>1, TaskQueued

\* What is queued for loop l with another tag leaves its creations alone.
LEMMA OthersQueued ==
    ASSUME TypeInv, NEW l \in Loops, NEW k \in Kinds, NEW c \in Conns, NEW tag, k # tag,
           tasks' = [tasks EXCEPT ![l] = Append(@, <<k, c>>)], UNCHANGED batch
    PROVE  /\ \A m \in Loops : Queued(m, tag)' = Queued(m, tag)
           /\ \A m \in Loops : tag = "create" /\ CreateOnce(m) => CreateOnce(m)'
<1>1. tasks[l] \in Seq(Task) /\ tasks \in [Loops -> Seq(Task)]
  BY DEF TypeInv
<1>2. /\ Tagged(Append(tasks[l], <<k, c>>), tag) = Tagged(tasks[l], tag)
      /\ TaggedOnce(tasks[l], tag) => TaggedOnce(Append(tasks[l], <<k, c>>), tag)
  <2>1. \A q \in Seq(Task) :
           /\ Tagged(Append(q, <<k, c>>), tag) = Tagged(q, tag)
           /\ TaggedOnce(q, tag) => TaggedOnce(Append(q, <<k, c>>), tag)
    BY QueuedTask
  <2>2. QED  BY <1>1, <2>1
<1>3. ASSUME NEW m \in Loops
      PROVE  /\ Tagged(tasks'[m], tag) = Tagged(tasks[m], tag)
             /\ TaggedOnce(tasks[m], tag) => TaggedOnce(tasks'[m], tag)
  BY <1>1, <1>2
<1>4. QED  BY <1>3 DEF Queued, CreateOnce

\* A loop that swaps its tasks out still has them.
LEMMA SwapMoves ==
    ASSUME TypeInv, NEW l \in Loops, Swap(l)
    PROVE  /\ \A m \in Loops : \A tag : Queued(m, tag)' = Queued(m, tag)
           /\ \A m \in Loops : CreateOnce(m) => CreateOnce(m)'
<1>1. /\ batch' = [batch EXCEPT ![l] = tasks[l]] /\ tasks' = [tasks EXCEPT ![l] = <<>>]
      /\ batch[l] = <<>> /\ tasks \in [Loops -> Seq(Task)] /\ batch \in [Loops -> Seq(Task)]
  BY DEF Swap, Polls, TypeInv, TypeOK
<1>2. /\ batch'[l] = tasks[l] /\ tasks'[l] = <<>>
      /\ \A m \in Loops : m # l => batch'[m] = batch[m] /\ tasks'[m] = tasks[m]
  BY <1>1
<1>3. QED  BY <1>1, <1>2, TaggedNone DEF Queued, CreateOnce

\* A loop that runs a task has it no more.
LEMMA RunsHead ==
    ASSUME TypeInv, NEW l \in Loops, RunTask(l)
    PROVE  LET e == Head(batch[l])
           IN  /\ \A m \in Loops : \A tag : Queued(m, tag)' \subseteq Queued(m, tag)
               /\ \A m \in Loops : CreateOnce(m) => CreateOnce(m)'
               /\ e \in Task /\ \A tag : e[1] = tag => e[2] \in Queued(l, tag)
               /\ CreateOnce(l) /\ e[1] = "create" => e[2] \notin Creates(l)'
<1> DEFINE e == Head(batch[l])
<1>1. /\ batch' = [batch EXCEPT ![l] = Tail(@)] /\ UNCHANGED tasks
      /\ batch[l] # <<>> /\ batch \in [Loops -> Seq(Task)] /\ batch[l] \in Seq(Task)
  BY DEF RunTask, TypeInv
<1>2. /\ batch'[l] = Tail(batch[l])
      /\ \A m \in Loops : m # l => batch'[m] = batch[m]
  BY <1>1
<1>3. e \in Task /\ e = batch[l][1]
  <2>1. e = batch[l][1]
    BY <1>1, HeadTailProperties
  <2>2. QED  BY <1>1, <2>1, HeadTyped
<1>4. ASSUME NEW tag
      PROVE  /\ Tagged(Tail(batch[l]), tag) \subseteq Tagged(batch[l], tag)
             /\ e[1] = tag => e[2] \in Tagged(batch[l], tag)
             /\ TaggedOnce(batch[l], tag) => TaggedOnce(Tail(batch[l]), tag)
             /\ TaggedOnce(batch[l], tag) /\ e[1] = tag => e[2] \notin Tagged(Tail(batch[l]), tag)
  BY <1>1, <1>3, TaggedTail
<1> HIDE DEF e
<1>5. \A m \in Loops : \A tag : Queued(m, tag)' \subseteq Queued(m, tag)
  BY <1>1, <1>2, <1>4 DEF Queued
<1>6. \A m \in Loops : CreateOnce(m) => CreateOnce(m)'
  BY <1>1, <1>2, <1>4 DEF CreateOnce
<1>7. \A tag : e[1] = tag => e[2] \in Queued(l, tag)
  BY <1>4 DEF Queued
<1>8. CreateOnce(l) /\ e[1] = "create" => e[2] \notin Creates(l)'
  BY <1>1, <1>2, <1>4 DEF CreateOnce, Creates, Queued
<1>9. QED  BY <1>3, <1>5, <1>6, <1>7, <1>8 DEF e

\* Who is in the backlog is in no other place.
LEMMA WaitingIsApart ==
    ASSUME TypeInv, ServeInv, phase = "serve", NLoops <= 1, NEW c \in Conns, at[c] = "waiting"
    PROVE  /\ \A f \in Fds : registry[f] # c
           /\ \A l \in Loops : frame[l] # <<"create", c>> /\ frame[l] # <<"close", c>>
           /\ \A l \in Loops : c \notin Creates(l)
           /\ c \notin Used
<1>1. c # Nobody
  BY DEF Conns, Nobody
<1>2. QED  BY <1>1 DEF ServeInv, RegistryAgrees, Used

LEMMA ServeAccept ==
    ASSUME TypeInv, ServeInv, NLoops <= 1, phase = "serve", Accept
    PROVE  ServeInv'
<1> DEFINE c == NewConn
<1>1. /\ Waiting # {} /\ TakeConn(NextLoop) /\ frame[0] = Idle
      /\ UNCHANGED <<mainVars, acceptorVars, loopAt, batch, left, jobs>>
  BY DEF Accept, MayAccept
<1>2. /\ UNCHANGED NLoops /\ c \in Conns /\ at[c] = "waiting"
      /\ FreeFd \in Fds /\ FreeFd \notin UsedFds
      /\ fd' = [fd EXCEPT ![c] = FreeFd] /\ home' = [home EXCEPT ![c] = NLoops]
      /\ NextLoop = NLoops /\ NLoops \in Loops /\ 0 \in Loops
  BY <1>1, TakeConnTyped, LoopsTyped
<1>3. /\ \A f \in Fds : registry[f] # c
      /\ \A l \in Loops : frame[l] # <<"create", c>> /\ frame[l] # <<"close", c>>
      /\ \A l \in Loops : c \notin Creates(l)
      /\ c \notin Used
  BY <1>2, WaitingIsApart
<1>4. /\ fd \in [Conns -> Fds \union {0}] /\ home \in [Conns -> Loops]
      /\ at \in [Conns -> States] /\ registry \in [Fds -> Conns \union {Nobody}]
      /\ frame \in [Loops -> Frames] /\ tasks \in [Loops -> Seq(Task)]
      /\ batch \in [Loops -> Seq(Task)]
  BY DEF TypeInv, TypeOK, States
<1>5. \A d \in Used : fd[d] # FreeFd
  BY <1>2 DEF Used, UsedFds
<1>6. \A d \in Conns : d # c => fd'[d] = fd[d] /\ home'[d] = home[d]
  BY <1>2, <1>4
<1>7. fd'[c] = FreeFd /\ home'[c] = NLoops
  BY <1>2, <1>4
<1>8. phase' = "serve"
  BY <1>1 DEF mainVars
<1>9. CASE NLoops = 0
  <2> DEFINE now == [at EXCEPT ![c] = "open"]
  <2>1. /\ frame' = [frame EXCEPT ![0] = <<"create", c>>]
        /\ registry' = [registry EXCEPT ![FreeFd] = c]
        /\ UNCHANGED tasks
        /\ Settle(0, now)
    BY <1>2, <1>7, <1>9 DEF Accept, Register
  <2>2. now \in [Conns -> States] /\ now[c] = "open" /\ \A d \in Conns : d # c => now[d] = at[d]
    BY <1>2, <1>4 DEF States
  <2> HIDE DEF now
  <2>3. \A l \in Loops : frame[l] = Idle
    BY <1>1, <1>9 DEF ServeInv
  <2>4. \A d \in Conns, l \in Loops : frame[l] # <<"close", d>> /\ frame[l] # <<"create", d>>
    BY <2>3 DEF Idle
  <2>5. \A d \in Conns : now[d] = "open" => fd'[d] \in Fds /\ registry'[fd'[d]] = d
    <3>1. ASSUME NEW d \in Conns, d # c, now[d] = "open"
          PROVE  fd[d] \in Fds /\ fd[d] # FreeFd /\ registry[fd[d]] = d
      <4>1. d \in Used /\ at[d] = "open"
        BY <2>2, <3>1 DEF Used
      <4>2. QED  BY <1>5, <4>1 DEF ServeInv, RegistryAgrees
    <3>2. QED  BY <1>2, <1>4, <1>6, <1>7, <2>1, <3>1
  <2>6. at' = now /\ crash' = crash
    BY <2>1, <2>2, <2>5, SettleKeeps
  <2>7. Used' = Used \cup {c}
    BY <1>2, <2>2, <2>6 DEF Used
  <2>8. RegistryAgrees'
    <3>1. ASSUME NEW f \in Fds, registry'[f] # Nobody
          PROVE  fd'[registry'[f]] = f /\ at'[registry'[f]] = "open"
      <4>1. CASE f = FreeFd
        BY <1>2, <1>4, <1>7, <2>1, <2>2, <2>6, <4>1
      <4>2. CASE f # FreeFd
        <5>1. registry'[f] = registry[f] /\ registry[f] \in Conns /\ registry[f] # c
          BY <1>3, <1>4, <2>1, <3>1, <4>2
        <5>2. fd[registry[f]] = f /\ at[registry[f]] = "open"
          BY <2>4, <3>1, <5>1 DEF ServeInv, RegistryAgrees
        <5>3. QED  BY <1>6, <2>2, <2>6, <5>1, <5>2
      <4>3. QED  BY <4>1, <4>2
    <3>2. QED  BY <2>5, <2>6, <3>1 DEF RegistryAgrees
  <2>9. /\ \A l \in Loops : l # 0 => frame'[l] = Idle
        /\ frame'[0] = <<"create", c>>
    BY <1>2, <1>4, <2>1, <2>3
  <2>10. \A l \in Loops, d \in Conns :
            /\ frame'[l] = <<"create", d>> => d = c
            /\ frame'[l] # <<"close", d>>
    BY <2>9 DEF Idle
  <2>11. \A l \in Loops : /\ Creates(l)' = Creates(l) /\ CreateOnce(l)' = CreateOnce(l)
                         /\ Queued(l, "close")' = Queued(l, "close")
    BY <1>1, <2>1 DEF Creates, Queued, CreateOnce
  <2>12. \A d \in Creates(NLoops) : at'[d] = "queued"
    BY <1>2, <1>3, <2>2, <2>6, CreatesTyped DEF ServeInv
  <2>13. /\ \A d \in Used' : fd'[d] \in Fds /\ home'[d] = NLoops
         /\ \A d, e \in Used' : fd'[d] = fd'[e] => d = e
    BY <1>2, <1>3, <1>5, <1>6, <1>7, <2>7 DEF ServeInv, Used
  <2>14. QED
    BY <1>2, <1>9, <2>2, <2>6, <2>8, <2>9, <2>10, <2>11, <2>12, <2>13 DEF ServeInv
<1>10. CASE NLoops # 0
  <2>1. /\ tasks' = [tasks EXCEPT ![NLoops] = Append(@, <<"create", c>>)]
        /\ at' = [at EXCEPT ![c] = "queued"]
        /\ UNCHANGED <<frame, registry, crash, batch>>
    BY <1>1, <1>2, <1>10 DEF Accept
  <2>2. at'[c] = "queued" /\ \A d \in Conns : d # c => at'[d] = at[d]
    BY <1>2, <1>4, <2>1
  <2>3. Used' = Used \cup {c}
    BY <1>2, <2>2 DEF Used
  <2>4. /\ \A d \in Used' : fd'[d] \in Fds /\ home'[d] = NLoops
        /\ \A d, e \in Used' : fd'[d] = fd'[e] => d = e
    BY <1>2, <1>3, <1>5, <1>6, <1>7, <2>3 DEF ServeInv, Used
  <2>5. RegistryAgrees'
    <3>1. \A d \in Conns : at'[d] = "open" => registry'[fd'[d]] = d
      BY <1>6, <2>1, <2>2 DEF ServeInv, RegistryAgrees
    <3>2. ASSUME NEW f \in Fds, registry'[f] # Nobody
          PROVE  /\ fd'[registry'[f]] = f
                 /\ \/ at'[registry'[f]] = "open"
                    \/ \E l \in Loops : frame'[l] = <<"close", registry'[f]>>
      <4>1. registry[f] \in Conns /\ registry[f] # c /\ registry'[f] = registry[f]
        BY <1>3, <1>4, <2>1, <3>2
      <4>2. /\ fd[registry[f]] = f
            /\ \/ at[registry[f]] = "open"
               \/ \E l \in Loops : frame[l] = <<"close", registry[f]>>
        BY <2>1, <3>2, <4>1 DEF ServeInv, RegistryAgrees
      <4>3. /\ fd'[registry[f]] = fd[registry[f]] /\ at'[registry[f]] = at[registry[f]]
            /\ frame' = frame
        BY <1>6, <2>1, <2>2, <4>1
      <4>4. QED  BY <4>1, <4>2, <4>3
    <3>3. QED  BY <3>1, <3>2 DEF RegistryAgrees
  <2>6. tasks[NLoops] \in Seq(Task)
    BY <1>2, <1>4
  <2>7. c \notin Tagged(tasks[NLoops], "create") /\ c \notin Tagged(batch[NLoops], "create")
    BY <1>2, <1>3 DEF Creates, Queued
  <2>8. /\ Tagged(tasks'[NLoops], "create") = Tagged(tasks[NLoops], "create") \cup {c}
        /\ TaggedOnce(tasks[NLoops], "create") => TaggedOnce(tasks'[NLoops], "create")
    <3>1. tasks'[NLoops] = Append(tasks[NLoops], <<"create", c>>)
      BY <1>2, <1>4, <2>1
    <3>2. QED  BY <1>2, <2>6, <2>7, <3>1, QueuedTask DEF Kinds
  <2>9. CreateOnce(NLoops)' /\ Creates(NLoops)' = Creates(NLoops) \cup {c}
    BY <1>2, <2>1, <2>7, <2>8 DEF ServeInv, CreateOnce, Creates, Queued
  <2>10. \A l \in Loops : l # NLoops => Creates(l)' = Creates(l)
    BY <1>4, <2>1 DEF Creates, Queued
  <2>11. \A l \in Loops, d \in Conns :
          /\ frame'[l] = <<"create", d>> => at'[d] = "open"
          /\ frame'[l] = <<"close", d>> =>
                at'[d] = "closed" /\ fd'[d] \in Fds /\ registry'[fd'[d]] = d
    BY <1>3, <1>6, <2>1, <2>2 DEF ServeInv
  <2>12. \A d \in Creates(NLoops)' : at'[d] = "queued"
    BY <1>2, <1>3, <2>2, <2>9, CreatesTyped DEF ServeInv
  <2>13. \A l \in Loops : Queued(l, "close")' = Queued(l, "close")
    BY <1>2, <2>1, OthersQueued DEF Kinds
  <2>14. QED
    BY <1>2, <2>1, <2>4, <2>5, <2>9, <2>10, <2>11, <2>12, <2>13 DEF ServeInv
<1>11. QED  BY <1>9, <1>10

\* The steps that leave the connections with a descriptor alone.
LEMMA ServeFrame ==
    ASSUME TypeInv, ServeInv, phase = "serve",
           UNCHANGED <<NLoops, fd, home, registry, frame, crash>>,
           \A c \in Conns : at'[c] = at[c] \/ (at[c] \in {"none", "waiting"}
                                               /\ at'[c] \in {"waiting", "rejected"}),
           \A l \in Loops : /\ Creates(l)' \subseteq Creates(l)
                            /\ Queued(l, "close")' \subseteq Queued(l, "close"),
           CreateOnce(NLoops) => CreateOnce(NLoops)'
    PROVE  ServeInv'
<1>1. \A c \in Conns : at[c] \in {"queued", "open", "closed"} \/ at'[c] \in {"queued", "open", "closed"}
                          => at'[c] = at[c]
  OBVIOUS
<1>2. Used' = Used
  BY <1>1 DEF Used
<1>3. NLoops \in Loops /\ Creates(NLoops) \subseteq Conns
  BY LoopsTyped, CreatesTyped
<1>4. \A c \in Creates(NLoops)' : at'[c] = "queued"
  BY <1>1, <1>3 DEF ServeInv
<1>5. RegistryAgrees'
  <2>1. /\ \A c \in Conns : at[c] = "open" => registry[fd[c]] = c
        /\ \A f \in Fds : registry[f] # Nobody =>
              /\ fd[registry[f]] = f
              /\ \/ at[registry[f]] = "open"
                 \/ \E l \in Loops : frame[l] = <<"close", registry[f]>>
    BY DEF ServeInv, RegistryAgrees
  <2>2. \A f \in Fds : registry[f] # Nobody => registry[f] \in Conns
    BY DEF TypeInv, TypeOK
  <2>3. QED  BY <1>1, <2>1, <2>2 DEF RegistryAgrees
<1>6. \A l \in Loops, c \in Conns :
          /\ frame'[l] = <<"create", c>> => at'[c] = "open"
          /\ frame'[l] = <<"close", c>> =>
                at'[c] = "closed" /\ fd'[c] \in Fds /\ registry'[fd'[c]] = c
  BY <1>1 DEF ServeInv
<1>7. \A l \in Loops : l # NLoops => Creates(l)' = {}
  BY DEF ServeInv
<1>8. \A l \in Loops : Queued(l, "close")' = {}
  BY DEF ServeInv
<1>9. QED  BY <1>2, <1>3, <1>4, <1>5, <1>6, <1>7, <1>8 DEF ServeInv

\* handleClose() of an open connection, up to the closing of its socket.
LEMMA ServeClose ==
    ASSUME TypeInv, ServeInv, phase = "serve", phase' = "serve",
           NEW l \in Loops, NEW c \in Conns, Close(l, c)
    PROVE  ServeInv'
<1>1. /\ at[c] = "open" /\ home[c] = l /\ frame[l] = Idle
      /\ frame' = [frame EXCEPT ![l] = <<"close", c>>]
      /\ at' = [at EXCEPT ![c] = "closed"]
      /\ UNCHANGED <<NLoops, fd, home, registry, tasks, batch, crash>>
  BY DEF Close, CloseFd, Polls, connVars
<1>2. c \in Used /\ l = NLoops /\ fd[c] \in Fds /\ registry[fd[c]] = c
  BY <1>1 DEF Used, ServeInv, RegistryAgrees
<1>3. /\ at'[c] = "closed" /\ \A d \in Conns : d # c => at'[d] = at[d]
      /\ frame'[l] = <<"close", c>> /\ \A m \in Loops : m # l => frame'[m] = Idle
  BY <1>1, <1>2 DEF TypeInv, TypeOK, ServeInv
<1>4. \A m \in Loops : frame[m] = Idle
  BY <1>1, <1>2 DEF ServeInv
<1>5. \A d \in Conns, m \in Loops : frame[m] # <<"close", d>>
  BY <1>4 DEF Idle
<1>6. \A d \in Conns, m \in Loops : /\ frame'[m] # <<"create", d>>
                                    /\ frame'[m] = <<"close", d>> => d = c
  BY <1>3 DEF Idle
<1>7. Used' = Used \ {c}
  BY <1>3 DEF Used
<1>8. \A m \in Loops : /\ Creates(m)' = Creates(m) /\ CreateOnce(m)' = CreateOnce(m)
                       /\ Queued(m, "close")' = Queued(m, "close")
  BY <1>1 DEF Creates, Queued, CreateOnce
<1>9. \A d \in Creates(NLoops) : d # c /\ at'[d] = "queued"
  BY <1>1, <1>2, <1>3, CreatesTyped DEF ServeInv
<1>10. RegistryAgrees'
  <2>1. \A d \in Conns : at'[d] = "open" => registry'[fd'[d]] = d
    BY <1>1, <1>3 DEF ServeInv, RegistryAgrees
  <2>2. ASSUME NEW f \in Fds, registry[f] # Nobody
        PROVE  /\ fd[registry[f]] = f
               /\ \/ at'[registry[f]] = "open"
                  \/ \E m \in Loops : frame'[m] = <<"close", registry[f]>>
    <3>1. registry[f] \in Conns
      BY <2>2 DEF TypeInv, TypeOK
    <3>2. fd[registry[f]] = f /\ at[registry[f]] = "open"
      BY <1>5, <2>2, <3>1 DEF ServeInv, RegistryAgrees
    <3>3. QED  BY <1>3, <3>1, <3>2
  <2>3. QED  BY <1>1, <2>1, <2>2 DEF RegistryAgrees
<1>11. QED
  BY <1>1, <1>2, <1>3, <1>6, <1>7, <1>8, <1>9, <1>10 DEF ServeInv

LEMMA ServeCloseEnds ==
    ASSUME TypeInv, ServeInv, phase = "serve", phase' = "serve",
           NEW l \in Loops, CloseEnds(l)
    PROVE  ServeInv'
<1>1. l = NLoops
  BY DEF CloseEnds, ServeInv, Idle
<1>2. PICK c \in Conns : frame[l] = <<"close", c>>
  BY DEF CloseEnds, TypeInv, TypeOK, Frames, Idle
<1>3. at[c] = "closed" /\ fd[c] \in Fds /\ registry[fd[c]] = c
  BY <1>2 DEF ServeInv
<1>4. /\ registry' = [registry EXCEPT ![fd[c]] = Nobody]
      /\ frame' = [frame EXCEPT ![l] = Idle]
      /\ UNCHANGED <<NLoops, fd, home, tasks, batch>>
      /\ Settle(l, at)
  BY <1>2 DEF CloseEnds, Destroyed, connVars
<1>5. /\ registry \in [Fds -> Conns \union {Nobody}] /\ at \in [Conns -> States]
      /\ \A d \in Conns : at[d] = "open" => d \in Used
  BY DEF TypeInv, TypeOK, States, Used
<1>6. \A d \in Conns : at[d] = "open" => fd[d] \in Fds /\ fd[d] # fd[c] /\ registry[fd[d]] = d
  BY <1>3, <1>5 DEF ServeInv, RegistryAgrees
<1>7. \A d \in Conns : at[d] = "open" => registry'[fd[d]] = d
  BY <1>4, <1>5, <1>6
<1>8. at' = at /\ crash' = crash
  BY <1>4, <1>5, <1>6, <1>7, SettleKeeps
<1>9. \A m \in Loops : frame'[m] = Idle
  BY <1>1, <1>4 DEF ServeInv, TypeInv, TypeOK
<1>10. RegistryAgrees'
  <2>1. ASSUME NEW f \in Fds, registry'[f] # Nobody
        PROVE  fd[registry'[f]] = f /\ at[registry'[f]] = "open"
    <3>1. f # fd[c] /\ registry'[f] = registry[f] /\ registry[f] \in Conns
      BY <1>3, <1>4, <1>5, <2>1
    <3>2. /\ fd[registry[f]] = f
          /\ \/ at[registry[f]] = "open"
             \/ \E m \in Loops : frame[m] = <<"close", registry[f]>>
      BY <2>1, <3>1 DEF ServeInv, RegistryAgrees
    <3>3. registry[f] # c
      BY <3>1, <3>2
    <3>4. \A m \in Loops, d \in Conns : frame[m] = <<"close", d>> => d = c
      BY <1>1, <1>2 DEF ServeInv, Idle
    <3>5. QED  BY <3>1, <3>2, <3>3, <3>4
  <2>2. QED  BY <1>4, <1>7, <1>8, <2>1 DEF RegistryAgrees
<1>11. \A m \in Loops : /\ Creates(m)' = Creates(m) /\ CreateOnce(m)' = CreateOnce(m)
                        /\ Queued(m, "close")' = Queued(m, "close")
  BY <1>4 DEF Creates, Queued, CreateOnce
<1>12. Used' = Used
  BY <1>8 DEF Used
<1>13. NLoops \in Loops /\ \A m \in Loops, d \in Conns : frame'[m] # <<"create", d>> /\ frame'[m] # <<"close", d>>
  BY <1>9, LoopsTyped DEF Idle
<1>14. QED  BY <1>4, <1>8, <1>9, <1>10, <1>11, <1>12, <1>13 DEF ServeInv

LEMMA ServeCreateEnds ==
    ASSUME TypeInv, ServeInv, phase = "serve", phase' = "serve",
           NEW l \in Loops, CreateEnds(l)
    PROVE  ServeInv'
<1>1. l = NLoops
  BY DEF CreateEnds, ServeInv, Idle
<1>2. PICK c \in Conns : frame[l] = <<"create", c>>
  BY DEF CreateEnds, TypeInv, TypeOK, Frames, Idle
<1>3. at[c] = "open" /\ home[c] = l
  BY <1>1, <1>2 DEF ServeInv, Used
<1>4. /\ frame' = [frame EXCEPT ![l] = Idle]
      /\ UNCHANGED <<NLoops, fd, home, registry, tasks, batch>>
      /\ Settle(l, at)
  BY <1>2, <1>3 DEF CreateEnds, connVars
<1>5. at \in [Conns -> States] /\ \A d \in Conns : at[d] = "open" => d \in Used
  BY DEF TypeInv, TypeOK, States, Used
<1>6. \A d \in Conns : at[d] = "open" => fd[d] \in Fds /\ registry'[fd[d]] = d
  BY <1>4, <1>5 DEF ServeInv, RegistryAgrees
<1>7. at' = at /\ crash' = crash
  BY <1>4, <1>5, <1>6, SettleKeeps
<1>8. \A m \in Loops : frame'[m] = Idle
  BY <1>1, <1>4 DEF ServeInv, TypeInv, TypeOK
<1>9. \A m \in Loops, d \in Conns : frame[m] # <<"close", d>>
  BY <1>1, <1>2 DEF ServeInv, Idle
<1>10. RegistryAgrees'
  <2>1. \A f \in Fds : registry[f] # Nobody => registry[f] \in Conns
    BY DEF TypeInv, TypeOK
  <2>2. \A f \in Fds : registry[f] # Nobody => fd[registry[f]] = f /\ at[registry[f]] = "open"
    BY <1>9, <2>1 DEF ServeInv, RegistryAgrees
  <2>3. QED  BY <1>4, <1>6, <1>7, <2>2 DEF RegistryAgrees
<1>11. \A m \in Loops : /\ Creates(m)' = Creates(m) /\ CreateOnce(m)' = CreateOnce(m)
                        /\ Queued(m, "close")' = Queued(m, "close")
  BY <1>4 DEF Creates, Queued, CreateOnce
<1>12. Used' = Used
  BY <1>7 DEF Used
<1>13. NLoops \in Loops /\ \A m \in Loops, d \in Conns : frame'[m] # <<"create", d>> /\ frame'[m] # <<"close", d>>
  BY <1>8, LoopsTyped DEF Idle
<1>14. QED  BY <1>4, <1>7, <1>8, <1>10, <1>11, <1>12, <1>13 DEF ServeInv

\* A creation that was queued for the IO loop.
LEMMA ServeCreates ==
    ASSUME TypeInv, ServeInv, phase = "serve", phase' = "serve",
           NEW l \in Loops, RunTask(l), Head(batch[l])[1] = "create"
    PROVE  ServeInv'
<1>1. PICK c \in Conns : c = Head(batch[l])[2] /\ c \in Creates(l)
  BY RunsHead DEF Creates, Task
<1>2. l = NLoops /\ at[c] = "queued" /\ c \in Used
  BY <1>1 DEF ServeInv, Used
<1>3. /\ frame[l] = Idle
      /\ frame' = [frame EXCEPT ![l] = <<"create", c>>]
      /\ registry' = [registry EXCEPT ![fd[c]] = c]
      /\ Settle(l, [at EXCEPT ![c] = "open"])
      /\ UNCHANGED <<NLoops, fd, home, tasks>>
  BY <1>1 DEF RunTask, Destroyed, connVars
<1>4. PICK now \in [Conns -> States] : now = [at EXCEPT ![c] = "open"]
  BY DEF TypeInv, TypeOK, States
<1>5. now[c] = "open" /\ \A d \in Conns : d # c => now[d] = at[d]
  BY <1>4 DEF TypeInv, TypeOK
<1>6. fd[c] \in Fds /\ registry \in [Fds -> Conns \union {Nobody}]
  BY <1>2 DEF ServeInv, TypeInv, TypeOK
<1>7. ASSUME NEW d \in Conns, now[d] = "open" PROVE fd[d] \in Fds /\ registry'[fd[d]] = d
  <2>1. CASE d = c
    BY <1>3, <1>6, <2>1
  <2>2. CASE d # c
    <3>1. at[d] = "open" /\ d \in Used
      BY <1>5, <1>7, <2>2 DEF Used
    <3>2. fd[d] \in Fds /\ fd[d] # fd[c] /\ registry[fd[d]] = d
      BY <1>2, <2>2, <3>1 DEF ServeInv, RegistryAgrees
    <3>3. QED  BY <1>3, <1>6, <3>2
  <2>3. QED  BY <2>1, <2>2
<1>settles. Settle(l, now)
  BY <1>3, <1>4, Zenon
<1>held. \A d \in Conns : now[d] = "open" => d \in pending' \/ \E f \in Fds : registry'[f] = d
  BY <1>7, Zenon
<1>8. at' = now /\ crash' = crash
  BY <1>settles, <1>held, SettleKeeps, Zenon
<1>9. \A m \in Loops : frame[m] = Idle
  BY <1>2, <1>3 DEF ServeInv
<1>10. \A m \in Loops, d \in Conns : frame[m] # <<"close", d>>
  BY <1>9 DEF Idle
<1>11. /\ frame'[l] = <<"create", c>>
       /\ \A m \in Loops : m # l => frame'[m] = Idle
  BY <1>3, <1>9 DEF TypeInv, TypeOK
<1>12. \A m \in Loops, d \in Conns : /\ frame'[m] = <<"create", d>> => d = c
                                     /\ frame'[m] # <<"close", d>>
  BY <1>11 DEF Idle
<1>13. RegistryAgrees'
  <2>1. ASSUME NEW f \in Fds, registry'[f] # Nobody
        PROVE  fd[registry'[f]] = f /\ now[registry'[f]] = "open"
    <3>1. CASE f = fd[c]
      BY <1>3, <1>5, <1>6, <3>1
    <3>2. CASE f # fd[c]
      <4>1. registry'[f] = registry[f] /\ registry[f] \in Conns
        BY <1>3, <1>6, <2>1, <3>2
      <4>2. fd[registry[f]] = f /\ at[registry[f]] = "open"
        BY <1>10, <2>1, <4>1 DEF ServeInv, RegistryAgrees
      <4>3. registry[f] # c
        BY <3>2, <4>2
      <4>4. QED  BY <1>5, <4>1, <4>2, <4>3
    <3>3. QED  BY <3>1, <3>2
  <2>2. QED  BY <1>3, <1>7, <1>8, <2>1 DEF RegistryAgrees
<1>14. /\ \A m \in Loops : Creates(m)' \subseteq Creates(m) /\ Queued(m, "close")' \subseteq Queued(m, "close")
       /\ CreateOnce(NLoops)' /\ c \notin Creates(NLoops)'
  <2>1. /\ \A m \in Loops : \A tag : Queued(m, tag)' \subseteq Queued(m, tag)
        /\ CreateOnce(l) => CreateOnce(l)'
        /\ CreateOnce(l) => c \notin Creates(l)'
    BY <1>1, RunsHead
  <2>2. CreateOnce(l)
    BY <1>2 DEF ServeInv
  <2>3. NLoops' = NLoops
    BY <1>3
  <2>4. \A m \in Loops : Creates(m)' \subseteq Creates(m) /\ Queued(m, "close")' \subseteq Queued(m, "close")
    BY <2>1 DEF Creates
  <2>5. CreateOnce(NLoops)' /\ c \notin Creates(NLoops)'
    BY <1>2, <2>1, <2>2, <2>3
  <2>6. QED  BY <2>4, <2>5
<1>15. \A d \in Creates(NLoops)' : at'[d] = "queued"
  <2>1. \A d \in Creates(NLoops) : d \in Conns /\ at[d] = "queued"
    BY <1>2, CreatesTyped DEF ServeInv
  <2>2. NLoops' = NLoops
    BY <1>3
  <2>3. \A d \in Creates(NLoops)' : d \in Creates(NLoops) /\ d # c
    BY <1>2, <1>14, <2>2
  <2>4. QED  BY <1>5, <1>8, <2>1, <2>3
<1>16. Used' = Used
  BY <1>2, <1>5, <1>8 DEF Used
<1>17. /\ \A m \in Loops : m # NLoops => Creates(m)' = {}
       /\ \A m \in Loops : Queued(m, "close")' = {}
  BY <1>14 DEF ServeInv
<1>18. QED
  BY <1>2, <1>3, <1>5, <1>8, <1>11, <1>12, <1>13, <1>14, <1>15, <1>16, <1>17 DEF ServeInv

LEMMA ServeRuns ==
    ASSUME TypeInv, ServeInv, phase = "serve", phase' = "serve",
           NEW l \in Loops, RunTask(l)
    PROVE  ServeInv'
<1>1. CASE Head(batch[l])[1] = "create"
  BY <1>1, ServeCreates
<1>2. CASE Head(batch[l])[1] # "create"
  <2>1. Head(batch[l])[1] # "close"
    <3>1. Head(batch[l])[1] = "close" => Head(batch[l])[2] \in Queued(l, "close")
      BY RunsHead
    <3>2. QED  BY <3>1 DEF ServeInv
  <2>2. UNCHANGED <<frame, registry>> /\ Settle(l, at) /\ UNCHANGED <<NLoops, fd, home>>
    BY <1>2, <2>1 DEF RunTask, connVars
  <2>3. at \in [Conns -> States] /\ \A d \in Conns : at[d] = "open" => d \in Used
    BY DEF TypeInv, TypeOK, States, Used
  <2>4. \A d \in Conns : at[d] = "open" => fd[d] \in Fds /\ registry'[fd[d]] = d
    BY <2>2, <2>3 DEF ServeInv, RegistryAgrees
  <2>5. at' = at /\ crash' = crash
    BY <2>2, <2>3, <2>4, SettleKeeps
  <2>6. /\ \A m \in Loops : Creates(m)' \subseteq Creates(m) /\ Queued(m, "close")' \subseteq Queued(m, "close")
        /\ CreateOnce(NLoops) => CreateOnce(NLoops)'
    BY <2>2, RunsHead, LoopsTyped DEF Creates
  <2>7. QED  BY <2>2, <2>5, <2>6, ServeFrame
<1>3. QED  BY <1>1, <1>2

LEMMA ServeLeaves ==
    ASSUME TypeInv, ServeInv, phase = "serve", phase' = "serve",
           NEW l \in Loops, BatchDone(l)
    PROVE  ServeInv'
<1>1. LeaveBatch(l) /\ batch[l] = <<>> /\ UNCHANGED <<NLoops, fd, home, registry, frame, batch>>
  BY DEF BatchDone, LeaveBatch, connVars
<1>2. at \in [Conns -> States] /\ \A d \in Conns : at[d] = "open" => d \in Used
  BY DEF TypeInv, TypeOK, States, Used
<1>3. \A d \in Conns : at[d] = "open" => fd[d] \in Fds /\ registry'[fd[d]] = d
  BY <1>1, <1>2 DEF ServeInv, RegistryAgrees
<1>4. at' = at /\ crash' = crash
  <2>1. CASE l \in quit
    BY <1>1, <1>2, <1>3, <2>1, SettleKeeps DEF LeaveBatch
  <2>2. CASE l \notin quit
    BY <1>1, <2>2 DEF LeaveBatch
  <2>3. QED  BY <2>1, <2>2
<1>5. \A m \in Loops : tasks'[m] = tasks[m] \/ tasks'[m] = <<>>
  BY <1>1 DEF LeaveBatch, TypeInv
<1>6. /\ \A m \in Loops : \A tag : Tagged(tasks'[m], tag) \subseteq Tagged(tasks[m], tag)
      /\ \A m \in Loops : TaggedOnce(tasks[m], "create") => TaggedOnce(tasks'[m], "create")
  BY <1>5, TaggedNone
<1>7. /\ \A m \in Loops : Creates(m)' \subseteq Creates(m) /\ Queued(m, "close")' \subseteq Queued(m, "close")
      /\ CreateOnce(NLoops) => CreateOnce(NLoops)'
  BY <1>1, <1>6, LoopsTyped DEF Creates, Queued, CreateOnce
<1>8. QED  BY <1>1, <1>4, <1>7, ServeFrame

\* The registry holds every open connection, so a worker is not the last to let go.
LEMMA ServeForgets ==
    ASSUME TypeInv, ServeInv, phase = "serve", NEW c \in Conns, WorkerForgets(c)
    PROVE  at' = at /\ crash' = crash
<1>1. at \in [Conns -> States] /\ \A d \in Conns : at[d] = "open" => d \in Used
  BY DEF TypeInv, TypeOK, States, Used
<1>2. Settle(NLoops + 1, at) /\ registry' = registry
  BY DEF WorkerForgets
<1>3. \A d \in Conns : at[d] = "open" => fd[d] \in Fds /\ registry'[fd[d]] = d
  BY <1>1, <1>2 DEF ServeInv, RegistryAgrees
<1>4. QED  BY <1>1, <1>2, <1>3, SettleKeeps

LEMMA ServeStep ==
    ASSUME TypeInv, ServeInv, NLoops <= 1, phase = "serve", phase' = "serve", [Next]_vars
    PROVE  ServeInv'
<1> USE DEF acceptorVars, connVars, loopVars, mainVars
<1>0. NLoops \in Loops
  BY LoopsTyped
<1>f. ASSUME UNCHANGED <<connVars, registry, frame, tasks, batch, crash>>,
             \A c \in Conns : at'[c] = at[c] \/ (at[c] \in {"none", "waiting"}
                                                 /\ at'[c] \in {"waiting", "rejected"})
      PROVE  ServeInv'
  <2>1. /\ \A l \in Loops : /\ Creates(l)' \subseteq Creates(l)
                            /\ Queued(l, "close")' \subseteq Queued(l, "close")
        /\ CreateOnce(NLoops) => CreateOnce(NLoops)'
    BY <1>f DEF Creates, Queued, CreateOnce
  <2>2. QED  BY <1>f, <2>1, ServeFrame
<1>1. CASE AcceptBegins
  BY <1>1, <1>f DEF AcceptBegins
<1>2. CASE Accept
  BY <1>2, ServeAccept
<1>3. CASE Reject
  <2>1. NewConn \in Conns /\ at[NewConn] = "waiting" /\ at' = [at EXCEPT ![NewConn] = "rejected"]
    BY <1>3, NewConnWaits DEF Reject, MayAccept, Waiting
  <2>2. \A c \in Conns : at'[c] = at[c] \/ (at[c] = "waiting" /\ at'[c] = "rejected")
    BY <2>1 DEF TypeInv, TypeOK
  <2>3. QED  BY <1>3, <1>f, <2>2 DEF Reject
<1>4. CASE \E error \in BOOLEAN : AcceptEnds(error)
  BY <1>4, <1>f DEF AcceptEnds
<1>5. CASE QuitTimer
  BY <1>5, <1>f DEF QuitTimer
<1>6. CASE CloseAll \/ StopPool \/ PoolStopped \/ Destroy \/ Exit \/ (\E c \in Conns : CloseOne(c))
           \/ (\E l \in Loops : QuitLoop(l))
  BY <1>6 DEF CloseAll, Collect, StopPool, PoolStopped, Destroy, Exit, CloseOne, QuitLoop
<1>7. CASE Connect
  <2>1. PICK c : at' = [at EXCEPT ![c] = "waiting"] /\ c = Min({d \in Conns : at[d] = "none"})
    BY <1>7 DEF Connect
  <2>2. c \in Conns /\ at[c] = "none"
    <3>1. {d \in Conns : at[d] = "none"} \in SUBSET Nat /\ {d \in Conns : at[d] = "none"} # {}
      BY <1>7, ServerAssumption DEF Connect, Conns
    <3>2. \E m \in {d \in Conns : at[d] = "none"} : \A k \in {d \in Conns : at[d] = "none"} : m <= k
      BY <3>1, LeastNatural
    <3>3. c \in {d \in Conns : at[d] = "none"}
      BY <2>1, <3>2, Zenon DEF Min
    <3>4. QED  BY <3>3
  <2>3. \A d \in Conns : at'[d] = at[d] \/ (at[d] = "none" /\ at'[d] = "waiting")
    BY <2>1, <2>2 DEF TypeInv, TypeOK
  <2>4. QED  BY <1>7, <1>f, <2>3 DEF Connect
<1>8. CASE Signal
  BY <1>8, <1>f DEF Signal
<1>9. ASSUME NEW l \in Loops, NEW c \in Conns, Close(l, c) PROVE ServeInv'
  BY <1>9, ServeClose
<1>10. ASSUME NEW l \in Loops, NEW c \in Conns, Request(l, c) PROVE ServeInv'
  <2>1. UNCHANGED <<connVars, registry, loopVars, at, crash>>
    BY <1>10 DEF Request, Destroyed
  <2>2. QED  BY <1>f, <2>1
<1>11. ASSUME NEW l \in Loops, Swap(l) PROVE ServeInv'
  <2>1. /\ \A m \in Loops : Creates(m)' \subseteq Creates(m) /\ Queued(m, "close")' \subseteq Queued(m, "close")
        /\ CreateOnce(NLoops) => CreateOnce(NLoops)'
    <3>1. /\ \A m \in Loops : \A tag : Queued(m, tag)' = Queued(m, tag)
          /\ \A m \in Loops : CreateOnce(m) => CreateOnce(m)'
      BY <1>11, SwapMoves
    <3>2. QED  BY <1>0, <1>11, <3>1 DEF Creates, Swap
  <2>2. QED  BY <1>11, <2>1, ServeFrame DEF Swap
<1>12. ASSUME NEW l \in Loops, RunTask(l) PROVE ServeInv'
  BY <1>12, ServeRuns
<1>13. ASSUME NEW l \in Loops, BatchDone(l) PROVE ServeInv'
  BY <1>13, ServeLeaves
<1>14. ASSUME NEW l \in Loops, CreateEnds(l) PROVE ServeInv'
  BY <1>14, ServeCreateEnds
<1>15. ASSUME NEW l \in Loops, CloseEnds(l) PROVE ServeInv'
  BY <1>15, ServeCloseEnds
<1>16. ASSUME NEW c \in Conns, WorkerRuns(c) PROVE ServeInv'
  <2>1. home[c] \in Loops
    BY DEF TypeInv, TypeOK
  <2>2. /\ \A m \in Loops : Queued(m, "create")' = Queued(m, "create")
        /\ \A m \in Loops : CreateOnce(m) => CreateOnce(m)'
    BY <1>16, <2>1, OthersQueued DEF WorkerRuns, Kinds
  <2>3. \A m \in Loops : Queued(m, "close")' = Queued(m, "close")
    BY <1>16, <2>1, OthersQueued DEF WorkerRuns, Kinds
  <2>4. QED  BY <1>0, <1>16, <2>2, <2>3, ServeFrame DEF WorkerRuns, Creates
<1>17. ASSUME NEW c \in Conns, WorkerForgets(c) PROVE ServeInv'
  BY <1>17, <1>f, ServeForgets DEF WorkerForgets
<1>18. CASE UNCHANGED vars
  BY <1>18, <1>f DEF vars
<1>19. QED
  BY <1>1, <1>2, <1>3, <1>4, <1>5, <1>6, <1>7, <1>8, <1>9, <1>10, <1>11, <1>12, <1>13,
     <1>14, <1>15, <1>16, <1>17, <1>18
  DEF Next, Main, Clients, Round, Drained, AcceptFails

-----------------------------------------------------------------------------
(* What becomes of a connection.                                           *)

\* It enters the backlog with Connect, a queue with Accept, and is open after
\* Accept or a creation; no step makes the server serve again.
Creating(l) == RunTask(l) /\ Head(batch[l])[1] = "create"

LEMMA SettleBecomes ==
    ASSUME NEW l, NEW now \in [Conns -> States], Settle(l, now), NEW c \in Conns
    PROVE  at'[c] \in {now[c], "dropped"}
BY DEF Settle

LEMMA Becomes ==
    ASSUME TypeInv, [Next]_vars
    PROVE  /\ \A c \in Conns :
                /\ at'[c] = "waiting" => at[c] = "waiting" \/ Connect
                /\ at'[c] = "queued" => at[c] = "queued" \/ (Accept /\ NextLoop # 0)
                /\ at'[c] = "open" => at[c] = "open" \/ Accept \/ \E l \in Loops : Creating(l)
           /\ phase' = "serve" => phase = "serve"
<1> USE DEF mainVars
<1> DEFINE New(c) == /\ at'[c] = "waiting" => at[c] = "waiting" \/ Connect
                     /\ at'[c] = "queued" => at[c] = "queued" \/ (Accept /\ NextLoop # 0)
                     /\ at'[c] = "open" => at[c] = "open" \/ Accept \/ \E l \in Loops : Creating(l)
           Goal == (\A c \in Conns : New(c)) /\ (phase' = "serve" => phase = "serve")
<1>a. at \in [Conns -> States]
  BY DEF TypeInv, TypeOK, States
<1>s. \A l : Settle(l, at) => \A c \in Conns : New(c)
  BY <1>a, SettleBecomes
<1>u. at' = at => \A c \in Conns : New(c)
  OBVIOUS
<1> SUFFICES Goal
  OBVIOUS
<1>1. CASE AcceptBegins
  BY <1>1, <1>u DEF AcceptBegins
<1>2. CASE Accept
  <2>0. NewConn \in Conns
    BY <1>2, NewConnWaits DEF Accept, MayAccept, Waiting
  <2>1. ASSUME NEW c \in Conns PROVE New(c)
    <3>1. CASE NextLoop = 0
      <4>1. PICK now \in [Conns -> States] : now = [at EXCEPT ![NewConn] = "open"]
        BY <1>a DEF States
      <4>2. at'[c] \in {now[c], "dropped"}
        BY <1>2, <3>1, <4>1, SettleBecomes DEF Accept
      <4>3. now[c] \in {at[c], "open"}
        BY <1>a, <4>1
      <4>4. QED  BY <1>2, <4>2, <4>3
    <3>2. CASE NextLoop # 0
      <4>1. at' = [at EXCEPT ![NewConn] = "queued"]
        BY <1>2, <3>2 DEF Accept
      <4>2. at'[c] \in {at[c], "queued"}
        BY <1>a, <4>1
      <4>3. QED  BY <1>2, <3>2, <4>2
    <3>3. QED  BY <3>1, <3>2
  <2>2. QED  BY <1>2, <2>1 DEF Accept
<1>3. CASE Reject
  <2>1. at' = [at EXCEPT ![NewConn] = "rejected"]
    BY <1>3 DEF Reject
  <2>2. \A c \in Conns : at'[c] \in {at[c], "rejected"}
    BY <1>a, <2>1
  <2>3. QED  BY <1>3, <2>2 DEF Reject
<1>4. CASE \E error \in BOOLEAN : AcceptEnds(error)
  BY <1>4, <1>u DEF AcceptEnds
<1>5. CASE QuitTimer
  BY <1>5, <1>u DEF QuitTimer
<1>6. CASE CloseAll
  BY <1>6, <1>s DEF CloseAll, Collect
<1>7. CASE StopPool \/ PoolStopped
  BY <1>7, <1>u DEF StopPool, PoolStopped
<1>8. CASE Destroy
  <2>1. PICK now \in [Conns -> States] :
           now = [c \in Conns |-> IF c \in Waiting THEN "rejected" ELSE at[c]]
    BY <1>a DEF States
  <2>2. \A c \in Conns : now[c] \in {at[c], "rejected"} /\ at'[c] \in {now[c], "dropped"}
    BY <1>8, <2>1, SettleBecomes DEF Destroy
  <2>3. QED  BY <1>8, <2>2 DEF Destroy
<1>9. CASE Exit
  BY <1>9, <1>s DEF Exit
<1>10. ASSUME NEW c \in Conns, CloseOne(c) PROVE Goal
  <2>1. CASE Settle(0, at)
    BY <1>10, <1>s, <2>1 DEF CloseOne
  <2>2. CASE at' = at
    BY <1>10, <2>2 DEF CloseOne
  <2>3. CASE at' = [at EXCEPT ![c] = "closed"]
    BY <1>10, <1>a, <2>3 DEF CloseOne
  <2>4. QED  BY <1>10, <2>1, <2>2, <2>3 DEF CloseOne, CloseFd
<1>11. ASSUME NEW l \in Loops, QuitLoop(l) PROVE Goal
  BY <1>11, <1>u DEF QuitLoop
<1>12. CASE Connect
  <2>1. PICK d : at' = [at EXCEPT ![d] = "waiting"]
    BY <1>12 DEF Connect
  <2>2. \A c \in Conns : at'[c] \in {at[c], "waiting"}
    BY <1>a, <2>1
  <2>3. QED  BY <1>12, <2>2 DEF Connect
<1>13. CASE Signal
  BY <1>13, <1>u DEF Signal
<1>14. ASSUME NEW l \in Loops, NEW c \in Conns, Close(l, c) PROVE Goal
  <2>1. \A d \in Conns : at'[d] \in {at[d], "closed"}
    BY <1>14, <1>a DEF Close, CloseFd
  <2>2. QED  BY <1>14, <2>1 DEF Close
<1>15. ASSUME NEW l \in Loops, NEW c \in Conns, Request(l, c) PROVE Goal
  BY <1>15, <1>u DEF Request, Crashes
<1>16. ASSUME NEW l \in Loops, Swap(l) PROVE Goal
  BY <1>16, <1>u DEF Swap
<1>17. ASSUME NEW l \in Loops, RunTask(l) PROVE Goal
  <2> DEFINE c == Head(batch[l])[2]
  <2>1. UNCHANGED phase
    BY <1>17 DEF RunTask
  <2>2. CASE Head(batch[l])[1] = "create" /\ RunsCreate(l, c)
    <3>1. PICK now \in [Conns -> States] : now = [at EXCEPT ![c] = "open"]
      BY <1>a DEF States
    <3>2. \A d \in Conns : now[d] \in {at[d], "open"} /\ at'[d] \in {now[d], "dropped"}
      BY <1>a, <2>2, <3>1, SettleBecomes DEF RunsCreate
    <3>3. Creating(l)
      BY <1>17, <2>2 DEF Creating
    <3>4. QED  BY <2>1, <3>2, <3>3
  <2>3. CASE UNCHANGED at
    BY <2>1, <2>3
  <2>4. CASE CloseFd(l, c)
    <3>1. \A d \in Conns : at'[d] \in {at[d], "closed"}
      BY <1>a, <2>4 DEF CloseFd
    <3>2. QED  BY <2>1, <3>1
  <2>5. CASE Settle(l, at)
    BY <1>s, <2>1, <2>5
  <2>6. QED  BY <1>17, <2>2, <2>3, <2>4, <2>5, RunTaskCases
<1>18. ASSUME NEW l \in Loops, BatchDone(l) PROVE Goal
  <2>1. CASE at' = at
    BY <1>18, <2>1 DEF BatchDone, LeaveBatch
  <2>2. CASE Settle(l, at)
    BY <1>18, <1>s, <2>2 DEF BatchDone, LeaveBatch
  <2>3. QED  BY <1>18, <2>1, <2>2 DEF BatchDone, LeaveBatch
<1>19. ASSUME NEW l \in Loops, CreateEnds(l) PROVE Goal
  <2>1. CASE at' = at
    BY <1>19, <2>1 DEF CreateEnds, Crashes
  <2>2. CASE Settle(l, at)
    BY <1>19, <1>s, <2>2 DEF CreateEnds, Crashes
  <2>3. QED  BY <1>19, <2>1, <2>2 DEF CreateEnds, Crashes
<1>20. ASSUME NEW l \in Loops, CloseEnds(l) PROVE Goal
  <2>1. CASE at' = at
    BY <1>20, <2>1 DEF CloseEnds, Crashes
  <2>2. CASE Settle(l, at)
    BY <1>20, <1>s, <2>2 DEF CloseEnds, Crashes
  <2>3. QED  BY <1>20, <2>1, <2>2 DEF CloseEnds, Crashes
<1>21. ASSUME NEW c \in Conns, WorkerRuns(c) PROVE Goal
  BY <1>21, <1>u DEF WorkerRuns
<1>22. ASSUME NEW c \in Conns, WorkerForgets(c) PROVE Goal
  BY <1>22, <1>s DEF WorkerForgets
<1>23. CASE UNCHANGED vars
  BY <1>23, <1>u, SMTT(30) DEF vars
<1> HIDE DEF Goal
<1>24. QED
  BY <1>1, <1>2, <1>3, <1>4, <1>5, <1>6, <1>7, <1>8, <1>9, <1>10, <1>11, <1>12, <1>13,
     <1>14, <1>15, <1>16, <1>17, <1>18, <1>19, <1>20, <1>21, <1>22, <1>23
  DEF Next, Main, Clients, Round, Drained, AcceptFails

\* Serving ends with closeAll().
LEMMA PhaseLeavesServe == [Next]_vars /\ phase = "serve" /\ phase' # "serve" => CloseAll
BY DEF Next, Main, Clients, Round, AcceptBegins, Accept, Reject, Drained, AcceptFails, AcceptEnds,
       QuitTimer, StopPool, PoolStopped, Destroy, Exit, CloseOne, QuitLoop, Connect, Signal,
       Close, Request, Crashes, Swap, RunTask, BatchDone, LeaveBatch, CreateEnds, CloseEnds,
       WorkerRuns, WorkerForgets, mainVars, vars

LEMMA ForgottenStep == TypeInv /\ NobodyForgotten /\ [Next]_vars => NobodyForgotten'
<1> SUFFICES ASSUME TypeInv, NobodyForgotten, [Next]_vars, phase' = "serve", Waiting' # {}
             PROVE  edge' \/ accepting' \/ failed'
  BY DEF NobodyForgotten
<1>1. CASE Connect
  BY <1>1 DEF Connect
<1>2. CASE AcceptBegins
  BY <1>2 DEF AcceptBegins
<1>3. CASE AcceptFails
  BY <1>3 DEF AcceptFails, AcceptEnds
<1>4. CASE Drained
  BY <1>4 DEF Drained, AcceptEnds, Waiting
<1>5. CASE ~(Connect \/ AcceptBegins \/ AcceptFails \/ Drained)
  <2>1. UNCHANGED acceptorVars
    BY <1>5, ZenonT(60)
    DEF Next, Main, Clients, Round, Accept, Reject, QuitTimer, CloseAll, Collect, StopPool,
        PoolStopped, Destroy, Exit, CloseOne, QuitLoop, Signal, Close, Request, Crashes, Swap,
        RunTask, BatchDone, LeaveBatch, CreateEnds, CloseEnds, WorkerRuns,
        WorkerForgets, vars
  <2>2. phase = "serve" /\ Waiting # {}
    BY <1>5, Becomes DEF Waiting
  <2>3. QED  BY <2>1, <2>2 DEF NobodyForgotten, acceptorVars
<1>6. QED  BY <1>1, <1>2, <1>3, <1>4, <1>5

-----------------------------------------------------------------------------
(* With the base loop alone.                                               *)

\* The other loops have ended, and the base loop does not start again.
LEMMA BaseLoops ==
    ASSUME TypeInv, BaseInv, NLoops = 0, [Next]_vars
    PROVE  /\ \A l \in Loops : l # 0 => loopAt'[l] = "ended"
           /\ \A c \in Conns : home'[c] = 0
           /\ accepting' => loopAt'[0] = "poll"
           /\ loopAt[0] = "ended" => loopAt'[0] = "ended"
<1> USE DEF acceptorVars, connVars, loopVars, mainVars
<1> DEFINE Goal == /\ \A l \in Loops : l # 0 => loopAt'[l] = "ended"
                   /\ \A c \in Conns : home'[c] = 0
                   /\ accepting' => loopAt'[0] = "poll"
                   /\ loopAt[0] = "ended" => loopAt'[0] = "ended"
<1> SUFFICES Goal
  OBVIOUS
<1>a. /\ \A l \in Loops : l # 0 => loopAt[l] = "ended"
      /\ \A c \in Conns : home[c] = 0
      /\ accepting => loopAt[0] = "poll"
      /\ 0 \in Loops /\ loopAt \in [Loops -> {"poll", "batch", "ended"}]
  BY LoopsTyped DEF BaseInv, TypeInv
<1>1. CASE UNCHANGED <<loopAt, accepting, home>>
  BY <1>1, <1>a
<1>2. CASE AcceptBegins
  BY <1>2, <1>a DEF AcceptBegins, Polls
<1>3. CASE Accept
  <2>1. home' = [home EXCEPT ![NewConn] = 0] /\ UNCHANGED <<loopAt, accepting>>
    BY <1>3 DEF Accept, TakeConn, NextLoop
  <2>2. \A c \in Conns : home'[c] = 0
    BY <1>a, <2>1 DEF TypeInv, TypeOK
  <2>3. QED  BY <1>a, <2>1, <2>2
<1>4. CASE \E error \in BOOLEAN : AcceptEnds(error)
  BY <1>4, <1>a DEF AcceptEnds
<1>5. ASSUME NEW l \in Loops, Swap(l) PROVE Goal
  BY <1>5, <1>a DEF Swap, Polls
<1>6. ASSUME NEW l \in Loops, BatchDone(l) PROVE Goal
  <2>1. l = 0 /\ loopAt[0] = "batch" /\ ~accepting
    BY <1>6, <1>a DEF BatchDone, LeaveBatch
  <2>2. UNCHANGED <<home, accepting>> /\ \A m \in Loops : m # l => loopAt'[m] = loopAt[m]
    BY <1>6, <1>a DEF BatchDone, LeaveBatch
  <2>3. QED  BY <1>a, <2>1, <2>2
<1> HIDE DEF Goal
<1>7. QED
  BY <1>1, <1>2, <1>3, <1>4, <1>5, <1>6, Zenon
  DEF Next, Main, Clients, Round, Drained, AcceptFails, Reject, QuitTimer, CloseAll, Collect,
      StopPool, PoolStopped, Destroy, Exit, CloseOne, QuitLoop, Connect, Signal, Close, Request,
      Crashes, RunTask, CreateEnds, CloseEnds, WorkerRuns, WorkerForgets, vars

LEMMA BaseServes ==
    ASSUME TypeInv, ServeInv, ServeInv', BaseInv, NLoops = 0, [Next]_vars, phase' = "serve"
    PROVE  BaseInv'
<1>1. NLoops' = 0
  BY ParametersStay
<1>2. crash' = "none" /\ \A l \in Loops : l # 0 => frame'[l] = Idle
  BY <1>1 DEF ServeInv
<1>3. \A c \in Conns : at'[c] \notin {"queued", "dropped"}
  <2>1. \A c \in Conns : at'[c] # "dropped"
    BY DEF ServeInv
  <2>2. NextLoop = 0
    BY DEF NextLoop
  <2>3. \A c \in Conns : at'[c] # "queued"
    BY <2>2, Becomes DEF BaseInv
  <2>4. QED  BY <2>1, <2>3
<1>4. QED  BY <1>2, <1>3, BaseLoops DEF BaseInv

\* closeAll() takes over from the registry those that are open.
LEMMA BaseCollects ==
    ASSUME TypeInv, ServeInv, BaseInv, NLoops = 0, CloseAll, phase = "serve"
    PROVE  BaseInv'
<1>1. /\ loopAt[0] = "ended" /\ frame[0] = Idle /\ phase' = "closing"
      /\ pending' = Registered /\ Settle(0, at)
      /\ UNCHANGED <<acceptorVars, connVars, loopVars>>
  BY DEF CloseAll, Collect
<1>2. at \in [Conns -> States] /\ \A c \in Conns : at[c] = "open" => c \in Used /\ c # Nobody
  BY DEF TypeInv, TypeOK, States, Used, Conns, Nobody
<1>3. \A c \in Conns : at[c] = "open" => c \in pending'
  BY <1>1, <1>2 DEF ServeInv, RegistryAgrees, Registered
<1>4. at' = at /\ crash' = crash
  BY <1>1, <1>2, <1>3, SettleKeeps
<1>5. QED  BY <1>1, <1>3, <1>4 DEF BaseInv, Open, acceptorVars, connVars, loopVars

\* Then no connection is opened, and the last open one is gone before what it
\* uses is destroyed.
LEMMA BaseCloses ==
    ASSUME TypeInv, BaseInv, NLoops = 0, [Next]_vars, phase # "serve"
    PROVE  BaseInv'
<1> USE DEF acceptorVars, connVars, loopVars, mainVars
<1>1. /\ at \in [Conns -> States] /\ frame \in [Loops -> Frames] /\ 0 \in Loops
      /\ phase \in {"closing", "stopping", "stopped", "joining", "exited"}
      /\ loopAt[0] = "ended" /\ ~accepting /\ crash = "none"
      /\ \A l \in Loops : loopAt[l] = "ended" /\ (l # 0 => frame[l] = Idle)
      /\ \A c \in Conns : home[c] = 0 /\ at[c] \notin {"queued", "dropped"}
      /\ phase = "closing" => Open \subseteq pending
      /\ phase # "closing" => Open = {} /\ frame[0] = Idle
      /\ phase \in {"joining", "exited"} => Waiting = {}
  BY LoopsTyped DEF BaseInv, TypeInv, TypeOK, States
<1>2. /\ \A l \in Loops : loopAt'[l] = "ended"
      /\ ~accepting' /\ \A c \in Conns : home'[c] = 0
  BY <1>1, BaseLoops
<1>3. \A l \in Loops : ~Polls(l)
  BY <1>1 DEF Polls
\* Who is open is with closeAll(), or nobody is: none is lost.
<1>k. ASSUME NEW now \in [Conns -> States], Settle(0, now), pending' \subseteq pending,
             \A c \in Conns : now[c] = "open" => at[c] = "open" /\ (phase = "closing" => c \in pending')
      PROVE  at' = now /\ crash' = "none"
  <2>1. \A c \in Conns : now[c] = "open" => c \in pending'
    BY <1>1, <1>k DEF Open
  <2>2. QED  BY <1>1, <1>k, <2>1, SettleKeeps
\* A step that leaves phase and the connections, and only ends what it is in.
<1>s. ASSUME UNCHANGED <<phase, pending, at, crash>>, frame' = frame \/ frame' = [frame EXCEPT ![0] = Idle]
      PROVE  BaseInv'
  <2>1. \A l \in Loops : l # 0 => frame'[l] = Idle
    BY <1>1, <1>s
  <2>2. frame[0] = Idle => frame'[0] = Idle
    BY <1>1, <1>s
  <2>3. QED  BY <1>1, <1>2, <1>s, <2>1, <2>2 DEF BaseInv, Open, Waiting
<1>n. \A l \in Loops : frame[l][1] \in {"create", "close"} => l = 0 /\ phase = "closing"
  BY <1>1 DEF Idle
<1>o. pending' = pending => \A c \in Conns : at[c] = "open" => at[c] = "open" /\ (phase = "closing" => c \in pending')
  BY <1>1 DEF Open
<1>4. ASSUME NEW l \in Loops, CreateEnds(l) PROVE BaseInv'
  <2>1. l = 0
    BY <1>4, <1>n DEF CreateEnds
  <2>2. frame[0][2] \in Conns
    BY <1>1, <1>4, <2>1 DEF CreateEnds, Frames, Idle
  <2>3. frame' = [frame EXCEPT ![0] = Idle] /\ UNCHANGED <<phase, pending>> /\ Settle(0, at)
    BY <1>1, <1>4, <2>1, <2>2 DEF CreateEnds
  <2>4. at' = at /\ crash' = "none"
    BY <1>1, <1>k, <1>o, <2>3
  <2>5. QED  BY <1>1, <1>s, <2>3, <2>4
<1>5. ASSUME NEW l \in Loops, CloseEnds(l) PROVE BaseInv'
  <2>1. l = 0 /\ phase = "closing"
    BY <1>5, <1>n DEF CloseEnds
  <2>2. frame' = [frame EXCEPT ![0] = Idle] /\ UNCHANGED <<phase, pending>> /\ Settle(0, at)
    BY <1>5, <2>1 DEF CloseEnds, Destroyed
  <2>3. at' = at /\ crash' = "none"
    BY <1>1, <1>k, <1>o, <2>2
  <2>4. QED  BY <1>1, <1>s, <2>2, <2>3
<1>6. ASSUME NEW c \in Conns, CloseOne(c) PROVE BaseInv'
  <2>1. phase = "closing" /\ phase' = "closing" /\ pending' = pending \ {c} /\ home[c] = 0
    BY <1>1, <1>6 DEF CloseOne
  <2>2. CASE at[c] = "open"
    <3>1. /\ frame' = [frame EXCEPT ![0] = <<"close", c>>] /\ at' = [at EXCEPT ![c] = "closed"]
          /\ crash' = crash
      BY <1>6, <2>1, <2>2 DEF CloseOne, CloseFd
    <3>2. at'[c] = "closed" /\ \A d \in Conns : d # c => at'[d] = at[d]
      BY <1>1, <3>1
    <3>3. Open' \subseteq pending'
      BY <1>1, <2>1, <3>2 DEF Open
    <3>4. \A l \in Loops : l # 0 => frame'[l] = Idle
      BY <1>1, <3>1
    <3>5. \A d \in Conns : at'[d] \notin {"queued", "dropped"}
      BY <1>1, <3>2
    <3>6. QED  BY <1>1, <1>2, <2>1, <3>1, <3>3, <3>4, <3>5 DEF BaseInv
  <2>3. CASE at[c] # "open"
    <3>1. UNCHANGED frame /\ Settle(0, at)
      BY <1>6, <2>1, <2>3 DEF CloseOne
    <3>2. \A d \in Conns : at[d] = "open" => d \in pending'
      BY <1>1, <2>1, <2>3 DEF Open
    <3>3. at' = at /\ crash' = "none"
      BY <1>1, <1>k, <2>1, <3>1, <3>2
    <3>4. QED  BY <1>1, <1>2, <2>1, <3>1, <3>2, <3>3 DEF BaseInv, Open
  <2>4. QED  BY <2>2, <2>3
<1>7. CASE StopPool
  <2>1. /\ phase = "closing" /\ pending = {} /\ frame[0] = Idle /\ phase' = "stopping"
        /\ UNCHANGED <<at, frame, crash>>
    BY <1>7 DEF StopPool
  <2>2. Open' = {}
    BY <1>1, <2>1 DEF Open
  <2>3. QED  BY <1>1, <1>2, <2>1, <2>2 DEF BaseInv
<1>8. CASE PoolStopped
  <2>1. phase = "stopping" /\ phase' = "stopped" /\ UNCHANGED <<at, frame, crash>>
    BY <1>8 DEF PoolStopped
  <2>2. QED  BY <1>1, <1>2, <2>1 DEF BaseInv, Open
<1>9. CASE Destroy
  <2>1. PICK now \in [Conns -> States] :
           now = [c \in Conns |-> IF c \in Waiting THEN "rejected" ELSE at[c]]
    BY <1>1 DEF States
  <2>2. \A c \in Conns : /\ now[c] \in {at[c], "rejected"} /\ now[c] # "waiting"
                         /\ now[c] = "open" => at[c] = "open"
    BY <2>1 DEF Waiting
  <2>3. /\ phase = "stopped" /\ phase' = "joining" /\ UNCHANGED <<pending, frame>>
        /\ Settle(0, now)
    BY <1>9, <2>1 DEF Destroy
  <2>4. at' = now /\ crash' = "none"
    BY <1>k, <2>2, <2>3
  <2>5. Open' = {} /\ Waiting' = {} /\ \A c \in Conns : at'[c] \notin {"queued", "dropped"}
    BY <1>1, <2>2, <2>3, <2>4 DEF Open, Waiting
  <2>6. QED  BY <1>1, <1>2, <2>3, <2>4, <2>5 DEF BaseInv
<1>10. CASE Exit
  <2>1. /\ phase = "joining" /\ phase' = "exited" /\ UNCHANGED <<pending, frame>>
        /\ Settle(0, at)
    BY <1>10 DEF Exit
  <2>2. at' = at /\ crash' = "none"
    BY <1>1, <1>k, <2>1
  <2>3. QED  BY <1>1, <1>2, <2>1, <2>2 DEF BaseInv, Open, Waiting
<1>11. ASSUME NEW c \in Conns, WorkerRuns(c) PROVE BaseInv'
  BY <1>11, <1>s DEF WorkerRuns
<1>12. ASSUME NEW c \in Conns, WorkerForgets(c) PROVE BaseInv'
  <2>1. Settle(NLoops + 1, at) /\ UNCHANGED <<phase, pending, frame>>
    BY <1>12 DEF WorkerForgets
  <2>2. \A d \in Conns : at[d] = "open" => d \in pending'
    BY <1>1, <2>1 DEF Open
  <2>3. at' = at /\ crash' = crash
    BY <1>1, <2>1, <2>2, SettleKeeps
  <2>4. QED  BY <1>s, <2>1, <2>3
<1>13. CASE UNCHANGED vars
  BY <1>13, <1>s DEF vars
<1>14. ~(AcceptBegins \/ Accept \/ Reject \/ Drained \/ AcceptFails \/ QuitTimer \/ CloseAll
         \/ Connect \/ Signal)
  BY <1>1, <1>3 DEF AcceptBegins, Accept, Reject, MayAccept, Drained, AcceptFails, AcceptEnds,
                    QuitTimer, CloseAll, Collect, Connect, Signal
<1>15. \A l \in Loops : ~(QuitLoop(l) \/ Swap(l) \/ RunTask(l) \/ BatchDone(l))
  BY <1>1, <1>3 DEF QuitLoop, Swap, RunTask, BatchDone, LeaveBatch
<1>16. \A l \in Loops, c \in Conns : ~(Close(l, c) \/ Request(l, c))
  BY <1>3 DEF Close, Request
<1>17. QED
  BY <1>4, <1>5, <1>6, <1>7, <1>8, <1>9, <1>10, <1>11, <1>12, <1>13, <1>14, <1>15, <1>16
  DEF Next, Main, Clients, Round

\* Each open connection has an entry of its own in the registry.
LEMMA OpenAreOnline ==
    ASSUME TypeInv, ServeInv, phase = "serve"
    PROVE  /\ IsFiniteSet(Open) /\ Cardinality(Open) \in Nat
           /\ Online \in Nat /\ Cardinality(Open) <= Online
<1> DEFINE R == {f \in Fds : registry[f] # Nobody}
           g == [c \in Open |-> fd[c]]
<1>1. IsFiniteSet(Fds)
  BY ServerAssumption, FS_Interval DEF Fds
<1>2. IsFiniteSet(R)
  BY <1>1, FS_Subset
<1>3. \A c \in Open : c \in Used /\ fd[c] \in Fds /\ registry[fd[c]] = c /\ c # Nobody
  BY DEF Open, Used, ServeInv, RegistryAgrees, Conns, Nobody
<1>4. g \in Injection(Open, R)
  <2>1. \A c \in Open : fd[c] \in R
    BY <1>3
  <2>2. \A c, d \in Open : fd[c] = fd[d] => c = d
    BY <1>3
  <2>3. g \in [Open -> R] /\ \A c, d \in Open : g[c] = g[d] => c = d
    BY <2>1, <2>2
  <2> HIDE DEF g, R
  <2>4. QED  BY <2>3 DEF Injection, IsInjective
<1>5. IsFiniteSet(Open) /\ Cardinality(Open) <= Cardinality(R)
  BY <1>2, <1>4, FS_Injection
<1>6. QED  BY <1>2, <1>5, FS_CardinalityType DEF Online

LEMMA LimitStep ==
    ASSUME TypeInv, BaseInv, phase = "serve" => ServeInv, NLoops = 0, Limit > 0,
           Cardinality(Open) <= Limit, [Next]_vars
    PROVE  Cardinality(Open') <= Limit
<1>1. Limit \in Nat
  BY ServerAssumption DEF TypeInv, TypeOK
<1>2. IsFiniteSet(Conns)
  BY ServerAssumption, FS_Interval DEF Conns
<1>3. IsFiniteSet(Open) /\ Cardinality(Open) \in Nat
  <2>1. Open \in SUBSET Conns
    BY DEF Open
  <2>2. QED  BY <1>2, <2>1, FS_Subset, FS_CardinalityType
<1>4. \A l \in Loops : ~Creating(l)
  <2> SUFFICES ASSUME NEW l \in Loops, Creating(l) PROVE FALSE
    OBVIOUS
  <2>1. l = 0 /\ phase = "serve" /\ ServeInv
    BY DEF Creating, RunTask, BaseInv
  <2>2. Head(batch[l])[2] \in Creates(l) /\ Creates(l) \subseteq Conns
    BY RunsHead, CreatesTyped DEF Creating, Creates
  <2>3. QED  BY <2>1, <2>2 DEF ServeInv, BaseInv
<1>5. CASE Accept
  <2>1. phase = "serve" /\ ServeInv /\ Waiting # {} /\ ~(Online >= Limit)
    BY <1>5 DEF Accept, MayAccept, Turned, BaseInv
  <2>2. Cardinality(Open) + 1 <= Limit
    BY <1>1, <2>1, OpenAreOnline
  <2>3. Open' \in SUBSET (Open \cup {NewConn})
    <3>1. NextLoop = 0 /\ Settle(0, [at EXCEPT ![NewConn] = "open"])
      BY <1>5 DEF Accept, NextLoop
    <3>2. at \in [Conns -> States]
      BY DEF TypeInv, TypeOK, States
    <3>3. PICK now \in [Conns -> States] : now = [at EXCEPT ![NewConn] = "open"]
      BY <3>2 DEF States
    <3>4. \A c \in Conns : at'[c] \in {now[c], "dropped"}
      BY <3>1, <3>3, SettleBecomes
    <3>5. \A c \in Conns : c # NewConn => now[c] = at[c]
      BY <3>2, <3>3
    <3>6. QED  BY <3>4, <3>5 DEF Open
  <2>4. IsFiniteSet(Open \cup {NewConn}) /\ Cardinality(Open \cup {NewConn}) <= Cardinality(Open) + 1
        /\ Cardinality(Open \cup {NewConn}) \in Nat
    BY <1>3, FS_AddElement, FS_CardinalityType
  <2>5. IsFiniteSet(Open') /\ Cardinality(Open') <= Cardinality(Open \cup {NewConn})
    BY <2>3, <2>4, FS_Subset
  <2>6. Cardinality(Open') \in Nat
    BY <2>5, FS_CardinalityType
  <2>7. QED  BY <1>1, <1>3, <2>2, <2>4, <2>5, <2>6
<1>6. CASE ~Accept
  <2>1. Open' \in SUBSET Open
    BY <1>4, <1>6, Becomes DEF Open
  <2>2. IsFiniteSet(Open') /\ Cardinality(Open') <= Cardinality(Open)
    BY <1>3, <2>1, FS_Subset
  <2>3. Cardinality(Open') \in Nat
    BY <2>2, FS_CardinalityType
  <2>4. QED  BY <1>1, <1>3, <2>2, <2>3
<1>7. QED  BY <1>5, <1>6

-----------------------------------------------------------------------------
(* The invariant.                                                          *)

LEMMA InitInv == Init => ServerInv
<1> SUFFICES ASSUME Init PROVE ServerInv
  OBVIOUS
<1>1. TypeInv /\ ServeInv
  BY TypeInit, ServeInit
<1>2. {c \in Conns : at[c] = "open"} = {}
  BY DEF Init
<1>3. Admission
  <2>1. Limit \in Nat
    BY <1>1, ServerAssumption DEF TypeInv, TypeOK
  <2>2. OnlineLimit
    BY <1>2, <2>1, FS_EmptySet DEF OnlineLimit
  <2>3. NobodyForgotten
    BY DEF Init, NobodyForgotten, Waiting
  <2>4. QED  BY <2>2, <2>3 DEF Admission
<1>4. NLoops = 0 => BaseInv
  BY DEF Init, BaseInv
<1>5. QED  BY <1>1, <1>3, <1>4 DEF ServerInv

LEMMA InvStep == ServerInv /\ [Next]_vars => ServerInv'
<1> SUFFICES ASSUME ServerInv, [Next]_vars PROVE ServerInv'
  OBVIOUS
<1>1. TypeInv /\ TypeInv' /\ UNCHANGED <<NLoops, Limit>>
  BY TypeStep, ParametersStay DEF ServerInv
<1>2. phase' = "serve" => phase = "serve"
  BY <1>1, Becomes
<1>3. NLoops <= 1 /\ phase' = "serve" => ServeInv /\ ServeInv'
  BY <1>1, <1>2, ServeStep DEF ServerInv
<1>4. ASSUME NLoops = 0 PROVE BaseInv'
  <2>1. BaseInv /\ (phase = "serve" => ServeInv)
    BY <1>4 DEF ServerInv
  <2>2. CASE phase' = "serve"
    BY <1>1, <1>3, <1>4, <2>1, <2>2, BaseServes
  <2>3. CASE phase = "serve" /\ phase' # "serve"
    <3>1. CloseAll
      BY <1>1, <2>3, PhaseLeavesServe
    <3>2. QED  BY <1>1, <1>4, <2>1, <2>3, <3>1, BaseCollects
  <2>4. CASE phase # "serve"
    BY <1>1, <1>4, <2>1, <2>4, BaseCloses
  <2>5. QED  BY <2>2, <2>3, <2>4
<1>5. Admission'
  <2>1. NobodyForgotten'
    BY <1>1, ForgottenStep DEF ServerInv, Admission
  <2>2. OnlineLimit'
    <3> SUFFICES ASSUME NLoops = 0, Limit > 0 PROVE Cardinality(Open') <= Limit
      BY <1>1 DEF OnlineLimit, Open
    <3>1. Cardinality(Open) <= Limit /\ BaseInv /\ (phase = "serve" => ServeInv)
      BY DEF ServerInv, Admission, OnlineLimit, Open
    <3>2. QED  BY <1>1, <3>1, LimitStep
  <2>3. QED  BY <2>1, <2>2 DEF Admission
<1>6. QED  BY <1>1, <1>3, <1>4, <1>5 DEF ServerInv

THEOREM Invariance == Spec => []ServerInv
BY InitInv, InvStep, PTL DEF Spec

\* Up to one IO loop the threads, the descriptors and the registry agree about who
\* owns which connection, and while the server serves no connection is touched from
\* another thread than its loop's (the accept, connection and close callbacks).
THEOREM OwnersAreKnown == Spec => [](NLoops <= 1 => OwnersAgree)
<1>1. ServerInv => (NLoops <= 1 => OwnersAgree)
  <2> SUFFICES ASSUME ServerInv, NLoops <= 1 PROVE OwnersAgree
    OBVIOUS
  <2>1. TypeOK
    BY DEF ServerInv, TypeInv
  <2>2. RegistryAgrees
    BY DEF ServerInv, ServeInv, RegistryAgrees
  <2>3. OneLoopOwns
    BY DEF ServerInv, ServeInv, OneLoopOwns
  <2>4. QED  BY <2>1, <2>2, <2>3 DEF OwnersAgree
<1>2. QED  BY <1>1, Invariance, PTL

\* With any number of IO loops the backlog is not forgotten, and with none no more
\* connections are open than -m allows (Acceptor::handleRead(), the accept callback).
THEOREM ClientsAreAdmitted == Spec => []Admission
<1>1. ServerInv => Admission
  BY DEF ServerInv
<1>2. QED  BY <1>1, Invariance, PTL

\* With -t 0 nothing aborts or terminates the server, nothing uses what main() has
\* destroyed, and at its end every connection was closed by its loop (closeAll(), and
\* the order of main()'s last steps).
THEOREM ExitsCleanly == Spec => []CleanExit
<1>1. ServerInv => CleanExit
  <2> SUFFICES ASSUME TypeInv, BaseInv PROVE CleanExit
    BY DEF ServerInv, CleanExit
  <2>1. phase = "exited" => \A c \in Conns : at[c] \notin {"waiting", "queued", "open", "dropped"}
    BY DEF BaseInv, Open, Waiting
  <2>2. \A c \in Conns : at[c] \in States
    BY DEF TypeInv, TypeOK, States
  <2>3. QED  BY <2>1, <2>2 DEF CleanExit, BaseInv, States
<1>2. QED  BY <1>1, Invariance, PTL
=============================================================================
