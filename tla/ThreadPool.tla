----------------------------- MODULE ThreadPool -----------------------------
(***************************************************************************)
(* The worker pool (src/thread/ThreadPool.cpp): IO threads submit tasks,   *)
(* workers take them first in first out, and the owner starts the pool and *)
(* stops it.                                                               *)
(*                                                                         *)
(* A step is one critical section of mutex_, or one call on cv_ or on a    *)
(* thread made outside of it.  A worker that waits is in the wait set of   *)
(* cv_; it may wake up on its own, as condition variables do.              *)
(*                                                                         *)
(* A definition named X_Y is X with a mistake in it: put in the place of X  *)
(* it must break the property that guards against the mistake.             *)
(***************************************************************************)
EXTENDS Naturals, Sequences, FiniteSets

CONSTANTS
    Workers,    \* the threads of the pool
    Submitters, \* the IO threads
    MaxSubmits, \* bound: tasks one IO thread submits
    MaxStarts   \* bound: how often the owner starts the pool

\* main() submits only to a pool that has threads.
ASSUME WorkersAssumption == IsFiniteSet(Workers) /\ Workers # {}
ASSUME SubmittersAssumption == IsFiniteSet(Submitters)
ASSUME BoundsAssumption == MaxSubmits \in Nat /\ MaxStarts \in Nat

VARIABLES
    running, \* running_
    tasks,   \* tasks_
    worker,  \* each worker: "none" (no thread), "awake" (about to look at the
             \* queue), "waiting" (on cv_), "busy" (in a task) or "exited"
    submit,  \* each IO thread: "idle", "notify" (has pushed) or "threw"
    submits, \* how many submissions each IO thread has begun
    phase,   \* the owner: "off", "on", "stopping" (has cleared running_) or
             \* "joining" (has notified everybody)
    starts,  \* how often it has started the pool
    submitted, \* history: the tasks that were accepted, in order
    begun      \* history: the tasks begun, in order

queueVars == <<tasks, submitted, begun>>
submitVars == <<submit, submits>>
ownerVars == <<phase, starts>>
poolVars == <<running, worker, queueVars, submitVars, ownerVars>>

Submission == Submitters \X (0..MaxSubmits)

In(state) == {w \in Workers : worker[w] = state}

PoolInit ==
    /\ running = FALSE
    /\ tasks = <<>> /\ submitted = <<>> /\ begun = <<>>
    /\ worker = [w \in Workers |-> "none"]
    /\ submit = [s \in Submitters |-> "idle"]
    /\ submits = [s \in Submitters |-> 0]
    /\ phase = "off" /\ starts = 0

-----------------------------------------------------------------------------
(* submit().                                                               *)

Push(s) ==
    /\ submit[s] = "idle" /\ submits[s] < MaxSubmits
    /\ running
    /\ tasks' = Append(tasks, <<s, submits[s]>>)
    /\ submitted' = Append(submitted, <<s, submits[s]>>)
    /\ submit' = [submit EXCEPT ![s] = "notify"]
    /\ submits' = [submits EXCEPT ![s] = @ + 1]
    /\ UNCHANGED <<running, worker, begun, ownerVars>>

\* A pool that is not running throws.
Refuse(s) ==
    /\ submit[s] = "idle" /\ submits[s] < MaxSubmits
    /\ ~running
    /\ submit' = [submit EXCEPT ![s] = "threw"]
    /\ submits' = [submits EXCEPT ![s] = @ + 1]
    /\ UNCHANGED <<running, worker, queueVars, ownerVars>>

\* The caller deals with the exception.
Caught(s) ==
    /\ submit[s] = "threw"
    /\ submit' = [submit EXCEPT ![s] = "idle"]
    /\ UNCHANGED <<running, worker, queueVars, submits, ownerVars>>

NotifyOne_OnlyIfFirst(s) ==
    /\ submit[s] = "notify"
    /\ submit' = [submit EXCEPT ![s] = "idle"]
    /\ IF In("waiting") = {} \/ Len(tasks) > 1
       THEN UNCHANGED worker
       ELSE \E w \in In("waiting") : worker' = [worker EXCEPT ![w] = "awake"]
    /\ UNCHANGED <<running, queueVars, submits, ownerVars>>

\* notify_one() wakes one of the waiting workers, if there is one.
NotifyOne(s) ==
    /\ submit[s] = "notify"
    /\ submit' = [submit EXCEPT ![s] = "idle"]
    /\ IF In("waiting") = {}
       THEN UNCHANGED worker
       ELSE \E w \in In("waiting") : worker' = [worker EXCEPT ![w] = "awake"]
    /\ UNCHANGED <<running, queueVars, submits, ownerVars>>

-----------------------------------------------------------------------------
(* workerLoop().                                                           *)

TakeTask_Copies(w) ==
    /\ worker[w] = "awake"
    /\ tasks # <<>>
    /\ begun' = Append(begun, Head(tasks))
    /\ worker' = [worker EXCEPT ![w] = "busy"]
    /\ UNCHANGED <<running, tasks, submitted, submitVars, ownerVars>>

\* Under the mutex: take the first task ...
TakeTask(w) ==
    /\ worker[w] = "awake"
    /\ tasks # <<>>
    /\ begun' = Append(begun, Head(tasks))
    /\ tasks' = Tail(tasks)
    /\ worker' = [worker EXCEPT ![w] = "busy"]
    /\ UNCHANGED <<running, submitted, submitVars, ownerVars>>

\* ... or wait for one ...
Sleep(w) ==
    /\ worker[w] = "awake"
    /\ tasks = <<>> /\ running
    /\ worker' = [worker EXCEPT ![w] = "waiting"]
    /\ UNCHANGED <<running, queueVars, submitVars, ownerVars>>

Exit_LeavesTasks(w) ==
    /\ worker[w] = "awake"
    /\ ~running
    /\ worker' = [worker EXCEPT ![w] = "exited"]
    /\ UNCHANGED <<running, queueVars, submitVars, ownerVars>>

\* ... or leave: the pool is stopped and nothing is left.
Exit(w) ==
    /\ worker[w] = "awake"
    /\ tasks = <<>> /\ ~running
    /\ worker' = [worker EXCEPT ![w] = "exited"]
    /\ UNCHANGED <<running, queueVars, submitVars, ownerVars>>

TaskReturns_KillsWorker(w) ==
    /\ worker[w] = "busy"
    /\ worker' = [worker EXCEPT ![w] = "exited"]
    /\ UNCHANGED <<running, queueVars, submitVars, ownerVars>>

\* The task returns, or throws, which is caught.
TaskReturns(w) ==
    /\ worker[w] = "busy"
    /\ worker' = [worker EXCEPT ![w] = "awake"]
    /\ UNCHANGED <<running, queueVars, submitVars, ownerVars>>

SpuriousWakeup(w) ==
    /\ worker[w] = "waiting"
    /\ worker' = [worker EXCEPT ![w] = "awake"]
    /\ UNCHANGED <<running, queueVars, submitVars, ownerVars>>

-----------------------------------------------------------------------------
(* The owner: main().                                                      *)

Start ==
    /\ phase = "off" /\ starts < MaxStarts
    /\ running' = TRUE
    /\ worker' = [w \in Workers |-> "awake"]
    /\ phase' = "on" /\ starts' = starts + 1
    /\ UNCHANGED <<queueVars, submitVars>>

\* stop(): clear the flag under the mutex ...
Stop ==
    /\ phase = "on"
    /\ running' = FALSE
    /\ phase' = "stopping"
    /\ UNCHANGED <<worker, queueVars, submitVars, starts>>

NotifyAll_WakesOne ==
    /\ phase = "stopping"
    /\ IF In("waiting") = {}
       THEN UNCHANGED worker
       ELSE \E w \in In("waiting") : worker' = [worker EXCEPT ![w] = "awake"]
    /\ phase' = "joining"
    /\ UNCHANGED <<running, queueVars, submitVars, starts>>

\* ... wake everybody ...
NotifyAll ==
    /\ phase = "stopping"
    /\ worker' = [w \in Workers |-> IF worker[w] = "waiting" THEN "awake" ELSE worker[w]]
    /\ phase' = "joining"
    /\ UNCHANGED <<running, queueVars, submitVars, starts>>

\* ... and join them all.
JoinWorkers ==
    /\ phase = "joining"
    /\ In("exited") = Workers
    /\ worker' = [w \in Workers |-> "none"]
    /\ phase' = "off"
    /\ UNCHANGED <<running, queueVars, submitVars, starts>>

-----------------------------------------------------------------------------
Submit(s) == Push(s) \/ Refuse(s) \/ NotifyOne(s) \/ Caught(s)

workerLoop(w) == TakeTask(w) \/ Sleep(w) \/ Exit(w) \/ TaskReturns(w)

PoolNext ==
    \/ \E s \in Submitters : Submit(s)
    \/ \E w \in Workers : workerLoop(w) \/ SpuriousWakeup(w)
    \/ Start \/ Stop \/ NotifyAll \/ JoinWorkers

PoolSpec == PoolInit /\ [][PoolNext]_poolVars

\* Threads that can run do, and the work of a task ends; nobody has to submit
\* or to stop.
FairPoolSpec ==
    /\ PoolSpec
    /\ \A s \in Submitters : WF_poolVars(NotifyOne(s))
    /\ \A w \in Workers : WF_poolVars(workerLoop(w))
    /\ WF_poolVars(NotifyAll \/ JoinWorkers)

-----------------------------------------------------------------------------
(* Properties.                                                             *)

PoolTypeOK ==
    /\ running \in BOOLEAN
    /\ tasks \in Seq(Submission) /\ submitted \in Seq(Submission) /\ begun \in Seq(Submission)
    /\ worker \in [Workers -> {"none", "awake", "waiting", "busy", "exited"}]
    /\ submit \in [Submitters -> {"idle", "notify", "threw"}]
    /\ submits \in [Submitters -> Nat]
    /\ phase \in {"off", "on", "stopping", "joining"} /\ starts \in Nat
    /\ running <=> phase = "on"
    /\ phase = "off" <=> In("none") = Workers
    /\ phase # "off" => In("none") = {}

Notifying == {s \in Submitters : submit[s] = "notify"}

\* No wakeup is lost and no two tasks share one: while a worker sleeps, every
\* queued task has a worker on its way to the queue or a notify_one() to come.
EnoughAwake ==
    In("waiting") # {} => Len(tasks) <= Cardinality(In("awake")) + Cardinality(Notifying)

\* A worker asleep in a stopped pool is about to be woken (stop()).
NobodyMissesStop == In("waiting") # {} => phase \in {"on", "stopping"}

\* "The tasks left in the queue are still run before the exit": no worker leaves
\* while one is queued, so a stopped pool has run them all (stop()).
DrainedOnExit ==
    (In("exited") # {} \/ phase = "off") => tasks = <<>> /\ ~running

\* In every interleaving a sleeping worker is one nobody needs: queued tasks and
\* stop() have their workers awake or about to be woken (submit(), stop()).
SleepersAreSpare == PoolTypeOK /\ EnoughAwake /\ NobodyMissesStop

\* A task that is accepted is run.
AcceptedIsRun ==
    \A n \in 1..(Cardinality(Submitters) * MaxSubmits) :
        Len(submitted) >= n ~> Len(begun) >= n

\* stop() returns: every worker it joins exits.
StopReturns == phase = "stopping" ~> phase = "off"

\* The pool is a mailbox, as the event loop's queue is.
PoolBox == INSTANCE Mailbox WITH Task <- Submission, posted <- submitted, ran <- begun
PoolImplementsMailbox == PoolBox!Spec
=============================================================================
