------------------------------ MODULE EventLoop ------------------------------
(***************************************************************************)
(* The reactor loop and its cross-thread mailbox (src/net/EventLoop.cpp):  *)
(* loop(), quit(), queueInLoop(), wakeup(), handleWakeup() and             *)
(* doPendingFunctors().                                                    *)
(*                                                                         *)
(* `Producers' are the other threads.  Each access to state that two       *)
(* threads share (quit_, the queue under mutex_, the eventfd) is one step, *)
(* so they interleave as the code lets them.  `at' is the place in loop()  *)
(* the loop thread has reached.                                            *)
(*                                                                         *)
(* A definition named X_Y is X with a mistake in it: put in the place of X  *)
(* it must break the property that guards against the mistake.             *)
(***************************************************************************)
EXTENDS Naturals, Sequences, FiniteSets

CONSTANTS
    Producers, \* the threads that post tasks and call quit()
    MaxPosts,  \* bound: tasks one producer posts
    MaxSelf,   \* bound: tasks queued by code that runs on the loop thread
    TimerOn    \* whether a repeating timer bounds every epoll_wait()

ASSUME PostsAssumption == MaxPosts \in Nat /\ MaxSelf \in Nat
ASSUME TimerOnAssumption == TimerOn \in BOOLEAN

VARIABLES
    at,       \* where the loop thread is
    quit,     \* quit_
    pending,  \* pendingFunctors_
    functors, \* the batch doPendingFunctors() has swapped out, what is left of it
    counter,  \* the eventfd's counter is not zero
    edge,     \* the eventfd is on epoll's ready list
    io,       \* another channel is ready
    handling, \* the ready channels dispatch() still has to handle
    pc,       \* each producer: "idle"; "wake" or "quit" between its store and its
              \* wakeup(); "over" after quit(), which a thread calls last and once
    posts,    \* how many tasks each producer has posted
    selfPosts,\* how many the loop thread has
    posted,   \* history: all tasks posted, in the order of the pushes
    ran       \* history: all tasks begun, in order

fdVars   == <<counter, edge>>
taskVars == <<pending, functors, posted, ran>>
userVars == <<pc, posts, selfPosts>>
vars == <<at, quit, io, handling, fdVars, taskVars, userVars>>

Self == "loop"
Task == (Producers \X (0..MaxPosts)) \cup ({Self} \X (0..MaxSelf))

\* Frames in which code of the application runs on the loop thread.
InHandler == at = "dispatch" /\ "io" \in handling
InTimer   == at = "timers"
InFunctor == at = "functor"

callingPendingFunctors_Never == FALSE

\* callingPendingFunctors_, as the loop thread itself reads it.
callingPendingFunctors == at \in {"run", "functor"}

Init ==
    /\ at = "new"
    /\ quit = FALSE
    /\ pending = <<>> /\ functors = <<>>
    /\ counter = FALSE /\ edge = FALSE
    /\ io = FALSE /\ handling = {}
    /\ pc = [p \in Producers |-> "idle"]
    /\ posts = [p \in Producers |-> 0]
    /\ selfPosts = 0
    /\ posted = <<>> /\ ran = <<>>

-----------------------------------------------------------------------------
(* Calls from other threads.                                               *)

\* write() to the eventfd: each write is an edge, whatever the counter was.
wakeup == counter' = TRUE /\ edge' = TRUE

Enqueue(t) ==
    /\ pending' = Append(pending, t)
    /\ posted' = Append(posted, t)
    /\ UNCHANGED <<functors, ran>>

QueueInLoop_Silent(p) ==
    /\ pc[p] = "idle" /\ posts[p] < MaxPosts
    /\ Enqueue(<<p, posts[p]>>)
    /\ posts' = [posts EXCEPT ![p] = @ + 1]
    /\ UNCHANGED <<at, quit, io, handling, fdVars, pc, selfPosts>>

\* queueInLoop(): push under the mutex ...
QueueInLoop(p) ==
    /\ pc[p] = "idle" /\ posts[p] < MaxPosts
    /\ Enqueue(<<p, posts[p]>>)
    /\ posts' = [posts EXCEPT ![p] = @ + 1]
    /\ pc' = [pc EXCEPT ![p] = "wake"]
    /\ UNCHANGED <<at, quit, io, handling, fdVars, selfPosts>>

\* quit(): set the flag ...
Quit(p) ==
    /\ pc[p] = "idle"
    /\ quit' = TRUE
    /\ pc' = [pc EXCEPT ![p] = "quit"]
    /\ UNCHANGED <<at, io, handling, fdVars, taskVars, posts, selfPosts>>

\* ... then wake the loop up, in both.
Wake(p) ==
    /\ pc[p] \in {"wake", "quit"}
    /\ wakeup
    /\ pc' = [pc EXCEPT ![p] = IF @ = "wake" THEN "idle" ELSE "over"]
    /\ UNCHANGED <<at, quit, io, handling, taskVars, posts, selfPosts>>

-----------------------------------------------------------------------------
(* Calls made on the loop thread.                                          *)

\* queueInLoop() from a task wakes the next round up; from a handler or a
\* timer it need not, tasks run later in the same round.
QueueFromLoop ==
    /\ InHandler \/ InTimer \/ InFunctor
    /\ selfPosts < MaxSelf
    /\ Enqueue(<<Self, selfPosts>>)
    /\ selfPosts' = selfPosts + 1
    /\ IF callingPendingFunctors THEN wakeup ELSE UNCHANGED fdVars
    /\ UNCHANGED <<at, quit, io, handling, pc, posts>>

\* quit() from a handler, a timer or a task: the flag is read at the next round.
QuitFromLoop ==
    /\ InHandler \/ InTimer \/ InFunctor
    /\ quit' = TRUE
    /\ UNCHANGED <<at, io, handling, fdVars, taskVars, userVars>>

-----------------------------------------------------------------------------
(* loop().                                                                 *)

\* Entering loop() clears quit_.
Enter ==
    /\ at = "new"
    /\ quit' = FALSE
    /\ at' = "head"
    /\ UNCHANGED <<io, handling, fdVars, taskVars, userVars>>

Round_NeverEnds ==
    /\ at = "head"
    /\ at' = "wait"
    /\ UNCHANGED <<quit, io, handling, fdVars, taskVars, userVars>>

Round ==
    /\ at = "head"
    /\ at' = IF quit THEN "done" ELSE "wait"
    /\ UNCHANGED <<quit, io, handling, fdVars, taskVars, userVars>>

\* epoll_wait() returns what is ready, or nothing when a timer is due.  The
\* eventfd is edge-triggered: reported or not, it leaves the ready list.
Wait ==
    LET ready == (IF edge /\ counter THEN {"wakeup"} ELSE {}) \cup
                 (IF io THEN {"io"} ELSE {})
    IN  /\ at = "wait"
        /\ ready # {} \/ TimerOn
        /\ handling' = ready
        /\ edge' = FALSE
        /\ io' = FALSE
        /\ at' = "dispatch"
        /\ UNCHANGED <<quit, counter, taskVars, userVars>>

\* handleWakeup(): one read(), which takes the whole counter ...
ReadWakeup ==
    /\ at = "dispatch" /\ "wakeup" \in handling
    /\ counter
    /\ counter' = FALSE
    /\ UNCHANGED <<at, quit, edge, io, handling, taskVars, userVars>>

\* ... until one fails with EAGAIN.
WakeupDrained ==
    /\ at = "dispatch" /\ "wakeup" \in handling
    /\ ~counter
    /\ handling' = handling \ {"wakeup"}
    /\ UNCHANGED <<at, quit, io, fdVars, taskVars, userVars>>

\* The handler of another channel returns.
HandlerReturns ==
    /\ InHandler
    /\ handling' = handling \ {"io"}
    /\ UNCHANGED <<at, quit, io, fdVars, taskVars, userVars>>

TimersRun ==
    /\ at = "dispatch" /\ handling = {}
    /\ at' = "timers"
    /\ UNCHANGED <<quit, io, handling, fdVars, taskVars, userVars>>

Swap_Copies ==
    /\ at = "timers"
    /\ functors' = pending
    /\ at' = "run"
    /\ UNCHANGED <<quit, io, handling, fdVars, pending, posted, ran, userVars>>

\* doPendingFunctors(): swap the queue out under the mutex ...
Swap ==
    /\ at = "timers"
    /\ functors' = pending
    /\ pending' = <<>>
    /\ at' = "run"
    /\ UNCHANGED <<quit, io, handling, fdVars, posted, ran, userVars>>

\* ... and run the batch without it.
RunFunctor ==
    /\ at = "run" /\ functors # <<>>
    /\ ran' = Append(ran, Head(functors))
    /\ functors' = Tail(functors)
    /\ at' = "functor"
    /\ UNCHANGED <<quit, io, handling, fdVars, pending, posted, userVars>>

FunctorReturns ==
    /\ at = "functor"
    /\ at' = "run"
    /\ UNCHANGED <<quit, io, handling, fdVars, taskVars, userVars>>

BatchDone ==
    /\ at = "run" /\ functors = <<>>
    /\ at' = "head"
    /\ UNCHANGED <<quit, io, handling, fdVars, taskVars, userVars>>

-----------------------------------------------------------------------------
\* Another file descriptor becomes ready.
IoReady ==
    /\ ~io /\ at # "done"
    /\ io' = TRUE
    /\ UNCHANGED <<at, quit, handling, fdVars, taskVars, userVars>>

LoopThread == \/ Enter \/ Round \/ Wait \/ ReadWakeup \/ WakeupDrained
              \/ HandlerReturns \/ TimersRun \/ Swap \/ RunFunctor
              \/ FunctorReturns \/ BatchDone

Producer(p) == QueueInLoop(p) \/ Quit(p) \/ Wake(p)

Next == \/ LoopThread \/ QueueFromLoop \/ QuitFromLoop \/ IoReady
        \/ \E p \in Producers : Producer(p)

Spec == Init /\ [][Next]_vars

\* Every thread that can run does; nobody has to call anything.
FairSpec ==
    /\ Spec
    /\ WF_vars(LoopThread)
    /\ \A p \in Producers : WF_vars(Wake(p))

-----------------------------------------------------------------------------
(* Properties.                                                             *)

TypeOK ==
    /\ at \in {"new", "head", "wait", "dispatch", "timers", "run", "functor", "done"}
    /\ quit \in BOOLEAN /\ counter \in BOOLEAN /\ edge \in BOOLEAN /\ io \in BOOLEAN
    /\ handling \subseteq {"wakeup", "io"}
    /\ pc \in [Producers -> {"idle", "wake", "quit", "over"}]
    /\ posts \in [Producers -> Nat] /\ selfPosts \in Nat
    /\ pending \in Seq(Task) /\ functors \in Seq(Task)
    /\ posted \in Seq(Task) /\ ran \in Seq(Task)
    /\ handling # {} => at = "dispatch"
    /\ functors # <<>> => at \in {"run", "functor"}

\* No task is lost, run twice or overtaken: what was posted is what has run,
\* then the rest of the batch, then the queue (the swap in doPendingFunctors()).
TasksInOrder == posted = ran \o functors \o pending

Signalled == (counter /\ edge) \/ \E p \in Producers : pc[p] \in {"wake", "quit"}

\* The loop never blocks over a task: if it is at epoll_wait() and the queue is
\* not empty, a wakeup is there or on its way (queueInLoop()).
NoLostWakeup == at = "wait" /\ pending # <<>> => Signalled

\* Nor over a quit() (quit()).
NoLostQuit == at = "wait" /\ quit => Signalled

\* A wakeup that is not on the ready list has been read: the eventfd, which is
\* edge-triggered, never holds a count nobody will be told of (handleWakeup()).
NoStaleCount == counter => edge \/ "wakeup" \in handling

\* Nothing that should wake the loop up goes unnoticed: no task, no quit() and no
\* count of the eventfd (queueInLoop(), quit(), handleWakeup()).
WakeupsArrive == NoLostWakeup /\ NoLostQuit /\ NoStaleCount

\* A posted task runs, unless the loop stops.
PostedIsRun ==
    \A n \in 1..(Cardinality(Producers) * MaxPosts + MaxSelf) :
        Len(posted) >= n ~> Len(ran) >= n \/ at = "done"

\* The queue is a mailbox.
Box == INSTANCE Mailbox
ImplementsMailbox == Box!Spec
=============================================================================
