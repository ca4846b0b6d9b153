--------------------------- MODULE EventLoopThread ---------------------------
(***************************************************************************)
(* The life of a loop: of an IO thread's (src/net/EventLoopThread.cpp and  *)
(* EventLoopThreadPool.cpp), which the owner starts, posts to, tells to    *)
(* quit and joins, or of main()'s own base loop (src/main.cpp), which a    *)
(* timer on it tells to quit.  Init chooses which of the two.              *)
(***************************************************************************)
EXTENDS EventLoop

CONSTANT Owner \* the main thread, which owns the pool

ASSUME OwnerAssumption == Owner \in Producers

VARIABLES
    thread, \* threadFunc(): how far the thread has got
    loop_,  \* loop_ is not null; of the base loop, always
    owner   \* how far the owner has got; "base" for the base loop, which is main()'s

threadVars == <<thread, loop_, owner>>
allVars == <<vars, threadVars>>

ThreadInit ==
    /\ Init
    /\ \/ thread = "none" /\ loop_ = FALSE /\ owner = "idle"
       \/ thread = "published" /\ loop_ = TRUE /\ owner = "base"

IsBase == owner = "base"

-----------------------------------------------------------------------------
(* The owner.                                                              *)

\* startLoop() creates the thread ...
StartLoop ==
    /\ owner = "idle"
    /\ owner' = "starting" /\ thread' = "starting"
    /\ UNCHANGED <<vars, loop_>>

\* ... and waits on cv_ until loop_ is set.
StartReturns ==
    /\ owner = "starting" /\ loop_
    /\ owner' = "running"
    /\ UNCHANGED <<vars, thread, loop_>>

\* Connections from the acceptor, responses from the workers, which main() joins
\* before its base loop is destroyed.
Post(p) ==
    /\ owner = "running" \/ (IsBase /\ p # Owner /\ thread \in {"looping", "cleared"})
    /\ QueueInLoop(p)
    /\ UNCHANGED threadVars

PostWakes(p) ==
    /\ pc[p] = "wake"
    /\ Wake(p)
    /\ UNCHANGED threadVars

QuitLoop_WorkersRun ==
    /\ owner = "running" /\ loop_
    /\ Quit(Owner)
    /\ owner' = "quitting"
    /\ UNCHANGED <<thread, loop_>>

\* ~EventLoopThreadPool(): the workers have been joined by then; quit() sets
\* the flag ...
QuitLoop ==
    /\ owner = "running" /\ loop_
    /\ \A p \in Producers : pc[p] = "idle"
    /\ Quit(Owner)
    /\ owner' = "quitting"
    /\ UNCHANGED <<thread, loop_>>

\* ... and wakes the loop up.
QuitWakes ==
    /\ owner = "quitting"
    /\ Wake(Owner)
    /\ owner' = "joining"
    /\ UNCHANGED <<thread, loop_>>

Join ==
    /\ owner = "joining" /\ thread = "ended"
    /\ owner' = "joined"
    /\ UNCHANGED <<vars, thread, loop_>>

-----------------------------------------------------------------------------
(* threadFunc().                                                           *)

\* The loop is constructed and published; nobody has called loop() yet.
Publish ==
    /\ thread = "starting"
    /\ thread' = "published" /\ loop_' = TRUE
    /\ UNCHANGED <<vars, owner>>

BeginLoop ==
    /\ thread = "published"
    /\ Enter
    /\ thread' = "looping"
    /\ UNCHANGED <<loop_, owner>>

LoopRuns ==
    /\ thread = "looping"
    /\ LoopThread
    /\ UNCHANGED threadVars

LoopQueues ==
    /\ thread = "looping"
    /\ QueueFromLoop \/ IoReady \/ (IsBase /\ QuitFromLoop)
    /\ UNCHANGED threadVars

ClearLoop ==
    /\ thread = "looping" /\ at = "done"
    /\ thread' = "cleared" /\ loop_' = IsBase
    /\ UNCHANGED <<vars, owner>>

\* ~EventLoop() runs as the thread leaves threadFunc(), or main() its block.
DestroyLoop ==
    /\ thread = "cleared"
    /\ IsBase => \A p \in Producers : pc[p] = "idle"
    /\ thread' = "ended"
    /\ UNCHANGED <<vars, loop_, owner>>

-----------------------------------------------------------------------------
threadFunc == Publish \/ BeginLoop \/ LoopRuns \/ ClearLoop \/ DestroyLoop

ThreadNext ==
    \/ StartLoop \/ StartReturns \/ QuitLoop \/ QuitWakes \/ Join
    \/ \E p \in Producers : Post(p) \/ PostWakes(p)
    \/ threadFunc \/ LoopQueues

ThreadSpec == ThreadInit /\ [][ThreadNext]_allVars

FairThreadSpec ==
    /\ ThreadSpec
    /\ WF_allVars(threadFunc)
    /\ WF_allVars(StartReturns \/ QuitWakes \/ Join)
    /\ \A p \in Producers : WF_allVars(PostWakes(p))

-----------------------------------------------------------------------------
(* Properties.                                                             *)

ThreadTypeOK ==
    /\ TypeOK
    /\ thread \in {"none", "starting", "published", "looping", "cleared", "ended"}
    /\ loop_ \in BOOLEAN
    /\ owner \in {"base", "idle", "starting", "running", "quitting", "joining", "joined"}

\* While a task is being posted the loop it goes to is alive: main() joins the
\* workers before the pool tells the loops to quit.
PostersSeeALoop ==
    \A p \in Producers : pc[p] = "wake" => loop_ /\ thread # "ended"

\* The owner, the posters and the thread agree about the loop: nobody posts to a
\* loop that is gone, and what is queued or told still wakes it up.
LoopOutlivesPosts == ThreadTypeOK /\ PostersSeeALoop

\* A quit() of a loop that was entered ends it, and the join that follows returns
\* (quit(), ~EventLoopThreadPool()).
JoinAfterQuit ==
    /\ quit /\ at # "new" ~> at = "done"
    /\ owner = "quitting" /\ quit /\ at # "new" ~> owner = "joined"
=============================================================================
