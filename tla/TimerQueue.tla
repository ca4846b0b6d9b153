----------------------------- MODULE TimerQueue -----------------------------
(***************************************************************************)
(* The timers of one event loop (src/timer/TimerQueue.cpp, Timer.cpp) and  *)
(* the rounds of EventLoop::loop() that drive them.                        *)
(*                                                                         *)
(* Timers are numbered in the order Timer's constructor draws sequence     *)
(* numbers.  Time is a count of ticks.  Other threads only ever queue      *)
(* insertInLoop() and cancelInLoop() as tasks; that a queued task wakes    *)
(* the loop is what EventLoop.tla shows, here it is one step.              *)
(*                                                                         *)
(* A definition named X_Y is X with a mistake in it: put in the place of X  *)
(* it must break the property that guards against the mistake.             *)
(***************************************************************************)
EXTENDS Naturals, Sequences

CONSTANTS
    MaxTimers, \* bound: timers created
    MaxTime,   \* bound: ticks of the clock
    Delays,    \* the delays timers are set with
    Intervals, \* the intervals of repeating timers; 0 is a one-shot timer
    MaxOps     \* bound: tasks of other threads queued at a time

ASSUME TimesAssumption ==
    /\ MaxTimers \in Nat /\ MaxTime \in Nat /\ MaxOps \in Nat
    /\ Delays \subseteq Nat /\ Intervals \subseteq Nat

Timers == 1..MaxTimers
Never == MaxTime + 1 \* the epoll_wait() timeout -1

VARIABLES
    now,         \* the steady clock
    place,       \* where the loop thread is
    deadline,    \* when epoll_wait() times out
    woken,       \* the eventfd is readable
    entries,     \* entries_, as pairs <<when, sequence>>
    active,      \* the keys of activeTimers_
    expiration,  \* Timer::expiration_
    interval,    \* Timer::intervalSeconds_
    currentTime, \* handleExpiredTimers()'s argument
    expired,     \* what is left of its vector of expired timers
    created,     \* how many timers exist
    handed,      \* timers built by other threads, not queued yet
    ops,         \* tasks queued by other threads
    batch,       \* the batch of them that is running
    fired,       \* history: how often each timer has run
    cancelled,   \* history: timers cancelInLoop() has removed ...
    raced        \* ... and those it last removed out of an expired batch

loopVars  == <<place, deadline, woken>>
indexVars == <<entries, active, expiration>>
expiryVars == <<currentTime, expired>>
otherVars == <<handed, ops, batch>>
history   == <<fired, cancelled, raced>>
timerVars == <<now, created, interval, loopVars, indexVars, expiryVars, otherVars, history>>

Precedes(e, f) == e[1] < f[1] \/ (e[1] = f[1] /\ e[2] < f[2])

Ids(es) == {e[2] : e \in es}

\* Frames in which code of the application runs on the loop thread.
InApp == place \in {"handler", "callback", "functor"}

TimerInit ==
    /\ now = 0 /\ place = "head" /\ deadline = Never /\ woken = FALSE
    /\ entries = {} /\ active = {}
    /\ expiration = [t \in Timers |-> 0] /\ interval = [t \in Timers |-> 0]
    /\ currentTime = 0 /\ expired = {}
    /\ created = 0 /\ handed = {} /\ ops = <<>> /\ batch = <<>>
    /\ fired = [t \in Timers |-> 0] /\ cancelled = {} /\ raced = {}

-----------------------------------------------------------------------------
\* insertInLoop().
Insert(t, when) ==
    /\ active' = active \cup {t}
    /\ entries' = entries \cup {<<when, t>>}

cancelInLoop_KeepsEntry(t) ==
    /\ active' = active \ {t}
    /\ cancelled' = IF t \in active THEN cancelled \cup {t} ELSE cancelled
    /\ raced' = IF t \in active \cap Ids(expired) THEN raced \cup {t} ELSE raced \ {t}
    /\ UNCHANGED <<entries, expiration, interval, fired>>

\* cancelInLoop(): a timer that is not active has fired or been cancelled.
cancelInLoop(t) ==
    /\ IF t \in active
       THEN /\ active' = active \ {t}
            /\ entries' = entries \ {<<expiration[t], t>>}
            /\ cancelled' = cancelled \cup {t}
            /\ raced' = IF t \in Ids(expired) THEN raced \cup {t} ELSE raced \ {t}
       ELSE UNCHANGED <<active, entries, cancelled, raced>>
    /\ UNCHANGED <<expiration, interval, fired>>

\* The constructor of Timer.
NewTimer(delay, every) ==
    /\ created < MaxTimers
    /\ created' = created + 1
    /\ expiration' = [expiration EXCEPT ![created + 1] = now + delay]
    /\ interval' = [interval EXCEPT ![created + 1] = every]

\* runAfter() and runEvery() on the loop thread.
AddTimer(delay, every) ==
    /\ InApp
    /\ NewTimer(delay, every)
    /\ Insert(created + 1, now + delay)
    /\ UNCHANGED <<now, loopVars, expiryVars, otherVars, history>>

\* cancelTimer() on the loop thread.
Cancel(t) ==
    /\ InApp
    /\ t <= created /\ t \notin handed
    /\ cancelInLoop(t)
    /\ UNCHANGED <<now, created, loopVars, expiryVars, otherVars>>

\* runAfter() and runEvery() on another thread: build the timer ...
AddFromOutside(delay, every) ==
    /\ NewTimer(delay, every)
    /\ handed' = handed \cup {created + 1}
    /\ UNCHANGED <<now, loopVars, entries, active, expiryVars, ops, batch, history>>

\* ... and queue its insertion.
InsertFromOutside(t) ==
    /\ t \in handed /\ Len(ops) < MaxOps
    /\ handed' = handed \ {t}
    /\ ops' = Append(ops, <<"insert", t>>)
    /\ woken' = TRUE
    /\ UNCHANGED <<now, created, interval, place, deadline, indexVars, expiryVars,
                   batch, history>>

\* cancelTimer() on another thread, which has the id addTimer() returned.
CancelFromOutside(t) ==
    /\ t <= created /\ t \notin handed /\ Len(ops) < MaxOps
    /\ ops' = Append(ops, <<"cancel", t>>)
    /\ woken' = TRUE
    /\ UNCHANGED <<now, created, interval, place, deadline, indexVars, expiryVars,
                   handed, batch, history>>

-----------------------------------------------------------------------------
(* One round of loop().                                                    *)

nextTimeout_Forgotten == Never

\* nextTimeoutMs(): the first entry of the ordered set.
nextTimeout ==
    IF entries = {} THEN Never
    ELSE (CHOOSE e \in entries : \A f \in entries : e = f \/ Precedes(e, f))[1]

Poll ==
    /\ place = "head"
    /\ deadline' = nextTimeout
    /\ place' = "wait"
    /\ UNCHANGED <<now, created, interval, woken, indexVars, expiryVars, otherVars, history>>

WaitReturns ==
    /\ place = "wait"
    /\ place' = "handler" /\ woken' = FALSE
    /\ UNCHANGED <<now, created, interval, deadline, indexVars, expiryVars, otherVars, history>>

\* epoll_wait() times out, or the eventfd ends it.
Wakes == (now >= deadline \/ woken) /\ WaitReturns

TakeExpired_TickEarly ==
    /\ place = "handler"
    /\ currentTime' = now
    /\ expired' = {e \in entries : e[1] <= now + 1}
    /\ entries' = {e \in entries : e[1] > now + 1}
    /\ place' = "expire"
    /\ UNCHANGED <<now, created, interval, deadline, woken, active, expiration,
                   otherVars, history>>

\* handleExpiredTimers(): take every entry that is due ...
TakeExpired ==
    /\ place = "handler"
    /\ currentTime' = now
    /\ expired' = {e \in entries : e[1] <= now}
    /\ entries' = {e \in entries : e[1] > now}
    /\ place' = "expire"
    /\ UNCHANGED <<now, created, interval, deadline, woken, active, expiration,
                   otherVars, history>>

Fire_NotSetAgain ==
    \E e \in expired :
        LET t == e[2] IN
        /\ place = "expire"
        /\ \A f \in expired : e = f \/ Precedes(e, f)
        /\ expired' = expired \ {e}
        /\ fired' = [fired EXCEPT ![t] = @ + 1]
        /\ IF interval[t] > 0
           THEN /\ expiration' = [expiration EXCEPT ![t] = currentTime + interval[t]]
                /\ active' = active \cup {t}
                /\ UNCHANGED entries
           ELSE active' = active \ {t} /\ UNCHANGED <<entries, expiration>>
        /\ place' = "callback"
        /\ UNCHANGED <<now, created, interval, deadline, woken, currentTime,
                       otherVars, cancelled, raced>>

\* ... and run them in order.  A repeating one is set again before it runs, so
\* that its callback may cancel it.
Fire ==
    \E e \in expired :
        LET t == e[2] IN
        /\ place = "expire"
        /\ \A f \in expired : e = f \/ Precedes(e, f)
        /\ expired' = expired \ {e}
        /\ fired' = [fired EXCEPT ![t] = @ + 1]
        /\ IF interval[t] > 0
           THEN /\ expiration' = [expiration EXCEPT ![t] = currentTime + interval[t]]
                /\ Insert(t, currentTime + interval[t])
           ELSE active' = active \ {t} /\ UNCHANGED <<entries, expiration>>
        /\ place' = "callback"
        /\ UNCHANGED <<now, created, interval, deadline, woken, currentTime,
                       otherVars, cancelled, raced>>

CallbackReturns ==
    /\ place = "callback"
    /\ place' = "expire"
    /\ UNCHANGED <<now, created, interval, deadline, woken, indexVars, expiryVars,
                   otherVars, history>>

\* doPendingFunctors() ...
TakeFunctors ==
    /\ place = "expire" /\ expired = {}
    /\ batch' = ops /\ ops' = <<>>
    /\ place' = "functor"
    /\ UNCHANGED <<now, created, interval, deadline, woken, indexVars, expiryVars,
                   handed, history>>

\* ... runs insertInLoop() and cancelInLoop() for the other threads.
RunInsert ==
    /\ place = "functor" /\ batch # <<>>
    /\ batch[1][1] = "insert"
    /\ Insert(batch[1][2], expiration[batch[1][2]])
    /\ batch' = Tail(batch)
    /\ UNCHANGED <<now, created, interval, loopVars, expiration, expiryVars, handed,
                   ops, history>>

RunCancel ==
    /\ place = "functor" /\ batch # <<>>
    /\ batch[1][1] = "cancel"
    /\ cancelInLoop(batch[1][2])
    /\ batch' = Tail(batch)
    /\ UNCHANGED <<now, created, loopVars, expiryVars, handed, ops>>

EndRound ==
    /\ place = "functor" /\ batch = <<>>
    /\ place' = "head"
    /\ UNCHANGED <<now, created, interval, deadline, woken, indexVars, expiryVars,
                   otherVars, history>>

Tick ==
    /\ now < MaxTime
    /\ now' = now + 1
    /\ UNCHANGED <<created, interval, loopVars, indexVars, expiryVars, otherVars, history>>

-----------------------------------------------------------------------------
TimerThread == \/ Poll \/ Wakes \/ TakeExpired \/ Fire \/ CallbackReturns
              \/ TakeFunctors \/ RunInsert \/ RunCancel \/ EndRound

Calls ==
    \/ \E d \in Delays, i \in Intervals : AddTimer(d, i) \/ AddFromOutside(d, i)
    \/ \E t \in Timers : Cancel(t) \/ InsertFromOutside(t) \/ CancelFromOutside(t)

\* epoll_wait() may also return because a connection is ready.
TimerNext == TimerThread \/ WaitReturns \/ Calls \/ Tick

TimerSpec == TimerInit /\ [][TimerNext]_timerVars

\* The loop thread runs and time passes; no IO event is owed to anybody.
FairTimerSpec == TimerSpec /\ WF_timerVars(TimerThread) /\ WF_timerVars(Tick)

-----------------------------------------------------------------------------
(* Properties.                                                             *)

TimerTypeOK ==
    /\ now \in Nat /\ deadline \in Nat /\ currentTime \in Nat
    /\ place \in {"head", "wait", "handler", "expire", "callback", "functor"}
    /\ woken \in BOOLEAN
    /\ entries \subseteq Nat \X Timers /\ expired \subseteq Nat \X Timers
    /\ active \subseteq Timers /\ handed \subseteq Timers
    /\ expiration \in [Timers -> Nat] /\ interval \in [Timers -> Nat]
    /\ created \in 0..MaxTimers
    /\ ops \in Seq({"insert", "cancel"} \X Timers)
    /\ batch \in Seq({"insert", "cancel"} \X Timers)
    /\ fired \in [Timers -> Nat]
    /\ cancelled \subseteq Timers /\ raced \subseteq cancelled
    /\ expired # {} => place \in {"expire", "callback"}

\* The two indexes agree: a timer is found under its id exactly when it has an
\* entry, with the time it is set for, or is waiting in the expired batch
\* (insertInLoop(), cancelInLoop(), handleExpiredTimers()).
IndexesAgree ==
    /\ \A e \in entries \cup expired : expiration[e[2]] = e[1]
    /\ Ids(entries) = active \ Ids(expired)

\* A cancelled timer is gone for good, unless it was in a batch that is being
\* run (cancelInLoop()).
CancelledIsGone ==
    \A t \in cancelled \ raced : t \notin active /\ t \notin Ids(entries \cup expired)

\* A one-shot timer fires at most once, and not at all before it is inserted
\* (handleExpiredTimers()).
OneShotOnce ==
    \A t \in Timers :
        /\ fired[t] <= 1 \/ interval[t] > 0
        /\ t \in Ids(entries \cup expired) /\ interval[t] = 0 => fired[t] = 0

\* Whatever is added, cancelled and fired, from whichever thread: the indexes
\* agree, what was cancelled in time is gone, a one-shot fires once (TimerQueue.cpp).
TimersAreConsistent == TimerTypeOK /\ IndexesAgree /\ CancelledIsGone /\ OneShotOnce

\* epoll_wait() never sleeps past a timer (nextTimeoutMs(), and queueInLoop()
\* for what other threads add).
NoOversleep ==
    place = "wait" =>
        /\ \A e \in entries : deadline <= e[1]
        /\ ops # <<>> => woken

\* No timer fires before it is due, and of those that have expired the earliest
\* goes first.
InDueOrder ==
    [][\A t \in Timers : fired'[t] > fired[t] =>
          /\ expiration[t] <= now
          /\ \A e \in expired : e[2] = t \/ Precedes(<<expiration[t], t>>, e)]_timerVars

\* A timer that is due fires, unless it is cancelled.
DueFires ==
    \A t \in Timers, n \in 0..MaxTime :
        t \in active /\ expiration[t] <= now /\ fired[t] = n
            ~> fired[t] > n \/ t \notin active
=============================================================================
