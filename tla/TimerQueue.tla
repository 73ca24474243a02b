----------------------------- MODULE TimerQueue -----------------------------
(***************************************************************************)
(* TimerQueue (webserver/src/TimerQueue.cc) with its Timers and its        *)
(* timerfd, in the loop thread that handles it and with other threads that *)
(* add timers.  EventLoop declares a TimerQueue and never creates it; this *)
(* is the queue as its interface is meant to be used.                      *)
(*                                                                         *)
(* Times count from now, so that the clock can go on for ever: left is the *)
(* time to an expiration, negative if it is past.  The unit is the 100     *)
(* microseconds that resetTimerfd asks for at least.  The wall clock that  *)
(* expirations are read from and the monotonic one of the timerfd go at    *)
(* the same pace, and neither is ever set.                                 *)
(***************************************************************************)
EXTENDS Integers, Sequences, FiniteSets, SequencesExt

CONSTANTS
    Timers,          \* each is added once
    Delays,          \* how far from now they may be set to expire
    interval_,       \* of each timer, 0 if it does not repeat
    Late             \* bound of the model: what is later counts as that late

None == -1           \* of a timerfd that is not armed
MinDelay == 1

ASSUME TimerAssumption ==
    /\ IsFiniteSet(Timers)
    /\ Late \in Nat
    /\ Delays \subseteq {d \in Int : d >= 1 - Late}
    /\ interval_ \in [Timers -> Nat]

VARIABLES
    left,            \* of each timer, the time to expiration_
    timers_,         \* the set, which is sorted by expiration
    fd, readable,    \* the timerfd: the time until it fires, has it fired?
    pc,              \* of the loop thread
    expired, next,   \* the vector in handleRead and the index in its loops
    pending, batch,  \* the functors addTimerInLoop, queued and being run
    added            \* the timers that addTimer was called for

vars == <<left, timers_, fd, readable, pc, expired, next, pending, batch, added>>

TypeOK ==
    /\ left \in [Timers -> {l \in Int : l >= -Late}]
    /\ timers_ \subseteq Timers
    /\ fd \in Nat \cup {None} /\ readable \in BOOLEAN
    /\ pc \in {"poll", "timer", "events", "run", "reset", "functors"}
    /\ expired \in Seq(Timers) /\ pending \in Seq(Timers) /\ batch \in Seq(Timers)
    /\ next \in Nat
    /\ added \subseteq Timers

Init ==
    /\ left = [t \in Timers |-> 0]
    /\ timers_ = {}
    /\ fd = None /\ readable = FALSE
    /\ pc = "poll"
    /\ expired = <<>> /\ next = 1
    /\ pending = <<>> /\ batch = <<>>
    /\ added = {}

------------------------------------------------------------------------------
(* The set of timers and the timerfd.                                       *)

\* mutants: only a first timer arms the timerfd; a first timer does not
EarliestChanged_First(when) == timers_ = {}
EarliestChanged_NotFirst(when) == timers_ # {} /\ \A t \in timers_ : when < left[t]

\* what insert returns
EarliestChanged(when) == \A t \in timers_ : when < left[t]

\* of timers as late as the model counts, either may be the earlier one
BothLate(when) == when = -Late /\ \E t \in timers_ : left[t] = -Late

\* mutant: a time that is past is taken as it is
resetTimerfd_AsItIs(l) == fd' = l /\ readable' = FALSE

\* resetTimerfd: what the timerfd had to report is forgotten
resetTimerfd(l) ==
    /\ fd' = IF l < MinDelay THEN MinDelay ELSE l
    /\ readable' = FALSE

addTimerInLoop(t, when) ==
    /\ timers_' = timers_ \cup {t}
    /\ \/ (EarliestChanged(when) \/ BothLate(when)) /\ resetTimerfd(when)
       \/ ~EarliestChanged(when) /\ UNCHANGED <<fd, readable>>

\* the timerfd fires
fire ==
    /\ fd = 0
    /\ fd' = None
    /\ readable' = TRUE
    /\ UNCHANGED <<left, timers_, pc, expired, next, pending, batch, added>>

InPlay == timers_ \cup Range(expired) \cup Range(pending) \cup Range(batch)

\* time passes
tick ==
    /\ fd # 0
    /\ left' = [t \in Timers |-> IF t \in InPlay /\ left[t] > -Late
                               THEN left[t] - 1 ELSE left[t]]
    /\ fd' = IF fd = None THEN None ELSE fd - 1
    /\ UNCHANGED <<timers_, readable, pc, expired, next, pending, batch, added>>

------------------------------------------------------------------------------
(* addTimer.                                                                *)

NewTimer(t, when) ==
    /\ t \notin added
    /\ added' = added \cup {t}
    /\ left' = [left EXCEPT ![t] = when]

\* in the loop thread, in a callback of a channel, a functor or a timer
addTimer(t, when) ==
    /\ pc # "poll"
    /\ NewTimer(t, when)
    /\ addTimerInLoop(t, when)
    /\ UNCHANGED <<pc, expired, next, pending, batch>>

\* in another thread
addTimerElsewhere(t, when) ==
    /\ NewTimer(t, when)
    /\ pending' = Append(pending, t)
    /\ UNCHANGED <<timers_, fd, readable, pc, expired, next, batch>>

------------------------------------------------------------------------------
(* The loop.                                                                *)

\* poll reports the timerfd, or the eventfd that queueInLoop has written
poll ==
    /\ pc = "poll"
    /\ readable \/ pending # <<>>
    /\ pc' = IF readable THEN "timer" ELSE "events"
    /\ UNCHANGED <<left, timers_, fd, readable, expired, next, pending, batch, added>>

\* the sentry has the greatest of pointers: a timer that expires now is below
IsExpired(t) == left[t] <= 0

Sorted(s) == \A i, j \in DOMAIN s : i < j => left[s[i]] <= left[s[j]]

\* handleRead: ReadTimerFd and getExpired
handleRead ==
    /\ pc = "timer"
    /\ readable' = FALSE
    /\ \E s \in SetToSeqs({t \in timers_ : IsExpired(t)}) : Sorted(s) /\ expired' = s
    /\ timers_' = {t \in timers_ : ~IsExpired(t)}
    /\ next' = 1
    /\ pc' = "run"
    /\ UNCHANGED <<left, fd, pending, batch, added>>

\* a callback; it may have added timers by then
run ==
    /\ pc = "run"
    /\ next <= Len(expired)
    /\ next' = next + 1
    /\ UNCHANGED <<left, timers_, fd, readable, pc, expired, pending, batch, added>>

startReset ==
    /\ pc = "run"
    /\ next > Len(expired)
    /\ next' = 1
    /\ pc' = "reset"
    /\ UNCHANGED <<left, timers_, fd, readable, expired, pending, batch, added>>

\* Timer::restart
restart(t) == [left EXCEPT ![t] = interval_[t]]

\* reset, for one of the expired
reset ==
    /\ pc = "reset"
    /\ next <= Len(expired)
    /\ LET t == expired[next] IN
          IF interval_[t] # 0
          THEN left' = restart(t) /\ timers_' = timers_ \cup {t}
          ELSE UNCHANGED <<left, timers_>>
    /\ IF timers_' # {} THEN resetTimerfd(Min({left'[u] : u \in timers_'}))
                        ELSE UNCHANGED <<fd, readable>>
    /\ next' = next + 1
    /\ UNCHANGED <<pc, expired, pending, batch, added>>

endReset ==
    /\ pc = "reset"
    /\ next > Len(expired)
    /\ expired' = <<>> /\ next' = 1
    /\ pc' = "events"
    /\ UNCHANGED <<left, timers_, fd, readable, pending, batch, added>>

\* doPendingFunctors
swap ==
    /\ pc = "events"
    /\ pc' = "functors"
    /\ batch' = pending
    /\ pending' = <<>>
    /\ UNCHANGED <<left, timers_, fd, readable, expired, next, added>>

runFunctor ==
    /\ pc = "functors"
    /\ batch # <<>>
    /\ addTimerInLoop(Head(batch), left[Head(batch)])
    /\ batch' = Tail(batch)
    /\ UNCHANGED <<left, pc, expired, next, pending, added>>

endFunctors ==
    /\ pc = "functors"
    /\ batch = <<>>
    /\ pc' = "poll"
    /\ UNCHANGED <<left, timers_, fd, readable, expired, next, pending, batch, added>>

LoopStep ==
    \/ poll
    \/ handleRead \/ run \/ startReset \/ reset \/ endReset
    \/ swap \/ runFunctor \/ endFunctors

Next ==
    \/ LoopStep
    \/ fire
    \/ tick
    \/ \E t \in Timers, when \in Delays : addTimer(t, when) \/ addTimerElsewhere(t, when)

Spec == Init /\ [][Next]_vars

\* the loop runs, the timerfd fires and time passes
FairSpec == Spec /\ WF_vars(LoopStep) /\ WF_vars(fire) /\ WF_vars(tick)

------------------------------------------------------------------------------
(* Properties.                                                              *)

Runs(t) == pc = "run" /\ next \in DOMAIN expired /\ expired[next] = t

\* Between two rounds of handleRead the timerfd is armed for the earliest timer
\* or before, or has fired already, whatever was added, expired and restarted
\* in which order: no timer waits for one that expires later
\* (TimerQueue.cc:54, :110, :135).
Earliest == Min({left[t] : t \in timers_})
ArmedInTime ==
    pc \notin {"timer", "run", "reset"} /\ timers_ # {} =>
        readable \/ (fd # None /\ (fd <= MinDelay \/ fd <= Earliest))

\* Every timer that was added runs, and runs again whenever it is put back: no
\* order of adding, expiring and re-arming stops the timerfd for good
\* (TimerQueue.cc:75-127).
TimersRun ==
    \A t \in Timers : t \in timers_ \cup Range(pending) \cup Range(batch) ~> Runs(t)
==============================================================================
