------------------------------ MODULE EventLoop ------------------------------
(***************************************************************************)
(* One EventLoop (webserver/src/EventLoop.cc), its thread and the threads  *)
(* that call its public operations.                                        *)
(*                                                                         *)
(* The loop thread is a program counter that walks through loop() and      *)
(* doPendingFunctors(); user code runs in it at "start" (the thread's init *)
(* callback, before loop()), in "ioCallback" and in "functor", and may     *)
(* call the operations of the loop there.  An operation of another thread  *)
(* is cut where it stops being atomic: between the critical section of     *)
(* mutex_ (or the store to quit_) and the write to the eventfd.            *)
(***************************************************************************)
EXTENDS Sequences, Functions

CONSTANTS
    LoopThread,   \* the thread that created the loop, threadId_
    Foreign,      \* the other threads that hold a pointer to the loop
    Functors      \* the callables, each handed over at most once

ASSUME ThreadAssumption == LoopThread \notin Foreign

Threads == Foreign \cup {LoopThread}

isInLoopThread(t) == t = LoopThread

VARIABLES
    pc,                       \* where the loop thread is in loop()
    looping_, quit_,
    callingPendingFunctors_,
    activeChannels_,          \* reported by the last poll, not handled yet
    pendingFunctors_,         \* guarded by mutex_
    functors,                 \* the local vector of doPendingFunctors, its rest
    wakeupFd,                 \* TRUE iff the eventfd counter is not zero
    call,                     \* per thread, the half-done queueInLoop or quit
    fresh,                    \* functors nobody has handed over yet
    early,                    \* those the loop thread queued before loop()
    executed                  \* functors in the order of their execution

callVars == <<fresh, early, pendingFunctors_>>
vars == <<pc, looping_, quit_, callingPendingFunctors_, activeChannels_,
          pendingFunctors_, functors, wakeupFd, call, fresh, early, executed>>

Phases == {"start", "test", "poll", "dispatch", "ioCallback", "set", "swap",
           "run", "functor", "done"}
Channels == {"wakeup", "io"}

TypeOK ==
    /\ pc \in Phases
    /\ looping_ \in BOOLEAN
    /\ quit_ \in BOOLEAN
    /\ callingPendingFunctors_ \in BOOLEAN
    /\ activeChannels_ \subseteq Channels
    /\ pendingFunctors_ \in Seq(Functors)
    /\ functors \in Seq(Functors)
    /\ wakeupFd \in BOOLEAN
    /\ call \in [Threads -> {"none", "queued", "quitting"}]
    /\ fresh \subseteq Functors
    /\ early \subseteq Functors
    /\ executed \in Seq(Functors)

Init ==
    /\ pc = "start"
    /\ looping_ = FALSE
    /\ quit_ = FALSE
    /\ callingPendingFunctors_ = FALSE
    /\ activeChannels_ = {}
    /\ pendingFunctors_ = <<>>
    /\ functors = <<>>
    /\ wakeupFd = FALSE
    /\ call = [t \in Threads |-> "none"]
    /\ fresh = Functors
    /\ early = {}
    /\ executed = <<>>

------------------------------------------------------------------------------
(* The public operations.  A thread calls one at a time, and the loop       *)
(* thread only from user code.                                              *)

MayCall(t) ==
    /\ call[t] = "none"
    /\ isInLoopThread(t) => pc \in {"start", "ioCallback", "functor"}

\* queueInLoop, the critical section
queueInLoop(t, f) ==
    /\ MayCall(t)
    /\ f \in fresh
    /\ fresh' = fresh \ {f}
    /\ pendingFunctors_' = Append(pendingFunctors_, f)
    /\ early' = IF isInLoopThread(t) /\ pc = "start" THEN early \cup {f} ELSE early
    /\ call' = [call EXCEPT ![t] = "queued"]
    /\ UNCHANGED <<pc, looping_, quit_, callingPendingFunctors_,
                   activeChannels_, functors, wakeupFd, executed>>

\* mutants: one half of the condition
MustWake_ForeignOnly(t) == ~isInLoopThread(t)
MustWake_CallingOnly(t) == callingPendingFunctors_

\* queueInLoop's test of the calling thread and of callingPendingFunctors_
MustWake(t) == ~isInLoopThread(t) \/ callingPendingFunctors_

\* queueInLoop, after the critical section: wakeup() or nothing
queueInLoopWakes(t) ==
    /\ call[t] = "queued"
    /\ wakeupFd' = (wakeupFd \/ MustWake(t))
    /\ call' = [call EXCEPT ![t] = "none"]
    /\ UNCHANGED <<pc, looping_, quit_, callingPendingFunctors_,
                   activeChannels_, functors, executed, callVars>>

\* runInLoop by the loop thread: cb() at once (by another it is queueInLoop)
runInLoop(t, f) ==
    /\ MayCall(t)
    /\ isInLoopThread(t)
    /\ f \in fresh
    /\ fresh' = fresh \ {f}
    /\ executed' = Append(executed, f)
    /\ UNCHANGED <<pc, looping_, quit_, callingPendingFunctors_, early,
                   activeChannels_, pendingFunctors_, functors, wakeupFd, call>>

\* mutant: quit never writes to the eventfd
QuitMustWake_Never(t) == FALSE

QuitMustWake(t) == ~isInLoopThread(t)

\* quit, up to the test of the calling thread
quit(t) ==
    /\ MayCall(t)
    /\ quit_' = TRUE
    /\ call' = [call EXCEPT ![t] = IF QuitMustWake(t) THEN "quitting" ELSE "none"]
    /\ UNCHANGED <<pc, looping_, callingPendingFunctors_, activeChannels_,
                   functors, wakeupFd, executed, callVars>>

\* quit by another thread: wakeup()
quitWakes(t) ==
    /\ call[t] = "quitting"
    /\ wakeupFd' = TRUE
    /\ call' = [call EXCEPT ![t] = "none"]
    /\ UNCHANGED <<pc, looping_, quit_, callingPendingFunctors_,
                   activeChannels_, functors, executed, callVars>>

------------------------------------------------------------------------------
(* The loop thread, statement by statement.                                 *)

At(phase) == pc = phase /\ call[LoopThread] = "none"

loopStart ==
    /\ At("start")
    /\ looping_' = TRUE
    /\ quit_' = FALSE
    /\ pc' = "test"
    /\ UNCHANGED <<callingPendingFunctors_, activeChannels_, functors,
                   wakeupFd, call, executed, callVars>>

\* while (!quit_)
loopTest ==
    /\ At("test")
    /\ pc' = IF quit_ THEN "done" ELSE "poll"
    /\ looping_' = ~quit_
    /\ activeChannels_' = {}
    /\ UNCHANGED <<quit_, callingPendingFunctors_, functors, wakeupFd, call,
                   executed, callVars>>

\* epoll_wait: "io" stands for every other channel, whose readiness is the
\* environment's; with many ready channels epoll may leave wakeupFd for later
Ready == {"io"} \cup {c \in {"wakeup"} : wakeupFd}

poll(active) ==
    /\ At("poll")
    /\ active # {}
    /\ activeChannels_' = active
    /\ pc' = "dispatch"
    /\ UNCHANGED <<looping_, quit_, callingPendingFunctors_, functors,
                   wakeupFd, call, executed, callVars>>

\* epoll_wait returns 0 after kPollTimeMs with nothing ready
pollTimeout ==
    /\ At("poll")
    /\ ~wakeupFd
    /\ pc' = "dispatch"
    /\ UNCHANGED <<looping_, quit_, callingPendingFunctors_, activeChannels_,
                   functors, wakeupFd, call, executed, callVars>>

\* the wakeup channel's callback
handleRead ==
    /\ At("dispatch")
    /\ "wakeup" \in activeChannels_
    /\ activeChannels_' = activeChannels_ \ {"wakeup"}
    /\ wakeupFd' = FALSE
    /\ UNCHANGED <<pc, looping_, quit_, callingPendingFunctors_, functors,
                   call, executed, callVars>>

\* any other channel's callback: user code, and its return
handleIO ==
    /\ At("dispatch")
    /\ "io" \in activeChannels_
    /\ activeChannels_' = activeChannels_ \ {"io"}
    /\ pc' = "ioCallback"
    /\ UNCHANGED <<looping_, quit_, callingPendingFunctors_, functors,
                   wakeupFd, call, executed, callVars>>

ioReturns ==
    /\ At("ioCallback")
    /\ pc' = "dispatch"
    /\ UNCHANGED <<looping_, quit_, callingPendingFunctors_, activeChannels_,
                   functors, wakeupFd, call, executed, callVars>>

\* no channel left: the for loop ends
dispatchEnds ==
    /\ At("dispatch")
    /\ activeChannels_ = {}
    /\ pc' = "set"
    /\ UNCHANGED <<looping_, quit_, callingPendingFunctors_, activeChannels_,
                   functors, wakeupFd, call, executed, callVars>>

\* doPendingFunctors, from here to clearCalling
setCalling ==
    /\ At("set")
    /\ callingPendingFunctors_' = TRUE
    /\ pc' = "swap"
    /\ UNCHANGED <<looping_, quit_, activeChannels_, functors, wakeupFd, call,
                   executed, callVars>>

\* mutant: the vector is copied, not swapped
swap_Copy ==
    /\ At("swap")
    /\ functors' = pendingFunctors_
    /\ pc' = "run"
    /\ UNCHANGED <<looping_, quit_, callingPendingFunctors_, activeChannels_,
                   wakeupFd, call, callVars, executed>>

swap ==
    /\ At("swap")
    /\ functors' = pendingFunctors_
    /\ pendingFunctors_' = functors
    /\ pc' = "run"
    /\ UNCHANGED <<looping_, quit_, callingPendingFunctors_, activeChannels_,
                   wakeupFd, call, fresh, early, executed>>

runFunctor ==
    /\ At("run")
    /\ functors # <<>>
    /\ executed' = Append(executed, Head(functors))
    /\ functors' = Tail(functors)
    /\ pc' = "functor"
    /\ UNCHANGED <<looping_, quit_, callingPendingFunctors_, activeChannels_,
                   wakeupFd, call, callVars>>

functorReturns ==
    /\ At("functor")
    /\ pc' = "run"
    /\ UNCHANGED <<looping_, quit_, callingPendingFunctors_, activeChannels_,
                   functors, wakeupFd, call, executed, callVars>>

clearCalling ==
    /\ At("run")
    /\ functors = <<>>
    /\ callingPendingFunctors_' = FALSE
    /\ pc' = "test"
    /\ UNCHANGED <<looping_, quit_, activeChannels_, functors, wakeupFd, call,
                   executed, callVars>>

Polls == \E active \in SUBSET Ready : poll(active)

LoopStep ==
    \/ loopStart \/ loopTest \/ handleRead \/ handleIO \/ ioReturns
    \/ dispatchEnds \/ setCalling \/ swap \/ runFunctor \/ functorReturns
    \/ clearCalling

Finish(t) == queueInLoopWakes(t) \/ quitWakes(t)

Next ==
    \/ \E t \in Threads : \E f \in Functors : queueInLoop(t, f) \/ runInLoop(t, f)
    \/ \E t \in Threads : quit(t) \/ Finish(t)
    \/ LoopStep
    \/ Polls
    \/ pollTimeout

Spec == Init /\ [][Next]_vars

------------------------------------------------------------------------------
(* Properties.                                                              *)

HalfDone(kind) == \E t \in Threads : call[t] = kind

\* the eventfd is readable, or a thread that just queued a functor makes it so
Woken == wakeupFd \/ \E t \in Threads : call[t] = "queued" /\ MustWake(t)

\* While the loop may be about to block in poll, a functor in the queue has
\* made the eventfd readable, or the thread that queued it is about to: the
\* decision of queueInLoop to skip wakeup() (EventLoop.cc:121) never leaves
\* a functor behind a blocked poll.  Functors queued by the loop thread
\* before loop() are excepted: queueInLoop does not announce them.
NoMissedWakeup ==
    pc \in {"start", "test", "poll"} =>
        \A f \in Range(pendingFunctors_) : f \in early \/ Woken

\* A loop that blocks in poll after quit_ was set is about to be woken
\* (EventLoop.cc:96-99).
NoMissedQuit ==
    pc = "poll" /\ quit_ => wakeupFd \/ HalfDone("quitting")

\* Every functor is handed to the user code exactly once and in the order in
\* which the queue received it (EventLoop.cc:156-168).
Queue == INSTANCE TaskQueue WITH waiting <- functors \o pendingFunctors_
ImplementsQueue == Queue!Spec

\* A queued functor is executed, unless the loop ends: with no help from
\* other channels or from the poll timeout.
Queued(f) == f \in Range(pendingFunctors_) /\ f \notin early
QueuedIsExecuted ==
    \A f \in Functors : Queued(f) ~> (f \in Range(executed) \/ pc = "done")

==============================================================================
