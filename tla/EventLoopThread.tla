--------------------------- MODULE EventLoopThread ---------------------------
(***************************************************************************)
(* An EventLoopThread of the pool (webserver/src/EventLoopThread.cc,       *)
(* Thread.cc): its owner starts a thread, the thread creates an EventLoop, *)
(* publishes it under mutex_ and runs it, and the destructor of the owner  *)
(* quits the loop and joins the thread.  The loop is that of EventLoop,    *)
(* with all its callers; what is added here is when it exists.             *)
(*                                                                         *)
(* mutex_ is held by the thread while thread = "cleared" and otherwise     *)
(* only within a step; the destructor reads loop_ without it.              *)
(***************************************************************************)
EXTENDS EventLoop

CONSTANT Owner   \* the thread that constructs and destroys the EventLoopThread

ASSUME OwnerAssumption == Owner \in Foreign

VARIABLES
    owner,    \* where the owner is in startLoop or in the destructor
    thread,   \* where the thread is in threadFunc
    loop_,    \* TRUE iff the pointer is not null
    others,   \* somebody else than the destructor has called quit
    lost      \* loop() has overwritten the quit_ of the destructor

threadVars == <<owner, thread, loop_, others, lost>>
allVars == <<vars, threadVars>>

OwnerPhases == {"new", "starting", "locking", "waiting", "has", "quitting",
                "joining", "gone"}
ThreadPhases == {"none", "created", "init", "loop", "cleared", "unlocked", "ended"}

ThreadTypeOK ==
    /\ TypeOK
    /\ owner \in OwnerPhases
    /\ thread \in ThreadPhases
    /\ loop_ \in BOOLEAN /\ others \in BOOLEAN /\ lost \in BOOLEAN

ThreadInit ==
    /\ Init
    /\ owner = "new" /\ thread = "none"
    /\ loop_ = FALSE /\ others = FALSE /\ lost = FALSE

------------------------------------------------------------------------------
(* The owner: EventLoopThreadPool::start, later the end of the pool.        *)

OwnerMoves(from, to) == owner = from /\ owner' = to

\* startLoop: thread_.start() creates the thread ...
startLoop ==
    /\ OwnerMoves("new", "starting")
    /\ thread' = "created"
    /\ UNCHANGED <<vars, loop_, others, lost>>

\* ... and waits for its semaphore
semWait ==
    /\ OwnerMoves("starting", "locking")
    /\ thread # "created"
    /\ UNCHANGED <<vars, thread, loop_, others, lost>>

\* cond_.wait with its predicate, holding mutex_
condWait ==
    /\ OwnerMoves("locking", IF loop_ THEN "has" ELSE "waiting")
    /\ thread # "cleared"
    /\ UNCHANGED <<vars, thread, loop_, others, lost>>

\* a wait may end without a notification
spuriousWakeup ==
    /\ OwnerMoves("waiting", "locking")
    /\ UNCHANGED <<vars, thread, loop_, others, lost>>

\* ~EventLoopThread: the test of loop_.  A thread that is not joined is
\* detached by ~Thread.  The other threads are done with the loop by then.
destroy ==
    /\ OwnerMoves("has", IF loop_ THEN "quitting" ELSE "gone")
    /\ \A t \in Foreign : call[t] = "none"
    /\ UNCHANGED <<vars, thread, loop_, others, lost>>

\* loop_->quit(); the write to the eventfd is EventLoop's quitWakes
destroyQuits ==
    /\ OwnerMoves("quitting", "joining")
    /\ quit(Owner)
    /\ UNCHANGED <<thread, loop_, others, lost>>

\* mutant: the thread is detached instead of joined
join_Skipped ==
    /\ OwnerMoves("joining", "gone")
    /\ call[Owner] = "none"
    /\ UNCHANGED <<vars, thread, loop_, others, lost>>

\* thread_.join()
join ==
    /\ OwnerMoves("joining", "gone")
    /\ call[Owner] = "none"
    /\ thread = "ended"
    /\ UNCHANGED <<vars, thread, loop_, others, lost>>

------------------------------------------------------------------------------
(* The thread.                                                              *)

ThreadMoves(from, to) == thread = from /\ thread' = to

\* sem_post, and threadFunc creates the loop
createLoop ==
    /\ ThreadMoves("created", "init")
    /\ UNCHANGED <<vars, owner, loop_, others, lost>>

\* mutant: the owner is not notified
publish_Silent ==
    /\ ThreadMoves("init", "loop")
    /\ At("start")
    /\ loop_' = TRUE
    /\ UNCHANGED <<vars, owner, others, lost>>

\* after the init callback: loop_ = &loop and notify_one, under mutex_
publish ==
    /\ ThreadMoves("init", "loop")
    /\ At("start")
    /\ loop_' = TRUE
    /\ owner' = IF owner = "waiting" THEN "locking" ELSE owner
    /\ UNCHANGED <<vars, others, lost>>

\* loop.loop(), which resets quit_ when it begins
loopRuns ==
    /\ thread = "loop"
    /\ LoopStep \/ Polls \/ pollTimeout
    /\ lost' = (lost \/ (pc = "start" /\ owner = "joining"))
    /\ UNCHANGED <<owner, thread, loop_, others>>

\* loop_ = nullptr, mutex_ taken
clearLoop ==
    /\ ThreadMoves("loop", "cleared")
    /\ At("done")
    /\ loop_' = FALSE
    /\ UNCHANGED <<vars, owner, others, lost>>

\* the end of threadFunc: mutex_ is released, then the EventLoop destroyed
unlock ==
    /\ ThreadMoves("cleared", "unlocked")
    /\ UNCHANGED <<vars, owner, loop_, others, lost>>

destroyLoop ==
    /\ ThreadMoves("unlocked", "ended")
    /\ UNCHANGED <<vars, owner, loop_, others, lost>>

------------------------------------------------------------------------------
(* The users of the loop: the thread itself in the init callback and in     *)
(* callbacks, the owner from the return of startLoop to the destructor, and *)
(* other threads as long as the loop exists and the owner keeps it.         *)

MayUse(t) ==
    CASE t = LoopThread -> thread = IF pc = "start" THEN "init" ELSE "loop"
      [] t = Owner -> owner = "has" /\ thread = "loop"
      [] OTHER -> /\ thread \in {"init", "loop"}
                  /\ owner \notin {"quitting", "joining", "gone"}

userCalls(t) ==
    /\ MayUse(t)
    /\ \/ \E f \in Functors : queueInLoop(t, f) \/ runInLoop(t, f)
       \/ quit(t)
    /\ others' = (others \/ quit_' # quit_)
    /\ UNCHANGED <<owner, thread, loop_, lost>>

finishes(t) == Finish(t) /\ UNCHANGED threadVars

OwnerStep == semWait \/ condWait \/ destroyQuits \/ join
ThreadStep == createLoop \/ publish \/ clearLoop \/ unlock \/ destroyLoop

ThreadNext ==
    \/ startLoop \/ spuriousWakeup \/ destroy
    \/ OwnerStep
    \/ ThreadStep
    \/ loopRuns
    \/ \E t \in Threads : userCalls(t) \/ finishes(t)

ThreadSpec == ThreadInit /\ [][ThreadNext]_allVars

\* The threads run while they can, callbacks return, and a thread in the middle
\* of a call finishes it.  epoll_wait returns when the eventfd is readable;
\* nothing is assumed about other channels or the timeout, so that what is live
\* here does not wait for the ten seconds.  No spurious wakeup need come.
FairThreadSpec ==
    /\ ThreadSpec
    /\ WF_allVars(OwnerStep)
    /\ WF_allVars(ThreadStep)
    /\ WF_allVars(loopRuns /\ ~pollTimeout /\ (pc = "poll" => wakeupFd))
    /\ \A t \in Threads : WF_allVars(finishes(t))

------------------------------------------------------------------------------
(* Properties.                                                              *)

\* startLoop returns a loop: the notification cannot fall between the test of
\* loop_ and the wait (EventLoopThread.cc:24-26, :36-40).  If somebody makes
\* the loop quit before the owner has looked, loop_ is null again and the
\* owner waits for ever; without that it must return.
StartReturns == owner = "starting" ~> (owner = "has" \/ others)

\* The destructor gets past join (EventLoopThread.cc:14-16), unless its quit
\* came before loop() and was overwritten there (EventLoop.cc:63).
DestructorReturns == owner = "joining" ~> (owner = "gone" \/ lost)

\* An EventLoopThread is not destroyed under a thread that still uses its
\* mutex_ and loop_, unless somebody else made the loop quit: then the
\* destructor may see loop_ null and not join.
JoinedBeforeGone == owner = "gone" /\ ~others => thread = "ended"

==============================================================================
