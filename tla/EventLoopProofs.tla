--------------------------- MODULE EventLoopProofs ---------------------------
(***************************************************************************)
(* What EventLoop guarantees for any set of threads and any set of         *)
(* functors, and what EventLoopThread does: its loop behaves as EventLoop  *)
(* describes, so that what is proved of EventLoop holds of it, and the     *)
(* destructor waits for the end of the thread.                             *)
(***************************************************************************)
EXTENDS EventLoopThread, TLAPS

\* Appending to a sequence adds one element to its range.
LEMMA RangeAppend ==
    ASSUME NEW S, NEW s \in Seq(S), NEW e \in S
    PROVE  Range(Append(s, e)) = Range(s) \cup {e}
<1>1. DOMAIN Append(s, e) = 1..(Len(s) + 1)
  OBVIOUS
<1>2. DOMAIN s = 1..Len(s)
  OBVIOUS
<1>3. Append(s, e)[Len(s) + 1] = e /\ \A i \in 1..Len(s) : Append(s, e)[i] = s[i]
  OBVIOUS
<1>4. Len(s) \in Nat
  OBVIOUS
<1>5. 1..(Len(s) + 1) = (1..Len(s)) \cup {Len(s) + 1}
  BY <1>4
<1> QED
  BY <1>1, <1>2, <1>3, <1>5, ZenonT(30) DEF Range

------------------------------------------------------------------------------

\* The initial values are of their types.
LEMMA TypeOKInit == Init => TypeOK
<1>1. <<>> \in Seq(Functors)
  OBVIOUS
<1> QED
  BY <1>1 DEF Init, TypeOK, Phases

\* Every step keeps the variables in their types.
LEMMA TypeOKNext == TypeOK /\ [Next]_vars => TypeOK'
<1> SUFFICES ASSUME TypeOK, [Next]_vars PROVE TypeOK'
  OBVIOUS
<1> USE DEF TypeOK, Phases, Channels, callVars
<1>1. ASSUME NEW t \in Threads, NEW f \in Functors, queueInLoop(t, f) PROVE TypeOK'
  BY <1>1 DEF queueInLoop
<1>2. ASSUME NEW t \in Threads, NEW f \in Functors, runInLoop(t, f) PROVE TypeOK'
  BY <1>2 DEF runInLoop
<1>3. ASSUME NEW t \in Threads, quit(t) PROVE TypeOK'
  BY <1>3 DEF quit
<1>4. ASSUME NEW t \in Threads, Finish(t) PROVE TypeOK'
  BY <1>4 DEF Finish, queueInLoopWakes, quitWakes
<1>5. CASE loopStart \/ loopTest
  BY <1>5 DEF loopStart, loopTest, At
<1>6. CASE handleRead \/ handleIO \/ ioReturns \/ dispatchEnds
  BY <1>6 DEF handleRead, handleIO, ioReturns, dispatchEnds, At
<1>7. CASE setCalling \/ swap \/ functorReturns \/ clearCalling
  BY <1>7 DEF setCalling, swap, functorReturns, clearCalling, At
<1>8. CASE runFunctor
  <2>1. Head(functors) \in Functors /\ Tail(functors) \in Seq(Functors)
    BY <1>8 DEF runFunctor
  <2> QED
    BY <1>8, <2>1 DEF runFunctor, At
<1>9. CASE Polls \/ pollTimeout
  BY <1>9 DEF Polls, poll, pollTimeout, Ready, At
<1>10. CASE UNCHANGED vars
  BY <1>10 DEF vars
<1> QED
  BY <1>1, <1>2, <1>3, <1>4, <1>5, <1>6, <1>7, <1>8, <1>9, <1>10
  DEF Next, LoopStep

\* Type correctness of EventLoop: the loop thread is always at one of its
\* program points and the two vectors hold functors only.
THEOREM TypeCorrect == Spec => []TypeOK
BY TypeOKInit, TypeOKNext, PTL DEF Spec

------------------------------------------------------------------------------
(* The wake-up invariant.  NoMissedWakeup alone is not inductive: between    *)
(* two polls the loop thread may queue functors without a wakeup.  It is     *)
(* allowed to because it has not swapped the queue yet, and from the swap    *)
(* on callingPendingFunctors_ is TRUE, so that it does write the eventfd.    *)

\* queueInLoop reads the flag to know whether the swap is behind it
CallingIsAccurate ==
    callingPendingFunctors_ <=> pc \in {"swap", "run", "functor"}

\* from the swap to the next return of poll
WakeInv ==
    pc \in {"start", "test", "poll", "run", "functor"} =>
        \A f \in Range(pendingFunctors_) : f \in early \/ Woken

\* the vector that doPendingFunctors swaps away is empty, so that no functor
\* gets back into the queue
SwapsWithEmpty == pc \notin {"run", "functor"} => functors = <<>>

LoopInv == CallingIsAccurate /\ SwapsWithEmpty
IInv == TypeOK /\ LoopInv /\ WakeInv /\ NoMissedQuit

LEMMA IInvInit == Init => LoopInv /\ WakeInv /\ NoMissedQuit
BY DEF Init, LoopInv, SwapsWithEmpty, CallingIsAccurate, WakeInv, NoMissedQuit, Range

LEMMA IInvNext ==
    ASSUME TypeOK, TypeOK', LoopInv, WakeInv, NoMissedQuit, [Next]_vars
    PROVE  LoopInv' /\ WakeInv' /\ NoMissedQuit'
<1> USE DEF LoopInv, CallingIsAccurate, SwapsWithEmpty, WakeInv, NoMissedQuit, Woken, MustWake, isInLoopThread,
           HalfDone, callVars
<1>1. ASSUME NEW t \in Threads, NEW f \in Functors, queueInLoop(t, f)
      PROVE  LoopInv' /\ WakeInv' /\ NoMissedQuit'
  <2>1. call'[t] = "queued" /\ \A u \in Threads \ {t} : call'[u] = call[u]
    BY <1>1 DEF queueInLoop, TypeOK
  <2>2. call[t] = "none"
    BY <1>1 DEF queueInLoop, MayCall
  <2>3. UNCHANGED <<pc, callingPendingFunctors_, functors, wakeupFd>>
    BY <1>1 DEF queueInLoop
  <2>4. NoMissedQuit'
    BY <1>1, <2>1, <2>2 DEF queueInLoop
  <2>5. Woken => Woken'
    BY <2>1, <2>2, <2>3
  <2>6. CASE isInLoopThread(t) /\ pc = "start"
    <3>1. early' = early \cup {f}
      BY <1>1, <2>6 DEF queueInLoop
    <3>2. Range(pendingFunctors_)' = Range(pendingFunctors_) \cup {f}
      BY <1>1, RangeAppend DEF queueInLoop, TypeOK
    <3> QED
      BY <2>3, <2>4, <2>5, <3>1, <3>2
  <2>7. CASE isInLoopThread(t) /\ pc = "ioCallback"
    BY <2>3, <2>4, <2>7
  <2>8. CASE ~isInLoopThread(t) \/ pc = "functor"
    BY <2>1, <2>3, <2>4, <2>8
  <2> QED
    BY <1>1, <2>6, <2>7, <2>8 DEF queueInLoop, MayCall
<1>2. ASSUME NEW t \in Threads, NEW f \in Functors, runInLoop(t, f)
      PROVE  LoopInv' /\ WakeInv' /\ NoMissedQuit'
  BY <1>2 DEF runInLoop
<1>3. ASSUME NEW t \in Threads, quit(t)
      PROVE  LoopInv' /\ WakeInv' /\ NoMissedQuit'
  <2>1. \A u \in Threads \ {t} : call'[u] = call[u]
    BY <1>3 DEF quit, TypeOK
  <2>2. call[t] = "none"
    BY <1>3 DEF quit, MayCall
  <2>3. Woken => Woken'
    BY <1>3, <2>1, <2>2 DEF quit
  <2>4. pc = "poll" => call'[t] = "quitting"
    BY <1>3 DEF quit, QuitMustWake, MayCall, TypeOK
  <2> QED
    BY <1>3, <2>3, <2>4 DEF quit
<1>4. ASSUME NEW t \in Threads, queueInLoopWakes(t)
      PROVE  LoopInv' /\ WakeInv' /\ NoMissedQuit'
  <2>1. \A u \in Threads \ {t} : call'[u] = call[u]
    BY <1>4 DEF queueInLoopWakes, TypeOK
  <2>2. HalfDone("quitting") => HalfDone("quitting")'
    BY <1>4, <2>1 DEF queueInLoopWakes
  <2>3. Woken => Woken'
    BY <1>4, <2>1 DEF queueInLoopWakes
  <2> QED
    BY <1>4, <2>2, <2>3 DEF queueInLoopWakes
<1>5. ASSUME NEW t \in Threads, quitWakes(t)
      PROVE  LoopInv' /\ WakeInv' /\ NoMissedQuit'
  BY <1>5 DEF quitWakes
<1>6. CASE loopStart \/ loopTest
  BY <1>6 DEF loopStart, loopTest, At
<1>7. CASE handleRead \/ handleIO \/ ioReturns \/ dispatchEnds
  BY <1>7 DEF handleRead, handleIO, ioReturns, dispatchEnds, At
<1>8. CASE setCalling \/ runFunctor \/ functorReturns \/ clearCalling
  BY <1>8 DEF setCalling, runFunctor, functorReturns, clearCalling, At
<1>9. CASE swap
  <2>1. pendingFunctors_' = <<>>
    BY <1>9 DEF swap, At
  <2>2. Range(<<>>) = {}
    BY DEF Range
  <2> QED
    BY <1>9, <2>1, <2>2 DEF swap, At
<1>10. CASE Polls \/ pollTimeout
  BY <1>10 DEF Polls, poll, pollTimeout, At
<1>11. CASE UNCHANGED vars
  BY <1>11 DEF vars
<1> QED
  BY <1>1, <1>2, <1>3, <1>4, <1>5, <1>6, <1>7, <1>8, <1>9, <1>10, <1>11
  DEF Next, LoopStep, Finish

\* The strengthened invariant holds in every reachable state.
THEOREM Invariant == Spec => []IInv
<1>1. Init => IInv
  BY IInvInit, TypeOKInit DEF IInv
<1>2. IInv /\ [Next]_vars => IInv'
  BY IInvNext, TypeOKNext DEF IInv
<1> QED
  BY <1>1, <1>2, PTL DEF Spec

\* However many threads queue functors, whatever the interleaving of their
\* critical sections, their writes to the eventfd and the steps of the loop,
\* no functor waits behind a poll that nobody is about to interrupt
\* (EventLoop.cc:121 skips wakeup only when that is safe).
THEOREM WakeupsAreNotMissed == Spec => []NoMissedWakeup
<1>1. IInv => NoMissedWakeup
  BY DEF IInv, WakeInv, NoMissedWakeup
<1> QED
  BY <1>1, Invariant, PTL

\* A loop blocked in poll with quit_ set is about to be woken, for any number
\* of threads that call quit (EventLoop.cc:96-99).
THEOREM QuitsAreNotMissed == Spec => []NoMissedQuit
<1>1. IInv => NoMissedQuit
  BY DEF IInv
<1> QED
  BY <1>1, Invariant, PTL

------------------------------------------------------------------------------
(* Implementation of the abstract queue.  waiting is functors, the rest of   *)
(* the batch being run, followed by pendingFunctors_; SwapsWithEmpty makes   *)
(* the swap a stuttering step.                                               *)

Waiting == functors \o pendingFunctors_

\* Appending to the second of two concatenated sequences.
LEMMA ConcatAppend ==
    ASSUME NEW S, NEW s \in Seq(S), NEW u \in Seq(S), NEW e \in S
    PROVE  s \o Append(u, e) = Append(s \o u, e)
OBVIOUS

\* The head and the tail of a concatenation are those of its first sequence.
LEMMA ConcatHeadTail ==
    ASSUME NEW S, NEW s \in Seq(S), NEW u \in Seq(S), s # <<>>
    PROVE  /\ s \o u # <<>>
           /\ Head(s \o u) = Head(s)
           /\ Tail(s \o u) = Tail(s) \o u
OBVIOUS

\* Every step of the loop and of its callers is a step of the queue or
\* changes nothing the queue shows.
LEMMA QueueStep ==
    ASSUME IInv, [Next]_vars
    PROVE  [Queue!Next]_(Queue!vars)
<1> USE DEF IInv, LoopInv, SwapsWithEmpty, TypeOK, callVars, Queue!vars
<1>1. ASSUME NEW t \in Threads, NEW f \in Functors, queueInLoop(t, f)
      PROVE  Queue!Enqueue(f)
  BY <1>1, ConcatAppend DEF queueInLoop, Queue!Enqueue
<1>2. ASSUME NEW t \in Threads, NEW f \in Functors, runInLoop(t, f)
      PROVE  Queue!ExecuteNow(f)
  BY <1>2 DEF runInLoop, Queue!ExecuteNow
<1>3. CASE runFunctor
  <2>1. functors # <<>> /\ executed' = Append(executed, Head(functors))
        /\ functors' = Tail(functors) /\ pendingFunctors_' = pendingFunctors_
    BY <1>3 DEF runFunctor
  <2>2. Queue!Execute
    BY <2>1, ConcatHeadTail DEF Queue!Execute
  <2> QED
    BY <2>2 DEF Queue!Next
<1>4. CASE swap
  <2>1. functors = <<>> /\ functors' = pendingFunctors_ /\ pendingFunctors_' = <<>>
    BY <1>4 DEF swap, At
  <2>2. Waiting' = Waiting
    BY <2>1 DEF Waiting
  <2> QED
    BY <1>4, <2>2 DEF swap, Waiting
<1>5. ASSUME NEW t \in Threads, quit(t) \/ Finish(t)
      PROVE  UNCHANGED Queue!vars
  BY <1>5 DEF quit, Finish, queueInLoopWakes, quitWakes
<1>6. CASE loopStart \/ loopTest \/ handleRead \/ handleIO \/ ioReturns \/ dispatchEnds
  BY <1>6 DEF loopStart, loopTest, handleRead, handleIO, ioReturns, dispatchEnds
<1>7. CASE setCalling \/ functorReturns \/ clearCalling
  BY <1>7 DEF setCalling, functorReturns, clearCalling
<1>8. CASE Polls \/ pollTimeout
  BY <1>8 DEF Polls, poll, pollTimeout
<1>9. CASE UNCHANGED vars
  BY <1>9 DEF vars
<1> QED
  BY <1>1, <1>2, <1>3, <1>4, <1>5, <1>6, <1>7, <1>8, <1>9 DEF Next, LoopStep, Queue!Next

\* The two vectors, the swap and the executing loop implement one first-in
\* first-out queue that loses, repeats and reorders nothing, for any set of
\* threads and functors (EventLoop.cc:102-122 and :156-168).
THEOREM LoopImplementsQueue == Spec => ImplementsQueue
<1>1. Init => Queue!Init
  BY DEF Init, Queue!Init
<1>2. IInv /\ [Next]_vars => [Queue!Next]_(Queue!vars)
  BY QueueStep
<1> QED
  BY <1>1, <1>2, Invariant, PTL DEF Spec, ImplementsQueue, Queue!Spec

------------------------------------------------------------------------------
(* EventLoopThread.                                                         *)

\* Every step of the thread and of its owner is a step of the loop, its callers
\* or neither.
LEMMA StepOfLoop == [ThreadNext]_allVars => [Next]_vars
<1> SUFFICES ASSUME [ThreadNext]_allVars PROVE [Next]_vars
  OBVIOUS
<1> USE OwnerAssumption DEF vars, threadVars, allVars, Next, Threads
<1>1. CASE startLoop \/ spuriousWakeup \/ destroy
  BY <1>1 DEF startLoop, spuriousWakeup, destroy
<1>2. CASE OwnerStep
  BY <1>2 DEF OwnerStep, semWait, condWait, destroyQuits, join
<1>3. CASE ThreadStep
  BY <1>3 DEF ThreadStep, createLoop, publish, clearLoop, unlock, destroyLoop
<1>4. CASE loopRuns
  BY <1>4 DEF loopRuns
<1>5. CASE \E t \in Threads : userCalls(t) \/ finishes(t)
  BY <1>5 DEF userCalls, finishes
<1>6. CASE UNCHANGED allVars
  BY <1>6
<1>. QED
  BY <1>1, <1>2, <1>3, <1>4, <1>5, <1>6 DEF ThreadNext

\* The loop of an EventLoopThread is an EventLoop, whatever its owner does
\* (EventLoopThread.cc:30-43).
THEOREM LoopOfThread == ThreadSpec => Spec
<1>1. ThreadInit => Init
  BY DEF ThreadInit
<1>. QED
  BY <1>1, StepOfLoop, PTL DEF ThreadSpec, Spec

\* No functor waits behind a blocked poll in a loop that is created, run and
\* destroyed by an EventLoopThread (EventLoop.cc:121).
THEOREM ThreadWakeupsAreNotMissed == ThreadSpec => []NoMissedWakeup
  BY LoopOfThread, WakeupsAreNotMissed, PTL

\* Its functors are executed once and in order (EventLoop.cc:156-168).
THEOREM ThreadImplementsQueue == ThreadSpec => ImplementsQueue
  BY LoopOfThread, LoopImplementsQueue, PTL

------------------------------------------------------------------------------

ThreadTypes ==
    /\ owner \in OwnerPhases
    /\ thread \in ThreadPhases
    /\ loop_ \in BOOLEAN /\ others \in BOOLEAN /\ lost \in BOOLEAN

\* The types of the thread, its owner and its loop.
THEOREM ThreadTypeCorrect == ThreadSpec => []ThreadTypeOK
<1>1. ThreadInit => ThreadTypes
  BY DEF ThreadInit, ThreadTypes, OwnerPhases, ThreadPhases
<1>2. ThreadTypes /\ [ThreadNext]_allVars => ThreadTypes'
  <2> SUFFICES ASSUME ThreadTypes, [ThreadNext]_allVars PROVE ThreadTypes'
    OBVIOUS
  <2> USE DEF ThreadTypes, OwnerPhases, ThreadPhases, OwnerMoves, ThreadMoves
  <2>1. CASE startLoop \/ spuriousWakeup \/ destroy
    BY <2>1 DEF startLoop, spuriousWakeup, destroy
  <2>2. CASE OwnerStep
    BY <2>2 DEF OwnerStep, semWait, condWait, destroyQuits, join
  <2>3. CASE ThreadStep
    BY <2>3 DEF ThreadStep, createLoop, publish, clearLoop, unlock, destroyLoop
  <2>4. CASE loopRuns
    BY <2>4 DEF loopRuns
  <2>5. CASE \E t \in Threads : userCalls(t) \/ finishes(t)
    BY <2>5 DEF userCalls, finishes, threadVars
  <2>6. CASE UNCHANGED allVars
    BY <2>6 DEF allVars, threadVars
  <2>. QED
    BY <2>1, <2>2, <2>3, <2>4, <2>5, <2>6 DEF ThreadNext
<1>3. ThreadSpec => []ThreadTypes
  BY <1>1, <1>2, PTL DEF ThreadSpec
<1>4. ThreadTypes /\ TypeOK => ThreadTypeOK
  BY DEF ThreadTypes, ThreadTypeOK
<1>. QED
  BY <1>3, <1>4, LoopOfThread, TypeCorrect, PTL

(***************************************************************************)
(* Unless somebody else made the loop quit, it ends only because the       *)
(* destructor told it to, so that the destructor finds loop_ set and joins.*)
(***************************************************************************)
Past == {"cleared", "unlocked", "ended"}

Ends ==
    /\ quit_ => others \/ owner \in {"joining", "gone"}
    /\ pc = "done" => quit_
    /\ thread \in Past => pc = "done"
    /\ owner \in {"has", "quitting"} => loop_ \/ others
    /\ loop_ => thread \notin Past
    /\ JoinedBeforeGone

\* The loop overwrites quit_ only at its start, and ends only when it is set.
LEMMA LoopQuits ==
  ASSUME pc = "done" => quit_, LoopStep \/ Polls \/ pollTimeout
  PROVE  /\ quit_' => quit_
         /\ pc' = "done" => quit_'
         /\ pc # "done"
BY DEF LoopStep, Polls, poll, pollTimeout, loopStart, loopTest, handleRead,
       handleIO, ioReturns, dispatchEnds, setCalling, swap, runFunctor,
       functorReturns, clearCalling, At, vars, callVars

LEMMA EndsNext == ThreadTypeOK /\ Ends /\ [ThreadNext]_allVars => Ends'
<1> SUFFICES ASSUME ThreadTypeOK, Ends, [ThreadNext]_allVars PROVE Ends'
  OBVIOUS
<1> USE DEF Ends, JoinedBeforeGone, Past, OwnerMoves, ThreadMoves, At
<1>1. CASE startLoop \/ spuriousWakeup \/ destroy
  BY <1>1 DEF startLoop, spuriousWakeup, destroy, vars
<1>2. CASE OwnerStep
  <2>1. CASE destroyQuits
    BY <2>1 DEF destroyQuits, quit, callVars
  <2>. QED
    BY <1>2, <2>1 DEF OwnerStep, semWait, condWait, join, vars
<1>3. CASE ThreadStep
  BY <1>3 DEF ThreadStep, createLoop, publish, clearLoop, unlock, destroyLoop, vars
<1>4. CASE loopRuns
  <2>1. LoopStep \/ Polls \/ pollTimeout
    BY <1>4 DEF loopRuns
  <2>. QED
    BY <1>4, <2>1, LoopQuits DEF loopRuns
<1>5. ASSUME NEW t \in Threads, userCalls(t) PROVE Ends'
  <2>1. /\ pc' = pc
        /\ UNCHANGED <<owner, thread, loop_>>
        /\ quit_' = quit_ \/ quit_' = TRUE
    BY <1>5 DEF userCalls, queueInLoop, runInLoop, quit, callVars
  <2>2. CASE quit_' = quit_
    <3>1. others' = others
      BY <1>5, <2>2 DEF userCalls, ThreadTypeOK
    <3>. QED
      BY <2>1, <2>2, <3>1
  <2>3. CASE quit_' # quit_
    <3>1. others' = TRUE /\ quit_' = TRUE
      BY <1>5, <2>1, <2>3 DEF userCalls
    <3>. QED
      BY <2>1, <3>1
  <2>. QED
    BY <2>2, <2>3
<1>6. ASSUME NEW t \in Threads, finishes(t) PROVE Ends'
  BY <1>6 DEF finishes, Finish, queueInLoopWakes, quitWakes, threadVars, callVars
<1>7. CASE UNCHANGED allVars
  BY <1>7 DEF allVars, threadVars, vars
<1>. QED
  BY <1>1, <1>2, <1>3, <1>4, <1>5, <1>6, <1>7 DEF ThreadNext

\* An EventLoopThread outlives its thread (EventLoopThread.cc:12-18).
THEOREM ThreadIsJoined == ThreadSpec => []JoinedBeforeGone
<1>1. ThreadInit => Ends
  BY DEF ThreadInit, Init, Ends, Past, JoinedBeforeGone
<1>2. Ends => JoinedBeforeGone
  BY DEF Ends
<1>. QED
  BY <1>1, <1>2, EndsNext, ThreadTypeCorrect, PTL DEF ThreadSpec

==============================================================================
