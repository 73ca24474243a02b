------------------------------ MODULE TaskQueue ------------------------------
(***************************************************************************)
(* What an event loop promises to the callers of runInLoop and queueInLoop *)
(* (webserver/include/EventLoop.h): a functor handed over by another       *)
(* thread waits in one first-in first-out queue and is executed exactly    *)
(* once by the loop thread; one handed over by the loop thread itself      *)
(* through runInLoop is executed on the spot.  Nothing is said here of the *)
(* mutex, the swap of two vectors or the eventfd that implement it.        *)
(***************************************************************************)
EXTENDS Sequences

CONSTANT Functors

VARIABLES
    waiting,    \* functors handed over and not executed yet, oldest first
    executed    \* functors in the order in which they were executed

vars == <<waiting, executed>>

TypeOK == waiting \in Seq(Functors) /\ executed \in Seq(Functors)

Init == waiting = <<>> /\ executed = <<>>

Enqueue(f) ==
    /\ waiting' = Append(waiting, f)
    /\ UNCHANGED executed

Execute ==
    /\ waiting # <<>>
    /\ executed' = Append(executed, Head(waiting))
    /\ waiting' = Tail(waiting)

ExecuteNow(f) ==
    /\ executed' = Append(executed, f)
    /\ UNCHANGED waiting

Next ==
    \/ \E f \in Functors : Enqueue(f) \/ ExecuteNow(f)
    \/ Execute

Spec == Init /\ [][Next]_vars
==============================================================================
