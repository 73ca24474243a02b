------------------------------ MODULE TcpOutput ------------------------------
(***************************************************************************)
(* The output path of one established TcpConnection (webserver/src/        *)
(* TcpConnection.cc): send, sendFile and shutdown called from the loop's   *)
(* thread and from others, the functors they queue, handleWrite with       *)
(* partial writes, write errors, and the peer closing or resetting the     *)
(* connection.  The loop's functor queue is the first-in first-out queue   *)
(* of TaskQueue, which EventLoop implements.                               *)
(*                                                                         *)
(* A message is sent as the sequence of its units <<message, i>>; a file   *)
(* is only counted.  The connection outlives the calls made on it (its     *)
(* lifetime is the subject of TcpServer).                                  *)
(***************************************************************************)
EXTENDS Naturals, Sequences, FiniteSets

CONSTANTS
    LoopThread,      \* the thread of the connection's loop
    Callers,         \* the threads that call send, sendFile and shutdown
    Messages,        \* what they send, each at most once
    Size,            \* the length of a message
    Files,           \* what they sendFile, each at most once
    FileSize,        \* the count argument of every sendFile
    HighWaterMark,   \* highWaterMark_
    WriteCompleteCallback   \* is a writeCompleteCallback_ set?

ASSUME SizeAssumption ==
    /\ Size \in [Messages -> Nat \ {0}]
    /\ FileSize \in Nat \ {0}
    /\ HighWaterMark \in Nat \ {0}
    /\ WriteCompleteCallback \in BOOLEAN

VARIABLES
    state_,          \* of the connection
    reading,         \* the channel's interest in EPOLLIN
    writing,         \* the channel's interest in EPOLLOUT, isWriting()
    outputBuffer_,   \* units waiting for the socket
    functors,        \* of the loop, for this connection: batch of them are
    batch,           \* being run, the others were queued since
    call,            \* per caller, a call that has tested state_ and not acted
    fresh,           \* messages and files not submitted yet
    sent,            \* message units the kernel took, in order
    fileSent,        \* per file, units the kernel took
    shutWr, reset,   \* the socket: write side shut, connection reset by peer
    accepted,        \* units sendInLoop took charge of, in order
    lost,            \* messages sendInLoop gave up on
    dropped,         \* files sendFileInLoop gave up on
    written,         \* how many messages and files sendInLoop took charge of or
                     \* sendFileInLoop sent to the end
    told,            \* how often writeCompleteCallback_ was queued
    owed             \* how many of written there are since it was queued last

socketVars == <<shutWr, reset>>
reportVars == <<written, told, owed>>
vars == <<state_, reading, writing, outputBuffer_, functors, batch, call, fresh, sent,
          fileSent, shutWr, reset, accepted, lost, dropped, written, told, owed>>

Unit == (Messages \cup {"stale"}) \X Nat
Units(m) == [i \in 1..Size[m] |-> <<m, i>>]

\* What a std::string of that length reads as once it is freed
Stale(m) == [i \in 1..Size[m] |-> <<"stale", i>>]

Idle == [op |-> "none"]
Functor ==
    [op : {"sendInLoop"}, msg : Messages, data : Seq(Unit)]
        \cup [op : {"sendFileInLoop"}, file : Files, remaining : Nat \ {0}]
        \cup [op : {"shutdownInLoop", "writeComplete", "highWaterMark"}]
Call == {Idle} \cup [op : {"shutdown", "runInLoop"}]
            \cup [op : {"send"}, msg : Messages] \cup [op : {"sendFile"}, file : Files]

TypeOK ==
    /\ state_ \in {"kConnected", "kDisconnecting", "kDisconnected"}
    /\ reading \in BOOLEAN /\ writing \in BOOLEAN
    /\ outputBuffer_ \in Seq(Unit)
    /\ functors \in Seq(Functor)
    /\ batch \in 0..Len(functors)
    /\ call \in [Callers -> Call]
    /\ fresh \subseteq Messages \cup Files
    /\ sent \in Seq(Unit) /\ accepted \in Seq(Unit)
    /\ fileSent \in [Files -> Nat]
    /\ shutWr \in BOOLEAN /\ reset \in BOOLEAN
    /\ lost \subseteq Messages /\ dropped \subseteq Files
    /\ written \in Nat /\ told \in Nat /\ owed \in Nat

\* after connectEstablished
Init ==
    /\ state_ = "kConnected"
    /\ reading = TRUE
    /\ writing = FALSE
    /\ outputBuffer_ = <<>>
    /\ functors = <<>>
    /\ batch = 0
    /\ call = [t \in Callers |-> Idle]
    /\ fresh = Messages \cup Files
    /\ sent = <<>>
    /\ fileSent = [f \in Files |-> 0]
    /\ shutWr = FALSE
    /\ reset = FALSE
    /\ accepted = <<>>
    /\ lost = {}
    /\ dropped = {}
    /\ written = 0 /\ told = 0 /\ owed = 0

------------------------------------------------------------------------------
(* The socket.                                                              *)

\* write or sendfile of len units: n of them are taken, or none on
\* EWOULDBLOCK, or the call fails with EPIPE or ECONNRESET
Kernel(len, n, fault) ==
    IF shutWr \/ reset THEN n = 0 /\ fault ELSE n \in 0..len /\ ~fault

\* mutant: a write that does not look at what waits already
WriteDirectly_Always == TRUE

\* isWriting() is false and the buffer is empty: try to write at once
WriteDirectly == ~writing /\ outputBuffer_ = <<>>

TryWrite(len, n, fault) ==
    IF WriteDirectly THEN Kernel(len, n, fault) ELSE n = 0 /\ ~fault

\* mutant: the callback is never queued
Completes_Never(done) == FALSE

\* queue writeCompleteCallback_ when everything was written
Completes(done) == done /\ WriteCompleteCallback
Complete(done) == IF Completes(done) THEN <<[op |-> "writeComplete"]>> ELSE <<>>

Report(new, done) ==
    /\ written' = written + new
    /\ told' = told + Len(Complete(done))
    /\ owed' = IF Completes(done) THEN 0 ELSE owed + new

\* mutant: nobody stops listening to EPOLLOUT
KeepsWriting_Always(drained) == TRUE

\* enableWriting and disableWriting
NeedsWriting(rest) == rest # <<>>
KeepsWriting(drained) == ~drained

\* mutants: the write side is shut at once; never after a drain
CanShutdown_Always == TRUE
ShutsAfter_Never(drained) == FALSE

\* shutdownInLoop's test, and handleWrite's
CanShutdown == ~writing
ShutsAfter(drained) == drained /\ state_ = "kDisconnecting"

\* mutant: sendfile's result is not subtracted
Remaining_All(count, n) == count

Remaining(count, n) == count - n

------------------------------------------------------------------------------
(* The functions that run in the loop; q is what is left in its queue.      *)

\* the buffer passes the mark
Crosses(oldlen, remaining) ==
    oldlen + remaining >= HighWaterMark /\ oldlen < HighWaterMark

sendInLoop(m, data, q) ==
    \E n \in 0..Len(data), fault \in BOOLEAN :
        LET rest == SubSeq(data, n + 1, Len(data))
            done == WriteDirectly /\ ~fault /\ rest = <<>>
        IN
        /\ TryWrite(Len(data), n, fault)
        /\ sent' = sent \o SubSeq(data, 1, n)
        /\ IF fault
           THEN /\ lost' = lost \cup {m}
                /\ UNCHANGED <<accepted, outputBuffer_, writing, reportVars>>
                /\ functors' = q
           ELSE /\ accepted' = accepted \o data
                /\ outputBuffer_' = outputBuffer_ \o rest
                /\ writing' = (writing \/ NeedsWriting(rest))
                /\ Report(1, done)
                /\ functors' = q \o Complete(done)
                      \o (IF rest # <<>> /\ Crosses(Len(outputBuffer_), Len(rest))
                          THEN <<[op |-> "highWaterMark"]>> ELSE <<>>)
                /\ UNCHANGED lost
        /\ UNCHANGED <<state_, reading, fileSent, dropped, socketVars>>

\* gives up, and drops the file, only in kDisconnecting; on EWOULDBLOCK or
\* with units in the buffer it queues itself again
sendFileInLoop(f, count, q) ==
    \/ /\ state_ = "kDisconnecting"
       /\ dropped' = dropped \cup {f}
       /\ functors' = q
       /\ UNCHANGED <<state_, reading, writing, outputBuffer_, sent, fileSent,
                      socketVars, accepted, lost, reportVars>>
    \/ /\ state_ # "kDisconnecting"
       /\ \E n \in 0..count, fault \in BOOLEAN :
             /\ TryWrite(count, n, fault)
             /\ fileSent' = [fileSent EXCEPT ![f] = @ + n]
             /\ dropped' = IF fault THEN dropped \cup {f} ELSE dropped
             /\ functors' = q \o
                   IF n = count \/ fault THEN Complete(n = count)
                   ELSE <<[op |-> "sendFileInLoop", file |-> f,
                           remaining |-> Remaining(count, n)]>>
             /\ Report(IF n = count THEN 1 ELSE 0, n = count)
       /\ UNCHANGED <<state_, reading, writing, outputBuffer_, sent, socketVars,
                      accepted, lost>>

shutdownInLoop(q) ==
    /\ functors' = q
    /\ shutWr' = (shutWr \/ CanShutdown)
    /\ UNCHANGED <<state_, reading, writing, outputBuffer_, sent, fileSent,
                   reset, accepted, lost, dropped, reportVars>>

\* a callback of the user that changes nothing here
runCallback(q) ==
    /\ functors' = q
    /\ UNCHANGED <<state_, reading, writing, outputBuffer_, sent, fileSent,
                   socketVars, accepted, lost, dropped, reportVars>>

------------------------------------------------------------------------------
(* The public operations: they test state_, then act.  In the loop's thread *)
(* the two are one step; another thread is overtaken between them.          *)

inLoop(t) == t = LoopThread

CallOf(t, c) ==
    /\ t \in Callers
    /\ call[t] = Idle
    /\ state_ = "kConnected"
    /\ IF inLoop(t) THEN UNCHANGED call ELSE call' = [call EXCEPT ![t] = c]
    /\ UNCHANGED batch

NothingElse == UNCHANGED <<state_, reading, writing, outputBuffer_, functors,
                           sent, fileSent, socketVars, accepted, lost, dropped, reportVars>>

send(t, m) ==
    /\ CallOf(t, [op |-> "send", msg |-> m])
    /\ m \in fresh
    /\ fresh' = fresh \ {m}
    /\ IF inLoop(t) THEN sendInLoop(m, Units(m), functors) ELSE NothingElse

sendFile(t, f) ==
    /\ CallOf(t, [op |-> "sendFile", file |-> f])
    /\ f \in fresh
    /\ fresh' = fresh \ {f}
    /\ IF inLoop(t) THEN sendFileInLoop(f, FileSize, functors) ELSE NothingElse

\* setState(kDisconnecting) and runInLoop
shutdownHere ==
    /\ state_' = "kDisconnecting"
    /\ shutWr' = (shutWr \/ CanShutdown)
    /\ UNCHANGED <<reading, writing, outputBuffer_, functors, sent, fileSent,
                   reset, accepted, lost, dropped, reportVars>>

shutdown(t) ==
    /\ CallOf(t, [op |-> "shutdown"])
    /\ UNCHANGED fresh
    /\ IF inLoop(t) THEN shutdownHere ELSE NothingElse

setDisconnecting(t) ==
    /\ call[t].op = "shutdown"
    /\ state_' = "kDisconnecting"
    /\ call' = [call EXCEPT ![t] = [op |-> "runInLoop"]]
    /\ UNCHANGED <<reading, writing, outputBuffer_, functors, batch, fresh,
                   sent, fileSent, socketVars, accepted, lost, dropped, reportVars>>

\* The last part of a call by another thread.  send binds the pointer of the
\* caller's string: the functor reads the string or what has replaced it.
Functors(t) ==
    CASE call[t].op = "send" ->
            [op : {"sendInLoop"}, msg : {call[t].msg},
             data : {Units(call[t].msg), Stale(call[t].msg)}]
      [] call[t].op = "sendFile" ->
            [op : {"sendFileInLoop"}, file : {call[t].file}, remaining : {FileSize}]
      [] call[t].op = "runInLoop" -> [op : {"shutdownInLoop"}]
      [] OTHER -> {}

queueCall(t) ==
    /\ \E f \in Functors(t) : functors' = Append(functors, f)
    /\ call' = [call EXCEPT ![t] = Idle]
    /\ UNCHANGED <<batch, state_, reading, writing, outputBuffer_, fresh, sent, fileSent,
                   socketVars, accepted, lost, dropped, reportVars>>

------------------------------------------------------------------------------
(* The loop: functors and the channel's events.                             *)

\* mutant: one functor too many
BatchSize_OffByOne == Len(functors) + 1

BatchSize == Len(functors)

\* doPendingFunctors swaps the queue away
takeBatch ==
    /\ batch = 0
    /\ functors # <<>>
    /\ batch' = BatchSize
    /\ UNCHANGED <<state_, reading, writing, outputBuffer_, functors, call,
                   fresh, sent, fileSent, socketVars, accepted, lost, dropped, reportVars>>

runFunctor ==
    /\ batch > 0
    /\ batch' = batch - 1
    /\ LET f == Head(functors) IN
          \/ f.op = "sendInLoop" /\ sendInLoop(f.msg, f.data, Tail(functors))
          \/ f.op = "sendFileInLoop" /\ sendFileInLoop(f.file, f.remaining, Tail(functors))
          \/ f.op = "shutdownInLoop" /\ shutdownInLoop(Tail(functors))
          \/ f.op \in {"writeComplete", "highWaterMark"} /\ runCallback(Tail(functors))
    /\ UNCHANGED <<call, fresh>>

\* EPOLLOUT: n units of the buffer are written (a write that takes nothing
\* changes nothing); the shutdown that waited for the last one is done here
handleWrite ==
    /\ batch = 0
    /\ writing
    /\ \E n \in 1..Len(outputBuffer_) :
          LET drained == n = Len(outputBuffer_) IN
          /\ Kernel(Len(outputBuffer_), n, FALSE)
          /\ sent' = sent \o SubSeq(outputBuffer_, 1, n)
          /\ outputBuffer_' = SubSeq(outputBuffer_, n + 1, Len(outputBuffer_))
          /\ writing' = KeepsWriting(drained)
          /\ functors' = functors \o Complete(drained)
          /\ Report(0, drained)
          /\ shutWr' = (shutWr \/ ShutsAfter(drained))
    /\ UNCHANGED <<state_, reading, batch, call, fresh, fileSent, reset,
                   accepted, lost, dropped>>

\* read returns 0, or EPOLLHUP: the connection is over
handleClose ==
    /\ batch = 0
    /\ reading \/ writing
    /\ state_' = "kDisconnected"
    /\ reading' = FALSE
    /\ writing' = FALSE
    /\ UNCHANGED <<outputBuffer_, functors, batch, call, fresh, sent, fileSent,
                   socketVars, accepted, lost, dropped, reportVars>>

\* the network: a RST arrives
peerReset ==
    /\ ~reset
    /\ reset' = TRUE
    /\ UNCHANGED <<state_, reading, writing, outputBuffer_, functors, batch,
                   call, fresh, sent, fileSent, shutWr, accepted, lost, dropped, reportVars>>

Next ==
    \/ \E t \in Callers : \/ \E m \in Messages : send(t, m)
                          \/ \E f \in Files : sendFile(t, f)
                          \/ shutdown(t)
                          \/ setDisconnecting(t)
                          \/ queueCall(t)
    \/ takeBatch
    \/ runFunctor
    \/ handleWrite
    \/ handleClose
    \/ peerReset

Spec == Init /\ [][Next]_vars

\* The loop runs its functors and a call begun is finished.  The poller is
\* level-triggered, so that a socket with room is reported between two batches
\* of functors as long as its channel is writing; the peer keeps reading.
FairSpec ==
    /\ Spec
    /\ WF_vars(takeBatch \/ runFunctor)
    /\ SF_vars(handleWrite)
    /\ \A t \in Callers : WF_vars(setDisconnecting(t) \/ queueCall(t))

------------------------------------------------------------------------------
(* Properties.                                                              *)

\* The bytes the socket took, followed by those in the buffer, are the bytes
\* sendInLoop was given, in that order: nothing is lost, repeated or reordered
\* over direct writes, partial writes, drains, errors and closes
\* (TcpConnection.cc:57-95 and :144-164).
StreamIntact == sent \o outputBuffer_ = accepted

\* While the channel is registered the loop listens to EPOLLOUT exactly when
\* there is something to write: a buffer with nobody to drain it would stall
\* the connection, an empty one would keep the loop spinning
\* (TcpConnection.cc:93 and :151).
WritingIffBuffered ==
    /\ reading => (writing <=> outputBuffer_ # <<>>)
    /\ writing => outputBuffer_ # <<>>

\* The write side of an open connection is shut only after the buffer drained,
\* whether shutdownInLoop or handleWrite does it (TcpConnection.cc:106, :156).
ShutdownAfterDrain == shutWr /\ reading => outputBuffer_ = <<>>

\* writeCompleteCallback_ is queued neither too seldom nor too often: when nothing
\* waits, it was queued after the last message that was taken or file that was
\* sent; and each time it is queued, for another message or file than before, one
\* at least, however they were cut into pieces (TcpConnection.cc:68, :154, :212).
CompletionTold ==
    WriteCompleteCallback =>
        /\ reading /\ outputBuffer_ = <<>> => owed = 0
        /\ told + owed <= written

\* A file is passed to the socket piece by piece with no piece skipped or
\* repeated: what was sent and what the one queued functor still has to send
\* add up to the file (TcpConnection.cc:207-220).
InQueue(f) == {i \in 1..Len(functors) :
                  functors[i].op = "sendFileInLoop" /\ functors[i].file = f}
FileConserved ==
    \A f \in Files :
        /\ Cardinality(InQueue(f)) <= 1
        /\ \A i \in InQueue(f) : fileSent[f] + functors[i].remaining = FileSize
        /\ InQueue(f) = {} /\ fileSent[f] > 0 => fileSent[f] = FileSize \/ f \in dropped

\* shutdown shuts the write side in the end, unless the connection is closed
\* or reset first.
ShutdownCompletes ==
    (state_ = "kDisconnecting") ~> (shutWr \/ ~reading \/ reset)
==============================================================================
