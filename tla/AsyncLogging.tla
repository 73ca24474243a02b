---------------------------- MODULE AsyncLogging ----------------------------
(***************************************************************************)
(* AsyncLogging (webserver/log/AsyncLogging.cc): threads append lines to   *)
(* the current of two large buffers under a mutex; a thread of its own     *)
(* takes the full ones, writes them to a LogFile, and recycles two of them *)
(* as the next spare buffers.                                              *)
(*                                                                         *)
(* A buffer is the sequence of its lines, a unique_ptr to one is the       *)
(* buffer or Null.  append holds the mutex from end to end, so that the    *)
(* threads that call it need not be told apart.  Lines are numbered in the *)
(* order in which they get the mutex; they come from Loggers, whose lines  *)
(* LogStream composes.                                                     *)
(***************************************************************************)
EXTENDS LogFile, LogStream, Functions

CONSTANTS
    NumLines,     \* bound of the model: how many lines are appended
    Pieces,       \* per line, the pieces its statement streams
    Fatal,        \* the lines of LOG_FATAL
    BufferSize,   \* kLargeBufferSize
    Null          \* a null pointer

Lines == 1..NumLines

ASSUME BufferAssumption ==
    /\ NumLines \in Nat
    /\ BufferSize \in Nat
    /\ Pieces \in [Lines -> Seq(Piece)]
    /\ Null \notin Seq(Lines)

\* the length of a line
LineSize == [l \in Lines |-> LineOf(Pieces[l])]

VARIABLES
    running_,
    currentBuffer_, nextBuffer_, buffers_,         \* under mutex_
    pc,                                            \* of the thread
    newbuffer1, newbuffer2, buffersToWrite, next,  \* its locals, next to write
    appended, dropped,                             \* how many lines came, and
                                                   \* those thrown away
    aborted                                        \* the process is gone

frontVars == <<currentBuffer_, nextBuffer_, buffers_>>
backVars == <<newbuffer1, newbuffer2, buffersToWrite, next>>
lineVars == <<appended, dropped, aborted>>
vars == <<running_, frontVars, pc, backVars, lineVars, now, fileVars>>

Pointer == Seq(Lines) \cup {Null}

\* length() of a buffer
Length(b) ==
    LET size[i \in 0..Len(b)] == IF i = 0 THEN 0 ELSE size[i - 1] + LineSize[b[i]]
    IN  size[Len(b)]

\* the lines that append took in
Accepted == 1..appended \ dropped

TypeOK ==
    /\ currentBuffer_ # Null => Length(currentBuffer_) <= BufferSize
    /\ running_ \in BOOLEAN
    /\ currentBuffer_ \in Pointer /\ nextBuffer_ \in Pointer
    /\ buffers_ \in Seq(Pointer)
    /\ pc \in {"created", "test", "lock", "wait", "write", "recycle", "done"}
    /\ newbuffer1 \in Pointer /\ newbuffer2 \in Pointer
    /\ buffersToWrite \in Seq(Pointer)
    /\ next \in Nat
    /\ appended \in 0..NumLines /\ dropped \subseteq Lines
    /\ aborted \in BOOLEAN
    /\ FileTypeOK(Lines)

Init ==
    /\ running_ = FALSE
    /\ currentBuffer_ = <<>> /\ nextBuffer_ = <<>> /\ buffers_ = <<>>
    /\ pc = "created"
    /\ newbuffer1 = <<>> /\ newbuffer2 = <<>>
    /\ buffersToWrite = <<>> /\ next = 1
    /\ appended = 0 /\ dropped = {} /\ aborted = FALSE
    /\ FileInit

------------------------------------------------------------------------------
(* The front end.                                                           *)

\* mutant: what the buffer holds already is forgotten
Fits_Empty(l) == BufferSize > LineSize[l]

\* avail() > len
Fits(l) == BufferSize - Length(currentBuffer_) > LineSize[l]

\* a line that does not fit is thrown away: it only makes room for the next
append_(l) ==
    /\ l = appended + 1
    /\ appended' = l
    /\ \/ /\ Fits(l)
          /\ currentBuffer_' = Append(currentBuffer_, l)
          /\ UNCHANGED <<nextBuffer_, buffers_, dropped>>
       \/ /\ ~Fits(l)
          /\ buffers_' = Append(buffers_, currentBuffer_)
          /\ currentBuffer_' = IF nextBuffer_ # Null THEN nextBuffer_ ELSE <<>>
          /\ nextBuffer_' = Null
          /\ dropped' = dropped \cup {l}
    /\ UNCHANGED <<running_, pc, backVars, now, fileVars, aborted>>

\* ~Logger of a LOG_FATAL, after g_output: g_flush flushes stdout, then abort
abort ==
    /\ \E l \in Fatal : l <= appended
    /\ aborted' = TRUE
    /\ UNCHANGED <<running_, frontVars, pc, backVars, appended, dropped,
                   now, fileVars>>

\* the thread opens its LogFile first
start ==
    /\ pc = "created"
    /\ running_' = TRUE
    /\ pc' = "test"
    /\ open
    /\ UNCHANGED <<frontVars, backVars, lineVars>>

stop ==
    /\ running_
    /\ running_' = FALSE
    /\ UNCHANGED <<frontVars, pc, backVars, lineVars, now, fileVars>>

------------------------------------------------------------------------------
(* The thread.                                                              *)

testRunning ==
    /\ pc = "test"
    /\ \/ running_ /\ pc' = "lock" /\ UNCHANGED fileVars
       \/ /\ ~running_
          /\ pc' = "done"
          /\ flush
          /\ UNCHANGED <<count_, startOfPeriod_, lastRoll_, lastFlush_,
                         writtenBytes_>>
    /\ UNCHANGED <<running_, frontVars, backVars, lineVars, now>>

\* the rest of the critical section
swap ==
    /\ buffersToWrite' = Append(buffers_, currentBuffer_)
    /\ buffers_' = buffersToWrite
    /\ currentBuffer_' = newbuffer1
    /\ newbuffer1' = Null
    /\ IF nextBuffer_ = Null
       THEN nextBuffer_' = newbuffer2 /\ newbuffer2' = Null
       ELSE UNCHANGED <<nextBuffer_, newbuffer2>>
    /\ next' = 1
    /\ pc' = "write"

\* with nothing to write the mutex is released until a notification comes, or
\* three seconds are over, or for no reason
lock ==
    /\ pc = "lock"
    /\ IF buffers_ = <<>> THEN pc' = "wait" /\ UNCHANGED <<frontVars, backVars>> ELSE swap
    /\ UNCHANGED <<running_, lineVars, now, fileVars>>

waitReturns ==
    /\ pc = "wait"
    /\ swap
    /\ UNCHANGED <<running_, lineVars, now, fileVars>>

writeBuffer ==
    /\ pc = "write"
    /\ next <= Len(buffersToWrite)
    /\ LET b == buffersToWrite[next] IN
          \E error \in BOOLEAN : append(b, Length(b), error)
    /\ next' = next + 1
    /\ UNCHANGED <<running_, frontVars, pc, newbuffer1, newbuffer2, buffersToWrite, lineVars>>

written ==
    /\ pc = "write"
    /\ next > Len(buffersToWrite)
    /\ pc' = "recycle"
    /\ UNCHANGED <<running_, frontVars, backVars, lineVars, now, fileVars>>

\* mutants: a buffer keeps its lines; one buffer at most is kept
Reset_Forgotten(b) == b
Spares_One == SubSeq(buffersToWrite, 1, 1)

Reset(b) == <<>>

\* the buffers that can be used again
Spares == IF Len(buffersToWrite) > 2 THEN SubSeq(buffersToWrite, 1, 2) ELSE buffersToWrite

\* how many buffers are moved out
Needed == (IF newbuffer1 = Null THEN 1 ELSE 0) + (IF newbuffer2 = Null THEN 1 ELSE 0)

recycle ==
    /\ pc = "recycle"
    /\ Needed <= Len(Spares)
    /\ newbuffer1' = IF newbuffer1 = Null THEN Reset(Spares[Len(Spares)]) ELSE newbuffer1
    /\ newbuffer2' = IF newbuffer2 = Null THEN Reset(Spares[Len(Spares) - Needed + 1])
                                          ELSE newbuffer2
    /\ buffersToWrite' = <<>>
    /\ next' = 1
    /\ pc' = "test"
    /\ flush
    /\ UNCHANGED <<running_, frontVars, lineVars, now, count_, startOfPeriod_,
                   lastRoll_, lastFlush_, writtenBytes_>>

clock == tick /\ UNCHANGED <<running_, frontVars, pc, backVars, lineVars>>

ThreadStep ==
    /\ ~aborted
    /\ testRunning \/ lock \/ waitReturns \/ writeBuffer \/ written \/ recycle

Next ==
    \/ ThreadStep
    \/ /\ ~aborted
       /\ (\E l \in Lines : append_(l)) \/ abort \/ start \/ stop \/ clock

Spec == Init /\ [][Next]_vars

\* the thread runs once it is started: no wait is longer than three seconds
FairSpec == Spec /\ WF_vars(ThreadStep)

------------------------------------------------------------------------------
(* Properties.                                                              *)

\* The files, the buffers being written, the full buffers and the current one
\* hold the lines that were taken in, in the order in which these came and once
\* each, except those lost to a write error (AsyncLogging.cc:21-32, :44-70).
Places == <<disk, unflushed>> \o SubSeq(buffersToWrite, next, Len(buffersToWrite))
             \o buffers_ \o <<currentBuffer_>>
LinesOf(ps) == UNION {Range(ps[p]) : p \in DOMAIN ps}
InOrder(ps) ==
    \A p, q \in DOMAIN ps : \A i \in DOMAIN ps[p], j \in DOMAIN ps[q] :
        p < q \/ (p = q /\ i < j) => ps[p][i] < ps[q][j]
LinesInOrder == InOrder(Places) /\ LinesOf(Places) = Accepted \ failed

\* The thread never takes the back() of an empty vector, and no thread finds
\* currentBuffer_ moved away: a spare buffer is only used up together with a
\* full one that comes back for it (AsyncLogging.cc:27, :49-52, :59-68).
BuffersSuffice ==
    /\ currentBuffer_ # Null
    /\ pc = "recycle" => Needed <= Len(Spares)

\* As long as the thread is not stopped and no LOG_FATAL aborts the process,
\* what append takes in gets to a file and is flushed, even if no line follows
\* and no notification comes (AsyncLogging.cc:44-70).
AcceptedIsFlushed ==
    \A l \in Lines :
        (running_ /\ l \in Accepted)
            ~> (l \in Range(disk) \cup failed \/ ~running_ \/ aborted)

\* As long as the thread is not stopped and nothing aborts, every line the front
\* end hands to append gets to a file (AsyncLogging.cc:20, AsyncLogging.h:14).
\* The line that finds the current buffer too full does not.
AppendedIsFlushed ==
    \A l \in Lines :
        (running_ /\ l <= appended)
            ~> (l \in Range(disk) \cup failed \/ ~running_ \/ aborted)
==============================================================================
