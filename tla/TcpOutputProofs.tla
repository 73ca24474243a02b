--------------------------- MODULE TcpOutputProofs ---------------------------
(***************************************************************************)
(* What the output path of a connection guarantees for any callers,        *)
(* messages of any size, and any number of files.                          *)
(***************************************************************************)
EXTENDS TcpOutput, SequenceTheorems, FiniteSetTheorems, TLAPS

\* TypeOK but for the variables that only calls and batches change
LoopTypes ==
    /\ state_ \in {"kConnected", "kDisconnecting", "kDisconnected"}
    /\ reading \in BOOLEAN /\ writing \in BOOLEAN
    /\ outputBuffer_ \in Seq(Unit)
    /\ functors \in Seq(Functor)
    /\ sent \in Seq(Unit) /\ accepted \in Seq(Unit)
    /\ fileSent \in [Files -> Nat]
    /\ shutWr \in BOOLEAN /\ reset \in BOOLEAN
    /\ lost \subseteq Messages /\ dropped \subseteq Files
    /\ written \in Nat /\ told \in Nat /\ owed \in Nat

\* What waits was taken after the callback was queued last.
BufferOwed == WriteCompleteCallback /\ outputBuffer_ # <<>> => owed > 0

\* The properties of the stream depend on each other: shutWr is only set when
\* isWriting() is false, which says something of the buffer only because
\* interest in EPOLLOUT and the buffer agree.  The callback is not queued too
\* often because a drain always ends something that is owed.
Stream == /\ StreamIntact /\ WritingIffBuffered /\ ShutdownAfterDrain
          /\ CompletionTold /\ BufferOwed

IInv == TypeOK /\ Stream

streamVars == <<reading, writing, outputBuffer_, sent, shutWr, accepted, written, told, owed>>

\* A step that leaves the stream alone keeps its properties.
LEMMA StreamUnchanged == Stream /\ UNCHANGED streamVars => Stream'
BY DEF Stream, StreamIntact, WritingIffBuffered, ShutdownAfterDrain, CompletionTold,
       BufferOwed, streamVars

------------------------------------------------------------------------------
(* Data.                                                                    *)

\* What a write took and what it left are the data.
LEMMA SplitData ==
    ASSUME NEW data \in Seq(Unit), NEW n \in 0..Len(data)
    PROVE  /\ SubSeq(data, 1, n) \in Seq(Unit)
           /\ SubSeq(data, n + 1, Len(data)) \in Seq(Unit)
           /\ SubSeq(data, 1, n) \o SubSeq(data, n + 1, Len(data)) = data
           /\ n = 0 => SubSeq(data, 1, n) = <<>>
           /\ n = 0 => SubSeq(data, n + 1, Len(data)) = data
           /\ SubSeq(data, n + 1, Len(data)) = <<>> => n = Len(data)
           /\ n = Len(data) => SubSeq(data, n + 1, Len(data)) = <<>>
<1>1. Len(data) \in Nat /\ n \in Nat /\ n <= Len(data)
  OBVIOUS
<1>2. \A i \in 1..Len(data) : data[i] \in Unit
  OBVIOUS
<1>3. SubSeq(data, 1, n) \in Seq(Unit)
  BY <1>1, <1>2, SubSeqProperties
<1>4. /\ SubSeq(data, n + 1, Len(data)) \in Seq(Unit)
      /\ Len(SubSeq(data, n + 1, Len(data))) = IF n + 1 <= Len(data) THEN Len(data) - n ELSE 0
  BY <1>1, <1>2, SubSeqProperties
<1>5. SubSeq(data, 1, n) \o SubSeq(data, n + 1, Len(data)) = SubSeq(data, 1, Len(data))
  <2>1. 1 \in 1..(Len(data) + 1) /\ n \in (1 - 1)..Len(data) /\ Len(data) \in n..Len(data)
    BY <1>1
  <2> QED
    BY <2>1, ConcatAdjacentSubSeq, Zenon
<1>6. SubSeq(data, 1, Len(data)) = data
  BY SubSeqFull
<1>7. n = 0 => SubSeq(data, 1, n) = <<>>
  BY SubSeqEmpty
<1>8. n = 0 => SubSeq(data, n + 1, Len(data)) = data
  BY <1>6
<1>9. n = Len(data) => SubSeq(data, n + 1, Len(data)) = <<>>
  BY <1>1, SubSeqEmpty
<1>10. SubSeq(data, n + 1, Len(data)) = <<>> => n = Len(data)
  <2> SUFFICES ASSUME n # Len(data) PROVE SubSeq(data, n + 1, Len(data)) # <<>>
    OBVIOUS
  <2>1. Len(SubSeq(data, n + 1, Len(data))) # 0
    BY <1>1, <1>4
  <2>2. Len(<<>>) = 0
    OBVIOUS
  <2> QED
    BY <2>1, <2>2
<1> QED
  BY <1>3, <1>4, <1>5, <1>6, <1>7, <1>8, <1>9, <1>10

\* A message, and what a freed string may read as, are sequences of units.
LEMMA MessageTypes ==
    ASSUME NEW m \in Messages
    PROVE  Units(m) \in Seq(Unit) /\ Stale(m) \in Seq(Unit)
<1>1. Size[m] \in Nat
  BY SizeAssumption
<1>2. \A i \in 1..Size[m] : <<m, i>> \in Unit /\ <<"stale", i>> \in Unit
  BY <1>1 DEF Unit
<1> QED
  BY <1>1, <1>2 DEF Units, Stale

\* Concatenation of sequences of units is associative.
LEMMA UnitsConcat ==
    ASSUME NEW s \in Seq(Unit), NEW t \in Seq(Unit), NEW u \in Seq(Unit)
    PROVE  (s \o t) \o u = s \o (t \o u)
BY ConcatAssociative

\* Queueing functors behind others does not shorten the queue.
LEMMA Queueing ==
    ASSUME NEW q \in Seq(Functor), NEW s \in Seq(Functor)
    PROVE  q \o s \in Seq(Functor) /\ Len(q \o s) >= Len(q)
BY ConcatProperties, LenProperties

\* The queue gets at most the write-complete callback.
LEMMA CompleteType ==
    ASSUME NEW done \in BOOLEAN
    PROVE  Complete(done) \in Seq(Functor)
<1>1. [op |-> "writeComplete"] \in Functor
  BY DEF Functor
<1>2. <<[op |-> "writeComplete"]>> \in Seq(Functor) /\ <<>> \in Seq(Functor)
  BY <1>1
<1> QED
  BY <1>2 DEF Complete

\* A report is not one too many if something is owed when it is made.
LEMMA Reporting ==
    ASSUME written \in Nat, told \in Nat, owed \in Nat, told + owed <= written,
           NEW new \in Nat, NEW done \in BOOLEAN, Report(new, done),
           done => owed + new > 0
    PROVE  /\ told' + owed' <= written'
           /\ done /\ WriteCompleteCallback => owed' = 0
           /\ ~done => owed' = owed + new
<1>1. /\ written' = written + new
      /\ told' = told + Len(Complete(done))
      /\ owed' = IF Completes(done) THEN 0 ELSE owed + new
  BY DEF Report
<1>2. CASE Completes(done)
  <2>1. Len(Complete(done)) = 1
    BY <1>2 DEF Complete
  <2>2. done
    BY <1>2 DEF Completes
  <2> QED
    BY <1>1, <1>2, <2>1, <2>2
<1>3. CASE ~Completes(done)
  <2>1. Len(Complete(done)) = 0
    BY <1>3 DEF Complete
  <2>2. ~(done /\ WriteCompleteCallback)
    BY <1>3 DEF Completes
  <2> QED
    BY <1>1, <1>3, <2>1, <2>2
<1> QED
  BY <1>2, <1>3

\* The counters of reports are numbers.
LEMMA ReportTypes ==
    ASSUME written \in Nat, told \in Nat, owed \in Nat,
           NEW new \in Nat, NEW done \in BOOLEAN, Report(new, done)
    PROVE  written' \in Nat /\ told' \in Nat /\ owed' \in Nat
<1>1. Len(Complete(done)) \in Nat
  BY CompleteType, LenProperties
<1> QED
  BY <1>1 DEF Report

------------------------------------------------------------------------------
(* The functions that run in the loop.                                      *)

\* sendInLoop keeps the stream, whatever the kernel takes of the data.
LEMMA SendKeeps ==
    ASSUME LoopTypes, Stream, NEW m \in Messages, NEW data \in Seq(Unit),
           NEW q \in Seq(Functor), sendInLoop(m, data, q)
    PROVE  LoopTypes' /\ Stream' /\ Len(functors') >= Len(q)
<1>1. PICK n \in 0..Len(data), fault \in BOOLEAN :
        LET rest == SubSeq(data, n + 1, Len(data))
            done == WriteDirectly /\ ~fault /\ rest = <<>>
        IN
        /\ TryWrite(Len(data), n, fault)
        /\ sent' = sent \o SubSeq(data, 1, n)
        /\ IF fault
           THEN /\ lost' = lost \cup {m}
                /\ UNCHANGED <<accepted, outputBuffer_, writing, reportVars>>
                /\ functors' = q
           ELSE /\ accepted' = accepted \o data
                /\ outputBuffer_' = outputBuffer_ \o rest
                /\ writing' = (writing \/ NeedsWriting(rest))
                /\ Report(1, done)
                /\ functors' = q \o Complete(done)
                      \o (IF rest # <<>> /\ Crosses(Len(outputBuffer_), Len(rest))
                          THEN <<[op |-> "highWaterMark"]>> ELSE <<>>)
                /\ UNCHANGED lost
        /\ UNCHANGED <<state_, reading, fileSent, dropped, socketVars>>
  BY DEF sendInLoop
<1> DEFINE head == SubSeq(data, 1, n)
           rest == SubSeq(data, n + 1, Len(data))
           done == WriteDirectly /\ ~fault /\ rest = <<>>
           mark == IF rest # <<>> /\ Crosses(Len(outputBuffer_), Len(rest))
                   THEN <<[op |-> "highWaterMark"]>> ELSE <<>>
<1>2. /\ head \in Seq(Unit) /\ rest \in Seq(Unit)
      /\ head \o rest = data
      /\ n = 0 => head = <<>> /\ rest = data
      /\ rest = <<>> => n = Len(data)
  BY SplitData
<1>3. UNCHANGED <<state_, reading, fileSent, dropped, shutWr, reset>>
  BY <1>1 DEF socketVars
<1>4. /\ WriteDirectly => Kernel(Len(data), n, fault)
      /\ ~WriteDirectly => n = 0 /\ ~fault
  BY <1>1 DEF TryWrite
<1>5. CASE fault
  <2>1. n = 0
    BY <1>4, <1>5 DEF Kernel
  <2>2. sent' = sent
    BY <1>1, <1>2, <2>1, ConcatEmptySeq DEF LoopTypes
  <2>3. UNCHANGED streamVars
    BY <1>1, <1>3, <1>5, <2>2 DEF streamVars, reportVars
  <2>4. functors' = q /\ lost' = lost \cup {m}
    BY <1>1, <1>5
  <2>5. Stream'
    BY <2>3, StreamUnchanged
  <2>6. LoopTypes'
    BY <1>3, <2>3, <2>4 DEF LoopTypes, streamVars
  <2>7. Len(functors') >= Len(q)
    BY <2>4, LenProperties
  <2> QED
    BY <2>5, <2>6, <2>7
<1>6. CASE ~fault
  <2>1. /\ sent' = sent \o head
        /\ accepted' = accepted \o data
        /\ outputBuffer_' = outputBuffer_ \o rest
        /\ writing' = (writing \/ NeedsWriting(rest))
        /\ Report(1, done)
        /\ functors' = q \o Complete(done) \o mark
        /\ lost' = lost
    BY <1>1, <1>6
  <2>2. done = (WriteDirectly /\ rest = <<>>)
    BY <1>6
  <2> HIDE DEF head, rest, done, mark
  <2>3. outputBuffer_ # <<>> => n = 0
    BY <1>4 DEF WriteDirectly
  <2>4. StreamIntact'
    <3>1. sent \o outputBuffer_ = accepted
      BY DEF Stream, StreamIntact
    <3>2. sent \in Seq(Unit) /\ outputBuffer_ \in Seq(Unit) /\ accepted \in Seq(Unit)
      BY DEF LoopTypes
    <3>3. (sent \o head) \o (outputBuffer_ \o rest) = accepted \o data
      <4>1. CASE outputBuffer_ = <<>>
        <5>1. accepted = sent /\ outputBuffer_ \o rest = rest
          BY <3>1, <3>2, <4>1, <1>2, ConcatEmptySeq
        <5>2. (sent \o head) \o rest = sent \o (head \o rest)
          BY <3>2, <1>2, UnitsConcat, ZenonT(30)
        <5> QED
          BY <5>1, <5>2, <1>2
      <4>2. CASE outputBuffer_ # <<>>
        <5>1. head = <<>> /\ rest = data
          BY <2>3, <4>2, <1>2
        <5>2. sent \o head = sent
          BY <3>2, <5>1, ConcatEmptySeq
        <5>3. sent \o (outputBuffer_ \o data) = (sent \o outputBuffer_) \o data
          BY <3>2, UnitsConcat, SMTT(30)
        <5> QED
          BY <5>1, <5>2, <5>3, <3>1
      <4> QED
        BY <4>1, <4>2
    <3> QED
      BY <2>1, <3>3 DEF StreamIntact
  <2>5. outputBuffer_' = <<>> <=> outputBuffer_ = <<>> /\ rest = <<>>
    BY <1>2, <2>1, ConcatEqualIffEmpty DEF LoopTypes
  <2>6. WritingIffBuffered'
    BY <1>3, <2>1, <2>5 DEF Stream, WritingIffBuffered, NeedsWriting
  <2>7. ShutdownAfterDrain'
    BY <1>3, <1>4, <1>6 DEF Stream, WritingIffBuffered, ShutdownAfterDrain,
                            WriteDirectly, Kernel
  <2>8. done \in BOOLEAN
    BY <2>2, Zenon
  <2>8a. CompletionTold' /\ BufferOwed'
    <3> SUFFICES ASSUME WriteCompleteCallback
                 PROVE  /\ reading' /\ outputBuffer_' = <<>> => owed' = 0
                        /\ told' + owed' <= written'
                        /\ outputBuffer_' # <<>> => owed' > 0
      BY DEF CompletionTold, BufferOwed
    <3>1. /\ written \in Nat /\ told \in Nat /\ owed \in Nat
          /\ told + owed <= written
      BY DEF LoopTypes, Stream, CompletionTold
    <3>2. /\ told' + owed' <= written'
          /\ done => owed' = 0
          /\ ~done => owed' = owed + 1
      BY <2>1, <2>8, <3>1, Reporting
    <3>3. reading' /\ outputBuffer_' = <<>> => done
      BY <1>3, <2>2, <2>5 DEF Stream, WritingIffBuffered, WriteDirectly
    <3>4. done => outputBuffer_' = <<>>
      BY <2>2, <2>5 DEF WriteDirectly
    <3> QED
      BY <3>1, <3>2, <3>3, <3>4
  <2>9. Complete(done) \in Seq(Functor) /\ mark \in Seq(Functor)
    <3>2. [op |-> "highWaterMark"] \in Functor
      BY DEF Functor
    <3>3. <<[op |-> "highWaterMark"]>> \in Seq(Functor) /\ <<>> \in Seq(Functor)
      BY <3>2
    <3> QED
      BY <2>8, <3>3, CompleteType DEF mark
  <2>10. functors' \in Seq(Functor) /\ Len(functors') >= Len(q)
    <3>1. q \o Complete(done) \in Seq(Functor) /\ Len(q \o Complete(done)) >= Len(q)
      BY <2>9, Queueing
    <3>2. /\ functors' \in Seq(Functor)
          /\ Len(functors') >= Len(q \o Complete(done))
      BY <2>1, <2>9, <3>1, Queueing
    <3>3. Len(functors') \in Nat /\ Len(q \o Complete(done)) \in Nat /\ Len(q) \in Nat
      BY <3>1, <3>2, LenProperties
    <3> QED
      BY <3>1, <3>2, <3>3
  <2>11. LoopTypes'
    <3>1. /\ sent' \in Seq(Unit) /\ accepted' \in Seq(Unit)
          /\ outputBuffer_' \in Seq(Unit)
      BY <1>2, <2>1, ConcatProperties DEF LoopTypes
    <3>2. writing' \in BOOLEAN
      BY <2>1, Zenon DEF LoopTypes
    <3>3. written' \in Nat /\ told' \in Nat /\ owed' \in Nat
      BY <2>1, <2>8, ReportTypes DEF LoopTypes
    <3> QED
      BY <1>3, <2>1, <2>10, <3>1, <3>2, <3>3 DEF LoopTypes
  <2> QED
    BY <2>4, <2>6, <2>7, <2>8a, <2>10, <2>11 DEF Stream
<1> QED
  BY <1>5, <1>6

\* sendFileInLoop leaves the stream alone.
LEMMA SendFileKeeps ==
    ASSUME LoopTypes, Stream, NEW f \in Files, NEW count \in Nat \ {0},
           NEW q \in Seq(Functor), sendFileInLoop(f, count, q)
    PROVE  LoopTypes' /\ Stream' /\ Len(functors') >= Len(q)
<1>1. CASE /\ state_ = "kDisconnecting"
           /\ dropped' = dropped \cup {f}
           /\ functors' = q
           /\ UNCHANGED <<state_, reading, writing, outputBuffer_, sent, fileSent,
                          socketVars, accepted, lost, reportVars>>
  <2>1. Stream'
    BY <1>1, StreamUnchanged DEF streamVars, socketVars, reportVars
  <2>2. LoopTypes'
    BY <1>1 DEF LoopTypes, socketVars, reportVars
  <2>3. Len(functors') >= Len(q)
    BY <1>1, LenProperties
  <2> QED
    BY <2>1, <2>2, <2>3
<1>2. CASE /\ state_ # "kDisconnecting"
           /\ \E n \in 0..count, fault \in BOOLEAN :
                 /\ TryWrite(count, n, fault)
                 /\ fileSent' = [fileSent EXCEPT ![f] = @ + n]
                 /\ dropped' = IF fault THEN dropped \cup {f} ELSE dropped
                 /\ functors' = q \o
                       IF n = count \/ fault THEN Complete(n = count)
                       ELSE <<[op |-> "sendFileInLoop", file |-> f,
                               remaining |-> Remaining(count, n)]>>
                 /\ Report(IF n = count THEN 1 ELSE 0, n = count)
           /\ UNCHANGED <<state_, reading, writing, outputBuffer_, sent, socketVars,
                          accepted, lost>>
  <2>1. PICK n \in 0..count, fault \in BOOLEAN :
                 /\ TryWrite(count, n, fault)
                 /\ fileSent' = [fileSent EXCEPT ![f] = @ + n]
                 /\ dropped' = IF fault THEN dropped \cup {f} ELSE dropped
                 /\ functors' = q \o
                       IF n = count \/ fault THEN Complete(n = count)
                       ELSE <<[op |-> "sendFileInLoop", file |-> f,
                               remaining |-> Remaining(count, n)]>>
                 /\ Report(IF n = count THEN 1 ELSE 0, n = count)
    BY <1>2
  <2>2. UNCHANGED <<state_, reading, writing, outputBuffer_, sent, shutWr, reset,
                    accepted, lost>>
    BY <1>2 DEF socketVars
  <2> DEFINE rest == [op |-> "sendFileInLoop", file |-> f, remaining |-> Remaining(count, n)]
             tail == IF n = count \/ fault THEN Complete(n = count) ELSE <<rest>>
  <2>3. PICK new \in Nat, done \in BOOLEAN :
            /\ new = (IF n = count THEN 1 ELSE 0) /\ done = (n = count)
            /\ Report(new, done)
    BY <2>1
  <2>3a. /\ done => new = 1 /\ n = count
         /\ ~done => new = 0
    BY <2>3, Zenon
  <2>4. Stream'
    <3>1. CompletionTold' /\ BufferOwed'
      <4> SUFFICES ASSUME WriteCompleteCallback
                   PROVE  /\ reading' /\ outputBuffer_' = <<>> => owed' = 0
                          /\ told' + owed' <= written'
                          /\ outputBuffer_' # <<>> => owed' > 0
        BY DEF CompletionTold, BufferOwed
      <4>1. /\ written \in Nat /\ told \in Nat /\ owed \in Nat
            /\ told + owed <= written
        BY DEF LoopTypes, Stream, CompletionTold
      <4>2. done => owed + new > 0
        BY <2>3a, <4>1
      <4>3. /\ told' + owed' <= written'
            /\ done => owed' = 0
            /\ ~done => owed' = owed + new
        BY <2>3, <4>1, <4>2, Reporting
      <4>4. done => outputBuffer_ = <<>>
        BY <2>1, <2>3a DEF TryWrite, WriteDirectly
      <4>5. /\ reading' /\ outputBuffer_' = <<>> => owed' = 0
            /\ outputBuffer_' # <<>> => owed' > 0
        <5>1. /\ reading /\ outputBuffer_ = <<>> => owed = 0
              /\ outputBuffer_ # <<>> => owed > 0
          BY DEF Stream, CompletionTold, BufferOwed
        <5>2. reading' = reading /\ outputBuffer_' = outputBuffer_
          BY <2>2
        <5>3. CASE done
          BY <4>3, <4>4, <5>2, <5>3
        <5>4. CASE ~done
          BY <2>3a, <4>1, <4>3, <5>1, <5>2, <5>4
        <5> QED
          BY <5>3, <5>4
      <4> QED
        BY <4>3, <4>5
    <3> QED
      BY <2>2, <3>1 DEF Stream, StreamIntact, WritingIffBuffered, ShutdownAfterDrain
  <2>5. tail \in Seq(Functor)
    <3>1. Complete(n = count) \in Seq(Functor)
      BY CompleteType
    <3>2. CASE n = count \/ fault
      BY <3>1, <3>2, Zenon
    <3>3. CASE ~(n = count \/ fault)
      <4>1. Remaining(count, n) \in Nat \ {0}
        BY <3>3 DEF Remaining
      <4>2. rest \in Functor
        BY <4>1 DEF Functor
      <4>3. <<rest>> \in Seq(Functor)
        BY <4>2
      <4> QED
        BY <3>3, <4>3, Zenon
    <3> QED
      BY <3>2, <3>3
  <2>6. functors' = q \o tail
    BY <2>1
  <2>7. functors' \in Seq(Functor) /\ Len(functors') >= Len(q)
    <3> HIDE DEF tail
    <3> QED
      BY <2>5, <2>6, Queueing
  <2>8. /\ fileSent' \in [Files -> Nat] /\ dropped' \subseteq Files
        /\ written' \in Nat /\ told' \in Nat /\ owed' \in Nat
    <3>1. fileSent' \in [Files -> Nat]
      BY <2>1 DEF LoopTypes
    <3>2. dropped' \subseteq Files
      BY <2>1 DEF LoopTypes
    <3>3. written' \in Nat /\ told' \in Nat /\ owed' \in Nat
      BY <2>3, ReportTypes DEF LoopTypes
    <3> QED
      BY <3>1, <3>2, <3>3
  <2>9. LoopTypes'
    BY <2>2, <2>7, <2>8 DEF LoopTypes
  <2> QED
    BY <2>4, <2>7, <2>9
<1> QED
  BY <1>1, <1>2 DEF sendFileInLoop

\* shutdownInLoop shuts the write side of an open connection only when the
\* buffer is empty.
LEMMA ShutdownKeeps ==
    ASSUME LoopTypes, Stream,
           shutWr' = (shutWr \/ CanShutdown),
           UNCHANGED <<reading, writing, outputBuffer_, sent, accepted, reportVars>>
    PROVE  Stream' /\ shutWr' \in BOOLEAN
<1>1. Stream'
  BY DEF Stream, StreamIntact, WritingIffBuffered, ShutdownAfterDrain,
         CompletionTold, BufferOwed, CanShutdown, reportVars
<1>2. shutWr' \in BOOLEAN
  BY Zenon DEF LoopTypes, CanShutdown
<1> QED
  BY <1>1, <1>2

\* handleWrite moves the head of the buffer to the socket.
LEMMA WriteKeeps ==
    ASSUME LoopTypes, Stream, handleWrite
    PROVE  LoopTypes' /\ Stream' /\ Len(functors') >= Len(functors)
<1>1. PICK n \in 1..Len(outputBuffer_) :
        LET drained == n = Len(outputBuffer_) IN
        /\ Kernel(Len(outputBuffer_), n, FALSE)
        /\ sent' = sent \o SubSeq(outputBuffer_, 1, n)
        /\ outputBuffer_' = SubSeq(outputBuffer_, n + 1, Len(outputBuffer_))
        /\ writing' = KeepsWriting(drained)
        /\ functors' = functors \o Complete(drained)
        /\ Report(0, drained)
        /\ shutWr' = (shutWr \/ ShutsAfter(drained))
  BY DEF handleWrite
<1> DEFINE drained == n = Len(outputBuffer_)
           head == SubSeq(outputBuffer_, 1, n)
           rest == SubSeq(outputBuffer_, n + 1, Len(outputBuffer_))
<1>2. writing /\ UNCHANGED <<state_, reading, fileSent, reset, accepted, lost, dropped>>
  BY DEF handleWrite
<1>3. /\ head \in Seq(Unit) /\ rest \in Seq(Unit)
      /\ head \o rest = outputBuffer_
      /\ rest = <<>> <=> drained
  <2>1. outputBuffer_ \in Seq(Unit) /\ n \in 0..Len(outputBuffer_)
    BY DEF LoopTypes
  <2> QED
    BY <2>1, SplitData
<1>4. /\ sent' = sent \o head /\ outputBuffer_' = rest
      /\ writing' = ~drained
      /\ Report(0, drained)
      /\ functors' = functors \o Complete(drained)
      /\ shutWr' = (shutWr \/ (drained /\ state_ = "kDisconnecting"))
  BY <1>1 DEF KeepsWriting, ShutsAfter
<1>5. ~shutWr /\ ~reset
  BY <1>1 DEF Kernel
<1>6. drained \in BOOLEAN
  OBVIOUS
<1> HIDE DEF drained, head, rest
<1>7. StreamIntact'
  <2>1. sent \in Seq(Unit)
    BY DEF LoopTypes
  <2>2. (sent \o head) \o rest = sent \o (head \o rest)
    <3>1. head \in Seq(Unit) /\ rest \in Seq(Unit)
      BY <1>3
    <3> QED
      BY <2>1, <3>1, UnitsConcat
  <2>3. sent \o outputBuffer_ = accepted
    BY DEF Stream, StreamIntact
  <2> QED
    BY <1>2, <1>3, <1>4, <2>2, <2>3 DEF StreamIntact
<1>8. WritingIffBuffered'
  BY <1>2, <1>3, <1>4 DEF WritingIffBuffered
<1>9. ShutdownAfterDrain'
  BY <1>2, <1>3, <1>4, <1>5 DEF ShutdownAfterDrain
<1>10. CompletionTold' /\ BufferOwed'
  <2> SUFFICES ASSUME WriteCompleteCallback
               PROVE  /\ reading' /\ outputBuffer_' = <<>> => owed' = 0
                      /\ told' + owed' <= written'
                      /\ outputBuffer_' # <<>> => owed' > 0
    BY DEF CompletionTold, BufferOwed
  <2>1. /\ written \in Nat /\ told \in Nat /\ owed \in Nat
        /\ told + owed <= written /\ owed > 0
    BY <1>2 DEF LoopTypes, Stream, WritingIffBuffered, CompletionTold, BufferOwed
  <2>2. /\ told' + owed' <= written'
        /\ drained => owed' = 0
        /\ ~drained => owed' = owed + 0
    BY <1>4, <1>6, <2>1, Reporting
  <2> QED
    BY <1>3, <1>4, <2>1, <2>2
<1>11. functors' \in Seq(Functor) /\ Len(functors') >= Len(functors)
  BY <1>4, <1>6, CompleteType, Queueing DEF LoopTypes
<1>12. LoopTypes'
  <2>1. sent' \in Seq(Unit) /\ outputBuffer_' \in Seq(Unit)
    BY <1>3, <1>4, ConcatProperties DEF LoopTypes
  <2>2. writing' \in BOOLEAN /\ shutWr' \in BOOLEAN
    BY <1>4, Zenon
  <2>3. written' \in Nat /\ told' \in Nat /\ owed' \in Nat
    BY <1>4, <1>6, ReportTypes DEF LoopTypes
  <2> QED
    BY <1>2, <1>11, <2>1, <2>2, <2>3 DEF LoopTypes
<1> QED
  BY <1>7, <1>8, <1>9, <1>10, <1>11, <1>12 DEF Stream

------------------------------------------------------------------------------
(* The invariant.                                                           *)

\* The initial values are of their types, and the stream is empty.
LEMMA IInvInit == Init => IInv
<1> SUFFICES ASSUME Init PROVE IInv
  OBVIOUS
<1>1. <<>> \in Seq(Unit) /\ <<>> \in Seq(Functor) /\ Len(<<>>) = 0
  OBVIOUS
<1>2. <<>> \o <<>> = <<>>
  OBVIOUS
<1>3. Idle \in Call
  BY DEF Call
<1>4. TypeOK
  <2>1. batch \in 0..Len(functors)
    BY <1>1 DEF Init
  <2>2. call \in [Callers -> Call]
    BY <1>3 DEF Init
  <2> QED
    BY <1>1, <2>1, <2>2 DEF Init, TypeOK
<1>5. Stream
  BY <1>2 DEF Init, Stream, StreamIntact, WritingIffBuffered, ShutdownAfterDrain,
              CompletionTold, BufferOwed
<1> QED
  BY <1>4, <1>5 DEF IInv

\* TypeOK is LoopTypes and the types of the remaining variables.
LEMMA TypesSplit ==
    ASSUME LoopTypes', batch' \in 0..Len(functors'), call' \in [Callers -> Call],
           fresh' \subseteq Messages \cup Files
    PROVE  TypeOK'
BY DEF TypeOK, LoopTypes

\* A call of the loop thread is one step of the loop; a call of another thread
\* only tests state_.
LEMMA CallKeeps ==
    ASSUME IInv, NEW t \in Callers, NEW c \in Call, CallOf(t, c)
    PROVE  batch' = batch /\ call' \in [Callers -> Call]
<1>1. call' = call \/ call' = [call EXCEPT ![t] = c]
  BY DEF CallOf
<1> QED
  BY <1>1 DEF CallOf, IInv, TypeOK

\* send keeps the invariant.
LEMMA SendStep ==
    ASSUME IInv, NEW t \in Callers, NEW m \in Messages, send(t, m)
    PROVE  IInv'
<1>1. LoopTypes /\ Stream /\ functors \in Seq(Functor)
  BY DEF IInv, TypeOK, LoopTypes
<1>2. batch' = batch /\ call' \in [Callers -> Call]
  <2>1. [op |-> "send", msg |-> m] \in Call
    BY DEF Call
  <2> QED
    BY <2>1, CallKeeps DEF send
<1>3. fresh' \subseteq Messages \cup Files
  BY DEF send, IInv, TypeOK
<1>4. LoopTypes' /\ Stream' /\ Len(functors') >= Len(functors)
  <2>1. CASE inLoop(t)
    <3>1. sendInLoop(m, Units(m), functors)
      BY <2>1 DEF send
    <3> QED
      BY <1>1, <3>1, MessageTypes, SendKeeps
  <2>2. CASE ~inLoop(t)
    <3>1. NothingElse
      BY <2>2 DEF send
    <3>2. Stream'
      BY <1>1, <3>1, StreamUnchanged DEF NothingElse, streamVars, socketVars, reportVars
    <3>3. LoopTypes' /\ functors' = functors
      BY <1>1, <3>1 DEF NothingElse, LoopTypes, socketVars, reportVars
    <3> QED
      BY <1>1, <3>2, <3>3, LenProperties
  <2> QED
    BY <2>1, <2>2
<1>5. batch' \in 0..Len(functors')
  <2>1. batch \in 0..Len(functors)
    BY DEF IInv, TypeOK
  <2>2. Len(functors) \in Nat /\ Len(functors') \in Nat
    BY <1>1, <1>4, LenProperties DEF LoopTypes
  <2> QED
    BY <1>2, <1>4, <2>1, <2>2
<1> QED
  BY <1>2, <1>3, <1>4, <1>5, TypesSplit DEF IInv

\* sendFile keeps the invariant.
LEMMA SendFileStep ==
    ASSUME IInv, NEW t \in Callers, NEW f \in Files, sendFile(t, f)
    PROVE  IInv'
<1>1. LoopTypes /\ Stream /\ functors \in Seq(Functor)
  BY DEF IInv, TypeOK, LoopTypes
<1>2. batch' = batch /\ call' \in [Callers -> Call]
  <2>1. [op |-> "sendFile", file |-> f] \in Call
    BY DEF Call
  <2> QED
    BY <2>1, CallKeeps DEF sendFile
<1>3. fresh' \subseteq Messages \cup Files
  BY DEF sendFile, IInv, TypeOK
<1>4. LoopTypes' /\ Stream' /\ Len(functors') >= Len(functors)
  <2>1. CASE inLoop(t)
    <3>1. sendFileInLoop(f, FileSize, functors)
      BY <2>1 DEF sendFile
    <3>2. FileSize \in Nat \ {0}
      BY SizeAssumption
    <3> QED
      BY <1>1, <3>1, <3>2, SendFileKeeps
  <2>2. CASE ~inLoop(t)
    <3>1. NothingElse
      BY <2>2 DEF sendFile
    <3>2. Stream'
      BY <1>1, <3>1, StreamUnchanged DEF NothingElse, streamVars, socketVars, reportVars
    <3>3. LoopTypes' /\ functors' = functors
      BY <1>1, <3>1 DEF NothingElse, LoopTypes, socketVars, reportVars
    <3> QED
      BY <1>1, <3>2, <3>3, LenProperties
  <2> QED
    BY <2>1, <2>2
<1>5. batch' \in 0..Len(functors')
  <2>1. batch \in 0..Len(functors)
    BY DEF IInv, TypeOK
  <2>2. Len(functors) \in Nat /\ Len(functors') \in Nat
    BY <1>1, <1>4, LenProperties DEF LoopTypes
  <2> QED
    BY <1>2, <1>4, <2>1, <2>2
<1> QED
  BY <1>2, <1>3, <1>4, <1>5, TypesSplit DEF IInv

\* The steps of shutdown keep the invariant.
LEMMA ShutdownStep ==
    ASSUME IInv, NEW t \in Callers, shutdown(t) \/ setDisconnecting(t)
    PROVE  IInv'
<1>1. LoopTypes /\ Stream
  BY DEF IInv, TypeOK, LoopTypes
<1>2. [op |-> "shutdown"] \in Call /\ [op |-> "runInLoop"] \in Call
  BY DEF Call
<1>3. CASE shutdown(t)
  <2>1. batch' = batch /\ call' \in [Callers -> Call] /\ fresh' = fresh
    BY <1>2, <1>3, CallKeeps DEF shutdown
  <2>2. CASE inLoop(t)
    <3>1. shutdownHere
      BY <1>3, <2>2 DEF shutdown
    <3>2. Stream' /\ shutWr' \in BOOLEAN
      BY <1>1, <3>1, ShutdownKeeps DEF shutdownHere
    <3>3. LoopTypes' /\ functors' = functors
      BY <1>1, <3>1, <3>2 DEF shutdownHere, LoopTypes, reportVars
    <3> QED
      BY <2>1, <3>2, <3>3, TypesSplit DEF IInv, TypeOK
  <2>3. CASE ~inLoop(t)
    <3>1. NothingElse
      BY <1>3, <2>3 DEF shutdown
    <3>2. Stream'
      BY <1>1, <3>1, StreamUnchanged DEF NothingElse, streamVars, socketVars, reportVars
    <3>3. LoopTypes' /\ functors' = functors
      BY <1>1, <3>1 DEF NothingElse, LoopTypes, socketVars, reportVars
    <3> QED
      BY <2>1, <3>2, <3>3, TypesSplit DEF IInv, TypeOK
  <2> QED
    BY <2>2, <2>3
<1>4. CASE setDisconnecting(t)
  <2>1. Stream'
    BY <1>1, <1>4, StreamUnchanged DEF setDisconnecting, streamVars, socketVars, reportVars
  <2>2. LoopTypes' /\ functors' = functors /\ batch' = batch /\ fresh' = fresh
    BY <1>1, <1>4 DEF setDisconnecting, LoopTypes, socketVars, reportVars
  <2>3. call' \in [Callers -> Call]
    BY <1>2, <1>4 DEF setDisconnecting, IInv, TypeOK
  <2> QED
    BY <2>1, <2>2, <2>3, TypesSplit DEF IInv, TypeOK
<1> QED
  BY <1>3, <1>4

\* What a caller may queue.
LEMMA FunctorsType ==
    ASSUME NEW t \in Callers, call[t] \in Call, NEW f \in Functors(t)
    PROVE  f \in Functor
<1>1. CASE call[t].op = "send"
  <2>1. call[t].msg \in Messages
    BY <1>1 DEF Call, Idle
  <2>2. f \in [op : {"sendInLoop"}, msg : {call[t].msg},
               data : {Units(call[t].msg), Stale(call[t].msg)}]
    BY <1>1 DEF Functors
  <2>3. Units(call[t].msg) \in Seq(Unit) /\ Stale(call[t].msg) \in Seq(Unit)
    BY <2>1, MessageTypes
  <2> QED
    BY <2>1, <2>2, <2>3 DEF Functor
<1>2. CASE call[t].op = "sendFile"
  <2>1. call[t].file \in Files
    BY <1>2 DEF Call, Idle
  <2>2. f \in [op : {"sendFileInLoop"}, file : {call[t].file}, remaining : {FileSize}]
    BY <1>2 DEF Functors
  <2> QED
    BY <2>1, <2>2, SizeAssumption DEF Functor
<1>3. CASE call[t].op = "runInLoop"
  <2>1. f \in [op : {"shutdownInLoop"}]
    BY <1>3 DEF Functors
  <2> QED
    BY <2>1 DEF Functor
<1>4. CASE call[t].op \notin {"send", "sendFile", "runInLoop"}
  BY <1>4 DEF Functors
<1> QED
  BY <1>1, <1>2, <1>3, <1>4

\* A thread that queues its functor appends one of the right type.
LEMMA QueueStep ==
    ASSUME IInv, NEW t \in Callers, queueCall(t)
    PROVE  IInv'
<1>1. LoopTypes /\ Stream /\ functors \in Seq(Functor)
  BY DEF IInv, TypeOK, LoopTypes
<1>2. PICK f \in Functors(t) : functors' = Append(functors, f)
  BY DEF queueCall
<1>3. f \in Functor
  <2>1. call[t] \in Call
    BY DEF IInv, TypeOK
  <2> QED
    BY <1>2, <2>1, FunctorsType
<1>4. functors' \in Seq(Functor) /\ Len(functors') = Len(functors) + 1
  BY <1>1, <1>2, <1>3
<1>5. Stream'
  BY <1>1, StreamUnchanged DEF queueCall, streamVars, socketVars, reportVars
<1>6. LoopTypes'
  BY <1>1, <1>4 DEF queueCall, LoopTypes, socketVars, reportVars
<1>7. call' \in [Callers -> Call]
  <2>1. Idle \in Call
    BY DEF Call
  <2> QED
    BY <2>1 DEF queueCall, IInv, TypeOK
<1>8. batch' \in 0..Len(functors')
  <2>1. batch \in 0..Len(functors) /\ Len(functors) \in Nat /\ batch' = batch
    BY <1>1, LenProperties DEF IInv, TypeOK, queueCall
  <2> QED
    BY <1>4, <2>1
<1>9. fresh' \subseteq Messages \cup Files
  BY DEF queueCall, IInv, TypeOK
<1> QED
  BY <1>5, <1>6, <1>7, <1>8, <1>9, TypesSplit DEF IInv

\* Running the first functor of the batch keeps the invariant.
LEMMA FunctorStep ==
    ASSUME IInv, runFunctor
    PROVE  IInv'
<1>1. LoopTypes /\ Stream /\ functors \in Seq(Functor)
  BY DEF IInv, TypeOK, LoopTypes
<1>2. batch > 0 /\ batch' = batch - 1 /\ call' = call /\ fresh' = fresh
  BY DEF runFunctor
<1>3. batch \in 0..Len(functors) /\ Len(functors) \in Nat
  BY <1>1, LenProperties DEF IInv, TypeOK
<1>4. functors # <<>>
  BY <1>2, <1>3
<1> DEFINE f == Head(functors)
           q == Tail(functors)
<1>5. f \in Functor /\ q \in Seq(Functor) /\ Len(q) = Len(functors) - 1
  BY <1>1, <1>4, HeadTailProperties
<1>6. \/ f.op = "sendInLoop" /\ sendInLoop(f.msg, f.data, q)
      \/ f.op = "sendFileInLoop" /\ sendFileInLoop(f.file, f.remaining, q)
      \/ f.op = "shutdownInLoop" /\ shutdownInLoop(q)
      \/ f.op \in {"writeComplete", "highWaterMark"} /\ runCallback(q)
  BY DEF runFunctor
<1> HIDE DEF f, q
<1>7. LoopTypes' /\ Stream' /\ Len(functors') >= Len(q)
  <2>1. CASE f.op = "sendInLoop" /\ sendInLoop(f.msg, f.data, q)
    <3>1. f.msg \in Messages /\ f.data \in Seq(Unit)
      BY <1>5, <2>1 DEF Functor
    <3> QED
      BY <1>1, <1>5, <2>1, <3>1, SendKeeps
  <2>2. CASE f.op = "sendFileInLoop" /\ sendFileInLoop(f.file, f.remaining, q)
    <3>1. f.file \in Files /\ f.remaining \in Nat \ {0}
      BY <1>5, <2>2 DEF Functor
    <3> QED
      BY <1>1, <1>5, <2>2, <3>1, SendFileKeeps
  <2>3. CASE shutdownInLoop(q)
    <3>1. Stream' /\ shutWr' \in BOOLEAN
      BY <1>1, <2>3, ShutdownKeeps DEF shutdownInLoop
    <3>2. LoopTypes' /\ functors' = q
      BY <1>1, <1>5, <2>3, <3>1 DEF shutdownInLoop, LoopTypes, reportVars
    <3> QED
      BY <1>5, <3>1, <3>2, LenProperties
  <2>4. CASE runCallback(q)
    <3>1. Stream'
      BY <1>1, <2>4, StreamUnchanged DEF runCallback, streamVars, socketVars, reportVars
    <3>2. LoopTypes' /\ functors' = q
      BY <1>1, <1>5, <2>4 DEF runCallback, LoopTypes, socketVars, reportVars
    <3> QED
      BY <1>5, <3>1, <3>2, LenProperties
  <2> QED
    BY <1>6, <2>1, <2>2, <2>3, <2>4
<1>8. batch' \in 0..Len(functors')
  <2>1. Len(functors') \in Nat
    BY <1>7, LenProperties DEF LoopTypes
  <2> QED
    BY <1>2, <1>3, <1>5, <1>7, <2>1
<1>9. call' \in [Callers -> Call] /\ fresh' \subseteq Messages \cup Files
  BY <1>2 DEF IInv, TypeOK
<1> QED
  BY <1>7, <1>8, <1>9, TypesSplit DEF IInv

\* The other steps of the loop and of the peer keep the invariant.
LEMMA LoopStep ==
    ASSUME IInv, takeBatch \/ handleWrite \/ handleClose \/ peerReset
    PROVE  IInv'
<1>1. LoopTypes /\ Stream /\ Len(functors) \in Nat
  BY LenProperties DEF IInv, TypeOK, LoopTypes
<1>2. CASE takeBatch
  <2>1. Stream'
    BY <1>1, <1>2, StreamUnchanged DEF takeBatch, streamVars, socketVars, reportVars
  <2>2. LoopTypes' /\ functors' = functors /\ batch' = Len(functors)
    BY <1>1, <1>2 DEF takeBatch, BatchSize, LoopTypes, socketVars, reportVars
  <2>3. call' = call /\ fresh' = fresh
    BY <1>2 DEF takeBatch
  <2> QED
    BY <1>1, <2>1, <2>2, <2>3, TypesSplit DEF IInv, TypeOK
<1>3. CASE handleWrite
  <2>1. LoopTypes' /\ Stream' /\ Len(functors') >= Len(functors)
    BY <1>1, <1>3, WriteKeeps
  <2>2. call' = call /\ fresh' = fresh /\ batch = 0 /\ batch' = 0
    BY <1>3 DEF handleWrite
  <2>3. batch' \in 0..Len(functors')
    <3>1. Len(functors') \in Nat
      BY <2>1, LenProperties DEF LoopTypes
    <3> QED
      BY <2>2, <3>1
  <2> QED
    BY <2>1, <2>2, <2>3, TypesSplit DEF IInv, TypeOK
<1>4. CASE handleClose
  <2>1. Stream'
    BY <1>1, <1>4 DEF handleClose, Stream, StreamIntact, WritingIffBuffered,
                      ShutdownAfterDrain, CompletionTold, BufferOwed,
                      socketVars, reportVars
  <2>2. LoopTypes' /\ UNCHANGED <<functors, batch, call, fresh>>
    BY <1>1, <1>4 DEF handleClose, LoopTypes, socketVars, reportVars
  <2> QED
    BY <2>1, <2>2, TypesSplit DEF IInv, TypeOK
<1>5. CASE peerReset
  <2>1. Stream'
    BY <1>1, <1>5, StreamUnchanged DEF peerReset, streamVars, reportVars
  <2>2. LoopTypes' /\ UNCHANGED <<functors, batch, call, fresh>>
    BY <1>1, <1>5 DEF peerReset, LoopTypes, reportVars
  <2> QED
    BY <2>1, <2>2, TypesSplit DEF IInv, TypeOK
<1> QED
  BY <1>2, <1>3, <1>4, <1>5

\* Every step keeps the invariant.
LEMMA IInvNext == IInv /\ [Next]_vars => IInv'
<1> SUFFICES ASSUME IInv, [Next]_vars PROVE IInv'
  OBVIOUS
<1>1. ASSUME NEW t \in Callers, NEW m \in Messages, send(t, m) PROVE IInv'
  BY <1>1, SendStep
<1>2. ASSUME NEW t \in Callers, NEW f \in Files, sendFile(t, f) PROVE IInv'
  BY <1>2, SendFileStep
<1>3. ASSUME NEW t \in Callers, shutdown(t) \/ setDisconnecting(t) PROVE IInv'
  BY <1>3, ShutdownStep
<1>4. ASSUME NEW t \in Callers, queueCall(t) PROVE IInv'
  BY <1>4, QueueStep
<1>5. CASE runFunctor
  BY <1>5, FunctorStep
<1>6. CASE takeBatch \/ handleWrite \/ handleClose \/ peerReset
  BY <1>6, LoopStep
<1>7. CASE UNCHANGED vars
  <2>1. Stream'
    BY <1>7, StreamUnchanged DEF IInv, vars, streamVars
  <2>2. TypeOK'
    BY <1>7 DEF IInv, TypeOK, vars
  <2> QED
    BY <2>1, <2>2 DEF IInv
<1> QED
  BY <1>1, <1>2, <1>3, <1>4, <1>5, <1>6, <1>7 DEF Next

\* The invariant holds in every reachable state.
THEOREM Invariant == Spec => []IInv
<1> QED
  BY IInvInit, IInvNext, PTL DEF Spec

\* The variables keep their types.
THEOREM TypeCorrect == Spec => []TypeOK
<1>1. IInv => TypeOK
  BY DEF IInv
<1> QED
  BY <1>1, Invariant, PTL

\* Over partial writes, drains, errors, resets and closes, and whoever calls
\* send, the socket gets exactly the bytes sendInLoop was given, in that order,
\* up to those still in the buffer (TcpConnection.cc:57-95 and :144-164).
THEOREM StreamIsIntact == Spec => []StreamIntact
<1>1. IInv => StreamIntact
  BY DEF IInv, Stream
<1> QED
  BY <1>1, Invariant, PTL

\* The loop listens to EPOLLOUT exactly while there is something to write
\* (TcpConnection.cc:93 and :151).
THEOREM WritingMeansBuffered == Spec => []WritingIffBuffered
<1>1. IInv => WritingIffBuffered
  BY DEF IInv, Stream
<1> QED
  BY <1>1, Invariant, PTL

\* No byte waits behind a write side that was shut (TcpConnection.cc:106, :156).
THEOREM ShutdownWaits == Spec => []ShutdownAfterDrain
<1>1. IInv => ShutdownAfterDrain
  BY DEF IInv, Stream
<1> QED
  BY <1>1, Invariant, PTL

\* Whatever is cut into pieces by the socket, and in whatever order messages and
\* files come: on an open connection where nothing waits, writeCompleteCallback_
\* was queued after all that was taken, and it was never queued without a message
\* or a file, one at least, that it was not queued for before
\* (TcpConnection.cc:68, :154 and :212).
THEOREM CompletionIsTold == Spec => []CompletionTold
<1>1. IInv => CompletionTold
  BY DEF IInv, Stream
<1> QED
  BY <1>1, Invariant, PTL

------------------------------------------------------------------------------
(* Files.  A file is with a caller that has not queued its functor yet, or    *)
(* in the queue, once, with what is left to send, or done with.              *)

IsFile(x, f) == x.op = "sendFileInLoop" /\ x.file = f

NoneOf(q, f) == \A i \in 1..Len(q) : ~IsFile(q[i], f)

\* q holds one functor of f, with r units left
OneOf(q, f, r) ==
    \E i \in 1..Len(q) :
        /\ IsFile(q[i], f) /\ q[i].remaining = r
        /\ \A j \in 1..Len(q) : IsFile(q[j], f) => j = i

\* n units of f were sent and the files of gone were given up
FileOk(q, f, n, gone) ==
    \/ NoneOf(q, f) /\ (n = 0 \/ n = FileSize \/ f \in gone)
    \/ n \in 0..FileSize /\ OneOf(q, f, FileSize - n)

Calling(f) == {t \in Callers : call[t] = [op |-> "sendFile", file |-> f]}

Untouched(f) == NoneOf(functors, f) /\ fileSent[f] = 0

FileInv ==
    \A f \in Files :
        /\ FileOk(functors, f, fileSent[f], dropped)
        /\ f \in fresh => Calling(f) = {} /\ Untouched(f)
        /\ Calling(f) # {} => Untouched(f)
        /\ \A t, u \in Calling(f) : t = u

\* r has the functors of f that q has
Kept(q, r, f) ==
    /\ NoneOf(q, f) => NoneOf(r, f)
    /\ \A n : OneOf(q, f, n) => OneOf(r, f, n)

\* Functors of something else behind a queue.
LEMMA KeptBefore ==
    ASSUME NEW q \in Seq(Functor), NEW s \in Seq(Functor), NEW f, NoneOf(s, f)
    PROVE  Kept(q, q \o s, f)
<1>1. /\ Len(q) \in Nat /\ Len(s) \in Nat /\ Len(q \o s) = Len(q) + Len(s)
      /\ \A i \in 1..(Len(q) + Len(s)) :
            (q \o s)[i] = IF i <= Len(q) THEN q[i] ELSE s[i - Len(q)]
  BY ConcatProperties, LenProperties
<1>2. \A i \in 1..Len(q) : i \in 1..Len(q \o s) /\ (q \o s)[i] = q[i]
  BY <1>1
<1>3. \A i \in 1..Len(q \o s) : IsFile((q \o s)[i], f) => i \in 1..Len(q)
  <2> SUFFICES ASSUME NEW i \in 1..Len(q \o s), i \notin 1..Len(q)
               PROVE  ~IsFile((q \o s)[i], f)
    OBVIOUS
  <2>1. i - Len(q) \in 1..Len(s) /\ (q \o s)[i] = s[i - Len(q)]
    BY <1>1
  <2> QED
    BY <2>1 DEF NoneOf
<1>4. NoneOf(q, f) => NoneOf(q \o s, f)
  BY <1>2, <1>3 DEF NoneOf
<1>5. ASSUME NEW n, OneOf(q, f, n) PROVE OneOf(q \o s, f, n)
  <2>1. PICK i \in 1..Len(q) :
            /\ IsFile(q[i], f) /\ q[i].remaining = n
            /\ \A j \in 1..Len(q) : IsFile(q[j], f) => j = i
    BY <1>5 DEF OneOf
  <2>2. i \in 1..Len(q \o s) /\ (q \o s)[i] = q[i]
    BY <1>2
  <2>3. \A j \in 1..Len(q \o s) : IsFile((q \o s)[j], f) => j = i
    BY <1>2, <1>3, <2>1
  <2> QED
    BY <2>1, <2>2, <2>3 DEF OneOf
<1> QED
  BY <1>4, <1>5 DEF Kept

\* The functor of a file behind a queue that has none of it.
LEMMA FileQueued ==
    ASSUME NEW q \in Seq(Functor), NEW x \in Functor, NEW f, IsFile(x, f), NoneOf(q, f)
    PROVE  /\ OneOf(q \o <<x>>, f, x.remaining)
           /\ \A g : g # f => Kept(q, q \o <<x>>, g)
<1>1. /\ <<x>> \in Seq(Functor) /\ Len(<<x>>) = 1 /\ <<x>>[1] = x /\ Len(q) \in Nat
  BY LenProperties
<1>2. /\ Len(q \o <<x>>) = Len(q) + 1
      /\ \A i \in 1..Len(q) : (q \o <<x>>)[i] = q[i]
      /\ (q \o <<x>>)[Len(q) + 1] = x
  <2>1. /\ Len(q \o <<x>>) = Len(q) + 1
        /\ \A i \in 1..(Len(q) + 1) :
              (q \o <<x>>)[i] = IF i <= Len(q) THEN q[i] ELSE <<x>>[i - Len(q)]
    BY <1>1, ConcatProperties
  <2>2. Len(q) + 1 \in 1..(Len(q) + 1) /\ Len(q) + 1 - Len(q) = 1
    BY <1>1
  <2> QED
    BY <1>1, <2>1, <2>2
<1>3. \A j \in 1..Len(q \o <<x>>) : IsFile((q \o <<x>>)[j], f) => j = Len(q) + 1
  BY <1>1, <1>2 DEF NoneOf
<1>4. OneOf(q \o <<x>>, f, x.remaining)
  <2>1. Len(q) + 1 \in 1..Len(q \o <<x>>)
    BY <1>1, <1>2
  <2> QED
    BY <1>2, <1>3, <2>1 DEF OneOf
<1>5. ASSUME NEW g, g # f PROVE Kept(q, q \o <<x>>, g)
  <2>1. NoneOf(<<x>>, g)
    BY <1>1, <1>5 DEF NoneOf, IsFile
  <2> QED
    BY <1>1, <2>1, KeptBefore
<1> QED
  BY <1>4, <1>5

\* The head of the queue is run.
LEMMA FileTaken ==
    ASSUME NEW q \in Seq(Functor), q # <<>>, NEW f
    PROVE  /\ ~IsFile(Head(q), f) => Kept(q, Tail(q), f)
           /\ \A n : IsFile(Head(q), f) /\ OneOf(q, f, n) =>
                 NoneOf(Tail(q), f) /\ Head(q).remaining = n
<1>1. /\ Len(q) \in Nat \ {0} /\ Head(q) = q[1]
      /\ Len(Tail(q)) = Len(q) - 1
      /\ \A i \in 1..Len(Tail(q)) : Tail(q)[i] = q[i + 1]
  BY HeadTailProperties, EmptySeq
<1>2. \A i \in 1..Len(Tail(q)) : i + 1 \in 1..Len(q) /\ i + 1 # 1 /\ Tail(q)[i] = q[i + 1]
  BY <1>1
<1>3. ASSUME ~IsFile(Head(q), f), NoneOf(q, f) PROVE NoneOf(Tail(q), f)
  BY <1>2, <1>3 DEF NoneOf
<1>4. ASSUME ~IsFile(Head(q), f), NEW n, OneOf(q, f, n) PROVE OneOf(Tail(q), f, n)
  <2>1. PICK i \in 1..Len(q) :
            /\ IsFile(q[i], f) /\ q[i].remaining = n
            /\ \A j \in 1..Len(q) : IsFile(q[j], f) => j = i
    BY <1>4 DEF OneOf
  <2>2. i # 1
    BY <1>1, <1>4, <2>1
  <2>3. PICK p \in 1..Len(Tail(q)) : p + 1 = i
    <3>1. i - 1 \in 1..Len(Tail(q)) /\ (i - 1) + 1 = i
      BY <1>1, <2>2
    <3> QED
      BY <3>1
  <2>4. Tail(q)[p] = q[i]
    BY <1>2, <2>3
  <2>5. \A j \in 1..Len(Tail(q)) : IsFile(Tail(q)[j], f) => j = p
    <3> SUFFICES ASSUME NEW j \in 1..Len(Tail(q)), IsFile(Tail(q)[j], f) PROVE j = p
      OBVIOUS
    <3>1. j + 1 = i
      BY <1>2, <2>1
    <3> QED
      BY <2>3, <3>1
  <2> QED
    BY <2>1, <2>4, <2>5 DEF OneOf
<1>5. ASSUME IsFile(Head(q), f), NEW n, OneOf(q, f, n)
      PROVE  NoneOf(Tail(q), f) /\ Head(q).remaining = n
  <2>1. PICK i \in 1..Len(q) :
            /\ IsFile(q[i], f) /\ q[i].remaining = n
            /\ \A j \in 1..Len(q) : IsFile(q[j], f) => j = i
    BY <1>5 DEF OneOf
  <2>2. i = 1
    BY <1>1, <1>5, <2>1
  <2>3. NoneOf(Tail(q), f)
    BY <1>2, <2>1, <2>2 DEF NoneOf
  <2> QED
    BY <1>1, <2>1, <2>2, <2>3
<1> QED
  BY <1>3, <1>4, <1>5 DEF Kept

\* Callbacks are no files.
LEMMA NoFileInCallbacks ==
    ASSUME NEW f, NEW done \in BOOLEAN
    PROVE  /\ Complete(done) \in Seq(Functor) /\ NoneOf(Complete(done), f)
           /\ <<[op |-> "highWaterMark"]>> \in Seq(Functor)
           /\ NoneOf(<<[op |-> "highWaterMark"]>>, f)
           /\ <<>> \in Seq(Functor) /\ NoneOf(<<>>, f)
<1>1. \A x : Len(<<x>>) = 1 /\ <<x>>[1] = x
  OBVIOUS
<1>2. [op |-> "writeComplete"] \in Functor /\ [op |-> "highWaterMark"] \in Functor
  BY DEF Functor
<1>3. NoneOf(<<[op |-> "writeComplete"]>>, f) /\ NoneOf(<<[op |-> "highWaterMark"]>>, f)
  <2>1. ~IsFile([op |-> "writeComplete"], f) /\ ~IsFile([op |-> "highWaterMark"], f)
    BY DEF IsFile
  <2> QED
    BY <1>1, <2>1 DEF NoneOf
<1>4. NoneOf(<<>>, f)
  BY DEF NoneOf
<1>5. NoneOf(Complete(done), f)
  BY <1>3, <1>4 DEF Complete
<1> QED
  BY <1>2, <1>3, <1>4, <1>5, CompleteType

LEMMA KeptTrans ==
    ASSUME NEW q, NEW r, NEW s, NEW f, Kept(q, r, f), Kept(r, s, f)
    PROVE  Kept(q, s, f)
BY DEF Kept

LEMMA KeptFileOk ==
    ASSUME NEW q, NEW r, NEW f, Kept(q, r, f), NEW n, NEW gone, NEW more,
           FileOk(q, f, n, gone), gone \subseteq more
    PROVE  FileOk(r, f, n, more)
BY DEF Kept, FileOk

\* sendInLoop, shutdownInLoop and the callbacks queue no files.
LEMMA SendKeepsFiles ==
    ASSUME NEW m, NEW data \in Seq(Unit), NEW q \in Seq(Functor),
           sendInLoop(m, data, q), NEW f
    PROVE  Kept(q, functors', f)
<1>1. PICK n \in 0..Len(data), fault \in BOOLEAN :
        LET rest == SubSeq(data, n + 1, Len(data))
            done == WriteDirectly /\ ~fault /\ rest = <<>>
        IN  IF fault
            THEN functors' = q
            ELSE functors' = q \o Complete(done)
                      \o (IF rest # <<>> /\ Crosses(Len(outputBuffer_), Len(rest))
                          THEN <<[op |-> "highWaterMark"]>> ELSE <<>>)
  BY DEF sendInLoop
<1> DEFINE rest == SubSeq(data, n + 1, Len(data))
           done == WriteDirectly /\ ~fault /\ rest = <<>>
           mark == IF rest # <<>> /\ Crosses(Len(outputBuffer_), Len(rest))
                   THEN <<[op |-> "highWaterMark"]>> ELSE <<>>
<1>2. functors' = q \/ functors' = q \o Complete(done) \o mark
  BY <1>1
<1>3. done \in BOOLEAN
  OBVIOUS
<1>4. mark = <<[op |-> "highWaterMark"]>> \/ mark = <<>>
  OBVIOUS
<1> HIDE DEF done, mark
<1>5. /\ Complete(done) \in Seq(Functor) /\ NoneOf(Complete(done), f)
      /\ mark \in Seq(Functor) /\ NoneOf(mark, f)
  BY <1>3, <1>4, NoFileInCallbacks
<1>6. PICK r \in Seq(Functor) : r = q \o Complete(done)
  BY <1>5, Queueing
<1>7. Kept(q, r, f) /\ Kept(r, r \o mark, f)
  BY <1>5, <1>6, KeptBefore
<1>8. Kept(q, q, f)
  BY DEF Kept
<1> QED
  BY <1>2, <1>6, <1>7, <1>8, KeptTrans

\* sendFileInLoop sends a part of what is left and queues the rest, or has done
\* with the file.
LEMMA SendFileKeepsFiles ==
    ASSUME NEW f \in Files, NEW count \in Nat, NEW q \in Seq(Functor),
           fileSent \in [Files -> Nat], dropped \subseteq Files,
           NoneOf(q, f), fileSent[f] + count = FileSize,
           sendFileInLoop(f, count, q)
    PROVE  /\ FileOk(functors', f, fileSent'[f], dropped')
           /\ dropped \subseteq dropped'
           /\ \A g \in Files \ {f} : Kept(q, functors', g) /\ fileSent'[g] = fileSent[g]
<1>1. FileSize \in Nat \ {0}
  BY SizeAssumption
<1>2. CASE /\ dropped' = dropped \cup {f} /\ functors' = q
           /\ fileSent' = fileSent
  BY <1>2 DEF FileOk, Kept
<1>3. CASE \E n \in 0..count, fault \in BOOLEAN :
             /\ TryWrite(count, n, fault)
             /\ fileSent' = [fileSent EXCEPT ![f] = @ + n]
             /\ dropped' = IF fault THEN dropped \cup {f} ELSE dropped
             /\ functors' = q \o
                   IF n = count \/ fault THEN Complete(n = count)
                   ELSE <<[op |-> "sendFileInLoop", file |-> f,
                           remaining |-> Remaining(count, n)]>>
  <2>1. PICK n \in 0..count, fault \in BOOLEAN :
             /\ fileSent' = [fileSent EXCEPT ![f] = @ + n]
             /\ dropped' = IF fault THEN dropped \cup {f} ELSE dropped
             /\ functors' = q \o
                   IF n = count \/ fault THEN Complete(n = count)
                   ELSE <<[op |-> "sendFileInLoop", file |-> f,
                           remaining |-> Remaining(count, n)]>>
    BY <1>3
  <2>2. /\ fileSent'[f] = fileSent[f] + n /\ fileSent[f] \in Nat /\ n \in Nat
        /\ \A g \in Files \ {f} : fileSent'[g] = fileSent[g]
    BY <2>1
  <2>3. fileSent'[f] \in 0..FileSize /\ FileSize - fileSent'[f] = count - n
    BY <1>1, <2>2
  <2>4. dropped \subseteq dropped' /\ (fault => f \in dropped')
    BY <2>1
  <2>5. CASE n = count \/ fault
    <3>1. PICK s \in Seq(Functor) : s = Complete(n = count) /\ \A g \in Files : NoneOf(s, g)
      BY NoFileInCallbacks
    <3>2. functors' = q \o s
      BY <2>1, <2>5, <3>1
    <3>3. \A g \in Files : Kept(q, functors', g)
      BY <3>1, <3>2, KeptBefore
    <3>4. fileSent'[f] = FileSize \/ f \in dropped'
      BY <1>1, <2>2, <2>3, <2>4, <2>5
    <3> QED
      BY <2>2, <2>4, <3>3, <3>4 DEF Kept, FileOk
  <2>6. CASE ~(n = count \/ fault)
    <3>1. PICK x : x = [op |-> "sendFileInLoop", file |-> f, remaining |-> count - n]
      OBVIOUS
    <3>2. functors' = q \o <<x>>
      BY <2>1, <2>6, <3>1 DEF Remaining
    <3>3. x \in Functor /\ IsFile(x, f) /\ x.remaining = count - n
      BY <3>1, <2>6 DEF Functor, IsFile
    <3>4. /\ OneOf(functors', f, count - n)
          /\ \A g : g # f => Kept(q, functors', g)
      BY <3>2, <3>3, FileQueued
    <3> QED
      BY <2>2, <2>3, <2>4, <3>4 DEF FileOk
  <2> QED
    BY <2>5, <2>6
<1> QED
  BY <1>2, <1>3 DEF sendFileInLoop

\* A step that takes no file from a caller or the queue, and gives up none.
LEMMA FilesKept ==
    ASSUME FileInv, fileSent' = fileSent, dropped' = dropped, fresh' \subseteq fresh,
           \A f \in Files : Kept(functors, functors', f) /\ Calling(f)' = Calling(f)
    PROVE  FileInv'
BY DEF FileInv, FileOk, Kept, Untouched

LEMMA CallersKept ==
    ASSUME TypeOK, NEW t \in Callers, NEW c, call' = [call EXCEPT ![t] = c], NEW f,
           call[t] # [op |-> "sendFile", file |-> f],
           c # [op |-> "sendFile", file |-> f]
    PROVE  Calling(f)' = Calling(f)
BY DEF Calling, TypeOK

LEMMA InitFiles == Init => FileInv
<1> SUFFICES ASSUME Init, NEW f \in Files
             PROVE  /\ FileOk(functors, f, fileSent[f], dropped)
                    /\ Calling(f) = {} /\ Untouched(f)
  BY DEF FileInv
<1>1. NoneOf(functors, f) /\ fileSent[f] = 0
  BY DEF Init, NoneOf
<1>2. Calling(f) = {}
  BY DEF Init, Calling, Idle
<1> QED
  BY <1>1, <1>2 DEF FileOk, Untouched

LEMMA SendFiles ==
    ASSUME TypeOK, FileInv, NEW t \in Callers, NEW m \in Messages, send(t, m)
    PROVE  FileInv'
<1>1. fresh' \subseteq fresh
  BY DEF send
<1>2. CASE inLoop(t)
  <2>1. call' = call /\ sendInLoop(m, Units(m), functors)
    BY <1>2 DEF send, CallOf
  <2>2. fileSent' = fileSent /\ dropped' = dropped
    BY <2>1 DEF sendInLoop
  <2>3. functors \in Seq(Functor) /\ Units(m) \in Seq(Unit)
    BY MessageTypes DEF TypeOK
  <2>4. \A f \in Files : Kept(functors, functors', f)
    BY <2>1, <2>3, SendKeepsFiles
  <2>5. \A f \in Files : Calling(f)' = Calling(f)
    BY <2>1 DEF Calling
  <2> QED
    BY <1>1, <2>2, <2>4, <2>5, FilesKept
<1>3. CASE ~inLoop(t)
  <2>1. /\ call[t] = Idle /\ call' = [call EXCEPT ![t] = [op |-> "send", msg |-> m]]
        /\ UNCHANGED <<functors, fileSent, dropped>>
    BY <1>3 DEF send, CallOf, NothingElse
  <2>2. \A f \in Files : Calling(f)' = Calling(f)
    <3>1. \A f : /\ Idle # [op |-> "sendFile", file |-> f]
                 /\ [op |-> "send", msg |-> m] # [op |-> "sendFile", file |-> f]
      BY DEF Idle
    <3> QED
      BY <2>1, <3>1, CallersKept
  <2> QED
    BY <1>1, <2>1, <2>2, FilesKept DEF Kept
<1> QED
  BY <1>2, <1>3

LEMMA SendFileFiles ==
    ASSUME TypeOK, FileInv, NEW t \in Callers, NEW f \in Files, sendFile(t, f)
    PROVE  FileInv'
<1>1. /\ f \in fresh /\ fresh' = fresh \ {f} /\ Calling(f) = {} /\ Untouched(f)
      /\ call[t] = Idle
  BY DEF sendFile, CallOf, FileInv
<1>2. /\ functors \in Seq(Functor) /\ fileSent \in [Files -> Nat] /\ dropped \subseteq Files
      /\ FileSize \in Nat
  BY SizeAssumption DEF TypeOK
<1>3. CASE inLoop(t)
  <2>1. call' = call /\ sendFileInLoop(f, FileSize, functors)
    BY <1>3 DEF sendFile, CallOf
  <2>2. \A g \in Files : Calling(g)' = Calling(g)
    BY <2>1 DEF Calling
  <2>3. NoneOf(functors, f) /\ fileSent[f] + FileSize = FileSize
    BY <1>1, <1>2 DEF Untouched
  <2>4. /\ FileOk(functors', f, fileSent'[f], dropped')
        /\ dropped \subseteq dropped'
        /\ \A g \in Files \ {f} : Kept(functors, functors', g) /\ fileSent'[g] = fileSent[g]
    BY <1>2, <2>1, <2>3, SendFileKeepsFiles
  <2>5. ASSUME NEW g \in Files
        PROVE  /\ FileOk(functors', g, fileSent'[g], dropped')
               /\ g \in fresh' => Calling(g)' = {} /\ Untouched(g)'
               /\ Calling(g)' # {} => Untouched(g)'
               /\ \A u, v \in Calling(g)' : u = v
    <3>1. CASE g = f
      BY <1>1, <2>2, <2>4, <3>1
    <3>2. CASE g # f
      BY <1>1, <2>2, <2>4, <3>2, KeptFileOk DEF FileInv, Kept, Untouched
    <3> QED
      BY <3>1, <3>2
  <2> QED
    BY <2>5 DEF FileInv
<1>4. CASE ~inLoop(t)
  <2>1. /\ call' = [call EXCEPT ![t] = [op |-> "sendFile", file |-> f]]
        /\ UNCHANGED <<functors, fileSent, dropped>>
    BY <1>4 DEF sendFile, CallOf, NothingElse
  <2>2. \A g \in Files \ {f} : Calling(g)' = Calling(g)
    <3>1. \A g \in Files \ {f} : /\ Idle # [op |-> "sendFile", file |-> g]
                 /\ [op |-> "sendFile", file |-> f] # [op |-> "sendFile", file |-> g]
      BY DEF Idle
    <3> QED
      BY <1>1, <2>1, <3>1, CallersKept
  <2>3. Calling(f)' = {t}
    BY <1>1, <2>1 DEF Calling, TypeOK
  <2>4. \A g : Untouched(g)' <=> Untouched(g)
    BY <2>1 DEF Untouched
  <2>5. ASSUME NEW g \in Files
        PROVE  /\ FileOk(functors', g, fileSent'[g], dropped')
               /\ g \in fresh' => Calling(g)' = {} /\ Untouched(g)'
               /\ Calling(g)' # {} => Untouched(g)'
               /\ \A u, v \in Calling(g)' : u = v
    <3>1. CASE g = f
      BY <1>1, <2>1, <2>3, <2>4, <3>1 DEF FileInv
    <3>2. CASE g # f
      BY <1>1, <2>1, <2>2, <2>4, <3>2 DEF FileInv
    <3> QED
      BY <3>1, <3>2
  <2> QED
    BY <2>5 DEF FileInv
<1> QED
  BY <1>3, <1>4

LEMMA ShutdownFiles ==
    ASSUME TypeOK, FileInv, NEW t \in Callers, shutdown(t) \/ setDisconnecting(t)
    PROVE  FileInv'
<1>1. UNCHANGED <<functors, fileSent, dropped, fresh>>
  BY DEF shutdown, shutdownHere, NothingElse, setDisconnecting
<1>2. \A f \in Files : Calling(f)' = Calling(f)
  <2>1. \A f : /\ Idle # [op |-> "sendFile", file |-> f]
               /\ [op |-> "shutdown"] # [op |-> "sendFile", file |-> f]
               /\ [op |-> "runInLoop"] # [op |-> "sendFile", file |-> f]
    BY DEF Idle
  <2>2. CASE call' = call
    BY <2>2 DEF Calling
  <2>3. CASE call[t] = Idle /\ call' = [call EXCEPT ![t] = [op |-> "shutdown"]]
    BY <2>1, <2>3, CallersKept
  <2>4. CASE call[t].op = "shutdown" /\ call' = [call EXCEPT ![t] = [op |-> "runInLoop"]]
    <3>1. \A f : call[t] # [op |-> "sendFile", file |-> f]
      BY <2>4
    <3> QED
      BY <2>1, <2>4, <3>1, CallersKept
  <2> QED
    BY <2>2, <2>3, <2>4 DEF shutdown, CallOf, setDisconnecting
<1> QED
  BY <1>1, <1>2, FilesKept DEF Kept

LEMMA QueueFiles ==
    ASSUME TypeOK, FileInv, NEW t \in Callers, queueCall(t)
    PROVE  FileInv'
<1>1. /\ functors \in Seq(Functor) /\ call[t] \in Call
      /\ UNCHANGED <<fileSent, dropped, fresh>>
      /\ call' = [call EXCEPT ![t] = Idle]
  BY DEF TypeOK, queueCall
<1>2. PICK x \in Functors(t) : functors' = Append(functors, x)
  BY DEF queueCall
<1>3. x \in Functor /\ functors' = functors \o <<x>>
  BY <1>1, <1>2, FunctorsType
<1>4. \A f : Idle # [op |-> "sendFile", file |-> f]
  BY DEF Idle
<1>5. CASE call[t].op = "sendFile"
  <2>1. PICK f \in Files : call[t] = [op |-> "sendFile", file |-> f]
    BY <1>1, <1>5 DEF Call, Idle
  <2>2. x \in Functor /\ IsFile(x, f) /\ x.remaining = FileSize
    <3>1. x \in [op : {"sendFileInLoop"}, file : {f}, remaining : {FileSize}]
      BY <1>5, <2>1 DEF Functors
    <3> QED
      BY <3>1, SizeAssumption DEF Functor, IsFile
  <2>3. t \in Calling(f) /\ Untouched(f) /\ f \notin fresh /\ \A u \in Calling(f) : u = t
    BY <2>1 DEF Calling, FileInv
  <2>4. /\ OneOf(functors', f, FileSize)
        /\ \A g \in Files \ {f} : Kept(functors, functors', g)
    BY <1>1, <1>3, <2>2, <2>3, FileQueued DEF Untouched
  <2>5. Calling(f)' = {}
    BY <1>1, <1>4, <2>3 DEF Calling, TypeOK
  <2>6. \A g \in Files \ {f} : Calling(g)' = Calling(g)
    <3>1. \A g \in Files \ {f} : call[t] # [op |-> "sendFile", file |-> g]
      BY <2>1
    <3> QED
      BY <1>1, <1>4, <3>1, CallersKept
  <2>7. FileOk(functors', f, fileSent'[f], dropped')
    BY <1>1, <2>3, <2>4, SizeAssumption DEF FileOk, Untouched
  <2>8. ASSUME NEW g \in Files
        PROVE  /\ FileOk(functors', g, fileSent'[g], dropped')
               /\ g \in fresh' => Calling(g)' = {} /\ Untouched(g)'
               /\ Calling(g)' # {} => Untouched(g)'
               /\ \A u, v \in Calling(g)' : u = v
    <3>1. CASE g = f
      BY <1>1, <2>3, <2>5, <2>7, <3>1
    <3>2. CASE g # f
      BY <1>1, <2>4, <2>6, <3>2, KeptFileOk DEF FileInv, Kept, Untouched
    <3> QED
      BY <3>1, <3>2
  <2> QED
    BY <2>8 DEF FileInv
<1>6. CASE call[t].op # "sendFile"
  <2>1. \A f : call[t] # [op |-> "sendFile", file |-> f]
    BY <1>6
  <2>2. \A f \in Files : Calling(f)' = Calling(f)
    BY <1>1, <1>4, <2>1, CallersKept
  <2>3. x.op # "sendFileInLoop"
    <3>1. CASE call[t].op = "send"
      BY <3>1 DEF Functors
    <3>2. CASE call[t].op = "runInLoop"
      BY <3>2 DEF Functors
    <3>3. CASE call[t].op \notin {"send", "runInLoop"}
      BY <1>6, <3>3 DEF Functors
    <3> QED
      BY <3>1, <3>2, <3>3
  <2>4. \A f \in Files : Kept(functors, functors', f)
    <3>1. <<x>> \in Seq(Functor) /\ Len(<<x>>) = 1 /\ <<x>>[1] = x
      BY <1>3
    <3>2. \A f : NoneOf(<<x>>, f)
      BY <2>3, <3>1 DEF NoneOf, IsFile
    <3> QED
      BY <1>1, <1>3, <3>1, <3>2, KeptBefore
  <2> QED
    BY <1>1, <2>2, <2>4, FilesKept
<1> QED
  BY <1>5, <1>6

\* The head of the queue is run: it is no file, or sends a part of one.
LEMMA FunctorFiles ==
    ASSUME TypeOK, FileInv, runFunctor
    PROVE  FileInv'
<1> DEFINE x == Head(functors)
           q == Tail(functors)
<1>1. /\ functors \in Seq(Functor) /\ functors # <<>>
      /\ fileSent \in [Files -> Nat] /\ dropped \subseteq Files
  BY EmptySeq DEF TypeOK, runFunctor
<1>2. x \in Functor /\ q \in Seq(Functor)
  BY <1>1, HeadTailProperties
<1>3. /\ call' = call /\ fresh' = fresh
      /\ \/ x.op = "sendInLoop" /\ sendInLoop(x.msg, x.data, q)
         \/ x.op = "sendFileInLoop" /\ sendFileInLoop(x.file, x.remaining, q)
         \/ x.op = "shutdownInLoop" /\ shutdownInLoop(q)
         \/ x.op \in {"writeComplete", "highWaterMark"} /\ runCallback(q)
  BY DEF runFunctor
<1>4. \A f : /\ ~IsFile(x, f) => Kept(functors, q, f)
             /\ \A n : IsFile(x, f) /\ OneOf(functors, f, n) =>
                   NoneOf(q, f) /\ x.remaining = n
  BY <1>1, FileTaken
<1> HIDE DEF x, q
<1>5. \A f \in Files : Calling(f)' = Calling(f)
  BY <1>3 DEF Calling
<1>6. CASE x.op = "sendFileInLoop" /\ sendFileInLoop(x.file, x.remaining, q)
  <2>1. PICK f \in Files : f = x.file /\ IsFile(x, f) /\ \A g \in Files \ {f} : ~IsFile(x, g)
    BY <1>2, <1>6 DEF Functor, IsFile
  <2>2. PICK n \in Nat : n = x.remaining
    BY <1>2, <1>6 DEF Functor
  <2>3. ~NoneOf(functors, f)
    <3>1. Len(functors) \in Nat \ {0} /\ functors[1] = x
      BY <1>1, HeadTailProperties, EmptySeq DEF x
    <3> QED
      BY <2>1, <3>1 DEF NoneOf
  <2>4. NoneOf(q, f) /\ fileSent[f] + n = FileSize
    <3>1. fileSent[f] \in 0..FileSize /\ OneOf(functors, f, FileSize - fileSent[f])
      BY <2>3 DEF FileInv, FileOk
    <3>2. NoneOf(q, f) /\ n = FileSize - fileSent[f]
      BY <1>4, <2>1, <2>2, <3>1
    <3> QED
      BY <3>1, <3>2, SizeAssumption
  <2>5. sendFileInLoop(f, n, q)
    BY <1>6, <2>1, <2>2
  <2>6. /\ FileOk(functors', f, fileSent'[f], dropped')
        /\ dropped \subseteq dropped'
        /\ \A g \in Files \ {f} : Kept(q, functors', g) /\ fileSent'[g] = fileSent[g]
    BY <1>1, <1>2, <2>4, <2>5, SendFileKeepsFiles
  <2>7. \A g \in Files \ {f} : Kept(functors, functors', g)
    BY <1>4, <2>1, <2>6, KeptTrans
  <2>8. f \notin fresh /\ Calling(f) = {}
    BY <2>3 DEF FileInv, Untouched
  <2>9. ASSUME NEW g \in Files
        PROVE  /\ FileOk(functors', g, fileSent'[g], dropped')
               /\ g \in fresh' => Calling(g)' = {} /\ Untouched(g)'
               /\ Calling(g)' # {} => Untouched(g)'
               /\ \A u, v \in Calling(g)' : u = v
    <3>1. CASE g = f
      BY <1>3, <1>5, <2>6, <2>8, <3>1
    <3>2. CASE g # f
      BY <1>3, <1>5, <2>6, <2>7, <3>2, KeptFileOk DEF FileInv, Kept, Untouched
    <3> QED
      BY <3>1, <3>2
  <2> QED
    BY <2>9 DEF FileInv
<1>7. CASE x.op # "sendFileInLoop"
  <2>1. \A f : Kept(functors, q, f)
    BY <1>4, <1>7 DEF IsFile
  <2>2. fileSent' = fileSent /\ dropped' = dropped
    BY <1>3, <1>7 DEF sendInLoop, shutdownInLoop, runCallback
  <2>3. \A f : Kept(q, functors', f)
    <3>1. CASE x.op = "sendInLoop"
      <4>1. x.data \in Seq(Unit) /\ sendInLoop(x.msg, x.data, q)
        BY <1>2, <1>3, <3>1 DEF Functor
      <4> QED
        BY <1>2, <4>1, SendKeepsFiles
    <3>2. CASE x.op # "sendInLoop"
      <4>1. functors' = q
        BY <1>3, <1>7, <3>2 DEF shutdownInLoop, runCallback
      <4> QED
        BY <4>1 DEF Kept
    <3> QED
      BY <3>1, <3>2
  <2> QED
    BY <1>3, <1>5, <2>1, <2>2, <2>3, FilesKept, KeptTrans
<1> QED
  BY <1>3, <1>6, <1>7

LEMMA LoopFiles ==
    ASSUME TypeOK, FileInv, takeBatch \/ handleWrite \/ handleClose \/ peerReset
    PROVE  FileInv'
<1>1. UNCHANGED <<call, fresh, fileSent, dropped>>
  BY DEF takeBatch, handleWrite, handleClose, peerReset
<1>2. \A f \in Files : Calling(f)' = Calling(f)
  BY <1>1 DEF Calling
<1>3. ASSUME NEW f PROVE Kept(functors, functors', f)
  <2>1. CASE handleWrite
    <3>1. PICK drained \in BOOLEAN : functors' = functors \o Complete(drained)
      BY <2>1 DEF handleWrite
    <3>2. functors \in Seq(Functor)
      BY DEF TypeOK
    <3> QED
      BY <3>1, <3>2, NoFileInCallbacks, KeptBefore
  <2>2. CASE functors' = functors
    BY <2>2 DEF Kept
  <2> QED
    BY <2>1, <2>2 DEF takeBatch, handleClose, peerReset
<1> QED
  BY <1>1, <1>2, <1>3, FilesKept

LEMMA FileInvNext == TypeOK /\ FileInv /\ [Next]_vars => FileInv'
<1> SUFFICES ASSUME TypeOK, FileInv, [Next]_vars PROVE FileInv'
  OBVIOUS
<1>1. ASSUME NEW t \in Callers, NEW m \in Messages, send(t, m) PROVE FileInv'
  BY <1>1, SendFiles
<1>2. ASSUME NEW t \in Callers, NEW f \in Files, sendFile(t, f) PROVE FileInv'
  BY <1>2, SendFileFiles
<1>3. ASSUME NEW t \in Callers, shutdown(t) \/ setDisconnecting(t) PROVE FileInv'
  BY <1>3, ShutdownFiles
<1>4. ASSUME NEW t \in Callers, queueCall(t) PROVE FileInv'
  BY <1>4, QueueFiles
<1>5. CASE runFunctor
  BY <1>5, FunctorFiles
<1>6. CASE takeBatch \/ handleWrite \/ handleClose \/ peerReset
  BY <1>6, LoopFiles
<1>7. CASE UNCHANGED vars
  BY <1>7 DEF vars, FileInv, Calling, Untouched
<1> QED
  BY <1>1, <1>2, <1>3, <1>4, <1>5, <1>6, <1>7 DEF Next

\* The functors of a file are the positions InQueue gives.
LEMMA FilesCounted == FileInv /\ TypeOK => FileConserved
<1> SUFFICES ASSUME FileInv, TypeOK, NEW f \in Files
             PROVE  /\ Cardinality(InQueue(f)) <= 1
                    /\ \A i \in InQueue(f) : fileSent[f] + functors[i].remaining = FileSize
                    /\ InQueue(f) = {} /\ fileSent[f] > 0 =>
                          fileSent[f] = FileSize \/ f \in dropped
  BY DEF FileConserved
<1>1. InQueue(f) = {i \in 1..Len(functors) : IsFile(functors[i], f)}
  BY DEF InQueue, IsFile
<1>2. fileSent[f] \in Nat /\ FileSize \in Nat
  BY SizeAssumption DEF TypeOK
<1>3. CASE NoneOf(functors, f) /\ (fileSent[f] = 0 \/ fileSent[f] = FileSize \/ f \in dropped)
  <2>1. InQueue(f) = {}
    BY <1>1, <1>3 DEF NoneOf
  <2> QED
    BY <1>2, <1>3, <2>1, FS_EmptySet
<1>4. CASE fileSent[f] \in 0..FileSize /\ OneOf(functors, f, FileSize - fileSent[f])
  <2>1. PICK i \in 1..Len(functors) :
            /\ IsFile(functors[i], f)
            /\ functors[i].remaining = FileSize - fileSent[f]
            /\ \A j \in 1..Len(functors) : IsFile(functors[j], f) => j = i
    BY <1>4 DEF OneOf
  <2>2. InQueue(f) = {i}
    BY <1>1, <2>1
  <2>3. fileSent[f] + functors[i].remaining = FileSize
    BY <1>2, <1>4, <2>1
  <2>4. Cardinality(InQueue(f)) = 1
    BY <2>2, FS_Singleton, Zenon
  <2> QED
    BY <2>2, <2>3, <2>4
<1> QED
  BY <1>3, <1>4 DEF FileInv, FileOk

\* However a file is cut by partial sends, EWOULDBLOCK and other data in the
\* buffer, no piece of it is skipped or repeated: what was sent and what its
\* one queued functor still has to send add up to the file
\* (TcpConnection.cc:207-220).
THEOREM FilesAreConserved == Spec => []FileConserved
<1>1. Init => FileInv
  BY InitFiles
<1>2. TypeOK /\ FileInv /\ [Next]_vars => FileInv'
  BY FileInvNext
<1>3. FileInv /\ TypeOK => FileConserved
  BY FilesCounted
<1> QED
  BY <1>1, <1>2, <1>3, TypeCorrect, PTL DEF Spec
==============================================================================
