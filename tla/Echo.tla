--------------------------------- MODULE Echo ---------------------------------
(***************************************************************************)
(* The program of webserver/src/main.cc, for one connection: EchoServer    *)
(* sends back what it reads.  handleRead reads from the socket into the    *)
(* inputBuffer_, onMessage takes all of it and sends it, and what the      *)
(* socket does not take goes through the outputBuffer_ of TcpConnection to *)
(* handleWrite.  Everything happens in the loop of the connection; other   *)
(* senders are the subject of TcpOutput, the end of the connection that of *)
(* TcpServer.  EchoServer sets neither a writeCompleteCallback_ nor a      *)
(* highWaterMarkCallback_.                                                 *)
(***************************************************************************)
EXTENDS Buffer

CONSTANT Stream    \* the bytes the peer sends, all told

ASSUME StreamAssumption == Stream \in Seq(Byte)

VARIABLES
    state_,
    writing,         \* the channel's interest in EPOLLOUT, isWriting()
    inputBuffer_, outputBuffer_,
    arrived,         \* bytes of Stream that have reached the socket
    taken,           \* bytes of Stream that readFd has read
    echoed,          \* bytes the socket took from write
    fin, reset       \* the peer has closed its side, or reset the connection

peerVars == <<arrived, fin, reset>>
vars == <<state_, writing, inputBuffer_, outputBuffer_, taken, echoed, peerVars>>

EchoTypeOK ==
    /\ state_ \in {"kConnected", "kDisconnected"}
    /\ writing \in BOOLEAN
    /\ inputBuffer_ \in BufferType /\ IndicesOK(inputBuffer_)
    /\ outputBuffer_ \in BufferType /\ IndicesOK(outputBuffer_)
    /\ arrived \in 0..Len(Stream)
    /\ taken \in 0..arrived
    /\ echoed \in Seq(Byte)
    /\ fin \in BOOLEAN /\ reset \in BOOLEAN

Init ==
    /\ state_ = "kConnected"
    /\ writing = FALSE
    /\ inputBuffer_ = NewBuffer /\ outputBuffer_ = NewBuffer
    /\ arrived = 0 /\ taken = 0
    /\ echoed = <<>>
    /\ fin = FALSE /\ reset = FALSE

------------------------------------------------------------------------------
(* The peer and the network.                                                *)

arrive ==
    /\ ~fin /\ ~reset
    /\ arrived' \in (arrived + 1)..Len(Stream)
    /\ UNCHANGED <<state_, writing, inputBuffer_, outputBuffer_, taken, echoed, fin, reset>>

peerCloses ==
    /\ ~fin
    /\ fin' = TRUE
    /\ UNCHANGED <<state_, writing, inputBuffer_, outputBuffer_, taken, echoed, arrived, reset>>

peerResets ==
    /\ ~reset
    /\ reset' = TRUE
    /\ UNCHANGED <<state_, writing, inputBuffer_, outputBuffer_, taken, echoed, arrived, fin>>

------------------------------------------------------------------------------
(* The connection.                                                          *)

\* write of len bytes takes n, none on EWOULDBLOCK, or fails on a reset connection
Write(len, n, fault) == IF reset THEN n = 0 /\ fault ELSE n \in 0..len /\ ~fault

WriteDirectly == ~writing /\ readableBytes(outputBuffer_) = 0

sendInLoop(data) ==
    \E n \in 0..Len(data), fault \in BOOLEAN :
        LET rest == SubSeq(data, n + 1, Len(data)) IN
        /\ IF WriteDirectly THEN Write(Len(data), n, fault) ELSE n = 0 /\ ~fault
        /\ echoed' = echoed \o SubSeq(data, 1, n)
        /\ IF fault \/ rest = <<>>
           THEN UNCHANGED <<outputBuffer_, writing>>
           ELSE /\ outputBuffer_' = append(outputBuffer_, rest)
                /\ writing' = TRUE

\* EchoServer's retrieveAllAsString and send
onMessage(buf) ==
    /\ inputBuffer_' = retrieveAll(buf)
    /\ sendInLoop(Readable(buf))

\* EPOLLIN: readv returns n bytes
handleRead ==
    /\ state_ = "kConnected"
    /\ \E n \in 1..MaxRead(inputBuffer_) :
          /\ n <= arrived - taken
          /\ taken' = taken + n
          /\ onMessage(readFd(inputBuffer_, SubSeq(Stream, taken + 1, taken + n)))
    /\ UNCHANGED <<state_, peerVars>>

\* mutant: disableWriting after every write
StillWriting_Never(b) == FALSE

StillWriting(b) == readableBytes(b) # 0

\* EPOLLOUT: n bytes are written (a write that takes none changes nothing)
handleWrite ==
    /\ state_ = "kConnected"
    /\ writing
    /\ \E n \in 1..readableBytes(outputBuffer_) :
          /\ Write(readableBytes(outputBuffer_), n, FALSE)
          /\ echoed' = echoed \o SubSeq(Readable(outputBuffer_), 1, n)
          /\ outputBuffer_' = retrieve(outputBuffer_, n)
    /\ writing' = StillWriting(outputBuffer_')
    /\ UNCHANGED <<state_, inputBuffer_, taken, peerVars>>

\* readv returns 0: disableAll; what the outputBuffer_ holds is not sent
handleClose ==
    /\ state_ = "kConnected"
    /\ (fin /\ taken = arrived) \/ reset
    /\ state_' = "kDisconnected"
    /\ writing' = FALSE
    /\ UNCHANGED <<inputBuffer_, outputBuffer_, taken, echoed, peerVars>>

Next == arrive \/ peerCloses \/ peerResets \/ handleRead \/ handleWrite \/ handleClose

Spec == Init /\ [][Next]_vars

\* The poller is level-triggered: a socket with bytes to read, or with room
\* while its channel is writing, is reported until it is served.  The peer
\* reads what it is sent; it need not send, close or reset.
FairSpec == Spec /\ WF_vars(handleRead) /\ WF_vars(handleWrite) /\ WF_vars(handleClose)

------------------------------------------------------------------------------
(* Properties.                                                              *)

\* The peer gets its own bytes, in order and once each, over reads that spill
\* into extrabuf, writes that are partial, and buffers that grow, move their
\* data and start over (Buffer.cc:17-44, Buffer.h:24-67, main.cc:32-35).  Bytes
\* are dropped by the write that finds the connection reset, and none after.
EchoInOrder ==
    LET out == echoed \o Readable(outputBuffer_) IN
    /\ out = SubSeq(Stream, 1, Len(out))
    /\ Len(out) <= taken
    /\ ~reset => Len(out) = taken

\* A buffer grows only when the bytes it has to hold fill half of it: the space
\* in front of the data is used before memory is asked for, however reads,
\* writes and moves alternate (Buffer.h:58-71).
GrowsWhenHalfFull ==
    [][/\ Len(outputBuffer_'.buffer_) > Len(outputBuffer_.buffer_) =>
             Len(outputBuffer_'.buffer_) < kCheapPrepend + 2 * readableBytes(outputBuffer_')
       /\ Len(inputBuffer_'.buffer_) > Len(inputBuffer_.buffer_) =>
             Len(inputBuffer_'.buffer_) = kCheapPrepend + (taken' - taken)]_vars

\* Every byte that arrives is echoed, unless the connection ends first.
AllEchoed ==
    \A n \in 1..Len(Stream) :
        arrived >= n ~> (Len(echoed) >= n \/ state_ # "kConnected" \/ reset)
==============================================================================
