---------------------------- MODULE TcpServerProofs ----------------------------
(***************************************************************************)
(* Proofs about TcpServer, for any number of connections and loops: what   *)
(* happens to a connection between its accept and its end.                 *)
(***************************************************************************)
EXTENDS TcpServer, SequenceTheorems, FiniteSetTheorems, TLAPS

------------------------------------------------------------------------------
(* Queues of functors.                                                      *)

LEMMA RangeOfPush ==
    ASSUME NEW S, NEW s \in Seq(S), NEW e \in S
    PROVE  Range(Append(s, e)) = Range(s) \cup {e}
<1>1. /\ Len(s) \in Nat
      /\ DOMAIN s = 1..Len(s)
      /\ DOMAIN Append(s, e) = 1..(Len(s) + 1)
      /\ Append(s, e)[Len(s) + 1] = e
      /\ \A i \in 1..Len(s) : Append(s, e)[i] = s[i]
  OBVIOUS
<1>2. 1..(Len(s) + 1) = (1..Len(s)) \cup {Len(s) + 1}
  BY <1>1
<1>. QED
  BY <1>1, <1>2, ZenonT(60) DEF Range

LEMMA RangeOfPop ==
    ASSUME NEW S, NEW s \in Seq(S), s # <<>>
    PROVE  /\ Range(s) = {Head(s)} \cup Range(Tail(s))
           /\ Tail(s) \in Seq(S) /\ Head(s) \in S
<1>1. /\ Len(s) \in Nat \ {0}
      /\ DOMAIN s = 1..Len(s)
      /\ DOMAIN Tail(s) = 1..(Len(s) - 1)
      /\ Head(s) = s[1]
      /\ \A i \in 1..(Len(s) - 1) : Tail(s)[i] = s[i + 1]
  OBVIOUS
<1>2. ASSUME NEW x \in Range(Tail(s)) PROVE x \in Range(s)
  <2>1. PICK i \in 1..(Len(s) - 1) : x = s[i + 1]
    BY <1>1, <1>2 DEF Range
  <2>. QED
    BY <1>1, <2>1 DEF Range
<1>3. ASSUME NEW x \in Range(s), x # Head(s) PROVE x \in Range(Tail(s))
  <2>1. PICK i \in 1..Len(s) : x = s[i] /\ i # 1
    BY <1>1, <1>3 DEF Range
  <2>2. i - 1 \in 1..(Len(s) - 1) /\ Tail(s)[i - 1] = x
    BY <1>1, <2>1
  <2>. QED
    BY <1>1, <2>2 DEF Range
<1>4. Head(s) \in Range(s)
  BY <1>1 DEF Range
<1>. QED
  BY <1>2, <1>3, <1>4

LEMMA RangeOfConcat ==
    ASSUME NEW S, NEW s \in Seq(S), NEW t \in Seq(S)
    PROVE  Range(s \o t) = Range(s) \cup Range(t)
<1>1. /\ Len(s) \in Nat /\ Len(t) \in Nat
      /\ DOMAIN s = 1..Len(s) /\ DOMAIN t = 1..Len(t)
      /\ DOMAIN (s \o t) = 1..(Len(s) + Len(t))
      /\ \A i \in 1..(Len(s) + Len(t)) :
             (s \o t)[i] = IF i <= Len(s) THEN s[i] ELSE t[i - Len(s)]
  OBVIOUS
<1>2. \A i \in 1..Len(s) : i \in 1..(Len(s) + Len(t)) /\ (s \o t)[i] = s[i]
  BY <1>1
<1>3. \A i \in 1..Len(t) : /\ Len(s) + i \in 1..(Len(s) + Len(t))
                           /\ (s \o t)[Len(s) + i] = t[i]
  BY <1>1
<1>4. \A i \in 1..(Len(s) + Len(t)) :
         \/ i \in 1..Len(s) /\ (s \o t)[i] = s[i]
         \/ i - Len(s) \in 1..Len(t) /\ (s \o t)[i] = t[i - Len(s)]
  BY <1>1
<1>5. ASSUME NEW x \in Range(s \o t) PROVE x \in Range(s) \cup Range(t)
  BY <1>1, <1>4, <1>5 DEF Range
<1>6. ASSUME NEW x \in Range(s) PROVE x \in Range(s \o t)
  <2>1. PICK i \in 1..Len(s) : x = s[i]
    BY <1>1, <1>6 DEF Range
  <2>2. i \in DOMAIN (s \o t) /\ (s \o t)[i] = x
    BY <1>1, <1>2, <2>1
  <2>. QED
    BY <2>2, Zenon DEF Range
<1>7. ASSUME NEW x \in Range(t) PROVE x \in Range(s \o t)
  <2>1. PICK i \in 1..Len(t) : x = t[i]
    BY <1>1, <1>7 DEF Range
  <2>2. Len(s) + i \in DOMAIN (s \o t) /\ (s \o t)[Len(s) + i] = x
    BY <1>1, <1>3, <2>1
  <2>. QED
    BY <2>2, Zenon DEF Range
<1>. QED
  BY <1>5, <1>6, <1>7

\* A connection is established once, and not after its destruction was queued.
Established(q, c, i) == q[i] = Do("connectEstablished", c)
Starts(q, c, i) == q[i] \in {Do("connectEstablished", c), Do("connectDestroyed", c)}

Ordered(q, c) ==
    \A i, j \in DOMAIN q : Established(q, c, i) /\ Starts(q, c, j) => i <= j

\* the two queues of a loop, one after the other
QueuesOrdered(b, p) ==
    \A c \in Conns :
        /\ Ordered(b, c) /\ Ordered(p, c)
        /\ Do("connectEstablished", c) \in Range(p) =>
               /\ Do("connectEstablished", c) \notin Range(b)
               /\ Do("connectDestroyed", c) \notin Range(b)

LEMMA OrderedEmpty == \A c : Ordered(<<>>, c)
BY DEF Ordered

\* What is pushed does not come before anything.
LEMMA OrderedPush ==
    ASSUME NEW b \in Seq(Functor), NEW p \in Seq(Functor), NEW f \in Functor,
           QueuesOrdered(b, p),
           f.op = "connectEstablished" =>
               \A g \in Range(b) \cup Range(p) : g.conn # f.conn
    PROVE  QueuesOrdered(b, Append(p, f))
<1>. DEFINE q == Append(p, f)
<1>1. /\ Len(p) \in Nat
      /\ DOMAIN p = 1..Len(p) /\ DOMAIN q = 1..(Len(p) + 1)
      /\ q[Len(p) + 1] = f
      /\ \A i \in 1..Len(p) : q[i] = p[i]
  OBVIOUS
<1>2. Range(q) = Range(p) \cup {f}
  BY RangeOfPush
<1>. SUFFICES ASSUME NEW c \in Conns
              PROVE  /\ Ordered(q, c)
                     /\ Do("connectEstablished", c) \in Range(q) =>
                            /\ Do("connectEstablished", c) \notin Range(b)
                            /\ Do("connectDestroyed", c) \notin Range(b)
  BY DEF QueuesOrdered
<1>3. \A op : Do(op, c).conn = c /\ Do(op, c).op = op
  BY DEF Do
<1>4. ASSUME NEW i \in DOMAIN q, NEW j \in DOMAIN q,
             Established(q, c, i), Starts(q, c, j)
      PROVE  i <= j
  <2>1. CASE i \in 1..Len(p) /\ j \in 1..Len(p)
    BY <1>1, <1>4, <2>1 DEF QueuesOrdered, Ordered, Established, Starts
  <2>2. CASE j = Len(p) + 1
    BY <1>1, <2>2
  <2>3. CASE i = Len(p) + 1 /\ j \in 1..Len(p)
    <3>1. f.op = "connectEstablished" /\ f.conn = c
      BY <1>1, <1>3, <1>4, <2>3 DEF Established
    <3>2. p[j].conn = c /\ p[j] \in Range(p)
      BY <1>1, <1>3, <1>4, <2>3 DEF Starts, Range
    <3>. QED
      BY <3>1, <3>2
  <2>. QED
    BY <1>1, <2>1, <2>2, <2>3
<1>5. ASSUME Do("connectEstablished", c) = f
      PROVE  \A op : Do(op, c) \notin Range(b)
  BY <1>3, <1>5
<1>. QED
  BY <1>2, <1>4, <1>5 DEF QueuesOrdered, Ordered

LEMMA OrderedConcat ==
    ASSUME NEW b \in Seq(Functor), NEW p \in Seq(Functor), NEW d \in Seq(Functor),
           QueuesOrdered(b, p),
           \A f \in Range(d) : f.op # "connectEstablished"
    PROVE  QueuesOrdered(b, p \o d)
<1>. DEFINE q == p \o d
<1>1. /\ Len(p) \in Nat /\ Len(d) \in Nat
      /\ DOMAIN p = 1..Len(p) /\ DOMAIN q = 1..(Len(p) + Len(d)) /\ DOMAIN d = 1..Len(d)
      /\ \A i \in 1..(Len(p) + Len(d)) : q[i] = IF i <= Len(p) THEN p[i] ELSE d[i - Len(p)]
  OBVIOUS
<1>2. Range(q) = Range(p) \cup Range(d)
  BY RangeOfConcat
<1>. SUFFICES ASSUME NEW c \in Conns
              PROVE  /\ Ordered(q, c)
                     /\ Do("connectEstablished", c) \in Range(q) =>
                            /\ Do("connectEstablished", c) \notin Range(b)
                            /\ Do("connectDestroyed", c) \notin Range(b)
  BY DEF QueuesOrdered
<1>3. Do("connectEstablished", c) \notin Range(d)
  BY DEF Do
<1>4. ASSUME NEW i \in DOMAIN q, NEW j \in DOMAIN q,
             Established(q, c, i), Starts(q, c, j)
      PROVE  i <= j
  <2>1. CASE i > Len(p)
    <3>1. i - Len(p) \in 1..Len(d) /\ d[i - Len(p)] = Do("connectEstablished", c)
      BY <1>1, <1>4, <2>1 DEF Established
    <3>. QED
      BY <1>1, <1>3, <3>1 DEF Range
  <2>2. CASE i <= Len(p) /\ j <= Len(p)
    BY <1>1, <1>4, <2>2 DEF QueuesOrdered, Ordered, Established, Starts
  <2>3. CASE i <= Len(p) /\ j > Len(p)
    BY <1>1, <2>3
  <2>. QED
    BY <1>1, <2>1, <2>2, <2>3
<1>. QED
  BY <1>2, <1>3, <1>4 DEF QueuesOrdered, Ordered

\* Once one of the two has run, no establishment of the connection is left.
LEMMA OrderedPop ==
    ASSUME NEW b \in Seq(Functor), NEW p \in Seq(Functor), b # <<>>,
           QueuesOrdered(b, p)
    PROVE  /\ QueuesOrdered(Tail(b), p)
           /\ \A c \in Conns :
                 Head(b) \in {Do("connectEstablished", c), Do("connectDestroyed", c)} =>
                     Do("connectEstablished", c) \notin Range(Tail(b)) \cup Range(p)
<1>1. /\ Len(b) \in Nat \ {0}
      /\ DOMAIN b = 1..Len(b) /\ DOMAIN Tail(b) = 1..(Len(b) - 1)
      /\ Head(b) = b[1]
      /\ \A i \in 1..(Len(b) - 1) : Tail(b)[i] = b[i + 1]
  OBVIOUS
<1>2. Range(b) = {Head(b)} \cup Range(Tail(b))
  BY RangeOfPop
<1>3. ASSUME NEW c \in Conns PROVE Ordered(Tail(b), c)
  <2>. SUFFICES ASSUME NEW i \in 1..(Len(b) - 1), NEW j \in 1..(Len(b) - 1),
                       Established(Tail(b), c, i), Starts(Tail(b), c, j)
                PROVE  i <= j
    BY <1>1 DEF Ordered
  <2>1. i + 1 \in 1..Len(b) /\ j + 1 \in 1..Len(b)
    BY <1>1
  <2>2. Established(b, c, i + 1) /\ Starts(b, c, j + 1)
    BY <1>1 DEF Established, Starts
  <2>3. i + 1 <= j + 1
    BY <1>1, <2>1, <2>2 DEF QueuesOrdered, Ordered
  <2>. QED
    BY <1>1, <2>3
<1>4. ASSUME NEW c \in Conns,
             Head(b) \in {Do("connectEstablished", c), Do("connectDestroyed", c)}
      PROVE  Do("connectEstablished", c) \notin Range(Tail(b)) \cup Range(p)
  <2>1. Do("connectEstablished", c) \notin Range(p)
    BY <1>2, <1>4 DEF QueuesOrdered
  <2>2. ASSUME Do("connectEstablished", c) \in Range(Tail(b)) PROVE FALSE
    <3>1. PICK i \in 1..(Len(b) - 1) : b[i + 1] = Do("connectEstablished", c)
      BY <1>1, <2>2 DEF Range
    <3>2. i + 1 \in DOMAIN b /\ 1 \in DOMAIN b
      BY <1>1
    <3>3. i + 1 <= 1
      BY <1>1, <1>4, <3>1, <3>2 DEF QueuesOrdered, Ordered, Established, Starts
    <3>. QED
      BY <1>1, <3>3
  <2>. QED
    BY <2>1, <2>2
<1>. QED
  BY <1>2, <1>3, <1>4 DEF QueuesOrdered

------------------------------------------------------------------------------
(* Types.                                                                   *)

LEMMA DoType ==
    ASSUME NEW op \in Owning \cup Raw, NEW c \in Conns
    PROVE  Do(op, c) \in Functor /\ Do(op, c).op = op /\ Do(op, c).conn = c
BY DEF Do, Functor

LEMMA PoolFacts ==
    /\ Len(PoolLoops) \in Nat /\ BaseLoop \in Loops
    /\ \A n \in ThreadNums : SubSeq(PoolLoops, 1, n) \in Seq(Loops)
<1>1. /\ Len(PoolLoops) \in Nat /\ DOMAIN PoolLoops = 1..Len(PoolLoops)
      /\ \A i \in 1..Len(PoolLoops) : PoolLoops[i] \in Loops
  BY LoopAssumption DEF Loops, Range
<1>2. ASSUME NEW n \in ThreadNums PROVE SubSeq(PoolLoops, 1, n) \in Seq(Loops)
  <2>1. n \in Nat /\ n <= Len(PoolLoops)
    BY <1>1, LoopAssumption
  <2>2. \A i \in 1..n : PoolLoops[i] \in Loops
    BY <1>1, <2>1
  <2>. QED
    BY <2>1, <2>2, SubSeqProperties
<1>. QED
  BY <1>1, <1>2 DEF Loops

LEMMA PushType ==
    ASSUME TypeOK, NEW m \in Loops, NEW f \in Functor
    PROVE  queueInLoop(m, f) \in [Loops -> Seq(Functor)]
BY DEF TypeOK, queueInLoop

\* The parts of the state that the functions of a connection change.
ConnTypes ==
    /\ state_ \in [Conns -> {"none", "kConnecting", "kConnected",
                             "kDisconnecting", "kDisconnected"}]
    /\ events \in [Conns -> SUBSET {"R", "W"}]
    /\ index \in [Conns -> {"kNew", "kAdded", "kDeleted"}]
    /\ pending \in [Loops -> Seq(Functor)]
    /\ connections_ \subseteq Conns
    /\ ups \in [Conns -> Nat] /\ downs \in [Conns -> Nat]

LEMMA UpdateType ==
    ASSUME TypeOK, NEW c \in Conns, NEW ev \in SUBSET {"R", "W"}, updateChannel(c, ev)
    PROVE  /\ events' \in [Conns -> SUBSET {"R", "W"}]
           /\ index' \in [Conns -> {"kNew", "kAdded", "kDeleted"}]
BY DEF TypeOK, updateChannel, update

LEMMA NothingType == TypeOK /\ Nothing => ConnTypes'
BY DEF TypeOK, Nothing, connVars, callbackVars, ConnTypes

LEMMA EraseType ==
    ASSUME TypeOK, NEW c \in Conns, Erase(c)
    PROVE  pending' \in [Loops -> Seq(Functor)] /\ connections_' \subseteq Conns
<1>1. ioLoop[c] \in Loops /\ Do("connectDestroyed", c) \in Functor
  BY DoType DEF TypeOK, Owning
<1>. QED
  BY <1>1, PushType DEF Erase, TypeOK

LEMMA CloseType ==
    ASSUME TypeOK, NEW c \in Conns, handleClose(c)
    PROVE  ConnTypes'
<1>1. /\ state_' = [state_ EXCEPT ![c] = "kDisconnected"]
      /\ updateChannel(c, {}) /\ downs' = [downs EXCEPT ![c] = @ + 1]
      /\ removeConnection(c) /\ UNCHANGED ups
  BY DEF handleClose, disableAll
<1>2. pending' \in [Loops -> Seq(Functor)] /\ connections_' \subseteq Conns
  <2>1. CASE ioLoop[c] = BaseLoop
    BY <1>1, <2>1, EraseType DEF removeConnection
  <2>2. CASE ioLoop[c] # BaseLoop
    <3>1. BaseLoop \in Loops /\ Do("removeConnectionInLoop", c) \in Functor
      BY DoType, PoolFacts DEF Owning
    <3>2. /\ pending' = queueInLoop(BaseLoop, Do("removeConnectionInLoop", c))
          /\ connections_' = connections_
      BY <1>1, <2>2 DEF removeConnection
    <3>3. pending' \in [Loops -> Seq(Functor)]
      BY <3>1, <3>2, PushType
    <3>. QED
      BY <3>2, <3>3 DEF TypeOK
  <2>. QED
    BY <2>1, <2>2
<1>3. /\ events' \in [Conns -> SUBSET {"R", "W"}]
      /\ index' \in [Conns -> {"kNew", "kAdded", "kDeleted"}]
  BY <1>1, UpdateType
<1>4. /\ state_' \in [Conns -> {"none", "kConnecting", "kConnected",
                              "kDisconnecting", "kDisconnected"}]
      /\ ups' \in [Conns -> Nat] /\ downs' \in [Conns -> Nat]
  BY <1>1 DEF TypeOK
<1>. QED
  BY <1>2, <1>3, <1>4 DEF ConnTypes

LEMMA WriteType ==
    ASSUME TypeOK, NEW c \in Conns, handleWrite(c)
    PROVE  ConnTypes'
<1>1. events[c] \ {"W"} \in SUBSET {"R", "W"}
  BY DEF TypeOK
<1>2. CASE updateChannel(c, events[c] \ {"W"}) /\ UNCHANGED <<state_, pending, connections_, callbackVars>>
  BY <1>1, <1>2, UpdateType DEF ConnTypes, TypeOK, callbackVars
<1>. QED
  BY <1>2, NothingType DEF handleWrite

LEMMA SendType ==
    ASSUME TypeOK, NEW c \in Conns, sendInLoop(c)
    PROVE  ConnTypes'
<1>1. events[c] \cup {"W"} \in SUBSET {"R", "W"}
  BY DEF TypeOK
<1>2. CASE /\ updateChannel(c, events[c] \cup {"W"})
           /\ UNCHANGED <<state_, pending, connections_, callbackVars>>
  BY <1>1, <1>2, UpdateType DEF ConnTypes, TypeOK, callbackVars
<1>. QED
  BY <1>2, NothingType DEF sendInLoop

\* What the handling of an event comes to.
LEMMA EventKinds ==
    ASSUME NEW l \in Loops, NEW c \in Conns, NEW e \in Events, handleEvent(l, c, e)
    PROVE  handleClose(c) \/ handleWrite(c) \/ sendInLoop(c)
<1>1. Nothing => sendInLoop(c)
  BY DEF sendInLoop
<1>2. CASE e = "write"
  BY <1>2 DEF handleEvent
<1>3. CASE e = "hup"
  BY <1>3 DEF handleEvent
<1>4. CASE e \in {"data", "close"}
  <2>1. handleRead(c, e)
    BY <1>4 DEF handleEvent
  <2>. QED
    BY <1>1, <2>1 DEF handleRead, onMessage
<1>. QED
  BY <1>2, <1>3, <1>4 DEF Events

LEMMA RunType ==
    ASSUME TypeOK, NEW f \in Functor, Run(f)
    PROVE  ConnTypes'
<1>. DEFINE c == f.conn
<1>1. c \in Conns /\ f.op \in Owning \cup Raw /\ ioLoop[c] \in Loops
  BY DEF Functor, TypeOK
<1>2. CASE f.op = "connectEstablished"
  <2>1. connectEstablished(c)
    BY <1>2 DEF Run
  <2>2. events[c] \cup {"R"} \in SUBSET {"R", "W"}
    BY <1>1 DEF TypeOK
  <2>3. /\ events' \in [Conns -> SUBSET {"R", "W"}]
        /\ index' \in [Conns -> {"kNew", "kAdded", "kDeleted"}]
    BY <1>1, <2>1, <2>2, UpdateType DEF connectEstablished
  <2>4. /\ state_' = [state_ EXCEPT ![c] = "kConnected"]
        /\ ups' = [ups EXCEPT ![c] = @ + 1]
        /\ UNCHANGED <<pending, connections_, downs>>
    BY <2>1 DEF connectEstablished
  <2>. QED
    BY <1>1, <2>3, <2>4 DEF ConnTypes, TypeOK
<1>3. CASE f.op = "connectDestroyed"
  <2>1. connectDestroyed(c)
    BY <1>3 DEF Run
  <2>. QED
    BY <1>1, <2>1 DEF connectDestroyed, removeChannel, callbackVars, ConnTypes, TypeOK
<1>4. CASE f.op = "removeConnectionInLoop"
  <2>1. Erase(c) /\ UNCHANGED <<connVars, callbackVars>>
    BY <1>4 DEF Run, removeConnectionInLoop
  <2>. QED
    BY <1>1, <2>1, EraseType DEF connVars, callbackVars, ConnTypes, TypeOK
<1>5. CASE f.op = "sendFileInLoop"
  <2>1. sendFileInLoop(c) /\ Do("sendFileInLoop", c) \in Functor
    BY <1>1, <1>5, DoType DEF Run
  <2>2. CASE /\ pending' = queueInLoop(ioLoop[c], Do("sendFileInLoop", c))
             /\ UNCHANGED <<connVars, connections_, callbackVars>>
    BY <1>1, <2>1, <2>2, PushType DEF connVars, callbackVars, ConnTypes, TypeOK
  <2>. QED
    BY <2>1, <2>2, NothingType DEF sendFileInLoop
<1>6. CASE f.op = "sendInLoop"
  BY <1>1, <1>6, SendType DEF Run
<1>7. CASE f.op = "shutdownInLoop"
  BY <1>7, NothingType DEF Run
<1>. QED
  BY <1>1, <1>2, <1>3, <1>4, <1>5, <1>6, <1>7 DEF Owning, Raw

LEMMA TypeInit == Init => TypeOK
<1>. SUFFICES ASSUME Init PROVE TypeOK
  OBVIOUS
<1>1. BaseLoop \in Loops
  BY PoolFacts
<1>2. loops_ \in Seq(Loops)
  BY PoolFacts DEF Init, start, poolStart
<1>3. loops_ # <<>> => 0 < Len(loops_)
  BY <1>2
<1>4. <<>> \in Seq(Functor)
  OBVIOUS
<1>. QED
  BY <1>1, <1>2, <1>3, <1>4 DEF Init, TypeOK

\* What ConnTypes leaves to be shown of a step.
LEMMA TypeRest ==
    ASSUME TypeOK, ConnTypes', UNCHANGED <<ioLoop, poolVars, userVars, server>>,
           phase' \in [Loops -> {"poll", "events", "functors", "stopped"}],
           active' \in [Loops -> SUBSET (Conns \X Events)],
           batch' \in [Loops -> Seq(Functor)],
           peer' \in [Conns -> {"open", "fin", "reset"}]
    PROVE  TypeOK'
BY DEF TypeOK, ConnTypes, poolVars, userVars

LEMMA LoopType ==
    ASSUME TypeOK, NEW l \in Loops, LoopStep(l)
    PROVE  TypeOK'
<1>1. ASSUME NEW r \in Reports(l), poll(l, r) PROVE TypeOK'
  <2>1. r \in SUBSET (Conns \X Events)
    BY DEF Reports
  <2>. QED
    BY <1>1, <2>1, TypeRest DEF poll, LoopRest, TypeOK, ConnTypes, connVars, callbackVars
<1>2. ASSUME NEW c \in Conns, NEW e \in Events, handleEvent(l, c, e) PROVE TypeOK'
  <2>1. ConnTypes'
    BY <1>2, EventKinds, CloseType, WriteType, SendType
  <2>2. active' \in [Loops -> SUBSET (Conns \X Events)]
    BY <1>2 DEF handleEvent, TypeOK
  <2>. QED
    BY <1>2, <2>1, <2>2, TypeRest DEF handleEvent, LoopRest, TypeOK
<1>3. CASE takeFunctors(l)
  <2>1. /\ ConnTypes'
        /\ batch' \in [Loops -> Seq(Functor)]
    BY <1>3 DEF takeFunctors, TypeOK, ConnTypes, connVars, callbackVars
  <2>. QED
    BY <1>3, <2>1, TypeRest DEF takeFunctors, LoopRest, TypeOK
<1>4. CASE runFunctor(l)
  <2>1. Head(batch[l]) \in Functor /\ Tail(batch[l]) \in Seq(Functor)
    BY <1>4 DEF runFunctor, TypeOK
  <2>2. ConnTypes'
    BY <1>4, <2>1, RunType DEF runFunctor
  <2>3. batch' \in [Loops -> Seq(Functor)]
    BY <1>4, <2>1 DEF runFunctor, TypeOK
  <2>. QED
    BY <1>4, <2>2, <2>3, TypeRest DEF runFunctor, LoopRest, TypeOK
<1>5. CASE endFunctors(l)
  BY <1>5, TypeRest DEF endFunctors, LoopRest, TypeOK, ConnTypes, connVars, callbackVars
<1>. QED
  BY <1>1, <1>2, <1>3, <1>4, <1>5 DEF LoopStep

LEMMA NextLoopType ==
    ASSUME TypeOK
    PROVE  /\ getNextLoop \in Loops
           /\ NextIndex(next_) \in Nat
           /\ loops_ # <<>> => NextIndex(next_) < Len(loops_)
<1>1. loops_ # <<>> => next_ + 1 \in 1..Len(loops_)
  BY DEF TypeOK
<1>. QED
  <2>1. getNextLoop \in Loops
    BY <1>1, PoolFacts DEF TypeOK, getNextLoop
  <2>2. next_ \in Nat /\ Len(loops_) \in Nat
    BY DEF TypeOK
  <2>3. NextIndex(next_) \in Nat /\ (loops_ # <<>> => NextIndex(next_) < Len(loops_))
    BY <1>1, <2>2 DEF NextIndex
  <2>. QED
    BY <2>1, <2>3

LEMMA AcceptType ==
    ASSUME TypeOK, NEW c \in Conns, newConnection(c)
    PROVE  TypeOK'
<1>. DEFINE l == getNextLoop
<1>1. l \in Loops /\ Do("connectEstablished", c) \in Functor
  BY NextLoopType, DoType DEF Owning
<1>2. ConnTypes'
  <2>1. CASE l # BaseLoop
    <3>1. pending' \in [Loops -> Seq(Functor)]
      BY <1>1, <2>1, PushType DEF newConnection
    <3>. QED
      BY <2>1, <3>1 DEF newConnection, ConnTypes, TypeOK, callbackVars
  <2>2. CASE l = BaseLoop
    <3>1. updateChannel(c, {"R"})
      BY <2>2 DEF newConnection
    <3>2. /\ events' \in [Conns -> SUBSET {"R", "W"}]
          /\ index' \in [Conns -> {"kNew", "kAdded", "kDeleted"}]
      BY <3>1, UpdateType
    <3>3. /\ state_' = [state_ EXCEPT ![c] = "kConnected"]
          /\ ups' = [ups EXCEPT ![c] = @ + 1]
          /\ connections_' = connections_ \cup {c}
          /\ UNCHANGED <<pending, downs>>
      BY <2>2 DEF newConnection
    <3>. QED
      BY <3>2, <3>3 DEF ConnTypes, TypeOK
  <2>. QED
    BY <2>1, <2>2
<1>3. /\ ioLoop' \in [Conns -> Loops]
      /\ next_' \in Nat /\ (loops_' # <<>> => next_' < Len(loops_'))
  BY <1>1, NextLoopType DEF newConnection, TypeOK
<1>. QED
  BY <1>2, <1>3 DEF newConnection, ConnTypes, TypeOK, loopVars, userVars

LEMMA UserType ==
    ASSUME TypeOK, NEW u \in Users, UserStep(u)
    PROVE  TypeOK'
<1>. DEFINE CallType == [op : ForeignOps \cup {"runInLoop"}, conn : Conns]
<1>0. call \in [Users -> {NoCall} \cup CallType] /\ (call[u] # NoCall => call[u] \in CallType)
  BY DEF TypeOK
<1>1. ASSUME NEW c \in Conns, hold(u, c) \/ release(u, c) PROVE TypeOK'
  BY <1>1 DEF hold, release, UserRest, loopVars, poolVars, callbackVars, TypeOK
<1>2. ASSUME NEW c \in Conns, NEW op \in ForeignOps, beginCall(u, op, c) PROVE TypeOK'
  <2>1. Do(op, c) \in CallType
    BY DEF Do
  <2>2. call' \in [Users -> {NoCall} \cup CallType]
    BY <1>0, <1>2, <2>1 DEF beginCall
  <2>. QED
    BY <1>2, <2>2 DEF beginCall, UserRest, loopVars, poolVars, callbackVars, TypeOK
<1>3. CASE setDisconnecting(u)
  <2>1. call[u] \in CallType
    BY <1>0, <1>3 DEF setDisconnecting
  <2>2. [call[u] EXCEPT !.op = "runInLoop"] \in CallType
    BY <2>1
  <2>3. call' = [call EXCEPT ![u] = [call[u] EXCEPT !.op = "runInLoop"]]
    BY <1>3 DEF setDisconnecting
  <2>4. call' \in [Users -> {NoCall} \cup CallType]
    BY <1>0, <2>2, <2>3
  <2>. QED
    BY <1>3, <2>4 DEF setDisconnecting, UserRest, loopVars, poolVars, callbackVars, TypeOK
<1>4. CASE queueCall(u)
  <2>1. call[u] \in CallType
    BY <1>0, <1>4 DEF queueCall
  <2>. DEFINE op == IF call[u].op = "runInLoop" THEN "shutdown" ELSE call[u].op
  <2>2. op \in {"send", "sendFile", "shutdown"} /\ call[u].conn \in Conns
    BY <2>1, LoopAssumption
  <2>3. Bound[op] \in Owning \cup Raw
    BY <2>2 DEF Bound, Owning, Raw
  <2>4. Do(Bound[op], call[u].conn) \in Functor /\ ioLoop[call[u].conn] \in Loops
    BY <2>2, <2>3, DoType DEF TypeOK
  <2>5. pending' \in [Loops -> Seq(Functor)]
    BY <1>4, <2>4, PushType DEF queueCall
  <2>6. call' \in [Users -> {NoCall} \cup CallType]
    BY <1>0, <1>4 DEF queueCall
  <2>. QED
    BY <1>4, <2>5, <2>6 DEF queueCall, UserRest, loopVars, poolVars, callbackVars, TypeOK
<1>. QED
  BY <1>1, <1>2, <1>3, <1>4 DEF UserStep

\* The functors for the connections that the server still has when it ends.
LEMMA DestructionsFacts ==
    ASSUME TypeOK, NEW order \in Orders, NEW l \in Loops
    PROVE  /\ Destructions(order[l]) \in Seq(Functor)
           /\ Range(Destructions(order[l])) =
                  {Do("connectDestroyed", c) : c \in Range(order[l])}
<1>1. PICK S \in SUBSET connections_ : order[l] \in SetToSeqs(S)
  BY DEF Orders
<1>2. S \subseteq Conns /\ Cardinality(S) \in Nat
  BY <1>1, LoopAssumption, FS_Subset, FS_CardinalityType DEF TypeOK
<1>. DEFINE n == Cardinality(S)
            s == order[l]
            d == Destructions(s)
<1>3. s \in [1..n -> S] /\ DOMAIN s = 1..n
  BY <1>1 DEF SetToSeqs
<1>4. d = [i \in 1..n |-> Do("connectDestroyed", s[i])]
  BY <1>3 DEF Destructions
<1>5. \A i \in 1..n : s[i] \in Conns /\ Do("connectDestroyed", s[i]) \in Functor
  BY <1>2, <1>3, DoType DEF Owning
<1>6. d \in Seq(Functor)
  BY <1>2, <1>4, <1>5
<1>7. Range(d) = {Do("connectDestroyed", c) : c \in Range(s)}
  BY <1>3, <1>4 DEF Range
<1>. QED
  BY <1>6, <1>7

LEMMA EndType ==
    ASSUME TypeOK, \/ destroyServer
                   \/ \E l \in Loops : stopLoop(l)
                   \/ destroyBaseLoop
    PROVE  TypeOK'
<1>1. BaseLoop \in Loops
  BY PoolFacts
<1>2. CASE destroyServer
  <2>1. CASE loops_ = <<>>
    <3>1. /\ state_' \in [Conns -> {"none", "kConnecting", "kConnected",
                                   "kDisconnecting", "kDisconnected"}]
          /\ events' \in [Conns -> SUBSET {"R", "W"}]
          /\ index' \in [Conns -> {"kNew", "kAdded", "kDeleted"}]
          /\ pending' = pending
      <4>1. /\ state_' = [c \in Conns |-> IF c \in connections_ /\ state_[c] = "kConnected"
                                          THEN "kDisconnected" ELSE state_[c]]
            /\ events' = [c \in Conns |-> IF c \in connections_ /\ state_[c] = "kConnected"
                                          THEN {} ELSE events[c]]
            /\ index' = [c \in Conns |-> IF c \in connections_ THEN "kNew" ELSE index[c]]
            /\ pending' = pending
        BY <1>2, <2>1, Zenon DEF destroyServer
      <4>. QED
        BY <4>1 DEF TypeOK
    <3>. QED
      BY <1>1, <1>2, <3>1 DEF destroyServer, poolVars, userVars, callbackVars, TypeOK
  <2>2. CASE loops_ # <<>>
    <3>1. PICK order \in Orders :
             pending' = [l \in Loops |-> pending[l] \o Destructions(order[l])]
      BY <1>2, <2>2 DEF destroyServer
    <3>2. \A l \in Loops : pending[l] \o Destructions(order[l]) \in Seq(Functor)
      BY DestructionsFacts DEF TypeOK
    <3>3. pending' \in [Loops -> Seq(Functor)]
      BY <3>1, <3>2
    <3>4. UNCHANGED connVars
      BY <1>2, <2>2 DEF destroyServer
    <3>. QED
      BY <1>1, <1>2, <3>3, <3>4 DEF destroyServer, poolVars, userVars, callbackVars, connVars, TypeOK
  <2>. QED
    BY <2>1, <2>2
<1>3. ASSUME NEW l \in Loops, stopLoop(l) PROVE TypeOK'
  <2>1. <<>> \in Seq(Functor)
    OBVIOUS
  <2>2. /\ pending' \in [Loops -> Seq(Functor)]
        /\ phase' \in [Loops -> {"poll", "events", "functors", "stopped"}]
    BY <1>3, <2>1 DEF stopLoop, TypeOK
  <2>. QED
    BY <1>3, <2>2 DEF stopLoop, connVars, callbackVars, poolVars, userVars, TypeOK
<1>4. CASE destroyBaseLoop
  <2>1. <<>> \in Seq(Functor)
    OBVIOUS
  <2>2. pending' \in [Loops -> Seq(Functor)]
    BY <1>4, <2>1 DEF destroyBaseLoop, TypeOK
  <2>. QED
    BY <1>4, <2>2 DEF destroyBaseLoop, loopVars, connVars, callbackVars, poolVars, userVars, TypeOK
<1>. QED
  BY <1>2, <1>3, <1>4

LEMMA PeerType ==
    ASSUME TypeOK, NEW c \in Conns, peerCloses(c) \/ shutdownHere(c)
    PROVE  TypeOK'
<1>1. CASE peerCloses(c)
  BY <1>1 DEF peerCloses, loopVars, connVars, poolVars, userVars, callbackVars, TypeOK
<1>2. CASE shutdownHere(c)
  BY <1>2 DEF shutdownHere, loopVars, poolVars, userVars, callbackVars, TypeOK
<1>. QED
  BY <1>1, <1>2

LEMMA TypeNext == TypeOK /\ [Next]_vars => TypeOK'
<1>. SUFFICES ASSUME TypeOK, [Next]_vars PROVE TypeOK'
  OBVIOUS
<1>1. CASE UNCHANGED vars
  BY <1>1 DEF vars, TypeOK
<1>. QED
  BY <1>1, LoopType, AcceptType, PeerType, UserType, EndType DEF Next

\* The types of the server, its loops and its connections (TcpServer.cc,
\* TcpConnection.cc, EventLoopThreadPool.cc): the round robin stays in the pool.
THEOREM TypeCorrect == Spec => []TypeOK
BY TypeInit, TypeNext, PTL DEF Spec

------------------------------------------------------------------------------
(* The life of a connection.  Its parts hold as long as no thread of the    *)
(* user calls send, which may put the channel of a closed connection back   *)
(* into the poller (TcpConnection.cc:51).                                   *)

\* A functor is queued in the loop it is for, of a connection that exists.
QueuedWell(l, f) ==
    /\ f.op # "sendInLoop"
    /\ Accepted(f.conn)
    /\ IF f.op = "removeConnectionInLoop" THEN l = BaseLoop ELSE l = ioLoop[f.conn]

Queued == \A l \in Loops : \A f \in Functors(l) : QueuedWell(l, f)

InOrder == \A l \in Loops : QueuesOrdered(batch[l], pending[l])

\* Where a loop is says what it has left to do.
PhasesOK ==
    \A l \in Loops :
        /\ phase[l] # "functors" => batch[l] = <<>>
        /\ phase[l] # "events" => active[l] = {}

\* What poll reported is about channels that are still in the poller.
ActiveOK ==
    \A l \in Loops :
        /\ \A x \in active[l] : ioLoop[x[1]] = l /\ index[x[1]] = "kAdded"
        /\ \A x, y \in active[l] : x[1] = y[1] => x = y

\* Calls are made on connections that were accepted.
CallsOK == \A u \in Users : call[u] # NoCall => Accepted(call[u].conn)

\* There is no pool that connections could be in other loops for, a connection
\* that was not accepted has no trace.
Beginnings ==
    /\ loops_ = <<>> => \A c \in Conns : ioLoop[c] = BaseLoop
    /\ \A c \in Conns : ~Accepted(c) => /\ index[c] = "kNew" /\ ups[c] = 0 /\ downs[c] = 0
                                        /\ c \notin connections_
    /\ CallsOK

\* A connection that is to be established has not been, and is wanted.
Awaited(l, c) ==
    /\ loops_ # <<>>
    /\ index[c] = "kNew" /\ ups[c] = 0 /\ downs[c] = 0
    /\ c \in connections_ \/ Do("connectDestroyed", c) \in Functors(l)

Waits == \A l \in Loops, c \in Conns :
             Do("connectEstablished", c) \in Functors(l) => Awaited(l, c)

\* A channel in the poller belongs to a connection that was reported up only.
Counts(c) ==
    /\ ups[c] \in {0, 1} /\ downs[c] <= ups[c]
    /\ index[c] = "kAdded" => ups[c] = 1 /\ downs[c] = 0

\* A functor on its way will take the connection out of the poller.
Leaving(c) ==
    \E l \in Loops : \/ Do("removeConnectionInLoop", c) \in Functors(l)
                     \/ Do("connectDestroyed", c) \in Functors(l)

\* Until the channel is removed the server or such a functor has the connection.
Kept(c) ==
    \/ index[c] = "kNew"
    \/ c \in connections_
    \/ Leaving(c)
    \/ phase[ioLoop[c]] = "stopped"

LifeInv ==
    /\ TypeOK
    /\ Queued /\ InOrder /\ PhasesOK /\ ActiveOK /\ Beginnings /\ Waits
    /\ \A c \in Conns : Counts(c) /\ Kept(c)

LEMMA LifeInit == Init => LifeInv
<1>. SUFFICES ASSUME Init PROVE LifeInv
  OBVIOUS
<1>1. TypeOK
  BY TypeInit
<1>2. Range(<<>>) = {}
  BY DEF Range
<1>3. \A l \in Loops : Functors(l) = {}
  BY <1>2 DEF Init, Functors
<1>4. InOrder
  BY <1>2, OrderedEmpty DEF Init, InOrder, QueuesOrdered
<1>5. \A c \in Conns : Counts(c) /\ Kept(c) /\ ~Accepted(c)
  BY DEF Init, Counts, Kept, Accepted
<1>6. Beginnings
  BY <1>5 DEF Init, Beginnings, CallsOK
<1>. QED
  BY <1>1, <1>3, <1>4, <1>5, <1>6 DEF LifeInv, Queued, PhasesOK, ActiveOK, Waits, Init

\* A step that changes nothing of the connections.
LEMMA QuietStep ==
    ASSUME LifeInv, TypeOK',
           UNCHANGED <<index, ups, downs, connections_, ioLoop, loops_>>,
           \A l \in Loops : Functors(l)' = Functors(l),
           \A l \in Loops : phase[l] = "stopped" => phase'[l] = "stopped",
           InOrder', PhasesOK', ActiveOK',
           \A c \in Conns : Accepted(c) => Accepted(c)',
           CallsOK'
    PROVE  LifeInv'
<1>1. \A l \in Loops : Functors(l)' = Functors(l)
  OBVIOUS
<1>2. \A l \in Loops : \A f \in Functors(l) : f.conn \in Conns
  <2>1. \A l \in Loops : batch[l] \in Seq(Functor) /\ pending[l] \in Seq(Functor)
    BY DEF LifeInv, TypeOK
  <2>2. \A l \in Loops : Functors(l) \subseteq Functor
    BY <2>1 DEF Functors, Range
  <2>. QED
    BY <2>2 DEF Functor
<1>3. Queued'
  BY <1>1, <1>2 DEF LifeInv, Queued, QueuedWell
<1>6. Beginnings'
  <2>1. Beginnings
    BY DEF LifeInv
  <2>2. loops_' = <<>> => \A c \in Conns : ioLoop'[c] = BaseLoop
    BY <2>1 DEF Beginnings
  <2>3. \A c \in Conns : ~Accepted(c)' => ~Accepted(c)
    OBVIOUS
  <2>. QED
    BY <2>1, <2>2, <2>3 DEF Beginnings, Accepted
<1>7. Waits'
  BY <1>1 DEF LifeInv, Waits, Awaited
<1>8. \A c \in Conns : Counts(c)' /\ Kept(c)'
  <2>1. \A c \in Conns : Leaving(c)' <=> Leaving(c)
    BY <1>1 DEF Leaving
  <2>2. \A c \in Conns : phase[ioLoop[c]] = "stopped" => phase'[ioLoop'[c]] = "stopped"
    BY DEF LifeInv, TypeOK
  <2>. QED
    BY <2>1, <2>2 DEF LifeInv, Counts, Kept
<1>. QED
  BY <1>3, <1>6, <1>7, <1>8 DEF LifeInv

LEMMA QuietLoops ==
    ASSUME LifeInv, TypeOK',
           UNCHANGED <<loopVars, pending, index, ups, downs, connections_, ioLoop, loops_>>,
           \A c \in Conns : Accepted(c) => Accepted(c)',
           CallsOK'
    PROVE  LifeInv'
<1>1. \A l \in Loops : Functors(l)' = Functors(l)
  BY DEF Functors, loopVars
<1>2. InOrder' /\ PhasesOK' /\ ActiveOK'
  BY DEF LifeInv, InOrder, PhasesOK, ActiveOK, loopVars
<1>. QED
  BY <1>1, <1>2, QuietStep DEF loopVars

\* A step that is about one connection: what is left to show of it.
LEMMA OneConn ==
    ASSUME LifeInv, TypeOK', NEW c0 \in Conns,
           UNCHANGED loops_,
           \A k \in Loops : phase[k] = "stopped" => phase'[k] = "stopped",
           \A c \in Conns : c # c0 =>
               /\ index'[c] = index[c] /\ ups'[c] = ups[c] /\ downs'[c] = downs[c]
               /\ ioLoop'[c] = ioLoop[c] /\ state_'[c] = state_[c]
               /\ c \in connections_' <=> c \in connections_,
           \A k \in Loops, f \in Functor : f.conn # c0 =>
               (f \in Functors(k)' <=> f \in Functors(k)),
           \A k \in Loops, f \in Functor :
               f.conn = c0 /\ f \in Functors(k)' => QueuedWell(k, f)',
           \A k \in Loops : Do("connectEstablished", c0) \in Functors(k)' => Awaited(k, c0)',
           InOrder', PhasesOK', ActiveOK',
           loops_ = <<>> => ioLoop'[c0] = BaseLoop,
           Accepted(c0)',
           \A u \in Users : call'[u] \in {call[u], NoCall},
           Counts(c0)', Kept(c0)'
    PROVE  LifeInv'
<1>1. \A l \in Loops : Functors(l)' \subseteq Functor
  <2>1. \A l \in Loops : batch'[l] \in Seq(Functor) /\ pending'[l] \in Seq(Functor)
    BY DEF TypeOK
  <2>. QED
    BY <2>1 DEF Functors, Range
<1>2. ASSUME NEW l \in Loops, NEW f \in Functors(l)' PROVE QueuedWell(l, f)'
  <2>1. CASE f.conn = c0
    BY <1>1, <2>1
  <2>2. CASE f.conn # c0
    <3>1. f \in Functors(l) /\ f.conn \in Conns
      BY <1>1, <2>2 DEF Functor
    <3>2. QueuedWell(l, f)
      BY <3>1 DEF LifeInv, Queued
    <3>. QED
      BY <2>2, <3>1, <3>2 DEF QueuedWell, Accepted
  <2>. QED
    BY <2>1, <2>2
<1>3. \A op \in Owning, c \in Conns : Do(op, c) \in Functor /\ Do(op, c).conn = c
  BY DoType
<1>4. \A l \in Loops, c \in Conns, op \in Owning : c # c0 =>
         (Do(op, c) \in Functors(l)' <=> Do(op, c) \in Functors(l))
  BY <1>3
<1>5. Waits'
  <2>. SUFFICES ASSUME NEW l \in Loops, NEW c \in Conns, c # c0,
                       Do("connectEstablished", c) \in Functors(l)'
                PROVE  Awaited(l, c)'
    BY DEF Waits
  <2>1. Awaited(l, c)
    BY <1>4 DEF LifeInv, Waits, Owning
  <2>. QED
    BY <1>4, <2>1 DEF Awaited, Owning
<1>6. Beginnings'
  <2>1. Beginnings
    BY DEF LifeInv
  <2>2. loops_' = <<>> => \A c \in Conns : ioLoop'[c] = BaseLoop
    BY <2>1 DEF Beginnings
  <2>3. \A c \in Conns : c # c0 => (Accepted(c)' <=> Accepted(c))
    BY DEF Accepted
  <2>4. \A u \in Users : call[u] # NoCall => call[u].conn \in Conns
    BY DEF LifeInv, TypeOK
  <2>6. Accepted(c0)' /\ CallsOK
    BY <2>1 DEF Beginnings
  <2>5. CallsOK'
    <3>1. ASSUME NEW u \in Users, call'[u] # NoCall PROVE state_'[call'[u].conn] # "none"
      <4>1. call'[u] = call[u] /\ call[u].conn \in Conns /\ Accepted(call[u].conn)
        BY <2>4, <2>6, <3>1 DEF CallsOK
      <4>. QED
        BY <2>3, <2>6, <4>1 DEF Accepted
    <3>. QED
      BY <3>1 DEF CallsOK, Accepted
  <2>. QED
    BY <2>1, <2>2, <2>3, <2>5 DEF Beginnings, Accepted
<1>7. ASSUME NEW c \in Conns PROVE Counts(c)' /\ Kept(c)'
  <2>1. CASE c = c0
    BY <2>1
  <2>2. CASE c # c0
    <3>1. Counts(c) /\ Kept(c)
      BY DEF LifeInv
    <3>2. Leaving(c) => Leaving(c)'
      BY <1>4, <2>2 DEF Leaving, Owning
    <3>3. phase[ioLoop[c]] = "stopped" => phase'[ioLoop'[c]] = "stopped"
      BY <2>2 DEF LifeInv, TypeOK
    <3>. QED
      BY <2>2, <3>1, <3>2, <3>3 DEF Counts, Kept
  <2>. QED
    BY <2>1, <2>2
<1>. QED
  BY <1>2, <1>5, <1>6, <1>7 DEF LifeInv, Queued

------------------------------------------------------------------------------
(* What steps do to the queues.                                             *)

LEMMA FunctorsType == TypeOK => \A l \in Loops : Functors(l) \subseteq Functor
<1>1. TypeOK => \A l \in Loops : batch[l] \in Seq(Functor) /\ pending[l] \in Seq(Functor)
  BY DEF TypeOK
<1>. QED
  BY <1>1 DEF Functors, Range

LEMMA PushFacts ==
    ASSUME TypeOK, InOrder, NEW m \in Loops, NEW f \in Functor,
           pending' = queueInLoop(m, f), UNCHANGED batch,
           f.op = "connectEstablished" => \A g \in Functors(m) : g.conn # f.conn
    PROVE  /\ \A k \in Loops :
                 Functors(k)' = Functors(k) \cup (IF k = m THEN {f} ELSE {})
           /\ InOrder'
<1>1. \A k \in Loops : batch[k] \in Seq(Functor) /\ pending[k] \in Seq(Functor)
  BY DEF TypeOK
<1>2. \A k \in Loops : pending'[k] = IF k = m THEN Append(pending[k], f) ELSE pending[k]
  BY DEF TypeOK, queueInLoop
<1>3. Range(Append(pending[m], f)) = Range(pending[m]) \cup {f}
  BY <1>1, RangeOfPush
<1>4. \A k \in Loops : Functors(k)' = Functors(k) \cup (IF k = m THEN {f} ELSE {})
  BY <1>2, <1>3 DEF Functors
<1>5. QueuesOrdered(batch[m], Append(pending[m], f))
  BY <1>1, OrderedPush DEF InOrder, Functors
<1>6. InOrder'
  BY <1>2, <1>5 DEF InOrder
<1>. QED
  BY <1>4, <1>6

\* The functor at the head is run, and may queue another.
LEMMA RunFacts ==
    ASSUME TypeOK, InOrder, NEW l \in Loops, batch[l] # <<>>,
           batch' = [batch EXCEPT ![l] = Tail(@)],
           NEW m \in Loops, NEW f \in Functor, f.op # "connectEstablished",
           \/ UNCHANGED pending
           \/ pending' = queueInLoop(m, f)
    PROVE  /\ Head(batch[l]) \in Functors(l)
           /\ \A k \in Loops :
                 /\ Functors(k) \subseteq
                        Functors(k)' \cup (IF k = l THEN {Head(batch[l])} ELSE {})
                 /\ Functors(k)' \subseteq Functors(k) \cup (IF k = m THEN {f} ELSE {})
                 /\ UNCHANGED pending => Functors(k)' \subseteq Functors(k)
           /\ pending' = queueInLoop(m, f) => f \in Functors(m)'
           /\ InOrder'
           /\ \A c \in Conns :
                 Head(batch[l]) \in {Do("connectEstablished", c), Do("connectDestroyed", c)} =>
                     Do("connectEstablished", c) \notin Functors(l)'
<1>1. \A k \in Loops : batch[k] \in Seq(Functor) /\ pending[k] \in Seq(Functor)
  BY DEF TypeOK
<1>2. \A k \in Loops : batch'[k] = IF k = l THEN Tail(batch[l]) ELSE batch[k]
  BY DEF TypeOK
<1>3. Range(batch[l]) = {Head(batch[l])} \cup Range(Tail(batch[l]))
  BY <1>1, RangeOfPop
<1>4. Tail(batch[l]) \in Seq(Functor)
  BY <1>1, RangeOfPop
<1>5. /\ QueuesOrdered(Tail(batch[l]), pending[l])
      /\ \A c \in Conns :
            Head(batch[l]) \in {Do("connectEstablished", c), Do("connectDestroyed", c)} =>
                Do("connectEstablished", c) \notin Range(Tail(batch[l])) \cup Range(pending[l])
  BY <1>1, OrderedPop DEF InOrder
<1>6. \A k \in Loops : /\ batch'[k] \in Seq(Functor)
                       /\ QueuesOrdered(batch'[k], pending[k])
  BY <1>1, <1>2, <1>4, <1>5 DEF InOrder
<1>7. \A c \in Conns : f # Do("connectEstablished", c)
  BY DEF Do
<1>8. CASE UNCHANGED pending
  <2>1. \A k \in Loops : Functors(k)' = IF k = l THEN Range(Tail(batch[l])) \cup Range(pending[l])
                                                 ELSE Functors(k)
    BY <1>2, <1>8 DEF Functors
  <2>2. pending' = queueInLoop(m, f) => f \in Functors(m)'
    <3>1. SUFFICES ASSUME pending' = queueInLoop(m, f) PROVE f \in Functors(m)'
      OBVIOUS
    <3>2. pending'[m] = Append(pending[m], f)
      BY <3>1 DEF TypeOK, queueInLoop
    <3>3. f \in Range(pending'[m])
      BY <1>1, <3>2, RangeOfPush
    <3>. QED
      BY <3>3 DEF Functors
  <2>3. InOrder'
    BY <1>6, <1>8 DEF InOrder
  <2>. QED
    BY <1>3, <1>5, <2>1, <2>2, <2>3 DEF Functors
<1>9. CASE pending' = queueInLoop(m, f) /\ pending' # pending
  <2>1. \A k \in Loops : pending'[k] = IF k = m THEN Append(pending[m], f) ELSE pending[k]
    BY <1>9 DEF TypeOK, queueInLoop
  <2>2. Range(Append(pending[m], f)) = Range(pending[m]) \cup {f}
    BY <1>1, RangeOfPush
  <2>3. \A k \in Loops :
           Functors(k)' = (IF k = l THEN Range(Tail(batch[l])) \cup Range(pending[l])
                                    ELSE Functors(k))
                          \cup (IF k = m THEN {f} ELSE {})
    BY <1>2, <2>1, <2>2 DEF Functors
  <2>4. QueuesOrdered(batch'[m], Append(pending[m], f))
    BY <1>1, <1>6, OrderedPush
  <2>5. InOrder'
    BY <1>6, <2>1, <2>4 DEF InOrder
  <2>6. Head(batch[l]) \in Functors(l) /\ f \in Functors(m)'
    BY <1>3, <2>3 DEF Functors
  <2>7. \A k \in Loops :
           /\ Functors(k) \subseteq
                  Functors(k)' \cup (IF k = l THEN {Head(batch[l])} ELSE {})
           /\ Functors(k)' \subseteq Functors(k) \cup (IF k = m THEN {f} ELSE {})
    <3>1. Functors(l) = {Head(batch[l])} \cup Range(Tail(batch[l])) \cup Range(pending[l])
      BY <1>3 DEF Functors
    <3>. QED
      BY <2>3, <3>1
  <2>8. ASSUME NEW c \in Conns,
               Head(batch[l]) \in {Do("connectEstablished", c), Do("connectDestroyed", c)}
        PROVE  Do("connectEstablished", c) \notin Functors(l)'
    BY <1>5, <1>7, <2>3, <2>8
  <2>. QED
    BY <1>9, <2>5, <2>6, <2>7, <2>8
<1>. QED
  BY <1>8, <1>9

------------------------------------------------------------------------------
(* The steps.                                                               *)

\* A channel that is handled is in the poller, and nothing else is reported of it.
LEMMA EventFacts ==
    ASSUME LifeInv, NEW l \in Loops, NEW c \in Conns, NEW e \in Events, handleEvent(l, c, e)
    PROVE  /\ ioLoop[c] = l /\ index[c] = "kAdded" /\ ups[c] = 1 /\ downs[c] = 0
           /\ Accepted(c)
           /\ \A k \in Loops : Do("connectEstablished", c) \notin Functors(k)
           /\ \A k \in Loops : /\ active'[k] \subseteq active[k]
                               /\ \A x \in active'[k] : x[1] # c
<1>1. /\ <<c, e>> \in active[l] /\ active' = [active EXCEPT ![l] = @ \ {<<c, e>>}]
      /\ active \in [Loops -> SUBSET (Conns \X Events)]
  BY DEF handleEvent, LifeInv, TypeOK
<1>2. ioLoop[c] = l /\ index[c] = "kAdded"
  BY <1>1 DEF LifeInv, ActiveOK
<1>3. ups[c] = 1 /\ downs[c] = 0
  BY <1>2 DEF LifeInv, Counts
<1>4. Accepted(c)
  BY <1>2 DEF LifeInv, Beginnings
<1>5. \A k \in Loops : Do("connectEstablished", c) \notin Functors(k)
  BY <1>2 DEF LifeInv, Waits, Awaited
<1>6. ASSUME NEW k \in Loops, NEW x \in active'[k] PROVE x \in active[k] /\ x[1] # c
  <2>1. x \in active[k] /\ (k = l => x # <<c, e>>)
    BY <1>1, <1>6
  <2>2. ASSUME x[1] = c PROVE FALSE
    <3>1. k = l
      BY <1>2, <2>1, <2>2 DEF LifeInv, ActiveOK
    <3>2. x = <<c, e>>
      BY <1>1, <2>1, <2>2, <3>1 DEF LifeInv, ActiveOK
    <3>. QED
      BY <2>1, <3>1, <3>2
  <2>. QED
    BY <2>1, <2>2
<1>. QED
  BY <1>2, <1>3, <1>4, <1>5, <1>6

\* The functor that a close queues.
SentAway(m, g, c) ==
    /\ \/ g = Do("removeConnectionInLoop", c) /\ m = BaseLoop
       \/ g = Do("connectDestroyed", c) /\ m = ioLoop[c]
    /\ \A k \in Loops : Functors(k)' = Functors(k) \cup (IF k = m THEN {g} ELSE {})

\* What reports a close: the channel is disabled, and a functor is queued that
\* takes the connection out of the poller, or queues one that does.
LEMMA CloseFacts ==
    ASSUME LifeInv, NEW c \in Conns, handleClose(c), UNCHANGED batch,
           index[c] = "kAdded", \A k \in Loops : Do("connectEstablished", c) \notin Functors(k)
    PROVE  /\ \E m \in Loops, g \in Functor : SentAway(m, g, c)
           /\ InOrder'
           /\ index' = [index EXCEPT ![c] = "kDeleted"]
           /\ connections_' \in {connections_, connections_ \ {c}}
<1>1. TypeOK /\ InOrder
  BY DEF LifeInv
<1>2. /\ ioLoop[c] \in Loops /\ BaseLoop \in Loops
      /\ Do("removeConnectionInLoop", c) \in Functor
      /\ Do("connectDestroyed", c) \in Functor
      /\ Do("removeConnectionInLoop", c).op # "connectEstablished"
      /\ Do("connectDestroyed", c).op # "connectEstablished"
  BY <1>1, DoType, PoolFacts DEF TypeOK, Owning
<1>3. index' = [index EXCEPT ![c] = "kDeleted"]
  BY <1>1 DEF handleClose, disableAll, updateChannel
<1>4. CASE ioLoop[c] = BaseLoop
  <2>1. /\ connections_' = connections_ \ {c}
        /\ pending' = queueInLoop(ioLoop[c], Do("connectDestroyed", c))
    BY <1>4 DEF handleClose, removeConnection, Erase
  <2>2. /\ \A k \in Loops : Functors(k)' = Functors(k) \cup
                 (IF k = ioLoop[c] THEN {Do("connectDestroyed", c)} ELSE {})
        /\ InOrder'
    BY <1>1, <1>2, <2>1, PushFacts
  <2>3. SentAway(ioLoop[c], Do("connectDestroyed", c), c)
    BY <2>2 DEF SentAway
  <2>. QED
    BY <1>2, <1>3, <2>1, <2>2, <2>3
<1>5. CASE ioLoop[c] # BaseLoop
  <2>1. /\ connections_' = connections_
        /\ pending' = queueInLoop(BaseLoop, Do("removeConnectionInLoop", c))
    BY <1>5 DEF handleClose, removeConnection
  <2>2. /\ \A k \in Loops : Functors(k)' = Functors(k) \cup
                 (IF k = BaseLoop THEN {Do("removeConnectionInLoop", c)} ELSE {})
        /\ InOrder'
    BY <1>1, <1>2, <2>1, PushFacts
  <2>3. SentAway(BaseLoop, Do("removeConnectionInLoop", c), c)
    BY <2>2 DEF SentAway
  <2>. QED
    BY <1>2, <1>3, <2>1, <2>2, <2>3
<1>. QED
  BY <1>4, <1>5

LEMMA EventStep ==
    ASSUME LifeInv, TypeOK', NEW l \in Loops, NEW c \in Conns, NEW e \in Events,
           handleEvent(l, c, e)
    PROVE  LifeInv'
<1>1. /\ ioLoop[c] = l /\ index[c] = "kAdded" /\ ups[c] = 1 /\ downs[c] = 0
      /\ Accepted(c)
      /\ \A k \in Loops : Do("connectEstablished", c) \notin Functors(k)
      /\ \A k \in Loops : active'[k] \subseteq active[k] /\ \A x \in active'[k] : x[1] # c
  BY EventFacts
<1>2. UNCHANGED <<phase, batch, ioLoop, loops_, call>>
  BY DEF handleEvent, LoopRest, poolVars, userVars
<1>3. PhasesOK'
  BY <1>1, <1>2 DEF LifeInv, PhasesOK
<1>4. loops_ = <<>> => ioLoop'[c] = BaseLoop
  BY <1>2 DEF LifeInv, Beginnings
<1>5. ASSUME \A d \in Conns : d # c => index'[d] = index[d]
      PROVE  ActiveOK'
  <2>1. \A k \in Loops : \A x \in active[k] : x[1] \in Conns
    BY DEF LifeInv, TypeOK
  <2>. QED
    BY <1>1, <1>2, <1>5, <2>1 DEF LifeInv, ActiveOK
<1>6. ASSUME handleClose(c) PROVE LifeInv'
  <2>1. PICK m \in Loops, g \in Functor :
           /\ \/ g = Do("removeConnectionInLoop", c) /\ m = BaseLoop
              \/ g = Do("connectDestroyed", c) /\ m = ioLoop[c]
           /\ \A k \in Loops : Functors(k)' = Functors(k) \cup (IF k = m THEN {g} ELSE {})
    BY <1>1, <1>2, <1>6, CloseFacts DEF SentAway
  <2>2. /\ InOrder'
        /\ index' = [index EXCEPT ![c] = "kDeleted"]
        /\ connections_' \in {connections_, connections_ \ {c}}
    BY <1>1, <1>2, <1>6, CloseFacts
  <2>3. /\ state_' = [state_ EXCEPT ![c] = "kDisconnected"]
        /\ downs' = [downs EXCEPT ![c] = @ + 1] /\ ups' = ups
    BY <1>6 DEF handleClose
  <2>4. /\ index'[c] = "kDeleted" /\ ups'[c] = 1 /\ downs'[c] = 1
        /\ state_'[c] = "kDisconnected"
    BY <1>1, <2>2, <2>3 DEF LifeInv, TypeOK
  <2>5. Accepted(c)' /\ Counts(c)'
    BY <2>4 DEF Accepted, Counts
  <2>6. \A d \in Conns : d # c =>
               /\ index'[d] = index[d] /\ ups'[d] = ups[d] /\ downs'[d] = downs[d]
               /\ ioLoop'[d] = ioLoop[d] /\ state_'[d] = state_[d]
               /\ d \in connections_' <=> d \in connections_
    <3>1. /\ \A d \in Conns : d # c => index'[d] = index[d] /\ ups'[d] = ups[d]
          /\ \A d \in Conns : d # c => downs'[d] = downs[d] /\ state_'[d] = state_[d]
      BY <2>2, <2>3 DEF LifeInv, TypeOK
    <3>2. \A d \in Conns : d # c => (d \in connections_' <=> d \in connections_)
      BY <2>2
    <3>. QED
      BY <1>2, <3>1, <3>2
  <2>7. g.conn = c /\ g.op \in {"removeConnectionInLoop", "connectDestroyed"}
    BY <2>1 DEF Do
  <2>8. \A k \in Loops, f \in Functor : f.conn # c => (f \in Functors(k)' <=> f \in Functors(k))
    BY <2>1, <2>7
  <2>9. ASSUME NEW k \in Loops, NEW f \in Functor, f.conn = c, f \in Functors(k)'
        PROVE  QueuedWell(k, f)'
    <3>1. CASE f \in Functors(k)
      <4>1. QueuedWell(k, f)
        BY <3>1 DEF LifeInv, Queued
      <4>. QED
        BY <1>2, <2>5, <2>9, <4>1 DEF QueuedWell, Accepted
    <3>2. CASE f = g /\ k = m
      BY <1>2, <2>1, <2>5, <2>9, <3>2 DEF QueuedWell, Accepted, Do
    <3>. QED
      BY <2>1, <2>9, <3>1, <3>2
  <2>10. \A k \in Loops : Do("connectEstablished", c) \notin Functors(k)'
    <3>1. g # Do("connectEstablished", c)
      BY <2>7 DEF Do
    <3>. QED
      BY <1>1, <2>1, <3>1
  <2>11. Kept(c)'
    BY <2>1 DEF Kept, Leaving
  <2>. QED
    BY <1>1, <1>2, <1>3, <1>4, <1>5, <2>2, <2>5, <2>6, <2>8, <2>9, <2>10, <2>11, OneConn
<1>7. ASSUME handleWrite(c) \/ sendInLoop(c) PROVE LifeInv'
  <2>1. UNCHANGED <<state_, pending, connections_, ups, downs>>
    BY <1>7 DEF handleWrite, sendInLoop, Nothing, connVars, callbackVars
  <2>2. \A k \in Loops : Functors(k)' = Functors(k)
    BY <1>2, <2>1 DEF Functors
  <2>3. /\ index'[c] # "kNew"
        /\ \A d \in Conns : d # c => index'[d] = index[d]
    <3>1. CASE Nothing
      BY <1>1, <3>1 DEF Nothing, connVars
    <3>2. ASSUME NEW ev, updateChannel(c, ev)
          PROVE  /\ index'[c] # "kNew"
                 /\ \A d \in Conns : d # c => index'[d] = index[d]
      BY <3>2 DEF updateChannel, LifeInv, TypeOK
    <3>. QED
      BY <1>7, <3>1, <3>2 DEF handleWrite, sendInLoop
  <2>4. InOrder'
    BY <1>2, <2>1 DEF LifeInv, InOrder
  <2>5. Accepted(c)' /\ Counts(c)'
    BY <1>1, <2>1 DEF Accepted, Counts
  <2>6. \A k \in Loops, f \in Functor :
               f.conn = c /\ f \in Functors(k)' => QueuedWell(k, f)'
    BY <1>2, <2>1, <2>2 DEF LifeInv, Queued, QueuedWell, Accepted
  <2>7. Kept(c)'
    <3>1. c \in connections_ \/ Leaving(c) \/ phase[ioLoop[c]] = "stopped"
      BY <1>1 DEF LifeInv, Kept
    <3>. QED
      BY <1>2, <2>1, <2>2, <3>1 DEF Kept, Leaving
  <2>8. \A d \in Conns : d # c =>
               /\ index'[d] = index[d] /\ ups'[d] = ups[d] /\ downs'[d] = downs[d]
               /\ ioLoop'[d] = ioLoop[d] /\ state_'[d] = state_[d]
               /\ d \in connections_' <=> d \in connections_
    BY <1>2, <2>1, <2>3
  <2>. QED
    BY <1>1, <1>2, <1>3, <1>4, <1>5, <2>2, <2>3, <2>4, <2>5, <2>6, <2>7, <2>8, OneConn
<1>. QED
  BY <1>6, <1>7, EventKinds

\* What a functor does to its connection.
LEMMA RunEffect ==
    ASSUME LifeInv, NEW l \in Loops, runFunctor(l),
           NEW f, f = Head(batch[l]), NEW c, c = f.conn
    PROVE  /\ f \in Functors(l) /\ f \in Functor /\ c \in Conns /\ ioLoop[c] \in Loops
           /\ f.op \in Owning \cup {"shutdownInLoop"}
           /\ f.op = "connectEstablished" =>
                 /\ index' = [index EXCEPT ![c] = "kAdded"]
                 /\ state_' = [state_ EXCEPT ![c] = "kConnected"]
                 /\ ups' = [ups EXCEPT ![c] = @ + 1]
                 /\ UNCHANGED <<pending, connections_, downs>>
           /\ f.op = "connectDestroyed" =>
                 /\ index' = [index EXCEPT ![c] = "kNew"]
                 /\ state_' = [state_ EXCEPT ![c] = IF @ = "kConnected" THEN "kDisconnected" ELSE @]
                 /\ UNCHANGED <<pending, connections_, ups, downs>>
           /\ f.op = "removeConnectionInLoop" =>
                 /\ connections_' = connections_ \ {c}
                 /\ pending' = queueInLoop(ioLoop[c], Do("connectDestroyed", c))
                 /\ UNCHANGED <<index, state_, ups, downs>>
           /\ f.op \in {"sendFileInLoop", "shutdownInLoop"} =>
                 /\ UNCHANGED <<index, state_, ups, downs, connections_>>
                 /\ \/ UNCHANGED pending
                    \/ pending' = queueInLoop(ioLoop[c], Do("sendFileInLoop", c))
<1>1. TypeOK /\ Queued /\ Run(f)
  BY DEF runFunctor, LifeInv
<1>2. batch[l] \in Seq(Functor) /\ batch[l] # <<>>
  BY <1>1 DEF runFunctor, TypeOK
<1>3. Head(batch[l]) \in Range(batch[l]) /\ Head(batch[l]) \in Functor
  BY <1>2, RangeOfPop
<1>4. f \in Functors(l) /\ f \in Functor
  BY <1>3 DEF Functors
<1>5. c \in Conns /\ ioLoop[c] \in Loops
  BY <1>1, <1>4 DEF Functor, TypeOK
<1>6. f.op \in Owning \cup {"shutdownInLoop"}
  BY <1>1, <1>4 DEF Functor, Queued, QueuedWell, Raw
<1>7. CASE f.op = "connectEstablished"
  <2>1. connectEstablished(c)
    BY <1>1, <1>7 DEF Run
  <2>2. index' = [index EXCEPT ![c] = "kAdded"]
    <3>1. events[c] \cup {"R"} # {}
      OBVIOUS
    <3>. QED
      BY <1>1, <1>5, <2>1, <3>1 DEF connectEstablished, updateChannel, TypeOK
  <2>. QED
    BY <1>4, <1>5, <1>6, <1>7, <2>1, <2>2 DEF connectEstablished
<1>8. CASE f.op = "connectDestroyed"
  <2>1. connectDestroyed(c)
    BY <1>1, <1>8 DEF Run
  <2>. QED
    BY <1>4, <1>5, <1>6, <1>8, <2>1 DEF connectDestroyed, removeChannel, callbackVars
<1>9. CASE f.op = "removeConnectionInLoop"
  <2>1. removeConnectionInLoop(c)
    BY <1>1, <1>9 DEF Run
  <2>. QED
    BY <1>4, <1>5, <1>6, <1>9, <2>1
    DEF removeConnectionInLoop, Erase, connVars, callbackVars
<1>10. CASE f.op = "sendFileInLoop"
  <2>1. sendFileInLoop(c)
    BY <1>1, <1>10 DEF Run
  <2>. QED
    BY <1>4, <1>5, <1>6, <1>10, <2>1 DEF sendFileInLoop, Nothing, connVars, callbackVars
<1>11. CASE f.op = "shutdownInLoop"
  <2>1. Nothing
    BY <1>1, <1>11 DEF Run
  <2>. QED
    BY <1>4, <1>5, <1>6, <1>11, <2>1 DEF Nothing, connVars, callbackVars
<1>. QED
  BY <1>6, <1>7, <1>8, <1>9, <1>10, <1>11 DEF Owning

\* What that does to the queues.
LEMMA RunQueues ==
    ASSUME LifeInv, NEW l \in Loops, runFunctor(l),
           NEW f, f = Head(batch[l]), NEW c, c = f.conn
    PROVE  /\ InOrder'
           /\ \A k \in Loops, h \in Functor : h.conn # c =>
                 (h \in Functors(k)' <=> h \in Functors(k))
           /\ \A k \in Loops : \A h \in Functors(k) : h = f \/ h \in Functors(k)'
           /\ f.op = "removeConnectionInLoop" =>
                 Do("connectDestroyed", c) \in Functors(ioLoop[c])'
           /\ \A k \in Loops : Do("connectEstablished", c) \in Functors(k)' =>
                 /\ Awaited(k, c) /\ k = ioLoop[c]
                 /\ f.op \notin {"connectEstablished", "connectDestroyed"}
           /\ Accepted(c)' =>
                 \A k \in Loops, h \in Functor :
                     h.conn = c /\ h \in Functors(k)' => QueuedWell(k, h)'
<1>1. /\ TypeOK /\ InOrder /\ Queued /\ Waits
      /\ batch[l] # <<>> /\ batch' = [batch EXCEPT ![l] = Tail(@)]
      /\ UNCHANGED ioLoop
  BY DEF LifeInv, runFunctor, LoopRest
<1>2. /\ f \in Functors(l) /\ f \in Functor /\ c \in Conns /\ ioLoop[c] \in Loops
      /\ f.op \in Owning \cup {"shutdownInLoop"}
  BY RunEffect
<1>. DEFINE op == IF f.op = "removeConnectionInLoop" THEN "connectDestroyed" ELSE "sendFileInLoop"
            g == Do(op, c)
<1>0. PICK m \in Loops : m = ioLoop[c]
  BY <1>2
<1>3. /\ g \in Functor /\ g.op = op /\ g.conn = c
      /\ op \in {"connectDestroyed", "sendFileInLoop"}
  BY <1>2, DoType DEF Owning
<1>4. \/ UNCHANGED pending
      \/ pending' = queueInLoop(m, g)
  <2>1. CASE f.op \in {"connectEstablished", "connectDestroyed"}
    BY <1>0, <2>1, RunEffect
  <2>2. CASE f.op = "removeConnectionInLoop"
    BY <1>0, <2>2, RunEffect
  <2>3. CASE f.op \in {"sendFileInLoop", "shutdownInLoop"}
    BY <1>0, <2>3, RunEffect
  <2>. QED
    BY <1>2, <2>1, <2>2, <2>3 DEF Owning
<1>5. /\ \A k \in Loops :
            /\ Functors(k) \subseteq Functors(k)' \cup (IF k = l THEN {f} ELSE {})
            /\ Functors(k)' \subseteq Functors(k) \cup (IF k = m THEN {g} ELSE {})
      /\ pending' = queueInLoop(m, g) => g \in Functors(m)'
      /\ InOrder'
      /\ \A d \in Conns :
            f \in {Do("connectEstablished", d), Do("connectDestroyed", d)} =>
                Do("connectEstablished", d) \notin Functors(l)'
  <2>. HIDE DEF g, op
  <2>1. g.op # "connectEstablished"
    BY <1>3
  <2>2. /\ \A k \in Loops :
              /\ Functors(k) \subseteq
                     Functors(k)' \cup (IF k = l THEN {Head(batch[l])} ELSE {})
              /\ Functors(k)' \subseteq Functors(k) \cup (IF k = m THEN {g} ELSE {})
        /\ pending' = queueInLoop(m, g) => g \in Functors(m)'
        /\ InOrder'
        /\ \A d \in Conns :
              Head(batch[l]) \in {Do("connectEstablished", d), Do("connectDestroyed", d)} =>
                  Do("connectEstablished", d) \notin Functors(l)'
    BY <1>1, <1>3, <1>4, <2>1, RunFacts
  <2>. QED
    BY <2>2
<1>. HIDE DEF g, op
<1>6. \A k \in Loops, h \in Functor : h.conn # c => (h \in Functors(k)' <=> h \in Functors(k))
  BY <1>3, <1>5
<1>7. \A k \in Loops : \A h \in Functors(k) : h = f \/ h \in Functors(k)'
  BY <1>5
<1>8. f.op = "removeConnectionInLoop" => Do("connectDestroyed", c) \in Functors(ioLoop[c])'
  <2>1. SUFFICES ASSUME f.op = "removeConnectionInLoop"
                 PROVE  Do("connectDestroyed", c) \in Functors(ioLoop[c])'
    OBVIOUS
  <2>2. pending' = queueInLoop(m, g)
    BY <1>0, <2>1, RunEffect DEF g, op
  <2>3. g = Do("connectDestroyed", c) /\ m = ioLoop'[c]
    BY <1>0, <1>1, <2>1 DEF g, op
  <2>. QED
    BY <1>5, <2>2, <2>3
<1>9. ASSUME NEW k \in Loops, Do("connectEstablished", c) \in Functors(k)'
      PROVE  /\ Awaited(k, c) /\ k = ioLoop[c]
             /\ f.op \notin {"connectEstablished", "connectDestroyed"}
  <2>1. Do("connectEstablished", c) # g
    BY <1>3 DEF Do
  <2>2. Do("connectEstablished", c) \in Functors(k)
    BY <1>5, <1>9, <2>1
  <2>3. Awaited(k, c)
    BY <1>1, <1>2, <2>2 DEF Waits
  <2>4. k = ioLoop[c]
    BY <1>1, <2>2 DEF Queued, QueuedWell, Do
  <2>5. ASSUME f.op \in {"connectEstablished", "connectDestroyed"} PROVE FALSE
    <3>1. f = Do(f.op, c)
      BY <1>2 DEF Do, Functor
    <3>2. l = ioLoop[c]
      BY <1>1, <1>2, <2>5 DEF Queued, QueuedWell
    <3>. QED
      BY <1>2, <1>5, <1>9, <2>4, <2>5, <3>1, <3>2
  <2>. QED
    BY <2>3, <2>4, <2>5
<1>10. ASSUME Accepted(c)', NEW k \in Loops, NEW h \in Functor, h.conn = c, h \in Functors(k)'
       PROVE  QueuedWell(k, h)'
  <2>1. CASE h \in Functors(k)
    <3>1. QueuedWell(k, h)
      BY <1>1, <2>1 DEF Queued
    <3>. QED
      BY <1>1, <1>10, <3>1 DEF QueuedWell, Accepted
  <2>2. CASE h = g /\ k = m
    BY <1>0, <1>1, <1>3, <1>10, <2>2 DEF QueuedWell, Accepted
  <2>. QED
    BY <1>5, <1>10, <2>1, <2>2
<1>. QED
  BY <1>5, <1>6, <1>7, <1>8, <1>9, <1>10

LEMMA RunStep ==
    ASSUME LifeInv, TypeOK', NEW l \in Loops, runFunctor(l)
    PROVE  LifeInv'
<1>0. PICK f, c : f = Head(batch[l]) /\ c = f.conn
  OBVIOUS
<1>1. /\ f \in Functors(l) /\ f \in Functor /\ c \in Conns /\ ioLoop[c] \in Loops
      /\ f.op \in Owning \cup {"shutdownInLoop"}
  BY <1>0, RunEffect
<1>2. /\ InOrder'
      /\ \A k \in Loops, h \in Functor : h.conn # c => (h \in Functors(k)' <=> h \in Functors(k))
      /\ \A k \in Loops : \A h \in Functors(k) : h = f \/ h \in Functors(k)'
      /\ f.op = "removeConnectionInLoop" =>
            Do("connectDestroyed", c) \in Functors(ioLoop[c])'
      /\ \A k \in Loops : Do("connectEstablished", c) \in Functors(k)' =>
            /\ Awaited(k, c) /\ k = ioLoop[c]
            /\ f.op \notin {"connectEstablished", "connectDestroyed"}
      /\ Accepted(c)' => \A k \in Loops, h \in Functor :
                              h.conn = c /\ h \in Functors(k)' => QueuedWell(k, h)'
  BY <1>0, RunQueues
<1>3. /\ UNCHANGED <<phase, active, ioLoop, loops_, call>>
      /\ phase[l] = "functors" /\ active[l] = {}
      /\ batch' = [batch EXCEPT ![l] = Tail(@)]
  BY DEF runFunctor, LoopRest, poolVars, userVars, LifeInv, PhasesOK
<1>4. PhasesOK'
  BY <1>3 DEF LifeInv, TypeOK, PhasesOK
<1>5. QueuedWell(l, f) /\ Accepted(c)
  BY <1>0, <1>1 DEF LifeInv, Queued, QueuedWell
<1>6. f.op \in {"connectEstablished", "connectDestroyed"} => l = ioLoop[c] /\ f = Do(f.op, c)
  BY <1>0, <1>1, <1>5 DEF QueuedWell, Do, Functor
<1>7. /\ state_'[c] = "none" <=> state_[c] = "none"
      /\ \A d \in Conns : d # c =>
               /\ index'[d] = index[d] /\ ups'[d] = ups[d] /\ downs'[d] = downs[d]
               /\ ioLoop'[d] = ioLoop[d] /\ state_'[d] = state_[d]
               /\ d \in connections_' <=> d \in connections_
      /\ index'[c] = IF f.op = "connectEstablished" THEN "kAdded"
                     ELSE IF f.op = "connectDestroyed" THEN "kNew" ELSE index[c]
      /\ ups'[c] = IF f.op = "connectEstablished" THEN ups[c] + 1 ELSE ups[c]
      /\ downs'[c] = downs[c]
      /\ f.op # "removeConnectionInLoop" => connections_' = connections_
  <2>1. CASE f.op = "connectEstablished"
    <3>1. /\ index' = [index EXCEPT ![c] = "kAdded"]
          /\ state_' = [state_ EXCEPT ![c] = "kConnected"]
          /\ ups' = [ups EXCEPT ![c] = @ + 1]
          /\ UNCHANGED <<connections_, downs>>
      BY <1>0, <2>1, RunEffect
    <3>. QED
      BY <1>1, <1>3, <1>5, <2>1, <3>1 DEF LifeInv, TypeOK, Accepted
  <2>2. CASE f.op = "connectDestroyed"
    <3>1. /\ index' = [index EXCEPT ![c] = "kNew"]
          /\ state_' = [state_ EXCEPT ![c] = IF @ = "kConnected" THEN "kDisconnected" ELSE @]
          /\ UNCHANGED <<connections_, ups, downs>>
      BY <1>0, <2>2, RunEffect
    <3>. QED
      BY <1>1, <1>3, <1>5, <2>2, <3>1 DEF LifeInv, TypeOK, Accepted
  <2>3. CASE f.op = "removeConnectionInLoop"
    <3>1. /\ connections_' = connections_ \ {c}
          /\ UNCHANGED <<index, state_, ups, downs>>
      BY <1>0, <2>3, RunEffect
    <3>. QED
      BY <1>3, <2>3, <3>1
  <2>4. CASE f.op \in {"sendFileInLoop", "shutdownInLoop"}
    <3>1. UNCHANGED <<index, state_, ups, downs, connections_>>
      BY <1>0, <2>4, RunEffect
    <3>. QED
      BY <1>3, <2>4, <3>1
  <2>. QED
    BY <1>1, <2>1, <2>2, <2>3, <2>4 DEF Owning
<1>8. Accepted(c)'
  BY <1>5, <1>7 DEF Accepted
<1>9. ActiveOK'
  <2>1. \A k \in Loops : \A x \in active[k] : x[1] \in Conns
    BY DEF LifeInv, TypeOK
  <2>2. ASSUME NEW k \in Loops, NEW x \in active[k] PROVE index'[x[1]] = "kAdded"
    <3>1. ioLoop[x[1]] = k /\ index[x[1]] = "kAdded"
      BY <2>2 DEF LifeInv, ActiveOK
    <3>2. CASE x[1] = c
      <4>1. k # l
        BY <1>3, <2>2
      <4>2. f.op \notin {"connectEstablished", "connectDestroyed"}
        BY <1>6, <3>1, <3>2, <4>1
      <4>. QED
        BY <1>7, <3>1, <3>2, <4>2
    <3>. QED
      BY <1>7, <2>1, <2>2, <3>1, <3>2
  <2>. QED
    BY <1>3, <2>2 DEF LifeInv, ActiveOK
<1>10. \A op \in Owning : Do(op, c).op = op
  BY <1>1, DoType
<1>11. \A k \in Loops, op \in Owning :
          Do(op, c) \in Functors(k) /\ op # f.op => Do(op, c) \in Functors(k)'
  BY <1>2, <1>10
<1>12. ASSUME NEW k \in Loops, Do("connectEstablished", c) \in Functors(k)'
       PROVE  Awaited(k, c)'
  <2>1. /\ Awaited(k, c) /\ k = ioLoop[c]
        /\ f.op \notin {"connectEstablished", "connectDestroyed"}
    BY <1>2, <1>12
  <2>2. index'[c] = "kNew" /\ ups'[c] = 0 /\ downs'[c] = 0 /\ loops_' # <<>>
    BY <1>3, <1>7, <2>1 DEF Awaited
  <2>3. CASE f.op = "removeConnectionInLoop"
    BY <1>2, <1>3, <2>1, <2>2, <2>3 DEF Awaited
  <2>4. CASE f.op # "removeConnectionInLoop"
    <3>1. c \in connections_' \/ Do("connectDestroyed", c) \in Functors(k)'
      BY <1>7, <1>11, <2>1, <2>4 DEF Awaited, Owning
    <3>. QED
      BY <2>2, <3>1 DEF Awaited
  <2>. QED
    BY <2>3, <2>4
<1>13. f.op = "connectEstablished" => Awaited(l, c) /\ l = ioLoop[c]
  BY <1>1, <1>6 DEF LifeInv, Waits
<1>14. Counts(c)'
  <2>1. Counts(c)
    BY <1>1 DEF LifeInv
  <2>2. f.op = "connectEstablished" => ups[c] = 0 /\ downs[c] = 0
    BY <1>13 DEF Awaited
  <2>. QED
    BY <1>7, <2>1, <2>2 DEF Counts
<1>15. Kept(c)'
  <2>1. CASE f.op = "connectEstablished"
    <3>1. c \in connections_' \/ Do("connectDestroyed", c) \in Functors(l)'
      BY <1>7, <1>11, <1>13, <2>1 DEF Awaited, Owning
    <3>. QED
      BY <3>1 DEF Kept, Leaving
  <2>2. CASE f.op = "connectDestroyed"
    BY <1>7, <2>2 DEF Kept
  <2>3. CASE f.op = "removeConnectionInLoop"
    <3>1. Do("connectDestroyed", c) \in Functors(ioLoop[c])' /\ ioLoop'[c] \in Loops
      BY <1>1, <1>2, <1>3, <2>3
    <3>. QED
      BY <1>3, <3>1 DEF Kept, Leaving
  <2>4. CASE f.op \in {"sendFileInLoop", "shutdownInLoop"}
    <3>1. Kept(c) /\ index'[c] = index[c] /\ connections_' = connections_
      BY <1>1, <1>7, <2>4 DEF LifeInv
    <3>2. Leaving(c) => Leaving(c)'
      BY <1>11, <2>4 DEF Leaving, Owning
    <3>. QED
      BY <1>3, <3>1, <3>2 DEF Kept
  <2>. QED
    BY <1>1, <2>1, <2>2, <2>3, <2>4 DEF Owning
<1>16. loops_ = <<>> => ioLoop'[c] = BaseLoop
  BY <1>1, <1>3 DEF LifeInv, Beginnings
<1>. QED
  BY <1>1, <1>2, <1>3, <1>4, <1>7, <1>8, <1>9, <1>12, <1>14, <1>15, <1>16, OneConn

\* A connection is accepted: nothing was queued for it before.
LEMMA AcceptStep ==
    ASSUME LifeInv, TypeOK', NEW c \in Conns, newConnection(c)
    PROVE  LifeInv'
<1>0. PICK m \in Loops : m = getNextLoop
  BY NextLoopType DEF LifeInv
<1>1. /\ TypeOK /\ InOrder /\ ~Accepted(c)
      /\ ioLoop' = [ioLoop EXCEPT ![c] = m]
      /\ connections_' = connections_ \cup {c}
      /\ UNCHANGED <<phase, active, batch, loops_, call, downs>>
  BY <1>0 DEF LifeInv, newConnection, CanAccept, loopVars, userVars, callbackVars
<1>2. index[c] = "kNew" /\ ups[c] = 0 /\ downs[c] = 0
  BY <1>1 DEF LifeInv, Beginnings
<1>3. \A k \in Loops : \A f \in Functors(k) : f.conn # c
  BY <1>1 DEF LifeInv, Queued, QueuedWell
<1>4. ioLoop'[c] = m /\ c \in connections_'
      /\ (loops_ = <<>> => m = BaseLoop)
  BY <1>0, <1>1 DEF TypeOK, getNextLoop
<1>5. PhasesOK'
  BY <1>1 DEF LifeInv, PhasesOK
<1>6. ASSUME \A d \in Conns : d # c => index'[d] = index[d] PROVE ActiveOK'
  <2>1. \A k \in Loops : \A x \in active[k] : x[1] \in Conns
    BY DEF LifeInv, TypeOK
  <2>2. \A k \in Loops : \A x \in active[k] : x[1] # c /\ ioLoop'[x[1]] = ioLoop[x[1]]
    BY <1>1, <1>2, <2>1 DEF LifeInv, ActiveOK, TypeOK
  <2>. QED
    BY <1>1, <1>6, <2>1, <2>2 DEF LifeInv, ActiveOK
<1>7. \A d \in Conns : d # c =>
         /\ ioLoop'[d] = ioLoop[d]
         /\ d \in connections_' <=> d \in connections_
  BY <1>1 DEF TypeOK
<1>8. Kept(c)'
  BY <1>4 DEF Kept
<1>9. CASE m # BaseLoop
  <2>1. /\ state_' = [state_ EXCEPT ![c] = "kConnecting"]
        /\ pending' = queueInLoop(m, Do("connectEstablished", c))
        /\ UNCHANGED <<index, ups>>
    BY <1>0, <1>9 DEF newConnection, callbackVars
  <2>2. PICK f \in Functor : f = Do("connectEstablished", c)
    BY DoType DEF Owning
  <2>3. f.op = "connectEstablished" /\ f.conn = c
    BY <2>2 DEF Do
  <2>4. /\ \A k \in Loops : Functors(k)' = Functors(k) \cup (IF k = m THEN {f} ELSE {})
        /\ InOrder'
    BY <1>1, <1>3, <2>1, <2>2, <2>3, PushFacts
  <2>5. \A d \in Conns : d # c => state_'[d] = state_[d]
    BY <2>1
  <2>6. Accepted(c)'
    BY <1>1, <2>1 DEF TypeOK, Accepted
  <2>7. \A k \in Loops, h \in Functor : h.conn = c /\ h \in Functors(k)' => QueuedWell(k, h)'
    <3>. SUFFICES ASSUME NEW k \in Loops, NEW h \in Functor, h.conn = c, h \in Functors(k)'
                  PROVE  QueuedWell(k, h)'
      OBVIOUS
    <3>1. h = f /\ k = m
      BY <1>3, <2>4
    <3>. QED
      BY <1>4, <2>3, <2>6, <3>1 DEF QueuedWell, Accepted
  <2>8. \A k \in Loops : Awaited(k, c)'
    BY <1>1, <1>2, <1>4, <1>9, <2>1 DEF Awaited
  <2>9. Counts(c)'
    BY <1>1, <1>2, <2>1 DEF Counts
  <2>10. \A k \in Loops, h \in Functor : h.conn # c => (h \in Functors(k)' <=> h \in Functors(k))
    BY <2>3, <2>4
  <2>. QED
    BY <1>1, <1>4, <1>5, <1>6, <1>7, <1>8, <2>1, <2>4, <2>5, <2>6, <2>7, <2>8, <2>9, <2>10,
       OneConn
<1>10. CASE m = BaseLoop
  <2>1. /\ state_' = [state_ EXCEPT ![c] = "kConnected"]
        /\ updateChannel(c, {"R"})
        /\ ups' = [ups EXCEPT ![c] = @ + 1]
        /\ UNCHANGED pending
    BY <1>0, <1>10 DEF newConnection
  <2>2. index' = [index EXCEPT ![c] = "kAdded"]
    <3>1. {"R"} # {}
      OBVIOUS
    <3>. QED
      BY <1>1, <2>1, <3>1 DEF updateChannel, TypeOK
  <2>3. \A d \in Conns : d # c =>
           state_'[d] = state_[d] /\ index'[d] = index[d] /\ ups'[d] = ups[d]
    BY <1>1, <2>1, <2>2 DEF TypeOK
  <2>4. Accepted(c)' /\ Counts(c)'
    BY <1>1, <1>2, <2>1, <2>2 DEF TypeOK, Accepted, Counts
  <2>5. \A k \in Loops : Functors(k)' = Functors(k)
    BY <1>1, <2>1 DEF Functors
  <2>6. InOrder'
    BY <1>1, <2>1 DEF InOrder
  <2>7. \A k \in Loops : Do("connectEstablished", c) \notin Functors(k)'
    BY <1>3, <2>5 DEF Do
  <2>. QED
    BY <1>1, <1>3, <1>4, <1>5, <1>6, <1>7, <1>8, <2>3, <2>4, <2>5, <2>6, <2>7, OneConn
<1>. QED
  BY <1>9, <1>10

\* A thread of the user queues its call, which is not a send.
LEMMA CallStep ==
    ASSUME "send" \notin ForeignOps, LifeInv, TypeOK', NEW u \in Users, queueCall(u)
    PROVE  LifeInv'
<1>1. /\ TypeOK /\ InOrder
      /\ UNCHANGED <<phase, active, batch, state_, index, ioLoop, connections_, loops_, ups, downs>>
      /\ call[u] # NoCall /\ call[u].op # "shutdown" /\ call' = [call EXCEPT ![u] = NoCall]
  BY DEF LifeInv, queueCall, UserRest, loopVars, poolVars, callbackVars
<1>2. call[u] \in [op : ForeignOps \cup {"runInLoop"}, conn : Conns]
  BY <1>1 DEF TypeOK
<1>3. PICK c \in Conns : c = call[u].conn
  BY <1>2
<1>4. PICK m \in Loops : m = ioLoop[c]
  BY <1>1 DEF TypeOK
<1>5. PICK f \in Functor :
         /\ f.op \in {"sendFileInLoop", "shutdownInLoop"} /\ f.conn = c
         /\ pending' = queueInLoop(m, f)
  <2>. DEFINE op == IF call[u].op = "runInLoop" THEN "shutdown" ELSE call[u].op
  <2>1. op \in {"sendFile", "shutdown"}
    BY <1>1, <1>2, LoopAssumption
  <2>2. Bound[op] \in {"sendFileInLoop", "shutdownInLoop"}
    BY <2>1 DEF Bound
  <2>3. /\ Do(Bound[op], c) \in Functor /\ Do(Bound[op], c).op = Bound[op]
        /\ Do(Bound[op], c).conn = c
    BY <2>2, DoType DEF Owning, Raw
  <2>4. pending' = queueInLoop(m, Do(Bound[op], c))
    BY <1>3, <1>4 DEF queueCall
  <2>. QED
    BY <2>2, <2>3, <2>4
<1>0. \A v \in Users : call'[v] \in {call[v], NoCall}
  BY <1>1 DEF TypeOK
<1>6. /\ \A k \in Loops : Functors(k)' = Functors(k) \cup (IF k = m THEN {f} ELSE {})
      /\ InOrder'
  BY <1>1, <1>5, PushFacts
<1>7. Accepted(c)'
  BY <1>1, <1>3 DEF LifeInv, Beginnings, CallsOK, Accepted
<1>8. \A k \in Loops, h \in Functor : h.conn = c /\ h \in Functors(k)' => QueuedWell(k, h)'
  <2>. SUFFICES ASSUME NEW k \in Loops, NEW h \in Functor, h.conn = c, h \in Functors(k)'
                PROVE  QueuedWell(k, h)'
    OBVIOUS
  <2>1. CASE h \in Functors(k)
    BY <1>1, <2>1 DEF LifeInv, Queued, QueuedWell, Accepted
  <2>2. CASE h = f /\ k = m
    BY <1>1, <1>4, <1>5, <1>7, <2>2 DEF QueuedWell, Accepted
  <2>. QED
    BY <1>6, <2>1, <2>2
<1>9. ASSUME NEW k \in Loops, Do("connectEstablished", c) \in Functors(k)'
      PROVE  Awaited(k, c)'
  <2>1. Do("connectEstablished", c) # f
    BY <1>5 DEF Do
  <2>2. Awaited(k, c)
    BY <1>6, <1>9, <2>1 DEF LifeInv, Waits
  <2>. QED
    BY <1>1, <1>6, <2>2 DEF Awaited
<1>10. PhasesOK' /\ ActiveOK'
  BY <1>1 DEF LifeInv, PhasesOK, ActiveOK
<1>11. Counts(c)' /\ Kept(c)'
  BY <1>1, <1>6 DEF LifeInv, Counts, Kept, Leaving
<1>12. loops_ = <<>> => ioLoop'[c] = BaseLoop
  BY <1>1 DEF LifeInv, Beginnings
<1>13. \A k \in Loops, h \in Functor : h.conn # c => (h \in Functors(k)' <=> h \in Functors(k))
  BY <1>5, <1>6
<1>. QED
  BY <1>0, <1>1, <1>6, <1>7, <1>8, <1>9, <1>10, <1>11, <1>12, <1>13, OneConn

\* The other steps of a loop move it along, and functors from queue to queue.
LEMMA CycleStep ==
    ASSUME LifeInv, TypeOK', NEW l \in Loops,
           \/ \E r \in Reports(l) : poll(l, r)
           \/ takeFunctors(l)
           \/ endFunctors(l)
    PROVE  LifeInv'
<1>1. /\ UNCHANGED <<state_, index, ups, downs, connections_, ioLoop, loops_, call>>
      /\ phase[l] \in {"poll", "events", "functors"}
      /\ \E to \in {"poll", "events", "functors"} : phase' = [phase EXCEPT ![l] = to]
  BY DEF poll, takeFunctors, endFunctors, LoopRest, poolVars, userVars, connVars, callbackVars
<1>2. \A k \in Loops : phase[k] = "stopped" => phase'[k] = "stopped"
  BY <1>1 DEF LifeInv, TypeOK
<1>3. /\ \A c \in Conns : Accepted(c) => Accepted(c)'
      /\ CallsOK'
  BY <1>1 DEF LifeInv, Beginnings, CallsOK, Accepted
<1>4. ASSUME NEW r \in Reports(l), poll(l, r) PROVE LifeInv'
  <2>1. /\ phase[l] = "poll" /\ phase' = [phase EXCEPT ![l] = "events"]
        /\ active' = [active EXCEPT ![l] = r] /\ UNCHANGED <<batch, pending>>
    BY <1>4 DEF poll
  <2>2. \A k \in Loops : Functors(k)' = Functors(k)
    BY <2>1 DEF Functors
  <2>3. InOrder' /\ PhasesOK'
    BY <2>1 DEF LifeInv, TypeOK, InOrder, PhasesOK
  <2>4. ActiveOK'
    <3>1. /\ \A x \in r : ioLoop[x[1]] = l /\ index[x[1]] = "kAdded"
          /\ \A x, y \in r : x[1] = y[1] => x = y
      BY DEF Reports, MayReport
    <3>. QED
      BY <1>1, <2>1, <3>1 DEF LifeInv, TypeOK, ActiveOK
  <2>. QED
    BY <1>1, <1>2, <1>3, <2>2, <2>3, <2>4, QuietStep
<1>5. CASE takeFunctors(l)
  <2>1. /\ phase[l] = "events" /\ active[l] = {} /\ phase' = [phase EXCEPT ![l] = "functors"]
        /\ batch' = [batch EXCEPT ![l] = pending[l]]
        /\ pending' = [pending EXCEPT ![l] = <<>>] /\ UNCHANGED active
    BY <1>5 DEF takeFunctors
  <2>2. batch[l] = <<>>
    BY <2>1 DEF LifeInv, PhasesOK
  <2>3. Range(<<>>) = {}
    BY DEF Range
  <2>4. \A k \in Loops : /\ batch'[k] = IF k = l THEN pending[l] ELSE batch[k]
                         /\ pending'[k] = IF k = l THEN <<>> ELSE pending[k]
    BY <2>1 DEF LifeInv, TypeOK
  <2>5. \A k \in Loops : Functors(k)' = Functors(k)
    BY <2>2, <2>3, <2>4 DEF Functors
  <2>6. QueuesOrdered(pending[l], <<>>)
    BY <2>3, OrderedEmpty DEF LifeInv, InOrder, QueuesOrdered
  <2>7. InOrder'
    BY <2>4, <2>6 DEF LifeInv, InOrder
  <2>8. PhasesOK' /\ ActiveOK'
    BY <1>1, <2>1, <2>4 DEF LifeInv, TypeOK, PhasesOK, ActiveOK
  <2>. QED
    BY <1>1, <1>2, <1>3, <2>5, <2>7, <2>8, QuietStep
<1>6. CASE endFunctors(l)
  <2>1. /\ phase[l] = "functors" /\ batch[l] = <<>> /\ phase' = [phase EXCEPT ![l] = "poll"]
        /\ UNCHANGED <<active, batch, pending>>
    BY <1>6 DEF endFunctors
  <2>2. \A k \in Loops : Functors(k)' = Functors(k)
    BY <2>1 DEF Functors
  <2>3. InOrder' /\ PhasesOK' /\ ActiveOK'
    BY <1>1, <2>1 DEF LifeInv, TypeOK, InOrder, PhasesOK, ActiveOK
  <2>. QED
    BY <1>1, <1>2, <1>3, <2>2, <2>3, QuietStep
<1>. QED
  BY <1>4, <1>5, <1>6

\* Neither do the peer, and a user that only holds, tests and sets.
LEMMA OutsideStep ==
    ASSUME LifeInv, TypeOK',
           \/ \E c \in Conns : peerCloses(c) \/ shutdownHere(c)
           \/ \E u \in Users, c \in Conns : hold(u, c) \/ release(u, c)
           \/ \E u \in Users, c \in Conns, op \in ForeignOps : beginCall(u, op, c)
           \/ \E u \in Users : setDisconnecting(u)
           \/ UNCHANGED vars
    PROVE  LifeInv'
<1>1. TypeOK /\ Beginnings
  BY DEF LifeInv
<1>2. \A u \in Users : call[u] # NoCall => call[u].conn \in Conns
  BY <1>1 DEF TypeOK
<1>3. UNCHANGED <<loopVars, pending, index, ups, downs, connections_, ioLoop, loops_>>
  BY DEF peerCloses, shutdownHere, hold, release, beginCall, setDisconnecting, UserRest,
         vars, loopVars, connVars, poolVars, callbackVars
<1>4. \A c \in Conns : Accepted(c) => Accepted(c)'
  <2>1. ASSUME NEW c, state_' = [state_ EXCEPT ![c] = "kDisconnecting"]
        PROVE  \A d \in Conns : Accepted(d) => Accepted(d)'
    BY <1>1, <2>1 DEF TypeOK, Accepted
  <2>2. ASSUME UNCHANGED state_ PROVE \A d \in Conns : Accepted(d) => Accepted(d)'
    BY <2>2 DEF Accepted
  <2>3. ASSUME NEW c \in Conns, peerCloses(c) PROVE UNCHANGED state_
    BY <2>3 DEF peerCloses, connVars
  <2>4. ASSUME NEW u \in Users, NEW c \in Conns, hold(u, c) \/ release(u, c)
        PROVE  UNCHANGED state_
    BY <2>4 DEF hold, release
  <2>5. ASSUME NEW u \in Users, NEW c \in Conns, NEW op \in ForeignOps, beginCall(u, op, c)
        PROVE  UNCHANGED state_
    BY <2>5 DEF beginCall
  <2>6. ASSUME NEW c \in Conns, shutdownHere(c)
        PROVE  \A d \in Conns : Accepted(d) => Accepted(d)'
    BY <2>1, <2>6 DEF shutdownHere
  <2>7. ASSUME NEW u \in Users, setDisconnecting(u)
        PROVE  \A d \in Conns : Accepted(d) => Accepted(d)'
    BY <2>1, <2>7 DEF setDisconnecting
  <2>8. CASE UNCHANGED vars
    BY <2>2, <2>8 DEF vars
  <2>. QED
    BY <2>2, <2>3, <2>4, <2>5, <2>6, <2>7, <2>8
<1>5. CallsOK'
  <2>1. ASSUME UNCHANGED call PROVE CallsOK'
    BY <1>1, <1>2, <1>4, <2>1 DEF Beginnings, CallsOK, Accepted
  <2>2. ASSUME NEW u \in Users, NEW c \in Conns, NEW op \in ForeignOps, beginCall(u, op, c)
        PROVE  CallsOK'
    <3>1. call' = [call EXCEPT ![u] = Do(op, c)] /\ state_[c] = "kConnected" /\ UNCHANGED state_
      BY <2>2 DEF beginCall
    <3>2. \A v \in Users : call'[v] = IF v = u THEN Do(op, c) ELSE call[v]
      BY <1>1, <3>1 DEF TypeOK
    <3>3. Do(op, c).conn = c
      BY DEF Do
    <3>. QED
      BY <1>1, <3>1, <3>2, <3>3 DEF Beginnings, CallsOK, Accepted
  <2>3. ASSUME NEW u \in Users, setDisconnecting(u) PROVE CallsOK'
    <3>1. /\ call[u] # NoCall
          /\ call' = [call EXCEPT ![u] = [call[u] EXCEPT !.op = "runInLoop"]]
          /\ call[u] \in [op : ForeignOps \cup {"runInLoop"}, conn : Conns]
      BY <1>1, <2>3 DEF setDisconnecting, TypeOK
    <3>2. [call[u] EXCEPT !.op = "runInLoop"].conn = call[u].conn
      BY <3>1
    <3>3. \A v \in Users : call'[v] # NoCall => call[v] # NoCall /\ call'[v].conn = call[v].conn
      BY <1>1, <3>1, <3>2 DEF TypeOK
    <3>. QED
      BY <1>1, <1>2, <1>4, <3>3 DEF Beginnings, CallsOK, Accepted
  <2>4. ASSUME NEW c \in Conns, peerCloses(c) \/ shutdownHere(c) PROVE UNCHANGED call
    BY <2>4 DEF peerCloses, shutdownHere, userVars
  <2>5. ASSUME NEW u \in Users, NEW c \in Conns, hold(u, c) \/ release(u, c) PROVE UNCHANGED call
    BY <2>5 DEF hold, release
  <2>6. UNCHANGED vars => UNCHANGED call
    BY DEF vars
  <2>. QED
    BY <2>1, <2>2, <2>3, <2>4, <2>5, <2>6
<1>. QED
  BY <1>3, <1>4, <1>5, QuietLoops

\* A loop ends, and what is queued in it is destroyed with it.
LEMMA LoopEnds ==
    ASSUME LifeInv, TypeOK', NEW l \in Loops, phase[l] \in {"poll", "stopped"},
           l # BaseLoop \/ \A k \in Loops : phase[k] = "stopped",
           phase' = [phase EXCEPT ![l] = "stopped"],
           pending' = [pending EXCEPT ![l] = <<>>],
           UNCHANGED <<active, batch, state_, index, ups, downs, connections_, ioLoop,
                       loops_, call>>
    PROVE  LifeInv'
<1>1. TypeOK /\ Queued /\ InOrder /\ PhasesOK /\ ActiveOK /\ Beginnings /\ Waits
  BY DEF LifeInv
<1>2. batch[l] = <<>>
  BY <1>1 DEF PhasesOK
<1>3. \A k \in Loops : /\ pending'[k] = IF k = l THEN <<>> ELSE pending[k]
                       /\ phase'[k] = IF k = l THEN "stopped" ELSE phase[k]
  BY <1>1 DEF TypeOK
<1>4. Range(<<>>) = {}
  BY DEF Range
<1>5. \A k \in Loops : Functors(k)' = IF k = l THEN {} ELSE Functors(k)
  BY <1>2, <1>3, <1>4 DEF Functors
<1>6. Queued'
  <2>1. ASSUME NEW k \in Loops, NEW f \in Functors(k)' PROVE QueuedWell(k, f)'
    <3>1. QueuedWell(k, f)
      BY <1>1, <1>5, <2>1 DEF Queued
    <3>. QED
      BY <3>1 DEF QueuedWell, Accepted
  <2>. QED
    BY <2>1 DEF Queued
<1>7. InOrder'
  <2>1. QueuesOrdered(<<>>, <<>>)
    BY <1>4, OrderedEmpty DEF QueuesOrdered
  <2>. QED
    BY <1>1, <1>2, <1>3, <2>1 DEF InOrder
<1>8. PhasesOK' /\ ActiveOK' /\ Beginnings'
  <2>1. PhasesOK'
    BY <1>1, <1>2, <1>3 DEF PhasesOK
  <2>2. ActiveOK'
    BY <1>1 DEF ActiveOK
  <2>3. Beginnings'
    BY <1>1 DEF Beginnings, CallsOK, Accepted
  <2>. QED
    BY <2>1, <2>2, <2>3
<1>9. Waits'
  BY <1>1, <1>5 DEF Waits, Awaited
<1>10. ASSUME NEW c \in Conns PROVE Counts(c)' /\ Kept(c)'
  <2>1. Counts(c) /\ Kept(c) /\ ioLoop[c] \in Loops
    BY <1>1 DEF LifeInv, TypeOK
  <2>2. ASSUME Leaving(c), phase'[ioLoop[c]] # "stopped" PROVE Leaving(c)'
    <3>1. PICK k \in Loops : \/ Do("removeConnectionInLoop", c) \in Functors(k)
                             \/ Do("connectDestroyed", c) \in Functors(k)
      BY <2>2 DEF Leaving
    <3>2. k \in {BaseLoop, ioLoop[c]}
      BY <1>1, <3>1 DEF Queued, QueuedWell, Do
    <3>3. k # l
      <4>1. ioLoop[c] # l
        BY <1>3, <2>1, <2>2
      <4>2. phase[ioLoop[c]] # "stopped"
        BY <1>3, <2>1, <2>2
      <4>3. BaseLoop # l
        BY <2>1, <4>2
      <4>. QED
        BY <3>2, <4>1, <4>3
    <3>. QED
      BY <1>5, <3>1, <3>3 DEF Leaving
  <2>. QED
    BY <1>3, <2>1, <2>2 DEF Counts, Kept
<1>. QED
  BY <1>6, <1>7, <1>8, <1>9, <1>10 DEF LifeInv

\* The server ends: it destroys the connections itself when its loop is the
\* only one, or has the loops of the pool destroy theirs.
LEMMA ServerEnds ==
    ASSUME LifeInv, TypeOK', destroyServer
    PROVE  LifeInv'
<1>1. /\ TypeOK /\ Queued /\ InOrder /\ PhasesOK /\ ActiveOK /\ Beginnings /\ Waits
      /\ \A c \in Conns : Counts(c) /\ Kept(c)
  BY DEF LifeInv
<1>2. /\ phase[BaseLoop] = "poll" /\ phase' = [phase EXCEPT ![BaseLoop] = "stopped"]
      /\ connections_' = {}
      /\ UNCHANGED <<active, batch, ioLoop, loops_, call, ups, downs>>
  BY DEF destroyServer, poolVars, userVars, callbackVars
<1>3. \A k \in Loops : phase'[k] = IF k = BaseLoop THEN "stopped" ELSE phase[k]
  BY <1>1, <1>2 DEF TypeOK
<1>4. PhasesOK'
  BY <1>1, <1>2, <1>3 DEF PhasesOK
<1>5. \A u \in Users : call[u] # NoCall => call[u].conn \in Conns
  BY <1>1 DEF TypeOK
<1>6. CASE loops_ = <<>>
  <2>1. /\ state_' = [c \in Conns |-> IF c \in connections_ /\ state_[c] = "kConnected"
                                      THEN "kDisconnected" ELSE state_[c]]
        /\ index' = [c \in Conns |-> IF c \in connections_ THEN "kNew" ELSE index[c]]
        /\ pending' = pending
    BY <1>6, Zenon DEF destroyServer
  <2>2. \A c \in Conns : /\ Accepted(c)' <=> Accepted(c)
                         /\ index'[c] \in {"kNew", index[c]}
                         /\ ioLoop[c] = BaseLoop
    BY <1>1, <1>6, <2>1 DEF Accepted, Beginnings
  <2>3. \A k \in Loops : Functors(k)' = Functors(k)
    BY <1>2, <2>1 DEF Functors
  <2>4. Queued'
    <3>1. \A k \in Loops : \A f \in Functors(k) : f.conn \in Conns
      BY <1>1, FunctorsType DEF Functor
    <3>. QED
      BY <1>1, <1>2, <2>2, <2>3, <3>1 DEF Queued, QueuedWell
  <2>5. InOrder'
    BY <1>1, <1>2, <2>1 DEF InOrder
  <2>6. ActiveOK'
    <3>1. \A k \in Loops : active[k] = {}
      <4>. SUFFICES ASSUME NEW k \in Loops, NEW x \in active[k] PROVE FALSE
        OBVIOUS
      <4>1. k = BaseLoop
        BY <1>1, <2>2 DEF ActiveOK, TypeOK
      <4>. QED
        BY <1>1, <1>2, <4>1 DEF PhasesOK
    <3>. QED
      BY <1>2, <3>1 DEF ActiveOK
  <2>7. Beginnings'
    BY <1>1, <1>2, <1>5, <2>2 DEF Beginnings, CallsOK, Accepted
  <2>8. Waits'
    BY <1>1, <1>6, <2>3 DEF Waits, Awaited
  <2>9. \A c \in Conns : Counts(c)' /\ Kept(c)'
    <3>1. BaseLoop \in Loops
      BY PoolFacts
    <3>. QED
      BY <1>1, <1>2, <1>3, <2>2, <3>1 DEF Counts, Kept
  <2>. QED
    BY <1>4, <2>4, <2>5, <2>6, <2>7, <2>8, <2>9 DEF LifeInv
<1>7. CASE loops_ # <<>>
  <2>1. PICK order \in Orders :
           /\ \A l \in Loops : Range(order[l]) = {c \in connections_ : ioLoop[c] = l}
           /\ pending' = [l \in Loops |-> pending[l] \o Destructions(order[l])]
    BY <1>7 DEF destroyServer
  <2>2. UNCHANGED <<state_, index>>
    BY <1>7 DEF destroyServer, connVars
  <2>3. ASSUME NEW l \in Loops
        PROVE  /\ batch[l] \in Seq(Functor) /\ pending[l] \in Seq(Functor)
               /\ Destructions(order[l]) \in Seq(Functor)
               /\ Range(Destructions(order[l])) =
                      {Do("connectDestroyed", c) : c \in {e \in connections_ : ioLoop[e] = l}}
               /\ pending'[l] = pending[l] \o Destructions(order[l])
    <3>1. /\ Destructions(order[l]) \in Seq(Functor)
          /\ Range(Destructions(order[l])) = {Do("connectDestroyed", c) : c \in Range(order[l])}
      BY <1>1, DestructionsFacts
    <3>2. Range(order[l]) = {e \in connections_ : ioLoop[e] = l}
      BY <2>1
    <3>3. batch[l] \in Seq(Functor) /\ pending[l] \in Seq(Functor)
      BY <1>1 DEF TypeOK
    <3>4. pending'[l] = pending[l] \o Destructions(order[l])
      BY <2>1
    <3>. QED
      BY <3>1, <3>2, <3>3, <3>4, Zenon
  <2>4. ASSUME NEW l \in Loops
        PROVE  Functors(l)' = Functors(l) \cup
                   {Do("connectDestroyed", c) : c \in {e \in connections_ : ioLoop[e] = l}}
    <3>. DEFINE d == Destructions(order[l])
    <3>1. pending[l] \in Seq(Functor) /\ d \in Seq(Functor) /\ pending'[l] = pending[l] \o d
      BY <2>3
    <3>. HIDE DEF d
    <3>2. Range(pending'[l]) = Range(pending[l]) \cup Range(d)
      BY <3>1, RangeOfConcat
    <3>3. Range(d) = {Do("connectDestroyed", c) : c \in {e \in connections_ : ioLoop[e] = l}}
      BY <2>3 DEF d
    <3>. QED
      BY <1>2, <3>2, <3>3 DEF Functors
  <2>5. InOrder'
    <3>1. ASSUME NEW l \in Loops PROVE QueuesOrdered(batch[l], pending'[l])
      <4>. DEFINE d == Destructions(order[l])
      <4>1. /\ batch[l] \in Seq(Functor) /\ pending[l] \in Seq(Functor) /\ d \in Seq(Functor)
            /\ pending'[l] = pending[l] \o d
        BY <2>3
      <4>2. \A f \in Range(d) : f.op # "connectEstablished"
        <5>1. Range(d) = {Do("connectDestroyed", c) : c \in {e \in connections_ : ioLoop[e] = l}}
          BY <2>3
        <5>. HIDE DEF d
        <5>. QED
          BY <5>1 DEF Do
      <4>. HIDE DEF d
      <4>. QED
        BY <1>1, <4>1, <4>2, OrderedConcat DEF InOrder
    <3>. QED
      BY <1>2, <3>1 DEF InOrder
  <2>6. Queued'
    <3>1. ASSUME NEW l \in Loops, NEW f \in Functors(l)' PROVE QueuedWell(l, f)'
      <4>1. CASE f \in Functors(l)
        BY <1>1, <1>2, <2>2, <4>1 DEF Queued, QueuedWell, Accepted
      <4>2. CASE f \in {Do("connectDestroyed", c) : c \in {e \in connections_ : ioLoop[e] = l}}
        <5>1. PICK c \in connections_ : ioLoop[c] = l /\ f = Do("connectDestroyed", c)
          BY <4>2
        <5>2. c \in Conns /\ Accepted(c)
          BY <1>1 DEF TypeOK, Beginnings
        <5>. QED
          BY <1>2, <2>2, <5>1, <5>2 DEF QueuedWell, Accepted, Do
      <4>. QED
        BY <2>4, <3>1, <4>1, <4>2
    <3>. QED
      BY <3>1 DEF Queued
  <2>7. ActiveOK'
    BY <1>1, <1>2, <2>2 DEF ActiveOK
  <2>8. Beginnings'
    BY <1>1, <1>2, <2>2 DEF Beginnings, CallsOK, Accepted
  <2>9. Waits'
    <3>1. ASSUME NEW l \in Loops, NEW c \in Conns, Do("connectEstablished", c) \in Functors(l)'
          PROVE  Awaited(l, c)'
      <4>1. Do("connectEstablished", c) \in Functors(l)
        BY <2>4, <3>1 DEF Do
      <4>2. Awaited(l, c) /\ ioLoop[c] = l
        BY <1>1, <4>1 DEF Waits, Queued, QueuedWell, Do
      <4>3. Do("connectDestroyed", c) \in Functors(l)'
        BY <2>4, <4>2 DEF Awaited
      <4>. QED
        BY <1>2, <2>2, <4>2, <4>3 DEF Awaited
    <3>. QED
      BY <3>1 DEF Waits
  <2>10. ASSUME NEW c \in Conns PROVE Counts(c)' /\ Kept(c)'
    <3>1. Counts(c) /\ Kept(c) /\ ioLoop[c] \in Loops
      BY <1>1 DEF TypeOK
    <3>2. c \in connections_ => Leaving(c)'
      BY <2>4, <3>1 DEF Leaving
    <3>3. Leaving(c) => Leaving(c)'
      BY <2>4 DEF Leaving
    <3>. QED
      BY <1>2, <1>3, <2>2, <3>1, <3>2, <3>3 DEF Counts, Kept
  <2>. QED
    BY <1>4, <2>5, <2>6, <2>7, <2>8, <2>9, <2>10 DEF LifeInv
<1>. QED
  BY <1>6, <1>7

LEMMA LifeNext ==
    ASSUME "send" \notin ForeignOps, LifeInv, [Next]_vars
    PROVE  LifeInv'
<1>1. TypeOK'
  BY TypeNext DEF LifeInv
<1>2. CASE UNCHANGED vars
  BY <1>1, <1>2, OutsideStep
<1>3. ASSUME NEW l \in Loops, LoopStep(l) PROVE LifeInv'
  BY <1>1, <1>3, CycleStep, EventStep, RunStep DEF LoopStep
<1>4. ASSUME NEW l \in Loops, stopLoop(l) PROVE LifeInv'
  <2>1. /\ l # BaseLoop /\ phase[l] = "poll"
        /\ phase' = [phase EXCEPT ![l] = "stopped"]
        /\ pending' = [pending EXCEPT ![l] = <<>>]
        /\ UNCHANGED <<active, batch, state_, index, ups, downs, connections_, ioLoop,
                       loops_, call>>
    BY <1>4 DEF stopLoop, connVars, callbackVars, poolVars, userVars
  <2>. QED
    BY <1>1, <2>1, LoopEnds
<1>5. CASE destroyBaseLoop
  <2>1. /\ \A k \in Loops : phase[k] = "stopped"
        /\ pending' = [pending EXCEPT ![BaseLoop] = <<>>]
        /\ UNCHANGED <<phase, active, batch, state_, index, ups, downs, connections_, ioLoop,
                       loops_, call>>
    BY <1>5 DEF destroyBaseLoop, loopVars, connVars, callbackVars, poolVars, userVars
  <2>2. BaseLoop \in Loops /\ phase' = [phase EXCEPT ![BaseLoop] = "stopped"]
    BY <2>1, PoolFacts DEF LifeInv, TypeOK
  <2>. QED
    BY <1>1, <2>1, <2>2, LoopEnds
<1>6. ASSUME NEW c \in Conns, newConnection(c) \/ peerCloses(c) \/ shutdownHere(c)
      PROVE  LifeInv'
  BY <1>1, <1>6, AcceptStep, OutsideStep
<1>7. ASSUME NEW u \in Users, UserStep(u) PROVE LifeInv'
  BY <1>1, <1>7, OutsideStep, CallStep DEF UserStep
<1>8. CASE destroyServer
  BY <1>1, <1>8, ServerEnds
<1>. QED
  BY <1>2, <1>3, <1>4, <1>5, <1>6, <1>7, <1>8 DEF Next

LEMMA LifeAlways ==
    ASSUME "send" \notin ForeignOps
    PROVE  Spec => []LifeInv
<1>1. LifeInv /\ [Next]_vars => LifeInv'
  BY LifeNext
<1>. QED
  BY <1>1, LifeInit, PTL DEF Spec

\* As long as no thread of the user calls send, whatever the loops, the peers
\* and the end of the server do: a connection that is destroyed while its loop
\* runs has left the poller (EPollPoller.cc:58, :90).
THEOREM LeftPoller ==
    ASSUME "send" \notin ForeignOps
    PROVE  Spec => []DestroyedLeftPoller
<1>1. LifeInv => DestroyedLeftPoller
  <2>. SUFFICES ASSUME LifeInv, NEW c \in Conns, Destroyed(c), phase[ioLoop[c]] # "stopped"
                PROVE  index[c] = "kNew"
    BY DEF DestroyedLeftPoller
  <2>1. Kept(c) /\ c \notin connections_
    BY DEF LifeInv, Destroyed, Owned
  <2>2. ~Leaving(c)
    BY DEF Leaving, Destroyed, Owned, Owning, Do
  <2>. QED
    BY <2>1, <2>2 DEF Kept
<1>. QED
  BY <1>1, LifeAlways, PTL

\* And the user hears at most once that it is up and at most once, later, that
\* it is down (TcpConnection.cc:116, :172).
THEOREM ToldOnce ==
    ASSUME "send" \notin ForeignOps
    PROVE  Spec => []UpThenDown
<1>1. LifeInv => UpThenDown
  <2>. SUFFICES ASSUME LifeInv, NEW c \in Conns
                PROVE  ups[c] <= 1 /\ downs[c] <= ups[c]
    BY DEF UpThenDown
  <2>. QED
    BY DEF LifeInv, Counts
<1>. QED
  BY <1>1, LifeAlways, PTL

\* And the raw Channel pointers of a poll are of connections that still exist
\* when the loop comes to them (EventLoop.cc:69-72).
THEOREM ChannelsAlive ==
    ASSUME "send" \notin ForeignOps
    PROVE  Spec => []NoDanglingChannel
<1>1. LifeInv => NoDanglingChannel
  <2>. SUFFICES ASSUME LifeInv, NEW l \in Loops, NEW x \in active[l]
                PROVE  Owned(x[1])
    BY DEF NoDanglingChannel, Destroyed
  <2>1. /\ x[1] \in Conns /\ ioLoop[x[1]] = l /\ index[x[1]] = "kAdded"
        /\ phase[l] = "events"
    BY DEF LifeInv, TypeOK, ActiveOK, PhasesOK
  <2>2. x[1] \in connections_ \/ Leaving(x[1])
    BY <2>1 DEF LifeInv, Kept
  <2>3. \A op, c : Do(op, c).op = op /\ Do(op, c).conn = c
    BY DEF Do
  <2>. QED
    BY <2>2, <2>3 DEF Leaving, Owned, Owning
<1>. QED
  BY <1>1, LifeAlways, PTL
==============================================================================
