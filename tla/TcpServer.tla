------------------------------ MODULE TcpServer ------------------------------
(***************************************************************************)
(* The life of the connections of a TcpServer (webserver/src/TcpServer.cc, *)
(* TcpConnection.cc, Channel.cc): accepted in the base loop, handed to an  *)
(* io loop in turn, closed by the peer, taken out of connections_ by the   *)
(* base loop and out of the poller by the io loop, and destroyed when the  *)
(* last shared_ptr to them goes away.                                      *)
(*                                                                         *)
(* A loop is the poll - events - functors cycle of EventLoop, with its     *)
(* functor queue as TaskQueue describes it.  The bytes are TcpOutput's; of *)
(* the output path only the effects on the channel remain.  A functor that *)
(* binds shared_from_this() or a TcpConnectionPtr owns its connection, one *)
(* that binds this does not.                                               *)
(***************************************************************************)
EXTENDS Naturals, Sequences, FiniteSets, SequencesExt

CONSTANTS
    Conns,        \* connections, each accepted at most once
    BaseLoop,     \* loop_ of the server
    PoolLoops,    \* the loops of the threads that a pool can have, in order
    ThreadNums,   \* the arguments of setThreadNum to consider
    Users,        \* threads of the user
    ForeignOps,   \* what a thread of the user that holds a connection calls
    MaxQueued,    \* bound: calls of a kind on a connection that are queued
    Stops         \* is the server destroyed in the end?

ASSUME LoopAssumption ==
    /\ IsFiniteSet(Conns)
    /\ PoolLoops \in Seq(Range(PoolLoops)) /\ IsInjective(PoolLoops)
    /\ BaseLoop \notin Range(PoolLoops)
    /\ ThreadNums \subseteq 0..Len(PoolLoops)
    /\ ForeignOps \subseteq {"send", "sendFile", "shutdown"}
    /\ MaxQueued \in Nat
    /\ Stops \in BOOLEAN

Loops == {BaseLoop} \cup Range(PoolLoops)

VARIABLES
    phase,          \* of each loop: poll, events, functors or stopped
    active,         \* events the last poll of the loop reported, not handled
    pending, batch, \* functors of the loop: queued, and being run
    state_, events, index,   \* of a connection and of its channel
    ioLoop,         \* the loop of a connection
    connections_,   \* the map of the server
    loops_, next_,  \* of the thread pool: its loops, and the next to use
    peer,           \* of a connection: "open", has sent a "fin" or a "reset"
    held,           \* which user holds a shared_ptr to which connection
    call,           \* the call a user is in, begun by a test of state_
    ups, downs,     \* calls of connectionCallback_, connected or not
    server          \* "up", "destroying" or "gone"

loopVars == <<phase, active, batch>>
connVars == <<state_, events, index>>
callbackVars == <<ups, downs>>
poolVars == <<loops_, next_>>
userVars == <<held, call>>
vars == <<phase, active, batch, pending, state_, events, index, ioLoop,
          connections_, loops_, next_, peer, held, call, ups, downs, server>>

\* mutant: connectDestroyed bound to a raw pointer
Owning_Raw == {"connectEstablished", "removeConnectionInLoop", "sendFileInLoop"}

Owning == {"connectEstablished", "removeConnectionInLoop", "connectDestroyed",
           "sendFileInLoop"}
Raw == {"sendInLoop", "shutdownInLoop"}
Functor == [op : Owning \cup Raw, conn : Conns]
NoCall == [op |-> "none"]
\* EPOLLIN with data to read or at the end of the stream, EPOLLHUP, EPOLLOUT
Events == {"data", "close", "hup", "write"}

TypeOK ==
    /\ phase \in [Loops -> {"poll", "events", "functors", "stopped"}]
    /\ active \in [Loops -> SUBSET (Conns \X Events)]
    /\ pending \in [Loops -> Seq(Functor)] /\ batch \in [Loops -> Seq(Functor)]
    /\ state_ \in [Conns -> {"none", "kConnecting", "kConnected",
                             "kDisconnecting", "kDisconnected"}]
    /\ events \in [Conns -> SUBSET {"R", "W"}]
    /\ index \in [Conns -> {"kNew", "kAdded", "kDeleted"}]
    /\ ioLoop \in [Conns -> Loops]
    /\ connections_ \subseteq Conns
    /\ loops_ \in Seq(Loops)
    /\ next_ \in Nat /\ (loops_ # <<>> => next_ < Len(loops_))
    /\ peer \in [Conns -> {"open", "fin", "reset"}]
    /\ held \subseteq Users \X Conns
    /\ call \in [Users -> {NoCall} \cup [op : ForeignOps \cup {"runInLoop"}, conn : Conns]]
    /\ ups \in [Conns -> Nat] /\ downs \in [Conns -> Nat]
    /\ server \in {"up", "destroying", "gone"}

\* EventLoopThreadPool::start: every startLoop has returned its loop
poolStart(n) == loops_ = SubSeq(PoolLoops, 1, n)

\* setThreadNum and start
start == \E n \in ThreadNums : poolStart(n)

Init ==
    /\ phase = [l \in Loops |-> "poll"]
    /\ active = [l \in Loops |-> {}]
    /\ pending = [l \in Loops |-> <<>>]
    /\ batch = [l \in Loops |-> <<>>]
    /\ state_ = [c \in Conns |-> "none"]
    /\ events = [c \in Conns |-> {}]
    /\ index = [c \in Conns |-> "kNew"]
    /\ ioLoop = [c \in Conns |-> BaseLoop]
    /\ connections_ = {}
    /\ start
    /\ next_ = 0
    /\ peer = [c \in Conns |-> "open"]
    /\ held = {}
    /\ call = [u \in Users |-> NoCall]
    /\ ups = [c \in Conns |-> 0]
    /\ downs = [c \in Conns |-> 0]
    /\ server = "up"

------------------------------------------------------------------------------
(* Who keeps a connection alive.                                            *)

Functors(l) == Range(batch[l]) \cup Range(pending[l])

Accepted(c) == state_[c] # "none"
Held(c) == \E u \in Users : <<u, c>> \in held
Owned(c) ==
    \/ c \in connections_ \/ Held(c)
    \/ \E l \in Loops : \E f \in Functors(l) : f.conn = c /\ f.op \in Owning

\* the last shared_ptr went away: TcpConnection, Channel and Socket are gone
Destroyed(c) == Accepted(c) /\ ~Owned(c)

\* epoll_ctl: what epoll watches for is events_ of the channel
update(c, ev) == events' = [events EXCEPT ![c] = ev]

\* Channel::update through EPollPoller::updateChannel, and Channel::remove
updateChannel(c, ev) ==
    /\ update(c, ev)
    /\ index' = [index EXCEPT ![c] =
                    IF @ = "kAdded" /\ ev = {} THEN "kDeleted" ELSE "kAdded"]

\* mutants: the channel stays as it is
disableAll_Forgotten(c) == updateChannel(c, events[c])
removeChannel_Forgotten(c) == UNCHANGED index

disableAll(c) == updateChannel(c, {})
removeChannel(c) == index' = [index EXCEPT ![c] = "kNew"]

Do(op, c) == [op |-> op, conn |-> c]
queueInLoop(l, f) == [pending EXCEPT ![l] = Append(@, f)]

------------------------------------------------------------------------------
(* The functions of TcpConnection and TcpServer that loops run.             *)

connectEstablished(c) ==
    /\ state_' = [state_ EXCEPT ![c] = "kConnected"]
    /\ updateChannel(c, events[c] \cup {"R"})
    /\ ups' = [ups EXCEPT ![c] = @ + 1]
    /\ UNCHANGED <<pending, connections_, downs>>

connectDestroyed(c) ==
    /\ state_' = [state_ EXCEPT ![c] = IF @ = "kConnected" THEN "kDisconnected" ELSE @]
    /\ events' = [events EXCEPT ![c] = IF state_[c] = "kConnected" THEN {} ELSE @]
    /\ removeChannel(c)
    /\ UNCHANGED <<pending, connections_, callbackVars>>

\* mutant: the map keeps the connection
Erase_KeepsEntry(c) ==
    /\ pending' = queueInLoop(ioLoop[c], Do("connectDestroyed", c))
    /\ UNCHANGED connections_

\* erase from the map, and have the io loop destroy the connection
Erase(c) ==
    /\ connections_' = connections_ \ {c}
    /\ pending' = queueInLoop(ioLoop[c], Do("connectDestroyed", c))

removeConnectionInLoop(c) == Erase(c) /\ UNCHANGED <<connVars, callbackVars>>

\* closeCallback_: in the base loop at once, queued by another loop
removeConnection(c) ==
    IF ioLoop[c] = BaseLoop
    THEN Erase(c)
    ELSE /\ pending' = queueInLoop(BaseLoop, Do("removeConnectionInLoop", c))
         /\ UNCHANGED connections_

handleClose(c) ==
    /\ state_' = [state_ EXCEPT ![c] = "kDisconnected"]
    /\ disableAll(c)
    /\ downs' = [downs EXCEPT ![c] = @ + 1]
    /\ removeConnection(c)
    /\ UNCHANGED ups

Nothing == UNCHANGED <<connVars, pending, connections_, callbackVars>>

\* everything is written at once or is given up, or the rest waits for EPOLLOUT
\* (so it does after an error other than EPIPE and ECONNRESET, and behind what
\* was left in the buffer when the channel was disabled)
sendInLoop(c) ==
    \/ Nothing
    \/ /\ updateChannel(c, events[c] \cup {"W"})
       /\ UNCHANGED <<state_, pending, connections_, callbackVars>>

\* the server of main.cc echoes the message, in the loop
onMessage(c) == IF state_[c] = "kConnected" THEN sendInLoop(c) ELSE Nothing

handleRead(c, e) == IF e = "data" THEN onMessage(c) ELSE handleClose(c)

\* the buffer is drained, or not
handleWrite(c) ==
    \/ Nothing
    \/ /\ "W" \in events[c] /\ peer[c] # "reset"
       /\ updateChannel(c, events[c] \ {"W"})
       /\ UNCHANGED <<state_, pending, connections_, callbackVars>>

\* the file is sent, given up, or its rest is queued
sendFileInLoop(c) ==
    \/ Nothing
    \/ /\ state_[c] # "kDisconnecting"
       /\ pending' = queueInLoop(ioLoop[c], Do("sendFileInLoop", c))
       /\ UNCHANGED <<connVars, connections_, callbackVars>>

------------------------------------------------------------------------------
(* Steps of a loop.                                                         *)

LoopRest == UNCHANGED <<ioLoop, poolVars, peer, userVars, server>>

\* what epoll may report of a channel that is in the poller; EPOLLHUP comes
\* whether the channel asks for it or not, with EPOLLIN if it reads
MayReport(c) ==
    {e \in Events :
        /\ index[c] = "kAdded"
        /\ e \in {"data", "close"} => "R" \in events[c]
        /\ e = "write" => "W" \in events[c]
        /\ e = "data" => peer[c] # "reset"
        /\ e = "close" => peer[c] # "open"
        /\ e = "hup" => peer[c] = "reset" /\ "R" \notin events[c]}

\* One event for each channel: where handleEventWithGuard calls several
\* callbacks, all but one change nothing here (a write after a read that closed
\* finds no interest, a message behind buffered bytes joins them).
Reports(l) ==
    {r \in SUBSET {x \in Conns \X Events : ioLoop[x[1]] = l /\ x[2] \in MayReport(x[1])} :
        \A x, y \in r : x[1] = y[1] => x = y}

poll(l, r) ==
    /\ phase[l] = "poll"
    /\ phase' = [phase EXCEPT ![l] = "events"]
    /\ active' = [active EXCEPT ![l] = r]
    /\ UNCHANGED <<batch, pending, connVars, connections_, callbackVars>>
    /\ LoopRest

\* Channel::handleEvent of a live channel: the guard holds the connection
handleEvent(l, c, e) ==
    /\ phase[l] = "events"
    /\ <<c, e>> \in active[l]
    /\ ~Destroyed(c)
    /\ active' = [active EXCEPT ![l] = @ \ {<<c, e>>}]
    /\ CASE e = "write" -> handleWrite(c)
         [] e \in {"data", "close"} -> handleRead(c, e)
         [] e = "hup" -> handleClose(c)
    /\ UNCHANGED <<phase, batch>>
    /\ LoopRest

\* doPendingFunctors, the swap
takeFunctors(l) ==
    /\ phase[l] = "events"
    /\ active[l] = {}
    /\ phase' = [phase EXCEPT ![l] = "functors"]
    /\ batch' = [batch EXCEPT ![l] = pending[l]]
    /\ pending' = [pending EXCEPT ![l] = <<>>]
    /\ UNCHANGED <<active, connVars, connections_, callbackVars>>
    /\ LoopRest

Run(f) ==
    CASE f.op = "connectEstablished" -> connectEstablished(f.conn)
      [] f.op = "removeConnectionInLoop" -> removeConnectionInLoop(f.conn)
      [] f.op = "connectDestroyed" -> connectDestroyed(f.conn)
      [] f.op = "sendFileInLoop" -> sendFileInLoop(f.conn)
      [] f.op = "sendInLoop" -> sendInLoop(f.conn)
      [] f.op = "shutdownInLoop" -> Nothing

runFunctor(l) ==
    /\ phase[l] = "functors"
    /\ batch[l] # <<>>
    /\ ~Destroyed(Head(batch[l]).conn)
    /\ Run(Head(batch[l]))
    /\ batch' = [batch EXCEPT ![l] = Tail(@)]
    /\ UNCHANGED <<phase, active>>
    /\ LoopRest

\* a pool loop that was told to quit ends before its next poll
endFunctors(l) ==
    /\ phase[l] = "functors"
    /\ batch[l] = <<>>
    /\ phase' = [phase EXCEPT ![l] = "poll"]
    /\ UNCHANGED <<active, batch, pending, connVars, connections_, callbackVars>>
    /\ LoopRest

\* mutant: one loop too far
NextIndex_OffByOne(n) == IF n + 1 > Len(loops_) THEN 0 ELSE n + 1

\* EventLoopThreadPool::getNextLoop
getNextLoop == IF loops_ = <<>> THEN BaseLoop ELSE loops_[next_ + 1]
NextIndex(n) == IF n + 1 >= Len(loops_) THEN 0 ELSE n + 1

\* Acceptor::handleRead has a connection
CanAccept(c) ==
    /\ server = "up"
    /\ phase[BaseLoop] = "events"
    /\ ~Accepted(c)

\* TcpServer::newConnection, in the acceptor's callback
newConnection(c) ==
    /\ CanAccept(c)
    /\ ioLoop' = [ioLoop EXCEPT ![c] = getNextLoop]
    /\ next_' = NextIndex(next_)
    /\ connections_' = connections_ \cup {c}
    /\ IF getNextLoop # BaseLoop
       THEN /\ state_' = [state_ EXCEPT ![c] = "kConnecting"]
            /\ pending' = queueInLoop(getNextLoop, Do("connectEstablished", c))
            /\ UNCHANGED <<events, index, callbackVars>>
       ELSE /\ state_' = [state_ EXCEPT ![c] = "kConnected"]
            /\ updateChannel(c, {"R"})
            /\ ups' = [ups EXCEPT ![c] = @ + 1]
            /\ UNCHANGED <<pending, downs>>
    /\ UNCHANGED <<loopVars, loops_, peer, userVars, server>>

\* the peer closes its side, or resets the connection
peerCloses(c) ==
    /\ Accepted(c) /\ ~Destroyed(c)
    /\ \/ peer[c] = "open" /\ peer' = [peer EXCEPT ![c] = "fin"]
       \/ peer[c] # "reset" /\ peer' = [peer EXCEPT ![c] = "reset"]
    /\ UNCHANGED <<loopVars, pending, connVars, ioLoop, connections_, poolVars,
                   userVars, callbackVars, server>>

MayShutdown(c) == state_[c] = "kConnected"

\* shutdown called by a callback of the user in the io loop's thread
shutdownHere(c) ==
    /\ phase[ioLoop[c]] \in {"events", "functors"}
    /\ MayShutdown(c) /\ ~Destroyed(c)
    /\ state_' = [state_ EXCEPT ![c] = "kDisconnecting"]
    /\ UNCHANGED <<loopVars, pending, events, index, ioLoop, connections_,
                   poolVars, peer, userVars, callbackVars, server>>

------------------------------------------------------------------------------
(* Threads of the user.  They get a connection from connectionCallback_, and *)
(* hold it for the length of every call they make.                           *)

UserRest == UNCHANGED <<loopVars, events, index, ioLoop, connections_, poolVars,
                        peer, callbackVars, server>>

hold(u, c) ==
    /\ server = "up"
    /\ state_[c] = "kConnected"
    /\ <<u, c>> \notin held /\ ~Destroyed(c)
    /\ held' = held \cup {<<u, c>>}
    /\ UNCHANGED <<state_, pending, call>> /\ UserRest

release(u, c) ==
    /\ <<u, c>> \in held
    /\ call[u] # NoCall => call[u].conn # c
    /\ held' = held \ {<<u, c>>}
    /\ UNCHANGED <<state_, pending, call>> /\ UserRest

Bound == [send |-> "sendInLoop", sendFile |-> "sendFileInLoop",
          shutdown |-> "shutdownInLoop"]

Times(q, f) == Cardinality({i \in DOMAIN q : q[i] = f})
TimesQueued(l, f) == Times(batch[l], f) + Times(pending[l], f)

\* send, sendFile and shutdown test state_ ...
beginCall(u, op, c) ==
    /\ call[u] = NoCall
    /\ <<u, c>> \in held
    /\ state_[c] = "kConnected"
    /\ TimesQueued(ioLoop[c], Do(Bound[op], c)) < MaxQueued
    /\ call' = [call EXCEPT ![u] = Do(op, c)]
    /\ UNCHANGED <<state_, pending, held>> /\ UserRest

\* ... shutdown sets it ...
setDisconnecting(u) ==
    /\ call[u] # NoCall /\ call[u].op = "shutdown"
    /\ state_' = [state_ EXCEPT ![call[u].conn] = "kDisconnecting"]
    /\ call' = [call EXCEPT ![u].op = "runInLoop"]
    /\ UNCHANGED <<pending, held>> /\ UserRest

\* ... and each queues its functor
queueCall(u) ==
    /\ call[u] # NoCall /\ call[u].op # "shutdown"
    /\ LET op == IF call[u].op = "runInLoop" THEN "shutdown" ELSE call[u].op
           c == call[u].conn
       IN  pending' = queueInLoop(ioLoop[c], Do(Bound[op], c))
    /\ call' = [call EXCEPT ![u] = NoCall]
    /\ UNCHANGED <<state_, held>> /\ UserRest

------------------------------------------------------------------------------
(* The end of the server: the base loop has left loop(), the user has no     *)
(* connection any more, and the thread that ran the base loop destroys the   *)
(* server: the connections, then the pool and its loops, then the base loop. *)

\* the functors for the connections of each loop, in the order in which the map
\* is walked, which is any
Orders == [Loops -> UNION {SetToSeqs(S) : S \in SUBSET connections_}]
Destructions(order) == [i \in DOMAIN order |-> Do("connectDestroyed", order[i])]

destroyServer ==
    /\ Stops
    /\ server = "up"
    /\ phase[BaseLoop] = "poll"
    /\ held = {}
    /\ server' = "destroying"
    /\ phase' = [phase EXCEPT ![BaseLoop] = "stopped"]
    /\ connections_' = {}
    /\ IF loops_ = <<>>
       THEN /\ state_' = [c \in Conns |-> IF c \in connections_ /\ state_[c] = "kConnected"
                                          THEN "kDisconnected" ELSE state_[c]]
            /\ events' = [c \in Conns |-> IF c \in connections_ /\ state_[c] = "kConnected"
                                          THEN {} ELSE events[c]]
            /\ index' = [c \in Conns |-> IF c \in connections_ THEN "kNew" ELSE index[c]]
            /\ UNCHANGED pending
       ELSE /\ \E order \in Orders :
                  /\ \A l \in Loops : Range(order[l]) = {c \in connections_ : ioLoop[c] = l}
                  /\ pending' = [l \in Loops |-> pending[l] \o Destructions(order[l])]
            /\ UNCHANGED connVars
    /\ UNCHANGED <<active, batch, ioLoop, poolVars, peer, userVars, callbackVars>>

\* a pool loop leaves loop() and is destroyed with the functors still queued
stopLoop(l) ==
    /\ server = "destroying"
    /\ l # BaseLoop /\ phase[l] = "poll"
    /\ phase' = [phase EXCEPT ![l] = "stopped"]
    /\ pending' = [pending EXCEPT ![l] = <<>>]
    /\ UNCHANGED <<active, batch, connVars, connections_, callbackVars,
                   ioLoop, poolVars, peer, userVars, server>>

destroyBaseLoop ==
    /\ server = "destroying"
    /\ \A l \in Loops : phase[l] = "stopped"
    /\ server' = "gone"
    /\ pending' = [pending EXCEPT ![BaseLoop] = <<>>]
    /\ UNCHANGED <<loopVars, connVars, connections_, callbackVars, ioLoop,
                   poolVars, peer, userVars>>

------------------------------------------------------------------------------

LoopStep(l) ==
    \/ \E r \in Reports(l) : poll(l, r)
    \/ \E c \in Conns, e \in Events : handleEvent(l, c, e)
    \/ takeFunctors(l)
    \/ runFunctor(l)
    \/ endFunctors(l)

UserStep(u) ==
    \/ \E c \in Conns : \/ hold(u, c) \/ release(u, c)
                        \/ \E op \in ForeignOps : beginCall(u, op, c)
    \/ setDisconnecting(u)
    \/ queueCall(u)

Next ==
    \/ \E l \in Loops : LoopStep(l) \/ stopLoop(l)
    \/ \E c \in Conns : newConnection(c) \/ peerCloses(c) \/ shutdownHere(c)
    \/ \E u \in Users : UserStep(u)
    \/ destroyServer
    \/ destroyBaseLoop

Spec == Init /\ [][Next]_vars

\* Loops do not stop running, and the thread that destroys the server gets to
\* the end: it stores true in quit_, which the loop reads in every round;
\* epoll is level-triggered, so that a channel
\* whose peer has closed is reported by some later poll as long as it is in
\* the poller.
ReportsClose(l, c) ==
    \E r \in Reports(l) : (<<c, "close">> \in r \/ <<c, "hup">> \in r) /\ poll(l, r)

FairSpec ==
    /\ Spec
    /\ \A l \in Loops : WF_vars(LoopStep(l)) /\ SF_vars(stopLoop(l))
    /\ WF_vars(destroyBaseLoop)
    /\ \A l \in Loops, c \in Conns : SF_vars(ReportsClose(l, c))

------------------------------------------------------------------------------
(* Properties.                                                              *)

\* The raw Channel pointers that poll has collected and the loop has not handled
\* yet are of connections that still exist (EventLoop.cc:69-72), whatever the
\* handlers before, the other loops and the end of the server do meanwhile.
NoDanglingChannel == \A l \in Loops : \A x \in active[l] : ~Destroyed(x[1])

\* A connection that is destroyed while its loop runs has left the poller,
\* which would otherwise keep a dangling Channel pointer
\* (EPollPoller.cc:58, :90).
DestroyedLeftPoller ==
    \A c \in Conns :
        Destroyed(c) /\ phase[ioLoop[c]] # "stopped" => index[c] = "kNew"

\* The user is told at most once that a connection is up, and at most once,
\* later, that it is down (TcpConnection.cc:116, :172).
UpThenDown == \A c \in Conns : ups[c] <= 1 /\ downs[c] <= ups[c]

\* A connection whose peer closes is destroyed, once the user has let it go.
ClosedIsDestroyed ==
    \A c \in Conns : peer[c] # "open" ~> (Destroyed(c) \/ Held(c))

==============================================================================
