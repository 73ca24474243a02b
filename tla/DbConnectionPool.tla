-------------------------- MODULE DbConnectionPool ---------------------------
(***************************************************************************)
(* The pool of database connections (utils/db/DbConnectionPool.cpp) with   *)
(* the threads that take connections from it and the thread that checks    *)
(* them, and what it uses of a connection (utils/db/DbConnection.cpp).     *)
(*                                                                         *)
(* A critical section of mutex_ is one step.  Only the checking thread     *)
(* keeps mutex_ longer: it sleeps with it when the pool is empty.  What    *)
(* happens to a connection outside of mutex_ is a step of its own, so that *)
(* the checking thread may ping and reconnect one that has been handed out *)
(* since it copied the queue.                                              *)
(***************************************************************************)
EXTENDS Naturals, Sequences, Functions, FiniteSets

CONSTANTS
    Users,      \* the threads that call init and getConnection
    PoolSize,   \* the poolSize of every init
    MaxConns    \* bound: connections created by all calls of init

ASSUME PoolAssumption == PoolSize \in Nat /\ MaxConns \in Nat
ASSUME UsersAssumption == IsFiniteSet(Users)

VARIABLES
    connections_, initialized_,
    created,    \* connections are numbered as they are created
    phase,      \* per user, where it is in getConnection or after it
    conn,       \* per user, its connection
    checker,    \* where the checking thread is in checkConnections
    connsToCheck,
    link,       \* connections whose session with the server is alive
    server      \* TRUE iff the database server accepts sessions

userVars == <<phase, conn>>
checkVars == <<checker, connsToCheck>>
vars == <<connections_, initialized_, created, userVars, checkVars, link, server>>

Conns == 1..MaxConns
NoConn == 0
\* the phases in which a user has a connection of the pool
Holding == {"pinging", "using", "releasing", "failed"}

TypeOK ==
    /\ connections_ \in Seq(Conns)
    /\ initialized_ \in BOOLEAN
    /\ created \in 0..MaxConns
    /\ phase \in [Users -> {"idle", "locking", "waiting"} \cup Holding]
    /\ conn \in [Users -> Conns \cup {NoConn}]
    /\ \A u \in Users : phase[u] \in Holding <=> conn[u] # NoConn
    /\ checker \in {"locking", "asleep", "checking"}
    /\ connsToCheck \in Seq(Conns)
    /\ link \subseteq Conns
    /\ server \in BOOLEAN

Init ==
    /\ connections_ = <<>> /\ initialized_ = FALSE /\ created = 0
    /\ phase = [u \in Users |-> "idle"]
    /\ conn = [u \in Users |-> NoConn]
    /\ checker = "locking" /\ connsToCheck = <<>>
    /\ link = {} /\ server = TRUE

\* mutex_ is not held from one step to the next
Free == checker # "asleep"

Moves(u, from, to) == phase[u] = from /\ phase' = [phase EXCEPT ![u] = to]

------------------------------------------------------------------------------
(* init: the constructor of a connection throws when the server does not    *)
(* accept it; the connections before it stay in the queue.                  *)

NewConns(n) == [i \in 1..n |-> created + i]

init(u) ==
    /\ Free /\ phase[u] = "idle"
    /\ ~initialized_
    /\ \E n \in 0..PoolSize :
           /\ n > 0 => server
           /\ created + n <= MaxConns
           /\ connections_' = connections_ \o NewConns(n)
           /\ created' = created + n
           /\ link' = link \cup Range(NewConns(n))
           /\ initialized_' = (n = PoolSize)
    /\ UNCHANGED <<userVars, checkVars, server>>

------------------------------------------------------------------------------
(* getConnection.                                                           *)

getConnection(u) ==
    /\ Moves(u, "idle", "locking")
    /\ UNCHANGED <<connections_, initialized_, created, conn, checkVars, link, server>>

\* the loop around cv_.wait: an empty pool is waited for, or refused before init
lookEmpty(u) ==
    /\ Free
    /\ connections_ = <<>>
    /\ Moves(u, "locking", IF initialized_ THEN "waiting" ELSE "idle")
    /\ UNCHANGED <<connections_, initialized_, created, conn, checkVars, link, server>>

\* mutant: a thread that was woken does not look at the queue again, front() and
\* pop() of an empty one give it nothing
pop_NoLoop(u) ==
    /\ Free
    /\ Moves(u, "locking", "pinging")
    /\ conn' = [conn EXCEPT ![u] = IF connections_ = <<>> THEN NoConn ELSE Head(connections_)]
    /\ connections_' = IF connections_ = <<>> THEN <<>> ELSE Tail(connections_)
    /\ UNCHANGED <<initialized_, created, checkVars, link, server>>

\* mutant: the connection stays in the queue
pop_Front(u) ==
    /\ Free
    /\ connections_ # <<>>
    /\ Moves(u, "locking", "pinging")
    /\ conn' = [conn EXCEPT ![u] = Head(connections_)]
    /\ UNCHANGED <<connections_, initialized_, created, checkVars, link, server>>

pop(u) ==
    /\ Free
    /\ connections_ # <<>>
    /\ Moves(u, "locking", "pinging")
    /\ conn' = [conn EXCEPT ![u] = Head(connections_)]
    /\ connections_' = Tail(connections_)
    /\ UNCHANGED <<initialized_, created, checkVars, link, server>>

\* a thread in cv_.wait may return from it without a notification
spuriousWakeup(u) ==
    /\ Moves(u, "waiting", "locking")
    /\ UNCHANGED <<connections_, initialized_, created, conn, checkVars, link, server>>

\* reconnect: a live session is replaced as well; without a server it throws
reconnect(c) == link' = IF server THEN link \cup {c} ELSE link \ {c}

\* ping and, if it fails, reconnect: the connection is handed out, or the
\* exception is caught, be it of reconnect or, not an SQLException, of ping
pingOrReconnect(u) ==
    LET c == conn[u] IN
    /\ \/ /\ Moves(u, "pinging", IF c \in link \/ server THEN "using" ELSE "failed")
          /\ IF c \in link THEN UNCHANGED link ELSE reconnect(c)
       \/ Moves(u, "pinging", "failed") /\ UNCHANGED link
    /\ UNCHANGED <<connections_, initialized_, created, conn, checkVars, server>>

\* the last shared_ptr of the user goes: the deleter runs
drop(u) ==
    /\ Moves(u, "using", "releasing")
    /\ UNCHANGED <<connections_, initialized_, created, conn, checkVars, link, server>>

Waiting == {u \in Users : phase[u] = "waiting"}
Locking == {u \in Users : phase[u] = "locking"}

\* mutant: a connection is announced only if the queue was empty
Notified_WhenEmpty ==
    IF Waiting = {} \/ connections_ # <<>> THEN {{}} ELSE {{u} : u \in Waiting}

\* notify_one: one of those who wait, if any does
Notified == IF Waiting = {} THEN {{}} ELSE {{u} : u \in Waiting}

\* the deleter and the handler of the exception: push and notify_one
giveBack(u) ==
    /\ Free
    /\ phase[u] \in {"releasing", "failed"}
    /\ connections_' = Append(connections_, conn[u])
    /\ \E woken \in Notified :
           phase' = [v \in Users |-> IF v = u THEN "idle"
                                     ELSE IF v \in woken THEN "locking" ELSE phase[v]]
    /\ conn' = [conn EXCEPT ![u] = NoConn]
    /\ UNCHANGED <<initialized_, created, checkVars, link, server>>

------------------------------------------------------------------------------
(* checkConnections.                                                        *)

\* the queue is copied, or the thread sleeps for a second with mutex_
copyConnections ==
    /\ checker = "locking"
    /\ checker' = IF connections_ = <<>> THEN "asleep" ELSE "checking"
    /\ connsToCheck' = connections_
    /\ UNCHANGED <<connections_, initialized_, created, userVars, link, server>>

wakeUp ==
    /\ checker = "asleep"
    /\ checker' = "locking"
    /\ UNCHANGED <<connections_, initialized_, created, userVars, connsToCheck, link, server>>

\* mutant: a connection that answers is reconnected, one that is lost is not
NeedsReconnect_Swapped(c) == c \in link

NeedsReconnect(c) == c \notin link

\* ping and, if it fails, reconnect of the next one; its exception is caught
checkNext ==
    /\ checker = "checking" /\ connsToCheck # <<>>
    /\ LET c == Head(connsToCheck) IN
           IF NeedsReconnect(c) THEN reconnect(c) ELSE UNCHANGED link
    /\ connsToCheck' = Tail(connsToCheck)
    /\ UNCHANGED <<connections_, initialized_, created, userVars, checker, server>>

\* an exception of ping that is not an SQLException ends the round
pingThrows ==
    /\ checker = "checking" /\ connsToCheck # <<>>
    /\ connsToCheck' = <<>>
    /\ UNCHANGED <<connections_, initialized_, created, userVars, checker, link, server>>

\* a minute later, or five seconds after an exception
checkAgain ==
    /\ checker = "checking" /\ connsToCheck = <<>>
    /\ checker' = "locking"
    /\ UNCHANGED <<connections_, initialized_, created, userVars, connsToCheck, link, server>>

------------------------------------------------------------------------------
\* The server drops a session, goes down with all of them, or comes back.
sessionLost ==
    /\ \/ \E c \in link : link' = link \ {c} /\ UNCHANGED server
       \/ server' = ~server /\ link' = IF server THEN {} ELSE link
    /\ UNCHANGED <<connections_, initialized_, created, userVars, checkVars>>

Locks(u) == lookEmpty(u) \/ pop(u) \/ giveBack(u)
CheckerStep == copyConnections \/ wakeUp \/ checkNext \/ pingThrows \/ checkAgain

Next ==
    \/ \E u \in Users : \/ init(u) \/ getConnection(u) \/ spuriousWakeup(u)
                        \/ pingOrReconnect(u) \/ drop(u) \/ Locks(u)
    \/ CheckerStep
    \/ sessionLost

Spec == Init /\ [][Next]_vars

\* Threads run and the checking thread wakes up.  A thread that waits for
\* mutex_ gets it in the end although the checking thread, on an empty pool,
\* releases it only to take it again: std::mutex does not promise that, so the
\* fairness of these steps is strong.  Users need not give back what they have.
\* ping does not throw whenever it is the turn of the same connection.
FairSpec ==
    /\ Spec
    /\ \A u \in Users : WF_vars(pingOrReconnect(u)) /\ SF_vars(Locks(u))
    /\ WF_vars(CheckerStep)
    /\ \A c \in Conns : SF_vars(checkNext /\ c = Head(connsToCheck))

------------------------------------------------------------------------------
(* Properties.                                                              *)

Held == {u \in Users : phase[u] \in Holding}

\* Every connection that was created is in the queue, once, or with one user:
\* none is lost or handed out twice by the failures of ping and reconnect, the
\* deleter or the exception (DbConnectionPool.cpp:44-71).
ConnectionsConserved ==
    /\ IsInjective(connections_)
    /\ \A u, v \in Held : u # v => conn[u] # conn[v]
    /\ \A u \in Held : conn[u] \notin Range(connections_)
    /\ 1..created = Range(connections_) \cup {conn[u] : u \in Held}

\* As long as a user waits, each connection in the queue has a user under way
\* to it who is not asleep: one notify_one per connection is enough even if
\* others take a connection without waiting (DbConnectionPool.cpp:39-45, :60).
NobodyWaitsInVain ==
    Waiting # {} =>
        Len(connections_) <= Cardinality(Locking)

\* A connection that is in the queue while somebody waits is handed out.
WaitersAreServed ==
    \A c \in Conns :
        (c \in Range(connections_) /\ Waiting # {})
            ~> (c \notin Range(connections_) \/ Waiting = {})

\* A connection that is lost while nobody uses it is alive again before it is
\* handed out or soon after, unless the server is down: the checking thread
\* gets to it (DbConnectionPool.cpp:81-110).
IdleConnectionsRecover ==
    \A c \in Conns :
        (c \in Range(connections_) /\ c \notin link)
            ~> (c \in link \/ c \notin Range(connections_) \/ ~server)

==============================================================================
