----------------------- MODULE DbConnectionPoolProofs ------------------------
(***************************************************************************)
(* Proofs about DbConnectionPool: connections are neither lost nor handed  *)
(* out twice, and notify_one wakes enough of those who wait, for any       *)
(* number of users and connections.                                        *)
(***************************************************************************)
EXTENDS DbConnectionPool, FiniteSetTheorems, TLAPS

\* The parts of the state that no step of the pool's clients changes together.
LEMMA TypeInit == Init => TypeOK
<1>1. <<>> \in Seq(Conns) /\ 0 \in 0..MaxConns
  BY PoolAssumption
<1>. QED
  BY <1>1 DEF Init, TypeOK, Holding

LEMMA NewConnsType ==
    ASSUME NEW n \in Nat, created \in Nat
    PROVE  /\ NewConns(n) \in Seq((created + 1)..(created + n))
           /\ Range(NewConns(n)) = (created + 1)..(created + n)
           /\ IsInjective(NewConns(n))
<1>1. NewConns(n) \in Seq((created + 1)..(created + n))
  BY DEF NewConns
<1>2. DOMAIN NewConns(n) = 1..n /\ \A i \in 1..n : NewConns(n)[i] = created + i
  BY DEF NewConns
<1>3. ASSUME NEW k \in (created + 1)..(created + n)
      PROVE  k \in Range(NewConns(n))
  <2>1. k - created \in 1..n /\ created + (k - created) = k
    OBVIOUS
  <2>. QED
    BY <1>2, <2>1 DEF Range
<1>4. Range(NewConns(n)) \subseteq (created + 1)..(created + n)
  BY <1>2 DEF Range
<1>5. IsInjective(NewConns(n))
  BY <1>2 DEF IsInjective
<1>. QED
  BY <1>1, <1>3, <1>4, <1>5

LEMMA TypeNext == TypeOK /\ [Next]_vars => TypeOK'
<1> SUFFICES ASSUME TypeOK, [Next]_vars PROVE TypeOK'
  OBVIOUS
<1> USE DEF TypeOK, Holding, Moves
<1>1. ASSUME NEW u \in Users, init(u) PROVE TypeOK'
  <2>1. PICK n \in 0..PoolSize :
            /\ created + n <= MaxConns
            /\ connections_' = connections_ \o NewConns(n)
            /\ created' = created + n
            /\ link' = link \cup Range(NewConns(n))
            /\ initialized_' = (n = PoolSize)
    BY <1>1 DEF init
  <2>2. n \in Nat /\ created \in Nat
    BY PoolAssumption
  <2>3. (created + 1)..(created + n) \subseteq Conns
    BY <2>1, <2>2, PoolAssumption DEF Conns
  <2>4. NewConns(n) \in Seq(Conns) /\ Range(NewConns(n)) \subseteq Conns
    <3>1. /\ NewConns(n) \in Seq((created + 1)..(created + n))
          /\ Range(NewConns(n)) = (created + 1)..(created + n)
      BY <2>2, NewConnsType
    <3>. QED
      BY <2>3, <3>1
  <2>5. connections_' \in Seq(Conns) /\ link' \subseteq Conns
    BY <2>1, <2>4
  <2>6. created' \in 0..MaxConns
    BY <2>1, <2>2, PoolAssumption
  <2>. QED
    BY <1>1, <2>1, <2>5, <2>6 DEF init, userVars, checkVars
<1>2. ASSUME NEW u \in Users,
             getConnection(u) \/ spuriousWakeup(u) \/ drop(u) \/ lookEmpty(u)
      PROVE  TypeOK'
  BY <1>2 DEF getConnection, spuriousWakeup, drop, lookEmpty, checkVars
<1>3. ASSUME NEW u \in Users, pop(u) PROVE TypeOK'
  <2>1. Head(connections_) \in Conns /\ Tail(connections_) \in Seq(Conns)
    BY <1>3 DEF pop
  <2>2. NoConn \notin Conns
    BY PoolAssumption DEF NoConn, Conns
  <2>. QED
    BY <1>3, <2>1, <2>2 DEF pop, checkVars
<1>4. ASSUME NEW u \in Users, pingOrReconnect(u) PROVE TypeOK'
  <2>1. conn[u] \in Conns
    BY <1>4 DEF pingOrReconnect
  <2>2. link' \subseteq Conns
    BY <1>4, <2>1 DEF pingOrReconnect, reconnect
  <2>. QED
    BY <1>4, <2>2 DEF pingOrReconnect, checkVars
<1>5. ASSUME NEW u \in Users, giveBack(u) PROVE TypeOK'
  <2>1. conn[u] \in Conns
    BY <1>5 DEF giveBack
  <2>2. Append(connections_, conn[u]) \in Seq(Conns)
    BY <2>1
  <2>3. PICK woken \in Notified :
            phase' = [v \in Users |-> IF v = u THEN "idle"
                                      ELSE IF v \in woken THEN "locking" ELSE phase[v]]
    BY <1>5 DEF giveBack
  <2>4. \A v \in woken : phase[v] = "waiting"
    BY DEF Notified, Waiting
  <2>. QED
    BY <1>5, <2>2, <2>3, <2>4 DEF giveBack, checkVars
<1>6. CASE CheckerStep
  <2>1. CASE checkNext
    <3>1. Head(connsToCheck) \in Conns /\ Tail(connsToCheck) \in Seq(Conns)
      BY <2>1 DEF checkNext
    <3>2. link' \subseteq Conns
      BY <2>1, <3>1 DEF checkNext, reconnect
    <3>. QED
      BY <2>1, <3>1, <3>2 DEF checkNext, userVars
  <2>2. CASE pingThrows
    <3>1. <<>> \in Seq(Conns)
      OBVIOUS
    <3>. QED
      BY <2>2, <3>1 DEF pingThrows, userVars
  <2>. QED
    BY <1>6, <2>1, <2>2 DEF CheckerStep, copyConnections, wakeUp, checkAgain, userVars
<1>7. CASE sessionLost
  BY <1>7 DEF sessionLost, userVars, checkVars
<1>8. CASE UNCHANGED vars
  BY <1>8 DEF vars, userVars, checkVars
<1>. QED
  BY <1>1, <1>2, <1>3, <1>4, <1>5, <1>6, <1>7, <1>8 DEF Next, Locks

\* The variables of the pool keep their types.
THEOREM TypeCorrect == Spec => []TypeOK
BY TypeInit, TypeNext, PTL DEF Spec

------------------------------------------------------------------------------
(* The queue.                                                               *)

LEMMA RangeOfPush ==
    ASSUME NEW S, NEW s \in Seq(S), NEW e \in S
    PROVE  /\ Range(Append(s, e)) = Range(s) \cup {e}
           /\ IsInjective(s) /\ e \notin Range(s) => IsInjective(Append(s, e))
<1>1. /\ Len(s) \in Nat
      /\ DOMAIN s = 1..Len(s)
      /\ DOMAIN Append(s, e) = 1..(Len(s) + 1)
      /\ Append(s, e)[Len(s) + 1] = e
      /\ \A i \in 1..Len(s) : Append(s, e)[i] = s[i]
  OBVIOUS
<1>2. 1..(Len(s) + 1) = (1..Len(s)) \cup {Len(s) + 1}
  BY <1>1
<1>3. Range(Append(s, e)) = Range(s) \cup {e}
  BY <1>1, <1>2, Zenon DEF Range
<1>4. ASSUME IsInjective(s), e \notin Range(s)
      PROVE  IsInjective(Append(s, e))
  <2>1. \A i \in 1..Len(s) : s[i] # e
    BY <1>1, <1>4 DEF Range
  <2>2. \A i, j \in 1..Len(s) : s[i] = s[j] => i = j
    BY <1>1, <1>4 DEF IsInjective
  <2> SUFFICES ASSUME NEW i \in 1..(Len(s) + 1), NEW j \in 1..(Len(s) + 1),
                      Append(s, e)[i] = Append(s, e)[j]
               PROVE  i = j
    BY <1>1 DEF IsInjective
  <2>3. CASE i = Len(s) + 1 \/ j = Len(s) + 1
    BY <1>1, <1>2, <2>1, <2>3
  <2>4. CASE i \in 1..Len(s) /\ j \in 1..Len(s)
    BY <1>1, <2>2, <2>4
  <2>. QED
    BY <1>2, <2>3, <2>4
<1>. QED
  BY <1>3, <1>4

LEMMA RangeOfPop ==
    ASSUME NEW S, NEW s \in Seq(S), s # <<>>, IsInjective(s)
    PROVE  /\ Range(Tail(s)) = Range(s) \ {Head(s)}
           /\ Head(s) \in Range(s)
           /\ IsInjective(Tail(s))
<1>1. /\ Len(s) \in Nat \ {0}
      /\ DOMAIN s = 1..Len(s)
      /\ DOMAIN Tail(s) = 1..(Len(s) - 1)
      /\ Head(s) = s[1]
      /\ \A i \in 1..(Len(s) - 1) : Tail(s)[i] = s[i + 1]
  OBVIOUS
<1>2. \A i, j \in 1..Len(s) : s[i] = s[j] => i = j
  BY <1>1 DEF IsInjective
<1>3. ASSUME NEW x \in Range(Tail(s)) PROVE x \in Range(s) \ {Head(s)}
  <2>1. PICK i \in 1..(Len(s) - 1) : x = s[i + 1]
    BY <1>1, <1>3 DEF Range
  <2>. QED
    BY <1>1, <1>2, <2>1 DEF Range
<1>4. ASSUME NEW x \in Range(s) \ {Head(s)} PROVE x \in Range(Tail(s))
  <2>1. PICK i \in 1..Len(s) : x = s[i] /\ i # 1
    BY <1>1, <1>4 DEF Range
  <2>2. i - 1 \in 1..(Len(s) - 1) /\ Tail(s)[i - 1] = x
    BY <1>1, <2>1
  <2>. QED
    BY <1>1, <2>2 DEF Range
<1>5. Head(s) \in Range(s)
  BY <1>1 DEF Range
<1>6. IsInjective(Tail(s))
  <2> SUFFICES ASSUME NEW i \in 1..(Len(s) - 1), NEW j \in 1..(Len(s) - 1),
                      Tail(s)[i] = Tail(s)[j]
               PROVE  i = j
    BY <1>1 DEF IsInjective
  <2>. QED
    BY <1>1, <1>2
<1>. QED
  BY <1>3, <1>4, <1>5, <1>6

\* Two sequences without an element in common.
LEMMA RangeOfConcat ==
    ASSUME NEW S, NEW s \in Seq(S), NEW t \in Seq(S)
    PROVE  /\ Range(s \o t) = Range(s) \cup Range(t)
           /\ IsInjective(s) /\ IsInjective(t) /\ Range(s) \cap Range(t) = {}
                 => IsInjective(s \o t)
<1>1. /\ Len(s) \in Nat /\ Len(t) \in Nat
      /\ DOMAIN s = 1..Len(s) /\ DOMAIN t = 1..Len(t)
      /\ DOMAIN (s \o t) = 1..(Len(s) + Len(t))
      /\ \A i \in 1..(Len(s) + Len(t)) :
             (s \o t)[i] = IF i <= Len(s) THEN s[i] ELSE t[i - Len(s)]
  OBVIOUS
<1>2. \A i \in 1..Len(s) : i \in 1..(Len(s) + Len(t)) /\ (s \o t)[i] = s[i]
  BY <1>1
<1>3. \A i \in 1..Len(t) : /\ Len(s) + i \in 1..(Len(s) + Len(t))
                           /\ (s \o t)[Len(s) + i] = t[i]
  BY <1>1
<1>4. \A i \in 1..(Len(s) + Len(t)) :
         \/ i \in 1..Len(s) /\ (s \o t)[i] = s[i]
         \/ i - Len(s) \in 1..Len(t) /\ (s \o t)[i] = t[i - Len(s)]
  BY <1>1
<1>5. Range(s \o t) = Range(s) \cup Range(t)
  <2>1. ASSUME NEW x \in Range(s \o t) PROVE x \in Range(s) \cup Range(t)
    BY <1>1, <1>4, <2>1 DEF Range
  <2>2. ASSUME NEW x \in Range(s) PROVE x \in Range(s \o t)
    <3>1. PICK i \in 1..Len(s) : x = s[i]
      BY <1>1, <2>2 DEF Range
    <3>2. i \in DOMAIN (s \o t) /\ (s \o t)[i] = x
      BY <1>1, <1>2, <3>1
    <3>. QED
      BY <3>2, Zenon DEF Range
  <2>3. ASSUME NEW x \in Range(t) PROVE x \in Range(s \o t)
    <3>1. PICK i \in 1..Len(t) : x = t[i]
      BY <1>1, <2>3 DEF Range
    <3>2. Len(s) + i \in DOMAIN (s \o t) /\ (s \o t)[Len(s) + i] = x
      BY <1>1, <1>3, <3>1
    <3>. QED
      BY <3>2, Zenon DEF Range
  <2>. QED
    BY <2>1, <2>2, <2>3
<1>6. ASSUME IsInjective(s), IsInjective(t), Range(s) \cap Range(t) = {}
      PROVE  IsInjective(s \o t)
  <2> SUFFICES ASSUME NEW i \in 1..(Len(s) + Len(t)), NEW j \in 1..(Len(s) + Len(t)),
                      (s \o t)[i] = (s \o t)[j]
               PROVE  i = j
    BY <1>1 DEF IsInjective
  <2>1. \A k \in 1..Len(s), l \in 1..Len(t) : s[k] # t[l]
    BY <1>1, <1>6 DEF Range
  <2>2. \A k, l \in 1..Len(s) : s[k] = s[l] => k = l
    BY <1>1, <1>6 DEF IsInjective
  <2>3. \A k, l \in 1..Len(t) : t[k] = t[l] => k = l
    BY <1>1, <1>6 DEF IsInjective
  <2>. QED
    BY <1>1, <1>4, <2>1, <2>2, <2>3
<1>. QED
  BY <1>5, <1>6

------------------------------------------------------------------------------
(* Connections.                                                             *)

LEMMA ConservedInit == Init => ConnectionsConserved
<1> SUFFICES ASSUME Init PROVE ConnectionsConserved
  OBVIOUS
<1>1. Held = {} /\ connections_ = <<>> /\ created = 0
  BY DEF Init, Held, Holding
<1>2. Range(connections_) = {} /\ IsInjective(connections_)
  BY <1>1 DEF Range, IsInjective
<1>. QED
  BY <1>1, <1>2 DEF ConnectionsConserved

LEMMA ConservedNext ==
    TypeOK /\ ConnectionsConserved /\ [Next]_vars => ConnectionsConserved'
<1> SUFFICES ASSUME TypeOK, ConnectionsConserved, [Next]_vars
             PROVE  ConnectionsConserved'
  OBVIOUS
<1>0. connections_ \in Seq(Conns) /\ created \in Nat
  BY PoolAssumption DEF TypeOK
<1>1. ASSUME NEW u \in Users, init(u) PROVE ConnectionsConserved'
  <2>1. PICK n \in 0..PoolSize :
            /\ created + n <= MaxConns
            /\ connections_' = connections_ \o NewConns(n)
            /\ created' = created + n
    BY <1>1 DEF init
  <2>2. n \in Nat
    BY PoolAssumption
  <2>3. /\ NewConns(n) \in Seq((created + 1)..(created + n))
        /\ Range(NewConns(n)) = (created + 1)..(created + n)
        /\ IsInjective(NewConns(n))
    BY <1>0, <2>2, NewConnsType
  <2>4. NewConns(n) \in Seq(Conns)
    BY <1>0, <2>1, <2>2, <2>3, PoolAssumption DEF Conns
  <2>5. Held' = Held /\ \A v \in Held : conn'[v] = conn[v]
    BY <1>1 DEF init, userVars, Held
  <2>6. Range(connections_) \subseteq 1..created /\ \A v \in Held : conn[v] \in 1..created
    BY DEF ConnectionsConserved
  <2>7. (1..created) \cap ((created + 1)..(created + n)) = {}
        /\ 1..(created + n) = (1..created) \cup ((created + 1)..(created + n))
    BY <1>0, <2>2
  <2>8. /\ Range(connections_') = Range(connections_) \cup ((created + 1)..(created + n))
        /\ IsInjective(connections_')
    <3>1. Range(connections_) \cap Range(NewConns(n)) = {}
      BY <2>3, <2>6, <2>7
    <3>. QED
      BY <1>0, <2>1, <2>3, <2>4, <3>1, RangeOfConcat DEF ConnectionsConserved
  <2>9. {conn'[v] : v \in Held'} = {conn[v] : v \in Held}
    BY <2>5
  <2>. QED
    BY <2>1, <2>5, <2>6, <2>7, <2>8, <2>9 DEF ConnectionsConserved
<1>2. ASSUME NEW u \in Users, pop(u) PROVE ConnectionsConserved'
  <2> DEFINE c == Head(connections_)
  <2>1. /\ connections_ # <<>> /\ connections_' = Tail(connections_)
        /\ created' = created
        /\ conn' = [conn EXCEPT ![u] = c]
        /\ phase[u] = "locking" /\ phase' = [phase EXCEPT ![u] = "pinging"]
    BY <1>2 DEF pop, Moves
  <2>2. /\ Range(connections_') = Range(connections_) \ {c}
        /\ c \in Range(connections_)
        /\ IsInjective(connections_')
    BY <1>0, <2>1, RangeOfPop DEF ConnectionsConserved
  <2>3. u \notin Held /\ Held' = Held \cup {u}
    BY <2>1 DEF Held, Holding, TypeOK
  <2>4. conn'[u] = c /\ \A v \in Held : conn'[v] = conn[v]
    BY <2>1, <2>3 DEF TypeOK, Held
  <2>5. {conn'[v] : v \in Held'} = {conn[v] : v \in Held} \cup {c}
    BY <2>3, <2>4
  <2>. QED
    BY <2>1, <2>2, <2>3, <2>4, <2>5 DEF ConnectionsConserved
<1>3. ASSUME NEW u \in Users, giveBack(u) PROVE ConnectionsConserved'
  <2> DEFINE c == conn[u]
  <2>1. /\ phase[u] \in {"releasing", "failed"}
        /\ connections_' = Append(connections_, c)
        /\ conn' = [conn EXCEPT ![u] = NoConn]
        /\ created' = created
    BY <1>3 DEF giveBack
  <2>2. PICK woken \in Notified :
            phase' = [v \in Users |-> IF v = u THEN "idle"
                                      ELSE IF v \in woken THEN "locking" ELSE phase[v]]
    BY <1>3 DEF giveBack
  <2>3. \A v \in woken : phase[v] = "waiting"
    BY DEF Notified, Waiting
  <2>4. u \in Held /\ Held' = Held \ {u}
    BY <2>1, <2>2, <2>3 DEF Held, Holding, TypeOK
  <2>5. c \in Conns
    BY <2>1 DEF TypeOK, Holding
  <2>6. /\ c \notin Range(connections_)
        /\ \A v \in Held \ {u} : conn[v] # c /\ conn'[v] = conn[v]
    BY <2>1, <2>4 DEF ConnectionsConserved, TypeOK, Held
  <2>7. /\ Range(connections_') = Range(connections_) \cup {c}
        /\ IsInjective(connections_')
    BY <1>0, <2>1, <2>5, <2>6, RangeOfPush DEF ConnectionsConserved
  <2>8. {conn[v] : v \in Held} = {conn'[v] : v \in Held'} \cup {c}
    BY <2>4, <2>6
  <2>. QED
    BY <2>1, <2>4, <2>6, <2>7, <2>8 DEF ConnectionsConserved
<1>4. ASSUME connections_' = connections_, created' = created, conn' = conn, Held' = Held
      PROVE  ConnectionsConserved'
  BY <1>4 DEF ConnectionsConserved
<1>5. ASSUME NEW u \in Users,
             getConnection(u) \/ spuriousWakeup(u) \/ drop(u) \/ lookEmpty(u)
                \/ pingOrReconnect(u)
      PROVE  Held' = Held
  BY <1>5 DEF getConnection, spuriousWakeup, drop, lookEmpty, pingOrReconnect, Moves,
              Held, Holding, TypeOK
<1>6. CASE \/ CheckerStep \/ sessionLost \/ UNCHANGED vars
           \/ \E u \in Users : \/ getConnection(u) \/ spuriousWakeup(u) \/ drop(u)
                               \/ lookEmpty(u) \/ pingOrReconnect(u)
  <2>1. connections_' = connections_ /\ created' = created /\ conn' = conn /\ Held' = Held
    BY <1>5, <1>6 DEF CheckerStep, copyConnections, wakeUp, checkNext, pingThrows, checkAgain, sessionLost,
           vars, userVars, getConnection, spuriousWakeup, drop, lookEmpty, pingOrReconnect, Held
  <2>. QED
    BY <1>4, <2>1
<1>. QED
  BY <1>1, <1>2, <1>3, <1>6 DEF Next, Locks

\* However ping, reconnect, the deleter and the exceptions interleave, each
\* connection is in the queue once or with one user.
THEOREM ConnectionsAreConserved == Spec => []ConnectionsConserved
BY TypeInit, TypeNext, ConservedInit, ConservedNext, PTL DEF Spec

------------------------------------------------------------------------------
(* Wakeups.                                                                 *)

\* Inductive: a user waits only in a pool that has been initialized, which
\* init leaves alone.
WakeInv ==
    /\ NobodyWaitsInVain
    /\ Waiting # {} => initialized_

LEMMA FiniteLocking == IsFiniteSet(Locking) /\ Cardinality(Locking) \in Nat
BY UsersAssumption, FS_Subset, FS_CardinalityType DEF Locking

LEMMA WakeInit == Init => WakeInv
BY DEF Init, WakeInv, NobodyWaitsInVain, Waiting

LEMMA WakeNext == TypeOK /\ WakeInv /\ [Next]_vars => WakeInv'
<1> SUFFICES ASSUME TypeOK, WakeInv, [Next]_vars PROVE WakeInv'
  OBVIOUS
<1>0. connections_ \in Seq(Conns) /\ Len(connections_) \in Nat
  BY DEF TypeOK
\* users who join Locking do no harm
<1>1. ASSUME connections_' = connections_, initialized_' = initialized_,
             Waiting' \subseteq Waiting, NEW V, IsFiniteSet(V), Locking' = Locking \cup V
      PROVE  WakeInv'
  <2>1. IsFiniteSet(Locking') /\ Cardinality(Locking) <= Cardinality(Locking')
    BY <1>1, FiniteLocking, FS_Union, FS_Subset
  <2>2. Cardinality(Locking) \in Nat /\ Cardinality(Locking') \in Nat
    BY <2>1, FiniteLocking, FS_CardinalityType
  <2>. QED
    BY <1>0, <1>1, <2>1, <2>2 DEF WakeInv, NobodyWaitsInVain
<1>2. IsFiniteSet({}) /\ \A u : IsFiniteSet({u})
  BY FS_EmptySet, FS_Singleton
<1>3. ASSUME NEW u \in Users, init(u) PROVE WakeInv'
  BY <1>3 DEF init, userVars, WakeInv, NobodyWaitsInVain, Waiting
<1>4. ASSUME NEW u \in Users, getConnection(u) \/ spuriousWakeup(u) PROVE WakeInv'
  <2>1. Waiting' \subseteq Waiting /\ Locking' = Locking \cup {u}
    BY <1>4 DEF getConnection, spuriousWakeup, Moves, Waiting, Locking, TypeOK
  <2>. QED
    BY <1>1, <1>2, <1>4, <2>1 DEF getConnection, spuriousWakeup
<1>5. ASSUME NEW u \in Users, lookEmpty(u) PROVE WakeInv'
  <2>1. connections_' = <<>> /\ initialized_' = initialized_
    BY <1>5 DEF lookEmpty
  <2>2. Len(connections_') = 0
    BY <2>1
  <2>3. IsFiniteSet(Locking') /\ Cardinality(Locking') \in Nat
    BY UsersAssumption, FS_Subset, FS_CardinalityType DEF Locking
  <2>4. Waiting' # {} => initialized_
    BY <1>5 DEF lookEmpty, Moves, Waiting, WakeInv, TypeOK
  <2>. QED
    BY <2>1, <2>2, <2>3, <2>4 DEF WakeInv, NobodyWaitsInVain
<1>6. ASSUME NEW u \in Users, pop(u) PROVE WakeInv'
  <2>1. connections_ # <<>> /\ connections_' = Tail(connections_)
        /\ initialized_' = initialized_
    BY <1>6 DEF pop
  <2>2. Len(connections_') = Len(connections_) - 1
    BY <1>0, <2>1
  <2>3. Waiting' = Waiting /\ u \in Locking /\ Locking' = Locking \ {u}
    BY <1>6 DEF pop, Moves, Waiting, Locking, TypeOK
  <2>4. Cardinality(Locking') = Cardinality(Locking) - 1
    BY <2>3, FiniteLocking, FS_RemoveElement
  <2>. QED
    BY <1>0, <2>1, <2>2, <2>3, <2>4, FiniteLocking DEF WakeInv, NobodyWaitsInVain
<1>7. ASSUME NEW u \in Users, giveBack(u) PROVE WakeInv'
  <2>1. /\ phase[u] \in {"releasing", "failed"}
        /\ connections_' = Append(connections_, conn[u])
        /\ initialized_' = initialized_
    BY <1>7 DEF giveBack
  <2>2. PICK woken \in Notified :
            phase' = [v \in Users |-> IF v = u THEN "idle"
                                      ELSE IF v \in woken THEN "locking" ELSE phase[v]]
    BY <1>7 DEF giveBack
  <2>3. CASE Waiting = {}
    <3>1. Waiting' = {}
      BY <2>1, <2>2, <2>3 DEF Notified, Waiting
    <3>. QED
      BY <3>1 DEF WakeInv, NobodyWaitsInVain
  <2>4. CASE Waiting # {}
    <3>1. PICK w \in Waiting : woken = {w}
      BY <2>4 DEF Notified
    <3>2. w \notin Locking /\ Locking' = Locking \cup {w}
      BY <2>1, <2>2, <3>1 DEF Waiting, Locking
    <3>3. Cardinality(Locking') = Cardinality(Locking) + 1
      BY <3>2, FiniteLocking, FS_AddElement
    <3>4. Len(connections_') = Len(connections_) + 1
      BY <1>0, <2>1
    <3>. QED
      BY <1>0, <2>1, <2>4, <3>3, <3>4, FiniteLocking DEF WakeInv, NobodyWaitsInVain
  <2>. QED
    BY <2>3, <2>4
<1>8. ASSUME NEW u \in Users, pingOrReconnect(u) \/ drop(u) PROVE WakeInv'
  <2>1. Waiting' = Waiting /\ Locking' = Locking \cup {}
    BY <1>8 DEF pingOrReconnect, drop, Moves, Waiting, Locking, TypeOK
  <2>. QED
    BY <1>1, <1>2, <1>8, <2>1 DEF pingOrReconnect, drop
<1>9. CASE CheckerStep \/ sessionLost \/ UNCHANGED vars
  <2>1. connections_' = connections_ /\ initialized_' = initialized_ /\ phase' = phase
    BY <1>9 DEF CheckerStep, copyConnections, wakeUp, checkNext, pingThrows, checkAgain, sessionLost,
                vars, userVars
  <2>2. Waiting' = Waiting /\ Locking' = Locking \cup {}
    BY <2>1 DEF Waiting, Locking
  <2>. QED
    BY <1>1, <1>2, <2>1, <2>2
<1>. QED
  BY <1>3, <1>4, <1>5, <1>6, <1>7, <1>8, <1>9 DEF Next, Locks

\* One notify_one per connection is enough: while somebody waits, the queue is
\* never longer than the users who are on their way to it.
THEOREM NobodyIsForgotten == Spec => []NobodyWaitsInVain
<1>1. WakeInv => NobodyWaitsInVain
  BY DEF WakeInv
<1>. QED
  BY <1>1, TypeInit, TypeNext, WakeInit, WakeNext, PTL DEF Spec

==============================================================================
