--------------------------- MODULE TimerQueueProofs ---------------------------
(***************************************************************************)
(* Proofs about TimerQueue, for any timers, delays and intervals.          *)
(***************************************************************************)
EXTENDS TimerQueue, SequenceTheorems, FiniteSetTheorems, WellFoundedInduction, TLAPS

Times == {l \in Int : l >= -Late}

\* Times are bounded below, so that a set of them has a least one.
LEMMA LeastTime ==
    ASSUME NEW S \in SUBSET Times, S # {}
    PROVE  Min(S) \in S /\ \A l \in S : Min(S) <= l
<1>1. Late \in Nat
  BY TimerAssumption
<1>. DEFINE N == {l + Late : l \in S}
<1>2. N \subseteq Nat /\ N # {}
  <2>1. \A l \in S : l + Late \in Nat
    BY <1>1 DEF Times
  <2>. QED
    BY <2>1
<1>. DEFINE R == OpToRel(<, Nat)
<1>3. IsWellFoundedOn(R, Nat)
  BY NatLessThanWellFounded
<1>4. PICK n \in N : \A m \in N : ~(<<m, n>> \in R)
  <2>. HIDE DEF N, R
  <2>. QED
    BY <1>2, <1>3, WFMin
<1>5. ASSUME NEW m \in N PROVE n <= m
  <2>1. ~(<<m, n>> \in R)
    BY <1>4
  <2>2. m \in Nat /\ n \in Nat
    BY <1>2
  <2>3. ~(m < n)
    BY <2>1, <2>2 DEF OpToRel
  <2>. QED
    BY <2>2, <2>3
<1>6. PICK k \in S : n = k + Late
  OBVIOUS
<1>7. ASSUME NEW l \in S PROVE k <= l
  <2>1. l + Late \in N
    OBVIOUS
  <2>2. k + Late <= l + Late
    BY <1>5, <1>6, <2>1
  <2>3. k \in Int /\ l \in Int
    BY DEF Times
  <2>. QED
    BY <1>1, <2>2, <2>3
<1>. QED
  BY <1>7 DEF Min

\* The vector that getExpired returns.
LEMMA ExpiredVector ==
    ASSUME NEW S \in SUBSET Timers, NEW s \in SetToSeqs(S)
    PROVE  s \in Seq(S) /\ (S # {} => s # <<>>) /\ (S = {} => s = <<>>)
<1>1. IsFiniteSet(S)
  BY TimerAssumption, FS_Subset
<1>2. Cardinality(S) \in Nat /\ (Cardinality(S) = 0 <=> S = {})
  BY <1>1, FS_CardinalityType, FS_EmptySet
<1>3. s \in [1..Cardinality(S) -> S]
  BY DEF SetToSeqs
<1>4. s \in Seq(S) /\ Len(s) = Cardinality(S)
  BY <1>2, <1>3, SMTT(30)
<1>. QED
  BY <1>2, <1>4

------------------------------------------------------------------------------
(* The invariant.                                                           *)

\* Whatever the queue holds or will hold was added once.
Known ==
    /\ timers_ \subseteq added
    /\ expired \in Seq(added) /\ pending \in Seq(added) /\ batch \in Seq(added)

\* The timerfd reports in time for t.
ArmedFor(t) == readable \/ (fd # None /\ (fd <= MinDelay \/ fd <= left[t]))

\* The timerfd is armed for each timer, and it does not fire before one of them
\* is due: otherwise handleRead would find none expired and not arm it again.
Armed ==
    /\ \A t \in timers_ : ArmedFor(t)
    /\ timers_ # {} /\ readable => \E t \in timers_ : left[t] <= 0
    /\ timers_ # {} /\ fd # None => \E t \in timers_ : left[t] <= fd

\* From the read of the timerfd to the first timer that reset has dealt with
Unsettled == expired # <<>> /\ (pc = "run" \/ (pc = "reset" /\ next = 1))

TimersInv ==
    /\ TypeOK
    /\ Known
    /\ next # 0
    /\ ~Unsettled => Armed

LEMMA Constants ==
    /\ Late \in Nat /\ Delays \subseteq Times
    /\ \A t \in Timers : interval_[t] \in Times /\ interval_[t] \in Nat
BY TimerAssumption, SMT DEF Times

LEMMA TimersInit == Init => TimersInv
<1>. SUFFICES ASSUME Init PROVE TimersInv
  OBVIOUS
<1>1. left \in [Timers -> Times]
  BY Constants DEF Init, Times
<1>2. <<>> \in Seq(Timers) /\ <<>> \in Seq(added)
  OBVIOUS
<1>3. TypeOK
  BY <1>1, <1>2 DEF Init, TypeOK, Times, None
<1>. QED
  BY <1>2, <1>3 DEF Init, TimersInv, Known, Unsettled, Armed, ArmedFor, None

LEMMA RearmedType ==
    ASSUME NEW l \in Times, resetTimerfd(l)
    PROVE  fd' \in Nat \cup {None} /\ readable' \in BOOLEAN
<1>1. l \in Int
  BY DEF Times
<1>2. fd' \in Nat
  BY <1>1 DEF resetTimerfd, MinDelay
<1>. QED
  BY <1>2 DEF resetTimerfd

LEMMA AddedType ==
    ASSUME TypeOK, NEW t, NEW l \in Times, addTimerInLoop(t, l)
    PROVE  fd' \in Nat \cup {None} /\ readable' \in BOOLEAN
<1>1. CASE resetTimerfd(l)
  BY <1>1, RearmedType
<1>2. CASE UNCHANGED <<fd, readable>>
  BY <1>2 DEF TypeOK
<1>. QED
  BY <1>1, <1>2 DEF addTimerInLoop

\* Arming the timerfd anew for the least time of a set of timers.
LEMMA Rearmed ==
    ASSUME TypeOK', timers_' # {}, NEW l \in Times, resetTimerfd(l),
           \A u \in timers_' : l <= left'[u],
           \E u \in timers_' : left'[u] = l
    PROVE  Armed'
<1>1. \A u \in timers_' : left'[u] \in Int
  BY DEF TypeOK
<1>2. l \in Int
  BY DEF Times
<1>. QED
  BY <1>1, <1>2 DEF Armed, ArmedFor, resetTimerfd, None, MinDelay

\* insert and, if the new timer is the earliest, resetTimerfd
LEMMA AddStep ==
    ASSUME TypeOK, TypeOK', NEW t \in Timers,
           addTimerInLoop(t, left'[t]),
           \A u \in timers_ : left'[u] = left[u]
    PROVE  Armed => Armed'
<1>. SUFFICES ASSUME Armed PROVE Armed'
  OBVIOUS
<1>1. /\ timers_' = timers_ \cup {t} /\ timers_ \subseteq Timers
      /\ \A u \in Timers : left[u] \in Int /\ left'[u] \in Times /\ left'[u] \in Int
  BY DEF addTimerInLoop, TypeOK, Times
<1>2. fd \in Nat \cup {None} /\ fd' \in Nat \cup {None}
  BY DEF TypeOK
<1>3. CASE resetTimerfd(left'[t]) /\ \A u \in timers_ : left'[t] <= left[u]
  BY <1>1, <1>3, Rearmed
<1>4. CASE ~EarliestChanged(left'[t]) /\ UNCHANGED <<fd, readable>>
  <2>1. PICK u \in timers_ : left[u] <= left'[t]
    BY <1>1, <1>4 DEF EarliestChanged
  <2>2. ArmedFor(t)'
    BY <1>1, <1>2, <1>4, <2>1 DEF Armed, ArmedFor, None, MinDelay
  <2>3. \A v \in timers_ : ArmedFor(v)'
    BY <1>1, <1>4 DEF Armed, ArmedFor
  <2>4. readable' => \E v \in timers_' : left'[v] <= 0
    BY <1>1, <1>4, <2>1 DEF Armed
  <2>5. fd' # None => \E v \in timers_' : left'[v] <= fd'
    BY <1>1, <1>4, <2>1 DEF Armed
  <2>. QED
    BY <1>1, <2>2, <2>3, <2>4, <2>5 DEF Armed
<1>5. CASE EarliestChanged(left'[t]) /\ resetTimerfd(left'[t])
  BY <1>1, <1>3, <1>5 DEF EarliestChanged
<1>6. CASE BothLate(left'[t]) /\ resetTimerfd(left'[t])
  BY <1>1, <1>3, <1>6 DEF BothLate, TypeOK
<1>. QED
  BY <1>4, <1>5, <1>6 DEF addTimerInLoop

------------------------------------------------------------------------------
(* One lemma for each step that the timers and the timerfd take part in.    *)

\* Time passes for the timers and for the timerfd alike.
LEMMA TickStep == TimersInv /\ tick => TimersInv'
<1>. SUFFICES ASSUME TimersInv, tick PROVE TimersInv'
  OBVIOUS
<1>1. TypeOK'
  BY Constants DEF TimersInv, tick, TypeOK, Times, None
<1>2. ASSUME Armed PROVE Armed'
  <2>1. /\ timers_' = timers_ /\ timers_ \subseteq Timers /\ timers_ \subseteq InPlay
        /\ readable' = readable
    BY DEF TimersInv, TypeOK, tick, InPlay
  <2>2. \A u \in timers_ : /\ left[u] \in Int /\ left[u] >= -Late
                           /\ left'[u] = IF left[u] > -Late THEN left[u] - 1 ELSE left[u]
    BY <2>1 DEF TimersInv, TypeOK, tick, Times
  <2>3. /\ fd \in Nat \cup {None} /\ fd # 0
        /\ fd' = IF fd = None THEN None ELSE fd - 1
    BY DEF TimersInv, TypeOK, tick
  <2>4. \A u \in timers_ : ArmedFor(u) => ArmedFor(u)'
    BY <2>1, <2>2, <2>3, Constants DEF ArmedFor, None, MinDelay
  <2>5. \A u \in timers_ : left[u] <= 0 => left'[u] <= 0
    BY <2>2, Constants
  <2>6. \A u \in timers_ : fd' # None /\ left[u] <= fd => left'[u] <= fd'
    BY <2>2, <2>3, Constants DEF None
  <2>7. fd' # None => fd # None
    BY <2>3
  <2>. QED
    BY <1>2, <2>1, <2>4, <2>5, <2>6, <2>7 DEF Armed
<1>. QED
  BY <1>1, <1>2 DEF TimersInv, Known, Unsettled, tick

LEMMA FireStep == TimersInv /\ fire => TimersInv'
BY SMT DEF TimersInv, Known, TypeOK, Unsettled, Armed, ArmedFor, fire, None

\* An expiry that is read but finds no timer expired leaves the timerfd armed.
LEMMA HandleReadStep == TimersInv /\ handleRead => TimersInv'
<1>. SUFFICES ASSUME TimersInv, handleRead PROVE TimersInv'
  OBVIOUS
<1>. DEFINE S == {t \in timers_ : IsExpired(t)}
<1>1. S \subseteq Timers /\ S \subseteq added /\ timers_ \subseteq Timers
  BY DEF TimersInv, TypeOK, Known
<1>2. /\ expired' \in SetToSeqs(S)
      /\ timers_' = timers_ \ S
      /\ readable' = FALSE /\ next' = 1 /\ pc' = "run"
      /\ UNCHANGED <<left, fd, pending, batch, added>>
  BY DEF handleRead
<1>3. expired' \in Seq(S) /\ (S # {} => expired' # <<>>) /\ (S = {} => expired' = <<>>)
  BY <1>1, <1>2, ExpiredVector
<1>4. expired' \in Seq(Timers) /\ expired' \in Seq(added)
  BY <1>1, <1>3
<1>5. TypeOK' /\ Known'
  BY <1>1, <1>2, <1>4 DEF TimersInv, TypeOK, Known
<1>6. ASSUME S = {} PROVE Armed'
  <2>1. pc = "timer" /\ Armed
    BY DEF TimersInv, Unsettled, handleRead
  <2>2. \A t \in timers_ : ~(left[t] <= 0)
    BY <1>6 DEF IsExpired
  <2>3. timers_ = {} \/ ~readable
    BY <2>1, <2>2 DEF Armed
  <2>. QED
    BY <1>2, <1>6, <2>1, <2>3 DEF Armed, ArmedFor
<1>. QED
  BY <1>2, <1>3, <1>5, <1>6 DEF TimersInv, Unsettled

\* After the first of the expired timers, as after each, the timerfd is armed
\* for what is in the set.
LEMMA ResetStep == TimersInv /\ reset => TimersInv'
<1>. SUFFICES ASSUME TimersInv, reset PROVE TimersInv'
  OBVIOUS
<1>. DEFINE t == expired[next]
<1>1. next \in Nat \ {0} /\ next <= Len(expired)
  BY DEF TimersInv, TypeOK, reset
<1>2. t \in Timers /\ t \in added
  BY <1>1 DEF TimersInv, TypeOK, Known
<1>3. left' \in [Timers -> Times] /\ timers_' \subseteq Timers /\ timers_' \subseteq added'
  BY <1>2, Constants DEF reset, restart, TimersInv, TypeOK, Known, Times
<1>. DEFINE T == {left'[u] : u \in timers_'}
<1>4. T \subseteq Times /\ (timers_' # {} => T # {})
  BY <1>3
<1>5. ASSUME timers_' # {}
      PROVE  /\ Min(T) \in Times /\ resetTimerfd(Min(T))
             /\ \A u \in timers_' : Min(T) <= left'[u]
             /\ \E u \in timers_' : left'[u] = Min(T)
  <2>1. Min(T) \in T /\ \A l \in T : Min(T) <= l
    BY <1>4, <1>5, LeastTime
  <2>2. resetTimerfd(Min(T))
    BY <1>5 DEF reset
  <2>. QED
    BY <1>4, <2>1, <2>2
<1>6. fd' \in Nat \cup {None} /\ readable' \in BOOLEAN
  <2>1. CASE timers_' = {}
    BY <2>1 DEF reset, TimersInv, TypeOK
  <2>2. CASE timers_' # {}
    <3>. HIDE DEF T
    <3>. QED
      BY <1>5, <2>2, RearmedType
  <2>. QED
    BY <2>1, <2>2
<1>7. TypeOK' /\ Known'
  <2>1. next' \in Nat /\ UNCHANGED <<pc, expired, pending, batch, added>>
    BY <1>1 DEF reset
  <2>2. TypeOK'
    BY <1>3, <1>6, <2>1 DEF TimersInv, TypeOK, Times
  <2>. QED
    BY <1>3, <2>1, <2>2 DEF TimersInv, Known
<1>8. Armed'
  <2>1. CASE timers_' = {}
    BY <2>1 DEF Armed
  <2>2. CASE timers_' # {}
    <3>. HIDE DEF T
    <3>. QED
      BY <1>5, <1>7, <2>2, Rearmed
  <2>. QED
    BY <2>1, <2>2
<1>9. next' # 0
  BY <1>1 DEF reset
<1>. QED
  BY <1>7, <1>8, <1>9 DEF TimersInv

LEMMA AddTimerStep ==
    ASSUME TimersInv, NEW t \in Timers, NEW when \in Delays, addTimer(t, when)
    PROVE  TimersInv'
<1>1. when \in Times /\ left' = [left EXCEPT ![t] = when] /\ t \notin added
  BY Constants DEF addTimer, NewTimer
<1>2. left' \in [Timers -> Times] /\ left'[t] = when
  BY <1>1 DEF TimersInv, TypeOK, Times
<1>3. addTimerInLoop(t, left'[t])
  BY <1>2 DEF addTimer
<1>4. \A u \in timers_ : left'[u] = left[u]
  BY <1>1 DEF TimersInv, TypeOK, Known
<1>5. TypeOK'
  <2>1. fd' \in Nat \cup {None} /\ readable' \in BOOLEAN
    BY <1>1, <1>2, <1>3, AddedType DEF TimersInv
  <2>2. timers_' \subseteq Timers /\ added' \subseteq Timers
    BY <1>3 DEF addTimer, NewTimer, addTimerInLoop, TimersInv, TypeOK
  <2>. QED
    BY <1>2, <2>1, <2>2 DEF addTimer, TimersInv, TypeOK, Times
<1>6. Known'
  <2>1. added \subseteq added' /\ timers_' = timers_ \cup {t} /\ t \in added'
    BY DEF addTimer, NewTimer, addTimerInLoop
  <2>2. Seq(added) \subseteq Seq(added')
    BY <2>1
  <2>. QED
    BY <2>1, <2>2 DEF TimersInv, Known, addTimer
<1>7. Armed => Armed'
  BY <1>3, <1>4, <1>5, AddStep DEF TimersInv
<1>. QED
  BY <1>5, <1>6, <1>7 DEF TimersInv, Unsettled, addTimer

LEMMA AddElsewhereStep ==
    ASSUME TimersInv, NEW t \in Timers, NEW when \in Delays, addTimerElsewhere(t, when)
    PROVE  TimersInv'
<1>1. when \in Times /\ left' = [left EXCEPT ![t] = when] /\ t \notin added
      /\ added' = added \cup {t} /\ pending' = Append(pending, t)
      /\ UNCHANGED <<timers_, fd, readable, pc, expired, next, batch>>
  BY Constants DEF addTimerElsewhere, NewTimer
<1>2. \A u \in timers_ : left'[u] = left[u]
  BY <1>1 DEF TimersInv, TypeOK, Known
<1>3. TypeOK'
  BY <1>1 DEF TimersInv, TypeOK, Times
<1>4. Known'
  <2>1. added \subseteq added' /\ t \in added'
    BY <1>1
  <2>2. Seq(added) \subseteq Seq(added')
    BY <2>1
  <2>3. pending' \in Seq(added')
    BY <1>1, <2>1, <2>2 DEF TimersInv, Known
  <2>. QED
    BY <1>1, <2>1, <2>2, <2>3 DEF TimersInv, Known
<1>5. Armed => Armed'
  BY <1>1, <1>2 DEF Armed, ArmedFor
<1>. QED
  BY <1>1, <1>3, <1>4, <1>5 DEF TimersInv, Unsettled

LEMMA RunFunctorStep == TimersInv /\ runFunctor => TimersInv'
<1>. SUFFICES ASSUME TimersInv, runFunctor PROVE TimersInv'
  OBVIOUS
<1>. DEFINE t == Head(batch)
<1>1. /\ batch # <<>> /\ batch' = Tail(batch)
      /\ UNCHANGED <<left, pc, expired, next, pending, added>>
      /\ addTimerInLoop(t, left'[t])
  BY DEF runFunctor
<1>2. t \in Timers /\ t \in added /\ batch' \in Seq(Timers) /\ batch' \in Seq(added)
  BY <1>1 DEF TimersInv, TypeOK, Known
<1>3. left'[t] \in Times
  BY <1>1, <1>2 DEF TimersInv, TypeOK, Times
<1>4. TypeOK'
  <2>1. fd' \in Nat \cup {None} /\ readable' \in BOOLEAN
    BY <1>1, <1>3, AddedType DEF TimersInv
  <2>2. timers_' \subseteq Timers
    BY <1>1, <1>2 DEF addTimerInLoop, TimersInv, TypeOK
  <2>. QED
    BY <1>1, <1>2, <2>1, <2>2 DEF TimersInv, TypeOK
<1>5. Known'
  BY <1>1, <1>2 DEF addTimerInLoop, TimersInv, Known
<1>6. Armed => Armed'
  BY <1>1, <1>2, <1>4, AddStep DEF TimersInv
<1>. QED
  BY <1>1, <1>4, <1>5, <1>6 DEF TimersInv, Unsettled

\* The loop between them: callbacks, and the functors it takes over.
LEMMA LoopMoves ==
    ASSUME TimersInv, poll \/ run \/ startReset \/ endReset \/ swap \/ endFunctors
    PROVE  TimersInv'
<1>1. UNCHANGED <<left, timers_, fd, readable, added>>
  BY DEF poll, run, startReset, endReset, swap, endFunctors
<1>2. /\ expired' \in Seq(Timers) /\ expired' \in Seq(added)
      /\ pending' \in Seq(Timers) /\ pending' \in Seq(added)
      /\ batch' \in Seq(Timers) /\ batch' \in Seq(added)
  <2>1. expired' \in {expired, <<>>} /\ pending' \in {pending, <<>>} /\ batch' \in {batch, pending}
    BY DEF poll, run, startReset, endReset, swap, endFunctors
  <2>2. /\ expired \in Seq(Timers) /\ pending \in Seq(Timers) /\ batch \in Seq(Timers)
        /\ expired \in Seq(added) /\ pending \in Seq(added) /\ batch \in Seq(added)
    BY DEF TimersInv, TypeOK, Known
  <2>3. <<>> \in Seq(Timers) /\ <<>> \in Seq(added)
    OBVIOUS
  <2>. QED
    BY <2>1, <2>2, <2>3
<1>3. next' \in Nat \ {0}
  BY DEF poll, run, startReset, endReset, swap, endFunctors, TimersInv, TypeOK
<1>4. pc' \in {"poll", "timer", "events", "run", "reset", "functors"}
  BY DEF poll, run, startReset, endReset, swap, endFunctors, TimersInv, TypeOK
<1>5. TypeOK' /\ Known'
  BY <1>1, <1>2, <1>3, <1>4 DEF TimersInv, TypeOK, Known
<1>6. ~Unsettled' => ~Unsettled
  <2>1. CASE endReset
    BY <2>1 DEF endReset, Unsettled, TimersInv, TypeOK
  <2>2. CASE poll \/ run \/ startReset \/ swap \/ endFunctors
    BY <2>2 DEF poll, run, startReset, swap, endFunctors, Unsettled
  <2>. QED
    BY <2>1, <2>2
<1>7. Armed => Armed'
  BY <1>1 DEF Armed, ArmedFor
<1>. QED
  BY <1>3, <1>5, <1>6, <1>7 DEF TimersInv

LEMMA TimersNext == TimersInv /\ [Next]_vars => TimersInv'
<1>. SUFFICES ASSUME TimersInv, [Next]_vars PROVE TimersInv'
  OBVIOUS
<1>1. CASE LoopStep
  BY <1>1, HandleReadStep, ResetStep, RunFunctorStep, LoopMoves DEF LoopStep
<1>2. CASE UNCHANGED vars
  BY <1>2 DEF vars, TimersInv, TypeOK, Known, Unsettled, Armed, ArmedFor
<1>. QED
  BY <1>1, <1>2, FireStep, TickStep, AddTimerStep, AddElsewhereStep DEF Next

LEMMA Invariant == Spec => []TimersInv
BY TimersInit, TimersNext, PTL DEF Spec

------------------------------------------------------------------------------

\* The types of the queue, its timerfd and its loop (TimerQueue.cc).
THEOREM TypeCorrect == Spec => []TypeOK
<1>1. TimersInv => TypeOK
  BY DEF TimersInv
<1>. QED
  BY <1>1, Invariant, PTL

\* No timer waits for one that expires later, whatever is added, expires and is
\* restarted in which order (TimerQueue.cc:54, :110, :135).
THEOREM TimersAreArmedInTime == Spec => []ArmedInTime
<1>1. ASSUME TimersInv PROVE ArmedInTime
  <2>. SUFFICES ASSUME pc \notin {"timer", "run", "reset"}, timers_ # {}
                PROVE  readable \/ (fd # None /\ (fd <= MinDelay \/ fd <= Earliest))
    BY DEF ArmedInTime
  <2>1. \A t \in timers_ : ArmedFor(t)
    BY <1>1 DEF TimersInv, Unsettled, Armed
  <2>. DEFINE T == {left[t] : t \in timers_}
  <2>2. T \in SUBSET Times /\ T # {}
    BY <1>1 DEF TimersInv, TypeOK, Times
  <2>3. Min(T) \in T
    BY <2>2, LeastTime
  <2>4. PICK t \in timers_ : left[t] = Earliest
    BY <2>3 DEF Earliest
  <2>. QED
    BY <2>1, <2>4 DEF ArmedFor
<1>. QED
  BY <1>1, Invariant, PTL

\* When the loop is about to read the timerfd, a timer has expired or there is none.
Expires == pc = "timer" /\ readable /\ timers_ # {} => \E t \in timers_ : IsExpired(t)

\* The timerfd never fires for nothing, so that handleRead, which arms it again
\* only for timers it found expired, never leaves it unarmed (TimerQueue.cc:66-88).
THEOREM ExpiriesAreReal == Spec => []Expires
<1>1. TimersInv => Expires
  BY DEF TimersInv, Unsettled, Armed, Expires, IsExpired
<1>. QED
  BY <1>1, Invariant, PTL
==============================================================================
