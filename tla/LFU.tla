--------------------------------- MODULE LFU ---------------------------------
(***************************************************************************)
(* The cache KLfuCache (webserver/include/LFU.h): at most capacity_ keys,  *)
(* each in the list of its access frequency; a full cache evicts the first *)
(* key of the list of minFreq_; when the average frequency gets too high   *)
(* all frequencies decay.  put and get hold the mutex from end to end and  *)
(* are steps.  purge takes no mutex: LFU.h:139 has its caller see to it    *)
(* that no other thread is in the cache, so that it is a step by that      *)
(* contract.  Values are left out.                                         *)
(***************************************************************************)
EXTENDS Naturals, Sequences, FiniteSets, FiniteSetsExt, SequencesExt

CONSTANTS
    Keys,
    capacity_, maxAverageNum_,
    MaxTotal           \* bound of the model: no access beyond this total

INT8_MAX == 127

\* The constructor takes any limit of the average (LFU.h:93).  The code needs one
\* from 2 to 250: updateMinFreq takes a least frequency of INT8_MAX or more for
\* "no key", and below 2 a decay would take nothing off the frequencies, so that
\* they reach it.
ASSUME CapacityAssumption ==
    /\ capacity_ \in Nat /\ MaxTotal \in Nat
    /\ maxAverageNum_ \in Nat /\ maxAverageNum_ >= 2
    /\ maxAverageNum_ + 1 - maxAverageNum_ \div 2 < INT8_MAX

VARIABLES
    nodeMap_,          \* the frequency of each key in the cache
    freqToFreqList_,   \* the list of each frequency that ever occurred
    minFreq_, curTotalNum_, curAverageNum_,
    older,             \* the pairs of keys whose last accesses were in this order
    decayed            \* was there a decay yet?

cacheVars == <<nodeMap_, freqToFreqList_, minFreq_, curTotalNum_, curAverageNum_,
               older, decayed>>

Cached == DOMAIN nodeMap_

CacheTypeOK ==
    /\ Cached \subseteq Keys /\ Cardinality(Cached) <= capacity_
    /\ nodeMap_ \in [Cached -> Nat \ {0}]
    /\ DOMAIN freqToFreqList_ \subseteq Nat \ {0}
    /\ freqToFreqList_ \in [DOMAIN freqToFreqList_ -> Seq(Keys)]
    /\ minFreq_ \in Nat \ {0}
    /\ curTotalNum_ \in 0..MaxTotal /\ curAverageNum_ \in Nat
    /\ older \subseteq Cached \X Cached
    /\ decayed \in BOOLEAN

CacheInit ==
    /\ nodeMap_ = <<>>
    /\ freqToFreqList_ = <<>>
    /\ minFreq_ = INT8_MAX
    /\ curTotalNum_ = 0 /\ curAverageNum_ = 0
    /\ older = {}
    /\ decayed = FALSE

------------------------------------------------------------------------------
(* The lists.                                                               *)

\* FreqList: a new node goes to the tail; one that is not linked is let be
addNode(list, k) == Append(list, k)
removeNode(list, k) == RemoveFirst(list, k)

removeFromFreqList(lists, k, f) ==
    IF f \in DOMAIN lists THEN [lists EXCEPT ![f] = removeNode(@, k)] ELSE lists

ListOf(lists, f) == IF f \in DOMAIN lists THEN lists[f] ELSE <<>>

\* mutant: at the head of the list
addToFreqList_Head(lists, k, f) ==
    [g \in DOMAIN lists \cup {f} |->
        IF g = f THEN <<k>> \o ListOf(lists, f) ELSE lists[g]]

addToFreqList(lists, k, f) ==
    [g \in DOMAIN lists \cup {f} |->
        IF g = f THEN addNode(ListOf(lists, f), k) ELSE lists[g]]

updateMinFreq(lists) ==
    LET least == Min({INT8_MAX} \cup {f \in DOMAIN lists : lists[f] # <<>>})
    IN  IF least = INT8_MAX THEN 1 ELSE least

Decayed(f) == IF f <= maxAverageNum_ \div 2 THEN 1 ELSE f - maxAverageNum_ \div 2

\* the counts of an access or an eviction
Average(total, n) == IF n = 0 THEN 0 ELSE total \div n

DecayedNodes(nodes) == [k \in DOMAIN nodes |-> Decayed(nodes[k])]

\* mutant: the frequency decays before the node leaves its list
Decay_First(lists, k, f) ==
    addToFreqList(removeFromFreqList(lists, k, Decayed(f)), k, Decayed(f))

\* a turn of the loop of handleOverMaxAverageNum
Decay(lists, k, f) == addToFreqList(removeFromFreqList(lists, k, f), k, Decayed(f))

\* The loop takes the keys in the order the hash map has them in, which is any.
DecayLoop(nodes, lists, order) ==
    LET after[n \in 0..Len(order)] ==
            IF n = 0 THEN lists ELSE Decay(after[n - 1], order[n], nodes[order[n]])
    IN  after[Len(order)]
DecayedLists(nodes, lists) ==
    {DecayLoop(nodes, lists, order) : order \in SetToSeqs(DOMAIN nodes)}

addFreqNum(total, nodes, lists, min) ==
    LET average == Average(total + 1, Cardinality(DOMAIN nodes)) IN
    /\ curTotalNum_' = total + 1
    /\ curAverageNum_' = average
    /\ IF average <= maxAverageNum_
       THEN /\ nodeMap_' = nodes
            /\ freqToFreqList_' = lists
            /\ minFreq_' = min
            /\ UNCHANGED decayed
       ELSE /\ nodeMap_' = DecayedNodes(nodes)
            /\ freqToFreqList_' \in DecayedLists(nodes, lists)
            /\ minFreq_' = updateMinFreq(freqToFreqList_')
            /\ decayed' = TRUE

------------------------------------------------------------------------------
(* The operations.                                                          *)

\* k is the last of the keys in the cache to be accessed
Accessed(k) ==
    LET others == Cached' \ {k}
    IN  older' = (older \cap (others \X others)) \cup (others \X {k})

\* mutant: minFreq_ is let be
MinAfter_Same(f, lists) == minFreq_

\* the least frequency after the only key that had it was accessed
MinAfter(f, lists) == IF f = minFreq_ /\ lists[f] = <<>> THEN minFreq_ + 1 ELSE minFreq_

\* get of a key in the cache, and put of one
getInternal(k) ==
    LET f == nodeMap_[k]
        lists == addToFreqList(removeFromFreqList(freqToFreqList_, k, f), k, f + 1)
    IN
    /\ addFreqNum(curTotalNum_, [nodeMap_ EXCEPT ![k] = f + 1], lists, MinAfter(f, lists))
    /\ Accessed(k)

\* mutant: one key too many
Full_OffByOne == Cardinality(Cached) > capacity_

Full == Cardinality(Cached) = capacity_
Victim == Head(freqToFreqList_[minFreq_])
TotalWithout(k) == curTotalNum_ - nodeMap_[k]

\* kickOut can find a key in the list of minFreq_
CanKickOut == minFreq_ \in DOMAIN freqToFreqList_ /\ freqToFreqList_[minFreq_] # <<>>

\* the new key has frequency 1, and so has minFreq_ whatever addFreqNum did
insert(k, nodes, lists, total) ==
    /\ addFreqNum(total, [j \in DOMAIN nodes \cup {k} |-> IF j = k THEN 1 ELSE nodes[j]],
                  addToFreqList(lists, k, 1), 1)
    /\ Accessed(k)

putInternal(k) ==
    IF ~Full
    THEN insert(k, nodeMap_, freqToFreqList_, curTotalNum_)
    ELSE /\ CanKickOut
         /\ insert(k, Restrict(nodeMap_, Cached \ {Victim}),
                   removeFromFreqList(freqToFreqList_, Victim, nodeMap_[Victim]),
                   TotalWithout(Victim))

InBound == curTotalNum_ < MaxTotal

get(k) ==
    /\ InBound
    /\ k \in Cached
    /\ getInternal(k)

put(k) ==
    /\ InBound
    /\ capacity_ # 0
    /\ IF k \in Cached THEN getInternal(k) ELSE putInternal(k)

\* the counts and minFreq_ are left as they are
purge ==
    /\ nodeMap_' = <<>>
    /\ freqToFreqList_' = <<>>
    /\ older' = {}
    /\ UNCHANGED <<minFreq_, curTotalNum_, curAverageNum_, decayed>>

CacheNext ==
    \/ \E k \in Keys : get(k) \/ put(k)
    \/ purge

CacheSpec == CacheInit /\ [][CacheNext]_cacheVars

------------------------------------------------------------------------------
(* Properties.                                                              *)

\* A key of the cache is in the list of its frequency and in no other, once,
\* and the lists hold no other key (LFU.h:179-193, :233-243, :273-290).
ListsMatchNodes ==
    /\ \A k \in Cached : nodeMap_[k] \in DOMAIN freqToFreqList_
    /\ \A f \in DOMAIN freqToFreqList_ :
          /\ ToSet(freqToFreqList_[f]) = {k \in Cached : nodeMap_[k] = f}
          /\ IsInjective(freqToFreqList_[f])

\* minFreq_ leads kickOut to a key whenever the cache is full: it never takes the
\* sentinel of an empty list for one, nor looks into a list that is not there
\* (LFU.h:198-199, :212).
KickOutFindsKey == capacity_ # 0 /\ Full => CanKickOut

\* The key a put evicts is one accessed least often, and of those, as long as
\* no decay has mixed the lists, the one whose last access is the oldest
\* (LFU.h:76, :211).
Least == {k \in Cached : \A j \in Cached : nodeMap_[k] <= nodeMap_[j]}
EvictsLeast ==
    [][\A v \in Cached \ Cached' :
          Cached' # {} =>
              /\ v \in Least
              /\ ~decayed => \A j \in Least \ {v} : <<v, j>> \in older]_cacheVars
==============================================================================
