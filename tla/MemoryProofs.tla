----------------------------- MODULE MemoryProofs -----------------------------
(***************************************************************************)
(* Proofs about the two parts that keep memory: MemoryPool, for any        *)
(* threads, sizes of objects and blocks and any places of the blocks, and  *)
(* the cache of LFU, for any keys, capacity and limit of the average.      *)
(* Slots fit and do not overlap, and none is in use twice although the     *)
(* free list is read and cleared without its mutex; the lists of the cache *)
(* hold its keys, and a full cache finds a key to evict, the right one.    *)
(***************************************************************************)
EXTENDS MemoryPool, LFU, FiniteSetTheorems, WellFoundedInduction, TLAPS

------------------------------------------------------------------------------
(* Arithmetic.                                                              *)

\* A set of natural numbers has a least one.
LEMMA LeastNat ==
    ASSUME NEW S \in SUBSET Nat, S # {}
    PROVE  \E n \in S : \A m \in S : n <= m
<1>. DEFINE R == OpToRel(<, Nat)
<1>1. IsWellFoundedOn(R, Nat)
  BY NatLessThanWellFounded
<1>2. PICK n \in S : \A m \in S : ~(<<m, n>> \in R)
  <2>. HIDE DEF R
  <2>. QED
    BY <1>1, WFMin
<1>3. ASSUME NEW m \in S PROVE n <= m
  <2>1. ~(m < n)
    BY <1>2 DEF OpToRel
  <2>. QED
    BY <2>1
<1>. QED
  BY <1>3

\* A multiple of 8 has one of 8 as its remainder modulo a multiple of 8.
LEMMA ModAligned ==
    ASSUME NEW x \in Int, NEW m \in Nat \ {0}, x % 8 = 0, m % 8 = 0
    PROVE  (x % m) % 8 = 0
<1>. DEFINE a == x \div 8
            b == m \div 8
            q == x \div m
<1>1. a \in Int /\ b \in Int /\ q \in Int
  OBVIOUS
<1>2. x = 8 * a /\ m = 8 * b
  OBVIOUS
<1>. DEFINE r == x % m
<1>3. x = m * q + r
  OBVIOUS
<1>. DEFINE c == b * q
<1>4. c \in Int /\ m * q = 8 * c
  <2>. HIDE DEF a, b, q
  <2>. QED
    BY <1>1, <1>2
<1>5. r = 8 * (a - c)
  <2>1. r \in Int
    OBVIOUS
  <2>. HIDE DEF a, b, q, c, r
  <2>2. x = 8 * a
    BY <1>2
  <2>3. x = 8 * c + r
    BY <1>3, <1>4
  <2>. QED
    BY <1>1, <1>4, <2>1, <2>2, <2>3
<1>6. \A k \in Int : (8 * k) % 8 = 0
  OBVIOUS
<1>. QED
  <2>. HIDE DEF a, c
  <2>. QED
    BY <1>1, <1>4, <1>5, <1>6

\* The padding of an aligned pointer is aligned and smaller than the slot,
\* although align - p wraps around.
LEMMA Padding ==
    ASSUME NEW p \in Nat, NEW align \in Nat \ {0}, p % 8 = 0, align % 8 = 0
    PROVE  /\ padPointer(p, align) \in 0..(align - 1)
           /\ padPointer(p, align) % 8 = 0
<1>1. AddressSpace \in Nat \ {0} /\ AddressSpace % 8 = 0
  BY PoolAssumption DEF SizeofSlot
<1>. DEFINE x == align + AddressSpace - p
            y == x % AddressSpace
<1>2. x \in Int /\ x % 8 = 0
  BY <1>1
<1>3. y \in Nat /\ y % 8 = 0
  <2>. HIDE DEF x
  <2>. QED
    BY <1>1, <1>2, ModAligned
<1>4. y % align \in 0..(align - 1) /\ (y % align) % 8 = 0
  <2>. HIDE DEF y
  <2>. QED
    BY <1>3, ModAligned
<1>. QED
  BY <1>4 DEF padPointer

------------------------------------------------------------------------------
(* The invariant of the blocks.  Slots of a block are cut from the front to  *)
(* the back: those of the newest block lie before curSlot_.                  *)

\* The pool hands out slots that hold what it is asked for.
LEMMA SizeFacts ==
    ASSUME objectSize \in ObjectSizes, SlotSize_ = PoolSlotSize(PoolIndex(objectSize))
    PROVE  /\ SlotSize_ \in Nat /\ SlotSize_ % 8 = 0 /\ SlotSize_ >= 8
           /\ objectSize \in Nat /\ objectSize <= SlotSize_
           /\ BlockSize_ \in Nat /\ 2 * SlotSize_ + 8 <= BlockSize_
           /\ (SlotSize_ \div 8) * 8 = SlotSize_
<1>1. objectSize \in 1..512 /\ BlockSize_ \in Nat /\ 2 * SlotSize_ + 8 <= BlockSize_
  BY PoolAssumption DEF MAX_SLOT_SIZE, SizeofSlot
<1>2. SlotSize_ = (((objectSize + 7) \div 8 - 1) + 1) * 8
  BY DEF PoolSlotSize, PoolIndex, SLOT_BASE_SIZE
<1>3. SlotSize_ = 8 * ((objectSize + 7) \div 8)
  BY <1>1, <1>2
<1>. QED
  BY <1>1, <1>3

InBlock(s, b) == b + SizeofSlot <= s /\ s + SlotSize_ <= b + BlockSize_

\* s lies in b, and before curSlot_ if b is the block slots are cut from
CutFrom(s, b) == InBlock(s, b) /\ (b = blocks[1] => s + SlotSize_ <= curSlot_)

Apart(r, s) == r + SlotSize_ <= s \/ s + SlotSize_ <= r

SlotsInBlocks ==
    \A s \in Slots :
        s \in Nat /\ s % SizeofSlot = 0 /\ \E b \in ToSet(blocks) : CutFrom(s, b)

SlotsApart == \A r, s \in Slots : r # s => Apart(r, s)

\* curSlot_ and lastSlot_ are those of the newest block
Pointers ==
    /\ blocks = <<>> => curSlot_ = NULL /\ lastSlot_ = NULL
    /\ blocks # <<>> => /\ blocks[1] + SizeofSlot <= curSlot_
                        /\ curSlot_ % SizeofSlot = 0
                        /\ lastSlot_ = LastSlot(blocks[1])

\* after lockBlockUsedUp there is room for a slot, which nobody else takes
NewBlockHasRoom ==
    /\ \A t \in Threads : pc[t] = "newBlock" => curSlot_ < lastSlot_
    /\ \A t, u \in Threads : pc[t] = "newBlock" /\ pc[u] = "newBlock" => t = u

BlockInv ==
    /\ SlotSize_ = PoolSlotSize(PoolIndex(objectSize))
    /\ Pointers /\ NewBlockHasRoom /\ SlotsInBlocks /\ SlotsApart

(***************************************************************************)
(* The invariant of the free list.  freeList_ may be stale only while its  *)
(* mutex is held, and may be cleared at any time: so it is the first slot  *)
(* of a chain, the slot that follows the one being pushed, or NULL.        *)
(***************************************************************************)

Chained == {s \in Slots : next[s] # Garbage}

First(s) == s \in Chained /\ \A r \in Chained : next[r] # s

\* next is a set of disjoint chains
Chains ==
    /\ \A s \in Chained : next[s] \in Chained \cup {NULL}
    /\ \A r, s \in Chained : next[r] = next[s] /\ next[r] # NULL => r = s

\* what is in use is in no chain, and in the hands of one thread
Owners ==
    /\ \A t \in Threads : owned[t] \cap Chained = {}
    /\ \A t, u \in Threads : t # u => owned[t] \cap owned[u] = {}

HoldsList(t) == pc[t] \in {"take", "advance", "push"}

ListMutex == \A t, u \in Threads : HoldsList(t) /\ HoldsList(u) => t = u

\* of the thread that holds the mutex, and of freeList_
Heads ==
    /\ (\A t \in Threads : pc[t] # "push") => freeList_ = NULL \/ First(freeList_)
    /\ \A t \in Threads :
          /\ pc[t] = "take" => First(temp[t]) /\ freeList_ \in {temp[t], NULL}
          /\ pc[t] = "advance" =>
                (temp[t] = NULL \/ First(temp[t])) /\ freeList_ \in {temp[t], NULL}
          /\ pc[t] = "push" => First(temp[t]) /\ freeList_ \in {next[temp[t]], NULL}

ListInv == Chains /\ Owners /\ ListMutex /\ Heads

PoolInv == TypeOK /\ IsFiniteSet(Slots) /\ BlockInv /\ ListInv

LEMMA PoolInit == Init => PoolInv
<1>. SUFFICES ASSUME Init PROVE PoolInv
  OBVIOUS
<1>1. Slots = {} /\ next \in [Slots -> Slots \cup {NULL, Garbage}]
  BY DEF Init, Slots
<1>2. <<>> \in Seq(BlockAddresses)
  OBVIOUS
<1>3. SlotSize_ \in Nat
  BY SizeFacts DEF Init
<1>4. TypeOK
  BY <1>1, <1>2, <1>3 DEF Init, TypeOK, NULL
<1>5. IsFiniteSet(Slots)
  BY <1>1, FS_EmptySet
<1>6. BlockInv
  BY <1>1 DEF Init, BlockInv, Pointers, NewBlockHasRoom, SlotsInBlocks, SlotsApart
<1>7. ListInv
  BY <1>1 DEF Init, ListInv, Chains, Owners, ListMutex, HoldsList, Heads, Chained
<1>. QED
  BY <1>4, <1>5, <1>6, <1>7 DEF PoolInv

------------------------------------------------------------------------------
(* The blocks.                                                              *)

LEMMA Sizes ==
    ASSUME PoolInv
    PROVE  /\ SlotSize_ \in Nat /\ SlotSize_ % 8 = 0 /\ SlotSize_ >= 8
           /\ objectSize \in Nat /\ objectSize <= SlotSize_
           /\ BlockSize_ \in Nat /\ 2 * SlotSize_ + 8 <= BlockSize_
           /\ (SlotSize_ \div 8) * 8 = SlotSize_
           /\ SizeofSlot = 8
BY SizeFacts DEF PoolInv, TypeOK, BlockInv, SizeofSlot

LEMMA Blocks ==
    ASSUME PoolInv
    PROVE  /\ \A b \in BlockAddresses : b \in Nat /\ b > 0 /\ b % 8 = 0
           /\ \A a, b \in BlockAddresses : a < b => a + BlockSize_ <= b
           /\ ToSet(blocks) \subseteq BlockAddresses
           /\ blocks # <<>> => blocks[1] \in ToSet(blocks)
<1>1. blocks \in Seq(BlockAddresses)
  BY DEF PoolInv, TypeOK
<1>2. blocks # <<>> => 1 \in DOMAIN blocks
  BY <1>1
<1>. QED
  BY <1>1, <1>2, PoolAssumption DEF ToSet, SizeofSlot

\* A slot is an address behind the start of a block.
LEMMA SlotAddress ==
    ASSUME PoolInv, NEW s \in Slots
    PROVE  s \in Nat /\ s > 8 /\ s # NULL /\ s # Garbage
<1>1. PICK b \in ToSet(blocks) : b + 8 <= s /\ s \in Nat
  BY Sizes DEF PoolInv, BlockInv, SlotsInBlocks, CutFrom, InBlock
<1>2. b \in Nat /\ b > 0
  BY Blocks
<1>. QED
  BY <1>1, <1>2 DEF NULL, Garbage

\* The slot at curSlot_ fits into the newest block and overlaps no other.
LEMMA CurSlot ==
    ASSUME PoolInv, blocks # <<>>, curSlot_ < lastSlot_
    PROVE  /\ curSlot_ \in Nat /\ curSlot_ % 8 = 0
           /\ InBlock(curSlot_, blocks[1])
           /\ \A s \in Slots : Apart(s, curSlot_)
           /\ curSlot_ \notin Slots
<1>. DEFINE b == blocks[1]
<1>1. b \in BlockAddresses /\ b \in Nat
  BY Blocks
<1>2. curSlot_ \in Nat /\ curSlot_ % 8 = 0 /\ b + 8 <= curSlot_ /\ lastSlot_ = LastSlot(b)
  BY Sizes DEF PoolInv, TypeOK, BlockInv, Pointers
<1>0. SlotSize_ \in Nat /\ BlockSize_ \in Nat
  BY Sizes
<1>3. curSlot_ + SlotSize_ <= b + BlockSize_
  <2>. HIDE DEF b
  <2>. QED
    BY <1>0, <1>1, <1>2 DEF LastSlot
<1>4. ASSUME NEW s \in Slots PROVE Apart(s, curSlot_) /\ s # curSlot_
  <2>1. PICK d \in ToSet(blocks) : CutFrom(s, d)
    BY DEF PoolInv, BlockInv, SlotsInBlocks
  <2>2. s \in Nat /\ d \in BlockAddresses /\ d \in Nat
    BY SlotAddress, Blocks
  <2>3. d + 8 <= s /\ s + SlotSize_ <= d + BlockSize_
    BY <2>1, Sizes DEF CutFrom, InBlock
  <2>4. CASE d = b
    <3>1. s + SlotSize_ <= curSlot_
      BY <2>1, <2>4 DEF CutFrom
    <3>. QED
      BY <1>2, <2>2, <3>1, Sizes DEF Apart
  <2>5. CASE d < b
    <3>1. d + BlockSize_ <= b
      BY <1>1, <2>2, <2>5, Blocks
    <3>. HIDE DEF b
    <3>. QED
      BY <1>0, <1>1, <1>2, <2>2, <2>3, <3>1 DEF Apart
  <2>6. CASE b < d
    <3>1. b + BlockSize_ <= d
      BY <1>1, <2>2, <2>6, Blocks
    <3>. HIDE DEF b
    <3>. QED
      BY <1>0, <1>1, <1>2, <1>3, <2>2, <2>3, <3>1 DEF Apart
  <2>. HIDE DEF b
  <2>. QED
    BY <1>1, <2>2, <2>4, <2>5, <2>6
<1>. QED
  BY <1>1, <1>2, <1>3, <1>4, Sizes DEF InBlock

\* What Return does to the slots.
LEMMA Returned ==
    ASSUME PoolInv, NEW t \in Threads, NEW s, Return(t, s)
    PROVE  /\ Slots' = Slots \cup {s}
           /\ next'[s] = Garbage
           /\ \A r \in Slots \ {s} : next'[r] = next[r]
           /\ Chained' = Chained \ {s}
           /\ owned'[t] = owned[t] \cup {s} /\ temp'[t] = NULL /\ pc'[t] = "idle"
           /\ \A u \in Threads \ {t} :
                 owned'[u] = owned[u] /\ temp'[u] = temp[u] /\ pc'[u] = pc[u]
           /\ owned' \in [Threads -> SUBSET Slots']
           /\ next' \in [Slots' -> Slots' \cup {NULL, Garbage}]
<1>1. next' = [r \in Slots \cup {s} |-> IF r = s THEN Garbage ELSE next[r]]
  BY DEF Return
<1>2. next \in [Slots -> Slots \cup {NULL, Garbage}]
  BY DEF PoolInv, TypeOK
<1>3. Slots' = Slots \cup {s}
  BY <1>1 DEF Slots
<1>4. Chained' = Chained \ {s}
  BY <1>1, <1>2, <1>3 DEF Chained
<1>5. /\ owned \in [Threads -> SUBSET Slots]
      /\ temp \in [Threads -> Slots \cup {NULL}]
      /\ DOMAIN pc = Threads /\ pc = [u \in Threads |-> pc[u]]
  BY DEF PoolInv, TypeOK
<1>6. /\ owned' = [owned EXCEPT ![t] = @ \cup {s}]
      /\ temp' = [temp EXCEPT ![t] = NULL]
      /\ pc' = [pc EXCEPT ![t] = "idle"]
  BY DEF Return, Goto
<1>7. next' \in [Slots' -> Slots' \cup {NULL, Garbage}]
  BY <1>1, <1>2, <1>3
<1>. QED
  BY <1>1, <1>2, <1>3, <1>4, <1>5, <1>6, <1>7

\* Cutting a slot keeps the invariant of the blocks.
LEMMA CutBlocks ==
    ASSUME PoolInv, NEW t \in Threads, cut(t), blocks # <<>>, curSlot_ < lastSlot_,
           UNCHANGED <<objectSize, SlotSize_, blocks, lastSlot_>>,
           \A u \in Threads \ {t} : pc[u] # "newBlock"
    PROVE  BlockInv'
<1>. DEFINE b == blocks[1]
            c == curSlot_
<1>1. /\ Slots' = Slots \cup {c} /\ curSlot_' = c + SlotSize_
      /\ pc'[t] = "idle" /\ \A u \in Threads \ {t} : pc'[u] = pc[u]
  BY Returned, Sizes DEF cut
<1>2. c \in Nat /\ c % 8 = 0 /\ InBlock(c, b) /\ \A s \in Slots : Apart(s, c)
  BY CurSlot
<1>3. SlotSize_ \in Nat /\ SlotSize_ % 8 = 0 /\ SizeofSlot = 8
  BY Sizes
<1>4. b \in ToSet(blocks) /\ b \in Nat /\ b + 8 <= c /\ lastSlot_ = LastSlot(b)
  BY Blocks, Sizes DEF PoolInv, BlockInv, Pointers
<1>5. Pointers'
  <2>1. blocks' = blocks /\ lastSlot_' = LastSlot(b)' /\ blocks' # <<>>
    BY <1>4 DEF LastSlot
  <2>2. (c + SlotSize_) % 8 = 0 /\ b + 8 <= c + SlotSize_
    BY <1>2, <1>3, <1>4
  <2>. QED
    BY <1>1, <1>3, <2>1, <2>2 DEF Pointers, SizeofSlot
<1>6. NewBlockHasRoom'
  BY <1>1 DEF NewBlockHasRoom
<1>7. SlotsInBlocks'
  <2>1. ASSUME NEW s \in Slots
        PROVE  s \in Nat /\ s % 8 = 0 /\ \E d \in ToSet(blocks) : CutFrom(s, d)'
    <3>1. PICK d \in ToSet(blocks) : CutFrom(s, d)
      BY DEF PoolInv, BlockInv, SlotsInBlocks
    <3>2. s \in Nat /\ s % 8 = 0
      BY <1>3 DEF PoolInv, BlockInv, SlotsInBlocks
    <3>3. CutFrom(s, d)'
      BY <1>1, <1>2, <1>3, <3>1, <3>2 DEF CutFrom, InBlock, SizeofSlot
    <3>. QED
      BY <3>2, <3>3
  <2>2. ASSUME NEW s, s = c
        PROVE  s \in Nat /\ s % 8 = 0 /\ \E d \in ToSet(blocks) : CutFrom(s, d)'
    <3>1. b + 8 <= s /\ s + SlotSize_ <= b + BlockSize_ /\ s + SlotSize_ <= curSlot_'
      BY <1>1, <1>2, <1>3, <2>2 DEF InBlock
    <3>2. CutFrom(s, b)'
      BY <1>3, <3>1 DEF CutFrom, InBlock
    <3>. QED
      BY <1>2, <1>4, <2>2, <3>2
  <2>3. \A s \in Slots' : s \in Nat /\ s % 8 = 0 /\ \E d \in ToSet(blocks) : CutFrom(s, d)'
    BY <1>1, <2>1, <2>2
  <2>. QED
    BY <1>3, <2>3 DEF SlotsInBlocks, SizeofSlot
<1>8. SlotsApart'
  BY <1>1, <1>2 DEF PoolInv, BlockInv, SlotsApart, Apart
<1>. QED
  BY <1>5, <1>6, <1>7, <1>8 DEF PoolInv, BlockInv

\* Cutting a slot, which may clear the free list, leaves the chains alone.
LEMMA CutChains ==
    ASSUME PoolInv, NEW t \in Threads, cut(t), blocks # <<>>, curSlot_ < lastSlot_,
           ~HoldsList(t), freeList_' \in {freeList_, NULL}
    PROVE  ListInv'
<1>. DEFINE c == curSlot_
<1>1. c \notin Slots
  BY CurSlot
<1>2. /\ Slots' = Slots \cup {c} /\ \A r \in Slots : next'[r] = next[r]
      /\ Chained' = Chained
      /\ owned'[t] = owned[t] \cup {c} /\ pc'[t] = "idle"
      /\ \A u \in Threads \ {t} : owned'[u] = owned[u] /\ temp'[u] = temp[u] /\ pc'[u] = pc[u]
  BY <1>1, Returned DEF cut, Chained
<1>3. \A u \in Threads : owned[u] \subseteq Slots
  BY DEF PoolInv, TypeOK
<1>4. Chained \subseteq Slots
  BY DEF Chained
<1>5. Chains'
  BY <1>2, <1>4 DEF PoolInv, ListInv, Chains
<1>6. Owners'
  BY <1>1, <1>2, <1>3, <1>4 DEF PoolInv, ListInv, Owners
<1>7. \A s : First(s)' <=> First(s)
  BY <1>2, <1>4 DEF First
<1>8. ListMutex' /\ Heads'
  <2>1. /\ \A u \in Threads : HoldsList(u)' => u # t /\ HoldsList(u)
        /\ \A u \in Threads : pc'[u] = "push" <=> pc[u] = "push"
    BY <1>2 DEF HoldsList
  <2>2. ListMutex'
    BY <2>1 DEF PoolInv, ListInv, ListMutex
  <2>3. (\A u \in Threads : pc'[u] # "push") => freeList_' = NULL \/ First(freeList_)'
    BY <1>7, <2>1 DEF PoolInv, ListInv, Heads
  <2>4. ASSUME NEW u \in Threads, HoldsList(u)'
        PROVE  /\ pc'[u] = pc[u] /\ temp'[u] = temp[u]
               /\ First(temp[u]) => next'[temp[u]] = next[temp[u]]
    BY <1>2, <1>4, <2>1, <2>4 DEF First
  <2>5. ASSUME NEW u \in Threads
        PROVE  /\ pc'[u] = "take" => First(temp[u])' /\ freeList_' \in {temp'[u], NULL}
               /\ pc'[u] = "advance" =>
                     (temp'[u] = NULL \/ First(temp[u])') /\ freeList_' \in {temp'[u], NULL}
               /\ pc'[u] = "push" => First(temp[u])' /\ freeList_' \in {next'[temp'[u]], NULL}
    <3>1. CASE HoldsList(u)'
      BY <1>7, <2>4, <3>1 DEF PoolInv, ListInv, Heads
    <3>2. CASE ~HoldsList(u)'
      BY <3>2 DEF HoldsList
    <3>. QED
      BY <3>1, <3>2
  <2>. QED
    BY <2>2, <2>3, <2>5 DEF Heads
<1>. QED
  BY <1>5, <1>6, <1>8 DEF ListInv

LEMMA CutStep ==
    ASSUME PoolInv, NEW t \in Threads, cut(t), curSlot_ < lastSlot_,
           UNCHANGED <<objectSize, SlotSize_, blocks, lastSlot_, crashed>>,
           \A u \in Threads \ {t} : pc[u] # "newBlock",
           ~HoldsList(t), freeList_' \in {freeList_, NULL}
    PROVE  PoolInv'
<1>1. blocks # <<>>
  BY DEF PoolInv, BlockInv, Pointers, NULL
<1>2. BlockInv' /\ ListInv'
  BY <1>1, CutBlocks, CutChains
<1>3. Slots' = Slots \cup {curSlot_} /\ curSlot_' = curSlot_ + SlotSize_
  BY Returned, Sizes DEF cut
<1>4. IsFiniteSet(Slots')
  BY <1>3, FS_AddElement DEF PoolInv
<1>5. TypeOK'
  <2>1. curSlot_ \in Nat /\ curSlot_' \in Nat
    BY <1>3, Sizes DEF PoolInv, TypeOK
  <2>2. owned' \in [Threads -> SUBSET Slots'] /\ next' \in [Slots' -> Slots' \cup {NULL, Garbage}]
    BY Returned DEF cut
  <2>3. temp' \in [Threads -> Slots' \cup {NULL}] /\ freeList_' \in Slots' \cup {NULL}
    BY <1>3 DEF PoolInv, TypeOK, cut, Return
  <2>4. pc' = [pc EXCEPT ![t] = "idle"]
    BY DEF cut, Return, Goto
  <2>. QED
    BY <2>1, <2>2, <2>3, <2>4 DEF PoolInv, TypeOK
<1>. QED
  BY <1>2, <1>4, <1>5 DEF PoolInv

\* Steps that cut no slot leave the blocks alone.
LEMMA BlocksKept ==
    ASSUME PoolInv, UNCHANGED <<objectSize, SlotSize_, blockVars>>, Slots' = Slots,
           \A u \in Threads : pc'[u] = "newBlock" => pc[u] = "newBlock"
    PROVE  BlockInv'
<1>1. UNCHANGED <<objectSize, SlotSize_, blocks, curSlot_, lastSlot_>>
  BY DEF blockVars
<1>2. Pointers' /\ NewBlockHasRoom' /\ SlotsInBlocks' /\ SlotsApart'
  BY <1>1 DEF PoolInv, BlockInv, Pointers, NewBlockHasRoom, SlotsInBlocks, SlotsApart,
             CutFrom, InBlock, Apart, LastSlot
<1>. QED
  BY <1>1, <1>2 DEF PoolInv, BlockInv

LEMMA NewBlockStep == ASSUME PoolInv, NEW t \in Threads, newBlock(t) PROVE PoolInv'
<1>1. /\ curSlot_ < lastSlot_ /\ ~HoldsList(t)
      /\ \A u \in Threads \ {t} : pc[u] # "newBlock"
  BY DEF newBlock, PoolInv, BlockInv, NewBlockHasRoom, HoldsList
<1>. QED
  BY <1>1, CutStep DEF newBlock

LEMMA LockBlockStep == ASSUME PoolInv, NEW t \in Threads, lockBlock(t) PROVE PoolInv'
<1>1. ~HoldsList(t) /\ \A u \in Threads \ {t} : pc[u] # "newBlock"
  BY DEF lockBlock, BlockUnlocked, HoldsList
<1>. QED
  BY <1>1, CutStep DEF lockBlock

\* A new block: curSlot_ and lastSlot_ leave room for one slot at least.
LEMMA LockBlockUsedUpStep ==
    ASSUME PoolInv, NEW t \in Threads, lockBlockUsedUp(t) PROVE PoolInv'
<1>. PICK b \in BlockAddresses \ ToSet(blocks) :
          LET body == b + SizeofSlot IN
          /\ blocks' = <<b>> \o blocks
          /\ curSlot_' = body + padPointer(body, SlotSize_)
          /\ lastSlot_' = LastSlot(b)
  BY DEF lockBlockUsedUp
<1>. DEFINE body == b + 8
            pad == padPointer(body, SlotSize_)
<1>1. /\ pc' = [pc EXCEPT ![t] = "newBlock"] /\ pc[t] = "lockBlock"
      /\ \A u \in Threads : pc[u] # "newBlock"
      /\ UNCHANGED <<objectSize, SlotSize_, freeList_, next, owned, temp, crashed>>
  BY DEF lockBlockUsedUp, Goto, BlockUnlocked
<1>2. b \in Nat /\ b > 0 /\ b % 8 = 0
  BY Blocks
<1>3. body \in Nat /\ body % 8 = 0
  BY <1>2
<1>4. pad \in 0..(SlotSize_ - 1) /\ pad % 8 = 0
  <2>1. SlotSize_ \in Nat \ {0} /\ SlotSize_ % 8 = 0
    BY Sizes
  <2>. HIDE DEF body
  <2>. QED
    BY <1>3, <2>1, Padding
<1>5. curSlot_' = body + pad /\ lastSlot_' = b + BlockSize_ - SlotSize_ + 1
  BY DEF LastSlot, SizeofSlot
<1>6. /\ curSlot_' \in Nat /\ curSlot_' % 8 = 0 /\ b + 8 <= curSlot_'
      /\ lastSlot_' \in Nat /\ curSlot_' < lastSlot_'
  <2>1. SlotSize_ \in Nat /\ BlockSize_ \in Nat /\ 2 * SlotSize_ + 8 <= BlockSize_
    BY Sizes
  <2>2. curSlot_' % 8 = 0
    <3>1. \A x, y \in Nat : x % 8 = 0 /\ y % 8 = 0 => (x + y) % 8 = 0
      OBVIOUS
    <3>2. pad \in Nat
      BY <1>4, <2>1
    <3>. HIDE DEF pad, body
    <3>. QED
      BY <1>3, <1>4, <1>5, <3>1, <3>2
  <2>. HIDE DEF pad
  <2>. QED
    BY <1>2, <1>4, <1>5, <2>1, <2>2
<1>7. blocks \in Seq(BlockAddresses)
  BY DEF PoolInv, TypeOK
<1>8. blocks' \in Seq(BlockAddresses) /\ blocks' # <<>> /\ blocks'[1] = b
  BY <1>7
<1>9. ToSet(blocks) \subseteq ToSet(blocks')
  <2>1. \A i \in DOMAIN blocks : i + 1 \in DOMAIN blocks' /\ blocks'[i + 1] = blocks[i]
    BY <1>7
  <2>. QED
    BY <2>1 DEF ToSet
<1>10. Slots' = Slots
  BY <1>1 DEF Slots
<1>11. TypeOK'
  BY <1>1, <1>6, <1>8, <1>10 DEF PoolInv, TypeOK
<1>12. Pointers'
  BY <1>1, <1>5, <1>6, <1>8 DEF Pointers, LastSlot, SizeofSlot
<1>13. NewBlockHasRoom'
  BY <1>1, <1>6 DEF NewBlockHasRoom, PoolInv, TypeOK
<1>14. SlotsInBlocks'
  <2>1. ASSUME NEW s \in Slots
        PROVE  \E d \in ToSet(blocks') : CutFrom(s, d)'
    <3>1. PICK d \in ToSet(blocks) : CutFrom(s, d)
      BY DEF PoolInv, BlockInv, SlotsInBlocks
    <3>2. d # b
      OBVIOUS
    <3>. QED
      BY <1>1, <1>8, <1>9, <3>1, <3>2 DEF CutFrom, InBlock
  <2>. QED
    BY <1>10, <2>1 DEF PoolInv, BlockInv, SlotsInBlocks
<1>15. SlotsApart'
  BY <1>1, <1>10 DEF PoolInv, BlockInv, SlotsApart, Apart
<1>16. ListInv'
  <2>1. Chained' = Chained /\ \A u \in Threads : HoldsList(u)' <=> HoldsList(u)
    BY <1>1, <1>10 DEF Chained, HoldsList, PoolInv, TypeOK
  <2>2. \A s : First(s)' <=> First(s)
    BY <1>1, <2>1 DEF First
  <2>3. \A u \in Threads : pc'[u] \in {"take", "advance", "push"} \/ pc[u] \in {"take", "advance", "push"}
                             => pc'[u] = pc[u]
    BY <1>1 DEF PoolInv, TypeOK
  <2>4. Heads'
    BY <1>1, <2>2, <2>3 DEF PoolInv, ListInv, Heads
  <2>. QED
    BY <1>1, <2>1, <2>4 DEF PoolInv, ListInv, Chains, Owners, ListMutex
<1>. QED
  BY <1>1, <1>10, <1>11, <1>12, <1>13, <1>14, <1>15, <1>16 DEF PoolInv, BlockInv

------------------------------------------------------------------------------
(* The free list.                                                           *)

\* Steps that only move a thread between program points outside of the mutex
\* of the free list.
LEMMA AllocateStep == ASSUME PoolInv, NEW t \in Threads, allocate(t) PROVE PoolInv'
<1>1. /\ UNCHANGED <<objectSize, SlotSize_, blocks, curSlot_, lastSlot_, freeList_, next,
                     owned, temp, crashed>>
      /\ pc[t] = "idle" /\ pc'[t] \in {"lockFree", "lockBlock"}
      /\ \A u \in Threads \ {t} : pc'[u] = pc[u]
  BY DEF allocate, blockVars, Goto, PoolInv, TypeOK
<1>2. TypeOK'
  BY <1>1 DEF allocate, Goto, PoolInv, TypeOK, Slots
<1>3. Slots' = Slots /\ Chained' = Chained
  BY <1>1 DEF Slots, Chained
<1>4. BlockInv'
  BY <1>1, <1>3, BlocksKept DEF blockVars
<1>5. \A s : First(s)' <=> First(s)
  BY <1>1, <1>3 DEF First
<1>6. \A u \in Threads : HoldsList(u) \/ HoldsList(u)' => pc'[u] = pc[u]
  BY <1>1 DEF HoldsList
<1>7. Heads'
  BY <1>1, <1>5, <1>6 DEF PoolInv, ListInv, Heads, HoldsList
<1>8. ListMutex'
  BY <1>6 DEF PoolInv, ListInv, ListMutex, HoldsList
<1>9. Chains' /\ Owners'
  BY <1>1, <1>3 DEF PoolInv, ListInv, Chains, Owners
<1>. QED
  BY <1>2, <1>3, <1>4, <1>7, <1>8, <1>9 DEF PoolInv, ListInv

\* What the threads other than t, which holds the mutex of the free list now,
\* contribute to the invariant.
LEMMA OthersOutside ==
    ASSUME PoolInv, NEW t \in Threads, HoldsList(t) \/ FreeListUnlocked
    PROVE  \A u \in Threads \ {t} : ~HoldsList(u)
BY DEF PoolInv, ListInv, ListMutex, FreeListUnlocked, HoldsList

\* The steps of allocate within the mutex that do not change the list.
LEMMA LookStep == ASSUME PoolInv, NEW t \in Threads, lockFree(t) \/ take(t) PROVE PoolInv'
<1>1. /\ UNCHANGED <<objectSize, SlotSize_, blocks, curSlot_, lastSlot_, freeList_, next,
                     owned, crashed>>
      /\ pc'[t] \in {"take", "advance", "lockBlock"}
      /\ \A u \in Threads \ {t} : pc'[u] = pc[u] /\ temp'[u] = temp[u]
  BY DEF lockFree, take, blockVars, Goto, PoolInv, TypeOK
<1>2. \A u \in Threads \ {t} : ~HoldsList(u) /\ ~HoldsList(u)'
  BY <1>1, OthersOutside DEF lockFree, take, HoldsList
<1>3. TypeOK'
  BY <1>1 DEF lockFree, take, Goto, PoolInv, TypeOK, Slots
<1>4. Slots' = Slots /\ Chained' = Chained
  BY <1>1 DEF Slots, Chained
<1>5. BlockInv'
  BY <1>1, <1>4, BlocksKept DEF blockVars
<1>6. \A s : First(s)' <=> First(s)
  BY <1>1, <1>4 DEF First
<1>7. freeList_ = NULL \/ First(freeList_)
  BY <1>2 DEF lockFree, take, FreeListUnlocked, HoldsList, PoolInv, ListInv, Heads
<1>8. /\ pc'[t] = "take" => temp'[t] = freeList_ /\ freeList_ # NULL
      /\ pc'[t] = "advance" =>
            /\ temp'[t] = NULL \/ First(temp'[t])
            /\ freeList_ \in {temp'[t], NULL}
  <2>1. CASE lockFree(t)
    BY <2>1 DEF lockFree, Goto, PoolInv, TypeOK
  <2>2. CASE take(t)
    <3>1. First(temp[t]) /\ freeList_ \in {temp[t], NULL}
      BY <2>2 DEF take, PoolInv, ListInv, Heads
    <3>2. temp'[t] \in {temp[t], freeList_} /\ pc'[t] = "advance"
      BY <2>2 DEF take, Goto, PoolInv, TypeOK
    <3>. QED
      BY <3>1, <3>2
  <2>. QED
    BY <2>1, <2>2
<1>9. Heads'
  <2>1. freeList_ = NULL \/ First(freeList_)'
    BY <1>1, <1>6, <1>7
  <2>2. /\ pc'[t] = "take" => First(temp[t])' /\ freeList_ = temp'[t]
        /\ pc'[t] = "advance" =>
              (temp'[t] = NULL \/ First(temp[t])') /\ freeList_ \in {temp'[t], NULL}
    BY <1>1, <1>6, <1>7, <1>8
  <2>. QED
    BY <1>1, <1>2, <2>1, <2>2 DEF Heads, HoldsList
<1>10. ListMutex'
  BY <1>2 DEF ListMutex
<1>11. Chains' /\ Owners'
  BY <1>1, <1>4 DEF PoolInv, ListInv, Chains, Owners
<1>. QED
  BY <1>3, <1>4, <1>5, <1>9, <1>10, <1>11 DEF PoolInv, ListInv

\* The head of the list leaves it: its only way in was freeList_.
LEMMA AdvanceStep == ASSUME PoolInv, NEW t \in Threads, advance(t) PROVE PoolInv'
<1>. PICK s : s = temp[t]
  OBVIOUS
<1>1. pc[t] = "advance" /\ UNCHANGED <<objectSize, SlotSize_, blocks, curSlot_, lastSlot_>>
  BY DEF advance, blockVars
<1>2. (s = NULL \/ First(s)) /\ freeList_ \in {s, NULL}
  BY <1>1 DEF PoolInv, ListInv, Heads
<1>3. CASE UNCHANGED <<freeList_, next, owned, pc, temp>> /\ crashed' = TRUE
  <2>1. Slots' = Slots /\ TypeOK'
    BY <1>1, <1>3 DEF PoolInv, TypeOK, Slots
  <2>2. BlockInv'
    BY <1>1, <1>3, <2>1, BlocksKept DEF blockVars
  <2>3. ListInv'
    BY <1>3 DEF PoolInv, ListInv, Chains, Owners, ListMutex, Heads, HoldsList, First, Chained, Slots
  <2>. QED
    BY <2>1, <2>2, <2>3 DEF PoolInv
<1>4. CASE /\ s # NULL /\ freeList_' = next[s]
           /\ Return(t, s) /\ UNCHANGED crashed
  <2>1. First(s)
    BY <1>2, <1>4
  <2>2. s \in Chained /\ s \in Slots /\ Chained \subseteq Slots /\ next[s] # s
        /\ \A r \in Chained : next[r] # s
    BY <2>1 DEF First, Chained
  <2>3. next[s] \in (Chained \ {s}) \cup {NULL}
    BY <2>2 DEF PoolInv, ListInv, Chains
  <2>4. /\ Slots' = Slots /\ Chained' = Chained \ {s}
        /\ \A r \in Chained' : next'[r] = next[r]
        /\ owned'[t] = owned[t] \cup {s} /\ pc'[t] = "idle"
        /\ \A u \in Threads \ {t} : owned'[u] = owned[u] /\ temp'[u] = temp[u] /\ pc'[u] = pc[u]
        /\ owned' \in [Threads -> SUBSET Slots']
        /\ next' \in [Slots' -> Slots' \cup {NULL, Garbage}]
    <3>1. /\ Slots' = Slots \cup {s} /\ Chained' = Chained \ {s}
          /\ \A r \in Slots \ {s} : next'[r] = next[r]
          /\ owned'[t] = owned[t] \cup {s} /\ pc'[t] = "idle"
          /\ \A u \in Threads \ {t} : owned'[u] = owned[u] /\ temp'[u] = temp[u] /\ pc'[u] = pc[u]
          /\ owned' \in [Threads -> SUBSET Slots']
          /\ next' \in [Slots' -> Slots' \cup {NULL, Garbage}]
      BY <1>4, Returned
    <3>2. Slots' = Slots /\ \A r \in Chained' : next'[r] = next[r]
      BY <2>2, <3>1
    <3>. QED
      BY <3>1, <3>2
  <2>5. \A u \in Threads : ~HoldsList(u)'
    BY <1>1, <2>4, OthersOutside DEF HoldsList
  <2>6. TypeOK'
    BY <1>1, <1>4, <2>2, <2>3, <2>4 DEF PoolInv, TypeOK, Return, Goto
  <2>7. BlockInv'
    BY <1>1, <2>4, BlocksKept DEF blockVars
  <2>8. Chains'
    BY <2>2, <2>4 DEF PoolInv, ListInv, Chains
  <2>9. Owners'
    <3>1. \A u \in Threads : s \notin owned[u]
      BY <2>2 DEF PoolInv, ListInv, Owners
    <3>. QED
      BY <2>4, <3>1 DEF PoolInv, ListInv, Owners
  <2>10. freeList_' = NULL \/ First(freeList_)'
    <3>1. CASE next[s] = NULL
      BY <1>4, <3>1
    <3>2. CASE next[s] # NULL
      <4>1. next[s] \in Chained'
        BY <2>3, <2>4, <3>2
      <4>2. \A r \in Chained' : next'[r] # next[s]
        BY <2>2, <2>4, <3>2 DEF PoolInv, ListInv, Chains
      <4>. QED
        BY <1>4, <4>1, <4>2 DEF First
    <3>. QED
      BY <3>1, <3>2
  <2>11. ListMutex' /\ Heads'
    BY <2>5, <2>10 DEF ListMutex, Heads, HoldsList
  <2>. QED
    BY <2>4, <2>6, <2>7, <2>8, <2>9, <2>11 DEF PoolInv, ListInv
<1>5. PICK head \in {s, freeList_} :
          \/ /\ head = NULL /\ crashed' = TRUE
             /\ UNCHANGED <<freeList_, next, owned, pc, temp>>
          \/ /\ head # NULL /\ freeList_' = next[head]
             /\ Return(t, s) /\ UNCHANGED crashed
  BY DEF advance
<1>6. head # NULL => head = s
  BY <1>2
<1>. QED
  BY <1>3, <1>4, <1>5, <1>6

\* The freed slot is put before the head of the list, which nothing is before.
LEMMA DeallocateStep ==
    ASSUME PoolInv, NEW t \in Threads, NEW s \in Slots, deallocate(t, s) PROVE PoolInv'
<1>1. /\ pc[t] = "idle" /\ FreeListUnlocked
      /\ UNCHANGED <<objectSize, SlotSize_, blocks, curSlot_, lastSlot_, freeList_, crashed>>
      /\ next' = [next EXCEPT ![s] = freeList_]
      /\ temp' = [temp EXCEPT ![t] = s] /\ pc' = [pc EXCEPT ![t] = "push"]
      /\ owned' = [u \in Threads |-> owned[u] \ {s}]
  BY DEF deallocate, blockVars, Goto, Linked
<1>2. s \notin Chained
  BY DEF deallocate, PoolInv, ListInv, Owners
<1>3. freeList_ = NULL \/ First(freeList_)
  BY <1>1 DEF FreeListUnlocked, PoolInv, ListInv, Heads
<1>4. freeList_ # Garbage
  BY <1>3, SlotAddress DEF First, Chained, NULL, Garbage
<1>5. /\ Slots' = Slots /\ Chained' = Chained \cup {s}
      /\ next'[s] = freeList_ /\ \A r \in Chained : next'[r] = next[r]
  BY <1>1, <1>2, <1>4 DEF PoolInv, TypeOK, Slots, Chained
<1>6. TypeOK'
  <2>1. next' \in [Slots' -> Slots' \cup {NULL, Garbage}]
    BY <1>1, <1>5 DEF PoolInv, TypeOK
  <2>. QED
    BY <1>1, <1>5, <2>1 DEF PoolInv, TypeOK
<1>7. \A u \in Threads : (HoldsList(u)' <=> u = t) /\ (pc'[u] = "newBlock" => pc[u] = "newBlock")
  BY <1>1 DEF FreeListUnlocked, HoldsList, PoolInv, TypeOK
<1>8. BlockInv'
  BY <1>1, <1>5, <1>7, BlocksKept DEF blockVars
<1>9. Chains'
  <2>1. \A r \in Chained : next[r] = freeList_ => freeList_ = NULL
    BY <1>3 DEF First
  <2>2. freeList_ \in Chained \cup {NULL}
    BY <1>3 DEF First
  <2>. QED
    BY <1>5, <2>1, <2>2 DEF PoolInv, ListInv, Chains
<1>10. Owners'
  BY <1>1, <1>5 DEF PoolInv, ListInv, Owners
<1>11. First(s)'
  <2>1. freeList_ # s /\ s # NULL
    BY <1>2, <1>3, SlotAddress DEF First
  <2>2. \A r \in Chained : next[r] # s
    BY <1>2, <2>1 DEF PoolInv, ListInv, Chains
  <2>. QED
    BY <1>5, <2>1, <2>2 DEF First
<1>12. ListMutex' /\ Heads'
  <2>1. temp'[t] = s /\ pc'[t] = "push"
    BY <1>1 DEF PoolInv, TypeOK
  <2>2. First(temp[t])' /\ freeList_' = next'[temp'[t]]
    BY <1>1, <1>5, <1>11, <2>1
  <2>. QED
    BY <1>7, <2>1, <2>2 DEF ListMutex, Heads, HoldsList
<1>. QED
  BY <1>5, <1>6, <1>8, <1>9, <1>10, <1>12 DEF PoolInv, ListInv

\* The list begins with the freed slot.
LEMMA PushStep == ASSUME PoolInv, NEW t \in Threads, push(t) PROVE PoolInv'
<1>1. /\ pc[t] = "push" /\ freeList_' = temp[t]
      /\ temp' = [temp EXCEPT ![t] = NULL] /\ pc' = [pc EXCEPT ![t] = "idle"]
      /\ UNCHANGED <<objectSize, SlotSize_, blocks, curSlot_, lastSlot_, next, owned, crashed>>
  BY DEF push, blockVars, Goto
<1>2. First(temp[t])
  BY <1>1 DEF PoolInv, ListInv, Heads
<1>3. Slots' = Slots /\ Chained' = Chained
  BY <1>1 DEF Slots, Chained
<1>4. TypeOK'
  BY <1>1, <1>2, <1>3 DEF PoolInv, TypeOK, First, Chained
<1>5. \A u \in Threads : ~HoldsList(u)' /\ (pc'[u] = "newBlock" => pc[u] = "newBlock")
  BY <1>1, OthersOutside DEF HoldsList, PoolInv, TypeOK
<1>6. BlockInv'
  BY <1>1, <1>3, <1>5, BlocksKept DEF blockVars
<1>7. First(freeList_)'
  BY <1>1, <1>2, <1>3 DEF First
<1>8. ListMutex' /\ Heads'
  BY <1>5, <1>7 DEF ListMutex, Heads, HoldsList
<1>9. Chains' /\ Owners'
  BY <1>1, <1>3 DEF PoolInv, ListInv, Chains, Owners
<1>. QED
  BY <1>3, <1>4, <1>6, <1>8, <1>9 DEF PoolInv, ListInv

LEMMA PoolNext == PoolInv /\ [Next]_vars => PoolInv'
<1>. SUFFICES ASSUME PoolInv, [Next]_vars PROVE PoolInv'
  OBVIOUS
<1>1. ASSUME NEW t \in Threads, Step(t) PROVE PoolInv'
  BY <1>1, AllocateStep, LookStep, AdvanceStep, LockBlockStep, LockBlockUsedUpStep,
     NewBlockStep, DeallocateStep, PushStep DEF Step
<1>2. CASE UNCHANGED vars
  BY <1>2 DEF vars, blockVars, PoolInv, TypeOK, Slots, BlockInv, Pointers, LastSlot,
              NewBlockHasRoom, SlotsInBlocks, SlotsApart, CutFrom, InBlock, Apart,
              ListInv, Chains, Owners, ListMutex, HoldsList, Heads, First, Chained
<1>. QED
  BY <1>1, <1>2 DEF Next

LEMMA Invariant == Spec => []PoolInv
BY PoolInit, PoolNext, PTL DEF Spec

------------------------------------------------------------------------------
(* The slots of the free list.                                              *)

InList == Chained \cup {NULL}

\* what follows a slot of the list, or its end
After(v) == IF v = NULL THEN NULL ELSE next[v]

LEMMA AfterInList == ASSUME PoolInv, NEW v \in InList PROVE After(v) \in InList
BY DEF PoolInv, ListInv, Chains, InList, After

LEMMA FreeListInList == ASSUME PoolInv PROVE freeList_ \in InList
<1>1. CASE \A t \in Threads : pc[t] # "push"
  BY <1>1 DEF PoolInv, ListInv, Heads, First, InList
<1>2. ASSUME NEW t \in Threads, pc[t] = "push" PROVE freeList_ \in InList
  <2>1. temp[t] \in Chained /\ freeList_ \in {next[temp[t]], NULL}
    BY <1>2 DEF PoolInv, ListInv, Heads, First
  <2>. QED
    BY <2>1 DEF PoolInv, ListInv, Chains, InList
<1>. QED
  BY <1>1, <1>2

\* g follows the list for n steps
Follows(g, n) == g[0] = freeList_ /\ \A i \in 0..n : i # n => g[i + 1] = After(g[i])

LEMMA FollowsExists ==
    ASSUME PoolInv, NEW n \in Nat
    PROVE  \E g \in [0..n -> InList] : Follows(g, n)
<1>. DEFINE Bad == {m \in Nat : ~\E g \in [0..m -> InList] : Follows(g, m)}
<1>1. SUFFICES ASSUME Bad # {} PROVE FALSE
  OBVIOUS
<1>2. PICK m \in Bad : \A k \in Bad : m <= k
  <2>1. Bad \in SUBSET Nat
    OBVIOUS
  <2>. HIDE DEF Bad
  <2>. QED
    BY <1>1, <2>1, LeastNat
<1>3. CASE m = 0
  <2>1. [i \in 0..0 |-> freeList_] \in [0..0 -> InList]
    BY FreeListInList
  <2>2. Follows([i \in 0..0 |-> freeList_], 0)
    BY DEF Follows
  <2>. QED
    BY <1>2, <1>3, <2>1, <2>2
<1>4. CASE m # 0
  <2>1. m \in Nat /\ m - 1 \in Nat /\ m - 1 \notin Bad
    BY <1>2, <1>4
  <2>2. PICK g \in [0..(m - 1) -> InList] : Follows(g, m - 1)
    BY <2>1
  <2>. DEFINE h == [i \in 0..m |-> IF i = m THEN After(g[m - 1]) ELSE g[i]]
  <2>3. h \in [0..m -> InList]
    <3>1. \A i \in 0..m : i # m => i \in 0..(m - 1)
      BY <2>1
    <3>. QED
      BY <2>1, <2>2, <3>1, AfterInList
  <2>4. h[0] = freeList_
    BY <1>4, <2>1, <2>2 DEF Follows
  <2>5. ASSUME NEW i \in 0..m, i # m PROVE h[i + 1] = After(h[i])
    <3>1. i \in 0..(m - 1) /\ i + 1 \in 0..m /\ h[i] = g[i]
      BY <2>1, <2>5
    <3>2. CASE i = m - 1
      BY <2>1, <3>1, <3>2
    <3>3. CASE i # m - 1
      <4>1. h[i + 1] = g[i + 1] /\ g[i + 1] = After(g[i])
        BY <2>1, <2>2, <3>1, <3>3 DEF Follows
      <4>. QED
        BY <3>1, <4>1
    <3>. QED
      BY <3>2, <3>3
  <2>6. Follows(h, m)
    <3>. HIDE DEF h
    <3>. QED
      BY <2>4, <2>5 DEF Follows
  <2>. HIDE DEF h
  <2>. QED
    BY <1>2, <2>3, <2>6
<1>. QED
  BY <1>3, <1>4

LEMMA FollowsAgree ==
    ASSUME PoolInv, NEW n \in Nat, NEW g, Follows(g, n), NEW h, Follows(h, n + 1)
    PROVE  g[n] = h[n]
<1>. DEFINE Bad == {i \in 0..n : g[i] # h[i]}
<1>1. SUFFICES ASSUME Bad # {} PROVE FALSE
  OBVIOUS
<1>2. PICK i \in Bad : \A k \in Bad : i <= k
  <2>1. Bad \in SUBSET Nat
    OBVIOUS
  <2>. HIDE DEF Bad
  <2>. QED
    BY <1>1, <2>1, LeastNat
<1>3. i # 0
  BY <1>2 DEF Follows
<1>4. i \in Nat /\ i - 1 \in 0..n /\ i - 1 # n /\ i - 1 \in 0..(n + 1) /\ i - 1 # n + 1
      /\ (i - 1) + 1 = i
  BY <1>2, <1>3
<1>5. g[i - 1] = h[i - 1]
  BY <1>2, <1>4
<1>6. g[i] = After(g[i - 1]) /\ h[i] = After(h[i - 1])
  BY <1>4 DEF Follows
<1>. QED
  BY <1>2, <1>5, <1>6

\* The recursion that defines nth has a solution, so that nth obeys it.
LEMMA NthUnfolds ==
    ASSUME PoolInv
    PROVE  nth = [n \in Nat |-> IF n = 0 THEN freeList_
                                ELSE IF nth[n - 1] = NULL THEN NULL ELSE next[nth[n - 1]]]
<1>. DEFINE G(n) == CHOOSE g \in [0..n -> InList] : Follows(g, n)
            F == [n \in Nat |-> G(n)[n]]
<1>1. \A n \in Nat : Follows(G(n), n)
  BY FollowsExists
<1>2. ASSUME NEW n \in Nat, n # 0 PROVE F[n] = After(F[n - 1])
  <2>1. n - 1 \in Nat /\ (n - 1) + 1 = n
    BY <1>2
  <2>2. Follows(G(n - 1), n - 1) /\ Follows(G(n), (n - 1) + 1)
    BY <1>1, <2>1
  <2>3. G(n - 1)[n - 1] = G(n)[n - 1]
    <3>. HIDE DEF G
    <3>. QED
      BY <2>1, <2>2, FollowsAgree
  <2>4. G(n)[n] = After(G(n)[n - 1])
    <3>1. n - 1 \in 0..n /\ n - 1 # n
      BY <1>2
    <3>. HIDE DEF G
    <3>. QED
      BY <1>1, <2>1, <3>1 DEF Follows
  <2>. QED
    BY <2>1, <2>3, <2>4
<1>3. F[0] = freeList_
  BY <1>1 DEF Follows
<1>4. F = [n \in Nat |-> IF n = 0 THEN freeList_
                         ELSE IF F[n - 1] = NULL THEN NULL ELSE next[F[n - 1]]]
  <2>1. \A n \in Nat : F[n] = IF n = 0 THEN freeList_
                              ELSE IF F[n - 1] = NULL THEN NULL ELSE next[F[n - 1]]
    <3>. HIDE DEF F
    <3>. QED
      BY <1>2, <1>3, Zenon DEF After
  <2>2. F = [n \in Nat |-> F[n]]
    OBVIOUS
  <2>. HIDE DEF F
  <2>. QED
    BY <2>1, <2>2
<1>. HIDE DEF F
<1>. QED
  BY <1>4 DEF nth

LEMMA NthSteps ==
    ASSUME PoolInv
    PROVE  nth[0] = freeList_ /\ \A n \in Nat : nth[n + 1] = After(nth[n])
<1>. DEFINE f == nth
<1>1. f = [n \in Nat |-> IF n = 0 THEN freeList_
                         ELSE IF f[n - 1] = NULL THEN NULL ELSE next[f[n - 1]]]
  BY NthUnfolds
<1>. HIDE DEF f
<1>2. f[0] = freeList_
  BY <1>1
<1>3. ASSUME NEW n \in Nat PROVE f[n + 1] = After(f[n])
  <2>1. n + 1 \in Nat /\ n + 1 # 0 /\ (n + 1) - 1 = n
    OBVIOUS
  <2>2. f[n + 1] = IF f[(n + 1) - 1] = NULL THEN NULL ELSE next[f[(n + 1) - 1]]
    BY <1>1, <2>1
  <2>. QED
    BY <2>1, <2>2 DEF After
<1>. QED
  BY <1>2, <1>3 DEF f

LEMMA NthInList == ASSUME PoolInv, NEW n \in Nat PROVE nth[n] \in InList
<1>. DEFINE Bad == {m \in Nat : nth[m] \notin InList}
<1>1. SUFFICES ASSUME Bad # {} PROVE FALSE
  OBVIOUS
<1>2. PICK m \in Bad : \A k \in Bad : m <= k
  <2>1. Bad \in SUBSET Nat
    OBVIOUS
  <2>. HIDE DEF Bad
  <2>. QED
    BY <1>1, <2>1, LeastNat
<1>3. m # 0
  BY <1>2, NthSteps, FreeListInList
<1>4. m - 1 \in Nat /\ (m - 1) + 1 = m /\ m - 1 \notin Bad
  BY <1>2, <1>3
<1>5. nth[m - 1] \in InList
  BY <1>4
<1>6. nth[(m - 1) + 1] = After(nth[m - 1])
  BY <1>4, NthSteps
<1>. QED
  BY <1>2, <1>4, <1>5, <1>6, AfterInList

\* What follows a slot of the list has a slot before it.
LEMMA NotFirst ==
    ASSUME PoolInv, NEW n \in Nat, nth[n + 1] # NULL
    PROVE  nth[n] \in Chained /\ next[nth[n]] = nth[n + 1] /\ ~First(nth[n + 1])
<1>1. nth[n + 1] = After(nth[n]) /\ nth[n] \in InList
  BY NthSteps, NthInList
<1>2. nth[n] # NULL /\ nth[n + 1] = next[nth[n]]
  BY <1>1 DEF After
<1>. QED
  BY <1>1, <1>2 DEF InList, First

\* The list does not come back to where it begins.
LEMMA NoReturn ==
    ASSUME PoolInv, NEW n \in Nat, nth[n + 1] # NULL
    PROVE  nth[n + 1] # nth[0]
<1>. SUFFICES ASSUME nth[n + 1] = nth[0] PROVE FALSE
  OBVIOUS
<1>1. freeList_ = nth[n + 1] /\ freeList_ # NULL /\ ~First(freeList_)
  BY NthSteps, NotFirst
<1>2. PICK t \in Threads : pc[t] = "push" /\ First(temp[t]) /\ freeList_ = next[temp[t]]
  BY <1>1 DEF PoolInv, ListInv, Heads
<1>3. nth[n] \in Chained /\ next[nth[n]] = freeList_
  BY <1>1, NotFirst
<1>4. nth[n] = temp[t]
  BY <1>1, <1>2, <1>3 DEF PoolInv, ListInv, Chains, First
<1>5. CASE n = 0
  BY <1>1, <1>2, <1>4, <1>5, NthSteps
<1>6. CASE n # 0
  <2>1. n - 1 \in Nat /\ (n - 1) + 1 = n
    BY <1>6
  <2>2. nth[(n - 1) + 1] # NULL
    BY <1>3, <2>1, SlotAddress DEF Chained
  <2>3. ~First(nth[n])
    BY <2>1, <2>2, NotFirst
  <2>. QED
    BY <1>2, <1>4, <2>3
<1>. QED
  BY <1>5, <1>6

\* No slot is in the list twice.
LEMMA NthDistinct ==
    ASSUME PoolInv, NEW i \in Nat, NEW j \in Nat, i < j, nth[j] # NULL
    PROVE  nth[i] # nth[j]
<1>. DEFINE Bad == {m \in Nat : \E k \in Nat : m < k /\ nth[k] # NULL /\ nth[m] = nth[k]}
<1>1. SUFFICES ASSUME Bad # {} PROVE FALSE
  OBVIOUS
<1>2. PICK m \in Bad : \A k \in Bad : m <= k
  <2>1. Bad \in SUBSET Nat
    OBVIOUS
  <2>. HIDE DEF Bad
  <2>. QED
    BY <1>1, <2>1, LeastNat
<1>3. PICK k \in Nat : m < k /\ nth[k] # NULL /\ nth[m] = nth[k]
  BY <1>2
<1>4. m \in Nat /\ k - 1 \in Nat /\ (k - 1) + 1 = k
  BY <1>2, <1>3
<1>5. CASE m = 0
  BY <1>3, <1>4, <1>5, NoReturn
<1>6. CASE m # 0
  <2>1. m - 1 \in Nat /\ (m - 1) + 1 = m /\ m - 1 < k - 1
    BY <1>3, <1>4, <1>6
  <2>2. /\ nth[m - 1] \in Chained /\ next[nth[m - 1]] = nth[m]
        /\ nth[k - 1] \in Chained /\ next[nth[k - 1]] = nth[k]
    <3>1. nth[(m - 1) + 1] # NULL /\ nth[(k - 1) + 1] # NULL
      BY <1>3, <1>4, <2>1
    <3>2. /\ nth[m - 1] \in Chained /\ next[nth[m - 1]] = nth[(m - 1) + 1]
          /\ nth[k - 1] \in Chained /\ next[nth[k - 1]] = nth[(k - 1) + 1]
      BY <1>4, <2>1, <3>1, NotFirst
    <3>. QED
      BY <1>4, <2>1, <3>2
  <2>3. nth[m - 1] = nth[k - 1]
    BY <1>3, <2>2 DEF PoolInv, ListInv, Chains
  <2>4. nth[k - 1] # NULL
    BY <2>2, SlotAddress DEF Chained
  <2>5. m - 1 \in Bad
    BY <1>4, <2>1, <2>3, <2>4
  <2>. QED
    BY <1>2, <1>4, <2>1, <2>5
<1>. QED
  BY <1>5, <1>6

\* Distinct slots, and no more of them than there are: the list ends.
LEMMA ListHasEnd == ASSUME PoolInv PROVE ListEnds
<1>. DEFINE N == Cardinality(Slots)
<1>1. IsFiniteSet(Slots) /\ N \in Nat
  BY FS_CardinalityType DEF PoolInv
<1>2. SUFFICES ASSUME nth[N] # NULL PROVE FALSE
  BY DEF ListEnds
<1>. HIDE DEF N
<1>3. \A i \in 0..N : nth[i] # NULL
  <2>. DEFINE Bad == {k \in Nat : k <= N /\ nth[N - k] = NULL}
  <2>1. ASSUME Bad # {} PROVE FALSE
    <3>1. PICK k \in Bad : \A l \in Bad : k <= l
      <4>1. Bad \in SUBSET Nat
        OBVIOUS
      <4>. HIDE DEF Bad
      <4>. QED
        BY <2>1, <4>1, LeastNat
    <3>2. k # 0
      BY <1>1, <1>2, <3>1
    <3>3. k - 1 \in Nat /\ k - 1 <= N /\ N - k \in Nat /\ (N - k) + 1 = N - (k - 1)
      BY <1>1, <3>1, <3>2
    <3>4. nth[N - (k - 1)] = NULL
      <4>1. nth[(N - k) + 1] = After(nth[N - k])
        BY <3>3, NthSteps
      <4>. QED
        BY <3>1, <3>3, <4>1 DEF After
    <3>. QED
      BY <3>1, <3>3, <3>4
  <2>2. ASSUME NEW i \in 0..N PROVE nth[i] # NULL
    <3>1. N - i \in Nat /\ N - i <= N /\ N - (N - i) = i
      BY <1>1
    <3>2. N - i \notin Bad
      BY <2>1
    <3>. QED
      BY <3>1, <3>2
  <2>. QED
    BY <2>2
<1>. DEFINE f == [i \in 0..N |-> nth[i]]
<1>4. f \in [0..N -> Slots]
  <2>1. \A i \in 0..N : nth[i] \in Slots
    BY <1>1, <1>3, NthInList DEF InList, Chained
  <2>. QED
    BY <2>1
<1>5. IsFiniteSet(0..N) /\ Cardinality(0..N) = N + 1
  BY <1>1, FS_Interval
<1>6. PICK x, y \in 0..N : x # y /\ f[x] = f[y]
  <2>. HIDE DEF f
  <2>. QED
    BY <1>1, <1>4, <1>5, FS_PigeonHole DEF N
<1>7. x \in Nat /\ y \in Nat /\ nth[x] = nth[y] /\ nth[x] # NULL
  BY <1>1, <1>3, <1>6
<1>. QED
  BY <1>6, <1>7, NthDistinct

------------------------------------------------------------------------------

\* The types of the pool, its free list and its threads (memoryPool.cc).
THEOREM TypeCorrect == Spec => []TypeOK
<1>1. PoolInv => TypeOK
  BY DEF PoolInv
<1>. QED
  BY <1>1, Invariant, PTL

\* Slots hold their object, lie aligned in their blocks and do not overlap,
\* whatever the size of the object and wherever the blocks lie: the padding
\* that wraps around and lastSlot_ are right (memoryPool.cc:65-70, :76).
THEOREM SlotsDoFit == Spec => []SlotsFit
<1>1. ASSUME PoolInv PROVE SlotsFit
  <2>1. ASSUME NEW s \in Slots
        PROVE  /\ s % SizeofSlot = 0
               /\ \E b \in ToSet(blocks) : b + SizeofSlot <= s /\ s + objectSize <= b + BlockSize_
    <3>1. PICK b \in ToSet(blocks) : CutFrom(s, b)
      BY <1>1 DEF PoolInv, BlockInv, SlotsInBlocks
    <3>2. s \in Nat /\ s % SizeofSlot = 0 /\ b \in Nat
      BY <1>1, Blocks DEF PoolInv, BlockInv, SlotsInBlocks
    <3>3. objectSize \in Nat /\ SlotSize_ \in Nat /\ objectSize <= SlotSize_ /\ BlockSize_ \in Nat
      BY <1>1, Sizes
    <3>4. s + objectSize <= b + BlockSize_
      BY <3>1, <3>2, <3>3 DEF CutFrom, InBlock
    <3>. QED
      BY <3>1, <3>2, <3>4 DEF CutFrom, InBlock
  <2>2. ASSUME NEW r \in Slots, NEW s \in Slots, r < s PROVE r + objectSize <= s
    <3>1. r \in Nat /\ s \in Nat
      BY <1>1, SlotAddress
    <3>2. Apart(r, s)
      BY <1>1, <2>2, <3>1 DEF PoolInv, BlockInv, SlotsApart
    <3>3. objectSize \in Nat /\ SlotSize_ \in Nat /\ objectSize <= SlotSize_ /\ SlotSize_ >= 8
      BY <1>1, Sizes
    <3>. QED
      BY <2>2, <3>1, <3>2, <3>3 DEF Apart
  <2>. QED
    BY <2>1, <2>2 DEF SlotsFit
<1>. QED
  BY <1>1, Invariant, PTL

\* No slot is in use twice, or in use and free, for any number of threads,
\* although allocate looks at the free list before it has the mutex and
\* allocateNewBlock clears it without one (memoryPool.cc:31-34, :52-54, :72).
THEOREM SlotsAreUsedOnce == Spec => []SlotsUsedOnce
<1>1. ASSUME PoolInv PROVE SlotsUsedOnce
  <2>1. FreeSlots \subseteq Chained
    <3>1. Cardinality(Slots) \in Nat
      BY <1>1, FS_CardinalityType DEF PoolInv
    <3>2. \A n \in 0..Cardinality(Slots) : nth[n] \in Chained \cup {NULL}
      BY <1>1, <3>1, NthInList DEF InList
    <3>. QED
      BY <3>2 DEF FreeSlots
  <2>2. Pushing \subseteq Chained
    BY <1>1 DEF PoolInv, ListInv, Heads, First, Pushing
  <2>3. ListEnds
    BY <1>1, ListHasEnd
  <2>. QED
    BY <1>1, <2>1, <2>2, <2>3 DEF SlotsUsedOnce, PoolInv, ListInv, Owners
<1>. QED
  BY <1>1, Invariant, PTL

------------------------------------------------------------------------------
(* LFU: sequences of keys.                                                   *)

\* Min is the least.
LEMMA LeastMin ==
    ASSUME NEW S \in SUBSET Nat, S # {}
    PROVE  Min(S) \in S /\ \A n \in S : Min(S) <= n
BY LeastNat DEF Min

\* Removing the i-th of a sequence.
LEMMA RemovedAt ==
    ASSUME NEW s \in Seq(Keys), NEW i \in 1..Len(s)
    PROVE  /\ RemoveAt(s, i) \in Seq(Keys)
           /\ DOMAIN RemoveAt(s, i) = 1..(Len(s) - 1)
           /\ \A j \in 1..(Len(s) - 1) :
                 RemoveAt(s, i)[j] = IF j < i THEN s[j] ELSE s[j + 1]
<1>. DEFINE a == SubSeq(s, 1, i - 1)
            b == SubSeq(s, i + 1, Len(s))
<1>1. Len(s) \in Nat /\ i \in Nat /\ i >= 1 /\ i <= Len(s)
  OBVIOUS
<1>2. a \in Seq(Keys) /\ Len(a) = i - 1 /\ \A j \in 1..(i - 1) : a[j] = s[j]
  BY <1>1
<1>3. b \in Seq(Keys) /\ Len(b) = Len(s) - i /\ \A j \in 1..(Len(s) - i) : b[j] = s[i + j]
  BY <1>1
<1>. HIDE DEF a, b
<1>4. /\ a \o b \in Seq(Keys) /\ Len(a \o b) = Len(s) - 1
      /\ DOMAIN (a \o b) = 1..(Len(s) - 1)
  <2>1. a \o b \in Seq(Keys)
    <3>1. \A x, y \in Seq(Keys) : x \o y \in Seq(Keys)
      OBVIOUS
    <3>. QED
      BY <1>2, <1>3, <3>1
  <2>2. Len(a \o b) = Len(a) + Len(b)
    <3>1. \A x, y \in Seq(Keys) : Len(x \o y) = Len(x) + Len(y)
      OBVIOUS
    <3>. QED
      BY <1>2, <1>3, <3>1
  <2>3. Len(a) + Len(b) = Len(s) - 1
    BY <1>1, <1>2, <1>3
  <2>. QED
    BY <2>1, <2>2, <2>3
<1>5. ASSUME NEW j \in 1..(Len(s) - 1)
      PROVE  (a \o b)[j] = IF j < i THEN s[j] ELSE s[j + 1]
  <2>1. CASE j < i
    BY <1>1, <1>2, <1>3, <2>1
  <2>2. CASE ~(j < i)
    <3>1. j - (i - 1) \in 1..(Len(s) - i) /\ i + (j - (i - 1)) = j + 1
      BY <1>1, <2>2
    <3>2. (a \o b)[j] = b[j - (i - 1)]
      BY <1>1, <1>2, <1>3, <2>2
    <3>. QED
      BY <1>3, <2>2, <3>1, <3>2
  <2>. QED
    BY <2>1, <2>2
<1>. QED
  BY <1>4, <1>5 DEF RemoveAt, a, b

\* removeNode finds the place of its key.
LEMMA RemoveNodeAt ==
    ASSUME NEW s \in Seq(Keys), NEW k, k \in ToSet(s)
    PROVE  \E i \in 1..Len(s) : s[i] = k /\ removeNode(s, k) = RemoveAt(s, i)
<1>. DEFINE I == {i \in 1..Len(s) : s[i] = k}
<1>1. I # {} /\ I \in SUBSET Nat
  BY DEF ToSet
<1>2. Min(I) \in I
  <2>. HIDE DEF I
  <2>. QED
    BY <1>1, LeastMin
<1>3. SelectInSeq(s, LAMBDA v : v = k) = Min(I)
  BY <1>1 DEF SelectInSeq
<1>4. \E i \in 1..Len(s) : s[i] = k
  BY <1>1
<1>5. removeNode(s, k) = RemoveAt(s, SelectInSeq(s, LAMBDA v : v = k))
  BY <1>4 DEF removeNode, RemoveFirst
<1>. QED
  BY <1>2, <1>3, <1>5

\* each element of r before another is also before it in s
Keeps(r, s) ==
    \A i, j \in DOMAIN r : i < j =>
        \E p, q \in DOMAIN s : p < q /\ s[p] = r[i] /\ s[q] = r[j]

\* What is left of a list without a key of it, and a list with one more.
LEMMA Removed ==
    ASSUME NEW s \in Seq(Keys), IsInjective(s), NEW k \in ToSet(s)
    PROVE  /\ removeNode(s, k) \in Seq(Keys) /\ IsInjective(removeNode(s, k))
           /\ ToSet(removeNode(s, k)) = ToSet(s) \ {k}
           /\ Keeps(removeNode(s, k), s)
<1>1. PICK i \in 1..Len(s) : s[i] = k /\ removeNode(s, k) = RemoveAt(s, i)
  BY RemoveNodeAt
<1>. DEFINE r == removeNode(s, k)
            at(j) == IF j < i THEN j ELSE j + 1
<1>2. Len(s) \in Nat /\ i \in Nat /\ i >= 1 /\ DOMAIN s = 1..Len(s)
  OBVIOUS
<1>3. /\ r \in Seq(Keys) /\ DOMAIN r = 1..(Len(s) - 1)
      /\ \A j \in DOMAIN r : r[j] = s[at(j)]
  BY <1>1, RemovedAt
<1>. HIDE DEF r
<1>4. /\ \A j \in DOMAIN r : at(j) \in DOMAIN s /\ at(j) # i
      /\ \A j, l \in DOMAIN r : j < l => at(j) < at(l)
      /\ \A j, l \in DOMAIN r : at(j) = at(l) => j = l
  BY <1>2, <1>3
<1>5. \A p \in DOMAIN s \ {i} : \E j \in DOMAIN r : at(j) = p
  <2>1. ASSUME NEW p \in DOMAIN s \ {i} PROVE \E j \in DOMAIN r : at(j) = p
    <3>1. CASE p < i
      BY <1>2, <1>3, <3>1
    <3>2. CASE p > i
      <4>1. p - 1 \in DOMAIN r /\ at(p - 1) = p
        BY <1>2, <1>3, <3>2
      <4>. QED
        BY <4>1
    <3>. QED
      BY <1>2, <3>1, <3>2
  <2>. QED
    BY <2>1
<1>6. \A p \in DOMAIN s : s[p] = k <=> p = i
  BY <1>1, <1>2 DEF IsInjective
<1>. HIDE DEF at
<1>7. IsInjective(r)
  BY <1>3, <1>4 DEF IsInjective
<1>8. ToSet(r) = ToSet(s) \ {k}
  BY <1>3, <1>4, <1>5, <1>6 DEF ToSet
<1>9. Keeps(r, s)
  BY <1>3, <1>4 DEF Keeps
<1>. QED
  BY <1>3, <1>7, <1>8, <1>9 DEF r

LEMMA Added ==
    ASSUME NEW s \in Seq(Keys), IsInjective(s), NEW k \in Keys, k \notin ToSet(s)
    PROVE  /\ addNode(s, k) \in Seq(Keys) /\ IsInjective(addNode(s, k))
           /\ ToSet(addNode(s, k)) = ToSet(s) \cup {k}
           /\ \A i, j \in DOMAIN addNode(s, k) : i < j =>
                 /\ i \in DOMAIN s /\ addNode(s, k)[i] = s[i]
                 /\ (j \in DOMAIN s /\ addNode(s, k)[j] = s[j]) \/ addNode(s, k)[j] = k
<1>. DEFINE r == addNode(s, k)
<1>1. Len(s) \in Nat /\ DOMAIN s = 1..Len(s)
  OBVIOUS
<1>2. /\ r \in Seq(Keys) /\ DOMAIN r = 1..(Len(s) + 1) /\ r[Len(s) + 1] = k
      /\ \A i \in DOMAIN s : i \in DOMAIN r /\ r[i] = s[i]
  BY <1>1 DEF addNode
<1>. HIDE DEF r
<1>3. DOMAIN r = DOMAIN s \cup {Len(s) + 1} /\ Len(s) + 1 \notin DOMAIN s
  BY <1>1, <1>2
<1>4. \A i, j \in DOMAIN r : i < j => i \in DOMAIN s
  BY <1>1, <1>2
<1>5. \A i \in DOMAIN s : s[i] # k
  BY DEF ToSet
<1>6. IsInjective(r)
  BY <1>2, <1>3, <1>5 DEF IsInjective
<1>7. ToSet(r) = ToSet(s) \cup {k}
  BY <1>2, <1>3 DEF ToSet
<1>. QED
  BY <1>2, <1>3, <1>4, <1>6, <1>7 DEF r

------------------------------------------------------------------------------
(* The lists hold the keys of the cache.                                     *)

WithFreq(nodes, f) == {k \in DOMAIN nodes : nodes[k] = f}

NodesOk(nodes) ==
    /\ DOMAIN nodes \subseteq Keys /\ IsFiniteSet(DOMAIN nodes)
    /\ nodes \in [DOMAIN nodes -> Nat \ {0}]

ListsOk(lists, nodes) ==
    /\ DOMAIN lists \subseteq Nat \ {0}
    /\ lists \in [DOMAIN lists -> Seq(Keys)]
    /\ \A k \in DOMAIN nodes : nodes[k] \in DOMAIN lists
    /\ \A f \in DOMAIN lists :
          ToSet(lists[f]) = WithFreq(nodes, f) /\ IsInjective(lists[f])

\* keys of a frequency are linked in the order of their last accesses
Ordered(lists, rel) ==
    \A f \in DOMAIN lists : \A i, j \in DOMAIN lists[f] :
        i < j => <<lists[f][i], lists[f][j]>> \in rel

Without(nodes, k) == Restrict(nodes, DOMAIN nodes \ {k})

With(nodes, k, f) == [j \in DOMAIN nodes \cup {k} |-> IF j = k THEN f ELSE nodes[j]]

\* A key leaves its list.
LEMMA KeyRemoved ==
    ASSUME NEW lists, NEW nodes, NodesOk(nodes), ListsOk(lists, nodes),
           NEW k \in DOMAIN nodes
    PROVE  LET taken == removeFromFreqList(lists, k, nodes[k])
               others == DOMAIN nodes \ {k}
           IN  /\ DOMAIN taken = DOMAIN lists
               /\ ListsOk(taken, Without(nodes, k))
               /\ \A rel : Ordered(lists, rel) =>
                     Ordered(taken, rel \cap (others \X others))
<1>. DEFINE f == nodes[k]
            s == lists[f]
            taken == removeFromFreqList(lists, k, f)
            others == DOMAIN nodes \ {k}
            rest == Without(nodes, k)
<1>1. f \in DOMAIN lists /\ s \in Seq(Keys) /\ IsInjective(s) /\ ToSet(s) = WithFreq(nodes, f)
  BY DEF ListsOk
<1>2. k \in ToSet(s)
  BY <1>1 DEF WithFreq
<1>3. /\ removeNode(s, k) \in Seq(Keys) /\ IsInjective(removeNode(s, k))
      /\ ToSet(removeNode(s, k)) = ToSet(s) \ {k}
      /\ Keeps(removeNode(s, k), s)
  BY <1>1, <1>2, Removed
<1>4. /\ DOMAIN taken = DOMAIN lists
      /\ taken[f] = removeNode(s, k)
      /\ \A g \in DOMAIN lists \ {f} : taken[g] = lists[g]
  BY <1>1 DEF removeFromFreqList, ListsOk
<1>5. DOMAIN rest = others /\ \A j \in others : rest[j] = nodes[j]
  BY DEF Without, Restrict
<1>6. /\ WithFreq(rest, f) = WithFreq(nodes, f) \ {k}
      /\ \A g : g # f => WithFreq(rest, g) = WithFreq(nodes, g)
  BY <1>5 DEF WithFreq
<1>7. taken = [g \in DOMAIN lists |-> taken[g]]
  BY <1>1 DEF removeFromFreqList, ListsOk
<1>. HIDE DEF rest, taken, f, s
<1>8. ListsOk(taken, rest)
  <2>1. \A g \in DOMAIN taken : /\ taken[g] \in Seq(Keys) /\ IsInjective(taken[g])
                                /\ ToSet(taken[g]) = WithFreq(rest, g)
    <3>1. ASSUME NEW g \in DOMAIN taken
          PROVE  /\ taken[g] \in Seq(Keys) /\ IsInjective(taken[g])
                 /\ ToSet(taken[g]) = WithFreq(rest, g)
      <4>1. CASE g = f
        BY <1>1, <1>3, <1>4, <1>6, <4>1
      <4>2. CASE g # f
        BY <1>4, <1>6, <4>2 DEF ListsOk
      <4>. QED
        BY <4>1, <4>2
    <3>. QED
      BY <3>1
  <2>2. taken \in [DOMAIN taken -> Seq(Keys)]
    BY <1>4, <1>7, <2>1
  <2>. QED
    BY <1>4, <1>5, <2>1, <2>2 DEF ListsOk
<1>9. ASSUME NEW rel, Ordered(lists, rel)
      PROVE  Ordered(taken, rel \cap (others \X others))
  <2>1. ASSUME NEW g \in DOMAIN taken, NEW i \in DOMAIN taken[g], NEW j \in DOMAIN taken[g], i < j
        PROVE  <<taken[g][i], taken[g][j]>> \in rel \cap (others \X others)
    <3>1. taken[g][i] \in others /\ taken[g][j] \in others
      <4>1. taken[g][i] \in WithFreq(rest, g) /\ taken[g][j] \in WithFreq(rest, g)
        BY <1>8 DEF ListsOk, ToSet
      <4>. QED
        BY <4>1, <1>5 DEF WithFreq
    <3>2. <<taken[g][i], taken[g][j]>> \in rel
      <4>1. CASE g = f
        <5>1. PICK p, q \in DOMAIN s : p < q /\ s[p] = taken[g][i] /\ s[q] = taken[g][j]
          BY <1>3, <1>4, <2>1, <4>1 DEF Keeps
        <5>2. <<s[p], s[q]>> \in rel
          BY <1>1, <1>9, <5>1 DEF Ordered, s
        <5>. QED
          BY <5>1, <5>2
      <4>2. CASE g # f
        BY <1>4, <1>9, <2>1, <4>2 DEF Ordered
      <4>. QED
        BY <4>1, <4>2
    <3>. QED
      BY <3>1, <3>2
  <2>. QED
    BY <2>1 DEF Ordered
<1>. QED
  BY <1>4, <1>8, <1>9 DEF rest, taken, f

\* A key that is in no list goes to the end of one.
LEMMA KeyAdded ==
    ASSUME NEW lists, NEW nodes, NodesOk(nodes), ListsOk(lists, nodes),
           NEW k \in Keys \ DOMAIN nodes, NEW f \in Nat \ {0}
    PROVE  LET linked == addToFreqList(lists, k, f)
           IN  /\ DOMAIN linked = DOMAIN lists \cup {f}
               /\ ListsOk(linked, With(nodes, k, f))
               /\ \A rel : Ordered(lists, rel) =>
                     Ordered(linked, rel \cup ((DOMAIN nodes) \X {k}))
<1>. DEFINE s == ListOf(lists, f)
            linked == addToFreqList(lists, k, f)
            more == With(nodes, k, f)
<1>1. /\ s \in Seq(Keys) /\ IsInjective(s) /\ ToSet(s) = WithFreq(nodes, f)
  <2>1. CASE f \in DOMAIN lists
    BY <2>1 DEF ListsOk, ListOf
  <2>2. CASE f \notin DOMAIN lists
    <3>1. s = <<>> /\ WithFreq(nodes, f) = {}
      BY <2>2 DEF ListsOk, ListOf, WithFreq
    <3>2. <<>> \in Seq(Keys) /\ DOMAIN <<>> = {}
      OBVIOUS
    <3>. HIDE DEF s
    <3>. QED
      BY <3>1, <3>2 DEF ToSet, IsInjective
  <2>. QED
    BY <2>1, <2>2
<1>2. k \notin ToSet(s)
  BY <1>1 DEF WithFreq
<1>3. /\ DOMAIN linked = DOMAIN lists \cup {f}
      /\ linked[f] = addNode(s, k)
      /\ \A g \in DOMAIN lists \ {f} : linked[g] = lists[g]
      /\ linked = [g \in DOMAIN linked |-> linked[g]]
  BY DEF addToFreqList
<1>4. /\ DOMAIN more = DOMAIN nodes \cup {k}
      /\ more[k] = f /\ \A j \in DOMAIN nodes : more[j] = nodes[j]
  BY DEF With
<1>5. /\ WithFreq(more, f) = WithFreq(nodes, f) \cup {k}
      /\ \A g : g # f => WithFreq(more, g) = WithFreq(nodes, g)
  BY <1>4 DEF WithFreq
<1>. HIDE DEF s, linked, more
<1>6. /\ addNode(s, k) \in Seq(Keys) /\ IsInjective(addNode(s, k))
      /\ ToSet(addNode(s, k)) = ToSet(s) \cup {k}
      /\ \A i, j \in DOMAIN addNode(s, k) : i < j =>
            /\ i \in DOMAIN s /\ addNode(s, k)[i] = s[i]
            /\ (j \in DOMAIN s /\ addNode(s, k)[j] = s[j]) \/ addNode(s, k)[j] = k
  BY <1>1, <1>2, Added
<1>7. ListsOk(linked, more)
  <2>1. \A g \in DOMAIN linked : /\ linked[g] \in Seq(Keys) /\ IsInjective(linked[g])
                                 /\ ToSet(linked[g]) = WithFreq(more, g)
    <3>1. ASSUME NEW g \in DOMAIN linked
          PROVE  /\ linked[g] \in Seq(Keys) /\ IsInjective(linked[g])
                 /\ ToSet(linked[g]) = WithFreq(more, g)
      <4>1. CASE g = f
        BY <1>1, <1>3, <1>5, <1>6, <4>1
      <4>2. CASE g # f
        BY <1>3, <1>5, <4>2 DEF ListsOk
      <4>. QED
        BY <4>1, <4>2
    <3>. QED
      BY <3>1
  <2>2. linked \in [DOMAIN linked -> Seq(Keys)]
    BY <1>3, <2>1
  <2>. QED
    BY <1>3, <1>4, <2>1, <2>2 DEF ListsOk
<1>8. ASSUME NEW rel, Ordered(lists, rel)
      PROVE  Ordered(linked, rel \cup ((DOMAIN nodes) \X {k}))
  <2>1. ASSUME NEW g \in DOMAIN linked, NEW i \in DOMAIN linked[g], NEW j \in DOMAIN linked[g], i < j
        PROVE  <<linked[g][i], linked[g][j]>> \in rel \cup ((DOMAIN nodes) \X {k})
    <3>1. CASE g = f
      <4>1. i \in DOMAIN s /\ linked[g][i] = s[i]
        BY <1>3, <1>6, <2>1, <3>1
      <4>2. s[i] \in DOMAIN nodes
        BY <1>1, <4>1 DEF ToSet, WithFreq
      <4>3. CASE linked[g][j] = k
        <5>1. linked[g][i] \in DOMAIN nodes
          BY <4>1, <4>2
        <5>. QED
          BY <4>3, <5>1
      <4>4. CASE j \in DOMAIN s /\ linked[g][j] = s[j]
        <5>1. f \in DOMAIN lists /\ s = lists[f]
          <6>1. CASE f \notin DOMAIN lists
            BY <4>1, <6>1 DEF s, ListOf
          <6>. QED
            BY <6>1 DEF s, ListOf
        <5>2. <<s[i], s[j]>> \in rel
          BY <1>8, <2>1, <4>1, <4>4, <5>1 DEF Ordered
        <5>. QED
          BY <4>1, <4>4, <5>2
      <4>. QED
        BY <1>3, <1>6, <2>1, <3>1, <4>3, <4>4
    <3>2. CASE g # f
      BY <1>3, <1>8, <2>1, <3>2 DEF Ordered
    <3>. QED
      BY <3>1, <3>2
  <2>. QED
    BY <2>1 DEF Ordered
<1>. QED
  BY <1>3, <1>7, <1>8 DEF linked, more

\* A key goes from the list of its frequency to the end of another.
LEMMA KeyMoved ==
    ASSUME NEW lists, NEW nodes, NodesOk(nodes), ListsOk(lists, nodes),
           NEW k \in DOMAIN nodes, NEW g \in Nat \ {0}
    PROVE  LET f == nodes[k]
               moved == addToFreqList(removeFromFreqList(lists, k, f), k, g)
               others == DOMAIN nodes \ {k}
           IN  /\ ListsOk(moved, [nodes EXCEPT ![k] = g])
               /\ f \in DOMAIN moved
               /\ \A rel : Ordered(lists, rel) =>
                     Ordered(moved, (rel \cap (others \X others)) \cup (others \X {k}))
<1>. DEFINE f == nodes[k]
            others == DOMAIN nodes \ {k}
<1>1. PICK taken : taken = removeFromFreqList(lists, k, f)
  OBVIOUS
<1>2. PICK rest : rest = Without(nodes, k)
  OBVIOUS
<1>4. PICK moved : moved = addToFreqList(taken, k, g)
  OBVIOUS
<1>5. /\ DOMAIN taken = DOMAIN lists
      /\ ListsOk(taken, rest)
      /\ \A rel : Ordered(lists, rel) => Ordered(taken, rel \cap (others \X others))
  BY <1>1, <1>2, KeyRemoved
<1>6. /\ DOMAIN rest = others /\ others \subseteq Keys /\ k \in Keys \ DOMAIN rest
      /\ \A j \in others : rest[j] = nodes[j]
      /\ NodesOk(rest)
  <2>1. IsFiniteSet(others)
    BY FS_RemoveElement DEF NodesOk
  <2>. QED
    BY <1>2, <2>1 DEF Without, Restrict, NodesOk
<1>7. With(rest, k, g) = [nodes EXCEPT ![k] = g]
  BY <1>6 DEF With, NodesOk
<1>8. /\ DOMAIN moved = DOMAIN taken \cup {g}
      /\ ListsOk(moved, With(rest, k, g))
      /\ \A rel : Ordered(taken, rel) => Ordered(moved, rel \cup ((DOMAIN rest) \X {k}))
  <2>1. NodesOk(rest) /\ ListsOk(taken, rest) /\ k \in Keys \ DOMAIN rest
    BY <1>5, <1>6
  <2>2. /\ DOMAIN addToFreqList(taken, k, g) = DOMAIN taken \cup {g}
        /\ ListsOk(addToFreqList(taken, k, g), With(rest, k, g))
        /\ \A rel : Ordered(taken, rel) =>
             Ordered(addToFreqList(taken, k, g), rel \cup ((DOMAIN rest) \X {k}))
    BY <2>1, KeyAdded
  <2>. QED
    BY <1>4, <2>2
<1>9. f \in DOMAIN lists
  BY DEF ListsOk
<1>10. ASSUME NEW rel, Ordered(lists, rel)
       PROVE  Ordered(moved, (rel \cap (others \X others)) \cup (others \X {k}))
  <2>. HIDE DEF others
  <2>1. Ordered(taken, rel \cap (others \X others))
    BY <1>5, <1>10
  <2>. QED
    BY <1>6, <1>8, <2>1
<1>. HIDE DEF f
<1>11. /\ ListsOk(moved, [nodes EXCEPT ![k] = g])
       /\ f \in DOMAIN moved
  BY <1>5, <1>7, <1>8, <1>9
<1>12. moved = addToFreqList(removeFromFreqList(lists, k, f), k, g)
  BY <1>1, <1>4
<1>. QED
  BY <1>10, <1>11, <1>12 DEF f

------------------------------------------------------------------------------
(* The counts.  A unit is one access of a key of the cache that its          *)
(* frequency still counts: the total never falls below their number.        *)

Units(nodes) == {u \in (DOMAIN nodes) \X (Nat \ {0}) : u[2] <= nodes[u[1]]}

UnitsOk(nodes, total) == IsFiniteSet(Units(nodes)) /\ Cardinality(Units(nodes)) <= total

LEMMA UnitsOfNode ==
    ASSUME NEW nodes, NodesOk(nodes), NEW k \in DOMAIN nodes
    PROVE  {k} \X (1..nodes[k]) = {u \in Units(nodes) : u[1] = k}
<1>1. nodes[k] \in Nat
  BY DEF NodesOk
<1>. QED
  BY <1>1 DEF Units

LEMMA UnitsRemoved ==
    ASSUME NEW nodes, NodesOk(nodes), NEW total \in Nat, UnitsOk(nodes, total),
           NEW k \in DOMAIN nodes
    PROVE  /\ NodesOk(Without(nodes, k))
           /\ total - nodes[k] \in Nat
           /\ UnitsOk(Without(nodes, k), total - nodes[k])
<1>. DEFINE rest == Without(nodes, k)
            own == {k} \X (1..nodes[k])
<1>1. nodes[k] \in Nat \ {0} /\ IsFiniteSet(DOMAIN nodes)
  BY DEF NodesOk
<1>2. DOMAIN rest = DOMAIN nodes \ {k} /\ \A j \in DOMAIN nodes \ {k} : rest[j] = nodes[j]
  BY DEF Without, Restrict
<1>3. NodesOk(rest)
  <2>1. IsFiniteSet(DOMAIN rest)
    BY <1>1, <1>2, FS_RemoveElement
  <2>2. rest \in [DOMAIN rest -> Nat \ {0}]
    BY DEF NodesOk, Without, Restrict
  <2>. QED
    BY <1>2, <2>1, <2>2 DEF NodesOk
<1>4. IsFiniteSet(own) /\ Cardinality(own) = nodes[k]
  <2>1. IsFiniteSet({k}) /\ Cardinality({k}) = 1
    BY FS_Singleton
  <2>2. IsFiniteSet(1..nodes[k]) /\ Cardinality(1..nodes[k]) = nodes[k]
    BY <1>1, FS_Interval
  <2>3. IsFiniteSet(own) /\ Cardinality(own) = 1 * nodes[k]
    BY <2>1, <2>2, FS_Product
  <2>. QED
    BY <1>1, <2>3
<1>5. Units(nodes) \cap own = own /\ Units(rest) = Units(nodes) \ own
  <2>1. own = {u \in Units(nodes) : u[1] = k}
    BY UnitsOfNode
  <2>. HIDE DEF own, rest
  <2>. QED
    BY <1>2, <2>1 DEF Units
<1>6. /\ IsFiniteSet(Units(rest))
      /\ Cardinality(Units(rest)) = Cardinality(Units(nodes)) - nodes[k]
  <2>. HIDE DEF own, rest
  <2>. QED
    BY <1>4, <1>5, FS_Difference DEF UnitsOk
<1>7. Cardinality(Units(rest)) \in Nat /\ Cardinality(Units(nodes)) \in Nat
  BY <1>6, FS_CardinalityType DEF UnitsOk
<1>. HIDE DEF own, rest
<1>8. total - nodes[k] \in Nat /\ Cardinality(Units(rest)) <= total - nodes[k]
  BY <1>1, <1>6, <1>7 DEF UnitsOk
<1>. QED
  BY <1>3, <1>6, <1>8 DEF UnitsOk, rest

\* A key that goes to frequency 1, or to the one after its own.
LEMMA UnitsAdded ==
    ASSUME NEW nodes, NodesOk(nodes), NEW total \in Nat, UnitsOk(nodes, total),
           NEW k \in Keys, NEW f \in Nat \ {0},
           k \in DOMAIN nodes => f = nodes[k] + 1,
           k \notin DOMAIN nodes => f = 1
    PROVE  /\ NodesOk(With(nodes, k, f))
           /\ UnitsOk(With(nodes, k, f), total + 1)
<1>. DEFINE more == With(nodes, k, f)
<1>1. /\ DOMAIN more = DOMAIN nodes \cup {k}
      /\ more[k] = f /\ \A j \in DOMAIN nodes \ {k} : more[j] = nodes[j]
  BY DEF With
<1>2. NodesOk(more)
  <2>1. IsFiniteSet(DOMAIN more)
    BY <1>1, FS_AddElement DEF NodesOk
  <2>2. more \in [DOMAIN more -> Nat \ {0}]
    BY DEF NodesOk, With
  <2>. QED
    BY <1>1, <2>1, <2>2 DEF NodesOk
<1>3. Units(more) = Units(nodes) \cup {<<k, f>>}
  <2>. HIDE DEF more
  <2>1. \A j \in DOMAIN nodes : nodes[j] \in Nat \ {0}
    BY DEF NodesOk
  <2>2. \A n \in Nat \ {0} : <<k, n>> \in Units(more) <=> <<k, n>> \in Units(nodes) \/ n = f
    <3>1. CASE k \in DOMAIN nodes
      BY <1>1, <2>1, <3>1 DEF Units
    <3>2. CASE k \notin DOMAIN nodes
      BY <1>1, <3>2 DEF Units
    <3>. QED
      BY <3>1, <3>2
  <2>3. \A j, n : j # k => (<<j, n>> \in Units(more) <=> <<j, n>> \in Units(nodes))
    BY <1>1 DEF Units
  <2>4. \A u \in Units(more) \cup Units(nodes) : u = <<u[1], u[2]>> /\ u[2] \in Nat \ {0}
    BY DEF Units
  <2>. QED
    BY <2>2, <2>3, <2>4
<1>4. /\ IsFiniteSet(Units(more)) /\ Cardinality(Units(nodes)) \in Nat
      /\ Cardinality(Units(more)) <= Cardinality(Units(nodes)) + 1
  <2>. HIDE DEF more
  <2>1. IsFiniteSet(Units(nodes)) /\ Cardinality(Units(nodes)) \in Nat
    BY FS_CardinalityType DEF UnitsOk
  <2>2. /\ IsFiniteSet(Units(more))
        /\ \/ Cardinality(Units(more)) = Cardinality(Units(nodes))
           \/ Cardinality(Units(more)) = Cardinality(Units(nodes)) + 1
    <3>1. PICK u : u = <<k, f>>
      OBVIOUS
    <3>2. Units(more) = Units(nodes) \cup {u}
      BY <1>3, <3>1
    <3>. QED
      BY <2>1, <3>2, FS_AddElement
  <2>. QED
    BY <2>1, <2>2
<1>5. Cardinality(Units(more)) \in Nat
  BY <1>4, FS_CardinalityType
<1>. HIDE DEF more
<1>6. Cardinality(Units(more)) <= total + 1
  BY <1>4, <1>5 DEF UnitsOk
<1>. QED
  BY <1>2, <1>4, <1>6 DEF UnitsOk, more

LEMMA UnitsDecayed ==
    ASSUME NEW nodes, NodesOk(nodes), NEW total \in Nat, UnitsOk(nodes, total)
    PROVE  /\ NodesOk(DecayedNodes(nodes))
           /\ UnitsOk(DecayedNodes(nodes), total)
           /\ \A k \in DOMAIN nodes : DecayedNodes(nodes)[k] <= nodes[k]
<1>. DEFINE less == DecayedNodes(nodes)
<1>1. maxAverageNum_ \div 2 \in Nat
  BY CapacityAssumption
<1>2. \A f \in Nat \ {0} : Decayed(f) \in Nat \ {0} /\ Decayed(f) <= f
  BY <1>1 DEF Decayed
<1>3. \A k \in DOMAIN nodes : less[k] \in Nat \ {0} /\ less[k] <= nodes[k]
  BY <1>2 DEF NodesOk, DecayedNodes
<1>4. DOMAIN less = DOMAIN nodes /\ less = [k \in DOMAIN nodes |-> less[k]]
  BY DEF DecayedNodes
<1>. HIDE DEF less
<1>5. NodesOk(less)
  BY <1>3, <1>4 DEF NodesOk
<1>6. Units(less) \in SUBSET Units(nodes)
  <2>1. \A k \in DOMAIN nodes : nodes[k] \in Nat
    BY DEF NodesOk
  <2>2. \A u \in Units(less) : u \in Units(nodes)
    <3>1. ASSUME NEW u \in Units(less) PROVE u \in Units(nodes)
      <4>1. /\ u \in (DOMAIN nodes) \X (Nat \ {0}) /\ u[1] \in DOMAIN nodes
            /\ u[2] \in Nat /\ u[2] <= less[u[1]]
        BY <1>4 DEF Units
      <4>2. u[2] <= nodes[u[1]]
        BY <1>3, <2>1, <4>1
      <4>. QED
        BY <4>1, <4>2 DEF Units
    <3>. QED
      BY <3>1
  <2>. QED
    BY <2>2
<1>7. /\ IsFiniteSet(Units(less)) /\ Cardinality(Units(less)) <= Cardinality(Units(nodes))
      /\ Cardinality(Units(less)) \in Nat /\ Cardinality(Units(nodes)) \in Nat
  BY <1>6, FS_Subset, FS_CardinalityType DEF UnitsOk
<1>8. Cardinality(Units(less)) <= total
  BY <1>7 DEF UnitsOk
<1>. QED
  BY <1>3, <1>5, <1>7, <1>8 DEF UnitsOk, less

------------------------------------------------------------------------------
(* The least frequency.                                                      *)

LeastIs(nodes, min) ==
    /\ \E k \in DOMAIN nodes : nodes[k] = min
    /\ \A k \in DOMAIN nodes : min <= nodes[k]

\* The least frequency is at most the average.
LEMMA LeastBelowAverage ==
    ASSUME NEW nodes, NodesOk(nodes), NEW total \in Nat, UnitsOk(nodes, total),
           NEW min, LeastIs(nodes, min)
    PROVE  /\ min \in Nat \ {0}
           /\ Average(total, Cardinality(DOMAIN nodes)) \in Nat
           /\ min <= Average(total, Cardinality(DOMAIN nodes))
<1>. DEFINE n == Cardinality(DOMAIN nodes)
            base == (DOMAIN nodes) \X (1..min)
<1>1. min \in Nat \ {0} /\ DOMAIN nodes # {} /\ IsFiniteSet(DOMAIN nodes)
  BY DEF NodesOk, LeastIs
<1>2. n \in Nat \ {0}
  BY <1>1, FS_CardinalityType, FS_EmptySet
<1>3. IsFiniteSet(1..min) /\ Cardinality(1..min) = min
  BY <1>1, FS_Interval
<1>4. IsFiniteSet(base) /\ Cardinality(base) = n * min
  BY <1>1, <1>3, FS_Product
<1>5. base \in SUBSET Units(nodes)
  <2>1. ASSUME NEW u \in base PROVE u \in Units(nodes)
    <3>1. u \in (DOMAIN nodes) \X (Nat \ {0}) /\ u[1] \in DOMAIN nodes /\ u[2] \in 1..min
      BY <1>1
    <3>2. nodes[u[1]] \in Nat /\ min <= nodes[u[1]]
      BY <3>1 DEF NodesOk, LeastIs
    <3>3. u[2] <= nodes[u[1]]
      BY <1>1, <3>1, <3>2
    <3>. QED
      BY <3>1, <3>3 DEF Units
  <2>. QED
    BY <2>1
<1>6. Cardinality(base) <= Cardinality(Units(nodes)) /\ Cardinality(Units(nodes)) \in Nat
  BY <1>5, FS_Subset, FS_CardinalityType DEF UnitsOk
<1>7. n * min <= total
  <2>. HIDE DEF base, n
  <2>1. n * min \in Nat
    BY <1>1, <1>2
  <2>. QED
    BY <1>4, <1>6, <2>1 DEF UnitsOk
<1>. HIDE DEF n
<1>8. total \div n \in Nat /\ min <= total \div n
  <2>1. \A a, b, m, q \in Int : b > 0 /\ a = b * q + m /\ 0 <= m /\ m < b /\ q < min => a < b * min
    <3>1. ASSUME NEW a \in Int, NEW b \in Int, NEW m \in Int, NEW q \in Int,
                 b > 0, a = b * q + m, 0 <= m, m < b, q < min
          PROVE  a < b * min
      <4>1. b * (q + 1) <= b * min
        BY <1>1, <3>1
      <4>2. b * (q + 1) = b * q + b
        BY <3>1
      <4>. QED
        BY <1>1, <3>1, <4>1, <4>2
    <3>. QED
      BY <3>1
  <2>2. PICK q \in Int : q = total \div n
    BY <1>2
  <2>3. PICK m \in Int : m = total % n
    BY <1>2
  <2>4. total = n * q + m /\ 0 <= m /\ m < n /\ q \in Nat
    BY <1>2, <2>2, <2>3
  <2>5. ~(q < min)
    BY <1>1, <1>2, <1>7, <2>1, <2>4
  <2>. QED
    BY <1>1, <2>2, <2>4, <2>5
<1>. QED
  BY <1>1, <1>2, <1>8 DEF Average, n

\* updateMinFreq finds the least frequency.
LEMMA UpdatedMin ==
    ASSUME NEW lists, NEW nodes, NodesOk(nodes), ListsOk(lists, nodes),
           NEW min \in Nat \ {0}, min < INT8_MAX, LeastIs(nodes, min)
    PROVE  updateMinFreq(lists) = min
<1>. DEFINE S == {INT8_MAX} \cup {f \in DOMAIN lists : lists[f] # <<>>}
<1>1. S \in SUBSET Nat /\ S # {}
  BY DEF ListsOk, INT8_MAX
<1>2. min \in S
  <2>1. PICK k \in DOMAIN nodes : nodes[k] = min
    BY DEF LeastIs
  <2>2. min \in DOMAIN lists /\ k \in ToSet(lists[min])
    BY <2>1 DEF ListsOk, WithFreq
  <2>3. lists[min] # <<>>
    BY <2>2 DEF ToSet
  <2>. QED
    BY <2>2, <2>3
<1>3. \A f \in S : min <= f
  <2>1. ASSUME NEW f \in DOMAIN lists, lists[f] # <<>> PROVE min <= f
    <3>1. lists[f] \in Seq(Keys) /\ ToSet(lists[f]) = WithFreq(nodes, f)
      BY DEF ListsOk
    <3>2. 1 \in DOMAIN lists[f]
      BY <2>1, <3>1
    <3>3. lists[f][1] \in WithFreq(nodes, f)
      BY <3>1, <3>2 DEF ToSet
    <3>. QED
      BY <3>3 DEF WithFreq, LeastIs
  <2>. QED
    BY <2>1 DEF INT8_MAX
<1>. HIDE DEF S
<1>4. Min(S) \in S /\ \A f \in S : Min(S) <= f
  BY <1>1, LeastMin
<1>5. Min(S) = min
  <2>1. Min(S) \in Nat /\ Min(S) <= min /\ min <= Min(S)
    BY <1>1, <1>2, <1>3, <1>4
  <2>. QED
    BY <2>1
<1>. QED
  BY <1>5 DEF updateMinFreq, S, INT8_MAX

------------------------------------------------------------------------------
(* The decay.                                                                *)

\* A sequence of all keys of a set, each once.
LEMMA AllOnce ==
    ASSUME NEW S \in SUBSET Keys, IsFiniteSet(S), NEW s \in SetToSeqs(S)
    PROVE  s \in Seq(Keys) /\ IsInjective(s) /\ ToSet(s) = S
<1>. DEFINE n == Cardinality(S)
<1>1. n \in Nat
  BY FS_CardinalityType
<1>2. s \in [1..n -> S] /\ \A i, j \in 1..n : i # j => s[i] # s[j]
  BY DEF SetToSeqs
<1>3. IsInjective(s)
  BY <1>2 DEF IsInjective
<1>4. s \in Seq(Keys)
  <2>1. s \in [1..n -> Keys]
    BY <1>2
  <2>. HIDE DEF n
  <2>. QED
    BY <1>1, <2>1
<1>5. s \in Surjection(1..n, S)
  <2>1. s \in Injection(1..n, S)
    BY <1>2, <1>3 DEF Injection
  <2>2. Cardinality(1..n) = n
    BY <1>1, FS_Interval
  <2>. QED
    BY <2>1, <2>2, FS_Injection
<1>6. ToSet(s) = S
  BY <1>2, <1>5 DEF Surjection, ToSet
<1>. QED
  BY <1>3, <1>4, <1>6

\* g holds the lists after each turn of the loop of the decay
Runs(g, n, nodes, lists, order) ==
    /\ g = [i \in 0..n |-> g[i]]
    /\ g[0] = lists
    /\ \A i \in 1..n : g[i] = Decay(g[i - 1], order[i], nodes[order[i]])

\* The loop gets through any number of turns.
LEMMA RunExists ==
    ASSUME NEW nodes, NEW lists, NEW order, NEW n \in Nat
    PROVE  \E g : Runs(g, n, nodes, lists, order)
<1>. DEFINE Bad == {m \in Nat : ~\E g : Runs(g, m, nodes, lists, order)}
<1>1. SUFFICES ASSUME Bad # {} PROVE FALSE
  OBVIOUS
<1>2. PICK m \in Bad : \A k \in Bad : m <= k
  <2>1. Bad \in SUBSET Nat
    OBVIOUS
  <2>. HIDE DEF Bad
  <2>. QED
    BY <1>1, <2>1, LeastNat
<1>3. CASE m = 0
  <2>1. Runs([i \in 0..0 |-> lists], 0, nodes, lists, order)
    BY DEF Runs
  <2>. QED
    BY <1>2, <1>3, <2>1
<1>4. CASE m # 0
  <2>1. m \in Nat /\ m - 1 \in Nat /\ m - 1 \notin Bad
    BY <1>2, <1>4
  <2>2. PICK g : Runs(g, m - 1, nodes, lists, order)
    BY <2>1
  <2>3. PICK y : y = Decay(g[m - 1], order[m], nodes[order[m]])
    OBVIOUS
  <2>. DEFINE h == [i \in 0..m |-> IF i = m THEN y ELSE g[i]]
  <2>4. /\ h = [i \in 0..m |-> h[i]] /\ h[m] = y
        /\ \A i \in 0..(m - 1) : h[i] = g[i]
    BY <2>1
  <2>. HIDE DEF h
  <2>5. h[0] = lists
    <3>1. 0 \in 0..(m - 1)
      BY <2>1
    <3>. QED
      BY <2>2, <2>4, <3>1 DEF Runs
  <2>6. ASSUME NEW i \in 1..m PROVE h[i] = Decay(h[i - 1], order[i], nodes[order[i]])
    <3>1. h[i - 1] = g[i - 1]
      BY <2>1, <2>4
    <3>2. CASE i = m
      BY <2>3, <2>4, <3>1, <3>2
    <3>3. CASE i # m
      <4>1. i \in 1..(m - 1) /\ i \in 0..(m - 1)
        BY <2>1, <3>3
      <4>3. h[i] = g[i]
        BY <2>4, <4>1
      <4>2. g[i] = Decay(g[i - 1], order[i], nodes[order[i]])
        BY <2>2, <4>1 DEF Runs
      <4>. QED
        BY <3>1, <4>2, <4>3
    <3>. QED
      BY <3>2, <3>3
  <2>7. Runs(h, m, nodes, lists, order)
    BY <2>4, <2>5, <2>6 DEF Runs
  <2>. QED
    BY <1>2, <2>7
<1>. QED
  BY <1>3, <1>4

\* What the loop leaves is what its last turn leaves.
LEMMA LoopRuns ==
    ASSUME NEW nodes, NEW lists, NEW order, Len(order) \in Nat
    PROVE  \E g : /\ Runs(g, Len(order), nodes, lists, order)
                  /\ DecayLoop(nodes, lists, order) = g[Len(order)]
<1>. DEFINE N == Len(order)
            IsLoop(f) == f = [n \in 0..N |-> IF n = 0 THEN lists
                                    ELSE Decay(f[n - 1], order[n], nodes[order[n]])]
            after == CHOOSE f : IsLoop(f)
<1>1. \E f : IsLoop(f)
  <2>1. PICK g : Runs(g, N, nodes, lists, order)
    BY RunExists
  <2>2. ASSUME NEW n \in 0..N
        PROVE  g[n] = IF n = 0 THEN lists ELSE Decay(g[n - 1], order[n], nodes[order[n]])
    <3>1. CASE n = 0
      BY <2>1, <3>1 DEF Runs
    <3>2. CASE n # 0
      <4>1. n \in 1..N
        BY <3>2
      <4>2. g[n] = Decay(g[n - 1], order[n], nodes[order[n]])
        BY <2>1, <4>1 DEF Runs
      <4>. QED
        BY <3>2, <4>2
    <3>. QED
      BY <3>1, <3>2
  <2>3. g = [n \in 0..N |-> g[n]]
    BY <2>1 DEF Runs
  <2>4. IsLoop(g)
    BY <2>2, <2>3
  <2>. QED
    BY <2>4
<1>2. IsLoop(after)
  <2>. HIDE DEF IsLoop
  <2>. QED
    BY <1>1
<1>3. DecayLoop(nodes, lists, order) = after[N]
  BY DEF DecayLoop
<1>4. Runs(after, N, nodes, lists, order)
  <2>. HIDE DEF after
  <2>1. \A n \in 0..N : after[n] = IF n = 0 THEN lists
                                   ELSE Decay(after[n - 1], order[n], nodes[order[n]])
    BY <1>2
  <2>2. after = [n \in 0..N |-> after[n]]
    BY <1>2
  <2>3. after[0] = lists
    BY <2>1
  <2>4. ASSUME NEW n \in 1..N
        PROVE  after[n] = Decay(after[n - 1], order[n], nodes[order[n]])
    <3>1. n \in 0..N /\ n # 0
      OBVIOUS
    <3>. QED
      BY <2>1, <3>1
  <2>. QED
    BY <2>2, <2>3, <2>4 DEF Runs
<1>. HIDE DEF after
<1>. QED
  BY <1>3, <1>4

\* the frequencies when n keys of order have decayed
Partly(nodes, order, n) ==
    [k \in DOMAIN nodes |->
        IF \E j \in 1..n : order[j] = k THEN Decayed(nodes[k]) ELSE nodes[k]]

\* A turn of the loop takes one key from its list to that of its new frequency.
LEMMA TurnKeeps ==
    ASSUME NEW nodes, NodesOk(nodes), NEW order \in Seq(Keys), IsInjective(order),
           ToSet(order) = DOMAIN nodes, NEW i \in 1..Len(order), NEW lists,
           ListsOk(lists, Partly(nodes, order, i - 1))
    PROVE  ListsOk(Decay(lists, order[i], nodes[order[i]]), Partly(nodes, order, i))
<1>1. Len(order) \in Nat /\ DOMAIN order = 1..Len(order) /\ i - 1 \in Nat
  OBVIOUS
<1>2. PICK k \in DOMAIN nodes : k = order[i]
  BY <1>1 DEF ToSet
<1>3. PICK f \in Nat \ {0} : f = nodes[k]
  BY DEF NodesOk
<1>4. PICK g \in Nat \ {0} : g = Decayed(f)
  BY <1>3, CapacityAssumption DEF Decayed
<1>5. PICK before : before = Partly(nodes, order, i - 1)
  OBVIOUS
<1>6. NodesOk(before) /\ DOMAIN before = DOMAIN nodes
  <2>1. \A j \in DOMAIN nodes : Decayed(nodes[j]) \in Nat \ {0} /\ nodes[j] \in Nat \ {0}
    BY CapacityAssumption DEF Decayed, NodesOk
  <2>. QED
    BY <1>5, <2>1 DEF Partly, NodesOk
<1>7. before[k] = f
  <2>1. \A j \in 1..(i - 1) : order[j] # k
    BY <1>1, <1>2 DEF IsInjective
  <2>. QED
    BY <1>3, <1>5, <2>1 DEF Partly
<1>8. Partly(nodes, order, i) = [before EXCEPT ![k] = g]
  <2>1. ASSUME NEW j \in DOMAIN nodes
        PROVE  (\E l \in 1..i : order[l] = j) <=> j = k \/ \E l \in 1..(i - 1) : order[l] = j
    <3>1. \A l \in 1..i : l = i \/ l \in 1..(i - 1)
      BY <1>1
    <3>2. i \in 1..i /\ \A l \in 1..(i - 1) : l \in 1..i
      BY <1>1
    <3>. QED
      BY <1>2, <3>1, <3>2
  <2>2. \A j \in DOMAIN nodes :
            Partly(nodes, order, i)[j] = IF j = k THEN g ELSE before[j]
    BY <1>2, <1>3, <1>4, <1>5, <2>1 DEF Partly
  <2>3. /\ Partly(nodes, order, i) = [j \in DOMAIN nodes |-> Partly(nodes, order, i)[j]]
        /\ before = [j \in DOMAIN nodes |-> before[j]]
    BY <1>5 DEF Partly
  <2>. QED
    BY <2>2, <2>3
<1>9. ListsOk(addToFreqList(removeFromFreqList(lists, k, f), k, g), [before EXCEPT ![k] = g])
  <2>1. ListsOk(lists, before) /\ k \in DOMAIN before
    BY <1>5, <1>6
  <2>2. LET moved == addToFreqList(removeFromFreqList(lists, k, before[k]), k, g)
            others == DOMAIN before \ {k}
        IN  /\ ListsOk(moved, [before EXCEPT ![k] = g])
            /\ before[k] \in DOMAIN moved
            /\ \A rel : Ordered(lists, rel) =>
                  Ordered(moved, (rel \cap (others \X others)) \cup (others \X {k}))
    BY <1>6, <2>1, KeyMoved
  <2>. QED
    BY <1>7, <2>2
<1>10. Decay(lists, order[i], nodes[order[i]]) =
          addToFreqList(removeFromFreqList(lists, k, f), k, g)
  BY <1>2, <1>3, <1>4 DEF Decay
<1>. QED
  BY <1>8, <1>9, <1>10

\* However the hash map orders the keys, the decay takes each from the list of
\* its old frequency to that of its new one.
LEMMA ListsDecayed ==
    ASSUME NEW lists, NEW nodes, NodesOk(nodes), ListsOk(lists, nodes),
           NEW mixed \in DecayedLists(nodes, lists)
    PROVE  ListsOk(mixed, DecayedNodes(nodes))
<1>1. PICK order \in SetToSeqs(DOMAIN nodes) : mixed = DecayLoop(nodes, lists, order)
  BY DEF DecayedLists
<1>2. order \in Seq(Keys) /\ IsInjective(order) /\ ToSet(order) = DOMAIN nodes
  BY AllOnce DEF NodesOk
<1>3. PICK N \in Nat : N = Len(order)
  BY <1>2
<1>4. PICK g : Runs(g, N, nodes, lists, order) /\ mixed = g[N]
  BY <1>1, <1>3, LoopRuns
<1>. DEFINE Bad == {n \in 0..N : ~ListsOk(g[n], Partly(nodes, order, n))}
<1>5. Bad = {}
  <2>1. SUFFICES ASSUME Bad # {} PROVE FALSE
    OBVIOUS
  <2>2. PICK n \in Bad : \A k \in Bad : n <= k
    <3>1. Bad \in SUBSET Nat
      BY <1>3
    <3>. HIDE DEF Bad
    <3>. QED
      BY <2>1, <3>1, LeastNat
  <2>3. CASE n = 0
    <3>1. Partly(nodes, order, 0) = nodes
      BY DEF Partly, NodesOk
    <3>2. g[0] = lists
      BY <1>4 DEF Runs
    <3>. QED
      BY <2>2, <2>3, <3>1, <3>2
  <2>4. CASE n # 0
    <3>1. n \in 1..N /\ n - 1 \in 0..N /\ n - 1 \notin Bad
      BY <2>2, <2>4
    <3>2. ListsOk(g[n - 1], Partly(nodes, order, n - 1))
      BY <3>1
    <3>3. g[n] = Decay(g[n - 1], order[n], nodes[order[n]])
      BY <1>4, <3>1 DEF Runs
    <3>4. ListsOk(g[n], Partly(nodes, order, n))
      BY <1>2, <1>3, <3>1, <3>2, <3>3, TurnKeeps
    <3>. QED
      BY <2>2, <3>4
  <2>. QED
    BY <2>3, <2>4
<1>6. ListsOk(mixed, Partly(nodes, order, N))
  BY <1>4, <1>5
<1>7. Partly(nodes, order, N) = DecayedNodes(nodes)
  <2>1. \A k \in DOMAIN nodes : \E j \in 1..N : order[j] = k
    BY <1>2, <1>3 DEF ToSet
  <2>. QED
    BY <2>1 DEF Partly, DecayedNodes
<1>. QED
  BY <1>6, <1>7

\* The frequency of the least node decays to the least, and that is at most the
\* limit of the average again: a decay takes at least one off what is above 1.
LEMMA LeastDecayed ==
    ASSUME NEW nodes, NodesOk(nodes), NEW min, LeastIs(nodes, min),
           min <= maxAverageNum_ + 1
    PROVE  /\ LeastIs(DecayedNodes(nodes), Decayed(min))
           /\ Decayed(min) \in Nat \ {0}
           /\ Decayed(min) <= maxAverageNum_ /\ Decayed(min) < INT8_MAX
<1>1. min \in Nat \ {0} /\ maxAverageNum_ \in Nat /\ maxAverageNum_ >= 2
  BY CapacityAssumption DEF NodesOk, LeastIs
<1>2. PICK half \in Nat : half = maxAverageNum_ \div 2
  BY <1>1
<1>3. half >= 1 /\ maxAverageNum_ + 1 - half < INT8_MAX
  <2>1. maxAverageNum_ + 1 - half < INT8_MAX
    BY <1>2, CapacityAssumption
  <2>. QED
    BY <1>1, <1>2, <2>1
<1>4. /\ Decayed(min) \in Nat \ {0}
      /\ Decayed(min) <= maxAverageNum_ /\ Decayed(min) < INT8_MAX
  BY <1>1, <1>2, <1>3 DEF Decayed, INT8_MAX
<1>5. \A f \in Nat \ {0} : min <= f => Decayed(min) <= Decayed(f)
  BY <1>1, <1>2 DEF Decayed
<1>6. LeastIs(DecayedNodes(nodes), Decayed(min))
  <2>1. PICK k \in DOMAIN nodes : nodes[k] = min
    BY DEF LeastIs
  <2>2. k \in DOMAIN DecayedNodes(nodes) /\ DecayedNodes(nodes)[k] = Decayed(min)
    BY <2>1 DEF DecayedNodes
  <2>3. \A j \in DOMAIN DecayedNodes(nodes) : Decayed(min) <= DecayedNodes(nodes)[j]
    BY <1>5 DEF DecayedNodes, NodesOk, LeastIs
  <2>. QED
    BY <2>2, <2>3 DEF LeastIs
<1>. QED
  BY <1>4, <1>6

\* What addFreqNum leaves, when min is the least frequency and at most one
\* above the limit of the average.
LEMMA FreqNumAdded ==
    ASSUME NEW nodes, NodesOk(nodes), NEW total \in Nat, UnitsOk(nodes, total + 1),
           NEW lists, ListsOk(lists, nodes),
           NEW min, LeastIs(nodes, min), min <= maxAverageNum_ + 1,
           decayed \in BOOLEAN,
           addFreqNum(total, nodes, lists, min)
    PROVE  /\ NodesOk(nodeMap_') /\ Cached' = DOMAIN nodes
           /\ ListsOk(freqToFreqList_', nodeMap_')
           /\ curTotalNum_' = total + 1 /\ curAverageNum_' \in Nat
           /\ UnitsOk(nodeMap_', curTotalNum_')
           /\ LeastIs(nodeMap_', minFreq_')
           /\ minFreq_' \in Nat \ {0} /\ minFreq_' <= maxAverageNum_
           /\ decayed' \in BOOLEAN
           /\ ~decayed' => ~decayed /\ freqToFreqList_' = lists
<1>. DEFINE average == Average(total + 1, Cardinality(DOMAIN nodes))
<1>1. /\ curTotalNum_' = total + 1
      /\ curAverageNum_' = average
      /\ IF average <= maxAverageNum_
         THEN /\ nodeMap_' = nodes
              /\ freqToFreqList_' = lists
              /\ minFreq_' = min
              /\ UNCHANGED decayed
         ELSE /\ nodeMap_' = DecayedNodes(nodes)
              /\ freqToFreqList_' \in DecayedLists(nodes, lists)
              /\ minFreq_' = updateMinFreq(freqToFreqList_')
              /\ decayed' = TRUE
  BY DEF addFreqNum
<1>2. min \in Nat \ {0} /\ average \in Nat /\ min <= average /\ maxAverageNum_ \in Nat
  BY LeastBelowAverage, CapacityAssumption
<1>3. total + 1 \in Nat
  OBVIOUS
<1>. HIDE DEF average
<1>4. CASE average <= maxAverageNum_
  BY <1>1, <1>2, <1>4 DEF Cached
<1>5. CASE ~(average <= maxAverageNum_)
  <2>1. /\ nodeMap_' = DecayedNodes(nodes)
        /\ freqToFreqList_' \in DecayedLists(nodes, lists)
        /\ minFreq_' = updateMinFreq(freqToFreqList_')
        /\ decayed' = TRUE
    BY <1>1, <1>5
  <2>2. NodesOk(DecayedNodes(nodes)) /\ UnitsOk(DecayedNodes(nodes), total + 1)
    BY <1>3, UnitsDecayed
  <2>3. ListsOk(freqToFreqList_', DecayedNodes(nodes))
    BY <2>1, ListsDecayed
  <2>4. /\ LeastIs(DecayedNodes(nodes), Decayed(min))
        /\ Decayed(min) \in Nat \ {0}
        /\ Decayed(min) <= maxAverageNum_ /\ Decayed(min) < INT8_MAX
    BY LeastDecayed
  <2>5. minFreq_' = Decayed(min)
    BY <2>1, <2>2, <2>3, <2>4, UpdatedMin
  <2>6. DOMAIN DecayedNodes(nodes) = DOMAIN nodes
    BY DEF DecayedNodes
  <2>. QED
    BY <1>1, <1>2, <2>1, <2>2, <2>3, <2>4, <2>5, <2>6 DEF Cached
<1>. QED
  BY <1>4, <1>5

------------------------------------------------------------------------------
(* The invariant of the cache.  minFreq_ is the least frequency, so never     *)
(* above the average, and one step takes it at most one above the limit of   *)
(* the average: a decay brings it below INT8_MAX.                            *)

CacheInv ==
    /\ CacheTypeOK
    /\ NodesOk(nodeMap_) /\ UnitsOk(nodeMap_, curTotalNum_)
    /\ ListsOk(freqToFreqList_, nodeMap_)
    /\ Cached # {} => LeastIs(nodeMap_, minFreq_) /\ minFreq_ <= maxAverageNum_
    /\ ~decayed => Ordered(freqToFreqList_, older)

LEMMA InitCacheInv == CacheInit => CacheInv
<1>. SUFFICES ASSUME CacheInit PROVE CacheInv
  OBVIOUS
<1>1. nodeMap_ = <<>> /\ freqToFreqList_ = <<>> /\ DOMAIN <<>> = {}
  BY DEF CacheInit
<1>2. IsFiniteSet({}) /\ Cardinality({}) = 0
  BY FS_EmptySet
<1>3. <<>> \in [{} -> Nat \ {0}] /\ <<>> \in [{} -> Seq(Keys)]
  OBVIOUS
<1>4. NodesOk(nodeMap_)
  BY <1>1, <1>2, <1>3 DEF NodesOk
<1>5. UnitsOk(nodeMap_, curTotalNum_)
  <2>1. Units(nodeMap_) = {}
    BY <1>1 DEF Units
  <2>. QED
    <3>1. curTotalNum_ = 0
      BY DEF CacheInit
    <3>. QED
      BY <1>2, <2>1, <3>1 DEF UnitsOk
<1>6. ListsOk(freqToFreqList_, nodeMap_)
  BY <1>1, <1>3 DEF ListsOk
<1>7. Ordered(freqToFreqList_, older)
  BY <1>1 DEF Ordered
<1>8. CacheTypeOK
  <2>1. Cached = {} /\ Cardinality(Cached) <= capacity_
    BY <1>1, <1>2, CapacityAssumption DEF Cached
  <2>2. minFreq_ \in Nat \ {0} /\ curTotalNum_ \in 0..MaxTotal /\ curAverageNum_ \in Nat
    BY CapacityAssumption DEF CacheInit, INT8_MAX
  <2>3. older \subseteq Cached \X Cached /\ decayed \in BOOLEAN
    BY DEF CacheInit
  <2>. QED
    BY <1>1, <1>3, <2>1, <2>2, <2>3 DEF CacheTypeOK
<1>. QED
  BY <1>1, <1>4, <1>5, <1>6, <1>7, <1>8 DEF CacheInv, Cached

LEMMA Accesses ==
    ASSUME CacheInv, NEW k \in Cached, InBound, getInternal(k)
    PROVE  CacheInv' /\ Cached' = Cached
<1>. DEFINE f == nodeMap_[k]
            others == Cached \ {k}
            taken == removeFromFreqList(freqToFreqList_, k, f)
            lists == addToFreqList(taken, k, f + 1)
            nodes == [nodeMap_ EXCEPT ![k] = f + 1]
            min == MinAfter(f, lists)
            rel == (older \cap (others \X others)) \cup (others \X {k})
<1>1. /\ CacheTypeOK
      /\ NodesOk(nodeMap_) /\ UnitsOk(nodeMap_, curTotalNum_)
      /\ ListsOk(freqToFreqList_, nodeMap_)
      /\ LeastIs(nodeMap_, minFreq_) /\ minFreq_ <= maxAverageNum_
      /\ ~decayed => Ordered(freqToFreqList_, older)
  BY DEF CacheInv
<1>2. /\ k \in DOMAIN nodeMap_ /\ k \in Keys /\ f \in Nat \ {0} /\ f + 1 \in Nat \ {0}
      /\ curTotalNum_ \in Nat /\ curTotalNum_ + 1 \in 0..MaxTotal
      /\ maxAverageNum_ \in Nat
  BY <1>1, CapacityAssumption DEF CacheTypeOK, Cached, InBound
<1>3. /\ ListsOk(lists, nodes) /\ f \in DOMAIN lists
      /\ \A q : Ordered(freqToFreqList_, q) =>
            Ordered(lists, (q \cap (others \X others)) \cup (others \X {k}))
  <2>1. PICK g \in Nat \ {0} : g = f + 1
    BY <1>2
  <2>2. LET moved == addToFreqList(removeFromFreqList(freqToFreqList_, k, nodeMap_[k]), k, g)
            rest == DOMAIN nodeMap_ \ {k}
        IN  /\ ListsOk(moved, [nodeMap_ EXCEPT ![k] = g])
            /\ nodeMap_[k] \in DOMAIN moved
            /\ \A q : Ordered(freqToFreqList_, q) =>
                  Ordered(moved, (q \cap (rest \X rest)) \cup (rest \X {k}))
    BY <1>1, <1>2, KeyMoved
  <2>. QED
    BY <2>1, <2>2 DEF Cached
<1>4. /\ nodes = With(nodeMap_, k, f + 1)
      /\ DOMAIN nodes = Cached /\ nodes[k] = f + 1
      /\ \A j \in others : nodes[j] = nodeMap_[j]
  BY <1>1, <1>2 DEF With, Cached, NodesOk
<1>6. ListsOk(lists, nodes) /\ (~decayed => Ordered(lists, rel))
  <2>. HIDE DEF lists, nodes
  <2>. QED
    BY <1>1, <1>3
<1>7. NodesOk(nodes) /\ UnitsOk(nodes, curTotalNum_ + 1)
  BY <1>1, <1>2, <1>4, UnitsAdded
<1>. HIDE DEF nodes, taken, lists
<1>8. LeastIs(nodes, min) /\ min <= maxAverageNum_ + 1
  <2>1. minFreq_ \in Nat \ {0} /\ minFreq_ <= f
    BY <1>1, <1>2 DEF CacheTypeOK, LeastIs
  <2>2. \A j \in DOMAIN nodes : minFreq_ <= nodes[j] /\ nodes[j] \in Nat
    BY <1>1, <1>2, <1>4, <2>1 DEF LeastIs, NodesOk, Cached
  <2>3. f \in DOMAIN lists /\ lists[f] \in Seq(Keys) /\ ToSet(lists[f]) = WithFreq(nodes, f)
    BY <1>3 DEF ListsOk
  <2>4. CASE f = minFreq_ /\ lists[f] = <<>>
    <3>1. WithFreq(nodes, minFreq_) = {}
      BY <2>3, <2>4 DEF ToSet
    <3>2. \A j \in DOMAIN nodes : minFreq_ + 1 <= nodes[j]
      BY <2>1, <2>2, <3>1 DEF WithFreq
    <3>3. min = minFreq_ + 1
      BY <2>4 DEF MinAfter
    <3>4. k \in DOMAIN nodes /\ nodes[k] = minFreq_ + 1
      BY <1>4, <2>4
    <3>. QED
      BY <1>1, <1>2, <2>1, <3>2, <3>3, <3>4 DEF LeastIs
  <2>5. CASE f = minFreq_ /\ lists[f] # <<>>
    <3>1. 1 \in DOMAIN lists[f]
      BY <2>3, <2>5
    <3>2. lists[f][1] \in WithFreq(nodes, minFreq_)
      BY <2>3, <2>5, <3>1 DEF ToSet
    <3>3. min = minFreq_
      BY <2>5 DEF MinAfter
    <3>. QED
      BY <1>1, <1>2, <2>1, <2>2, <3>2, <3>3 DEF LeastIs, WithFreq
  <2>6. CASE f # minFreq_
    <3>1. PICK j \in Cached : nodeMap_[j] = minFreq_
      BY <1>1 DEF LeastIs, Cached
    <3>2. j \in DOMAIN nodes /\ nodes[j] = minFreq_
      BY <1>4, <2>6, <3>1
    <3>3. min = minFreq_
      BY <2>6 DEF MinAfter
    <3>. QED
      BY <1>1, <1>2, <2>1, <2>2, <3>2, <3>3 DEF LeastIs
  <2>. QED
    BY <2>4, <2>5, <2>6
<1>9. /\ addFreqNum(curTotalNum_, nodes, lists, min) /\ Accessed(k)
  BY DEF getInternal, nodes, lists, taken
<1>10. decayed \in BOOLEAN /\ older \subseteq Cached \X Cached /\ Cardinality(Cached) <= capacity_
  BY <1>1 DEF CacheTypeOK
<1>. HIDE DEF min
<1>11. /\ NodesOk(nodeMap_') /\ Cached' = DOMAIN nodes
       /\ ListsOk(freqToFreqList_', nodeMap_')
       /\ curTotalNum_' = curTotalNum_ + 1 /\ curAverageNum_' \in Nat
       /\ UnitsOk(nodeMap_', curTotalNum_')
       /\ LeastIs(nodeMap_', minFreq_')
       /\ minFreq_' \in Nat \ {0} /\ minFreq_' <= maxAverageNum_
       /\ decayed' \in BOOLEAN
       /\ ~decayed' => ~decayed /\ freqToFreqList_' = lists
  BY <1>2, <1>6, <1>7, <1>8, <1>9, <1>10, FreqNumAdded
<1>12. Cached' = Cached
  BY <1>4, <1>11
<1>13. older' = rel /\ older' \subseteq Cached' \X Cached'
  BY <1>9, <1>12 DEF Accessed
<1>14. ~decayed' => Ordered(freqToFreqList_', older')
  BY <1>6, <1>11, <1>13
<1>15. Cardinality(Cached') <= capacity_ /\ curTotalNum_' \in 0..MaxTotal
  BY <1>2, <1>10, <1>11, <1>12
<1>16. CacheInv'
  <2>1. CacheTypeOK'
    BY <1>11, <1>13, <1>15 DEF CacheTypeOK, NodesOk, ListsOk, Cached
  <2>. QED
    BY <1>11, <1>14, <2>1 DEF CacheInv
<1>. QED
  BY <1>12, <1>16

LEMMA Inserts ==
    ASSUME NEW nodes, NodesOk(nodes), NEW total \in Nat, UnitsOk(nodes, total),
           NEW lists, ListsOk(lists, nodes),
           NEW k \in Keys \ DOMAIN nodes,
           total < MaxTotal, Cardinality(DOMAIN nodes) < capacity_,
           decayed \in BOOLEAN,
           ~decayed => Ordered(lists, older \cap ((DOMAIN nodes) \X (DOMAIN nodes))),
           insert(k, nodes, lists, total)
    PROVE  CacheInv' /\ Cached' = DOMAIN nodes \cup {k}
<1>. DEFINE more == With(nodes, k, 1)
            linked == addToFreqList(lists, k, 1)
            others == DOMAIN nodes
            rel == (older \cap (others \X others)) \cup (others \X {k})
<1>1. capacity_ \in Nat /\ MaxTotal \in Nat /\ maxAverageNum_ \in Nat /\ maxAverageNum_ >= 2
  BY CapacityAssumption
<1>2. addFreqNum(total, more, linked, 1) /\ Accessed(k)
  BY DEF insert, With
<1>3. NodesOk(more) /\ UnitsOk(more, total + 1)
  BY UnitsAdded
<1>4. ListsOk(linked, more) /\ (~decayed => Ordered(linked, rel))
  <2>1. PICK r : r = older \cap (others \X others)
    OBVIOUS
  <2>2. /\ ListsOk(linked, more)
        /\ \A q : Ordered(lists, q) => Ordered(linked, q \cup (others \X {k}))
    <3>1. 1 \in Nat \ {0}
      OBVIOUS
    <3>. QED
      BY <3>1, KeyAdded
  <2>. HIDE DEF linked, more
  <2>. QED
    BY <2>1, <2>2
<1>5. /\ DOMAIN more = others \cup {k} /\ more[k] = 1
      /\ LeastIs(more, 1)
  BY <1>3 DEF With, LeastIs, NodesOk
<1>6. 1 <= maxAverageNum_ + 1
  BY <1>1
<1>. HIDE DEF more, linked
<1>7. /\ NodesOk(nodeMap_') /\ Cached' = DOMAIN more
      /\ ListsOk(freqToFreqList_', nodeMap_')
      /\ curTotalNum_' = total + 1 /\ curAverageNum_' \in Nat
      /\ UnitsOk(nodeMap_', curTotalNum_')
      /\ LeastIs(nodeMap_', minFreq_')
      /\ minFreq_' \in Nat \ {0} /\ minFreq_' <= maxAverageNum_
      /\ decayed' \in BOOLEAN
      /\ ~decayed' => ~decayed /\ freqToFreqList_' = linked
  BY <1>2, <1>3, <1>4, <1>5, <1>6, FreqNumAdded
<1>8. Cached' = others \cup {k} /\ Cached' \ {k} = others
  BY <1>5, <1>7
<1>9. older' = rel /\ older' \subseteq Cached' \X Cached'
  BY <1>2, <1>8 DEF Accessed
<1>10. Cardinality(Cached') <= capacity_
  <2>1. IsFiniteSet(others) /\ Cardinality(others) \in Nat
    BY FS_CardinalityType DEF NodesOk
  <2>2. Cardinality(others \cup {k}) = Cardinality(others) + 1
    BY <2>1, FS_AddElement
  <2>. HIDE DEF others
  <2>3. Cardinality(others) < capacity_
    BY DEF others
  <2>. QED
    BY <1>1, <1>8, <2>1, <2>2, <2>3
<1>11. curTotalNum_' \in 0..MaxTotal
  BY <1>1, <1>7
<1>12. ~decayed' => Ordered(freqToFreqList_', older')
  BY <1>4, <1>7, <1>9
<1>13. CacheInv'
  <2>1. CacheTypeOK'
    BY <1>7, <1>9, <1>10, <1>11 DEF CacheTypeOK, NodesOk, ListsOk, Cached
  <2>. QED
    BY <1>7, <1>12, <2>1 DEF CacheInv
<1>. QED
  BY <1>8, <1>13

\* The key kickOut takes is the one it should.
LEMMA VictimIs ==
    ASSUME CacheInv, CanKickOut
    PROVE  /\ Victim \in Cached /\ nodeMap_[Victim] = minFreq_
           /\ Victim \in Least
           /\ ~decayed => \A j \in Least \ {Victim} : <<Victim, j>> \in older
<1>. DEFINE s == freqToFreqList_[minFreq_]
<1>1. /\ minFreq_ \in DOMAIN freqToFreqList_
      /\ s \in Seq(Keys) /\ s # <<>>
      /\ ToSet(s) = WithFreq(nodeMap_, minFreq_)
  BY DEF CacheInv, ListsOk, CanKickOut
<1>2. 1 \in DOMAIN s /\ Victim = s[1] /\ DOMAIN s = 1..Len(s) /\ Len(s) \in Nat
  BY <1>1 DEF Victim
<1>3. Victim \in Cached /\ nodeMap_[Victim] = minFreq_
  BY <1>1, <1>2 DEF ToSet, WithFreq, Cached
<1>4. LeastIs(nodeMap_, minFreq_)
  BY <1>3 DEF CacheInv
<1>5. Victim \in Least
  BY <1>3, <1>4 DEF Least, LeastIs, Cached
<1>6. ASSUME ~decayed, NEW j \in Least \ {Victim} PROVE <<Victim, j>> \in older
  <2>1. j \in Cached /\ nodeMap_[j] <= minFreq_ /\ minFreq_ <= nodeMap_[j]
    BY <1>3, <1>4 DEF Least, LeastIs, Cached
  <2>2. nodeMap_[j] = minFreq_
    BY <2>1 DEF CacheInv, CacheTypeOK, Cached
  <2>3. PICK p \in DOMAIN s : s[p] = j
    BY <1>1, <2>1, <2>2 DEF ToSet, WithFreq, Cached
  <2>. HIDE DEF s
  <2>4. 1 < p
    BY <1>2, <2>3
  <2>5. <<s[1], s[p]>> \in older
    BY <1>1, <1>2, <1>6, <2>3, <2>4 DEF CacheInv, Ordered, s
  <2>. QED
    BY <1>2, <2>3, <2>5
<1>. QED
  BY <1>3, <1>5, <1>6

LEMMA Puts ==
    ASSUME CacheInv, NEW k \in Keys \ Cached, InBound, capacity_ # 0, putInternal(k)
    PROVE  /\ CacheInv'
           /\ Cached \subseteq Cached' \/ (CanKickOut /\ Cached \ {Victim} \subseteq Cached')
<1>1. /\ NodesOk(nodeMap_) /\ UnitsOk(nodeMap_, curTotalNum_)
      /\ ListsOk(freqToFreqList_, nodeMap_)
      /\ ~decayed => Ordered(freqToFreqList_, older)
      /\ Cardinality(Cached) <= capacity_ /\ curTotalNum_ \in 0..MaxTotal
      /\ older \subseteq Cached \X Cached /\ decayed \in BOOLEAN
  BY DEF CacheInv, CacheTypeOK
<1>2. /\ capacity_ \in Nat /\ MaxTotal \in Nat /\ curTotalNum_ \in Nat
      /\ curTotalNum_ < MaxTotal
      /\ IsFiniteSet(Cached) /\ Cardinality(Cached) \in Nat
  BY <1>1, CapacityAssumption, FS_CardinalityType DEF InBound, NodesOk, Cached
<1>3. CASE ~Full
  <2>1. Cardinality(Cached) < capacity_
    BY <1>1, <1>2, <1>3 DEF Full
  <2>2. older \cap (Cached \X Cached) = older
    BY <1>1
  <2>3. insert(k, nodeMap_, freqToFreqList_, curTotalNum_)
    BY <1>3 DEF putInternal
  <2>4. PICK nodes : nodes = nodeMap_ /\ DOMAIN nodes = Cached
    BY DEF Cached
  <2>5. PICK lists : lists = freqToFreqList_
    OBVIOUS
  <2>6. PICK total \in Nat : total = curTotalNum_
    BY <1>2
  <2>7. /\ NodesOk(nodes) /\ UnitsOk(nodes, total) /\ ListsOk(lists, nodes)
        /\ insert(k, nodes, lists, total)
    BY <1>1, <2>3, <2>4, <2>5, <2>6
  <2>8. ~decayed => Ordered(lists, older \cap ((DOMAIN nodes) \X (DOMAIN nodes)))
    BY <1>1, <2>2, <2>4, <2>5
  <2>9. k \in Keys \ DOMAIN nodes /\ total < MaxTotal /\ Cardinality(DOMAIN nodes) < capacity_
    BY <1>2, <2>1, <2>4, <2>6
  <2>10. CacheInv' /\ Cached' = DOMAIN nodes \cup {k}
    BY <1>1, <2>7, <2>8, <2>9, Inserts
  <2>. QED
    BY <2>4, <2>10
<1>4. CASE Full
  <2>1. /\ CanKickOut
        /\ insert(k, Restrict(nodeMap_, Cached \ {Victim}),
                  removeFromFreqList(freqToFreqList_, Victim, nodeMap_[Victim]),
                  TotalWithout(Victim))
    BY <1>4 DEF putInternal
  <2>2. PICK v \in Cached : v = Victim
    BY <2>1, VictimIs
  <2>3. PICK nodes : nodes = Without(nodeMap_, v)
    OBVIOUS
  <2>4. PICK lists : lists = removeFromFreqList(freqToFreqList_, v, nodeMap_[v])
    OBVIOUS
  <2>5. PICK total : total = curTotalNum_ - nodeMap_[v]
    OBVIOUS
  <2>6. insert(k, nodes, lists, total)
    BY <2>1, <2>2, <2>3, <2>4, <2>5 DEF Without, Cached, TotalWithout
  <2>7. DOMAIN nodes = Cached \ {v}
    BY <2>3 DEF Without, Restrict, Cached
  <2>8. NodesOk(nodes) /\ total \in Nat /\ UnitsOk(nodes, total)
    BY <1>1, <1>2, <2>3, <2>5, UnitsRemoved DEF Cached
  <2>9. total < MaxTotal
    BY <1>1, <1>2, <2>5, <2>8 DEF NodesOk, Cached
  <2>10. /\ ListsOk(lists, nodes)
         /\ \A rel : Ordered(freqToFreqList_, rel) =>
               Ordered(lists, rel \cap ((Cached \ {v}) \X (Cached \ {v})))
    BY <1>1, <2>3, <2>4, KeyRemoved DEF Cached
  <2>11. ~decayed => Ordered(lists, older \cap ((DOMAIN nodes) \X (DOMAIN nodes)))
    BY <1>1, <2>7, <2>10
  <2>12. Cardinality(DOMAIN nodes) < capacity_
    <3>1. Cardinality(Cached \ {v}) = Cardinality(Cached) - 1
      BY <1>2, FS_RemoveElement
    <3>. QED
      BY <1>1, <1>2, <2>7, <3>1
  <2>13. k \in Keys \ DOMAIN nodes
    BY <2>7
  <2>14. CacheInv' /\ Cached' = DOMAIN nodes \cup {k}
    BY <1>1, <2>6, <2>8, <2>9, <2>10, <2>11, <2>12, <2>13, Inserts
  <2>. QED
    BY <2>1, <2>2, <2>7, <2>14
<1>. QED
  BY <1>3, <1>4

LEMMA Purges == CacheInv /\ purge => CacheInv' /\ Cached' = {}
<1>. SUFFICES ASSUME CacheInv, purge PROVE CacheInv' /\ Cached' = {}
  OBVIOUS
<1>1. /\ nodeMap_' = <<>> /\ freqToFreqList_' = <<>> /\ DOMAIN <<>> = {}
      /\ older' = {} /\ UNCHANGED <<minFreq_, curTotalNum_, curAverageNum_, decayed>>
  BY DEF purge
<1>2. IsFiniteSet({}) /\ Cardinality({}) = 0
  BY FS_EmptySet
<1>3. <<>> \in [{} -> Nat \ {0}] /\ <<>> \in [{} -> Seq(Keys)]
  OBVIOUS
<1>4. Cached' = {}
  BY <1>1 DEF Cached
<1>5. NodesOk(nodeMap_')
  BY <1>1, <1>2, <1>3 DEF NodesOk
<1>6. CacheTypeOK'
  <2>1. Cardinality(Cached') <= capacity_
    BY <1>2, <1>4, CapacityAssumption
  <2>2. /\ minFreq_' \in Nat \ {0} /\ curTotalNum_' \in 0..MaxTotal
        /\ curAverageNum_' \in Nat /\ decayed' \in BOOLEAN
    BY <1>1 DEF CacheInv, CacheTypeOK
  <2>. QED
    BY <1>1, <1>3, <1>4, <2>1, <2>2 DEF CacheTypeOK
<1>7. UnitsOk(nodeMap_', curTotalNum_')
  <2>1. Units(nodeMap_') = {}
    BY <1>1 DEF Units
  <2>2. curTotalNum_' \in Nat
    BY <1>6 DEF CacheTypeOK
  <2>. QED
    BY <1>2, <2>1, <2>2 DEF UnitsOk
<1>8. ListsOk(freqToFreqList_', nodeMap_')
  BY <1>1, <1>3 DEF ListsOk
<1>9. Ordered(freqToFreqList_', older')
  BY <1>1 DEF Ordered
<1>. QED
  BY <1>4, <1>5, <1>6, <1>7, <1>8, <1>9 DEF CacheInv

LEMMA StepCacheInv == CacheInv /\ [CacheNext]_cacheVars => CacheInv'
<1>. SUFFICES ASSUME CacheInv, [CacheNext]_cacheVars PROVE CacheInv'
  OBVIOUS
<1>1. ASSUME NEW k \in Keys, get(k) PROVE CacheInv'
  BY <1>1, Accesses DEF get
<1>2. ASSUME NEW k \in Keys, put(k) PROVE CacheInv'
  BY <1>2, Accesses, Puts DEF put
<1>3. CASE purge
  BY <1>3, Purges
<1>4. CASE UNCHANGED cacheVars
  BY <1>4 DEF cacheVars, CacheInv, CacheTypeOK, Cached
<1>. QED
  BY <1>1, <1>2, <1>3, <1>4 DEF CacheNext

LEMMA CacheInvariance == CacheSpec => []CacheInv
<1>. QED
  BY InitCacheInv, StepCacheInv, PTL DEF CacheSpec

------------------------------------------------------------------------------
(* The theorems.                                                             *)

\* The cache never holds more than capacity_ keys, frequencies are at least 1
\* and the total of the accesses never drops below 0, whatever kickOut takes
\* off it (LFU.h:196-216, :256-264).
THEOREM CacheTypeCorrect == CacheSpec => []CacheTypeOK
<1>1. CacheInv => CacheTypeOK
  BY DEF CacheInv
<1>. QED
  BY <1>1, CacheInvariance, PTL

\* Each key is linked in the list of its frequency, once, and nowhere else, for
\* any cache, although a node knows no list and is unlinked by the frequency it
\* carries (LFU.h:179-193, :219-243, :273-290).
THEOREM ListsMatch == CacheSpec => []ListsMatchNodes
<1>1. CacheInv => ListsMatchNodes
  BY DEF CacheInv, ListsOk, ListsMatchNodes, WithFreq, Cached
<1>. QED
  BY <1>1, CacheInvariance, PTL

\* minFreq_ is the least frequency whenever there is a key, so that kickOut
\* always finds one to evict (LFU.h:198-199, :212), for any keys and capacity and
\* a limit of the average from 2 to 250 (CapacityAssumption), which LFU.h:93 does
\* not check.
THEOREM KickOutAlwaysFindsKey == CacheSpec => []KickOutFindsKey
<1>1. CacheInv => KickOutFindsKey
  <2>. SUFFICES ASSUME CacheInv, capacity_ # 0, Full PROVE CanKickOut
    BY DEF KickOutFindsKey
  <2>1. Cached # {}
    BY FS_EmptySet DEF Full
  <2>2. PICK k \in Cached : nodeMap_[k] = minFreq_
    BY <2>1 DEF CacheInv, LeastIs, Cached
  <2>3. minFreq_ \in DOMAIN freqToFreqList_ /\ k \in ToSet(freqToFreqList_[minFreq_])
    BY <2>2 DEF CacheInv, ListsOk, WithFreq, Cached
  <2>4. freqToFreqList_[minFreq_] # <<>>
    BY <2>3 DEF ToSet
  <2>. QED
    BY <2>3, <2>4 DEF CanKickOut
<1>. QED
  BY <1>1, CacheInvariance, PTL

\* A put into a full cache evicts a key of the least frequency, before any decay
\* the one of them not accessed for longest (LFU.h:76, :211).
THEOREM EvictsTheLeast == CacheSpec => EvictsLeast
<1>. DEFINE Evicts == \A v \in Cached \ Cached' :
                         Cached' # {} =>
                             /\ v \in Least
                             /\ ~decayed => \A j \in Least \ {v} : <<v, j>> \in older
<1>1. CacheInv /\ [CacheNext]_cacheVars => [Evicts]_cacheVars
  <2>. SUFFICES ASSUME CacheInv, CacheNext PROVE Evicts
    OBVIOUS
  <2>1. ASSUME NEW k \in Keys, get(k) PROVE Evicts
    BY <2>1, Accesses DEF get
  <2>2. ASSUME NEW k \in Keys, put(k) PROVE Evicts
    <3>1. CASE k \in Cached
      BY <2>2, <3>1, Accesses DEF put
    <3>2. CASE k \notin Cached
      <4>1. Cached \subseteq Cached' \/ (CanKickOut /\ Cached \ {Victim} \subseteq Cached')
        BY <2>2, <3>2, Puts DEF put
      <4>2. CASE CanKickOut /\ Cached \ {Victim} \subseteq Cached'
        BY <4>2, VictimIs
      <4>. QED
        BY <4>1, <4>2
    <3>. QED
      BY <3>1, <3>2
  <2>3. CASE purge
    BY <2>3, Purges
  <2>. QED
    BY <2>1, <2>2, <2>3 DEF CacheNext
<1>. QED
  BY <1>1, CacheInvariance, PTL DEF CacheSpec, EvictsLeast
==============================================================================
