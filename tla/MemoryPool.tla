----------------------------- MODULE MemoryPool -----------------------------
(***************************************************************************)
(* The MemoryPool (webserver/memory/memoryPool.cc) that HashBucket uses for*)
(* objects of some size, shared by all threads: slots are cut from blocks, *)
(* under mutexForBlock_; freed slots form a list, under mutexForFreeList_, *)
(* except that allocate looks at the head of the list before it takes the  *)
(* mutex and allocateNewBlock clears the list without it.                  *)
(*                                                                         *)
(* An address is a number, NULL is 0.  The build is not optimised (no      *)
(* CMakeLists.txt asks for it): each mention of freeList_ may load it      *)
(* again, or reuse what was loaded, and both are possible in the model.    *)
(***************************************************************************)
EXTENDS Naturals, Sequences, FiniteSets, SequencesExt, TLC

CONSTANTS
    Threads,
    BlockSize_,
    ObjectSizes,     \* the sizes of what is allocated: one per behaviour
    BlockAddresses,  \* bound of the model: what operator new may return
    AddressSpace     \* 2^64 in the code: size_t wraps around there

NULL == 0
SizeofSlot == 8
SLOT_BASE_SIZE == 8
MAX_SLOT_SIZE == 512

\* what a user of a slot may write over its next pointer
Garbage == 1

\* HashBucket::useMemory and freeMemory: which pool, and
\* HashBucket::initMemoryPool: of which slots
PoolIndex(size) == (size + 7) \div SLOT_BASE_SIZE - 1
PoolSlotSize(index) == (index + 1) * SLOT_BASE_SIZE

ASSUME PoolAssumption ==
    /\ BlockSize_ \in Nat /\ AddressSpace \in Nat \ {0}
    /\ AddressSpace % SizeofSlot = 0
    /\ \A s \in ObjectSizes :
          s \in 1..MAX_SLOT_SIZE /\ 2 * PoolSlotSize(PoolIndex(s)) + SizeofSlot <= BlockSize_
    /\ \A b \in BlockAddresses :
          b \in Nat \ {0} /\ b % SizeofSlot = 0 /\ b + BlockSize_ < AddressSpace
    /\ \A a, b \in BlockAddresses : a < b => a + BlockSize_ <= b

VARIABLES
    objectSize,        \* of what is allocated
    SlotSize_,
    blocks,            \* the blocks from firstBlock_ on
    curSlot_, lastSlot_,
    freeList_,
    next,              \* the first word of each slot ever handed out
    owned,             \* the slots the code of each thread has in use
    pc, temp,          \* where each thread is, and its local variable
    crashed            \* was the null pointer dereferenced?

blockVars == <<blocks, curSlot_, lastSlot_>>
vars == <<objectSize, SlotSize_, blockVars, freeList_, next, owned, pc, temp, crashed>>

Slots == DOMAIN next

TypeOK ==
    /\ objectSize \in ObjectSizes /\ SlotSize_ \in Nat
    /\ blocks \in Seq(BlockAddresses)
    /\ curSlot_ \in Nat /\ lastSlot_ \in Nat
    /\ freeList_ \in Slots \cup {NULL}
    /\ next \in [Slots -> Slots \cup {NULL, Garbage}]
    /\ owned \in [Threads -> SUBSET Slots]
    /\ pc \in [Threads -> {"idle", "lockFree", "take", "advance", "lockBlock",
                           "newBlock", "push"}]
    /\ temp \in [Threads -> Slots \cup {NULL}]
    /\ crashed \in BOOLEAN

\* init
Init ==
    /\ objectSize \in ObjectSizes
    /\ SlotSize_ = PoolSlotSize(PoolIndex(objectSize))
    /\ blocks = <<>> /\ curSlot_ = NULL /\ lastSlot_ = NULL
    /\ freeList_ = NULL
    /\ next = <<>>
    /\ owned = [t \in Threads |-> {}]
    /\ pc = [t \in Threads |-> "idle"]
    /\ temp = [t \in Threads |-> NULL]
    /\ crashed = FALSE

Goto(t, label) == pc' = [pc EXCEPT ![t] = label]

\* t returns from allocate with s, and overwrites it
Return(t, s) ==
    /\ owned' = [owned EXCEPT ![t] = @ \cup {s}]
    /\ next' = [r \in Slots \cup {s} |-> IF r = s THEN Garbage ELSE next[r]]
    /\ temp' = [temp EXCEPT ![t] = NULL]
    /\ Goto(t, "idle")

------------------------------------------------------------------------------
(* The free list.                                                           *)

\* mutant: no mutex
FreeListUnlocked_Always == TRUE

\* mutexForFreeList_ is free
FreeListUnlocked == \A u \in Threads : pc[u] \notin {"take", "advance", "push"}

\* allocate looks for a free slot without the mutex
allocate(t) ==
    /\ pc[t] = "idle"
    /\ Goto(t, IF freeList_ # NULL THEN "lockFree" ELSE "lockBlock")
    /\ UNCHANGED <<objectSize, SlotSize_, blockVars, freeList_, next, owned, temp, crashed>>

\* it looks again with the mutex
lockFree(t) ==
    /\ pc[t] = "lockFree"
    /\ FreeListUnlocked
    /\ temp' = [temp EXCEPT ![t] = freeList_]
    /\ Goto(t, IF freeList_ # NULL THEN "take" ELSE "lockBlock")
    /\ UNCHANGED <<objectSize, SlotSize_, blockVars, freeList_, next, owned, crashed>>

\* the head of the list, loaded again or not
take(t) ==
    /\ pc[t] = "take"
    /\ \E head \in {temp[t], freeList_} : temp' = [temp EXCEPT ![t] = head]
    /\ Goto(t, "advance")
    /\ UNCHANGED <<objectSize, SlotSize_, blockVars, freeList_, next, owned, crashed>>

\* and once more for its next pointer
advance(t) ==
    /\ pc[t] = "advance"
    /\ \E head \in {temp[t], freeList_} :
          \/ /\ head = NULL
             /\ crashed' = TRUE
             /\ UNCHANGED <<freeList_, next, owned, pc, temp>>
          \/ /\ head # NULL
             /\ freeList_' = next[head]
             /\ Return(t, temp[t])
             /\ UNCHANGED crashed
    /\ UNCHANGED <<objectSize, SlotSize_, blockVars>>

\* mutant: the slot is not linked to the list
Linked_Not(s) == next

Linked(s) == [next EXCEPT ![s] = freeList_]

\* t frees a slot, one of its own or one another thread passed on
deallocate(t, s) ==
    /\ pc[t] = "idle"
    /\ \E u \in Threads : s \in owned[u]
    /\ FreeListUnlocked
    /\ owned' = [u \in Threads |-> owned[u] \ {s}]
    /\ next' = Linked(s)
    /\ temp' = [temp EXCEPT ![t] = s]
    /\ Goto(t, "push")
    /\ UNCHANGED <<objectSize, SlotSize_, blockVars, freeList_, crashed>>

push(t) ==
    /\ pc[t] = "push"
    /\ freeList_' = temp[t]
    /\ temp' = [temp EXCEPT ![t] = NULL]
    /\ Goto(t, "idle")
    /\ UNCHANGED <<objectSize, SlotSize_, blockVars, next, owned, crashed>>

------------------------------------------------------------------------------
(* The blocks.                                                              *)

\* size_t arithmetic: align - p wraps around
padPointer(p, align) == ((align + AddressSpace - p) % AddressSpace) % align

\* mutant: the end of the block
LastSlot_End(b) == b + BlockSize_

LastSlot(b) == b + BlockSize_ - SlotSize_ + 1

BlockUnlocked == \A u \in Threads : pc[u] # "newBlock"

\* the next slot of the block
cut(t) ==
    /\ Return(t, curSlot_)
    /\ curSlot_' = curSlot_ + (SlotSize_ \div SizeofSlot) * SizeofSlot

lockBlock(t) ==
    /\ pc[t] = "lockBlock"
    /\ BlockUnlocked
    /\ curSlot_ < lastSlot_
    /\ cut(t)
    /\ UNCHANGED <<objectSize, SlotSize_, blocks, lastSlot_, freeList_, crashed>>

\* The rest of this critical section
lockBlockUsedUp(t) ==
    /\ pc[t] = "lockBlock"
    /\ BlockUnlocked
    /\ curSlot_ >= lastSlot_
    /\ \E b \in BlockAddresses \ ToSet(blocks) :
          LET body == b + SizeofSlot IN
          /\ blocks' = <<b>> \o blocks
          /\ curSlot_' = body + padPointer(body, SlotSize_)
          /\ lastSlot_' = LastSlot(b)
    /\ Goto(t, "newBlock")
    /\ UNCHANGED <<objectSize, SlotSize_, freeList_, next, owned, temp, crashed>>

\* clears the free list, without its mutex
newBlock(t) ==
    /\ pc[t] = "newBlock"
    /\ freeList_' = NULL
    /\ cut(t)
    /\ UNCHANGED <<objectSize, SlotSize_, blocks, lastSlot_, crashed>>

Step(t) ==
    \/ allocate(t) \/ lockFree(t) \/ take(t) \/ advance(t)
    \/ lockBlock(t) \/ lockBlockUsedUp(t) \/ newBlock(t)
    \/ \E s \in Slots : deallocate(t, s)
    \/ push(t)

Next == ~crashed /\ \E t \in Threads : Step(t)

Spec == Init /\ [][Next]_vars

------------------------------------------------------------------------------
(* Properties.                                                              *)

\* the slots of the free list; a list that is a cycle has no end
nth[n \in Nat] == IF n = 0 THEN freeList_
                  ELSE IF nth[n - 1] = NULL THEN NULL ELSE next[nth[n - 1]]
FreeSlots == {nth[n] : n \in 0..Cardinality(Slots)} \ {NULL}
ListEnds == nth[Cardinality(Slots)] = NULL

\* what threads have in their hands inside of deallocate
Pushing == {temp[t] : t \in {u \in Threads : pc[u] = "push"}}

\* However the unlocked accesses interleave, no slot is in use twice, and none
\* is in use and in the free list (memoryPool.cc:31-34, :52-54, :72).
SlotsUsedOnce ==
    /\ \A t, u \in Threads : t # u => owned[t] \cap owned[u] = {}
    /\ \A t \in Threads : owned[t] \cap (FreeSlots \cup Pushing) = {}
    /\ ListEnds

\* Slots hold their object, lie in their blocks behind the pointer to the next
\* block, hold an aligned pointer, and do not overlap, although the padding
\* wraps around for sizes that do not divide 2^64 (memoryPool.cc:65-70, :76).
SlotsFit ==
    /\ \A s \in Slots :
          /\ s % SizeofSlot = 0
          /\ \E b \in ToSet(blocks) : b + SizeofSlot <= s /\ s + objectSize <= b + BlockSize_
    /\ \A r, s \in Slots : r < s => r + objectSize <= s

\* What is freed stays in the free list until it is allocated again: that is
\* the atomicity mutexForFreeList_ is there for (memoryPool.h:38).
FreedIsKept ==
    Slots = UNION {owned[t] : t \in Threads} \cup FreeSlots \cup Pushing
==============================================================================
