----------------------------- MODULE MemoryPool -----------------------------
(***************************************************************************)
(* MemoryPool (src/include/utils/memory_pool.h), from which OrderPool      *)
(* hands out orders: a vector of slots and a list of the free ones, both   *)
(* under one mutex.  allocate takes a slot and, when none is free, adds a  *)
(* block of them first; the deleter of the shared_ptr gives it back.  Any  *)
(* thread may hold objects, so the calls are not told apart by thread;     *)
(* OrderPool::getStats, which reads the pool in two steps, has a state.    *)
(***************************************************************************)
EXTENDS Integers, Sequences, FiniteSets

CONSTANTS
    BlockSize,      \* slots added at a time: 10000 in OrderPool
    MaxBlocks,      \* bound: blocks the pool grows to
    SizeT           \* 2^w, the values of a size_t

ASSUME PoolAssumption ==
    /\ BlockSize \in Nat \ {0}
    /\ MaxBlocks \in Nat \ {0}
    /\ SizeT \in Nat /\ SizeT > MaxBlocks * BlockSize

VARIABLES
    size,       \* storage_.size()
    freeList,   \* freeList_, the next one to be used last
    held,       \* the slots of the objects somebody has a shared_ptr to
    leaked,     \* the slots that were taken for an object never constructed
    stale,      \* the held slots whose shared_ptr points to where they were
    aborted,    \* the process has ended in a destructor
    peak,       \* history: the most slots that were ever taken at once
    stats       \* a call of OrderPool::getStats

poolVars == <<size, freeList, held, leaked, stale, aborted, peak>>
vars == <<poolVars, stats>>

Slots == 0 .. size - 1

\* The slots that are not free.
Taken == held \cup leaked

----------------------------------------------------------------------------

\* Mutant of NewSlots: the new slots are listed in ascending order.
NewSlotsAscending(n) == [i \in 1 .. BlockSize |-> n + i - 1]

\* Mutant of NewSlots: the loop counter is listed, which is one too many.
NewSlotsOffByOne(n) == [i \in 1 .. BlockSize |-> n + BlockSize - i + 1]

\* What addBlock appends to the list when the storage has n slots: the new
\* ones from the last to the first.
NewSlots(n) == [i \in 1 .. BlockSize |-> n + BlockSize - i]

Idle == [pc |-> "idle"]

\* The constructor adds the first block.
Init ==
    /\ size = BlockSize /\ freeList = NewSlots(0)
    /\ held = {} /\ leaked = {} /\ stale = {} /\ aborted = FALSE
    /\ peak = 0
    /\ stats = Idle

\* getStats has started and the pool grows: capacity() reads the storage
\* without the mutex.
Disturbed == IF stats.pc = "idle" THEN stats ELSE [stats EXCEPT !.grown = TRUE]

\* Mutant of MustGrow: a block is added while a slot is still free.
MustGrowEarly == Len(freeList) <= 1

\* allocate finds no free slot.
MustGrow == freeList = << >>

\* addBlock.  The vector moves its storage when its capacity is used up; who
\* holds an object goes on pointing to where it was.
AddBlock ==
    /\ MustGrow
    /\ size + BlockSize <= MaxBlocks * BlockSize
    /\ size' = size + BlockSize
    /\ stale' = stale \/ stale' = held
    /\ stats' = Disturbed

EnoughSlots == ~MustGrow /\ UNCHANGED <<size, stale, stats>>

\* The list from which allocate takes the last slot.
Listed == IF MustGrow THEN freeList \o NewSlots(size) ELSE freeList

NextSlot == Listed[Len(Listed)]

TakeSlot ==
    /\ ~aborted
    /\ AddBlock \/ EnoughSlots
    /\ freeList' = SubSeq(Listed, 1, Len(Listed) - 1)
    /\ peak' = IF Cardinality(Taken') > peak THEN Cardinality(Taken') ELSE peak
    /\ UNCHANGED aborted

\* allocate.
Allocate ==
    /\ held' = held \cup {NextSlot}
    /\ UNCHANGED leaked
    /\ TakeSlot

\* allocate, when the constructor of the object throws: the slot is in no list.
AllocateThrows ==
    /\ leaked' = leaked \cup {NextSlot}
    /\ UNCHANGED held
    /\ TakeSlot

\* Mutant of Returned: the slot is not given back.
ReturnedNot(slot) == freeList

\* Mutant of Returned: the slot goes back twice.
ReturnedTwice(slot) == freeList \o <<slot, slot>>

\* push_back of a slot.
Returned(slot) == Append(freeList, slot)

\* The deleter: the last shared_ptr to an object is gone.  The destructor of an
\* object that was moved works on freed memory, which may end the process.
Deallocate(slot) ==
    /\ ~aborted
    /\ slot \in held
    /\ held' = held \ {slot} /\ stale' = stale \ {slot}
    /\ freeList' = Returned(slot)
    /\ aborted' \in (IF slot \in stale THEN BOOLEAN ELSE {FALSE})
    /\ UNCHANGED <<size, leaked, peak, stats>>

----------------------------------------------------------------------------
(* OrderPool::getStats, and the difference submitOrder makes of it *)

StartStats ==
    /\ ~aborted /\ stats.pc = "idle"
    /\ stats' = [pc |-> "capacity", grown |-> FALSE]
    /\ UNCHANGED poolVars

\* capacity() takes no lock.  It computes the size from two pointers; when
\* addBlock changes them meanwhile any number can come out.
ReadCapacity ==
    /\ ~aborted /\ stats.pc = "capacity"
    /\ \E n \in IF stats.grown THEN 0 .. SizeT - 1 ELSE {size} :
          stats' = [pc |-> "available", grown |-> stats.grown, capacity |-> n]
    /\ UNCHANGED poolVars

\* Mutant of Used: what is free counts as used.
UsedFree(capacity, available) == available

\* capacity - available, as size_t.
Used(capacity, available) == (capacity - available) % SizeT

\* available() takes the lock.
ReadAvailable ==
    /\ ~aborted /\ stats.pc = "available"
    /\ stats' = [pc |-> "done", grown |-> stats.grown,
                 used |-> Used(stats.capacity, Len(freeList)),
                 taken |-> Cardinality(Taken)]
    /\ UNCHANGED poolVars

EndStats ==
    /\ ~aborted /\ stats.pc = "done"
    /\ stats' = Idle
    /\ UNCHANGED poolVars

GetStats == StartStats \/ ReadCapacity \/ ReadAvailable \/ EndStats

Next == \/ Allocate
        \/ AllocateThrows
        \/ \E slot \in Slots : Deallocate(slot)
        \/ GetStats

Spec == Init /\ [][Next]_vars

----------------------------------------------------------------------------
(* Properties *)

Stats ==
    {Idle} \cup [pc : {"capacity"}, grown : BOOLEAN]
           \cup [pc : {"available"}, grown : BOOLEAN, capacity : 0 .. SizeT - 1]
           \cup [pc : {"done"}, grown : BOOLEAN, used : 0 .. SizeT - 1, taken : Nat]

TypeOK ==
    /\ size \in BlockSize .. MaxBlocks * BlockSize
    /\ freeList \in Seq(Slots)
    /\ held \subseteq Slots /\ leaked \subseteq Slots /\ stale \subseteq held
    /\ aborted \in BOOLEAN
    /\ peak \in 0 .. size
    /\ stats \in Stats

\* Every slot is in one place, whatever the order of the calls of all threads:
\* taken, or free and in the list once, so that no object is ever built on top of
\* another; and none gets lost but those whose constructor has thrown.
EachSlotOnce ==
    /\ \A i, j \in DOMAIN freeList : i # j => freeList[i] # freeList[j]
    /\ \A slot \in Slots : slot \in Taken <=> \A i \in DOMAIN freeList : freeList[i] # slot
    /\ held \cap leaked = {}

\* ``Pooling maintains constant memory under load'' (README.md:250), ``we use
\* memory linearly'' (memory_pool.h:58): the pool only ever touches as many
\* slots, from the first on, as were taken at one time.
LinearUse == Taken \subseteq 0 .. peak - 1

\* An object is moved away from under its owner only in a program that holds
\* more objects at one time than the first block has slots.
OneBlockIsSafe == stale # {} \/ aborted => peak > BlockSize

\* The pool usage that submitOrder reports is the number of slots taken, unless
\* the pool has grown during getStats; then anything may come out, for the
\* difference of two readings of different pools wraps around.
StatsExact == stats.pc = "done" /\ ~stats.grown => stats.used = stats.taken

=============================================================================
