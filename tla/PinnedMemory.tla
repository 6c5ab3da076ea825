---------------------------- MODULE PinnedMemory ----------------------------
(***************************************************************************)
(* Pinned_Fix_Memory and its facade MemoryMagr (src/mem_mag.cc,            *)
(* src/include/mem_mag.h): a growing array of fixed-size memory blocks     *)
(* registered with the RDMA device.                                        *)
(*                                                                         *)
(* Several threads allocate.  Each reserves the next block by a fetch_add  *)
(* on next_offset, registers the block outside any lock, and installs the  *)
(* pointer under mem_mutex; a thread that overshoots max_size rolls its    *)
(* reservation back by a fetch_sub.  Other threads look blocks up without  *)
(* taking the mutex.                                                       *)
(*                                                                         *)
(* Offsets are counted in blocks: every caller is asserted to pass         *)
(* len = block_length and a multiple of it (mem_mag.cc:37, 50, 51), so     *)
(* offset start of the code is block start / block_length here, and        *)
(* start + block_length <= max_size is start + 1 <= NumBlocks.             *)
(***************************************************************************)
EXTENDS Integers, FiniteSets

CONSTANTS Allocators,   \* threads calling allocate_pinned_memory
          Readers,      \* threads calling get_pinned_mr
          NumBlocks,    \* max_size / block_length
          Nobody,       \* mem_mutex is free
          Null          \* nullptr in the vector

ASSUME ThreadsAssumption ==
  /\ IsFiniteSet(Allocators)
  /\ Nobody \notin Allocators
ASSUME NumBlocksAssumption == NumBlocks \in Nat \ {0}

VARIABLES
  next_offset,  \* std::atomic next_offset
  blocks,       \* std::vector<pinned_block *> blocks
  mem_mutex,    \* the allocator that holds mem_mutex, or Nobody
  regs,         \* external: blocks whose memory region the device knows
  pc,           \* pc[t]: where allocator t is in allocate_next_block
  start,        \* start[t]: the offset t's latest fetch_add returned
  mine,         \* mine[t]: the pinned_block t is building
  ret,          \* ret[t]: what t's latest allocate_pinned_memory returned
  rpc,          \* rpc[r]: where reader r is in get_pinned_mr
  voff,         \* voff[r]: the offset r asks for
  got,          \* got[r]: what r's latest get_pinned_mr returned
  due,          \* history: block voff[r] was usable when r's call began
  life          \* "up", then "destroyed" or "crashed" by the destructor

allocVars  == <<pc, start, mine, ret>>
readerVars == <<rpc, voff, got, due>>
vars == <<next_offset, blocks, mem_mutex, regs, allocVars, readerVars, life>>

BlockIds == 0 .. NumBlocks - 1
None     == -1          \* no offset yet

(* A pinned_block: has memory, has a memory region, counts as pinned. *)
Block == [mem : BOOLEAN, mr : BOOLEAN, pinned : BOOLEAN]

ASSUME NullAssumption == Null \notin Block

(***************************************************************************)
(* pinned_block::reg_alloc_local: aligned_alloc, then reg_local_mr.  Both  *)
(* may fail; reg_local_mr sets pinned whenever it tried to register, even  *)
(* when ibv_reg_mr returned NULL.                                          *)
(***************************************************************************)
RegAllocLocal(memOk, regOk) ==
  [mem |-> memOk, mr |-> memOk /\ regOk, pinned |-> memOk]

(* Where get_pinned_mr finds a memory region. *)
Usable(b) == b # Null /\ b.mr

Init ==
  /\ next_offset = 0
  /\ blocks = [i \in BlockIds |-> Null]
  /\ mem_mutex = Nobody
  /\ regs = {}
  /\ pc = [t \in Allocators |-> "idle"]
  /\ start = [t \in Allocators |-> None]
  /\ mine = [t \in Allocators |-> Null]
  /\ ret = [t \in Allocators |-> "none"]
  /\ rpc = [r \in Readers |-> "idle"]
  /\ voff = [r \in Readers |-> None]
  /\ got = [r \in Readers |-> "none"]
  /\ due = [r \in Readers |-> FALSE]
  /\ life = "up"
-----------------------------------------------------------------------------
(***************************************************************************)
(* allocate_pinned_memory and allocate_next_block.                         *)
(***************************************************************************)

(* A faulty capacity test, off by one. *)
FitsStrict(offset) == offset + 1 < NumBlocks
Fits(offset) == offset + 1 <= NumBlocks

(* next_offset.fetch_add, and the test of the value it returned. *)
Reserve(t) ==
  /\ life = "up" /\ pc[t] = "idle"
  /\ start' = [start EXCEPT ![t] = next_offset]
  /\ next_offset' = next_offset + 1
  /\ pc' = [pc EXCEPT ![t] =
              IF Fits(next_offset) THEN "register" ELSE "rollback"]
  /\ ret' = [ret EXCEPT ![t] = "none"]
  /\ UNCHANGED <<blocks, mem_mutex, regs, mine, readerVars, life>>

(* new pinned_block and reg_alloc_local, outside the mutex. *)
Register(t) ==
  /\ pc[t] = "register"
  /\ \E memOk, regOk \in BOOLEAN :
       LET b == RegAllocLocal(memOk, regOk)
       IN /\ mine' = [mine EXCEPT ![t] = b]
          /\ regs' = IF b.mr THEN regs \cup {start[t]} ELSE regs
  /\ pc' = [pc EXCEPT ![t] = "lock"]
  /\ UNCHANGED <<next_offset, blocks, mem_mutex, start, ret, readerVars, life>>

Lock(t) ==
  /\ pc[t] = "lock"
  /\ mem_mutex = Nobody
  /\ mem_mutex' = t
  /\ pc' = [pc EXCEPT ![t] = "install"]
  /\ UNCHANGED <<next_offset, blocks, regs, start, mine, ret, readerVars, life>>

(* blocks[idx] = b, after assert(blocks[idx] == nullptr): SlotFreeAtInstall. *)
Install(t) ==
  /\ pc[t] = "install"
  /\ blocks' = [blocks EXCEPT ![start[t]] = mine[t]]
  /\ mine' = [mine EXCEPT ![t] = Null]
  /\ pc' = [pc EXCEPT ![t] = "unlock"]
  /\ UNCHANGED <<next_offset, mem_mutex, regs, start, ret, readerVars, life>>

(* A faulty exit that leaves the mutex locked. *)
Kept(t) == t
Released(t) == Nobody

(* mem_mutex.unlock, and true returned through allocate_pinned_memory. *)
Unlock(t) ==
  /\ pc[t] = "unlock"
  /\ mem_mutex' = Released(t)
  /\ pc' = [pc EXCEPT ![t] = "idle"]
  /\ ret' = [ret EXCEPT ![t] = "true"]
  /\ UNCHANGED <<next_offset, blocks, regs, start, mine, readerVars, life>>

(* Faulty roll-backs: two blocks, and back to the value the thread had read. *)
UndoTwice(t) == next_offset - 2
UndoByStore(t) == start[t]

Undo(t) == next_offset - 1

(***************************************************************************)
(* The overshoot is given back by fetch_sub and allocate_next_block        *)
(* returns false, but allocate_pinned_memory drops that result and         *)
(* returns true.                                                           *)
(***************************************************************************)
RollBack(t) ==
  /\ pc[t] = "rollback"
  /\ next_offset' = Undo(t)
  /\ pc' = [pc EXCEPT ![t] = "idle"]
  /\ ret' = [ret EXCEPT ![t] = "true"]
  /\ UNCHANGED <<blocks, mem_mutex, regs, start, mine, readerVars, life>>
-----------------------------------------------------------------------------
(***************************************************************************)
(* get_pinned_mr and get_mr.  The bound is tested against next_offset,     *)
(* then the vector is read, in two steps and without the mutex.            *)
(***************************************************************************)

(* A faulty bound test that hides the newest block. *)
BelowShort(i) == i + 1 < next_offset
Below(i) == i < next_offset

(* The caller passes any block offset up to the first one past the memory. *)
TestOffset(r, i) ==
  /\ life = "up" /\ rpc[r] = "idle"
  /\ voff' = [voff EXCEPT ![r] = i]
  /\ due' = [due EXCEPT ![r] = i \in BlockIds /\ Usable(blocks[i])]
  /\ IF Below(i)
     THEN /\ rpc' = [rpc EXCEPT ![r] = "lookup"]
          /\ got' = [got EXCEPT ![r] = "none"]
     ELSE /\ got' = [got EXCEPT ![r] = "NULL"]
          /\ UNCHANGED rpc
  /\ UNCHANGED <<next_offset, blocks, mem_mutex, regs, allocVars, life>>

(***************************************************************************)
(* blocks[block_num] is not bounds-checked: past the end the read is       *)
(* undefined and may yield NULL or any pointer.  Inside the vector the     *)
(* unsynchronised read races with Install; on the pointer-sized slot it    *)
(* returns the old or the new pointer, which the interleaving gives.       *)
(***************************************************************************)
Lookup(r) ==
  /\ rpc[r] = "lookup"
  /\ rpc' = [rpc EXCEPT ![r] = "idle"]
  /\ \E answer \in IF voff[r] \in BlockIds
                   THEN {IF Usable(blocks[voff[r]]) THEN "mr" ELSE "NULL"}
                   ELSE {"NULL", "wild"} :
       got' = [got EXCEPT ![r] = answer]
  /\ UNCHANGED <<next_offset, blocks, mem_mutex, regs, allocVars, voff, due, life>>
-----------------------------------------------------------------------------
(***************************************************************************)
(* ~Pinned_Fix_Memory, run once no call is in progress.  Its loop calls    *)
(* unreg_free_local on every slot of the vector, nullptr or not: a slot    *)
(* never filled is dereferenced.                                           *)
(***************************************************************************)
Quiet ==
  /\ \A t \in Allocators : pc[t] = "idle"
  /\ \A r \in Readers : rpc[r] = "idle"

FirstNull(i) == blocks[i] = Null /\ \A j \in 0 .. i - 1 : blocks[j] # Null

Destroy ==
  /\ life = "up" /\ Quiet
  /\ \/ /\ \A i \in BlockIds : blocks[i] # Null
        /\ regs' = {i \in regs : ~(blocks[i].pinned /\ blocks[i].mr)}
        /\ blocks' = [i \in BlockIds |-> Null]
        /\ life' = "destroyed"
     \/ \E i \in BlockIds :
          /\ FirstNull(i)
          /\ regs' = {j \in regs : j > i \/ ~(blocks[j].pinned /\ blocks[j].mr)}
          /\ blocks' = [j \in BlockIds |-> IF j < i THEN Null ELSE blocks[j]]
          /\ life' = "crashed"
  /\ UNCHANGED <<next_offset, mem_mutex, allocVars, readerVars>>
-----------------------------------------------------------------------------
AllocStep(t) ==
  \/ Reserve(t) \/ Register(t) \/ Lock(t) \/ Install(t) \/ Unlock(t)
  \/ RollBack(t)

ReadStep(r) == Lookup(r) \/ \E i \in 0 .. NumBlocks : TestOffset(r, i)

Next ==
  \/ \E t \in Allocators : AllocStep(t)
  \/ \E r \in Readers : ReadStep(r)
  \/ Destroy

Spec == Init /\ [][Next]_vars

(* A thread inside a call keeps running; nobody is obliged to start a call. *)
Fairness ==
  \A t \in Allocators :
    WF_vars(Register(t) \/ Lock(t) \/ Install(t) \/ Unlock(t) \/ RollBack(t))

FairSpec == Spec /\ Fairness
-----------------------------------------------------------------------------
Holding == {"install", "unlock"}              \* inside the critical section
Building == {"register", "lock", "install"}   \* owns a block not installed yet

TypeOK ==
  /\ next_offset \in Nat
  /\ blocks \in [BlockIds -> Block \cup {Null}]
  /\ mem_mutex \in Allocators \cup {Nobody}
  /\ regs \subseteq BlockIds
  /\ pc \in [Allocators -> {"idle", "rollback", "unlock"} \cup Building]
  /\ start \in [Allocators -> Nat \cup {None}]
  /\ mine \in [Allocators -> Block \cup {Null}]
  /\ ret \in [Allocators -> {"none", "true"}]
  /\ rpc \in [Readers -> {"idle", "lookup"}]
  /\ voff \in [Readers -> 0 .. NumBlocks \cup {None}]
  /\ got \in [Readers -> {"none", "NULL", "mr", "wild"}]
  /\ due \in [Readers -> BOOLEAN]
  /\ life \in {"up", "destroyed", "crashed"}

Installed == {i \in BlockIds : blocks[i] # Null}
Reserved  == {start[t] : t \in {u \in Allocators : pc[u] \in Building}}
Claimed   == Installed \cup Reserved
Undoing   == {t \in Allocators : pc[t] = "rollback"}

(***************************************************************************)
(* assert(blocks[idx] == nullptr) in allocate_next_block never fires: two  *)
(* reservations never name one block, although overshooting threads move   *)
(* next_offset up and down under the others.                               *)
(***************************************************************************)
SlotFreeAtInstall ==
  \A t \in Allocators : pc[t] = "install" =>
    /\ start[t] \in BlockIds
    /\ blocks[start[t]] = Null

(***************************************************************************)
(* A thread takes the roll-back path of allocate_next_block only when      *)
(* every block is installed or being installed by another thread: a        *)
(* transient overshoot never makes another allocation fail early.          *)
(***************************************************************************)
RefusedOnlyWhenFull == Undoing # {} => Claimed = BlockIds

(***************************************************************************)
(* When no allocation is in progress next_offset counts the installed      *)
(* blocks, and they are the first ones: failed allocations leave no trace. *)
(***************************************************************************)
QuietSizeExact ==
  (life = "up" /\ \A t \in Allocators : pc[t] = "idle")
    => Installed = {i \in BlockIds : i < next_offset}
       /\ next_offset <= NumBlocks

(***************************************************************************)
(* get_pinned_mr called when a registered block is already installed       *)
(* returns its region, whatever allocators do between its bound test and   *)
(* its read of the vector.                                                 *)
(***************************************************************************)
InstalledBlockFound == \A r \in Readers : due[r] => got[r] # "NULL"

(***************************************************************************)
(* Every allocate_pinned_memory call returns.                              *)
(***************************************************************************)
AllocReturns == \A t \in Allocators : (pc[t] # "idle") ~> (pc[t] = "idle")

(***************************************************************************)
(* What the repository says of this code and the code does not do.         *)
(***************************************************************************)

(***************************************************************************)
(* "also the mem size" (mem_mag.h:69): an offset below next_offset lies in *)
(* the memory, so the slot get_mr reads is one of the vector's.  Violated  *)
(* while an overshooting thread has not given its fetch_add back.          *)
(***************************************************************************)
LookupWithinMemory == \A r \in Readers : rpc[r] = "lookup" => voff[r] \in BlockIds

(***************************************************************************)
(* "allocate and make mr for a memory block" (mem_mag.cc:33): true from    *)
(* allocate_pinned_memory means the block and its region exist.  Violated  *)
(* by a full pool and by a failed registration: both results are dropped.  *)
(***************************************************************************)
TrueMeansBlock ==
  \A t \in Allocators : (life = "up" /\ ret[t] = "true") =>
    /\ start[t] \in BlockIds
    /\ Usable(blocks[start[t]])

(***************************************************************************)
(* assert(blocks[idx] == nullptr) (mem_mag.cc:21) says that a slot not     *)
(* filled yet holds nullptr.  The destructor dereferences every slot, so   *)
(* it crashes unless the pool is full.                                     *)
(***************************************************************************)
DestructorSafe == life # "crashed"

(***************************************************************************)
(* The pool this allocator implements: a block is granted, or the call     *)
(* refused, at the fetch_add.                                              *)
(***************************************************************************)
Answer(t) == IF start[t] < NumBlocks THEN start[t] ELSE NumBlocks

Pool == INSTANCE BlockPool WITH
          granted <- {i \in BlockIds : i < next_offset},
          answer  <- [t \in Allocators |-> Answer(t)]

ImplementsPool == Pool!Spec
-----------------------------------------------------------------------------
(***************************************************************************)
(* The inductive strengthening the theorems of PinnedMemoryProofs rest on. *)
(***************************************************************************)

(* Every overshoot beyond the pool belongs to a thread about to undo it. *)
OffsetInv ==
  \/ next_offset >= NumBlocks /\ next_offset = NumBlocks + Cardinality(Undoing)
  \/ next_offset < NumBlocks /\ Undoing = {}

(* The blocks below next_offset are exactly the claimed ones. *)
ClaimInv == life = "up" => Claimed = {i \in BlockIds : i < next_offset}

(* Threads that build blocks build different ones, for empty slots. *)
BuildInv ==
  \A t \in Allocators : pc[t] \in Building =>
    /\ start[t] \in BlockIds
    /\ blocks[start[t]] = Null
    /\ pc[t] # "register" => mine[t] # Null
    /\ \A u \in Allocators \ {t} : pc[u] \in Building => start[u] # start[t]

MutexInv == \A t \in Allocators : pc[t] \in Holding <=> mem_mutex = t

LifeInv == life # "up" => Quiet

ReaderInv ==
  \A r \in Readers : due[r] =>
    /\ got[r] # "NULL"
    /\ rpc[r] = "lookup" => voff[r] \in BlockIds /\ Usable(blocks[voff[r]])

IInv ==
  TypeOK /\ OffsetInv /\ ClaimInv /\ BuildInv /\ MutexInv /\ LifeInv /\ ReaderInv
=============================================================================
