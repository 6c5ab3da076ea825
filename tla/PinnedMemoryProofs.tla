------------------------- MODULE PinnedMemoryProofs -------------------------
(***************************************************************************)
(* Proofs about PinnedMemory for any finite set of allocators, any set of  *)
(* readers and any pool size.                                              *)
(***************************************************************************)
EXTENDS PinnedMemory, FiniteSetTheorems, TLAPS

USE ThreadsAssumption, NumBlocksAssumption, NullAssumption

(* Registering yields a well-formed block, usable only if it has a region. *)
LEMMA RegAllocLocalType ==
  ASSUME NEW memOk \in BOOLEAN, NEW regOk \in BOOLEAN
  PROVE  RegAllocLocal(memOk, regOk) \in Block
BY DEF RegAllocLocal, Block

(* The threads that are rolling back form a finite set. *)
LEMMA UndoingFinite == IsFiniteSet(Undoing) /\ Cardinality(Undoing) \in Nat
<1>1. Undoing \in SUBSET Allocators
  BY DEF Undoing
<1>2. IsFiniteSet(Undoing)
  BY <1>1, FS_Subset
<1> QED BY <1>2, FS_CardinalityType

LEMMA InitInv == Init => IInv
<1> SUFFICES ASSUME Init PROVE IInv
  OBVIOUS
<1> USE DEF Init
<1>1. TypeOK
  BY DEF TypeOK, Block, BlockIds, None
<1>2. OffsetInv
  BY DEF OffsetInv, Undoing
<1>3. ClaimInv
  BY DEF ClaimInv, Claimed, Installed, Reserved, Building, BlockIds
<1>4. BuildInv
  BY DEF BuildInv, Building
<1>5. MutexInv
  BY DEF MutexInv, Holding
<1>6. LifeInv /\ ReaderInv
  BY DEF LifeInv, ReaderInv
<1> QED BY <1>1, <1>2, <1>3, <1>4, <1>5, <1>6 DEF IInv

-----------------------------------------------------------------------------
(* One lemma per operation: it preserves the inductive invariant. *)

LEMMA ReserveInv ==
  ASSUME NEW t \in Allocators, IInv, Reserve(t)
  PROVE  IInv'
<1> USE DEF Reserve, Fits
<1> USE IInv DEF IInv
<1>0. t \notin Undoing /\ life' = "up" /\ next_offset \in Nat
  BY DEF Undoing, TypeOK
<1>1. TypeOK'
  BY DEF TypeOK, Building, readerVars
<1>2. CASE next_offset < NumBlocks
  <2>0. next_offset + 1 <= NumBlocks
    BY <1>2, <1>0
  <2>1. pc' = [pc EXCEPT ![t] = "register"] /\ start' = [start EXCEPT ![t] = next_offset]
    BY <2>0, Zenon
  <2>2. Undoing = {} /\ Undoing' = {}
    BY <1>2, <2>1, <1>0 DEF OffsetInv, Undoing, TypeOK
  <2>3. next_offset \in BlockIds /\ next_offset \notin Claimed
    BY <1>2, <1>0 DEF ClaimInv, BlockIds
  <2>4. OffsetInv'
    BY <1>2, <1>0, <2>2, FS_EmptySet DEF OffsetInv
  <2>5. Claimed' = Claimed \cup {next_offset}
    BY <2>1 DEF Claimed, Installed, Reserved, Building, TypeOK
  <2>6. ClaimInv'
    BY <1>0, <2>5, <2>3 DEF ClaimInv, BlockIds
  <2>7. BuildInv'
    BY <2>1, <2>3 DEF BuildInv, Claimed, Installed, Reserved, Building, TypeOK, BlockIds
  <2>8. MutexInv'
    BY <2>1 DEF MutexInv, Holding, TypeOK
  <2>9. LifeInv' /\ ReaderInv'
    BY DEF LifeInv, ReaderInv, readerVars
  <2> QED BY <1>1, <2>4, <2>6, <2>7, <2>8, <2>9
<1>3. CASE next_offset >= NumBlocks
  <2>0. ~(next_offset + 1 <= NumBlocks)
    BY <1>3, <1>0
  <2>1. pc' = [pc EXCEPT ![t] = "rollback"] /\ start' = [start EXCEPT ![t] = next_offset]
    BY <2>0, Zenon
  <2>2. Undoing' = Undoing \cup {t}
    BY <2>1 DEF Undoing, TypeOK
  <2>3. Cardinality(Undoing') = Cardinality(Undoing) + 1
    BY <2>2, <1>0, UndoingFinite, FS_AddElement
  <2>4. OffsetInv'
    BY <1>3, <1>0, <2>3, UndoingFinite DEF OffsetInv
  <2>5. Claimed' = Claimed
    BY <2>1 DEF Claimed, Installed, Reserved, Building, TypeOK
  <2>6. ClaimInv'
    BY <1>0, <1>3, <2>5 DEF ClaimInv, BlockIds
  <2>7. BuildInv'
    BY <2>1 DEF BuildInv, Building, TypeOK
  <2>8. MutexInv'
    BY <2>1 DEF MutexInv, Holding, TypeOK
  <2>9. LifeInv' /\ ReaderInv'
    BY DEF LifeInv, ReaderInv, readerVars
  <2> QED BY <1>1, <2>4, <2>6, <2>7, <2>8, <2>9
<1> QED BY <1>0, <1>2, <1>3

LEMMA RegisterInv ==
  ASSUME NEW t \in Allocators, IInv, Register(t)
  PROVE  IInv'
<1> USE IInv DEF IInv
<1>0. PICK b \in Block :
        /\ mine' = [mine EXCEPT ![t] = b]
        /\ regs' = IF b.mr THEN regs \cup {start[t]} ELSE regs
  BY RegAllocLocalType DEF Register
<1>1. /\ pc[t] = "register" /\ pc' = [pc EXCEPT ![t] = "lock"]
      /\ UNCHANGED <<next_offset, blocks, mem_mutex, start, ret, readerVars, life>>
  BY DEF Register
<1>2. start[t] \in BlockIds
  BY <1>1 DEF BuildInv, Building
<1>3. TypeOK'
  BY <1>0, <1>1, <1>2 DEF TypeOK, Building, readerVars
<1>4. Undoing' = Undoing /\ Claimed' = Claimed
  BY <1>1 DEF Undoing, Claimed, Installed, Reserved, Building, TypeOK
<1>5. OffsetInv' /\ ClaimInv'
  BY <1>1, <1>4 DEF OffsetInv, ClaimInv
<1>6. BuildInv'
  BY <1>0, <1>1 DEF BuildInv, Building, TypeOK
<1>7. MutexInv'
  BY <1>1 DEF MutexInv, Holding, TypeOK
<1>8. LifeInv' /\ ReaderInv'
  BY <1>1 DEF LifeInv, ReaderInv, readerVars, Quiet
<1> QED BY <1>3, <1>5, <1>6, <1>7, <1>8

LEMMA LockInv ==
  ASSUME NEW t \in Allocators, IInv, Lock(t)
  PROVE  IInv'
<1> USE IInv DEF IInv, Lock
<1>1. TypeOK'
  BY DEF TypeOK, Building, readerVars
<1>2. Undoing' = Undoing /\ Claimed' = Claimed
  BY DEF Undoing, Claimed, Installed, Reserved, Building, TypeOK
<1>3. OffsetInv' /\ ClaimInv'
  BY <1>2 DEF OffsetInv, ClaimInv
<1>4. BuildInv'
  BY DEF BuildInv, Building, TypeOK
<1>5. MutexInv'
  BY DEF MutexInv, Holding, TypeOK
<1>6. LifeInv' /\ ReaderInv'
  BY DEF LifeInv, ReaderInv, readerVars, Quiet
<1> QED BY <1>1, <1>3, <1>4, <1>5, <1>6

LEMMA InstallInv ==
  ASSUME NEW t \in Allocators, IInv, Install(t)
  PROVE  IInv'
<1> USE IInv DEF IInv, Install
<1>0. /\ start[t] \in BlockIds /\ blocks[start[t]] = Null
      /\ mine[t] \in Block /\ mine[t] # Null
      /\ \A u \in Allocators \ {t} : pc[u] \in Building => start[u] # start[t]
  BY DEF BuildInv, Building, TypeOK
<1>1. TypeOK'
  BY <1>0 DEF TypeOK, Building, readerVars
<1>2. Undoing' = Undoing
  BY DEF Undoing, TypeOK
<1>3. Claimed' = Claimed
  <2>1. Installed' = Installed \cup {start[t]}
    BY <1>0 DEF Installed, TypeOK
  <2>2. Reserved' = Reserved \ {start[t]} /\ start[t] \in Reserved
    BY <1>0 DEF Reserved, Building, TypeOK
  <2> QED BY <2>1, <2>2 DEF Claimed
<1>4. OffsetInv' /\ ClaimInv'
  BY <1>2, <1>3 DEF OffsetInv, ClaimInv
<1>5. BuildInv'
  BY <1>0 DEF BuildInv, Building, TypeOK
<1>6. MutexInv'
  BY DEF MutexInv, Holding, TypeOK
<1>7. LifeInv'
  BY DEF LifeInv, readerVars, Quiet
<1>8. ReaderInv'
  BY <1>0 DEF ReaderInv, readerVars, TypeOK, Usable
<1> QED BY <1>1, <1>4, <1>5, <1>6, <1>7, <1>8

LEMMA UnlockInv ==
  ASSUME NEW t \in Allocators, IInv, Unlock(t)
  PROVE  IInv'
<1> USE IInv DEF IInv, Unlock, Released
<1>1. TypeOK'
  BY DEF TypeOK, Building, readerVars
<1>2. Undoing' = Undoing /\ Claimed' = Claimed
  BY DEF Undoing, Claimed, Installed, Reserved, Building, TypeOK
<1>3. OffsetInv' /\ ClaimInv'
  BY <1>2 DEF OffsetInv, ClaimInv
<1>4. BuildInv'
  BY DEF BuildInv, Building, TypeOK
<1>5. MutexInv'
  BY DEF MutexInv, Holding, TypeOK
<1>6. LifeInv' /\ ReaderInv'
  BY DEF LifeInv, ReaderInv, readerVars, Quiet
<1> QED BY <1>1, <1>3, <1>4, <1>5, <1>6

LEMMA RollBackInv ==
  ASSUME NEW t \in Allocators, IInv, RollBack(t)
  PROVE  IInv' /\ next_offset > NumBlocks
<1> USE IInv DEF IInv, RollBack, Undo
<1>1. t \in Undoing
  BY DEF Undoing
<1>2. Undoing' = Undoing \ {t}
  BY DEF Undoing, TypeOK
<1>3. Cardinality(Undoing') = Cardinality(Undoing) - 1 /\ Cardinality(Undoing) >= 1
  <2>1. Cardinality(Undoing \ {t}) = Cardinality(Undoing) - 1
    BY <1>1, UndoingFinite, FS_RemoveElement
  <2>2. Cardinality(Undoing) # 0
    BY <1>1, UndoingFinite, FS_EmptySet
  <2> QED BY <1>2, <2>1, <2>2, UndoingFinite
<1>4. next_offset = NumBlocks + Cardinality(Undoing) /\ next_offset > NumBlocks
  BY <1>1, <1>3, UndoingFinite DEF OffsetInv
<1>5. OffsetInv'
  BY <1>3, <1>4, UndoingFinite DEF OffsetInv
<1>6. TypeOK'
  BY <1>4 DEF TypeOK, Building, readerVars
<1>7. Claimed' = Claimed
  BY DEF Claimed, Installed, Reserved, Building, TypeOK
<1>8. ClaimInv'
  BY <1>4, <1>7 DEF ClaimInv, BlockIds, TypeOK
<1>9. BuildInv'
  BY DEF BuildInv, Building, TypeOK
<1>10. MutexInv'
  BY DEF MutexInv, Holding, TypeOK
<1>11. LifeInv' /\ ReaderInv'
  BY DEF LifeInv, ReaderInv, readerVars, Quiet
<1> QED BY <1>4, <1>5, <1>6, <1>8, <1>9, <1>10, <1>11

LEMMA TestOffsetInv ==
  ASSUME NEW r \in Readers, NEW i \in 0 .. NumBlocks, IInv, TestOffset(r, i)
  PROVE  IInv'
<1> USE IInv DEF IInv, TestOffset, Below
<1>1. TypeOK'
  BY DEF TypeOK, allocVars
<1>2. Undoing' = Undoing /\ Claimed' = Claimed
  BY DEF Undoing, Claimed, Installed, Reserved, allocVars
<1>3. OffsetInv' /\ ClaimInv' /\ BuildInv' /\ MutexInv'
  BY <1>2 DEF OffsetInv, ClaimInv, BuildInv, MutexInv, allocVars
<1>4. LifeInv'
  BY DEF LifeInv
<1>5. (i \in BlockIds /\ Usable(blocks[i])) => i < next_offset
  BY DEF ClaimInv, Claimed, Installed, Usable
<1>6. ReaderInv'
  BY <1>5 DEF ReaderInv, TypeOK
<1> QED BY <1>1, <1>3, <1>4, <1>6

LEMMA LookupInv ==
  ASSUME NEW r \in Readers, IInv, Lookup(r)
  PROVE  IInv'
<1> USE IInv DEF IInv
<1>0. PICK answer \in {"NULL", "mr", "wild"} :
        /\ got' = [got EXCEPT ![r] = answer]
        /\ (voff[r] \in BlockIds /\ Usable(blocks[voff[r]])) => answer = "mr"
  BY DEF Lookup
<1>1. /\ rpc[r] = "lookup" /\ rpc' = [rpc EXCEPT ![r] = "idle"]
      /\ UNCHANGED <<next_offset, blocks, mem_mutex, regs, allocVars, voff, due, life>>
  BY DEF Lookup
<1>2. TypeOK'
  BY <1>0, <1>1 DEF TypeOK, allocVars
<1>3. Undoing' = Undoing /\ Claimed' = Claimed
  BY <1>1 DEF Undoing, Claimed, Installed, Reserved, allocVars
<1>4. OffsetInv' /\ ClaimInv' /\ BuildInv' /\ MutexInv'
  BY <1>1, <1>3 DEF OffsetInv, ClaimInv, BuildInv, MutexInv, allocVars
<1>5. LifeInv'
  BY <1>1 DEF LifeInv, Quiet, allocVars, TypeOK
<1>6. ReaderInv'
  BY <1>0, <1>1 DEF ReaderInv, TypeOK
<1> QED BY <1>2, <1>4, <1>5, <1>6

LEMMA DestroyInv ==
  ASSUME IInv, Destroy
  PROVE  IInv'
<1> USE IInv DEF IInv
<1>1. /\ Quiet /\ Quiet' /\ life' \in {"destroyed", "crashed"}
      /\ UNCHANGED <<next_offset, mem_mutex, allocVars, readerVars>>
      /\ regs' \subseteq regs
  BY DEF Destroy, Quiet, allocVars, readerVars
<1>2. blocks' \in [BlockIds -> Block \cup {Null}]
  BY DEF Destroy, TypeOK
<1>3. TypeOK'
  BY <1>1, <1>2 DEF TypeOK, allocVars, readerVars
<1>4. Undoing' = Undoing
  BY <1>1 DEF Undoing, allocVars
<1>5. OffsetInv' /\ ClaimInv' /\ MutexInv' /\ LifeInv'
  BY <1>1, <1>4 DEF OffsetInv, ClaimInv, MutexInv, LifeInv, allocVars
<1>6. BuildInv'
  BY <1>1 DEF BuildInv, Quiet, Building
<1>7. ReaderInv'
  BY <1>1 DEF ReaderInv, Quiet, readerVars
<1> QED BY <1>3, <1>5, <1>6, <1>7

LEMMA StutterInv == IInv /\ UNCHANGED vars => IInv'
BY DEF IInv, vars, allocVars, readerVars, TypeOK, OffsetInv, ClaimInv, BuildInv,
       MutexInv, LifeInv, ReaderInv, Undoing, Claimed, Installed, Reserved, Quiet

LEMMA StepInv == IInv /\ [Next]_vars => IInv'
<1> SUFFICES ASSUME IInv, [Next]_vars PROVE IInv'
  OBVIOUS
<1>1. ASSUME NEW t \in Allocators, AllocStep(t) PROVE IInv'
  BY <1>1, ReserveInv, RegisterInv, LockInv, InstallInv, UnlockInv, RollBackInv
     DEF AllocStep
<1>2. ASSUME NEW r \in Readers, ReadStep(r) PROVE IInv'
  BY <1>2, TestOffsetInv, LookupInv DEF ReadStep
<1> QED BY <1>1, <1>2, DestroyInv, StutterInv DEF Next
-----------------------------------------------------------------------------
(* The inductive invariant holds in every reachable state. *)
THEOREM Invariance == Spec => []IInv
BY InitInv, StepInv, PTL DEF Spec

(***************************************************************************)
(* Type correctness of the allocator: in particular roll-backs never drive *)
(* next_offset below zero.                                                 *)
(***************************************************************************)
THEOREM TypeCorrect == Spec => []TypeOK
<1>1. IInv => TypeOK
  BY DEF IInv
<1> QED BY <1>1, Invariance, PTL

(***************************************************************************)
(* assert(blocks[idx] == nullptr) in allocate_next_block cannot fire.      *)
(***************************************************************************)
THEOREM SlotFree == Spec => []SlotFreeAtInstall
<1>1. IInv => SlotFreeAtInstall
  BY DEF IInv, BuildInv, Building, SlotFreeAtInstall
<1> QED BY <1>1, Invariance, PTL

(***************************************************************************)
(* While the pool is up, an allocation rolls back only when every block is *)
(* installed or about to be.                                               *)
(***************************************************************************)
THEOREM NoSpuriousRefusal == Spec => []RefusedOnlyWhenFull
<1>1. IInv => RefusedOnlyWhenFull
  <2> SUFFICES ASSUME IInv, Undoing # {} PROVE Claimed = BlockIds
    BY DEF RefusedOnlyWhenFull
  <2>1. life = "up"
    BY DEF IInv, LifeInv, Quiet, Undoing
  <2>2. next_offset >= NumBlocks /\ next_offset \in Nat
    BY DEF IInv, OffsetInv, TypeOK
  <2>3. Claimed = {i \in BlockIds : i < next_offset}
    BY <2>1 DEF IInv, ClaimInv
  <2>4. {i \in BlockIds : i < next_offset} = BlockIds
    BY <2>2 DEF BlockIds
  <2> QED BY <2>3, <2>4
<1> QED BY <1>1, Invariance, PTL

(***************************************************************************)
(* With no allocation in progress, next_offset is the number of installed  *)
(* blocks and these are the lowest ones.                                   *)
(***************************************************************************)
THEOREM QuietSize == Spec => []QuietSizeExact
<1>1. IInv => QuietSizeExact
  <2> SUFFICES ASSUME IInv, life = "up", \A t \in Allocators : pc[t] = "idle"
               PROVE  /\ Installed = {i \in BlockIds : i < next_offset}
                      /\ next_offset <= NumBlocks
    BY DEF QuietSizeExact
  <2>1. Undoing = {} /\ Reserved = {}
    BY DEF Undoing, Reserved, Building
  <2>2. Claimed = Installed
    BY <2>1 DEF Claimed
  <2> QED BY <2>1, <2>2, FS_EmptySet DEF IInv, ClaimInv, OffsetInv, TypeOK
<1> QED BY <1>1, Invariance, PTL

(***************************************************************************)
(* A lookup that starts after a registered block was installed finds it.   *)
(***************************************************************************)
THEOREM LookupFinds == Spec => []InstalledBlockFound
<1>1. IInv => InstalledBlockFound
  BY DEF IInv, ReaderInv, InstalledBlockFound
<1> QED BY <1>1, Invariance, PTL
-----------------------------------------------------------------------------
(***************************************************************************)
(* The lock-free allocator implements the abstract pool: each fetch_add is *)
(* a grant of the lowest free block or a refusal by a full pool, and every *)
(* other step, roll-backs included, leaves the pool as it is.              *)
(***************************************************************************)
LEMMA PoolInit == Init => Pool!Init
BY DEF Init, Pool!Init, BlockIds, Answer, None, Pool!Nothing

LEMMA PoolUnchanged ==
  ASSUME UNCHANGED <<next_offset, start>>
  PROVE  UNCHANGED Pool!poolVars
BY DEF Pool!poolVars, Answer

LEMMA PoolReserve ==
  ASSUME NEW t \in Allocators, IInv, Reserve(t)
  PROVE  Pool!Next
<1>0. next_offset \in Nat
  BY DEF IInv, TypeOK
<1>1. start' = [start EXCEPT ![t] = next_offset] /\ next_offset' = next_offset + 1
  BY DEF Reserve, Fits
<1>2. [u \in Allocators |-> Answer(u)]'
        = [[u \in Allocators |-> Answer(u)] EXCEPT ![t] =
              IF next_offset < NumBlocks THEN next_offset ELSE NumBlocks]
  BY <1>1 DEF Answer, IInv, TypeOK
<1>3. CASE next_offset < NumBlocks
  <2>1. {i \in BlockIds : i < next_offset}'
          = {i \in BlockIds : i < next_offset} \cup {next_offset}
    BY <1>0, <1>1, <1>3 DEF BlockIds
  <2>2. next_offset \in (0 .. NumBlocks - 1) \ {i \in BlockIds : i < next_offset}
    BY <1>0, <1>3
  <2>3. \A lower \in 0 .. next_offset - 1 : lower \in {i \in BlockIds : i < next_offset}
    BY <1>0, <1>3 DEF BlockIds
  <2>4. Pool!Grant(t)
    BY <1>2, <1>3, <2>1, <2>2, <2>3 DEF Pool!Grant
  <2> QED BY <2>4 DEF Pool!Next
<1>4. CASE next_offset >= NumBlocks
  <2>1. /\ {i \in BlockIds : i < next_offset} = 0 .. NumBlocks - 1
        /\ {i \in BlockIds : i < next_offset}' = 0 .. NumBlocks - 1
    BY <1>0, <1>1, <1>4 DEF BlockIds
  <2>2. ~(next_offset < NumBlocks)
    BY <1>0, <1>4
  <2>3. [u \in Allocators |-> Answer(u)]'
          = [[u \in Allocators |-> Answer(u)] EXCEPT ![t] = Pool!Full]
    BY <1>2, <2>2 DEF Pool!Full
  <2>4. Pool!Refuse(t)
    BY <2>1, <2>3, Zenon DEF Pool!Refuse
  <2> QED BY <2>4 DEF Pool!Next
<1> QED BY <1>0, <1>3, <1>4

LEMMA PoolRollBack ==
  ASSUME NEW t \in Allocators, IInv, RollBack(t)
  PROVE  UNCHANGED Pool!poolVars
<1>1. next_offset > NumBlocks /\ next_offset \in Nat /\ next_offset' = next_offset - 1
  BY RollBackInv DEF IInv, TypeOK, RollBack, Undo
<1>2. UNCHANGED start
  BY DEF RollBack, Undo
<1>3. {i \in BlockIds : i < next_offset}' = {i \in BlockIds : i < next_offset}
  BY <1>1 DEF BlockIds
<1> QED BY <1>2, <1>3 DEF Pool!poolVars, Answer

THEOREM PoolRefinement == Spec => ImplementsPool
<1>1. IInv /\ [Next]_vars => [Pool!Next]_(Pool!poolVars)
  <2> SUFFICES ASSUME IInv, [Next]_vars PROVE [Pool!Next]_(Pool!poolVars)
    OBVIOUS
  <2>1. ASSUME NEW t \in Allocators, AllocStep(t) PROVE [Pool!Next]_(Pool!poolVars)
    <3>1. CASE Reserve(t)
      BY <3>1, PoolReserve
    <3>2. CASE RollBack(t)
      BY <3>2, PoolRollBack
    <3>3. CASE Register(t) \/ Lock(t) \/ Install(t) \/ Unlock(t)
      BY <3>3, PoolUnchanged DEF Register, Lock, Install, Unlock, Released
    <3> QED BY <2>1, <3>1, <3>2, <3>3 DEF AllocStep
  <2>2. ASSUME NEW r \in Readers, ReadStep(r) PROVE [Pool!Next]_(Pool!poolVars)
    BY <2>2, PoolUnchanged DEF ReadStep, TestOffset, Below, Lookup, allocVars
  <2>3. CASE Destroy \/ UNCHANGED vars
    BY <2>3, PoolUnchanged DEF Destroy, allocVars, vars
  <2> QED BY <2>1, <2>2, <2>3 DEF Next
<1> QED BY <1>1, PoolInit, Invariance, PTL DEF Spec, ImplementsPool, Pool!Spec
=============================================================================
