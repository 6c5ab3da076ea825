----------------------------- MODULE BlockPool -----------------------------
(***************************************************************************)
(* What Pinned_Fix_Memory promises the threads that allocate from it: a    *)
(* fixed pool of NumBlocks blocks, each granted to exactly one allocation, *)
(* lowest free block first, and an allocation refused only when every      *)
(* block has been granted.  An allocation is one atomic step here; in      *)
(* PinnedMemory it is a lock-free reservation followed by registration,    *)
(* a mutex-protected installation, or a roll-back.                         *)
(***************************************************************************)
EXTENDS Integers

CONSTANTS Allocators,   \* threads that allocate blocks
          NumBlocks     \* capacity of the pool, in blocks

VARIABLES granted,      \* the set of blocks handed out so far
          answer        \* answer[t]: what t's latest allocation was told

poolVars == <<granted, answer>>

Nothing == -1           \* no allocation made yet
Full    == NumBlocks    \* the latest allocation was refused

Init ==
  /\ granted = {}
  /\ answer = [t \in Allocators |-> Nothing]

(* The lowest free block goes to t, and to nobody else ever after. *)
Grant(t) ==
  \E b \in (0 .. NumBlocks - 1) \ granted :
    /\ \A lower \in 0 .. b - 1 : lower \in granted
    /\ granted' = granted \cup {b}
    /\ answer' = [answer EXCEPT ![t] = b]

Refuse(t) ==
  /\ granted = 0 .. NumBlocks - 1
  /\ answer' = [answer EXCEPT ![t] = Full]
  /\ UNCHANGED granted

Next == \E t \in Allocators : Grant(t) \/ Refuse(t)

Spec == Init /\ [][Next]_poolVars
=============================================================================
