----------------------------- MODULE LinkOrder -----------------------------
(***************************************************************************)
(* What Link_buf promises: concurrent operations occupy consecutive        *)
(* stretches of a total order and finish in any order; the tail is a       *)
(* position below which all of them have finished, and it never goes back. *)
(***************************************************************************)
EXTENDS Integers

CONSTANT Adders       \* threads that perform operations

VARIABLES reserved,   \* the order is handed out up to here
          begun,      \* begun[t]: where t's unfinished operation starts, or -1
          tail        \* no unfinished operation starts below

orderVars == <<reserved, begun, tail>>

Idle == -1

Init ==
  /\ reserved = 0
  /\ begun = [t \in Adders |-> Idle]
  /\ tail = 0

Begin(t) ==
  /\ begun[t] = Idle
  /\ begun' = [begun EXCEPT ![t] = reserved]
  /\ reserved' > reserved
  /\ UNCHANGED tail

Finish(t) ==
  /\ begun[t] # Idle
  /\ begun' = [begun EXCEPT ![t] = Idle]
  /\ UNCHANGED <<reserved, tail>>

Advance ==
  /\ tail' > tail
  /\ tail' <= reserved
  /\ \A t \in Adders : begun[t] # Idle => tail' <= begun[t]
  /\ UNCHANGED <<reserved, begun>>

Next == (\E t \in Adders : Begin(t) \/ Finish(t)) \/ Advance

Spec == Init /\ [][Next]_orderVars
=============================================================================
