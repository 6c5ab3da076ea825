---------------------------- MODULE MCConnection ----------------------------
(* Finite instances of Connection. *)
EXTENDS Connection, TLC

(* Clients all run the same program. *)
ClientSymmetry == Permutations(Clients)

NoFaults  == {}
AllFaults == {"fail", "null"}
=============================================================================
