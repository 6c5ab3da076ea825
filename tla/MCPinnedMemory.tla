--------------------------- MODULE MCPinnedMemory ---------------------------
(* Finite instances of PinnedMemory. *)
EXTENDS PinnedMemory
=============================================================================
