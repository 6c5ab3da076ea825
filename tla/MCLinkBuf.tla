----------------------------- MODULE MCLinkBuf -----------------------------
(* Finite instances of LinkBuf. *)
EXTENDS LinkBuf
=============================================================================
