----------------------------- MODULE MCCqPoller -----------------------------
(* Finite instances of CqPoller. *)
EXTENDS CqPoller
=============================================================================
