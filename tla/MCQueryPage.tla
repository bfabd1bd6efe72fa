---------------------------- MODULE MCQueryPage ----------------------------
(* Small instances of QueryPage for TLC. *)
EXTENDS QueryPage, TLC
=============================================================================
