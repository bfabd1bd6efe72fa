------------------------- MODULE MCTunneledAdapter -------------------------
(* Small instances of TunneledAdapter for TLC. *)
EXTENDS TunneledAdapter
=============================================================================
