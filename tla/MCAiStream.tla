----------------------------- MODULE MCAiStream -----------------------------
(* Small instances of AiStream for TLC. *)
EXTENDS AiStream
=============================================================================
