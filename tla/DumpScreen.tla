------------------------------ MODULE DumpScreen ------------------------------
(***************************************************************************)
(* A download as its user has it: Dump, the file the server makes, and     *)
(* DumpButton, which asks for it.                                          *)
(***************************************************************************)
EXTENDS Dump, DumpButton

(* A dump's file tells the truth, and the button keeps to one download     *)
(* (dump-database.use-case.ts:63-246, useDump.ts:64-110).                  *)
DumpIsTrue == FileIsTrue /\ OneDownload
=============================================================================
