----------------------------- MODULE MCScripts -----------------------------
(***************************************************************************)
(* A script from its text to its restore, for TLC: SqlScript, which asks   *)
(* whether the splitter finds the statements that were written, and        *)
(* Restore, which runs what it found.  A restore takes a script as split   *)
(* and labelled, so that they share no state; the one in focus moves, the  *)
(* other rests.                                                            *)
(***************************************************************************)
EXTENDS MCRestore, SqlScript

VARIABLE focus

mcVars == <<focus, vars, scriptVars>>

MCInit ==
  /\ focus \in {"restore", "script"}
  /\ Init /\ ScriptInit
  /\ focus # "restore" => engine = "none" /\ patient /\ ~tables

\* A bound: the odd script is the only one of its visit.
OddComesAlone ==
  odd \in reading' \cup {script'} => planned' + Cardinality(reading') <= 1

MCNext ==
  \/ focus = "restore" /\ Next /\ OddComesAlone /\ UNCHANGED <<focus, scriptVars>>
  \/ focus = "script" /\ ScriptNext /\ UNCHANGED <<focus, vars>>

MCSpec == MCInit /\ [][MCNext]_mcVars /\ RestoreFairness

ScriptsTypeOK == TypeOK /\ ScriptTypeOK
=============================================================================
