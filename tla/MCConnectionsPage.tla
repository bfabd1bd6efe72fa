-------------------------- MODULE MCConnectionsPage --------------------------
(***************************************************************************)
(* The registry and the page in front of it, for TLC: Connections,         *)
(* ConnectionsPage with the requests it sends, ConnectionForm with the     *)
(* bodies it builds for them.  The page sees a request as taken or refused *)
(* and the form a record as built from a body, so that they share no       *)
(* state; the one in focus moves, the others rest.  The page and the form  *)
(* may stop at their bounds, the registry may not.                         *)
(***************************************************************************)
EXTENDS MCConnections, ConnectionsScreen

VARIABLE focus

\* What the proofs about ConnectionsPage ask of the constants.
ASSUME ConnectionsPageAssumption == PageParameters

mcVars == <<focus, vars, pageVars, formVars>>

MCInit ==
  /\ focus \in {"registry", "page", "form"}
  /\ Init /\ FormInit
  /\ PageInit /\ (focus # "page" => patient)

MCNext ==
  \/ focus = "registry" /\ Next /\ UNCHANGED <<focus, pageVars, formVars>>
  \/ focus = "page" /\ PageNext /\ UNCHANGED <<focus, vars, formVars>>
  \/ focus = "form" /\ FormNext /\ UNCHANGED <<focus, vars, pageVars>>
  \/ focus # "registry" /\ UNCHANGED mcVars

MCSpec == MCInit /\ [][MCNext]_mcVars /\ Fairness
=============================================================================
