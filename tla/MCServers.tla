------------------------------ MODULE MCServers ------------------------------
(***************************************************************************)
(* What a connection reaches its server with, for TLC: TunneledAdapter,    *)
(* Adapters (the drivers' own pools) and SshDial (the bastion).  The       *)
(* tunneled adapter sees a dial as done or failed and a query as answered  *)
(* or not, so that they share no state; the one in focus moves, the others *)
(* rest.  The drivers and the dial may come to an end, the tunneled        *)
(* adapter may not.                                                        *)
(***************************************************************************)
EXTENDS MCTunneledAdapter, MCAdapters, SshDial

VARIABLE focus

\* What the proofs about SshDial ask of the constants.
ASSUME DialAssumption == DialParameters

mcVars == <<focus, vars, adapterVars, dialVars>>

(* Whoever is not in focus begins in one state. *)
MCInit ==
  /\ focus \in {"tunnel", "pool", "dial"}
  /\ Init /\ AdaptersInit /\ DialInit
  /\ OneEndsItsTransaction
  /\ focus # "pool" => /\ scene = "writes" /\ driver = "mysql" /\ row.matching = 1
                       /\ ends = [b \in Batches |-> {}]
  /\ focus # "dial" => Pinning /\ presents = CHOOSE p \in [Bastions -> HostKeys] : TRUE

MCNext ==
  \/ focus = "tunnel" /\ Next /\ UNCHANGED <<focus, adapterVars, dialVars>>
  \/ focus = "pool" /\ MCAdaptersNext /\ UNCHANGED <<focus, vars, dialVars>>
  \/ focus = "dial" /\ DialNext /\ UNCHANGED <<focus, vars, adapterVars>>
  \/ focus # "tunnel" /\ UNCHANGED mcVars

MCSpec == MCInit /\ [][MCNext]_mcVars /\ Fairness /\ DialFairness

(* Every caller of the tunneled adapter is answered, and close() of a      *)
(* forward returns (tunneled-adapter.ts:176-271, ssh-tunnel.ts:276-290).   *)
NobodyWaitsForEver == EveryCallIsAnswered /\ CloseReturns
=============================================================================
