----------------------------- MODULE DumpButton -----------------------------
(***************************************************************************)
(* The dump button of the SQL page (useDump.ts, DumpButton.vue): a request *)
(* without consent may be answered 400, which is shown as a question; yes  *)
(* sends it again with confirm=true, no dismisses it.                      *)
(*                                                                         *)
(* The server answers 400 when the database is large, and also when its    *)
(* listing fails in the engine (Dump.tla).                                 *)
(***************************************************************************)
EXTENDS Naturals

CONSTANT MaxStarts   \* bound on the requests sent

VARIABLES
  state,      \* DumpState
  question,   \* pendingConfirm is not null
  failure,    \* lastError is not null
  requests,   \* how many are out: [plain, confirmed]
  starts,     \* how many were sent
  patient     \* the user leaves the question alone once it is answered

buttonVars == <<state, question, failure, requests, starts, patient>>

ASSUME ButtonAssumption == MaxStarts \in Nat

ButtonTypeOK ==
  /\ state \in {"idle", "running", "confirm", "failed"}
  /\ {question, failure, patient} \subseteq BOOLEAN
  /\ requests \in [{"plain", "confirmed"} -> 0..MaxStarts]
  /\ starts \in 0..MaxStarts

ButtonInit ==
  /\ state = "idle" /\ question = FALSE /\ failure = FALSE
  /\ requests = [k \in {"plain", "confirmed"} |-> 0]
  /\ starts = 0 /\ patient \in BOOLEAN

(* :disabled="isRunning" *)
CanDownload == state # "running"

(* The question's buttons are there while the question is, also when it    *)
(* has been answered and its request is out.                               *)
CanAnswer == question /\ (patient => state = "confirm")

(* start(confirm): the question is not cleared here. *)
Starts(kind) ==
  /\ starts < MaxStarts
  /\ starts' = starts + 1
  /\ requests' = [requests EXCEPT ![kind] = @ + 1]
  /\ state' = "running" /\ failure' = FALSE
  /\ UNCHANGED <<question, patient>>

Download == CanDownload /\ Starts("plain")

Accept == CanAnswer /\ Starts("confirmed")

Dismiss ==
  /\ CanAnswer
  /\ question' = FALSE /\ state' = "idle"
  /\ UNCHANGED <<failure, requests, starts, patient>>

Returns(kind) ==
  /\ requests[kind] > 0
  /\ requests' = [requests EXCEPT ![kind] = @ - 1]
  /\ UNCHANGED <<starts, patient>>

Saved(kind) ==
  /\ Returns(kind)
  /\ question' = FALSE /\ state' = "idle" /\ UNCHANGED failure

(* A 400 is the question only on an unconfirmed request. *)
AsksAbout(kind) == kind = "plain"

Refused(kind) ==
  /\ Returns(kind)
  /\ IF AsksAbout(kind)
     THEN question' = TRUE /\ state' = "confirm" /\ UNCHANGED failure
     ELSE question' = FALSE /\ state' = "failed" /\ failure' = TRUE

Failed(kind) ==
  /\ Returns(kind)
  /\ question' = FALSE /\ state' = "failed" /\ failure' = TRUE

ButtonNext ==
  \/ Download \/ Accept \/ Dismiss
  \/ \E kind \in {"plain", "confirmed"} : Saved(kind) \/ Refused(kind) \/ Failed(kind)

ButtonSpec == ButtonInit /\ [][ButtonNext]_buttonVars

(* For a user who leaves an answered question alone, one download is under *)
(* way at a time and the button says so (useDump.ts:64-110).               *)
OneDownload ==
  patient => /\ requests["plain"] + requests["confirmed"] =
                  IF state = "running" THEN 1 ELSE 0
             /\ state = "confirm" => question

(* Each request out was sent. *)
ButtonInv ==
  /\ ButtonTypeOK /\ OneDownload
  /\ requests["plain"] + requests["confirmed"] <= starts
=============================================================================
