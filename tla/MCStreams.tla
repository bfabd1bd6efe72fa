----------------------------- MODULE MCStreams -----------------------------
(***************************************************************************)
(* The answers the server streams to a client that may leave, for TLC,     *)
(* with what they come from and who asks for them: AiProviders, AiStream,  *)
(* SseWire and AiPanel; Dump and DumpButton.  The stream sees only the     *)
(* events a provider yields, the wire only bytes, the panel only frames,   *)
(* the button only Dump's status; a behaviour is judged by one of the six, *)
(* the one in focus, while the others rest.  All but the stream may stop   *)
(* at their bounds.                                                        *)
(***************************************************************************)
EXTENDS MCAiStream, AiPanel, DumpScreen, AiProviders

CONSTANT WireFrames

VARIABLES focus, reader, written, at, held, buffer, frames, open

Wire == INSTANCE SseWire WITH MaxFrames <- WireFrames

\* What the proofs about AiPanel ask of the constants.
ASSUME PanelAssumption == PanelParameters

wireVars == <<reader, written, at, held, buffer, frames, open>>
mcVars   == <<focus, vars, panelVars, dumpVars, buttonVars, aiVars, wireVars>>

(* Whoever is not in focus begins in one state.  A table without a key is  *)
(* read without an order, so only the number of its rows matters.          *)
MCInit ==
  /\ focus \in {"stream", "panel", "dump", "button", "source", "wire"}
  /\ Init /\ PanelInit /\ DumpInit /\ ButtonInit
  /\ focus # "panel" => deployment = {} /\ ~describable /\ tidy
  /\ \A t \in Tables \ Keyed : rows[t] = 1..Cardinality(rows[t])
  /\ focus # "dump" => confirm /\ \A t \in Tables : rows[t] = {}
  /\ focus # "button" => patient
  /\ AiInit
  /\ focus # "source" => mode = "unary" /\ vendor = CHOOSE v \in Vendors : TRUE
  /\ written \in (IF focus = "wire" THEN Wire!Scripts ELSE {CHOOSE s \in Wire!Scripts : TRUE})
  /\ Wire!WireInit
  /\ focus # "wire" => reader = "browser"

Streaming ==
  /\ focus = "stream"
  /\ UNCHANGED <<focus, panelVars, dumpVars, buttonVars, aiVars, wireVars>>
Asking ==
  /\ focus = "panel"
  /\ UNCHANGED <<focus, vars, dumpVars, buttonVars, aiVars, wireVars>>
Dumping ==
  /\ focus = "dump"
  /\ UNCHANGED <<focus, vars, panelVars, buttonVars, aiVars, wireVars>>
Clicking ==
  /\ focus = "button"
  /\ UNCHANGED <<focus, vars, panelVars, dumpVars, aiVars, wireVars>>
Providing ==
  /\ focus = "source"
  /\ UNCHANGED <<focus, vars, panelVars, dumpVars, buttonVars, wireVars>>
Receiving ==
  /\ focus = "wire"
  /\ UNCHANGED <<focus, vars, panelVars, dumpVars, buttonVars, aiVars>>

MCNext == \/ Streaming /\ Next
          \/ Asking /\ PanelNext
          \/ Dumping /\ DumpNext
          \/ Clicking /\ ButtonNext
          \/ Providing /\ AiNext
          \/ Receiving /\ Wire!WireNext
          \/ focus # "stream" /\ UNCHANGED mcVars

(* The fairness of AiStream's LiveSpec and of AiPanel's FairPanelSpec. *)
MCSpec ==
  /\ MCInit /\ [][MCNext]_mcVars
  /\ WF_mcVars(Streaming /\ Server) /\ WF_mcVars(Streaming /\ Provider)
  /\ WF_mcVars(Asking /\ AbortLands)

StreamsTypeOK ==
  /\ TypeOK /\ PanelTypeOK /\ DumpTypeOK /\ ButtonTypeOK
  /\ AiProvidersTypeOK /\ Wire!SseWireTypeOK

(* A client that stays is told how its answer ended; nothing is written to *)
(* one that has left, and no dump waits for one; however the bytes of a    *)
(* stream are cut, the frames read are those written (ai-sse.ts:43-111,    *)
(* connection-dump.controller.ts:61-79, openai-transport.ts:140-164,       *)
(* internal/sse.ts:28-69).                                                 *)
StreamerIsTold ==
  /\ focus = "stream" => ClientIsTold
  /\ NothingAfterHangup
  /\ [](NobodyIsWaitedFor /\ Wire!FramesArriveWhole)

(* A cancel ends the wait, whatever the provider does, and without an      *)
(* error banner (useAiAssist.ts:240-273).                                  *)
CancelIsClean == CancelEndsTheStream /\ CancelIsNotFailure
=============================================================================
