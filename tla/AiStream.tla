------------------------------ MODULE AiStream ------------------------------
(***************************************************************************)
(* One streamed AI answer: pipeAiStream() pulling from the recording       *)
(* generator runRecordedAiStream(), which pulls from a provider, for a     *)
(* client that may hang up at any moment.                                  *)
(*                                                                         *)
(* The language queues what is asked of an async generator: return() takes *)
(* effect at the generator's next suspension point.  While it awaits the   *)
(* provider it is not at one.                                              *)
(***************************************************************************)
EXTENDS Naturals, Sequences

CONSTANT MaxEvents   \* bound on the events of one answer

ASSUME AiStreamAssumption == MaxEvents \in Nat

VARIABLES
  pipe,       \* where pipeAiStream() is
  step,       \* how the pending iterator.next() has settled
  generator,  \* where runRecordedAiStream() is
  returning,  \* a return() waits behind the pending next()
  terminus,   \* its local of that name
  sawStop,    \* and that one
  seen,       \* events that have passed through the generator
  aborted,    \* abort.abort() has been called
  history,    \* records written for this answer; "lost" for a failed write
  sent,       \* event frames on the wire
  answer,     \* the response: open, ended, or ended after an error frame
  client

vars == <<pipe, step, generator, returning, terminus, sawStop, seen, aborted,
          history, sent, answer, client>>

TypeOK ==
  /\ pipe \in {"looping", "racing", "stopping", "closed"}
  /\ step \in {"pending", "value", "done", "error"}
  /\ generator \in {"fresh", "awaiting", "yielded", "recording", "done"}
  /\ returning \in BOOLEAN
  /\ terminus \in {"cancelled", "ok", "error", "crashed"}
  /\ sawStop \in BOOLEAN
  /\ seen \in 0..MaxEvents
  /\ aborted \in BOOLEAN
  /\ history \in Seq({"success", "error", "cancelled", "lost"})
  /\ sent \in 0..MaxEvents
  /\ answer \in {"open", "ended", "failed"}
  /\ client \in {"reading", "gone"}

\* The controller has resolved the provider and set the headers.
Init ==
  /\ pipe = "looping"
  /\ step = "pending"
  /\ generator = "fresh"
  /\ returning = FALSE
  /\ terminus = "cancelled"
  /\ sawStop = FALSE
  /\ seen = 0
  /\ aborted = FALSE
  /\ history = <<>>
  /\ sent = 0
  /\ answer = "open"
  /\ client = "reading"

Gone == client = "gone"

-----------------------------------------------------------------------------
(***************************************************************************)
(* The generator.                                                          *)
(***************************************************************************)
\* `finally`, up to the await on the recorder.
EnterFinally(how) ==
  /\ terminus' = how
  /\ aborted' = TRUE
  /\ generator' = "recording"

ProviderYields ==
  /\ generator = "awaiting" /\ seen < MaxEvents
  /\ seen' = seen + 1
  /\ \E stop \in BOOLEAN : sawStop' = (sawStop \/ stop)
  /\ step' = "value"
  /\ \/ ~returning /\ generator' = "yielded" /\ UNCHANGED <<terminus, aborted>>
     \/ returning /\ EnterFinally(terminus)
  /\ UNCHANGED <<pipe, returning, history, sent, answer, client>>

ProviderEnds ==
  /\ generator = "awaiting"
  /\ EnterFinally("ok")
  /\ UNCHANGED <<pipe, step, returning, sawStop, seen, history, sent, answer,
                 client>>

\* An AiError, or anything else that is our own bug.
ProviderThrows ==
  /\ generator = "awaiting"
  /\ \E how \in {"error", "crashed"} : EnterFinally(how)
  /\ UNCHANGED <<pipe, step, returning, sawStop, seen, history, sent, answer,
                 client>>

MutOutcomeForgetsStop(how, stopped) ==
  CASE how = "error"     -> <<"error">>
    [] how = "ok"        -> <<"success">>
    [] how = "cancelled" -> <<"cancelled">>
    [] OTHER             -> <<>>

MutOutcomeRecordsCrash(how, stopped) ==
  IF how = "ok" \/ (stopped /\ how # "error") THEN <<"success">> ELSE <<how>>

\* What the `finally` block has to write.
Outcome(how, stopped) ==
  IF how = "error" THEN <<"error">>
  ELSE IF how = "ok" \/ stopped THEN <<"success">>
  ELSE IF how = "cancelled" THEN <<"cancelled">> ELSE <<>>

\* The write is over, safeRecord() has swallowed its failure if there was one,
\* and the generator completes; a next() still pending learns how.
Records ==
  /\ generator = "recording"
  /\ LET outcome == Outcome(terminus, sawStop) IN
       \/ history' = history \o outcome
       \/ outcome # <<>> /\ history' = Append(history, "lost")
  /\ generator' = "done"
  /\ step' = IF step = "value" THEN step
             ELSE IF terminus \in {"error", "crashed"} THEN "error" ELSE "done"
  /\ UNCHANGED <<pipe, returning, terminus, sawStop, seen, aborted, sent,
                 answer, client>>

-----------------------------------------------------------------------------
(***************************************************************************)
(* pipeAiStream().                                                         *)
(***************************************************************************)
MutStopAbandons ==
  /\ pipe' = "stopping"
  /\ UNCHANGED <<generator, terminus, aborted, returning>>

\* stop(): iterator.return().  A generator that never started completes
\* without running its body; one that is busy sees it later.
Stop ==
  /\ pipe' = "stopping"
  /\ CASE generator = "fresh"   -> /\ generator' = "done"
                                   /\ UNCHANGED <<terminus, aborted, returning>>
       [] generator = "yielded" -> EnterFinally(terminus) /\ UNCHANGED returning
       [] OTHER                 -> /\ returning' = TRUE
                                   /\ UNCHANGED <<generator, terminus, aborted>>

\* The top of the loop.
Loop ==
  /\ pipe = "looping"
  /\ \/ Gone /\ Stop /\ UNCHANGED step
     \/ /\ ~Gone
        /\ pipe' = "racing"
        /\ step' = "pending"
        /\ generator' = "awaiting"
        /\ UNCHANGED <<terminus, aborted, returning>>
  /\ UNCHANGED <<sawStop, seen, history, sent, answer, client>>

\* The race is won by the client leaving.
NoticeHangup ==
  /\ pipe = "racing" /\ Gone
  /\ Stop
  /\ UNCHANGED <<step, sawStop, seen, history, sent, answer, client>>

\* It is won by an event.
TakeValue ==
  /\ pipe = "racing" /\ step = "value"
  /\ \/ Gone /\ Stop /\ UNCHANGED sent
     \/ /\ ~Gone
        /\ sent' = sent + 1
        /\ pipe' = "looping"
        /\ UNCHANGED <<generator, returning, terminus, aborted>>
  /\ UNCHANGED <<step, sawStop, seen, history, answer, client>>

MutTakeErrorRethrows ==
  /\ pipe = "racing" /\ step \in {"done", "error"}
  /\ answer' = IF Gone \/ step = "error" THEN answer ELSE "ended"
  /\ pipe' = "closed"
  /\ UNCHANGED <<step, generator, returning, terminus, sawStop, seen, aborted,
                 history, sent, client>>

\* It is won by the end of the stream, or by its failure, which goes out as
\* a frame of its own.
TakeEnd ==
  /\ pipe = "racing" /\ step \in {"done", "error"}
  /\ answer' = IF Gone THEN answer ELSE IF step = "error" THEN "failed" ELSE "ended"
  /\ pipe' = "closed"
  /\ UNCHANGED <<step, generator, returning, terminus, sawStop, seen, aborted,
                 history, sent, client>>

\* return() has been served.
Stopped ==
  /\ pipe = "stopping" /\ generator = "done"
  /\ pipe' = "closed"
  /\ UNCHANGED <<step, generator, returning, terminus, sawStop, seen, aborted,
                 history, sent, answer, client>>

HangUp ==
  /\ ~Gone /\ answer = "open"
  /\ client' = "gone"
  /\ UNCHANGED <<pipe, step, generator, returning, terminus, sawStop, seen,
                 aborted, history, sent, answer>>

\* The handler has returned and the answer is over.
Over == pipe = "closed" /\ UNCHANGED vars

Provider == ProviderYields \/ ProviderEnds \/ ProviderThrows
Server   == Loop \/ NoticeHangup \/ TakeValue \/ TakeEnd \/ Stopped \/ Records

Next == Provider \/ Server \/ HangUp \/ Over

Spec == Init /\ [][Next]_vars

\* The server's own steps are continuations the event loop always runs.  What
\* the provider does is its own affair: it may stall for ever.
ServerSpec == Spec /\ WF_vars(Server)

\* A provider that goes on sending, ending or failing.
LiveSpec == ServerSpec /\ WF_vars(Provider)

-----------------------------------------------------------------------------
(***************************************************************************)
(* Properties.                                                             *)
(***************************************************************************)
\* An answer that was begun is recorded once, whichever way it ended; one
\* that was never begun, or ended in a bug of ours, not at all.
RecordedOnce ==
  /\ Len(history) <= 1
  /\ generator = "done" =>
       (history = <<>> <=> ~aborted \/ (terminus = "crashed" /\ ~sawStop))

\* What history says happened did: a cancel had a client that left before the
\* answer was complete, and a success a provider that finished it.
RecordIsTrue ==
  /\ history = <<"cancelled">> => Gone /\ ~sawStop
  /\ history = <<"success">>   => sawStop \/ terminus = "ok"
  /\ history = <<"error">>     => terminus = "error"

\* The user's screen and the log agree: whoever saw the answer end finds it in
\* history as a success, whoever saw it fail does not find it as a cancel.
ClientAndHistoryAgree ==
  /\ answer = "ended"  => history \in {<<"success">>, <<"lost">>}
  /\ answer = "failed" => history # <<"cancelled">>

\* The client has everything the record counts, but for at most the one event
\* it hung up on.
DeliveredIsRecorded ==
  /\ sent <= seen
  /\ ~Gone /\ pipe # "racing" => sent = seen
  /\ seen <= sent + 1

\* The history of an answer is true: one record, of what happened, which the
\* user's screen does not contradict (record-ai-call.ts, ai-sse.ts).
HistoryIsTrue ==
  RecordedOnce /\ RecordIsTrue /\ ClientAndHistoryAgree /\ DeliveredIsRecorded

\* Nothing is written to a response whose client has left.
NothingAfterHangup == [][Gone => UNCHANGED <<sent, answer>>]_vars

\* A hangup reaches the provider and ends in a record, so no answer goes on
\* being generated and billed with nobody listening.
HangupReachesProvider ==
  (Gone /\ generator \in {"awaiting", "yielded"}) ~> (aborted /\ generator = "done")

\* A client that stays is told how its answer ended.
ClientIsTold == <>(Gone \/ answer # "open")

-----------------------------------------------------------------------------
(***************************************************************************)
(* The inductive invariant behind them.                                    *)
(***************************************************************************)
\* Where the generator can be when the pipe is at each of its awaits, and how
\* many events the pipe is behind.
PipeAndGenerator ==
  /\ pipe = "looping" => generator \in {"fresh", "yielded"} /\ sent = seen
  /\ pipe = "racing" =>
       \/ step = "pending" /\ generator = "awaiting" /\ sent = seen
       \/ step = "pending" /\ generator = "recording" /\ sent = seen /\ terminus # "cancelled"
       \/ step = "value" /\ generator = "yielded" /\ seen = sent + 1
       \/ step = "done" /\ generator = "done" /\ sent = seen /\ terminus = "ok"
       \/ step = "error" /\ generator = "done" /\ sent = seen /\ terminus \in {"error", "crashed"}
  /\ pipe = "stopping" =>
       /\ Gone
       /\ \/ generator = "awaiting" /\ returning /\ sent = seen
          \/ generator \in {"recording", "done"} /\ seen \in {sent, sent + 1}
  /\ pipe = "closed" => /\ generator = "done"
                        /\ sent = seen \/ (Gone /\ seen = sent + 1)

\* What the generator knows of its end at each point.
EndIsKnown ==
  /\ generator \in {"fresh", "awaiting", "yielded"} => terminus = "cancelled" /\ ~aborted
  /\ generator = "recording" => aborted
  /\ generator \in {"recording", "done"} /\ terminus = "cancelled" => Gone
  /\ generator = "fresh" => ~sawStop
  /\ returning => pipe \in {"stopping", "closed"}

\* The record is written by `finally`, once, from terminus and sawStop.
RecordIsOutcome ==
  /\ generator # "done" => history = <<>>
  /\ generator = "done" /\ ~aborted => history = <<>> /\ ~sawStop /\ terminus = "cancelled"
  /\ generator = "done" /\ aborted =>
       LET outcome == Outcome(terminus, sawStop) IN
       history = outcome \/ (outcome # <<>> /\ history = <<"lost">>)

\* Only the end of the stream, won in the race, ends the answer.
AnswerIsTheEnd ==
  /\ answer # "open" => pipe = "closed" /\ generator = "done" /\ aborted
  /\ answer = "ended" => terminus = "ok"
  /\ answer = "failed" => terminus \in {"error", "crashed"}

StreamInv == TypeOK /\ PipeAndGenerator /\ EndIsKnown /\ RecordIsOutcome /\ AnswerIsTheEnd
=============================================================================
