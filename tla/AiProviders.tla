---------------------------- MODULE AiProviders ----------------------------
(***************************************************************************)
(* What is inside the generator AiStream pulls from: a provider turning    *)
(* the frames of its vendor into the stream vocabulary of the port         *)
(* (OpenAiProvider, AnthropicProvider, fromAtomic for one that does not    *)
(* stream), and runRecordedAiStream and runRecordedAiCall making history   *)
(* of what passes through them.                                            *)
(*                                                                         *)
(* A piece of text is the number of the frame it came in.                  *)
(***************************************************************************)
EXTENDS Naturals, SequencesExt

CONSTANTS
  Vendors,    \* "openai", "anthropic", or "atomic" for one that only answers whole
  MaxFrames,  \* bound on the frames of one answer
  TextCap,    \* pieces a record holds (AI_TEXT_CAP_BYTES)
  Null        \* null and undefined

VARIABLES
  vendor, mode,  \* who is asked, and whether for a stream
  phase,         \* of the call
  heard,         \* frames the provider has read
  carried,       \* stopReason of completeStream()
  queue,         \* events of the last frame still to be yielded
  last,          \* they are the last ones
  yielded,       \* events the consumer was handed
  tally,         \* the locals of runRecordedAiStream(), or the AiResponse
  record,        \* what history was given
  thrown,        \* what the caller saw the call end with
  cause          \* why it failed, if it did (observation)

aiVars == <<vendor, mode, phase, heard, carried, queue, last, yielded, tally,
            record, thrown, cause>>

Count     == 0..2
Unsaid(S) == S \cup {Null}
Else(a, b) == IF a # Null THEN a ELSE b

-----------------------------------------------------------------------------
(***************************************************************************)
(* What the vendors send.                                                  *)
(***************************************************************************)
Usage == {<<1, Null>>, <<2, 2>>, <<Null, 1>>}
Blank == [kind |-> "chunk", model |-> Null, text |-> FALSE, usage |-> Null,
          reason |-> Null]
Piece == [Blank EXCEPT !.model = "served"]

\* OpenAI: the opening chunk, text, with a running count from some servers,
\* the reason, the usage, [DONE]; and what a gateway may put between them.
OpenAiFrames ==
  {Blank, Piece, [Piece EXCEPT !.text = TRUE],
   [Piece EXCEPT !.text = TRUE, !.usage = <<1, 1>>]}
  \cup {[Piece EXCEPT !.reason = r] : r \in {"stop", "novel"}}
  \cup {[Piece EXCEPT !.usage = u] : u \in Usage}
  \cup {[Blank EXCEPT !.kind = k] : k \in {"done", "garbled", "error"}}

\* Anthropic: a start, blocks whose deltas are text or not, deltas of the
\* message, a stop; pings and an error anywhere.
AnthropicFrames ==
  LET Kind(k)  == [Blank EXCEPT !.kind = k]
      Came(k)  == \E i \in DOMAIN heard : heard[i].kind = k
      Start    == {[Kind("message_start") EXCEPT !.model = "served", !.usage = u] :
                     u \in {Null, <<1, Null>>}}
      Content  == {[Kind("content_block_delta") EXCEPT !.text = b] : b \in BOOLEAN}
      Delta    == {[Kind("message_delta") EXCEPT !.reason = d[1], !.usage = d[2]] :
                     d \in {"end_turn", "novel"} \X {Null, <<Null, 1>>, <<2, 2>>}}
  IN  {Kind("ping"), Kind("error")}
      \cup (IF ~Came("message_start") THEN Start
            ELSE IF Came("message_stop") THEN {}
            ELSE Content \cup Delta \cup {Kind("message_stop")})

Frames == IF vendor = "openai" THEN OpenAiFrames ELSE AnthropicFrames

\* What a call without a stream is answered; no text is a body without any,
\* or one that is not JSON.
Replies == [model : {"served"}, text : BOOLEAN, usage : Usage \cup {<<Null, Null>>},
            reason : {Null, "novel", IF vendor = "anthropic" THEN "end_turn" ELSE "stop"}]

-----------------------------------------------------------------------------
(***************************************************************************)
(* The port's vocabulary.                                                  *)
(***************************************************************************)
Event(type) == [type |-> type, tokensIn |-> Null, tokensOut |-> Null,
                model |-> Null, text |-> Null, stopReason |-> Null]

MessageStart(in, model) == [Event("message_start") EXCEPT !.tokensIn = in, !.model = model]
TextDelta(n)            == [Event("text_delta") EXCEPT !.text = n]
UsageOf(u)              == [Event("usage") EXCEPT !.tokensIn = u[1], !.tokensOut = u[2]]
MessageStop(reason)     == [Event("message_stop") EXCEPT !.stopReason = reason]

In(usage)  == IF usage = Null THEN Null ELSE usage[1]
Out(usage) == IF usage = Null THEN Null ELSE usage[2]

\* mapFinishReason() and normaliseStopReason().
StopReason(raw) ==
  CASE raw = Null       -> Null
    [] raw = "stop"     -> "end_turn"
    [] raw = "end_turn" -> raw
    [] OTHER            -> "other:" \o raw

When(b, event) == IF b THEN <<event>> ELSE <<>>

\* The events of frame number n, once `carried` is what it makes of it.
OpenAiEvents(f, n) ==
  When(yielded = <<>>, MessageStart(In(f.usage), f.model))
  \o When(f.text, TextDelta(n))
  \o When(f.usage # Null, UsageOf(f.usage))

AnthropicEvents(f, n, reason) ==
  When(f.kind = "message_start", MessageStart(In(f.usage), f.model))
  \o When(f.text, TextDelta(n))
  \o When(f.kind = "message_delta" /\ f.usage # Null, UsageOf(f.usage))
  \o When(f.kind = "message_stop", MessageStop(StopReason(reason)))

\* Of a call that answers in one piece.
AtomicEvents(r) ==
  <<MessageStart(r.usage[1], r.model), TextDelta(0), UsageOf(r.usage),
    MessageStop(StopReason(r.reason))>>

-----------------------------------------------------------------------------
(***************************************************************************)
(* The record.                                                             *)
(***************************************************************************)
Tally0 == [text |-> <<>>, tokensIn |-> Null, tokensOut |-> Null, model |-> Null,
           stopReason |-> Null, sawStop |-> FALSE]

MutTalliedForgets(t, e) ==
  CASE e.type = "message_start" -> [t EXCEPT !.tokensIn = Else(e.tokensIn, @),
                                             !.model = Else(e.model, @)]
    [] e.type = "text_delta"    -> [t EXCEPT !.text = Append(@, e.text)]
    [] e.type = "usage"         -> [t EXCEPT !.tokensIn = e.tokensIn,
                                             !.tokensOut = e.tokensOut]
    [] e.type = "message_stop"  -> [t EXCEPT !.stopReason = e.stopReason,
                                             !.sawStop = TRUE]

\* What an event passing through does to it: counts are replaced, never
\* added, and null leaves them.
Tallied(t, e) ==
  CASE e.type = "message_start" -> [t EXCEPT !.tokensIn = Else(e.tokensIn, @),
                                             !.model = Else(e.model, @)]
    [] e.type = "text_delta"    -> [t EXCEPT !.text = Append(@, e.text)]
    [] e.type = "usage"         -> [t EXCEPT !.tokensIn = Else(e.tokensIn, @),
                                             !.tokensOut = Else(e.tokensOut, @)]
    [] e.type = "message_stop"  -> [t EXCEPT !.stopReason = e.stopReason,
                                             !.sawStop = TRUE]

\* outcomeOf() a response.
OutcomeOf(r) ==
  [text |-> <<0>>, tokensIn |-> r.usage[1], tokensOut |-> r.usage[2],
   model |-> r.model, stopReason |-> StopReason(r.reason), sawStop |-> FALSE]

\* truncateForPersistence(): the marker counts for no piece.
Marker == MaxFrames + 1
Capped(text) == IF Len(text) <= TextCap THEN text
                ELSE Append(SubSeq(text, 1, TextCap), Marker)

\* aiRecord(): the model asked for stands in for one that never answered.
AiRecord(status, t, error) ==
  [status |-> status, response |-> Capped(t.text), tokensIn |-> t.tokensIn,
   tokensOut |-> t.tokensOut, model |-> Else(t.model, "asked"),
   stopReason |-> IF status = "cancelled" THEN "other:cancelled" ELSE t.stopReason,
   error |-> error]

\* What a vendor's frames may be, and what the port's events may.
FrameType ==
  [kind : {"chunk", "done", "garbled", "error", "ping", "message_start", "message_stop",
           "content_block_delta", "message_delta"},
   model : Unsaid({"served"}), text : BOOLEAN, usage : Unsaid(Usage \cup {<<1, 1>>}),
   reason : Unsaid({"stop", "end_turn", "novel"})]

StopReasons == {StopReason(r) : r \in Unsaid({"stop", "end_turn", "novel"})}

EventType ==
  [type : {"message_start", "text_delta", "usage", "message_stop"},
   tokensIn : Unsaid(Count), tokensOut : Unsaid(Count), model : Unsaid({"served"}),
   text : Unsaid(0..MaxFrames), stopReason : Unsaid(StopReasons)]

TallyType ==
  [text : Seq(0..MaxFrames), tokensIn : Unsaid(Count), tokensOut : Unsaid(Count),
   model : Unsaid({"served"}), stopReason : Unsaid(StopReasons), sawStop : BOOLEAN]

RecordType ==
  [status : {"ok", "error", "cancelled"}, response : Seq(0..Marker),
   tokensIn : Unsaid(Count), tokensOut : Unsaid(Count), model : {"served", "asked"},
   stopReason : Unsaid(StopReasons \cup {"other:cancelled"}),
   error : Unsaid({"network", "provider", "configuration"})]

ASSUME ProviderAssumption ==
  /\ Vendors \subseteq {"openai", "anthropic", "atomic"}
  /\ MaxFrames \in Nat /\ TextCap \in Nat
  /\ Null \notin Nat \cup Usage \cup {<<1, 1>>} \cup RecordType
  /\ Null \notin {"served", "stop", "end_turn", "novel", "network", "provider", "configuration"}

AiProvidersTypeOK ==
  /\ vendor \in Vendors /\ mode \in {"stream", "unary"}
  /\ phase \in {"calling", "reading", "handing", "yielded", "over"}
  /\ heard \in Seq(FrameType) /\ Len(heard) <= MaxFrames
  /\ carried \in Unsaid({"stop", "end_turn", "novel"})
  /\ queue \in Seq(EventType) /\ yielded \in Seq(EventType) /\ last \in BOOLEAN
  /\ tally \in TallyType
  /\ record \in Unsaid(RecordType)
  /\ thrown \in {"nothing", "upstream", "bug"}
  /\ cause \in {"none", "unreachable", "key", "refused", "said", "garbled",
                "wordless", "broken", "bug"}

-----------------------------------------------------------------------------
AiInit ==
  /\ vendor \in Vendors /\ mode \in {"stream", "unary"}
  /\ phase = "calling"
  /\ heard = <<>>
  /\ carried = Null
  /\ queue = <<>> /\ last = FALSE
  /\ yielded = <<>>
  /\ tally = Tally0
  /\ record = Null
  /\ thrown = "nothing"
  /\ cause = "none"

Asked == <<vendor, mode>>

\* The terminus, in `finally` of the one and at the end of the other.
Complete(outcome) ==
  /\ phase' = "over"
  /\ record' = AiRecord("ok", outcome, Null)
  /\ UNCHANGED <<Asked, heard, carried, queue, last, yielded, tally, thrown, cause>>

\* An AiError is recorded and wrapped in an AiUpstreamError.
Fails(why, category) ==
  /\ phase' = "over"
  /\ record' = AiRecord("error", tally, category)
  /\ thrown' = "upstream"
  /\ cause' = why
  /\ UNCHANGED <<Asked, carried, queue, last, yielded, tally>>

\* Anything else is our own bug, and no outcome of the AI.
Crash ==
  /\ vendor = "atomic" /\ phase = "calling"
  /\ phase' = "over"
  /\ thrown' = "bug" /\ cause' = "bug"
  /\ UNCHANGED <<Asked, heard, carried, queue, last, yielded, tally, record>>

-----------------------------------------------------------------------------
(***************************************************************************)
(* Opening the call.                                                       *)
(***************************************************************************)
Unreachable ==
  /\ phase = "calling"
  /\ Fails("unreachable", "network")
  /\ UNCHANGED heard

\* categoriseStatus(): a 401 or 403 is the key's fault.
Rejected ==
  /\ phase = "calling"
  /\ \/ Fails("key", "configuration")
     \/ Fails("refused", "provider")
  /\ UNCHANGED heard

StreamOpens ==
  /\ phase = "calling" /\ mode = "stream" /\ vendor # "atomic"
  /\ phase' = "reading"
  /\ UNCHANGED <<Asked, heard, carried, queue, last, yielded, tally, record,
                 thrown, cause>>

\* decodeCompletion() and extractText(), of either vendor.
Wordless(reply) == ~reply.text

\* post() or create() has answered: its text goes to the caller, or comes as
\* a stream of one piece.
Replied ==
  /\ phase = "calling" /\ (mode = "unary" \/ vendor = "atomic")
  /\ \E r \in Replies :
       CASE Wordless(r) -> Fails("wordless", "provider") /\ UNCHANGED heard
         [] ~Wordless(r) /\ mode = "unary" -> Complete(OutcomeOf(r))
         [] OTHER -> /\ queue' = AtomicEvents(r)
                     /\ phase' = "handing" /\ last' = TRUE
                     /\ UNCHANGED <<Asked, heard, carried, yielded, tally, record,
                                    thrown, cause>>

-----------------------------------------------------------------------------
(***************************************************************************)
(* completeStream().                                                       *)
(***************************************************************************)
\* What is queued is yielded next; without any the provider reads on.
Queues(events, isLast) ==
  /\ queue' = events /\ last' = isLast
  /\ phase' = IF events = <<>> THEN "reading" ELSE "handing"
  /\ UNCHANGED <<Asked, yielded, tally, record, thrown, cause>>

\* Terminated, or merely ended.
OpenAiEnds(frames) ==
  /\ heard' = frames
  /\ Queues(When(yielded = <<>>, MessageStart(Null, Null))
            \o <<MessageStop(StopReason(carried))>>, TRUE)
  /\ UNCHANGED carried

MutFailsInBand(f) ==
  CASE f.kind = "error"   -> Fails("said", "network")
    [] f.kind = "garbled" -> Fails("garbled", "network")

\* It is thrown inside the loop, whose catch lets an AiError through.
FailsInBand(f) ==
  CASE f.kind = "error"   -> Fails("said", "provider")
    [] f.kind = "garbled" -> Fails("garbled", "provider")

Hear ==
  /\ phase = "reading" /\ Len(heard) < MaxFrames
  /\ \E f \in Frames :
       LET frames == Append(heard, f)
           reason == Else(f.reason, carried)
       IN  CASE f.kind \in {"error", "garbled"} -> FailsInBand(f) /\ heard' = frames
             [] f.kind = "done" -> OpenAiEnds(frames)
             [] OTHER ->
                  /\ heard' = frames
                  /\ carried' = reason
                  /\ Queues(IF vendor = "openai" THEN OpenAiEvents(f, Len(frames))
                            ELSE AnthropicEvents(f, Len(frames), reason), FALSE)

\* The body ends without more ado.
Ends ==
  /\ phase = "reading"
  /\ IF vendor = "openai" THEN OpenAiEnds(heard) ELSE Complete(tally)

\* The connection breaks.
Breaks ==
  /\ phase = "reading"
  /\ Fails("broken", "network")
  /\ UNCHANGED heard

-----------------------------------------------------------------------------
(***************************************************************************)
(* runRecordedAiStream() and whoever reads it.                             *)
(***************************************************************************)
Yield ==
  /\ phase = "handing"
  /\ tally' = Tallied(tally, Head(queue))
  /\ yielded' = Append(yielded, Head(queue))
  /\ queue' = Tail(queue)
  /\ phase' = "yielded"
  /\ UNCHANGED <<Asked, heard, carried, last, record, thrown, cause>>

\* The next next().
Pull ==
  /\ phase = "yielded"
  /\ IF queue = <<>> /\ last THEN Complete(tally)
     ELSE /\ phase' = IF queue = <<>> THEN "reading" ELSE "handing"
          /\ UNCHANGED <<Asked, heard, carried, queue, last, yielded, tally, record,
                         thrown, cause>>

\* The consumer stops at an event: a cancel, unless the answer was complete.
WalkAway ==
  /\ phase = "yielded"
  /\ phase' = "over"
  /\ record' = AiRecord(IF tally.sawStop THEN "ok" ELSE "cancelled", tally, Null)
  /\ UNCHANGED <<Asked, heard, carried, queue, last, yielded, tally, thrown, cause>>

AiNext ==
  \/ Unreachable \/ Rejected \/ Crash \/ StreamOpens \/ Replied
  \/ Hear \/ Ends \/ Breaks
  \/ Yield \/ Pull \/ WalkAway

AiSpec == AiInit /\ [][AiNext]_aiVars

-----------------------------------------------------------------------------
(***************************************************************************)
(* Properties.                                                             *)
(***************************************************************************)
\* What a vendor's frames say, read all at once.
Texts(frames) ==
  LET said == {i \in DOMAIN frames : frames[i].text}
  IN  CHOOSE t \in BoundedSeq(said, Len(frames)) :
        ToSet(t) = said /\ \A i, j \in DOMAIN t : i < j => t[i] < t[j]

LastSaid(said) ==
  LET spoken == {i \in DOMAIN said : said[i] # Null}
  IN  IF spoken = {} THEN Null ELSE said[CHOOSE i \in spoken : \A j \in spoken : j <= i]

InsOf(frames)     == [i \in DOMAIN frames |-> In(frames[i].usage)]
OutsOf(frames)    == [i \in DOMAIN frames |-> Out(frames[i].usage)]
ReasonsOf(frames) == [i \in DOMAIN frames |-> frames[i].reason]

\* A record tells what the vendor said as far as it was listened to: the text
\* in order, the last counts, never a sum, and a reason only the vendor gave.
\* Someone who walks away in the middle of a frame leaves the rest of it.
RecordIsTheAnswer ==
  record # Null /\ mode = "stream" /\ vendor # "atomic" =>
    LET listened == IF record.status = "cancelled" THEN {heard, Front(heard)} ELSE {heard}
        final    == vendor = "openai" \/ (\E i \in DOMAIN heard : heard[i].kind = "message_stop")
    IN  /\ \E h \in listened : record.response = Capped(Texts(h))
        /\ \E h \in listened : record.tokensIn = LastSaid(InsOf(h))
        /\ \E h \in listened : record.tokensOut = LastSaid(OutsOf(h))
        /\ record.status = "ok" =>
             record.stopReason = IF final THEN StopReason(LastSaid(ReasonsOf(heard))) ELSE Null

\* A stream opens with one message_start and nothing follows a message_stop;
\* one that is told to its end has a stop, if its vendor ever sends one.
AnswerIsBracketed ==
  LET At(type) == {i \in DOMAIN yielded : yielded[i].type = type}
  IN  /\ At("message_start") = (IF yielded = <<>> THEN {} ELSE {1})
      /\ At("message_stop") \subseteq {Len(yielded)}
      /\ record # Null /\ record.status = "ok" /\ mode = "stream" /\ vendor # "anthropic"
           => At("message_stop") # {}

\* Who is to blame is told alike by either way of asking: the deployment for
\* its key, the network when no server answered or it went away, the provider
\* for what it said.  A bug of ours is not laid at anyone's door.
BlameIsRight ==
  /\ cause = "none" => thrown = "nothing" /\ (record # Null => record.error = Null)
  /\ cause = "bug"  => thrown = "bug" /\ record = Null
  /\ cause \notin {"none", "bug"} =>
       /\ thrown = "upstream" /\ record.status = "error"
       /\ record.error = "configuration" <=> cause = "key"
       /\ record.error = "network" <=> cause \in {"unreachable", "broken"}

\* Whatever a vendor sends, and however it ends, the consumer gets a stream it
\* can read and history gets the truth (openai-provider.ts, anthropic-provider.ts,
\* record-ai-call.ts).
AnswerIsTold == RecordIsTheAnswer /\ AnswerIsBracketed /\ BlameIsRight

-----------------------------------------------------------------------------
(***************************************************************************)
(* What a call keeps to between its steps.                                 *)
(***************************************************************************)
Streamed == mode = "stream" /\ vendor # "atomic"

Has(events, type)  == \E i \in DOMAIN events : events[i].type = type
Came(kind)         == \E i \in DOMAIN heard : heard[i].kind = kind

\* Nothing more is to come of the vendor, or nothing that is an event.
AllSaid == last \/ (mode = "stream" /\ vendor = "anthropic" /\ Came("message_stop"))

\* An event says what its type is for.
WellFormed(e) ==
  /\ e.tokensIn # Null => e.type \in {"message_start", "usage"}
  /\ e.tokensOut # Null => e.type = "usage"
  /\ e.text # Null <=> e.type = "text_delta"

PhasesAgree ==
  /\ phase = "calling" => heard = <<>> /\ yielded = <<>> /\ tally = Tally0 /\ carried = Null /\ ~last
  /\ phase \in {"calling", "reading"} => queue = <<>> /\ ~last
  /\ phase = "handing" => queue # <<>>
  /\ phase = "yielded" => yielded # <<>>
  /\ phase \in {"reading", "handing", "yielded"} => mode = "stream"
  /\ vendor = "atomic" => phase # "reading" /\ (phase \in {"handing", "yielded"} => last)
  /\ last => vendor # "anthropic"
  /\ phase # "over" => record = Null /\ cause = "none" /\ thrown = "nothing"

\* The bracket an answer stands in, also for the part still to be yielded.
Bracketed ==
  /\ \A i \in DOMAIN queue : WellFormed(queue[i])
  /\ \A i \in DOMAIN queue : queue[i].type = "message_start" <=> i = 1 /\ yielded = <<>>
  /\ \A i \in DOMAIN yielded : yielded[i].type = "message_start" <=> i = 1
  /\ \A i \in DOMAIN queue : queue[i].type = "message_stop" => i = Len(queue) /\ ~tally.sawStop
  /\ \A i \in DOMAIN yielded : yielded[i].type = "message_stop" => i = Len(yielded)
  /\ tally.sawStop <=> Has(yielded, "message_stop")
  /\ tally.sawStop => queue = <<>>
  /\ AllSaid <=> tally.sawStop \/ Has(queue, "message_stop")
  /\ Streamed /\ vendor = "anthropic" =>
       (Came("message_start") <=> yielded # <<>> \/ queue # <<>>)

\* t is the text of the first n frames; what is the last of n things said.
IsText(t, frames, n) ==
  /\ Len(t) <= n /\ ToSet(t) = {i \in 1..n : frames[i].text}
  /\ \A i, j \in DOMAIN t : i < j => t[i] < t[j]

IsLast(what, said, n) ==
  \/ what = Null /\ \A i \in 1..n : said[i] = Null
  \/ what # Null /\ \E i \in 1..n : said[i] = what /\ \A j \in 1..n : i < j => said[j] = Null

\* The tally is behind by what is queued, which is of the last frame.
Tells ==
  /\ IF \E i \in DOMAIN queue : queue[i].text # Null
     THEN heard # <<>> /\ IsText(tally.text, heard, Len(heard) - 1)
     ELSE IsText(tally.text, heard, Len(heard))
  /\ \A i \in DOMAIN queue : queue[i].text # Null =>
       /\ queue[i].text = Len(heard) /\ heard[Len(heard)].text
       /\ \A j \in DOMAIN queue : queue[j].text # Null => i = j
  /\ \/ IsLast(tally.tokensIn, InsOf(heard), Len(heard))
     \/ /\ \E i \in DOMAIN queue : queue[i].tokensIn # Null
        /\ IsLast(tally.tokensIn, InsOf(heard), Len(heard) - 1)
  /\ \/ IsLast(tally.tokensOut, OutsOf(heard), Len(heard))
     \/ /\ \E i \in DOMAIN queue : queue[i].tokensOut # Null
        /\ IsLast(tally.tokensOut, OutsOf(heard), Len(heard) - 1)
  /\ \A i \in DOMAIN queue :
       /\ queue[i].tokensIn # Null =>
            heard # <<>> /\ queue[i].tokensIn = InsOf(heard)[Len(heard)]
       /\ queue[i].tokensOut # Null =>
            heard # <<>> /\ queue[i].tokensOut = OutsOf(heard)[Len(heard)]
       /\ queue[i].type = "message_stop" => queue[i].stopReason = StopReason(carried)
  /\ IsLast(carried, ReasonsOf(heard), Len(heard))
  /\ tally.stopReason = IF tally.sawStop THEN StopReason(carried) ELSE Null

AiInv ==
  /\ AiProvidersTypeOK /\ PhasesAgree /\ Bracketed /\ (Streamed => Tells)
  /\ record # Null /\ record.status = "ok" /\ mode = "stream" /\ vendor # "anthropic" => tally.sawStop
  /\ RecordIsTheAnswer /\ BlameIsRight
=============================================================================
