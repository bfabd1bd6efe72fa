------------------------------- MODULE AiPanel -------------------------------
(***************************************************************************)
(* The assistant's panel: the provider list it loads when it appears, the  *)
(* describe it may run ahead of a suggestion, and useAiAssist, which asks   *)
(* in one piece or as a stream and has one place on screen for both.       *)
(*                                                                         *)
(* An answer's text is the question it belongs to: `from` is the set of    *)
(* asks some text on screen comes from.                                    *)
(***************************************************************************)
EXTENDS Naturals, Sequences, FiniteSets

CONSTANTS
  Providers,
  Streamers,   \* those with an SSE transport
  Default,     \* the one the server picks for a request that names nobody
  MaxAsks,     \* bound on the questions of one visit
  Nobody       \* undefined: no provider selected or named

VARIABLES
  deployment,  \* the providers the server has; {}: the assistant is switched off
  describable, \* the connection can describe its tables, and has some
  tidy,        \* an error in band comes alone: not after a cancel, and before the
               \*   end of the stream, not a failure
  list,        \* useAiProviders
  panel,       \* the panel's own refs
  ai,          \* useAiAssist's refs
  asks         \* every request sent, in order

panelVars == <<deployment, describable, tidy, list, panel, ai, asks>>
world     == <<deployment, describable, tidy>>

Ask == [path: {"atomic", "stream"}, provider: Providers \cup {Nobody},
        open: BOOLEAN, errored: BOOLEAN, cancelled: BOOLEAN, answered: BOOLEAN]

PanelTypeOK ==
  /\ deployment \in SUBSET Providers
  /\ describable \in BOOLEAN /\ tidy \in BOOLEAN
  /\ list \in [state: {"loading", "idle", "error"}, providers: SUBSET Providers,
               selected: Providers \cup {Nobody}, disabled: BOOLEAN]
  /\ panel \in [stream: BOOLEAN, details: BOOLEAN, describing: BOOLEAN]
  /\ ai \in [state: {"idle", "loading", "streaming", "error"},
             lastError: {"none", "ai_disabled", "other"},
             from: SUBSET (1..MaxAsks), wasCancelled: BOOLEAN, current: 0..MaxAsks]
  /\ asks \in Seq(Ask) /\ Len(asks) <= MaxAsks

\* The panel asks for the list as soon as it is mounted.
PanelInit ==
  /\ deployment \in {d \in SUBSET Providers : d # {} => Default \in d}
  /\ describable \in BOOLEAN /\ tidy \in BOOLEAN
  /\ list = [state |-> "loading", providers |-> {}, selected |-> Nobody, disabled |-> FALSE]
  /\ panel = [stream |-> FALSE, details |-> FALSE, describing |-> FALSE]
  /\ ai = [state |-> "idle", lastError |-> "none", from |-> {}, wasCancelled |-> FALSE,
           current |-> 0]
  /\ asks = <<>>

-----------------------------------------------------------------------------
(* The provider list. *)

ProvidersLoaded ==
  /\ list.state = "loading"
  /\ list' = IF deployment = {}
             THEN [state |-> "idle", providers |-> {}, selected |-> Nobody, disabled |-> TRUE]
             ELSE [state |-> "idle", providers |-> deployment, selected |-> Default,
                   disabled |-> FALSE]
  /\ UNCHANGED <<world, panel, ai, asks>>

ProvidersFailed ==
  /\ list.state = "loading"
  /\ list' = [list EXCEPT !.state = "error"]
  /\ UNCHANGED <<world, panel, ai, asks>>

IsBusy == ai.state \in {"loading", "streaming"}

HasChoice == Cardinality(list.providers) > 1

SelectProvider(p) ==
  /\ HasChoice /\ ~IsBusy
  /\ p \in list.providers
  /\ list' = [list EXCEPT !.selected = p]
  /\ UNCHANGED <<world, panel, ai, asks>>

SelectedStreams == list.selected \in list.providers \cap Streamers

\* What the request names: a provider only where there is a choice of them.
NamedProvider == IF HasChoice THEN list.selected ELSE Nobody

-----------------------------------------------------------------------------
(* The panel. *)

ToggleStream ==
  /\ SelectedStreams /\ ~IsBusy
  /\ panel' = [panel EXCEPT !.stream = ~@]
  /\ UNCHANGED <<world, list, ai, asks>>

ToggleDetails ==
  /\ describable /\ ~IsBusy /\ ~panel.describing
  /\ panel' = [panel EXCEPT !.details = ~@]
  /\ UNCHANGED <<world, list, ai, asks>>

IsDisabledMode == list.disabled \/ ai.lastError = "ai_disabled"

ButtonsDisabled == IsBusy \/ IsDisabledMode \/ panel.describing

UseStreaming == panel.stream /\ SelectedStreams

Sent(path) == Append(asks, [path |-> path, provider |-> NamedProvider, open |-> TRUE,
                            errored |-> FALSE, cancelled |-> FALSE, answered |-> FALSE])

\* call() up to its request.  Whatever stream is still open stays open.
AskAtomic ==
  /\ ai' = [ai EXCEPT !.state = "loading"]
  /\ asks' = Sent("atomic")

\* cancel(): says why, then aborts.  The stream's own loop sees the rejection.
Cancelled(s, r) == IF r = 0 THEN s ELSE [s EXCEPT ![r].cancelled = TRUE]

\* stream() up to its request: a second one replaces the first.
AskStream ==
  /\ ai' = [state |-> "streaming", lastError |-> "none", from |-> {},
            wasCancelled |-> FALSE, current |-> Len(asks) + 1]
  /\ asks' = Cancelled(Sent("stream"), ai.current)

Send == IF UseStreaming THEN AskStream ELSE AskAtomic

OnExplain ==
  /\ ~ButtonsDisabled /\ Len(asks) < MaxAsks
  /\ Send
  /\ UNCHANGED <<world, list, panel>>

\* onSuggest() without details, or up to the await of the describe.
OnSuggest ==
  /\ ~ButtonsDisabled /\ Len(asks) < MaxAsks
  /\ IF panel.details /\ describable
     THEN panel' = [panel EXCEPT !.describing = TRUE] /\ UNCHANGED <<ai, asks>>
     ELSE Send /\ UNCHANGED panel
  /\ UNCHANGED <<world, list>>

\* describeTables() never rejects.  The mode and the provider are read now.
Described ==
  /\ panel.describing /\ Len(asks) < MaxAsks
  /\ panel' = [panel EXCEPT !.describing = FALSE]
  /\ Send
  /\ UNCHANGED <<world, list>>

CancelClicked ==
  /\ ai.state = "streaming"
  /\ asks' = Cancelled(asks, ai.current)
  /\ UNCHANGED <<world, list, panel, ai>>

-----------------------------------------------------------------------------
(* The answers. *)

Open(r, path) == asks[r].open /\ asks[r].path = path
Closed(r)     == [asks EXCEPT ![r].open = FALSE]
Refusal       == IF deployment = {} THEN "ai_disabled" ELSE "other"

AtomicAnswered(r) ==
  /\ Open(r, "atomic") /\ deployment # {}
  /\ ai' = [ai EXCEPT !.from = {r}, !.state = "idle", !.lastError = "none"]
  /\ asks' = [Closed(r) EXCEPT ![r].answered = TRUE]
  /\ UNCHANGED <<world, list, panel>>

AtomicFailed(r) ==
  /\ Open(r, "atomic")
  /\ ai' = [ai EXCEPT !.lastError = Refusal, !.state = "error"]
  /\ asks' = Closed(r)
  /\ UNCHANGED <<world, list, panel>>

MutNobodyIsSuperseded(r) == FALSE

Superseded(r) == ai.current # r

\* apply() of a text_delta.  Frames already decoded come after a cancel too.
Delta(r) ==
  /\ Open(r, "stream") /\ ~asks[r].errored /\ deployment # {}
  /\ IF Superseded(r) THEN asks' = Closed(r) /\ UNCHANGED ai
                      ELSE ai' = [ai EXCEPT !.from = @ \cup {r}] /\ UNCHANGED asks
  /\ UNCHANGED <<world, list, panel>>

\* apply() of an error event, the last one a stream sends.
ErrorEvent(r) ==
  /\ Open(r, "stream") /\ ~asks[r].errored /\ deployment # {}
  /\ tidy /\ asks[r].cancelled => Superseded(r)
  /\ IF Superseded(r)
     THEN asks' = Closed(r) /\ UNCHANGED ai
     ELSE /\ ai' = [ai EXCEPT !.lastError = "other", !.state = "error"]
          /\ asks' = [asks EXCEPT ![r].errored = TRUE]
  /\ UNCHANGED <<world, list, panel>>

\* The loop is over: only the streaming state is left.
AfterEnd(r) ==
  [ai EXCEPT !.current = 0, !.state = IF @ = "streaming" THEN "idle" ELSE @]

StreamEnded(r) ==
  /\ Open(r, "stream") /\ deployment # {}
  /\ ai' = IF Superseded(r) THEN ai ELSE AfterEnd(r)
  /\ asks' = Closed(r)
  /\ UNCHANGED <<world, list, panel>>

MutCancelIsFailure(r, why) ==
  [ai EXCEPT !.current = 0, !.state = "error", !.lastError = why]

AfterFailure(r, why) ==
  IF asks[r].cancelled
  THEN [ai EXCEPT !.current = 0, !.wasCancelled = TRUE, !.state = "idle"]
  ELSE [ai EXCEPT !.current = 0, !.state = "error", !.lastError = why]

\* A refusal, a broken connection or the rejection an abort causes.
StreamFailed(r) ==
  /\ Open(r, "stream")
  /\ tidy /\ asks[r].errored => asks[r].cancelled
  /\ ai' = IF Superseded(r) THEN ai ELSE AfterFailure(r, Refusal)
  /\ asks' = Closed(r)
  /\ UNCHANGED <<world, list, panel>>

PanelNext ==
  \/ ProvidersLoaded \/ ProvidersFailed
  \/ \E p \in Providers : SelectProvider(p)
  \/ ToggleStream \/ ToggleDetails
  \/ OnExplain \/ OnSuggest \/ Described \/ CancelClicked
  \/ \E r \in 1..Len(asks) : \/ AtomicAnswered(r) \/ AtomicFailed(r)
                             \/ Delta(r) \/ ErrorEvent(r)
                             \/ StreamEnded(r) \/ StreamFailed(r)

PanelSpec == PanelInit /\ [][PanelNext]_panelVars

\* An aborted fetch rejects; nothing is assumed of the server.
AbortLands == \E r \in 1..MaxAsks :
                r \in DOMAIN asks /\ asks[r].cancelled /\ StreamFailed(r)

FairPanelSpec == PanelSpec /\ WF_panelVars(AbortLands)

-----------------------------------------------------------------------------
(* What the code's comments promise of the panel's one output area (tidy:  *)
(* explain() and suggestSql() leave an errored stream behind, which a       *)
(* broken connection may still report, over the answer that came after).    *)

\* The text on screen is the last question's, unless that one was asked in
\* one piece and has brought nothing: stream()'s replacing and its
\* `current !== run` checks.
ShowsTheLastAnswer ==
  tidy => \/ ai.from \subseteq {Len(asks)}
          \/ /\ asks[Len(asks)].path = "atomic" /\ ~asks[Len(asks)].answered
             /\ Cardinality(ai.from) = 1

\* Whoever is busy is the only one: the buttons are closed while a describe,
\* a call or a stream is on its way.
OneAtATime ==
  tidy => /\ Cardinality({r \in DOMAIN asks : asks[r].open /\ ~asks[r].errored
                                              /\ ~asks[r].cancelled}) <= 1
          /\ panel.describing => ~IsBusy

\* The panel looks busy exactly as long as a request of its own is open.
BusyMeansOpen ==
  tidy => (IsBusy <=> \E r \in DOMAIN asks :
                        /\ asks[r].open /\ ~asks[r].errored
                        /\ asks[r].path = "stream" => ai.current = r)

\* The Cancel button has a stream behind it whenever it is on screen.
CancelHasATarget ==
  ai.state = "streaming" => ai.current # 0 /\ asks[ai.current].open

\* A stream is asked only of a provider that streams, also when the selection
\* changes while the tables are being described.
StreamsFromStreamers ==
  \A r \in DOMAIN asks : asks[r].path = "stream" =>
    (IF asks[r].provider = Nobody THEN Default ELSE asks[r].provider) \in Streamers

\* What the panel shows is one exchange, and the last one: the text is its
\* answer, the buttons and the Cancel button follow it, and a stream was asked
\* of a provider that streams (useAiAssist.ts:126-273, AiPanel.vue:105-190).
PanelIsTrue ==
  /\ ShowsTheLastAnswer /\ OneAtATime /\ BusyMeansOpen
  /\ CancelHasATarget /\ StreamsFromStreamers

\* A cancel ends the wait, whatever the provider does.
CancelEndsTheStream ==
  \A r \in 1..MaxAsks : LET Waits == r \in DOMAIN asks /\ asks[r].open
                        IN  (Waits /\ asks[r].cancelled) ~> ~Waits

\* Cancelling is not failing: the step that ends a cancelled stream puts up no
\* banner (the catch of stream()).
CancelIsNotFailure ==
  [][\A r \in DOMAIN asks :
       asks[r].cancelled /\ asks[r].open /\ ~asks'[r].open
         => ai' = ai \/ (ai'.lastError = ai.lastError /\ ai'.state \in {ai.state, "idle"})]_panelVars

-----------------------------------------------------------------------------
(***************************************************************************)
(* The inductive invariant behind them.                                    *)
(***************************************************************************)
\* What is asked of the constants: the registry is a finite list.
PanelParameters == IsFiniteSet(Providers) /\ Nobody \notin Providers /\ MaxAsks \in Nat

\* The selection is of a list the server gave, with its default in it.
ListIsTheServers ==
  /\ deployment # {} => Default \in deployment
  /\ list.providers \in {{}, deployment}
  /\ list.selected \in list.providers \cup {Nobody}

\* The stream of the moment is open, and an open stream that is not that one
\* was told to stop when another took its place.
StreamsAreReplaced ==
  /\ ai.current # 0 => /\ ai.current \in DOMAIN asks
                       /\ asks[ai.current].path = "stream" /\ asks[ai.current].open
  /\ ai.state = "streaming" => ai.current # 0
  /\ \A r \in DOMAIN asks :
       /\ asks[r].path = "stream" /\ asks[r].open => ai.current = r \/ asks[r].cancelled
       /\ asks[r].errored \/ asks[r].cancelled => asks[r].path = "stream"

\* The last question is the one that is waited for; a stream of the moment that
\* is not, has had its error.
LastIsWaitedFor ==
  tidy =>
    /\ ai.current # 0 =>
         /\ asks[ai.current].errored => ~asks[ai.current].cancelled /\ ai.state # "streaming"
         /\ ~asks[ai.current].errored => ai.current = Len(asks) /\ ai.state = "streaming"
    /\ ai.state = "loading" =>
         asks # <<>> /\ asks[Len(asks)].path = "atomic" /\ asks[Len(asks)].open
    /\ \A r \in DOMAIN asks :
         asks[r].path = "atomic" /\ asks[r].open => r = Len(asks) /\ ai.state = "loading"

PanelInv ==
  /\ PanelTypeOK /\ ListIsTheServers /\ StreamsAreReplaced /\ LastIsWaitedFor
  /\ (panel.describing => ~IsBusy)
  /\ ShowsTheLastAnswer /\ StreamsFromStreamers
=============================================================================
