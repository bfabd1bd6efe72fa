---------------------------- MODULE AiPanelProofs ----------------------------
(***************************************************************************)
(* Proofs about AiPanel, for any providers and any number of questions.    *)
(***************************************************************************)
EXTENDS AiPanel, FiniteSetTheorems, SequenceTheorems, TLAPS

(***************************************************************************)
(* The requests.                                                           *)
(***************************************************************************)
\* Request r becomes a, and no other changes.
Alters(r, a) == r \in DOMAIN asks /\ a \in Ask /\ asks' = [asks EXCEPT ![r] = a]

LEMMA AlterIs ==
  ASSUME asks \in Seq(Ask), NEW r, NEW a, Alters(r, a)
  PROVE  /\ asks' \in Seq(Ask) /\ Len(asks') = Len(asks) /\ DOMAIN asks' = DOMAIN asks
         /\ asks'[r] = a /\ \A q \in DOMAIN asks : q # r => asks'[q] = asks[q]
<1>1. r \in 1..Len(asks)
  BY DEF Alters
<1>2. asks' \in Seq(Ask) /\ Len(asks') = Len(asks)
  BY <1>1 DEF Alters
<1>3. QED
  BY <1>1, <1>2 DEF Alters

\* A question is one more request, the last.
Asked(path) == [path |-> path, provider |-> NamedProvider, open |-> TRUE,
                errored |-> FALSE, cancelled |-> FALSE, answered |-> FALSE]

LEMMA SentIs ==
  ASSUME PanelTypeOK, NEW path \in {"atomic", "stream"}, NamedProvider \in Providers \cup {Nobody}
  PROVE  /\ Sent(path) \in Seq(Ask) /\ Len(Sent(path)) = Len(asks) + 1
         /\ DOMAIN Sent(path) = 1..(Len(asks) + 1)
         /\ Sent(path)[Len(asks) + 1] = Asked(path)
         /\ \A q \in DOMAIN asks : Sent(path)[q] = asks[q]
<1>1. asks \in Seq(Ask) /\ Asked(path) \in Ask /\ Sent(path) = Append(asks, Asked(path))
  BY DEF PanelTypeOK, Asked, Ask, Sent
<1> HIDE DEF Asked
<1>2. QED
  BY <1>1

\* What an invariant that holds says of a request.
LEMMA OldAsk ==
  ASSUME PanelInv, NEW r \in DOMAIN asks
  PROVE  asks \in Seq(Ask) /\ asks[r] \in Ask /\ Len(asks) \in Nat /\ DOMAIN asks = 1..Len(asks)
<1>1. asks \in Seq(Ask)
  BY DEF PanelInv, PanelTypeOK
<1>2. QED
  BY <1>1

Refs == [state: {"idle", "loading", "streaming", "error"}, lastError: {"none", "ai_disabled", "other"},
         from: SUBSET (1..MaxAsks), wasCancelled: BOOLEAN, current: 0..MaxAsks]

\* An answer's step keeps who was asked what, and never starts to wait.
LEMMA AnswerKeeps ==
  ASSUME PanelInv, UNCHANGED <<world, list, panel>>, asks' \in Seq(Ask), Len(asks') = Len(asks),
         \A r \in DOMAIN asks : asks'[r].path = asks[r].path /\ asks'[r].provider = asks[r].provider,
         ai' \in Refs, IsBusy' => IsBusy
  PROVE  /\ PanelTypeOK' /\ ListIsTheServers' /\ (panel.describing => ~IsBusy)' /\ StreamsFromStreamers'
<1>1. PanelTypeOK'
  BY DEF PanelInv, PanelTypeOK, Refs, world
<1>2. ListIsTheServers'
  BY DEF PanelInv, ListIsTheServers, world
<1>3. StreamsFromStreamers'
  <2>1. DOMAIN asks' = DOMAIN asks
    BY DEF PanelInv, PanelTypeOK
  <2>2. QED
    BY <2>1 DEF PanelInv, StreamsFromStreamers
<1>4. QED
  BY <1>1, <1>2, <1>3 DEF PanelInv

-----------------------------------------------------------------------------
(***************************************************************************)
(* The list and the panel.                                                 *)
(***************************************************************************)
LEMMA ListStep ==
  ASSUME PanelParameters, PanelInv,
         ProvidersLoaded \/ ProvidersFailed \/ \E p \in Providers : SelectProvider(p)
  PROVE  PanelInv'
<1>1. UNCHANGED <<world, panel, ai, asks>>
  BY DEF ProvidersLoaded, ProvidersFailed, SelectProvider
<1>2. PanelTypeOK' /\ ListIsTheServers'
  <2>1. CASE ProvidersLoaded
    BY <1>1, <2>1 DEF ProvidersLoaded, PanelInv, PanelTypeOK, ListIsTheServers, world
  <2>2. CASE ProvidersFailed
    BY <1>1, <2>2 DEF ProvidersFailed, PanelInv, PanelTypeOK, ListIsTheServers, world
  <2>3. CASE \E p \in Providers : SelectProvider(p)
    BY <1>1, <2>3, SMTT(30) DEF SelectProvider, PanelInv, PanelTypeOK, ListIsTheServers, world
  <2>4. QED
    BY <2>1, <2>2, <2>3
<1>3. /\ StreamsAreReplaced' /\ LastIsWaitedFor' /\ (panel.describing => ~IsBusy)'
      /\ ShowsTheLastAnswer' /\ StreamsFromStreamers'
  BY <1>1 DEF PanelInv, StreamsAreReplaced, LastIsWaitedFor, IsBusy, ShowsTheLastAnswer,
              StreamsFromStreamers, world
<1>4. QED
  BY <1>2, <1>3 DEF PanelInv

LEMMA PanelStep ==
  ASSUME PanelInv, UNCHANGED <<world, list, ai, asks>>,
         panel' \in [stream: BOOLEAN, details: BOOLEAN, describing: BOOLEAN],
         panel'.describing => ~IsBusy
  PROVE  PanelInv'
<1>1. PanelTypeOK' /\ ListIsTheServers'
  BY DEF PanelInv, PanelTypeOK, ListIsTheServers, world
<1>2. /\ StreamsAreReplaced' /\ LastIsWaitedFor' /\ (panel.describing => ~IsBusy)'
      /\ ShowsTheLastAnswer' /\ StreamsFromStreamers'
  BY DEF PanelInv, StreamsAreReplaced, LastIsWaitedFor, IsBusy, ShowsTheLastAnswer,
         StreamsFromStreamers, world
<1>3. QED
  BY <1>1, <1>2 DEF PanelInv

LEMMA ToggleStep ==
  ASSUME PanelInv, ToggleStream \/ ToggleDetails
  PROVE  PanelInv'
<1>1. /\ panel' \in [stream: BOOLEAN, details: BOOLEAN, describing: BOOLEAN]
      /\ panel'.describing = panel.describing /\ UNCHANGED <<world, list, ai, asks>>
  BY DEF PanelInv, PanelTypeOK, ToggleStream, ToggleDetails
<1>2. QED
  BY <1>1, PanelStep DEF PanelInv

-----------------------------------------------------------------------------
(***************************************************************************)
(* A question.                                                             *)
(***************************************************************************)
\* With one provider at most in the list, the one selected is the default.
LEMMA OnlyDefault ==
  ASSUME PanelParameters, PanelInv, SelectedStreams, ~HasChoice
  PROVE  list.selected = Default
<1>1. /\ list.selected \in list.providers /\ list.providers \subseteq Providers
      /\ Default \in list.providers
  BY DEF SelectedStreams, PanelInv, PanelTypeOK, ListIsTheServers
<1>2. IsFiniteSet(list.providers) /\ Cardinality(list.providers) \in Nat
  BY <1>1, FS_Subset, FS_CardinalityType DEF PanelParameters
<1>3. ASSUME list.selected # Default
      PROVE  FALSE
  <2> DEFINE two == {list.selected} \cup {Default}
  <2>1. IsFiniteSet({Default}) /\ Cardinality({Default}) = 1
    BY FS_Singleton
  <2>2. Cardinality(two) = 2
    BY <1>3, <2>1, FS_AddElement
  <2>3. two \subseteq list.providers
    BY <1>1
  <2>4. Cardinality(two) <= Cardinality(list.providers)
    BY <1>2, <2>3, FS_Subset
  <2>5. QED
    BY <1>2, <2>2, <2>4 DEF HasChoice
<1>4. QED
  BY <1>3

\* A stream is asked of one that streams, by name or by default.
LEMMA AskedOfAStreamer ==
  ASSUME PanelParameters, PanelInv, UseStreaming
  PROVE  (IF NamedProvider = Nobody THEN Default ELSE NamedProvider) \in Streamers
<1>1. list.selected \in Streamers /\ list.selected \in Providers
  BY DEF UseStreaming, SelectedStreams, PanelInv, PanelTypeOK, ListIsTheServers
<1>2. list.selected # Nobody
  BY <1>1 DEF PanelParameters
<1>3. CASE HasChoice
  BY <1>1, <1>2, <1>3 DEF NamedProvider
<1>4. CASE ~HasChoice
  BY <1>1, <1>4, OnlyDefault DEF NamedProvider, UseStreaming
<1>5. QED
  BY <1>3, <1>4

\* Nobody is waited for: what is open has been cancelled or has had its error.
LEMMA NobodyIsBusy ==
  ASSUME PanelInv, tidy, ~IsBusy
  PROVE  /\ ai.current # 0 => asks[ai.current].errored
         /\ \A r \in DOMAIN asks : asks[r].path = "atomic" => ~asks[r].open
  BY DEF PanelInv, LastIsWaitedFor, IsBusy

LEMMA AtomicStep ==
  ASSUME PanelParameters, PanelInv, ~IsBusy, Len(asks) < MaxAsks, AskAtomic,
         UNCHANGED <<world, list>>, panel' \in [stream: BOOLEAN, details: BOOLEAN, describing: BOOLEAN],
         ~panel'.describing
  PROVE  PanelInv'
<1> DEFINE n == Len(asks) + 1
<1>1. /\ asks \in Seq(Ask) /\ Len(asks) \in Nat /\ DOMAIN asks = 1..Len(asks)
      /\ ai \in Refs /\ NamedProvider \in Providers \cup {Nobody}
  BY DEF PanelInv, PanelTypeOK, NamedProvider, Refs
<1>2. /\ asks' \in Seq(Ask) /\ Len(asks') = n /\ DOMAIN asks' = 1..n /\ asks'[n] = Asked("atomic")
      /\ \A q \in DOMAIN asks : asks'[q] = asks[q]
  BY <1>1, SentIs DEF AskAtomic, PanelInv
<1>3. /\ ai'.state = "loading" /\ ai'.current = ai.current /\ ai'.from = ai.from /\ ai' \in Refs
  BY <1>1 DEF AskAtomic, Refs
<1>4. \A q \in DOMAIN asks' : q = n \/ q \in DOMAIN asks
  BY <1>1, <1>2
<1>5. /\ Asked("atomic").path = "atomic" /\ Asked("atomic").open /\ ~Asked("atomic").errored
      /\ ~Asked("atomic").cancelled /\ ~Asked("atomic").answered
  BY DEF Asked
<1> HIDE DEF Asked
<1>6. PanelTypeOK' /\ ListIsTheServers'
  <2>1. Len(asks') <= MaxAsks
    BY <1>1, <1>2 DEF PanelParameters
  <2>2. QED
    BY <1>2, <1>3, <2>1 DEF PanelInv, PanelTypeOK, ListIsTheServers, world, Refs
<1>7. StreamsAreReplaced'
  BY <1>1, <1>2, <1>3, <1>4, <1>5 DEF PanelInv, StreamsAreReplaced
<1>8. LastIsWaitedFor'
  <2> SUFFICES ASSUME tidy PROVE LastIsWaitedFor'
    BY DEF LastIsWaitedFor, world
  <2>1. ai.current # 0 => ai.current \in DOMAIN asks /\ asks[ai.current].errored
                          /\ ~asks[ai.current].cancelled
    BY NobodyIsBusy DEF PanelInv, StreamsAreReplaced, LastIsWaitedFor
  <2>2. asks' # <<>>
    BY <1>1, <1>2
  <2>3. \A r \in DOMAIN asks : asks[r].path = "atomic" => ~asks[r].open
    BY NobodyIsBusy
  <2>4. QED
    BY <1>2, <1>3, <1>4, <1>5, <2>1, <2>2, <2>3 DEF LastIsWaitedFor
<1>9. ShowsTheLastAnswer'
  <2> SUFFICES ASSUME tidy PROVE ShowsTheLastAnswer'
    BY DEF ShowsTheLastAnswer, world
  <2>1. /\ asks'[Len(asks')].path = "atomic" /\ ~asks'[Len(asks')].answered
    BY <1>2, <1>5
  <2>2. CASE Cardinality(ai.from) = 1
    BY <1>3, <2>1, <2>2 DEF ShowsTheLastAnswer
  <2>3. CASE ai.from = {}
    BY <1>3, <2>3 DEF ShowsTheLastAnswer
  <2>4. CASE ai.from = {Len(asks)}
    <3>1. Cardinality({Len(asks)}) = 1
      BY FS_Singleton
    <3>2. Cardinality(ai'.from) = 1
      BY <1>3, <2>4, <3>1
    <3>3. QED
      BY <2>1, <3>2 DEF ShowsTheLastAnswer
  <2>5. QED
    BY <2>2, <2>3, <2>4 DEF PanelInv, ShowsTheLastAnswer
<1>10. StreamsFromStreamers'
  BY <1>2, <1>4, <1>5 DEF PanelInv, StreamsFromStreamers
<1>11. QED
  BY <1>6, <1>7, <1>8, <1>9, <1>10 DEF PanelInv

LEMMA StreamStep ==
  ASSUME PanelParameters, PanelInv, ~IsBusy, Len(asks) < MaxAsks, AskStream, UseStreaming,
         UNCHANGED <<world, list>>, panel' \in [stream: BOOLEAN, details: BOOLEAN, describing: BOOLEAN],
         ~panel'.describing
  PROVE  PanelInv'
<1> DEFINE n == Len(asks) + 1
<1> DEFINE sent == Sent("stream")
<1>1. /\ asks \in Seq(Ask) /\ Len(asks) \in Nat /\ DOMAIN asks = 1..Len(asks) /\ MaxAsks \in Nat
      /\ ai \in Refs /\ NamedProvider \in Providers \cup {Nobody}
  BY DEF PanelInv, PanelTypeOK, NamedProvider, Refs, PanelParameters
<1>2. /\ sent \in Seq(Ask) /\ Len(sent) = n /\ DOMAIN sent = 1..n /\ sent[n] = Asked("stream")
      /\ \A q \in DOMAIN asks : sent[q] = asks[q]
  BY <1>1, SentIs DEF PanelInv
<1>3. asks' = Cancelled(sent, ai.current)
  BY DEF AskStream
<1> HIDE DEF sent
<1>4. ai.current # 0 => ai.current \in DOMAIN asks /\ ai.current # n /\ asks[ai.current] \in Ask
                        /\ asks[ai.current].path = "stream"
  BY <1>1 DEF PanelInv, StreamsAreReplaced
<1>5. /\ asks' \in Seq(Ask) /\ Len(asks') = n /\ DOMAIN asks' = 1..n /\ asks'[n] = Asked("stream")
      /\ \A q \in DOMAIN asks : q # ai.current => asks'[q] = asks[q]
      /\ ai.current # 0 => asks'[ai.current] = [asks[ai.current] EXCEPT !.cancelled = TRUE]
  <2>1. CASE ai.current = 0
    BY <1>1, <1>2, <1>3, <2>1 DEF Cancelled
  <2>2. CASE ai.current # 0
    <3>1. asks' = [sent EXCEPT ![ai.current] = [asks[ai.current] EXCEPT !.cancelled = TRUE]]
      BY <1>2, <1>3, <1>4, <2>2 DEF Cancelled
    <3>2. ai.current \in 1..Len(sent) /\ [asks[ai.current] EXCEPT !.cancelled = TRUE] \in Ask
      <4>1. ai.current \in 1..Len(sent)
        BY <1>1, <1>2, <1>4, <2>2
      <4>2. \A a \in Ask : [a EXCEPT !.cancelled = TRUE] \in Ask
        BY DEF Ask
      <4>3. QED
        BY <1>4, <2>2, <4>1, <4>2
    <3>3. asks' \in Seq(Ask) /\ Len(asks') = n
      BY <1>2, <3>1, <3>2
    <3>4. QED
      BY <1>1, <1>2, <1>4, <2>2, <3>1, <3>2, <3>3
  <2>3. QED
    BY <2>1, <2>2
<1>6. \A q \in DOMAIN asks : /\ asks'[q].path = asks[q].path /\ asks'[q].provider = asks[q].provider
                             /\ asks'[q].open = asks[q].open /\ asks'[q].errored = asks[q].errored
                             /\ asks'[q].cancelled = (asks[q].cancelled \/ q = ai.current)
  <2>1. \A q \in DOMAIN asks : q # 0 /\ asks[q] \in Ask
    BY <1>1
  <2>2. QED
    BY <1>5, <2>1 DEF Ask
<1>7. ai' = [state |-> "streaming", lastError |-> "none", from |-> {}, wasCancelled |-> FALSE, current |-> n]
      /\ ai' \in Refs
  BY <1>1 DEF AskStream, Refs
<1>8. \A q \in DOMAIN asks' : q = n \/ q \in DOMAIN asks
  BY <1>1, <1>5
<1>9. /\ Asked("stream").path = "stream" /\ Asked("stream").open /\ ~Asked("stream").errored
      /\ ~Asked("stream").cancelled /\ Asked("stream").provider = NamedProvider
  BY DEF Asked
<1> HIDE DEF Asked
<1>10. n \in DOMAIN asks' /\ n # 0
  BY <1>1, <1>5
<1>11. PanelTypeOK' /\ ListIsTheServers'
  BY <1>1, <1>5, <1>7 DEF PanelInv, PanelTypeOK, ListIsTheServers, world, Refs
<1>12. StreamsAreReplaced'
  <2>1. \A q \in DOMAIN asks : /\ asks[q].path = "stream" /\ asks[q].open => ai.current = q \/ asks[q].cancelled
                               /\ asks[q].errored \/ asks[q].cancelled => asks[q].path = "stream"
    BY DEF PanelInv, StreamsAreReplaced
  <2>2. \A q \in DOMAIN asks : /\ asks'[q].path = "stream" /\ asks'[q].open => asks'[q].cancelled
                               /\ asks'[q].errored \/ asks'[q].cancelled => asks'[q].path = "stream"
    <3>1. \A q \in DOMAIN asks : q # 0
      BY <1>1
    <3>2. \A q \in DOMAIN asks : q = ai.current => asks[q].path = "stream"
      BY <1>4, <3>1
    <3>3. QED
      BY <1>6, <2>1, <3>2, ZenonT(40)
  <2>3. /\ ai'.current = n /\ n \in DOMAIN asks' /\ n # 0 /\ asks'[n].path = "stream" /\ asks'[n].open
        /\ ~asks'[n].errored /\ ~asks'[n].cancelled
    BY <1>5, <1>7, <1>9, <1>10
  <2>4. ASSUME NEW r \in DOMAIN asks'
        PROVE  /\ asks'[r].path = "stream" /\ asks'[r].open => ai'.current = r \/ asks'[r].cancelled
               /\ asks'[r].errored \/ asks'[r].cancelled => asks'[r].path = "stream"
    <3>1. CASE r = n
      BY <2>3, <3>1
    <3>2. CASE r \in DOMAIN asks
      BY <2>2, <3>2
    <3>3. QED
      BY <1>8, <3>1, <3>2
  <2>5. /\ ai'.current \in DOMAIN asks' /\ asks'[ai'.current].path = "stream" /\ asks'[ai'.current].open
        /\ ai'.current # 0
    BY <2>3
  <2>6. QED
    BY <2>4, <2>5 DEF StreamsAreReplaced
<1>13. LastIsWaitedFor'
  <2> SUFFICES ASSUME tidy PROVE LastIsWaitedFor'
    BY DEF LastIsWaitedFor, world
  <2>1. \A r \in DOMAIN asks : asks[r].path = "atomic" => ~asks[r].open
    BY NobodyIsBusy
  <2>2. QED
    BY <1>5, <1>6, <1>7, <1>8, <1>9, <2>1 DEF LastIsWaitedFor
<1>14. ShowsTheLastAnswer'
  BY <1>7 DEF ShowsTheLastAnswer
<1>15. StreamsFromStreamers'
  BY <1>5, <1>6, <1>8, <1>9, AskedOfAStreamer DEF PanelInv, StreamsFromStreamers
<1>16. QED
  BY <1>7, <1>11, <1>12, <1>13, <1>14, <1>15 DEF PanelInv

LEMMA QuestionStep ==
  ASSUME PanelParameters, PanelInv, OnExplain \/ OnSuggest \/ Described
  PROVE  PanelInv'
<1>1. panel \in [stream: BOOLEAN, details: BOOLEAN, describing: BOOLEAN]
  BY DEF PanelInv, PanelTypeOK
<1>2. ASSUME ~IsBusy, Len(asks) < MaxAsks, Send, UNCHANGED <<world, list>>, ~panel'.describing,
             panel' \in [stream: BOOLEAN, details: BOOLEAN, describing: BOOLEAN]
      PROVE  PanelInv'
  BY <1>2, AtomicStep, StreamStep DEF Send
<1>3. CASE OnExplain
  BY <1>1, <1>2, <1>3 DEF OnExplain, ButtonsDisabled
<1>4. CASE OnSuggest
  <2>1. CASE panel.details /\ describable
    <3>1. panel' = [panel EXCEPT !.describing = TRUE] /\ UNCHANGED <<world, list, ai, asks>> /\ ~IsBusy
      BY <1>4, <2>1 DEF OnSuggest, ButtonsDisabled
    <3>2. QED
      BY <1>1, <3>1, PanelStep
  <2>2. CASE ~(panel.details /\ describable)
    BY <1>1, <1>2, <1>4, <2>2 DEF OnSuggest, ButtonsDisabled
  <2>3. QED
    BY <2>1, <2>2
<1>5. CASE Described
  <2>1. ~IsBusy
    BY <1>5 DEF Described, PanelInv
  <2>2. QED
    BY <1>1, <1>2, <1>5, <2>1 DEF Described
<1>6. QED
  BY <1>3, <1>4, <1>5

-----------------------------------------------------------------------------
(***************************************************************************)
(* The answers.                                                            *)
(***************************************************************************)
\* Where an answer's step starts from.
LEMMA OldRefs ==
  ASSUME PanelParameters, PanelInv
  PROVE  /\ asks \in Seq(Ask) /\ Len(asks) \in Nat /\ DOMAIN asks = 1..Len(asks)
         /\ ai \in Refs /\ (\A r \in DOMAIN asks : asks[r] \in Ask /\ r \in 1..MaxAsks /\ r # 0)
         /\ Refusal \in {"none", "ai_disabled", "other"}
<1>1. asks \in Seq(Ask) /\ Len(asks) <= MaxAsks /\ ai \in Refs
  BY DEF PanelInv, PanelTypeOK, Refs
<1>2. Len(asks) \in Nat /\ DOMAIN asks = 1..Len(asks) /\ \A r \in DOMAIN asks : asks[r] \in Ask
  BY <1>1
<1>3. \A r \in DOMAIN asks : r \in 1..MaxAsks /\ r # 0
  BY <1>1, <1>2 DEF PanelParameters
<1>4. QED
  BY <1>1, <1>2, <1>3 DEF Refusal

\* An answer that closes r, and nothing else of it.
LEMMA ClosedIs ==
  ASSUME PanelParameters, PanelInv, NEW r \in DOMAIN asks, asks' = Closed(r)
  PROVE  /\ asks' \in Seq(Ask) /\ Len(asks') = Len(asks) /\ DOMAIN asks' = DOMAIN asks
         /\ \A q \in DOMAIN asks :
              /\ asks'[q].path = asks[q].path /\ asks'[q].provider = asks[q].provider
              /\ asks'[q].errored = asks[q].errored /\ asks'[q].cancelled = asks[q].cancelled
              /\ asks'[q].answered = asks[q].answered
              /\ asks'[q].open <=> asks[q].open /\ q # r
<1>1. Alters(r, [asks[r] EXCEPT !.open = FALSE])
  BY OldAsk DEF Alters, Closed, Ask
<1>2. \A q \in DOMAIN asks : asks[q] \in Ask
  BY OldRefs
<1>3. QED
  BY <1>1, <1>2, AlterIs, OldRefs DEF Ask

\* A stream that another has replaced ends without a trace.
LEMMA SupersededStep ==
  ASSUME PanelParameters, PanelInv, NEW r \in DOMAIN asks, Open(r, "stream"), Superseded(r),
         asks' = Closed(r), UNCHANGED <<world, list, panel, ai>>
  PROVE  PanelInv'
<1>1. PanelTypeOK' /\ ListIsTheServers' /\ (panel.describing => ~IsBusy)' /\ StreamsFromStreamers'
  BY ClosedIs, OldRefs, AnswerKeeps DEF IsBusy
<1>2. /\ Len(asks') = Len(asks) /\ DOMAIN asks' = DOMAIN asks /\ DOMAIN asks = 1..Len(asks) /\ Len(asks) \in Nat
      /\ \A q \in DOMAIN asks :
           /\ asks'[q].path = asks[q].path /\ asks'[q].errored = asks[q].errored
           /\ asks'[q].cancelled = asks[q].cancelled /\ asks'[q].answered = asks[q].answered
           /\ asks'[q].open <=> asks[q].open /\ q # r
  BY ClosedIs, OldRefs
<1>3. asks[r].path = "stream" /\ ai.current # r
  BY DEF Open, Superseded
<1>4. StreamsAreReplaced'
  <2>1. StreamsAreReplaced
    BY DEF PanelInv
  <2>2. QED
    BY <1>2, <1>3, <2>1 DEF StreamsAreReplaced
<1>5. LastIsWaitedFor'
  <2> SUFFICES ASSUME tidy PROVE LastIsWaitedFor'
    BY DEF LastIsWaitedFor, world
  <2>1. LastIsWaitedFor /\ (ai.current # 0 => ai.current \in DOMAIN asks)
    BY DEF PanelInv, StreamsAreReplaced
  <2>2. asks # <<>> => Len(asks) \in DOMAIN asks /\ asks' # <<>>
    BY ClosedIs, OldRefs
  <2>3. QED
    BY <1>2, <1>3, <2>1, <2>2 DEF LastIsWaitedFor
<1>6. ShowsTheLastAnswer'
  <2>1. Len(asks) \in DOMAIN asks \/ Len(asks) = 0
    BY <1>2
  <2>2. QED
    BY ClosedIs, OldRefs DEF PanelInv, ShowsTheLastAnswer, world
<1>7. QED
  BY <1>1, <1>4, <1>5, <1>6 DEF PanelInv

\* An answer in one piece: r was the last question, and nobody waits any more.
LEMMA AtomicEnds ==
  ASSUME PanelParameters, PanelInv, NEW r \in DOMAIN asks, AtomicAnswered(r) \/ AtomicFailed(r)
  PROVE  PanelInv'
<1> DEFINE a == [asks[r] EXCEPT !.open = FALSE, !.answered = @ \/ AtomicAnswered(r)]
<1>1. asks[r] \in Ask /\ asks[r].path = "atomic" /\ asks[r].open /\ r \in 1..MaxAsks /\ r # 0
  BY OldRefs DEF AtomicAnswered, AtomicFailed, Open
<1>2. asks' = [asks EXCEPT ![r] = a]
  <2>1. CASE AtomicAnswered(r)
    <3>1. asks' = [[asks EXCEPT ![r].open = FALSE] EXCEPT ![r].answered = TRUE]
      BY <2>1 DEF AtomicAnswered, Closed
    <3>2. a = [asks[r] EXCEPT !.open = FALSE, !.answered = TRUE]
      BY <2>1, <1>1 DEF Ask
    <3>3. QED
      BY <3>1, <3>2, OldRefs
  <2>2. CASE AtomicFailed(r) /\ ~AtomicAnswered(r)
    <3>1. asks' = [asks EXCEPT ![r] = [asks[r] EXCEPT !.open = FALSE]]
      BY <2>2 DEF AtomicFailed, Closed
    <3>2. a = [asks[r] EXCEPT !.open = FALSE]
      BY <2>2, <1>1 DEF Ask
    <3>3. QED
      BY <3>1, <3>2
  <2>3. QED
    BY <2>1, <2>2
<1>3. /\ a \in Ask /\ a.path = "atomic" /\ ~a.open /\ a.errored = asks[r].errored
      /\ a.cancelled = asks[r].cancelled /\ a.provider = asks[r].provider
  BY <1>1 DEF Ask
<1> HIDE DEF a
<1>4. /\ asks' \in Seq(Ask) /\ Len(asks') = Len(asks) /\ DOMAIN asks' = DOMAIN asks
      /\ asks'[r] = a /\ \A q \in DOMAIN asks : q # r => asks'[q] = asks[q]
  BY <1>2, <1>3, AlterIs, OldRefs DEF Alters
<1>5. /\ ai' \in Refs /\ ai'.state \in {"idle", "error"} /\ ai'.current = ai.current
      /\ UNCHANGED <<world, list, panel>>
  <2>1. CASE AtomicAnswered(r)
    BY <1>1, <2>1, OldRefs DEF AtomicAnswered, Refs
  <2>2. CASE AtomicFailed(r)
    BY <2>2, OldRefs DEF AtomicFailed, Refs
  <2>3. QED
    BY <2>1, <2>2
<1>6. PanelTypeOK' /\ ListIsTheServers' /\ (panel.describing => ~IsBusy)' /\ StreamsFromStreamers'
  <2>1. \A q \in DOMAIN asks : asks'[q].path = asks[q].path /\ asks'[q].provider = asks[q].provider
    BY <1>1, <1>3, <1>4
  <2>2. IsBusy' => IsBusy
    BY <1>5 DEF IsBusy
  <2>3. QED
    BY <1>4, <1>5, <2>1, <2>2, AnswerKeeps
<1>7. StreamsAreReplaced'
  <2>1. StreamsAreReplaced
    BY DEF PanelInv
  <2>2. ai.current # r
    BY <1>1, <2>1 DEF StreamsAreReplaced
  <2>3. QED
    BY <1>1, <1>3, <1>4, <1>5, <2>1, <2>2 DEF StreamsAreReplaced
<1>8. LastIsWaitedFor'
  <2> SUFFICES ASSUME tidy PROVE LastIsWaitedFor'
    BY <1>5 DEF LastIsWaitedFor, world
  <2>1. LastIsWaitedFor /\ (ai.current # 0 => ai.current \in DOMAIN asks /\ ai.current # r)
    BY <1>1 DEF PanelInv, StreamsAreReplaced
  <2>2. r = Len(asks) /\ ai.state = "loading"
    BY <1>1, <2>1 DEF LastIsWaitedFor
  <2>3. \A q \in DOMAIN asks : q # r => ~(asks[q].path = "atomic" /\ asks[q].open)
    BY <2>1, <2>2 DEF LastIsWaitedFor
  <2>4. QED
    BY <1>3, <1>4, <1>5, <2>1, <2>2, <2>3 DEF LastIsWaitedFor
<1>9. ShowsTheLastAnswer'
  <2> SUFFICES ASSUME tidy PROVE ShowsTheLastAnswer'
    BY <1>5 DEF ShowsTheLastAnswer, world
  <2>1. r = Len(asks)
    BY <1>1 DEF PanelInv, LastIsWaitedFor
  <2>2. CASE AtomicAnswered(r)
    <3>1. ai'.from = {r}
      BY <2>2, OldRefs DEF AtomicAnswered, Refs
    <3>2. QED
      BY <1>4, <2>1, <3>1 DEF ShowsTheLastAnswer
  <2>3. CASE AtomicFailed(r) /\ ~AtomicAnswered(r)
    <3>1. ai'.from = ai.from
      BY <2>3, OldRefs DEF AtomicFailed, Refs
    <3>2. a.answered = asks[r].answered
      BY <2>3, <1>1 DEF a, Ask
    <3>3. QED
      BY <1>1, <1>3, <1>4, <2>1, <3>1, <3>2 DEF PanelInv, ShowsTheLastAnswer
  <2>4. QED
    BY <2>2, <2>3
<1>10. QED
  BY <1>6, <1>7, <1>8, <1>9 DEF PanelInv

LEMMA DeltaStep ==
  ASSUME PanelParameters, PanelInv, NEW r \in DOMAIN asks, Delta(r)
  PROVE  PanelInv'
<1>1. CASE Superseded(r)
  <2>1. Open(r, "stream") /\ asks' = Closed(r) /\ UNCHANGED <<world, list, panel, ai>>
    BY <1>1 DEF Delta
  <2>2. QED
    BY <1>1, <2>1, SupersededStep
<1>2. CASE ~Superseded(r)
  <2>1. /\ ai' = [ai EXCEPT !.from = @ \cup {r}] /\ UNCHANGED <<world, list, panel, asks>>
        /\ ai.current = r /\ ~asks[r].errored /\ asks[r].path = "stream"
    BY <1>2 DEF Delta, Superseded, Open
  <2>2. /\ ai' \in Refs /\ ai'.from = ai.from \cup {r} /\ ai'.state = ai.state /\ ai'.current = ai.current
    BY <2>1, OldRefs DEF Refs
  <2>3. PanelTypeOK' /\ ListIsTheServers' /\ (panel.describing => ~IsBusy)' /\ StreamsFromStreamers'
    BY <2>1, <2>2, OldRefs, AnswerKeeps DEF IsBusy
  <2>4. StreamsAreReplaced' /\ LastIsWaitedFor'
    BY <2>1, <2>2 DEF PanelInv, StreamsAreReplaced, LastIsWaitedFor, world
  <2>5. ShowsTheLastAnswer'
    <3> SUFFICES ASSUME tidy PROVE ShowsTheLastAnswer'
      BY <2>1 DEF ShowsTheLastAnswer, world
    <3>1. r = Len(asks)
      BY <2>1, OldRefs DEF PanelInv, LastIsWaitedFor
    <3>2. ai.from \subseteq {r}
      BY <2>1, <3>1 DEF PanelInv, ShowsTheLastAnswer
    <3>3. QED
      BY <2>1, <2>2, <3>1, <3>2 DEF ShowsTheLastAnswer
  <2>6. QED
    BY <2>3, <2>4, <2>5 DEF PanelInv
<1>3. QED
  BY <1>1, <1>2

LEMMA ErrorStep ==
  ASSUME PanelParameters, PanelInv, NEW r \in DOMAIN asks, ErrorEvent(r)
  PROVE  PanelInv'
<1>1. CASE Superseded(r)
  <2>1. Open(r, "stream") /\ asks' = Closed(r) /\ UNCHANGED <<world, list, panel, ai>>
    BY <1>1 DEF ErrorEvent
  <2>2. QED
    BY <1>1, <2>1, SupersededStep
<1>2. CASE ~Superseded(r)
  <2> DEFINE a == [asks[r] EXCEPT !.errored = TRUE]
  <2>1. /\ asks' = [asks EXCEPT ![r] = a] /\ UNCHANGED <<world, list, panel>>
        /\ ai' = [ai EXCEPT !.lastError = "other", !.state = "error"]
        /\ ai.current = r /\ asks[r].path = "stream" /\ asks[r].open /\ asks[r] \in Ask /\ r # 0
        /\ tidy => ~asks[r].cancelled
    BY <1>2, OldRefs DEF ErrorEvent, Superseded, Open
  <2>2. /\ a \in Ask /\ a.path = "stream" /\ a.open /\ a.errored /\ a.cancelled = asks[r].cancelled
        /\ a.provider = asks[r].provider /\ a.answered = asks[r].answered
    BY <2>1 DEF Ask
  <2> HIDE DEF a
  <2>3. /\ asks' \in Seq(Ask) /\ Len(asks') = Len(asks) /\ DOMAIN asks' = DOMAIN asks
        /\ asks'[r] = a /\ \A q \in DOMAIN asks : q # r => asks'[q] = asks[q]
    BY <2>1, <2>2, AlterIs, OldRefs DEF Alters
  <2>4. /\ ai' \in Refs /\ ai'.from = ai.from /\ ai'.state = "error" /\ ai'.current = r
    BY <2>1, OldRefs DEF Refs
  <2>5. PanelTypeOK' /\ ListIsTheServers' /\ (panel.describing => ~IsBusy)' /\ StreamsFromStreamers'
    <3>1. \A q \in DOMAIN asks : asks'[q].path = asks[q].path /\ asks'[q].provider = asks[q].provider
      BY <2>1, <2>2, <2>3
    <3>2. QED
      BY <2>1, <2>3, <2>4, <3>1, AnswerKeeps DEF IsBusy
  <2>6. StreamsAreReplaced'
    <3>1. StreamsAreReplaced
      BY DEF PanelInv
    <3>2. QED
      BY <2>1, <2>2, <2>3, <2>4, <3>1 DEF StreamsAreReplaced
  <2>7. LastIsWaitedFor'
    <3> SUFFICES ASSUME tidy PROVE LastIsWaitedFor'
      BY <2>1 DEF LastIsWaitedFor, world
    <3>1. ai.state # "loading"
      <4>1. CASE asks[r].errored
        BY <4>1, <2>1, <1>2 DEF ErrorEvent
      <4>2. CASE ~asks[r].errored
        BY <4>2, <2>1 DEF PanelInv, LastIsWaitedFor
      <4>3. QED
        BY <4>1, <4>2
    <3>2. \A q \in DOMAIN asks : ~(asks[q].path = "atomic" /\ asks[q].open)
      BY <3>1 DEF PanelInv, LastIsWaitedFor
    <3>3. QED
      BY <2>1, <2>2, <2>3, <2>4, <3>2 DEF LastIsWaitedFor
  <2>8. ShowsTheLastAnswer'
    <3>1. asks'[Len(asks)].path = asks[Len(asks)].path /\ asks'[Len(asks)].answered = asks[Len(asks)].answered
      <4>1. Len(asks) \in DOMAIN asks
        BY OldRefs
      <4>2. QED
        BY <4>1, <2>1, <2>2, <2>3
    <3>2. QED
      BY <2>1, <2>3, <2>4, <3>1 DEF PanelInv, ShowsTheLastAnswer, world
  <2>9. QED
    BY <2>5, <2>6, <2>7, <2>8 DEF PanelInv
<1>3. QED
  BY <1>1, <1>2

\* The stream of the moment is over: only what it left on screen stays.
LEMMA StreamEnds ==
  ASSUME PanelParameters, PanelInv, NEW r \in DOMAIN asks, StreamEnded(r) \/ StreamFailed(r)
  PROVE  PanelInv'
<1>1. Open(r, "stream") /\ asks' = Closed(r) /\ UNCHANGED <<world, list, panel>>
  BY DEF StreamEnded, StreamFailed
<1>2. CASE Superseded(r)
  <2>1. ai' = ai
    BY <1>2 DEF StreamEnded, StreamFailed
  <2>2. QED
    BY <1>1, <1>2, <2>1, SupersededStep
<1>3. CASE ~Superseded(r)
  <2>1. ai.current = r /\ asks[r].path = "stream" /\ asks[r].open
    BY <1>1, <1>3 DEF Superseded, Open
  <2>2. /\ ai' \in Refs /\ ai'.current = 0 /\ ai'.from = ai.from /\ ai'.state # "streaming"
        /\ ai'.state \in {ai.state, "idle", "error"}
        /\ StreamEnded(r) /\ ai.state = "loading" => ai'.state = "loading"
    <3>1. CASE StreamEnded(r)
      <4>1. ai' = AfterEnd(r)
        BY <1>3, <3>1 DEF StreamEnded
      <4>2. ai \in Refs /\ 0 \in 0..MaxAsks
        BY OldRefs DEF PanelParameters
      <4>3. ai' \in Refs
        BY <4>1, <4>2 DEF AfterEnd, Refs
      <4>4. /\ ai'.current = 0 /\ ai'.from = ai.from
            /\ ai'.state = IF ai.state = "streaming" THEN "idle" ELSE ai.state
        BY <4>1, <4>2 DEF AfterEnd, Refs
      <4>5. QED
        BY <4>3, <4>4
    <3>2. CASE StreamFailed(r) /\ ~StreamEnded(r)
      <4>1. ai' = AfterFailure(r, Refusal)
        BY <1>3, <3>2 DEF StreamFailed
      <4>2. ai \in Refs /\ 0 \in 0..MaxAsks /\ Refusal \in {"none", "ai_disabled", "other"}
        BY OldRefs DEF PanelParameters
      <4>3. ai' \in Refs
        BY <4>1, <4>2 DEF AfterFailure, Refs
      <4>4. ai'.current = 0 /\ ai'.from = ai.from /\ ai'.state \in {"idle", "error"}
        BY <4>1, <4>2 DEF AfterFailure, Refs
      <4>5. QED
        BY <3>2, <4>3, <4>4
    <3>3. QED
      BY <3>1, <3>2
  <2>3. /\ asks' \in Seq(Ask) /\ Len(asks') = Len(asks) /\ DOMAIN asks' = DOMAIN asks
        /\ DOMAIN asks = 1..Len(asks) /\ Len(asks) \in Nat
        /\ \A q \in DOMAIN asks :
             /\ asks'[q].path = asks[q].path /\ asks'[q].provider = asks[q].provider
             /\ asks'[q].errored = asks[q].errored /\ asks'[q].cancelled = asks[q].cancelled
             /\ asks'[q].answered = asks[q].answered
             /\ asks'[q].open <=> asks[q].open /\ q # r
    BY <1>1, ClosedIs, OldRefs
  <2>4. PanelTypeOK' /\ ListIsTheServers' /\ (panel.describing => ~IsBusy)' /\ StreamsFromStreamers'
    <3>1. IsBusy' => IsBusy
      BY <2>2 DEF IsBusy
    <3>2. QED
      BY <1>1, <2>2, <2>3, <3>1, AnswerKeeps
  <2>5. StreamsAreReplaced'
    <3>1. StreamsAreReplaced
      BY DEF PanelInv
    <3>2. QED
      BY <2>1, <2>2, <2>3, <3>1 DEF StreamsAreReplaced
  <2>6. LastIsWaitedFor'
    <3> SUFFICES ASSUME tidy PROVE LastIsWaitedFor'
      BY <1>1 DEF LastIsWaitedFor, world
    <3>1. LastIsWaitedFor /\ (asks # <<>> => Len(asks) \in DOMAIN asks) /\ Len(asks) # 0 /\ r # 0
      BY <2>3, OldRefs DEF PanelInv
    <3>2. CASE asks[r].errored
      <4>1. StreamEnded(r)
        BY <2>1, <3>1, <3>2 DEF StreamFailed, LastIsWaitedFor
      <4>2. ai'.state = "loading" <=> ai.state = "loading"
        BY <4>1, <2>2
      <4>3. asks' # <<>>
        BY <2>3, <3>1
      <4>4. QED
        BY <2>1, <2>2, <2>3, <3>1, <4>2, <4>3 DEF LastIsWaitedFor
    <3>3. CASE ~asks[r].errored
      <4>1. ai.state = "streaming"
        BY <2>1, <3>1, <3>3 DEF LastIsWaitedFor
      <4>2. ai'.state # "loading"
        BY <2>2, <4>1
      <4>3. \A q \in DOMAIN asks : ~(asks[q].path = "atomic" /\ asks[q].open)
        BY <4>1, <3>1 DEF LastIsWaitedFor
      <4>4. QED
        BY <2>2, <2>3, <4>2, <4>3 DEF LastIsWaitedFor
    <3>4. QED
      BY <3>2, <3>3
  <2>7. ShowsTheLastAnswer'
    <3>1. Len(asks) \in DOMAIN asks
      BY <2>3
    <3>2. QED
      BY <1>1, <2>2, <2>3, <3>1 DEF PanelInv, ShowsTheLastAnswer, world
  <2>8. QED
    BY <2>4, <2>5, <2>6, <2>7 DEF PanelInv
<1>4. QED
  BY <1>2, <1>3

LEMMA CancelStep ==
  ASSUME PanelParameters, PanelInv, CancelClicked
  PROVE  PanelInv'
<1> DEFINE r == ai.current
<1> DEFINE a == [asks[r] EXCEPT !.cancelled = TRUE]
<1>1. /\ ai.state = "streaming" /\ r # 0 /\ r \in DOMAIN asks /\ asks[r].path = "stream" /\ asks[r].open
      /\ UNCHANGED <<world, list, panel, ai>> /\ asks' = [asks EXCEPT ![r] = a]
  BY DEF CancelClicked, PanelInv, StreamsAreReplaced, Cancelled
<1>2. /\ a \in Ask /\ a.path = "stream" /\ a.open /\ a.errored = asks[r].errored
      /\ a.provider = asks[r].provider /\ a.answered = asks[r].answered
  BY <1>1, OldRefs DEF Ask
<1> HIDE DEF a
<1>3. /\ asks' \in Seq(Ask) /\ Len(asks') = Len(asks) /\ DOMAIN asks' = DOMAIN asks
      /\ asks'[r] = a /\ \A q \in DOMAIN asks : q # r => asks'[q] = asks[q]
  BY <1>1, <1>2, AlterIs, OldRefs DEF Alters
<1>4. PanelTypeOK' /\ ListIsTheServers' /\ (panel.describing => ~IsBusy)' /\ StreamsFromStreamers'
  <2>1. \A q \in DOMAIN asks : asks'[q].path = asks[q].path /\ asks'[q].provider = asks[q].provider
    BY <1>1, <1>2, <1>3
  <2>2. ai' \in Refs /\ (IsBusy' <=> IsBusy)
    BY <1>1, OldRefs DEF IsBusy
  <2>3. QED
    BY <1>1, <1>3, <2>1, <2>2, AnswerKeeps
<1>5. StreamsAreReplaced'
  <2>1. StreamsAreReplaced
    BY DEF PanelInv
  <2>2. QED
    BY <1>1, <1>2, <1>3, <2>1 DEF StreamsAreReplaced
<1>6. LastIsWaitedFor'
  <2> SUFFICES ASSUME tidy PROVE LastIsWaitedFor'
    BY <1>1 DEF LastIsWaitedFor, world
  <2>1. LastIsWaitedFor
    BY DEF PanelInv
  <2>2. ~asks[r].errored
    BY <1>1, <2>1 DEF LastIsWaitedFor
  <2>3. QED
    BY <1>1, <1>2, <1>3, <2>1, <2>2 DEF LastIsWaitedFor
<1>7. ShowsTheLastAnswer'
  <2>1. asks'[Len(asks)].path = asks[Len(asks)].path /\ asks'[Len(asks)].answered = asks[Len(asks)].answered
    <3>1. Len(asks) \in DOMAIN asks
      BY <1>1, OldRefs
    <3>2. QED
      BY <3>1, <1>1, <1>2, <1>3
  <2>2. QED
    BY <1>1, <1>3, <2>1 DEF PanelInv, ShowsTheLastAnswer, world
<1>8. QED
  BY <1>4, <1>5, <1>6, <1>7 DEF PanelInv

-----------------------------------------------------------------------------
(***************************************************************************)
(* The theorems.                                                           *)
(***************************************************************************)
LEMMA PanelBegins ==
  ASSUME PanelParameters, PanelInit
  PROVE  PanelInv
<1>1. asks = <<>> /\ asks \in Seq(Ask) /\ Len(asks) = 0 /\ DOMAIN asks = {}
  BY DEF PanelInit
<1>2. PanelTypeOK
  BY <1>1 DEF PanelInit, PanelTypeOK, PanelParameters
<1>3. ListIsTheServers /\ (panel.describing => ~IsBusy) /\ ShowsTheLastAnswer
  BY DEF PanelInit, ListIsTheServers, ShowsTheLastAnswer
<1>4. StreamsAreReplaced /\ LastIsWaitedFor /\ StreamsFromStreamers
  BY <1>1 DEF PanelInit, StreamsAreReplaced, LastIsWaitedFor, StreamsFromStreamers
<1>5. QED
  BY <1>2, <1>3, <1>4 DEF PanelInv

LEMMA PanelSteps ==
  ASSUME PanelParameters, PanelInv, [PanelNext]_panelVars
  PROVE  PanelInv'
<1>1. CASE UNCHANGED panelVars
  BY <1>1 DEF panelVars, world, PanelInv, PanelTypeOK, ListIsTheServers, StreamsAreReplaced, LastIsWaitedFor, IsBusy,
              ShowsTheLastAnswer, StreamsFromStreamers
<1>2. CASE ProvidersLoaded \/ ProvidersFailed \/ \E p \in Providers : SelectProvider(p)
  BY <1>2, ListStep
<1>3. CASE ToggleStream \/ ToggleDetails
  BY <1>3, ToggleStep
<1>4. CASE OnExplain \/ OnSuggest \/ Described
  BY <1>4, QuestionStep
<1>5. CASE CancelClicked
  BY <1>5, CancelStep
<1>6. CASE \E r \in 1..Len(asks) : \/ AtomicAnswered(r) \/ AtomicFailed(r) \/ Delta(r) \/ ErrorEvent(r)
                                   \/ StreamEnded(r) \/ StreamFailed(r)
  BY <1>6, OldRefs, AtomicEnds, DeltaStep, ErrorStep, StreamEnds
<1>7. QED
  BY <1>1, <1>2, <1>3, <1>4, <1>5, <1>6 DEF PanelNext

\* PanelInv is inductive.
THEOREM PanelInvariant ==
  ASSUME PanelParameters
  PROVE  PanelSpec => []PanelInv
<1>1. PanelInit => PanelInv
  BY PanelBegins
<1>2. PanelInv /\ [PanelNext]_panelVars => PanelInv'
  BY PanelSteps
<1>3. QED
  BY <1>1, <1>2, PTL DEF PanelSpec

\* For any number of questions, whatever is cancelled, replaced or late: the
\* text on screen is the last question's, one exchange at a time is on its way,
\* and the busy state and the Cancel button have it behind them
\* (useAiAssist.ts:126-273, AiPanel.vue:105-190).
THEOREM PanelTheorem ==
  ASSUME PanelParameters
  PROVE  PanelSpec => []PanelIsTrue
<1>1. PanelInv => PanelIsTrue
  <2> SUFFICES ASSUME PanelInv PROVE PanelIsTrue
    OBVIOUS
  <2>1. StreamsAreReplaced /\ LastIsWaitedFor
    BY DEF PanelInv
  <2>2. OneAtATime
    <3> SUFFICES ASSUME tidy
                 PROVE  Cardinality({r \in DOMAIN asks : asks[r].open /\ ~asks[r].errored
                                                         /\ ~asks[r].cancelled}) <= 1
      BY DEF OneAtATime, PanelInv
    <3> DEFINE waited == {r \in DOMAIN asks : asks[r].open /\ ~asks[r].errored /\ ~asks[r].cancelled}
    <3>1. ASSUME NEW r \in waited
          PROVE  r = Len(asks)
      <4>1. r # 0 /\ asks[r].path \in {"atomic", "stream"}
        BY OldRefs DEF Ask
      <4>2. QED
        BY <2>1, <4>1 DEF StreamsAreReplaced, LastIsWaitedFor
    <3>2. waited \subseteq {Len(asks)}
      BY <3>1
    <3>3. IsFiniteSet({Len(asks)}) /\ Cardinality({Len(asks)}) = 1
      BY FS_Singleton
    <3>4. Cardinality(waited) <= Cardinality({Len(asks)})
      BY <3>2, <3>3, FS_Subset
    <3>5. QED
      BY <3>3, <3>4
  <2>3. BusyMeansOpen
    <3> SUFFICES ASSUME tidy
                 PROVE  IsBusy <=> \E r \in DOMAIN asks :
                                     /\ asks[r].open /\ ~asks[r].errored
                                     /\ asks[r].path = "stream" => ai.current = r
      BY DEF BusyMeansOpen
    <3>1. ASSUME ai.state = "loading"
          PROVE  \E r \in DOMAIN asks : /\ asks[r].open /\ ~asks[r].errored
                                        /\ asks[r].path = "stream" => ai.current = r
      <4>1. Len(asks) \in DOMAIN asks /\ asks[Len(asks)].path = "atomic" /\ asks[Len(asks)].open
        BY <2>1, <3>1, OldRefs DEF LastIsWaitedFor
      <4>2. QED
        BY <2>1, <4>1 DEF StreamsAreReplaced
    <3>2. ASSUME ai.state = "streaming"
          PROVE  \E r \in DOMAIN asks : /\ asks[r].open /\ ~asks[r].errored
                                        /\ asks[r].path = "stream" => ai.current = r
      BY <2>1, <3>2 DEF StreamsAreReplaced, LastIsWaitedFor
    <3>3. ASSUME NEW r \in DOMAIN asks, asks[r].open, ~asks[r].errored,
                 asks[r].path = "stream" => ai.current = r
          PROVE  IsBusy
      <4>1. r # 0 /\ asks[r].path \in {"atomic", "stream"}
        BY OldRefs DEF Ask
      <4>2. QED
        BY <2>1, <3>3, <4>1 DEF LastIsWaitedFor, IsBusy
    <3>4. QED
      BY <3>1, <3>2, <3>3 DEF IsBusy
  <2>4. CancelHasATarget
    BY <2>1 DEF StreamsAreReplaced, CancelHasATarget
  <2>5. QED
    BY <2>2, <2>3, <2>4 DEF PanelIsTrue, PanelInv
<1>2. QED
  BY <1>1, PanelInvariant, PTL

\* The end of a stream the user cancelled puts up no banner, whatever the server
\* still sends (the catch of stream()).
THEOREM CancelTheorem ==
  ASSUME PanelParameters
  PROVE  PanelSpec => CancelIsNotFailure
<1> DEFINE Quiet(r) == asks[r].cancelled /\ asks[r].open /\ ~asks'[r].open
                        => ai' = ai \/ (ai'.lastError = ai.lastError /\ ai'.state \in {ai.state, "idle"})
<1>1. PanelInv /\ [PanelNext]_panelVars => [\A r \in DOMAIN asks : Quiet(r)]_panelVars
  <2> SUFFICES ASSUME PanelInv, PanelNext, NEW r \in DOMAIN asks,
                      asks[r].cancelled, asks[r].open, ~asks'[r].open, ai' # ai
               PROVE  ai'.lastError = ai.lastError /\ ai'.state \in {ai.state, "idle"}
    OBVIOUS
  <2>1. asks[r].path = "stream" /\ asks[r] \in Ask
    BY OldRefs DEF PanelInv, StreamsAreReplaced
  <2>2. CASE UNCHANGED asks
    BY <2>2
  <2>3. CASE OnExplain \/ OnSuggest \/ Described
    <3>1. asks' = asks \/ \E path \in {"atomic", "stream"} : asks' \in {Sent(path), Cancelled(Sent(path), ai.current)}
      BY <2>3 DEF OnExplain, OnSuggest, Described, Send, AskAtomic, AskStream
    <3>2. NamedProvider \in Providers \cup {Nobody} /\ PanelTypeOK
      BY DEF PanelInv, PanelTypeOK, NamedProvider
    <3>3. \A path \in {"atomic", "stream"} : Sent(path)[r] = asks[r]
      BY <3>2, SentIs
    <3>4. \A path \in {"atomic", "stream"} : /\ Sent(path)[r].open
                                              /\ Cancelled(Sent(path), ai.current)[r].open
      <4>1. ASSUME NEW path \in {"atomic", "stream"}
            PROVE  Sent(path)[r].open /\ Cancelled(Sent(path), ai.current)[r].open
        <5>1. Sent(path)[r] = asks[r] /\ Sent(path) \in Seq(Ask) /\ r \in DOMAIN Sent(path)
          BY <3>2, <3>3, SentIs, OldRefs
        <5> HIDE DEF Sent
        <5>2. QED
          BY <5>1, <2>1 DEF Cancelled, Ask
      <4>2. QED
        BY <4>1
    <3>5. QED
      BY <3>1, <3>4
  <2>4. CASE CancelClicked
    BY <2>1, <2>4 DEF CancelClicked, Cancelled, Ask
  <2>5. CASE \E q \in 1..Len(asks) : \/ AtomicAnswered(q) \/ AtomicFailed(q) \/ Delta(q) \/ ErrorEvent(q)
                                     \/ StreamEnded(q) \/ StreamFailed(q)
    <3>1. PICK q \in DOMAIN asks : \/ AtomicAnswered(q) \/ AtomicFailed(q) \/ Delta(q) \/ ErrorEvent(q)
                                   \/ StreamEnded(q) \/ StreamFailed(q)
      BY <2>5, OldRefs
    <3>2. q = r
      BY <2>1, <3>1 DEF AtomicAnswered, AtomicFailed, Delta, ErrorEvent, StreamEnded, StreamFailed, Closed
    <3>3. CASE StreamEnded(r)
      BY <3>3, OldRefs DEF StreamEnded, AfterEnd, Refs
    <3>4. CASE StreamFailed(r)
      BY <3>4, OldRefs DEF StreamFailed, AfterFailure, Refs
    <3>5. CASE Delta(r) \/ ErrorEvent(r)
      BY <2>1, <3>5 DEF Delta, ErrorEvent, Ask
    <3>6. CASE AtomicAnswered(r) \/ AtomicFailed(r)
      BY <2>1, <3>6 DEF AtomicAnswered, AtomicFailed, Open
    <3>7. QED
      BY <3>1, <3>2, <3>3, <3>4, <3>5, <3>6
  <2>6. QED
    BY <2>2, <2>3, <2>4, <2>5 DEF PanelNext, ProvidersLoaded, ProvidersFailed, SelectProvider, ToggleStream,
       ToggleDetails
<1>2. QED
  BY <1>1, PanelInvariant, PTL DEF PanelSpec, CancelIsNotFailure
=============================================================================
