---------------------------- MODULE StreamsProofs ----------------------------
(***************************************************************************)
(* Proofs about what the server streams: AiStream, for an answer of any    *)
(* number of events, a provider that does anything and a client that       *)
(* leaves at any moment; DumpScreen, for any tables and keys, any sizes of *)
(* page and batch, and others who write meanwhile; and AiProviders, for an *)
(* answer of any number of frames, whatever its vendor sends.              *)
(***************************************************************************)
EXTENDS AiStream, DumpScreen, AiProviders, SequenceTheorems, FiniteSetTheorems,
        WellFoundedInduction, TLAPS

\* Records of one entry are told apart by it, and from none.
LEMMA Entries ==
  /\ <<"success">> # <<"error">> /\ <<"success">> # <<"cancelled">> /\ <<"success">> # <<"lost">>
  /\ <<"error">> # <<"cancelled">> /\ <<"error">> # <<"lost">> /\ <<"cancelled">> # <<"lost">>
  /\ \A x \in {"success", "error", "cancelled", "lost"} :
       <<x>> # <<>> /\ Len(<<x>>) = 1 /\ <<>> \o <<x>> = <<x>>
  OBVIOUS

\* What a `finally` block has to write.
LEMMA Outcomes ==
  ASSUME NEW how \in {"cancelled", "ok", "error", "crashed"}, NEW stopped \in BOOLEAN
  PROVE  LET outcome == Outcome(how, stopped) IN
         /\ outcome \in {<<>>, <<"success">>, <<"error">>, <<"cancelled">>}
         /\ outcome = <<>> <=> how = "crashed" /\ ~stopped
         /\ outcome = <<"success">> => stopped \/ how = "ok"
         /\ outcome = <<"error">> <=> how = "error"
         /\ outcome = <<"cancelled">> <=> how = "cancelled" /\ ~stopped
         /\ how = "ok" => outcome = <<"success">>
<1>1. CASE how = "error"
  BY <1>1, Entries DEF Outcome
<1>2. CASE how = "ok" \/ (stopped /\ how # "error")
  BY <1>2, Entries DEF Outcome
<1>3. CASE how = "cancelled" /\ ~stopped
  BY <1>3, Entries DEF Outcome
<1>4. CASE how = "crashed" /\ ~stopped
  BY <1>4, Entries DEF Outcome
<1>5. QED
  BY <1>1, <1>2, <1>3, <1>4

\* The record of an answer is at most one entry.
LEMMA OutcomeWritten ==
  ASSUME NEW h, h \in {<<>>, <<"success">>, <<"error">>, <<"cancelled">>, <<"lost">>}
  PROVE  /\ h \in Seq({"success", "error", "cancelled", "lost"})
         /\ Len(h) <= 1
         /\ <<>> \o h = h
<1>1. CASE h = <<>>
  BY <1>1
<1>2. CASE h # <<>>
  <2>1. PICK x \in {"success", "error", "cancelled", "lost"} : h = <<x>>
    BY <1>2
  <2>2. QED
    BY <2>1, Entries
<1>3. QED
  BY <1>1, <1>2

\* What a write over an empty history leaves.
LEMMA RecordsEffect ==
  ASSUME StreamInv, Records
  PROVE  LET outcome == Outcome(terminus, sawStop) IN
         history' = outcome \/ (outcome # <<>> /\ history' = <<"lost">>)
<1> DEFINE outcome == Outcome(terminus, sawStop)
<1>1. history = <<>>
  BY DEF StreamInv, RecordIsOutcome, Records
<1>2. outcome \in {<<>>, <<"success">>, <<"error">>, <<"cancelled">>}
  BY Outcomes DEF StreamInv, TypeOK
<1>3. <<>> \o outcome = outcome
  BY <1>2, OutcomeWritten
<1>4. Append(<<>>, "lost") = <<"lost">>
  OBVIOUS
<1>5. QED
  BY <1>1, <1>3, <1>4 DEF Records


LEMMA InitStream == Init => StreamInv
<1> SUFFICES ASSUME Init PROVE StreamInv
  OBVIOUS
<1>1. history \in Seq({"success", "error", "cancelled", "lost"})
  BY OutcomeWritten DEF Init
<1>2. 0 \in 0..MaxEvents
  BY AiStreamAssumption
<1>3. TypeOK
  BY <1>1, <1>2 DEF Init, TypeOK
<1>4. PipeAndGenerator /\ EndIsKnown /\ RecordIsOutcome /\ AnswerIsTheEnd
  BY DEF Init, PipeAndGenerator, EndIsKnown, RecordIsOutcome, AnswerIsTheEnd
<1>5. QED
  BY <1>3, <1>4 DEF StreamInv

-----------------------------------------------------------------------------
(***************************************************************************)
(* The generator's steps.                                                  *)
(***************************************************************************)
\* An event goes to the pipe that waits for it or, if a return() is queued,
\* nowhere.
LEMMA YieldsStep == StreamInv /\ ProviderYields => StreamInv'
<1> SUFFICES ASSUME StreamInv, ProviderYields PROVE StreamInv'
  OBVIOUS
<1> USE AiStreamAssumption
      DEF StreamInv, TypeOK, PipeAndGenerator, EndIsKnown, RecordIsOutcome, AnswerIsTheEnd,
          ProviderYields, EnterFinally, Gone
<1>1. TypeOK'
  <2>1. seen' \in 0..MaxEvents
    OBVIOUS
  <2>2. sawStop' \in BOOLEAN
    OBVIOUS
  <2>3. generator' \in {"recording", "yielded"} /\ aborted' \in BOOLEAN /\ terminus' = terminus
    OBVIOUS
  <2>4. QED
    BY <2>1, <2>2, <2>3
<1>2. PipeAndGenerator'
  OBVIOUS
<1>3. EndIsKnown' /\ AnswerIsTheEnd'
  OBVIOUS
<1>4. RecordIsOutcome'
  OBVIOUS
<1>5. QED
  BY <1>1, <1>2, <1>3, <1>4 DEF StreamInv

\* The provider ends, or throws.
LEMMA FinallyStep == StreamInv /\ (ProviderEnds \/ ProviderThrows) => StreamInv'
<1> SUFFICES ASSUME StreamInv, ProviderEnds \/ ProviderThrows PROVE StreamInv'
  OBVIOUS
<1> USE DEF StreamInv, TypeOK, PipeAndGenerator, EndIsKnown, RecordIsOutcome, AnswerIsTheEnd,
            ProviderEnds, ProviderThrows, EnterFinally, Gone
<1>1. TypeOK'
  OBVIOUS
<1>2. PipeAndGenerator'
  OBVIOUS
<1>3. EndIsKnown' /\ AnswerIsTheEnd'
  OBVIOUS
<1>4. RecordIsOutcome'
  OBVIOUS
<1>5. QED
  BY <1>1, <1>2, <1>3, <1>4 DEF StreamInv

\* The write is over.
LEMMA RecordsStep == StreamInv /\ Records => StreamInv'
<1> SUFFICES ASSUME StreamInv, Records PROVE StreamInv'
  OBVIOUS
<1>1. LET outcome == Outcome(terminus, sawStop) IN
      history' = outcome \/ (outcome # <<>> /\ history' = <<"lost">>)
  BY RecordsEffect
<1>2. history' \in Seq({"success", "error", "cancelled", "lost"})
  BY <1>1, Outcomes, OutcomeWritten DEF StreamInv, TypeOK
<1>3. TypeOK'
  BY <1>2 DEF StreamInv, TypeOK, Records
<1>4. PipeAndGenerator'
  BY DEF StreamInv, TypeOK, PipeAndGenerator, EndIsKnown, Records, Gone
<1>5. EndIsKnown' /\ AnswerIsTheEnd'
  BY DEF StreamInv, PipeAndGenerator, EndIsKnown, AnswerIsTheEnd, Records, Gone
<1>6. RecordIsOutcome'
  BY <1>1 DEF StreamInv, EndIsKnown, RecordIsOutcome, Records
<1>7. QED
  BY <1>3, <1>4, <1>5, <1>6 DEF StreamInv

-----------------------------------------------------------------------------
(***************************************************************************)
(* The pipe's steps.                                                       *)
(***************************************************************************)
\* What return() does, wherever the generator is.
LEMMA StopEffect ==
  ASSUME Stop
  PROVE  /\ pipe' = "stopping"
         /\ \/ /\ generator = "fresh" /\ generator' = "done"
               /\ UNCHANGED <<terminus, aborted, returning>>
            \/ /\ generator = "yielded" /\ generator' = "recording" /\ aborted'
               /\ UNCHANGED <<terminus, returning>>
            \/ /\ generator \notin {"fresh", "yielded"} /\ returning'
               /\ UNCHANGED <<generator, terminus, aborted>>
  BY DEF Stop, EnterFinally

LEMMA LoopStep == StreamInv /\ Loop => StreamInv'
<1> SUFFICES ASSUME StreamInv, Loop PROVE StreamInv'
  OBVIOUS
<1> USE StopEffect
      DEF StreamInv, TypeOK, PipeAndGenerator, EndIsKnown, RecordIsOutcome, AnswerIsTheEnd, Loop, Gone
<1>1. TypeOK'
  OBVIOUS
<1>2. PipeAndGenerator'
  OBVIOUS
<1>3. EndIsKnown' /\ AnswerIsTheEnd'
  OBVIOUS
<1>4. RecordIsOutcome'
  OBVIOUS
<1>5. QED
  BY <1>1, <1>2, <1>3, <1>4 DEF StreamInv

\* The race is over: the client left, or an event came.
LEMMA RaceStep == StreamInv /\ (NoticeHangup \/ TakeValue) => StreamInv'
<1> SUFFICES ASSUME StreamInv, NoticeHangup \/ TakeValue PROVE StreamInv'
  OBVIOUS
<1> USE StopEffect, AiStreamAssumption
      DEF StreamInv, TypeOK, PipeAndGenerator, EndIsKnown, RecordIsOutcome, AnswerIsTheEnd,
          NoticeHangup, TakeValue, Gone
<1>1. TypeOK'
  OBVIOUS
<1>2. PipeAndGenerator'
  OBVIOUS
<1>3. EndIsKnown' /\ AnswerIsTheEnd'
  OBVIOUS
<1>4. RecordIsOutcome'
  OBVIOUS
<1>5. QED
  BY <1>1, <1>2, <1>3, <1>4 DEF StreamInv

\* Or the stream ended, or the return() was served, or nothing happened but
\* that the client left.
LEMMA RestStep == StreamInv /\ (TakeEnd \/ Stopped \/ HangUp \/ UNCHANGED vars) => StreamInv'
<1> SUFFICES ASSUME StreamInv, TakeEnd \/ Stopped \/ HangUp \/ UNCHANGED vars PROVE StreamInv'
  OBVIOUS
<1> USE DEF StreamInv, TypeOK, PipeAndGenerator, EndIsKnown, RecordIsOutcome, AnswerIsTheEnd,
            TakeEnd, Stopped, HangUp, vars, Gone
<1>1. TypeOK'
  OBVIOUS
<1>2. PipeAndGenerator'
  OBVIOUS
<1>3. EndIsKnown' /\ AnswerIsTheEnd'
  OBVIOUS
<1>4. RecordIsOutcome'
  OBVIOUS
<1>5. QED
  BY <1>1, <1>2, <1>3, <1>4 DEF StreamInv

LEMMA StreamStep == StreamInv /\ [Next]_vars => StreamInv'
  BY YieldsStep, FinallyStep, RecordsStep, LoopStep, RaceStep, RestStep
     DEF Next, Provider, Server, Over

-----------------------------------------------------------------------------
(***************************************************************************)
(* Theorems.                                                               *)
(***************************************************************************)
\* At every point of an answer the pipe and the generator are where the other
\* expects them to be, and the record is the outcome of what has happened.
THEOREM StreamInvariant == Spec => []StreamInv
  BY InitStream, StreamStep, PTL DEF Spec

LEMMA HistoryFollows == StreamInv => HistoryIsTrue
<1> SUFFICES ASSUME StreamInv PROVE HistoryIsTrue
  OBVIOUS
<1> DEFINE outcome == Outcome(terminus, sawStop)
<1>1. history \in {<<>>, <<"lost">>, outcome}
  BY DEF StreamInv, TypeOK, RecordIsOutcome
<1>2. /\ outcome \in {<<>>, <<"success">>, <<"error">>, <<"cancelled">>}
      /\ outcome = <<>> <=> terminus = "crashed" /\ ~sawStop
      /\ outcome = <<"success">> => sawStop \/ terminus = "ok"
      /\ outcome = <<"error">> <=> terminus = "error"
      /\ outcome = <<"cancelled">> <=> terminus = "cancelled" /\ ~sawStop
      /\ terminus = "ok" => outcome = <<"success">>
  BY Outcomes DEF StreamInv, TypeOK
<1>3. history # <<>> => history = <<"lost">> \/ history = outcome
  BY <1>1
<1>4. generator = "done" /\ aborted =>
        history = outcome \/ (outcome # <<>> /\ history = <<"lost">>)
  BY DEF StreamInv, RecordIsOutcome
<1> HIDE DEF outcome
<1>5. RecordedOnce
  <2>1. Len(history) <= 1
    BY <1>1, <1>2, OutcomeWritten
  <2>2. generator = "done" =>
          (history = <<>> <=> ~aborted \/ (terminus = "crashed" /\ ~sawStop))
    BY <1>2, <1>4 DEF StreamInv, RecordIsOutcome
  <2>3. QED
    BY <2>1, <2>2 DEF RecordedOnce
<1>6. RecordIsTrue
  BY <1>2, <1>3 DEF RecordIsTrue, StreamInv, TypeOK, RecordIsOutcome, EndIsKnown, Gone
<1>7. ClientAndHistoryAgree
  BY <1>2, <1>4 DEF ClientAndHistoryAgree, StreamInv, AnswerIsTheEnd
<1>8. DeliveredIsRecorded
  BY DEF DeliveredIsRecorded, StreamInv, TypeOK, PipeAndGenerator, Gone
<1>9. QED
  BY <1>5, <1>6, <1>7, <1>8 DEF HistoryIsTrue

\* The history of an answer is true, however the provider, the client and the
\* recorder's write race (HistoryIsTrue).
THEOREM HistoryTheorem == Spec => []HistoryIsTrue
  BY StreamInvariant, HistoryFollows, PTL

\* Once its client has left, nothing more goes on the wire (NothingAfterHangup).
THEOREM HangupTheorem == Spec => NothingAfterHangup
<1>1. [Next]_vars => [Gone => UNCHANGED <<sent, answer>>]_vars
  BY DEF Next, Provider, Server, ProviderYields, ProviderEnds, ProviderThrows, EnterFinally,
         Records, Loop, NoticeHangup, TakeValue, TakeEnd, Stopped, HangUp, Over, Gone, vars
<1>2. QED
  BY <1>1, PTL DEF Spec, NothingAfterHangup

(***************************************************************************)
(* A dump: the sequences it is made of.                                    *)
(***************************************************************************)
\* What a sequence holds.
LEMMA Held ==
  ASSUME NEW S, NEW s \in Seq(S)
  PROVE  /\ ToSet(s) \subseteq S
         /\ \A x : x \in ToSet(s) <=> \E i \in 1..Len(s) : x = s[i]
         /\ s = <<>> => ToSet(s) = {} /\ IsInjective(s)
  BY LenProperties DEF ToSet, IsInjective

\* One sequence after another holds what both hold, once if they share nothing.
LEMMA Joined ==
  ASSUME NEW S, NEW a \in Seq(S), NEW b \in Seq(S)
  PROVE  /\ a \o b \in Seq(S)
         /\ ToSet(a \o b) = ToSet(a) \cup ToSet(b)
         /\ IsInjective(a \o b) => IsInjective(a)
         /\ IsInjective(a) /\ IsInjective(b) /\ ToSet(a) \cap ToSet(b) = {} => IsInjective(a \o b)
<1> DEFINE c == a \o b
<1>1. /\ c \in Seq(S) /\ Len(c) = Len(a) + Len(b) /\ Len(a) \in Nat /\ Len(b) \in Nat
      /\ \A i \in 1..Len(a) : c[i] = a[i]
      /\ \A i \in 1..Len(b) : c[Len(a) + i] = b[i]
  <2>1. \A i \in 1..(Len(a) + Len(b)) : c[i] = IF i <= Len(a) THEN a[i] ELSE b[i - Len(a)]
    BY ConcatProperties
  <2>2. Len(a) \in Nat /\ Len(b) \in Nat /\ c \in Seq(S) /\ Len(c) = Len(a) + Len(b)
    BY ConcatProperties, LenProperties
  <2> HIDE DEF c
  <2>3. \A i \in 1..Len(a) : c[i] = a[i]
    BY <2>1, <2>2
  <2>4. ASSUME NEW i \in 1..Len(b) PROVE c[Len(a) + i] = b[i]
    <3>1. Len(a) + i \in 1..(Len(a) + Len(b)) /\ ~(Len(a) + i <= Len(a)) /\ (Len(a) + i) - Len(a) = i
      BY <2>2
    <3>2. QED
      BY <2>1, <3>1
  <2>5. QED
    BY <2>2, <2>3, <2>4
<1> HIDE DEF c
<1>2. ASSUME NEW i \in 1..Len(c)
      PROVE  i \in 1..Len(a) \/ \E j \in 1..Len(b) : i = Len(a) + j
  <2>1. CASE i > Len(a)
    <3>1. i - Len(a) \in 1..Len(b) /\ i = Len(a) + (i - Len(a))
      BY <1>1, <2>1
    <3>2. QED
      BY <3>1
  <2>2. QED
    BY <1>1, <2>1
<1>3. ToSet(c) = ToSet(a) \cup ToSet(b)
  <2>1. ASSUME NEW x \in ToSet(c) PROVE x \in ToSet(a) \cup ToSet(b)
    <3>1. PICK i \in 1..Len(c) : x = c[i]
      BY <1>1, Held
    <3>2. CASE i \in 1..Len(a)
      BY <1>1, <3>1, <3>2, Held
    <3>3. ASSUME NEW j \in 1..Len(b), i = Len(a) + j PROVE x \in ToSet(b)
      BY <1>1, <3>1, <3>3, Held
    <3>4. QED
      BY <1>2, <3>2, <3>3
  <2>2. ASSUME NEW x \in ToSet(a) PROVE x \in ToSet(c)
    <3>1. PICK i \in 1..Len(a) : x = a[i]
      BY Held
    <3>2. i \in 1..Len(c) /\ c[i] = x
      BY <1>1, <3>1
    <3>3. QED
      BY <1>1, <3>2, Held
  <2>3. ASSUME NEW x \in ToSet(b) PROVE x \in ToSet(c)
    <3>1. PICK i \in 1..Len(b) : x = b[i]
      BY Held
    <3>2. Len(a) + i \in 1..Len(c) /\ c[Len(a) + i] = x
      BY <1>1, <3>1
    <3>3. QED
      BY <1>1, <3>2, Held
  <2>4. QED
    BY <2>1, <2>2, <2>3
<1>4. DOMAIN a = 1..Len(a) /\ DOMAIN b = 1..Len(b) /\ DOMAIN c = 1..Len(c)
  BY <1>1, LenProperties
<1>5. ASSUME IsInjective(c) PROVE IsInjective(a)
  BY <1>1, <1>4, <1>5 DEF IsInjective
<1>6. ASSUME IsInjective(a), IsInjective(b), ToSet(a) \cap ToSet(b) = {} PROVE IsInjective(c)
  <2> SUFFICES ASSUME NEW i \in 1..Len(c), NEW j \in 1..Len(c), c[i] = c[j] PROVE i = j
    BY <1>4 DEF IsInjective
  <2>1. \A k \in 1..Len(a) : a[k] \in ToSet(a)
    BY Held
  <2>2. \A k \in 1..Len(b) : b[k] \in ToSet(b)
    BY Held
  <2>3. CASE i \in 1..Len(a) /\ j \in 1..Len(a)
    BY <1>1, <1>4, <1>6, <2>3 DEF IsInjective
  <2>4. ASSUME NEW k \in 1..Len(b), NEW l \in 1..Len(b), i = Len(a) + k, j = Len(a) + l PROVE i = j
    <3>1. c[i] = b[k] /\ c[j] = b[l]
      BY <1>1, <2>4
    <3>2. b[k] = b[l] /\ k \in DOMAIN b /\ l \in DOMAIN b
      BY <1>4, <3>1
    <3>3. k = l
      BY <1>6, <3>2 DEF IsInjective
    <3>4. QED
      BY <2>4, <3>3
  <2>5. ASSUME NEW k \in 1..Len(b), i = Len(a) + k, j \in 1..Len(a) PROVE FALSE
    BY <1>1, <1>6, <2>1, <2>2, <2>5
  <2>6. ASSUME NEW k \in 1..Len(b), j = Len(a) + k, i \in 1..Len(a) PROVE FALSE
    BY <1>1, <1>6, <2>1, <2>2, <2>6
  <2>7. QED
    BY <1>2, <2>3, <2>4, <2>5, <2>6
<1>7. QED
  BY <1>1, <1>3, <1>5, <1>6 DEF c

\* Pieces may be put together in any order of joining.
LEMMA Regrouped ==
  ASSUME NEW S, NEW a \in Seq(S), NEW b \in Seq(S), NEW c \in Seq(S)
  PROVE  (a \o b) \o c = a \o (b \o c)
  BY ConcatAssociative

\* What is left when the head is done with.
LEMMA Left ==
  ASSUME NEW S, NEW s \in Seq(S), s # <<>>, IsInjective(s)
  PROVE  /\ Head(s) \in S /\ Tail(s) \in Seq(S) /\ IsInjective(Tail(s))
         /\ Head(s) \notin ToSet(Tail(s)) /\ ToSet(s) = ToSet(Tail(s)) \cup {Head(s)}
<1>1. /\ Head(s) \in S /\ Tail(s) \in Seq(S) /\ Len(Tail(s)) = Len(s) - 1
      /\ \A i \in 1..Len(Tail(s)) : Tail(s)[i] = s[i + 1]
  BY HeadTailProperties
<1>2. Len(s) \in Nat \ {0} /\ DOMAIN s = 1..Len(s) /\ Head(s) = s[1]
  BY EmptySeq, LenProperties
<1>3. DOMAIN Tail(s) = 1..Len(Tail(s))
  BY <1>1, LenProperties
<1>4. IsInjective(Tail(s))
  BY <1>1, <1>2, <1>3 DEF IsInjective
<1>5. Head(s) \notin ToSet(Tail(s))
  <2> SUFFICES ASSUME NEW i \in 1..Len(Tail(s)), Head(s) = Tail(s)[i] PROVE FALSE
    BY <1>1, Held
  <2>1. s[1] = s[i + 1] /\ 1 \in DOMAIN s /\ i + 1 \in DOMAIN s /\ 1 # i + 1
    BY <1>1, <1>2
  <2>2. QED
    BY <2>1 DEF IsInjective
<1>6. ASSUME NEW x \in ToSet(s) PROVE x \in ToSet(Tail(s)) \cup {Head(s)}
  <2>1. PICK i \in 1..Len(s) : x = s[i]
    BY Held
  <2>2. CASE i = 1
    BY <1>2, <2>1, <2>2
  <2>3. CASE i # 1
    <3>1. i - 1 \in 1..Len(Tail(s)) /\ Tail(s)[i - 1] = s[(i - 1) + 1] /\ (i - 1) + 1 = i
      BY <1>1, <1>2, <2>3
    <3>2. x = Tail(s)[i - 1]
      BY <2>1, <3>1
    <3>3. x \in ToSet(Tail(s)) <=> \E k \in 1..Len(Tail(s)) : x = Tail(s)[k]
      BY <1>1, Held
    <3>4. QED
      BY <3>1, <3>2, <3>3
  <2>4. QED
    BY <2>2, <2>3
<1>7. ASSUME NEW x \in ToSet(Tail(s)) PROVE x \in ToSet(s)
  <2>1. PICK i \in 1..Len(Tail(s)) : x = Tail(s)[i]
    BY <1>1, Held
  <2>2. i + 1 \in 1..Len(s) /\ x = s[i + 1]
    BY <1>1, <1>2, <2>1
  <2>3. QED
    BY <2>2, Held
<1>8. Head(s) \in ToSet(s)
  <2>1. 1 \in 1..Len(s)
    BY <1>2
  <2>2. QED
    BY <1>2, <2>1, Held
<1>9. QED
  BY <1>1, <1>4, <1>5, <1>6, <1>7, <1>8

\* A batch and what is left of the page are the page.
LEMMA Cut ==
  ASSUME NEW S, NEW s \in Seq(S), NEW n \in Nat \ {0}
  PROVE  /\ FirstOf(s, n) \in Seq(S) /\ SubSeq(s, n + 1, Len(s)) \in Seq(S)
         /\ FirstOf(s, n) \o SubSeq(s, n + 1, Len(s)) = s
         /\ Len(FirstOf(s, n)) = IF Len(s) < n THEN Len(s) ELSE n
         /\ \A i \in 1..Len(FirstOf(s, n)) : FirstOf(s, n)[i] = s[i]
<1> DEFINE m == IF Len(s) < n THEN Len(s) ELSE n
<1>1. Len(s) \in Nat /\ \A i \in 1..Len(s) : s[i] \in S
  BY LenProperties
<1>2. m \in 0..Len(s)
  BY <1>1
<1>3. /\ SubSeq(s, 1, m) \in Seq(S) /\ Len(SubSeq(s, 1, m)) = m
      /\ \A i \in 1..m : SubSeq(s, 1, m)[i] = s[i]
  BY <1>1, <1>2, SubSeqProperties
<1>4. FirstOf(s, n) = SubSeq(s, 1, m)
  BY DEF FirstOf
<1>5. SubSeq(s, n + 1, Len(s)) \in Seq(S)
  <2>1. \A i \in (n + 1)..Len(s) : s[i] \in S
    BY <1>1
  <2>2. QED
    BY <1>1, <2>1, SubSeqProperties
<1>6. SubSeq(s, 1, m) \o SubSeq(s, n + 1, Len(s)) = s
  <2>1. CASE n <= Len(s)
    <3>1. m = n /\ 1 \in 1..Len(s)+1 /\ n \in (1 - 1)..Len(s) /\ Len(s) \in n..Len(s)
      BY <1>1, <2>1
    <3>2. SubSeq(s, 1, n) \o SubSeq(s, n + 1, Len(s)) = SubSeq(s, 1, Len(s))
      BY <3>1, ConcatAdjacentSubSeq
    <3>3. QED
      BY <3>1, <3>2, SubSeqFull
  <2>2. CASE Len(s) < n
    <3>1. m = Len(s) /\ Len(s) < n + 1
      BY <1>1, <2>2
    <3>2. SubSeq(s, n + 1, Len(s)) = <<>>
      BY <1>1, <3>1, SubSeqEmpty
    <3>3. SubSeq(s, 1, m) = s
      BY <3>1, SubSeqFull
    <3>4. QED
      BY <3>2, <3>3, ConcatEmptySeq
  <2>3. n <= Len(s) \/ Len(s) < n
    BY <1>1
  <2>4. QED
    BY <2>1, <2>2, <2>3
<1>7. QED
  BY <1>3, <1>4, <1>5, <1>6

\* A set of numbers has a least member.
LEMMA LeastNumber ==
  ASSUME NEW S, S \subseteq Nat, S # {}
  PROVE  \E n \in S : \A m \in S : n <= m
<1> DEFINE Less == OpToRel(<, Nat)
<1>1. IsWellFoundedOn(Less, Nat)
  BY NatLessThanWellFounded
<1>2. PICK n \in S : \A m \in S : <<m, n>> \notin Less
  <2> HIDE DEF Less
  <2>1. QED
    BY <1>1, WFMin
<1>3. ASSUME NEW m \in S
      PROVE  n <= m
  <2>1. n \in Nat /\ m \in Nat
    OBVIOUS
  <2>2. <<m, n>> \notin {p \in Nat \X Nat : p[1] < p[2]}
    BY <1>2 DEF OpToRel
  <2>3. ~(m < n)
    BY <2>1, <2>2
  <2>4. QED
    BY <2>1, <2>3
<1>4. QED
  BY <1>3

\* s is the set, from the least on.
Ranks(s, set) ==
  /\ s \in [1..Cardinality(set) -> set]
  /\ ToSet(s) = set
  /\ \A i, j \in 1..Cardinality(set) : i < j => s[i] < s[j]

\* Keys can be put in order: the least number of keys that could not be would
\* be one more than a number of keys that can.
LEMMA KeysAreRanked ==
  ASSUME NEW set \in SUBSET Keys
  PROVE  IsFiniteSet(set) /\ Cardinality(set) \in Nat /\ \E s : Ranks(s, set)
<1>1. \A T \in SUBSET Keys : IsFiniteSet(T) /\ Cardinality(T) \in Nat /\ T \subseteq Nat
  BY DumpAssumption, FS_Subset, FS_CardinalityType
<1> DEFINE Bad == {n \in Nat : \E T \in SUBSET Keys : Cardinality(T) = n /\ ~\E s : Ranks(s, T)}
<1>2. Bad = {}
  <2>1. SUFFICES ASSUME Bad # {} PROVE FALSE
    OBVIOUS
  <2>2. PICK n \in Bad : \A m \in Bad : n <= m
    <3>1. Bad \subseteq Nat
      OBVIOUS
    <3> HIDE DEF Bad
    <3>2. QED
      BY <2>1, <3>1, LeastNumber
  <2>3. PICK T \in SUBSET Keys : Cardinality(T) = n /\ ~\E s : Ranks(s, T)
    OBVIOUS
  <2>4. n \in Nat
    OBVIOUS
  <2>5. CASE T = {}
    <3>1. Cardinality(T) = 0 /\ 1..0 = {}
      BY <2>5, FS_EmptySet
    <3>2. <<>> \in [1..0 -> T] /\ ToSet(<<>>) = T
      BY <2>5, <3>1 DEF ToSet
    <3>3. Ranks(<<>>, T)
      BY <3>1, <3>2 DEF Ranks
    <3>4. QED
      BY <2>3, <3>3
  <2>6. CASE T # {}
    <3>1. PICK m \in T : \A k \in T : m <= k
      BY <1>1, <2>6, LeastNumber
    <3> DEFINE U == T \ {m}
    <3>2. U \in SUBSET Keys /\ Cardinality(U) = n - 1 /\ n - 1 \in Nat
      <4>1. IsFiniteSet(T)
        BY <1>1
      <4>2. Cardinality(U) = Cardinality(T) - 1
        BY <4>1, FS_RemoveElement
      <4>3. U \in SUBSET Keys
        OBVIOUS
      <4>4. Cardinality(U) \in Nat
        BY <1>1, <4>3
      <4>5. QED
        BY <2>3, <2>4, <4>2, <4>3, <4>4
    <3>3. \E r : Ranks(r, U)
      <4>1. n - 1 \notin Bad
        <5> HIDE DEF Bad
        <5>1. ~(n <= n - 1)
          BY <2>4
        <5>2. QED
          BY <2>2, <5>1
      <4>2. QED
        BY <3>2, <4>1
    <3>4. PICK r : Ranks(r, U)
      BY <3>3
    <3>5. /\ r \in [1..(n - 1) -> U] /\ \A k \in U : \E i \in 1..(n - 1) : r[i] = k
          /\ \A i, j \in 1..(n - 1) : i < j => r[i] < r[j]
      <4>1. r \in [1..(n - 1) -> U]
        BY <3>2, <3>4 DEF Ranks
      <4>2. DOMAIN r = 1..(n - 1)
        BY <4>1
      <4>3. \A k \in U : k \in {r[i] : i \in DOMAIN r}
        BY <3>4 DEF Ranks, ToSet
      <4>4. QED
        BY <3>2, <3>4, <4>1, <4>2, <4>3 DEF Ranks
    <3> DEFINE s == [i \in 1..n |-> IF i = 1 THEN m ELSE r[i - 1]]
    <3> HIDE DEF U
    <3>6. \A i \in 1..n : i # 1 => i - 1 \in 1..(n - 1)
      BY <2>4
    <3>7. U \subseteq T /\ m \notin U /\ T = U \cup {m}
      BY DEF U
    <3>8. s \in [1..n -> T]
      BY <3>5, <3>6, <3>7
    <3>9. ToSet(s) = T
      <4>1. ToSet(s) = {s[i] : i \in 1..n}
        BY DEF ToSet
      <4>2. 1 \in 1..n /\ s[1] = m
        BY <2>4, <3>2
      <4>3. ASSUME NEW k \in U PROVE \E i \in 1..n : s[i] = k
        <5>1. PICK i \in 1..(n - 1) : r[i] = k
          BY <3>5
        <5>2. i + 1 \in 1..n /\ i + 1 # 1 /\ (i + 1) - 1 = i
          BY <2>4
        <5>3. QED
          BY <5>1, <5>2
      <4> HIDE DEF s
      <4>4. QED
        BY <3>7, <3>8, <4>1, <4>2, <4>3
    <3>10. ASSUME NEW i \in 1..n, NEW j \in 1..n, i < j PROVE s[i] < s[j]
      <4>1. j # 1 /\ j - 1 \in 1..(n - 1) /\ s[j] = r[j - 1]
        BY <2>4, <3>10
      <4>2. CASE i = 1
        <5>1. r[j - 1] \in U
          BY <3>5, <4>1
        <5>2. m <= r[j - 1] /\ r[j - 1] # m /\ m \in Nat /\ r[j - 1] \in Nat
          BY <1>1, <3>1, <3>7, <5>1
        <5>3. QED
          BY <4>1, <4>2, <5>2
      <4>3. CASE i # 1
        <5>1. i - 1 \in 1..(n - 1) /\ i - 1 < j - 1 /\ s[i] = r[i - 1]
          BY <2>4, <3>10, <4>3
        <5>2. QED
          BY <3>5, <4>1, <5>1
      <4>4. QED
        BY <4>2, <4>3
    <3>11. Ranks(s, T)
      <4> HIDE DEF s
      <4>1. QED
        BY <2>3, <3>8, <3>9, <3>10 DEF Ranks
    <3>12. QED
      BY <2>3, <3>11
  <2>7. QED
    BY <2>5, <2>6
<1>3. QED
  BY <1>1, <1>2

\* Ascending() is that order.
LEMMA InOrder ==
  ASSUME NEW set \in SUBSET Keys
  PROVE  /\ Ascending(set) \in Seq(Keys) /\ ToSet(Ascending(set)) = set
         /\ \A i, j \in 1..Len(Ascending(set)) : i < j => Ascending(set)[i] < Ascending(set)[j]
<1> DEFINE s == Ascending(set)
<1>1. Ranks(s, set)
  <2>1. \E a \in [1..Cardinality(set) -> set] :
           /\ ToSet(a) = set
           /\ \A i, j \in 1..Cardinality(set) : i < j => a[i] < a[j]
    BY KeysAreRanked DEF Ranks
  <2>2. QED
    BY <2>1 DEF Ascending, Ranks
<1>2. Cardinality(set) \in Nat
  BY KeysAreRanked
<1> HIDE DEF s
<1>3. s \in [1..Cardinality(set) -> Keys]
  BY <1>1 DEF Ranks
<1>4. s \in Seq(Keys) /\ Len(s) = Cardinality(set)
  BY <1>2, <1>3, SeqDef
<1>5. QED
  BY <1>1, <1>4 DEF Ranks, s

(* The tables are listed once each.                                        *)
LEMMA TablesInOrder == AllTables \in Seq(Tables) /\ IsInjective(AllTables) /\ ToSet(AllTables) = Tables
<1> DEFINE n == Cardinality(Tables)
<1>1. n \in Nat /\ IsFiniteSet(1..n) /\ Cardinality(1..n) = n /\ ExistsBijection(1..n, Tables)
  BY DumpAssumption, FS_CardinalityType, FS_Interval
<1>2. \E f \in [1..n -> Tables] : IsInjective(f)
  BY <1>1 DEF ExistsBijection, Bijection, Injection
<1>3. AllTables \in [1..n -> Tables] /\ IsInjective(AllTables)
  BY <1>2 DEF AllTables, SetToSeq
<1>4. AllTables \in Injection(1..n, Tables)
  BY <1>3 DEF Injection
<1>5. AllTables \in Surjection(1..n, Tables)
  BY <1>1, <1>4, DumpAssumption, FS_Injection
<1>6. AllTables \in Seq(Tables) /\ Len(AllTables) = n
  BY <1>1, <1>3, SeqDef
<1>7. \A t \in Tables : \E i \in 1..n : AllTables[i] = t
  BY <1>5 DEF Surjection
<1>8. ToSet(AllTables) \subseteq Tables
  BY <1>6, Held
<1>9. ASSUME NEW t \in Tables PROVE t \in ToSet(AllTables)
  <2>1. PICK i \in 1..Len(AllTables) : AllTables[i] = t
    BY <1>6, <1>7
  <2>2. QED
    BY <1>6, <2>1, Held
<1>10. QED
  BY <1>3, <1>6, <1>8, <1>9

\* What a page holds of the rows it is read from.
LEMMA PageFields ==
  ASSUME NEW set \in SUBSET Keys, NEW read, read = FirstOf(Ascending(set), PageRows)
  PROVE  /\ read \in Seq(Keys) /\ IsInjective(read) /\ ToSet(read) \subseteq set
         /\ read = <<>> => set = {}
         /\ read # <<>> => /\ Last(read) \in set
                           /\ \A k \in ToSet(read) : k <= Last(read)
                           /\ \A k \in set : k <= Last(read) => k \in ToSet(read)
         /\ Len(read) # PageRows => ToSet(read) = set
<1> DEFINE s == Ascending(set)
<1>1. /\ s \in Seq(Keys) /\ ToSet(s) = set
      /\ \A i, j \in 1..Len(s) : i < j => s[i] < s[j]
  BY InOrder
<1>2. Keys \subseteq Nat /\ PageRows \in Nat \ {0}
  BY DumpAssumption
<1> HIDE DEF s
<1>3. /\ read \in Seq(Keys) /\ Len(read) = IF Len(s) < PageRows THEN Len(s) ELSE PageRows
      /\ \A i \in 1..Len(read) : read[i] = s[i]
  BY <1>1, <1>2, Cut DEF s
<1>4. Len(s) \in Nat /\ DOMAIN read = 1..Len(read) /\ \A i \in 1..Len(s) : s[i] \in Nat
  BY <1>1, <1>2, <1>3, LenProperties
<1>5. Len(read) \in Nat /\ 1..Len(read) \subseteq 1..Len(s)
  BY <1>2, <1>3, <1>4
<1>6. IsInjective(read)
  <2> SUFFICES ASSUME NEW i \in 1..Len(read), NEW j \in 1..Len(read), read[i] = read[j] PROVE i = j
    BY <1>4 DEF IsInjective
  <2>1. s[i] = s[j] /\ i \in 1..Len(s) /\ j \in 1..Len(s)
    BY <1>3, <1>5
  <2>2. ~(i < j) /\ ~(j < i)
    BY <1>1, <1>4, <2>1
  <2>3. QED
    BY <1>5, <2>2
<1>7. ToSet(read) \subseteq set
  <2>1. ASSUME NEW k \in ToSet(read) PROVE k \in ToSet(s)
    <3>1. PICK i \in 1..Len(read) : k = read[i]
      BY <1>3, Held
    <3>2. i \in 1..Len(s) /\ k = s[i]
      BY <1>3, <1>5, <3>1
    <3>3. QED
      BY <1>1, <3>2, Held
  <2>2. QED
    BY <1>1, <2>1
<1>8. ASSUME read = <<>> PROVE set = {}
  <2>1. Len(read) = 0
    BY <1>8
  <2>2. Len(s) = 0
    BY <1>2, <1>3, <1>4, <2>1
  <2>3. s = <<>>
    BY <1>1, <2>2
  <2>4. QED
    BY <1>1, <2>3, Held
<1>9. ASSUME read # <<>>
      PROVE  /\ Last(read) \in set
             /\ \A k \in ToSet(read) : k <= Last(read)
             /\ \A k \in set : k <= Last(read) => k \in ToSet(read)
  <2>1. Len(read) \in 1..Len(read) /\ Len(read) \in 1..Len(s) /\ Last(read) = s[Len(read)]
    <3>1. Len(read) # 0
      BY <1>3, <1>9, EmptySeq
    <3>2. Last(read) = read[Len(read)]
      BY DEF Last
    <3>3. QED
      BY <1>3, <1>5, <3>1, <3>2
  <2>2. Last(read) \in set
    BY <1>1, <2>1, Held
  <2>3. ASSUME NEW k \in ToSet(read) PROVE k <= Last(read)
    <3>1. PICK i \in 1..Len(read) : k = read[i]
      BY <1>3, Held
    <3>2. i \in 1..Len(s) /\ k = s[i] /\ (i = Len(read) \/ i < Len(read))
      BY <1>3, <1>5, <3>1
    <3>3. CASE i = Len(read)
      BY <1>4, <2>1, <3>2, <3>3
    <3>4. CASE i < Len(read)
      <4>1. s[i] < s[Len(read)]
        BY <1>1, <2>1, <3>2, <3>4
      <4>2. s[i] \in Nat /\ s[Len(read)] \in Nat
        BY <1>4, <2>1, <3>2
      <4>3. s[i] <= s[Len(read)]
        BY <4>1, <4>2
      <4>4. QED
        BY <2>1, <3>2, <4>3
    <3>5. QED
      BY <3>2, <3>3, <3>4
  <2>4. ASSUME NEW k \in set, k <= Last(read) PROVE k \in ToSet(read)
    <3>1. PICK i \in 1..Len(s) : k = s[i]
      BY <1>1, Held
    <3>2. ~(Len(read) < i)
      BY <1>1, <1>4, <2>1, <2>4, <3>1
    <3>3. i \in 1..Len(read) /\ read[i] = k
      BY <1>3, <1>4, <1>5, <3>1, <3>2
    <3>4. QED
      BY <1>3, <3>3, Held
  <2>5. QED
    BY <2>2, <2>3, <2>4
<1>10. ASSUME Len(read) # PageRows PROVE ToSet(read) = set
  <2>1. Len(read) = Len(s)
    BY <1>3, <1>10
  <2>2. ASSUME NEW k \in set PROVE k \in ToSet(read)
    <3>1. PICK i \in 1..Len(s) : k = s[i]
      BY <1>1, Held
    <3>2. i \in 1..Len(read) /\ read[i] = k
      BY <1>3, <2>1, <3>1
    <3>3. QED
      BY <1>3, <3>2, Held
  <2>3. QED
    BY <1>7, <2>2
<1>11. QED
  BY <1>3, <1>6, <1>7, <1>8, <1>9, <1>10

(***************************************************************************)
(* A dump: its invariant.                                                  *)
(***************************************************************************)
\* A chunk is of one of three kinds.
LEMMA ChunkKinds ==
  ASSUME DumpTypeOK, chunk # None
  PROVE  /\ chunk \in Chunk /\ chunk.kind \in {"text", "note", "insert"}
         /\ chunk.kind = "insert" => chunk.table \in Tables /\ chunk.rows \in Seq(Keys)
         /\ chunk.kind = "note" => chunk.table \in Tables /\ chunk = NoteFor(chunk.table)
  BY DEF DumpTypeOK, Chunk, NoteFor

\* What of a table is where.
LEMMA UnderwayTypes ==
  ASSUME DumpTypeOK, StagesAgree, NEW t \in Tables
  PROVE  /\ file[t] \in Seq(Keys) /\ InChunk(t) \in Seq(Keys) /\ InPage(t) \in Seq(Keys)
         /\ Underway(t) \in Seq(Keys)
         /\ ToSet(Underway(t)) = ToSet(file[t]) \cup ToSet(InChunk(t)) \cup ToSet(InPage(t))
         /\ IsInjective(Underway(t)) => IsInjective(file[t])
<1>1. file[t] \in Seq(Keys)
  BY DEF DumpTypeOK
<1>2. <<>> \in Seq(Keys)
  OBVIOUS
<1>3. InChunk(t) \in Seq(Keys)
  BY <1>2, ChunkKinds DEF InChunk
<1>4. InPage(t) \in Seq(Keys)
  BY <1>2 DEF InPage, DumpTypeOK, StagesAgree
<1> DEFINE both == file[t] \o InChunk(t)
<1>5. /\ both \in Seq(Keys) /\ ToSet(both) = ToSet(file[t]) \cup ToSet(InChunk(t))
      /\ IsInjective(both) => IsInjective(file[t])
  BY <1>1, <1>3, Joined
<1>6. Underway(t) = both \o InPage(t)
  BY DEF Underway
<1> HIDE DEF both
<1>7. /\ Underway(t) \in Seq(Keys) /\ ToSet(Underway(t)) = ToSet(both) \cup ToSet(InPage(t))
      /\ IsInjective(Underway(t)) => IsInjective(both)
  BY <1>4, <1>5, <1>6, Joined
<1>8. QED
  BY <1>1, <1>3, <1>4, <1>5, <1>7

\* Outside a page and with no rows in a chunk, what is underway is in the file.
LEMMA AllInFile ==
  ASSUME DumpTypeOK, StagesAgree, NEW t \in Tables, stage # "page"
  PROVE  Underway(t) = file[t]
<1>1. file[t] \in Seq(Keys)
  BY DEF DumpTypeOK
<1>2. InChunk(t) = <<>> /\ InPage(t) = <<>>
  BY DEF InChunk, InPage, StagesAgree
<1>3. QED
  BY <1>1, <1>2, ConcatEmptySeq DEF Underway

\* The gate is kept by a step that counts nothing and reads what was counted.
LEMMA GateKept ==
  ASSUME WithinTheGate, UNCHANGED <<total, writes, rows, miscounted, confirm>>,
         Counted' \subseteq Counted,
         stage' \in {"listing", "counting", "refused", "failed"} \/ PassesTheGate,
         \A t \in Tables : \A k \in ToSet(Underway(t)') :
           k \in ToSet(Underway(t)) \/ (t \in Counted /\ k \in rows[t])
  PROVE  WithinTheGate'
<1>1. CASE miscounted
  BY <1>1 DEF WithinTheGate, PassesTheGate
<1>2. CASE ~miscounted
  <2>1. PICK counted \in SUBSET (Tables \X Keys), added \in SUBSET (Tables \X Keys) :
          /\ Cardinality(counted) <= total /\ Cardinality(added) <= writes
          /\ \A t \in Counted : \A k \in rows[t] : <<t, k>> \in counted \cup added
          /\ \A t \in Tables : \A k \in ToSet(Underway(t)) : <<t, k>> \in counted \cup added
    BY <1>2 DEF WithinTheGate
  <2>2. /\ Cardinality(counted) <= total' /\ Cardinality(added) <= writes'
        /\ \A t \in Counted' : \A k \in rows'[t] : <<t, k>> \in counted \cup added
        /\ \A t \in Tables : \A k \in ToSet(Underway(t)') : <<t, k>> \in counted \cup added
    BY <2>1
  <2>3. stage' \in {"listing", "counting", "refused", "failed"} \/ PassesTheGate'
    BY DEF PassesTheGate
  <2>4. QED
    BY <2>2, <2>3 DEF WithinTheGate
<1>3. QED
  BY <1>1, <1>2

LEMMA DumpInvInit == DumpInit => DumpInv
<1> SUFFICES ASSUME DumpInit PROVE DumpInv
  OBVIOUS
<1>1. <<>> \in Seq(Keys) /\ <<>> \in Seq(Tables) /\ IsInjective(<<>>) /\ ToSet(<<>>) = {}
  BY DEF IsInjective, ToSet
<1>2. DumpTypeOK
  <2>1. file \in [Tables -> Seq(Keys)]
    BY <1>1 DEF DumpInit
  <2>2. writes \in 0..MaxWrites /\ total \in Nat /\ todo \in Seq(Tables)
    BY <1>1, DumpAssumption DEF DumpInit
  <2>3. QED
    BY <2>1, <2>2 DEF DumpInit, DumpTypeOK
<1>3. StagesAgree
  BY <1>1 DEF DumpInit, StagesAgree
<1>4. NotYetWritten
  BY DEF DumpInit, NotYetWritten, Running
<1>5. \A t \in Tables : Underway(t) = <<>>
  BY <1>2, <1>3, AllInFile DEF DumpInit
<1>6. Parted
  BY <1>1, <1>5 DEF DumpInit, Parted, Reading
<1>7. NothingIsMissed
  BY DEF DumpInit, NothingIsMissed, Running, FileTellsWhatIsMissing
<1>8. WithinTheGate
  <2>1. Counted = {} /\ total = 0 /\ writes = 0
    BY DEF Counted, DumpInit
  <2>2. Cardinality({}) <= total /\ Cardinality({}) <= writes
    BY <2>1, FS_EmptySet
  <2>3. /\ \A t \in Counted : \A k \in rows[t] : <<t, k>> \in {} \cup {}
        /\ \A t \in Tables : \A k \in ToSet(Underway(t)) : <<t, k>> \in {} \cup {}
    BY <1>1, <1>5, <2>1
  <2>4. stage = "listing"
    BY DEF DumpInit
  <2>5. \E counted, added \in SUBSET (Tables \X Keys) :
          /\ Cardinality(counted) <= total /\ Cardinality(added) <= writes
          /\ \A t \in Counted : \A k \in rows[t] : <<t, k>> \in counted \cup added
          /\ \A t \in Tables : \A k \in ToSet(Underway(t)) : <<t, k>> \in counted \cup added
    <3>1. {} \in SUBSET (Tables \X Keys)
      OBVIOUS
    <3>2. QED
      BY <2>2, <2>3, <3>1
  <2>6. QED
    BY <2>4, <2>5 DEF WithinTheGate
<1>9. QED
  BY <1>2, <1>3, <1>4, <1>6, <1>7, <1>8 DEF DumpInv

\* The pairs of a table and a key are finitely many.
LEMMA PairsAreFinite ==
  ASSUME NEW pairs \in SUBSET (Tables \X Keys)
  PROVE  IsFiniteSet(pairs) /\ Cardinality(pairs) \in Nat
<1>1. IsFiniteSet(Tables \X Keys)
  BY DumpAssumption, FS_Product
<1>2. QED
  BY <1>1, FS_Subset, FS_CardinalityType

\* A row that comes in is one write more.
LEMMA InsertStep ==
  ASSUME DumpInv, NEW t \in Tables, NEW k \in Keys, Insert(t, k)
  PROVE  DumpInv'
<1>1. /\ writes < MaxWrites /\ writes' = writes + 1
      /\ rows' = [rows EXCEPT ![t] = @ \cup {k}]
      /\ confirm' = confirm /\ stayed' = stayed /\ stage' = stage /\ todo' = todo /\ total' = total
      /\ miscounted' = miscounted /\ cursor' = cursor /\ page' = page /\ chunk' = chunk
      /\ receiver' = receiver /\ draining' = draining /\ file' = file /\ noted' = noted
  BY DEF Insert, gen, peer, out
<1>2. rows \in [Tables -> SUBSET Keys] /\ writes \in Nat
  BY DEF DumpInv, DumpTypeOK
<1>3. DumpTypeOK'
  BY <1>1, DumpAssumption DEF DumpInv, DumpTypeOK
<1>4. StagesAgree' /\ NotYetWritten'
  BY <1>1 DEF DumpInv, StagesAgree, NotYetWritten, Running, Reading
<1>5. \A u \in Tables : Underway(u)' = Underway(u)
  BY <1>1 DEF Underway, InChunk, InPage
<1>6. \A u \in Tables : rows[u] \subseteq rows'[u] /\ rows'[u] \subseteq rows[u] \cup (IF u = t THEN {k} ELSE {})
  BY <1>1, <1>2
<1>11. Reading => Head(todo) \in Tables
  BY EmptySeq, HeadTailProperties DEF DumpInv, DumpTypeOK, StagesAgree, Reading
<1>7. Parted'
  BY <1>1, <1>5, <1>6, <1>11 DEF DumpInv, Parted, Reading
<1>8. NothingIsMissed'
  BY <1>1, <1>5, <1>11 DEF DumpInv, NothingIsMissed, Running, Reading, FileTellsWhatIsMissing, Accounted
<1>9. WithinTheGate'
  <2>1. CASE miscounted
    BY <1>1, <2>1 DEF DumpInv, WithinTheGate, PassesTheGate
  <2>2. CASE ~miscounted
    <3>1. PICK counted \in SUBSET (Tables \X Keys), added \in SUBSET (Tables \X Keys) :
            /\ Cardinality(counted) <= total /\ Cardinality(added) <= writes
            /\ \A u \in Counted : \A x \in rows[u] : <<u, x>> \in counted \cup added
            /\ \A u \in Tables : \A x \in ToSet(Underway(u)) : <<u, x>> \in counted \cup added
      BY <2>2 DEF DumpInv, WithinTheGate
    <3> DEFINE more == added \cup {<<t, k>>}
    <3>2. more \in SUBSET (Tables \X Keys)
      OBVIOUS
    <3>3. Cardinality(more) <= writes'
      <4>1. IsFiniteSet(added) /\ Cardinality(added) \in Nat
        BY PairsAreFinite
      <4>2. Cardinality(more) = IF <<t, k>> \in added THEN Cardinality(added) ELSE Cardinality(added) + 1
        BY <4>1, FS_AddElement
      <4>3. QED
        BY <1>1, <1>2, <3>1, <4>1, <4>2
    <3>4. Counted' = Counted
      BY <1>1 DEF Counted
    <3>5. ASSUME NEW u \in Counted', NEW x \in rows'[u] PROVE <<u, x>> \in counted \cup more
      <4>1. u \in Tables
        BY <3>4 DEF Counted
      <4>2. x \in rows[u] \/ (u = t /\ x = k)
        BY <1>6, <4>1
      <4>3. QED
        BY <3>1, <3>4, <4>2
    <3>6. \A u \in Tables : \A x \in ToSet(Underway(u)') : <<u, x>> \in counted \cup more
      BY <1>5, <3>1
    <3> HIDE DEF more
    <3>7. stage' \in {"listing", "counting", "refused", "failed"} \/ PassesTheGate'
      BY <1>1 DEF DumpInv, WithinTheGate, PassesTheGate
    <3>8. QED
      BY <1>1, <3>1, <3>2, <3>3, <3>5, <3>6, <3>7 DEF WithinTheGate
  <2>3. QED
    BY <2>1, <2>2
<1>10. QED
  BY <1>3, <1>4, <1>7, <1>8, <1>9 DEF DumpInv

\* A row that goes need not be in the file.
LEMMA DeleteStep ==
  ASSUME DumpInv, NEW t \in Tables, NEW k \in Keys, Delete(t, k)
  PROVE  DumpInv'
<1>1. /\ writes < MaxWrites /\ writes' = writes + 1
      /\ rows' = [rows EXCEPT ![t] = @ \ {k}] /\ stayed' = [stayed EXCEPT ![t] = @ \ {k}]
      /\ confirm' = confirm /\ stage' = stage /\ todo' = todo /\ total' = total
      /\ miscounted' = miscounted /\ cursor' = cursor /\ page' = page /\ chunk' = chunk
      /\ receiver' = receiver /\ draining' = draining /\ file' = file /\ noted' = noted
  BY DEF Delete, gen, peer, out
<1>2. /\ rows \in [Tables -> SUBSET Keys] /\ stayed \in [Tables -> SUBSET Keys] /\ writes \in Nat
      /\ todo \in Seq(Tables)
  BY DEF DumpInv, DumpTypeOK
<1>3. DumpTypeOK'
  BY <1>1, DumpAssumption DEF DumpInv, DumpTypeOK
<1>4. StagesAgree' /\ NotYetWritten'
  BY <1>1 DEF DumpInv, StagesAgree, NotYetWritten, Running, Reading
<1>5. \A u \in Tables : Underway(u)' = Underway(u)
  BY <1>1 DEF Underway, InChunk, InPage
<1>6. \A u \in Tables : /\ rows'[u] = rows[u] \ (IF u = t THEN {k} ELSE {})
                        /\ stayed'[u] = stayed[u] \ (IF u = t THEN {k} ELSE {})
  BY <1>1, <1>2
<1>7. Reading => Head(todo) \in Tables
  BY <1>2, EmptySeq, HeadTailProperties DEF DumpInv, StagesAgree, Reading
<1>8. Parted'
  BY <1>1, <1>5, <1>6, <1>7 DEF DumpInv, Parted, Reading
<1>9. NothingIsMissed'
  BY <1>1, <1>5, <1>6, <1>7 DEF DumpInv, NothingIsMissed, Running, Reading, FileTellsWhatIsMissing, Accounted
<1>10. WithinTheGate'
  <2>1. CASE miscounted
    BY <1>1, <2>1 DEF DumpInv, WithinTheGate, PassesTheGate
  <2>2. CASE ~miscounted
    <3>1. PICK counted \in SUBSET (Tables \X Keys), added \in SUBSET (Tables \X Keys) :
            /\ Cardinality(counted) <= total /\ Cardinality(added) <= writes
            /\ \A u \in Counted : \A x \in rows[u] : <<u, x>> \in counted \cup added
            /\ \A u \in Tables : \A x \in ToSet(Underway(u)) : <<u, x>> \in counted \cup added
      BY <2>2 DEF DumpInv, WithinTheGate
    <3>2. Cardinality(added) <= writes'
      BY <1>1, <1>2, <3>1, PairsAreFinite
    <3>3. ASSUME NEW u \in Counted', NEW x \in rows'[u] PROVE <<u, x>> \in counted \cup added
      <4>1. u \in Counted /\ u \in Tables
        BY <1>1 DEF Counted
      <4>2. x \in rows[u]
        BY <1>6, <4>1
      <4>3. QED
        BY <3>1, <4>1, <4>2
    <3>4. \A u \in Tables : \A x \in ToSet(Underway(u)') : <<u, x>> \in counted \cup added
      BY <1>5, <3>1
    <3>5. stage' \in {"listing", "counting", "refused", "failed"} \/ PassesTheGate'
      BY <1>1 DEF DumpInv, WithinTheGate, PassesTheGate
    <3>6. QED
      BY <1>1, <3>1, <3>2, <3>3, <3>4, <3>5 DEF WithinTheGate
  <2>3. QED
    BY <2>1, <2>2
<1>11. QED
  BY <1>3, <1>4, <1>8, <1>9, <1>10 DEF DumpInv

\* The table at the head of those to do.
LEMMA AtHead ==
  ASSUME DumpInv, todo # <<>>
  PROVE  /\ Head(todo) \in Tables /\ Tail(todo) \in Seq(Tables) /\ IsInjective(Tail(todo))
         /\ ToSet(todo) \subseteq Tables /\ Head(todo) \notin ToSet(Tail(todo))
         /\ ToSet(todo) = ToSet(Tail(todo)) \cup {Head(todo)}
<1>1. todo \in Seq(Tables) /\ IsInjective(todo)
  BY DEF DumpInv, DumpTypeOK, StagesAgree
<1>2. QED
  BY <1>1, Left, Held

\* The same after a step.
LEMMA AllInFileNext ==
  ASSUME DumpTypeOK', StagesAgree', NEW t \in Tables
  PROVE  stage' # "page" => Underway(t)' = file'[t]
<1>1. file'[t] \in Seq(Keys)
  BY DEF DumpTypeOK
<1>2. ASSUME stage' # "page" PROVE InChunk(t)' = <<>> /\ InPage(t)' = <<>>
  BY <1>2 DEF InChunk, InPage, StagesAgree
<1>3. QED
  BY <1>1, <1>2, ConcatEmptySeq DEF Underway

\* Before the file is begun all there is to keep is the gate.
LEMMA Preparing ==
  ASSUME DumpInv, stage \in {"listing", "counting"},
         stage' \in {"listing", "counting", "begin", "refused", "failed"},
         UNCHANGED <<confirm, rows, stayed, writes, cursor, page, chunk, receiver, draining, file, noted>>,
         todo' \in Seq(Tables), IsInjective(todo'), stage' # "listing",
         stage' = "begin" => ToSet(todo') = Tables,
         total' \in Nat, miscounted' \in BOOLEAN
  PROVE  /\ DumpTypeOK' /\ StagesAgree' /\ NotYetWritten' /\ Parted' /\ NothingIsMissed'
         /\ \A t \in Tables : ToSet(Underway(t)) = {} /\ ToSet(Underway(t)') = {}
<1>1. DumpTypeOK'
  BY DEF DumpInv, DumpTypeOK
<1>2. StagesAgree'
  BY DEF DumpInv, StagesAgree
<1>3. NotYetWritten'
  BY DEF DumpInv, NotYetWritten, Running
<1>4. ASSUME NEW t \in Tables PROVE Underway(t) = <<>> /\ Underway(t)' = <<>>
  <2>1. file[t] = <<>>
    BY DEF DumpInv, NotYetWritten
  <2>2. QED
    BY <1>1, <1>2, <2>1, AllInFile, AllInFileNext DEF DumpInv
<1>5. ToSet(<<>>) = {}
  BY DEF ToSet
<1>6. Parted'
  BY <1>4 DEF DumpInv, Parted, Reading
<1>7. NothingIsMissed'
  BY DEF NothingIsMissed, Running, FileTellsWhatIsMissing
<1>8. QED
  BY <1>1, <1>2, <1>3, <1>4, <1>5, <1>6, <1>7

LEMMA ListTablesStep == DumpInv /\ ListTables => DumpInv'
<1> SUFFICES ASSUME DumpInv, ListTables PROVE DumpInv'
  OBVIOUS
<1>1. /\ stage = "listing"
      /\ UNCHANGED <<confirm, rows, stayed, writes, total, miscounted, cursor, page, chunk, receiver,
                     draining, file, noted>>
      /\ \/ stage' = "counting" /\ todo' = AllTables
         \/ stage' = "failed" /\ todo' = todo
  BY DEF ListTables, db, peer, out
<1>2. todo' \in Seq(Tables) /\ IsInjective(todo') /\ ToSet(AllTables) = Tables
  BY <1>1, TablesInOrder DEF DumpInv, DumpTypeOK, StagesAgree
<1>3. total' \in Nat /\ miscounted' \in BOOLEAN
  BY <1>1 DEF DumpInv, DumpTypeOK
<1>4. /\ DumpTypeOK' /\ StagesAgree' /\ NotYetWritten' /\ Parted' /\ NothingIsMissed'
      /\ \A t \in Tables : ToSet(Underway(t)) = {} /\ ToSet(Underway(t)') = {}
  BY <1>1, <1>2, <1>3, Preparing
<1>5. Counted' \subseteq Counted
  BY <1>1, <1>2 DEF Counted
<1>6. WithinTheGate'
  BY <1>1, <1>4, <1>5, GateKept DEF DumpInv
<1>7. QED
  BY <1>4, <1>6 DEF DumpInv

LEMMA PreparedStep == DumpInv /\ Prepared => DumpInv'
<1> SUFFICES ASSUME DumpInv, Prepared PROVE DumpInv'
  OBVIOUS
<1>1. /\ stage = "counting" /\ todo = <<>>
      /\ UNCHANGED <<confirm, rows, stayed, writes, total, miscounted, cursor, page, chunk, receiver,
                     draining, file, noted>>
      /\ \/ PassesTheGate /\ stage' = "begin" /\ todo' = AllTables
         \/ stage' = "refused" /\ todo' = todo
  BY DEF Prepared, db, peer, out
<1>2. todo' \in Seq(Tables) /\ IsInjective(todo') /\ ToSet(AllTables) = Tables
  BY <1>1, TablesInOrder DEF DumpInv, DumpTypeOK, StagesAgree
<1>3. total' \in Nat /\ miscounted' \in BOOLEAN
  BY <1>1 DEF DumpInv, DumpTypeOK
<1>4. /\ DumpTypeOK' /\ StagesAgree' /\ NotYetWritten' /\ Parted' /\ NothingIsMissed'
      /\ \A t \in Tables : ToSet(Underway(t)) = {} /\ ToSet(Underway(t)') = {}
  BY <1>1, <1>2, <1>3, Preparing
<1>5. Counted' \subseteq Counted
  <2>1. ToSet(todo) = {}
    BY <1>1 DEF ToSet
  <2>2. QED
    BY <1>1, <2>1 DEF Counted
<1>6. WithinTheGate'
  BY <1>1, <1>4, <1>5, GateKept DEF DumpInv
<1>7. QED
  BY <1>4, <1>6 DEF DumpInv

\* A count that is read adds the table's rows to those counted.
LEMMA CountTableStep == DumpInv /\ CountTable => DumpInv'
<1> SUFFICES ASSUME DumpInv, CountTable PROVE DumpInv'
  OBVIOUS
<1> DEFINE h == Head(todo)
<1>1. PICK fails \in BOOLEAN :
        /\ total' = total + (IF fails THEN 0 ELSE Cardinality(rows[h]))
        /\ miscounted' = (miscounted \/ fails)
  BY DEF CountTable
<1>2. /\ stage = "counting" /\ todo # <<>> /\ todo' = Tail(todo) /\ stage' = stage
      /\ UNCHANGED <<confirm, rows, stayed, writes, cursor, page, chunk, receiver, draining, file, noted>>
  BY DEF CountTable, db, peer, out
<1>3. /\ h \in Tables /\ Tail(todo) \in Seq(Tables) /\ IsInjective(Tail(todo))
      /\ ToSet(todo) = ToSet(Tail(todo)) \cup {h}
  BY <1>2, AtHead
<1> HIDE DEF h
<1>4. rows[h] \in SUBSET Keys /\ IsFiniteSet(rows[h]) /\ Cardinality(rows[h]) \in Nat /\ total \in Nat
  <2>1. rows[h] \in SUBSET Keys /\ total \in Nat
    BY <1>3 DEF DumpInv, DumpTypeOK
  <2>2. QED
    BY <2>1, KeysAreRanked
<1>5. total' \in Nat
  BY <1>1, <1>4
<1>6. miscounted' \in BOOLEAN
  BY <1>1
<1>7. /\ DumpTypeOK' /\ StagesAgree' /\ NotYetWritten' /\ Parted' /\ NothingIsMissed'
      /\ \A t \in Tables : ToSet(Underway(t)) = {} /\ ToSet(Underway(t)') = {}
  BY <1>2, <1>3, <1>5, <1>6, Preparing
<1>8. WithinTheGate'
  <2>1. CASE miscounted'
    BY <1>2, <2>1 DEF WithinTheGate
  <2>2. CASE ~miscounted'
    <3>1. ~miscounted /\ ~fails
      BY <1>1, <2>2
    <3>2. PICK counted \in SUBSET (Tables \X Keys), added \in SUBSET (Tables \X Keys) :
            /\ Cardinality(counted) <= total /\ Cardinality(added) <= writes
            /\ \A u \in Counted : \A x \in rows[u] : <<u, x>> \in counted \cup added
      BY <3>1 DEF DumpInv, WithinTheGate
    <3> DEFINE its  == {h} \X rows[h]
               more == counted \cup its
    <3>3. more \in SUBSET (Tables \X Keys)
      BY <1>3, <1>4
    <3>4. Cardinality(more) <= total'
      <4>1. IsFiniteSet({h}) /\ Cardinality({h}) = 1
        BY FS_Singleton
      <4>2. IsFiniteSet(its) /\ Cardinality(its) = 1 * Cardinality(rows[h])
        BY <1>4, <4>1, FS_Product
      <4>3. IsFiniteSet(counted) /\ Cardinality(counted) \in Nat
        BY PairsAreFinite
      <4> HIDE DEF its
      <4>4. /\ IsFiniteSet(more)
            /\ Cardinality(more) = Cardinality(counted) + Cardinality(its) - Cardinality(counted \cap its)
        BY <4>2, <4>3, FS_Union
      <4>5. Cardinality(counted \cap its) \in Nat
        BY <4>3, FS_Subset, FS_CardinalityType
      <4>6. total' = total + Cardinality(rows[h])
        BY <1>1, <3>1
      <4> HIDE DEF more
      <4>7. QED
        BY <1>4, <3>2, <4>2, <4>3, <4>4, <4>5, <4>6
    <3>5. ASSUME NEW u \in Counted', NEW x \in rows'[u] PROVE <<u, x>> \in more \cup added
      <4>1. u \in Tables \ ToSet(Tail(todo)) /\ x \in rows[u]
        BY <1>2, <3>5 DEF Counted
      <4>2. CASE u = h
        BY <4>1, <4>2
      <4>3. CASE u # h
        <5>1. u \in Counted
          BY <1>2, <1>3, <4>1, <4>3 DEF Counted
        <5>2. QED
          BY <3>2, <4>1, <5>1
      <4>4. QED
        BY <4>2, <4>3
    <3> HIDE DEF more
    <3>6. \A t \in Tables : \A x \in ToSet(Underway(t)') : <<t, x>> \in more \cup added
      BY <1>7
    <3>7. Cardinality(added) <= writes' /\ stage' \in {"listing", "counting", "refused", "failed"}
      BY <1>2, <3>2
    <3>8. QED
      BY <3>3, <3>4, <3>5, <3>6, <3>7 DEF WithinTheGate
  <2>3. QED
    BY <2>1, <2>2
<1>9. QED
  BY <1>7, <1>8 DEF DumpInv

\* Outside a page nothing gets underway.
LEMMA Quiet ==
  ASSUME DumpInv, DumpTypeOK', StagesAgree', stage # "page", stage' # "page", file' = file
  PROVE  \A t \in Tables : Underway(t) = file[t] /\ Underway(t)' = file[t]
  BY AllInFile, AllInFileNext DEF DumpInv

LEMMA BeginStep == DumpInv /\ Begin => DumpInv'
<1> SUFFICES ASSUME DumpInv, Begin PROVE DumpInv'
  OBVIOUS
<1>1. /\ stage = "begin" /\ chunk' = [kind |-> "text"] /\ stage' = "ddl"
      /\ UNCHANGED <<confirm, rows, stayed, writes, todo, total, miscounted, cursor, page, receiver,
                     draining, file, noted>>
  BY DEF Begin, Pulled, db, peer, out
<1>2. DumpTypeOK'
  BY <1>1 DEF DumpInv, DumpTypeOK, Chunk
<1>3. StagesAgree'
  BY <1>1 DEF DumpInv, StagesAgree
<1>4. NotYetWritten'
  <2>1. \A t \in Tables : file'[t] = <<>>
    BY <1>1 DEF DumpInv, NotYetWritten
  <2>2. ToSet(todo') \subseteq Tables
    BY <1>1 DEF DumpInv, StagesAgree
  <2>3. QED
    BY <1>1, <2>1, <2>2 DEF NotYetWritten
<1>5. \A t \in Tables : Underway(t) = file[t] /\ Underway(t)' = file[t]
  BY <1>1, <1>2, <1>3, Quiet
<1>6. Parted'
  BY <1>1, <1>5 DEF DumpInv, Parted, Reading
<1>7. NothingIsMissed'
  BY <1>1 DEF DumpInv, StagesAgree, NothingIsMissed, Running, FileTellsWhatIsMissing
<1>8. WithinTheGate'
  <2>1. Counted' \subseteq Counted
    BY <1>1 DEF Counted
  <2>2. PassesTheGate
    BY <1>1 DEF DumpInv, WithinTheGate
  <2>3. QED
    BY <1>1, <1>5, <2>1, <2>2, GateKept DEF DumpInv
<1>9. QED
  BY <1>2, <1>3, <1>4, <1>6, <1>7, <1>8 DEF DumpInv

LEMMA TableDdlStep == DumpInv /\ TableDdl => DumpInv'
<1> SUFFICES ASSUME DumpInv, TableDdl PROVE DumpInv'
  OBVIOUS
<1>1. /\ stage = "ddl" /\ todo # <<>> /\ chunk = None /\ chunk' = [kind |-> "text"] /\ stage' = "describe"
      /\ UNCHANGED <<confirm, rows, stayed, writes, todo, total, miscounted, cursor, page, receiver,
                     draining, file, noted>>
  BY DEF TableDdl, Pulled, db, peer, out
<1>2. DumpTypeOK'
  BY <1>1 DEF DumpInv, DumpTypeOK, Chunk
<1>3. StagesAgree'
  BY <1>1 DEF DumpInv, StagesAgree
<1>4. NotYetWritten'
  BY <1>1 DEF DumpInv, NotYetWritten, Running, Reading
<1>5. \A t \in Tables : Underway(t) = file[t] /\ Underway(t)' = file[t]
  BY <1>1, <1>2, <1>3, Quiet
<1>6. Parted'
  BY <1>1, <1>5 DEF DumpInv, Parted, Reading
<1>7. NothingIsMissed'
  <2>1. \A t \in Tables : chunk # NoteFor(t)
    BY <1>1, DumpAssumption DEF NoteFor, Chunk
  <2>2. ASSUME NEW t \in Tables \ ToSet(todo) PROVE Accounted(t)'
    <3>1. Accounted(t)
      BY <1>1 DEF DumpInv, NothingIsMissed, Running
    <3>2. QED
      BY <1>1, <1>5, <2>1, <3>1 DEF Accounted
  <2>3. QED
    BY <1>1, <2>2 DEF NothingIsMissed, FileTellsWhatIsMissing
<1>8. WithinTheGate'
  <2>1. Counted' \subseteq Counted
    BY <1>1 DEF Counted
  <2>2. PassesTheGate
    BY <1>1 DEF DumpInv, WithinTheGate
  <2>3. QED
    BY <1>1, <1>5, <2>1, <2>2, GateKept DEF DumpInv
<1>9. QED
  BY <1>2, <1>3, <1>4, <1>6, <1>7, <1>8 DEF DumpInv

\* Reading begins before the first key.
LEMMA DescribeStep == DumpInv /\ Describe => DumpInv'
<1> SUFFICES ASSUME DumpInv, Describe PROVE DumpInv'
  OBVIOUS
<1>1. /\ stage = "describe" /\ chunk = None /\ draining = FALSE /\ stage' = "read"
      /\ UNCHANGED <<confirm, rows, stayed, writes, todo, total, miscounted, cursor, page, chunk, receiver,
                     draining, file, noted>>
  BY DEF Describe, Pulled, db, peer, out, DumpInv, DumpTypeOK
<1>2. DumpTypeOK'
  BY <1>1 DEF DumpInv, DumpTypeOK
<1>3. StagesAgree'
  BY <1>1 DEF DumpInv, StagesAgree
<1>4. todo # <<>> /\ cursor = 0
  BY <1>1 DEF DumpInv, StagesAgree
<1>5. /\ Head(todo) \in Tables /\ Head(todo) \in ToSet(todo)
  BY <1>4, AtHead
<1>6. file[Head(todo)] = <<>>
  BY <1>1, <1>5 DEF DumpInv, NotYetWritten, Running, Reading
<1>7. NotYetWritten'
  BY <1>1, <1>6 DEF DumpInv, NotYetWritten, Running, Reading
<1>8. \A t \in Tables : Underway(t) = file[t] /\ Underway(t)' = file[t]
  BY <1>1, <1>2, <1>3, Quiet
<1>9. Parted'
  <2>1. ToSet(file[Head(todo)]) = {}
    BY <1>6 DEF ToSet
  <2>2. \A k \in stayed[Head(todo)] : ~(k <= 0)
    <3>1. stayed[Head(todo)] \subseteq Nat \ {0}
      BY <1>5, DumpAssumption DEF DumpInv, DumpTypeOK
    <3>2. QED
      BY <3>1
  <2>3. QED
    BY <1>1, <1>4, <1>5, <1>8, <2>1, <2>2 DEF DumpInv, Parted
<1>10. NothingIsMissed'
  BY <1>1, <1>8 DEF DumpInv, NothingIsMissed, Running, FileTellsWhatIsMissing, Accounted
<1>11. WithinTheGate'
  <2>1. Counted' \subseteq Counted
    BY <1>1 DEF Counted
  <2>2. PassesTheGate
    BY <1>1 DEF DumpInv, WithinTheGate
  <2>3. QED
    BY <1>1, <1>8, <2>1, <2>2, GateKept DEF DumpInv
<1>12. QED
  BY <1>2, <1>3, <1>7, <1>9, <1>10, <1>11 DEF DumpInv

\* Done with a table that is accounted for.
LEMMA LeaveStep ==
  ASSUME DumpInv, Leave, stage \in {"ddl", "describe", "read", "page"}, todo # <<>>,
         stage = "page" => page.rest = <<>>,
         chunk = None, draining = FALSE, chunk' \in {None, NoteFor(Head(todo))},
         UNCHANGED <<confirm, rows, stayed, writes, total, miscounted, receiver, draining, file, noted>>,
         \/ chunk' = NoteFor(Head(todo))
         \/ stayed[Head(todo)] \subseteq ToSet(Underway(Head(todo)))
  PROVE  DumpInv'
<1>1. todo' = Tail(todo) /\ cursor' = 0 /\ page' = None /\ stage' = "ddl"
  BY DEF Leave
<1> DEFINE h == Head(todo)
<1>2. /\ h \in Tables /\ Tail(todo) \in Seq(Tables) /\ IsInjective(Tail(todo))
      /\ h \notin ToSet(Tail(todo)) /\ ToSet(todo) = ToSet(Tail(todo)) \cup {h}
  BY AtHead
<1>3. NoteFor(h) \in Chunk /\ NoteFor(h).kind = "note"
  BY <1>2 DEF NoteFor, Chunk
<1>4. DumpTypeOK'
  BY <1>1, <1>2, <1>3 DEF DumpInv, DumpTypeOK
<1>5. StagesAgree'
  BY <1>1, <1>2, <1>3 DEF DumpInv, StagesAgree
<1>6. NotYetWritten'
  BY <1>1, <1>2 DEF DumpInv, NotYetWritten, Running, Reading
<1>7. ASSUME NEW t \in Tables PROVE Underway(t) = file[t] /\ Underway(t)' = file[t]
  <2>1. Underway(t)' = file[t]
    BY <1>1, <1>4, <1>5, AllInFileNext
  <2>2. file[t] \in Seq(Keys)
    BY DEF DumpInv, DumpTypeOK
  <2>3. InChunk(t) = <<>> /\ InPage(t) = <<>>
    BY DEF InChunk, InPage
  <2>4. QED
    BY <2>1, <2>2, <2>3, ConcatEmptySeq DEF Underway
<1>8. Parted'
  BY <1>1, <1>7 DEF DumpInv, Parted, Reading
<1>9. NothingIsMissed'
  <2>1. \A t \in Tables : chunk # NoteFor(t)
    BY DumpAssumption DEF NoteFor, Chunk
  <2>2. ASSUME NEW t \in Tables \ ToSet(todo') PROVE Accounted(t)'
    <3>1. CASE t = h
      BY <1>2, <1>7, <3>1 DEF Accounted, NoteFor
    <3>2. CASE t # h
      <4>1. Accounted(t)
        BY <1>1, <1>2, <2>2, <3>2 DEF DumpInv, NothingIsMissed, Running
      <4>2. QED
        BY <1>7, <2>1, <4>1 DEF Accounted
    <3>3. QED
      BY <3>1, <3>2
  <2>3. QED
    BY <1>1, <2>2 DEF NothingIsMissed, FileTellsWhatIsMissing
<1>10. WithinTheGate'
  <2>1. Counted' \subseteq Counted
    BY <1>1 DEF Counted
  <2>2. PassesTheGate
    BY DEF DumpInv, WithinTheGate
  <2>3. QED
    BY <1>1, <1>7, <2>1, <2>2, GateKept DEF DumpInv
<1>11. QED
  BY <1>4, <1>5, <1>6, <1>8, <1>9, <1>10 DEF DumpInv

LEMMA TableFailsStep == DumpInv /\ TableFails => DumpInv'
<1> SUFFICES ASSUME DumpInv, TableFails PROVE DumpInv'
  OBVIOUS
<1>1. /\ stage \in {"ddl", "describe", "read"} /\ chunk = None /\ draining = FALSE
      /\ todo # <<>> /\ Leave /\ chunk' = NoteFor(Head(todo))
      /\ UNCHANGED <<confirm, rows, stayed, writes, total, miscounted, receiver, draining, file, noted>>
  BY DEF TableFails, Pulled, db, peer, out, DumpInv, DumpTypeOK
<1>2. QED
  BY <1>1, LeaveStep

\* A page holds rows that were there and that the file has not.
LEMMA ReadPageStep == DumpInv /\ ReadPage => DumpInv'
<1> SUFFICES ASSUME DumpInv, ReadPage PROVE DumpInv'
  OBVIOUS
<1>0. stage = "read" /\ todo # <<>>
  BY DEF ReadPage, Pulled, DumpInv, StagesAgree
<1>2. PICK h \in Tables : h = Head(todo) /\ h \in ToSet(todo)
  BY <1>0, AtHead
<1>3. cursor \in Nat /\ \A k \in rows[h] : k \in Nat
  <2>1. Keys \subseteq Nat
    BY DumpAssumption
  <2>2. cursor \in Keys \cup {0} /\ rows[h] \subseteq Keys
    BY DEF DumpInv, DumpTypeOK
  <2>3. cursor \in Nat
    BY <2>1, <2>2
  <2>4. \A k \in rows[h] : k \in Nat
    BY <2>1, <2>2
  <2>5. QED
    BY <2>3, <2>4
<1> DEFINE read == FirstOf(FromTheCursor(h), PageRows)
           set  == IF h \in Keyed THEN {k \in rows[h] : k > cursor} ELSE rows[h]
<1>1. /\ stage = "read" /\ chunk = None /\ draining = FALSE
      /\ UNCHANGED <<confirm, rows, stayed, writes, total, miscounted, chunk, receiver, draining, file, noted>>
      /\ IF read = <<>>
         THEN Leave
         ELSE /\ page' = [rest |-> read, full |-> Len(read) = PageRows]
              /\ cursor' = Last(read) /\ stage' = "page" /\ todo' = todo
  BY <1>2 DEF ReadPage, Pulled, db, peer, out, DumpInv, DumpTypeOK
<1>4. /\ set \in SUBSET Keys /\ set \subseteq rows[h] /\ rows[h] \subseteq Keys /\ stayed[h] \subseteq rows[h]
      /\ cursor \in Keys \cup {0} /\ Keys \subseteq Nat \ {0}
  BY DumpAssumption DEF DumpInv, DumpTypeOK, Parted
<1>5. read = FirstOf(Ascending(set), PageRows) /\ set \in SUBSET Keys
  BY <1>4 DEF FromTheCursor
<1> HIDE DEF read, set
<1>6. /\ read \in Seq(Keys) /\ IsInjective(read) /\ ToSet(read) \subseteq set
      /\ read = <<>> => set = {}
      /\ read # <<>> => /\ Last(read) \in set
                        /\ \A k \in ToSet(read) : k <= Last(read)
                        /\ \A k \in set : k <= Last(read) => k \in ToSet(read)
      /\ Len(read) # PageRows => ToSet(read) = set
  BY <1>5, PageFields
<1>7. \A t \in Tables : Underway(t) = file[t] /\ file[t] \in Seq(Keys) /\ IsInjective(file[t])
  <2>1. ASSUME NEW t \in Tables PROVE Underway(t) = file[t]
    BY <1>1, AllInFile DEF DumpInv
  <2>2. QED
    BY <2>1 DEF DumpInv, DumpTypeOK, Parted
\* A row that was there all along has been told or is among those read from.
<1>8. ASSUME NEW k \in stayed[h], k \notin ToSet(file[h]) PROVE k \in set
  <2>1. CASE h \in Keyed
    <3>1. ~(k <= cursor)
      BY <1>1, <1>2, <1>7, <1>8, <2>1 DEF DumpInv, Parted, Reading
    <3>2. k \in rows[h] /\ k \in Nat /\ cursor \in Nat
      BY <1>3, <1>4
    <3>3. k > cursor
      BY <3>1, <3>2
    <3>4. QED
      BY <2>1, <3>2, <3>3 DEF set
  <2>2. CASE h \notin Keyed
    BY <1>4, <2>2 DEF set
  <2>3. QED
    BY <2>1, <2>2
<1>9. ToSet(file[h]) \cap ToSet(read) = {}
  <2>1. CASE h \in Keyed
    <3>1. \A k \in ToSet(file[h]) : k <= cursor
      BY <1>1, <1>2, <1>7, <2>1 DEF DumpInv, Parted, Reading
    <3>2. \A k \in set : k > cursor /\ k \in Nat
      BY <1>4, <2>1 DEF set
    <3>3. cursor \in Nat
      BY <1>4
    <3>4. ASSUME NEW k \in ToSet(file[h]), k \in ToSet(read) PROVE FALSE
      <4>1. k \in Nat /\ k > cursor /\ k <= cursor
        BY <1>6, <3>1, <3>2, <3>4
      <4>2. QED
        BY <3>3, <4>1
    <3>5. QED
      BY <3>4
  <2>2. CASE h \notin Keyed
    <3>1. file[h] = <<>>
      BY <1>1, <1>2, <2>2 DEF DumpInv, NotYetWritten
    <3>2. QED
      BY <3>1 DEF ToSet
  <2>3. QED
    BY <2>1, <2>2
<1>10. CASE read = <<>>
  <2>1. stayed[h] \subseteq ToSet(Underway(h))
    BY <1>6, <1>7, <1>8, <1>10
  <2>2. QED
    BY <1>0, <1>1, <1>2, <1>10, <2>1, LeaveStep
<1>11. CASE read # <<>>
  <2>1. /\ page' = [rest |-> read, full |-> Len(read) = PageRows]
        /\ cursor' = Last(read) /\ stage' = "page" /\ todo' = todo
    BY <1>1, <1>11
  <2>12. page' \in [rest: Seq(Keys), full: BOOLEAN]
    BY <1>6, <2>1
  <2>2. DumpTypeOK'
    <3>2. cursor' \in Keys
      BY <1>4, <1>6, <1>11, <2>1
    <3>3. QED
      BY <1>1, <2>1, <2>12, <3>2 DEF DumpInv, DumpTypeOK
  <2>3. StagesAgree'
    <3>1. page' # None
      BY <2>12, DumpAssumption
    <3>2. QED
      BY <1>0, <1>1, <1>2, <2>1, <3>1 DEF DumpInv, StagesAgree
  <2>4. NotYetWritten'
    BY <1>1, <2>1 DEF DumpInv, NotYetWritten, Running, Reading
  <2>5. \A t \in Tables : t # h => Underway(t)' = file[t]
    <3>1. ASSUME NEW t \in Tables, t # h PROVE InChunk(t)' = <<>> /\ InPage(t)' = <<>>
      BY <1>1, <1>2, <2>1, <3>1 DEF InChunk, InPage
    <3>2. QED
      BY <1>1, <1>7, <3>1, ConcatEmptySeq DEF Underway
  <2>6. Underway(h)' = file[h] \o read
    <3>1. InChunk(h)' = <<>> /\ InPage(h)' = read
      BY <1>1, <1>2, <2>1 DEF InChunk, InPage
    <3>2. file'[h] = file[h] /\ file[h] \o <<>> = file[h]
      BY <1>1, <1>7, ConcatEmptySeq
    <3>3. QED
      BY <3>1, <3>2 DEF Underway
  <2>7. /\ ToSet(Underway(h)') = ToSet(file[h]) \cup ToSet(read)
        /\ IsInjective(Underway(h)')
    BY <1>6, <1>7, <1>9, <2>6, Joined
  <2>8. Parted'
    <3>1. ASSUME NEW t \in Tables PROVE IsInjective(Underway(t)') /\ stayed'[t] \subseteq rows'[t]
      <4>1. stayed'[t] \subseteq rows'[t]
        BY <1>1 DEF DumpInv, Parted
      <4>2. CASE t = h
        BY <2>7, <4>1, <4>2
      <4>3. CASE t # h
        BY <1>7, <2>5, <4>1, <4>3
      <4>4. QED
        BY <4>2, <4>3
    <3>2. ASSUME h \in Keyed, NEW k \in ToSet(Underway(h)') PROVE k <= Last(read)
      <4>1. CASE k \in ToSet(read)
        BY <1>6, <1>11, <4>1
      <4>2. CASE k \in ToSet(file[h])
        <5>1. k <= cursor
          BY <1>1, <1>2, <1>7, <3>2, <4>2 DEF DumpInv, Parted, Reading
        <5>2. Last(read) > cursor /\ Last(read) \in Nat
          BY <1>4, <1>6, <1>11, <3>2 DEF set
        <5>3. k \in Nat /\ cursor \in Nat
          <6>1. ToSet(file[h]) \subseteq Keys
            BY <1>7, Held
          <6>2. Keys \subseteq Nat
            BY DumpAssumption
          <6>3. QED
            BY <1>3, <4>2, <6>1, <6>2
        <5>4. QED
          BY <5>1, <5>2, <5>3
      <4>3. QED
        BY <2>7, <3>2, <4>1, <4>2
    <3>3. ASSUME h \in Keyed, NEW k \in stayed[h], k <= Last(read) PROVE k \in ToSet(Underway(h)')
      BY <1>6, <1>8, <1>11, <2>7, <3>3
    <3>4. Head(todo') = h /\ cursor' = Last(read) /\ stayed' = stayed
      BY <1>1, <1>2, <2>1
    <3>5. QED
      BY <3>1, <3>2, <3>3, <3>4 DEF Parted
  <2>9. NothingIsMissed'
    <3>1. ASSUME NEW t \in Tables \ ToSet(todo') PROVE Accounted(t)'
      <4>1. Accounted(t) /\ t # h
        BY <1>1, <1>2, <2>1 DEF DumpInv, NothingIsMissed, Running
      <4>2. Underway(t)' = Underway(t)
        BY <1>7, <2>5, <4>1
      <4>3. QED
        BY <1>1, <4>1, <4>2 DEF Accounted, NoteFor
    <3>2. page'.full \/ stayed'[h] \subseteq ToSet(Underway(h)')
      BY <1>1, <1>6, <1>8, <2>1, <2>7
    <3>3. QED
      BY <1>2, <2>1, <3>1, <3>2 DEF NothingIsMissed, FileTellsWhatIsMissing
  <2>10. WithinTheGate'
    <3>1. Counted' \subseteq Counted /\ Counted = Tables
      BY <1>1, <2>1 DEF Counted
    <3>2. PassesTheGate
      BY <1>1 DEF DumpInv, WithinTheGate
    <3>3. ASSUME NEW t \in Tables, NEW k \in ToSet(Underway(t)')
          PROVE  k \in ToSet(Underway(t)) \/ (t \in Counted /\ k \in rows[t])
      BY <1>4, <1>6, <1>7, <2>5, <2>7, <3>1
    <3>4. QED
      BY <1>1, <3>1, <3>2, <3>3, GateKept DEF DumpInv
  <2>11. QED
    BY <2>2, <2>3, <2>4, <2>8, <2>9, <2>10 DEF DumpInv
<1>12. QED
  BY <1>10, <1>11

\* A batch is what comes first of what is left of the page.
LEMMA YieldBatchStep == DumpInv /\ YieldBatch => DumpInv'
<1> SUFFICES ASSUME DumpInv, YieldBatch PROVE DumpInv'
  OBVIOUS
<1> DEFINE h     == Head(todo)
           batch == FirstOf(page.rest, BatchRows)
           rest  == SubSeq(page.rest, BatchRows + 1, Len(page.rest))
<1>1. /\ stage = "page" /\ chunk = None /\ draining = FALSE
      /\ chunk' = [kind |-> "insert", table |-> h, rows |-> batch]
      /\ page' = [page EXCEPT !.rest = rest]
      /\ UNCHANGED <<confirm, rows, stayed, writes, stage, todo, total, miscounted, cursor, receiver,
                     draining, file, noted>>
  BY DEF YieldBatch, Pulled, db, peer, out, DumpInv, DumpTypeOK
<1>2. page \in [rest: Seq(Keys), full: BOOLEAN] /\ todo # <<>>
  BY <1>1 DEF DumpInv, DumpTypeOK, StagesAgree
<1>3. h \in Tables
  BY <1>2, AtHead
<1>4. page.rest \in Seq(Keys) /\ batch \in Seq(Keys) /\ rest \in Seq(Keys) /\ batch \o rest = page.rest
  <2>1. page.rest \in Seq(Keys)
    BY <1>2
  <2>2. QED
    BY <2>1, Cut, DumpAssumption
<1> HIDE DEF rest, batch
<1>5. page' \in [rest: Seq(Keys), full: BOOLEAN] /\ page'.rest = rest /\ page'.full = page.full
  BY <1>1, <1>2, <1>4
<1>6. chunk' \in Chunk /\ chunk'.kind = "insert" /\ chunk'.table = h /\ chunk'.rows = batch
  BY <1>1, <1>3, <1>4 DEF Chunk
<1>7. chunk' # None /\ page' # None
  BY <1>5, <1>6, DumpAssumption
<1>8. DumpTypeOK'
  BY <1>1, <1>5, <1>6 DEF DumpInv, DumpTypeOK
<1>9. StagesAgree'
  BY <1>1, <1>6, <1>7 DEF DumpInv, StagesAgree
<1>10. NotYetWritten'
  BY <1>1 DEF DumpInv, NotYetWritten, Running, Reading
<1>11. ASSUME NEW t \in Tables PROVE Underway(t)' = Underway(t)
  <2>1. file[t] \in Seq(Keys) /\ file' = file
    BY <1>1 DEF DumpInv, DumpTypeOK
  <2>2. CASE t = h
    <3>1. InChunk(t) = <<>> /\ InPage(t) = page.rest
      BY <1>1, <2>2 DEF InChunk, InPage
    <3>2. InChunk(t)' = batch /\ InPage(t)' = rest
      BY <1>1, <1>5, <1>6, <1>7, <2>2 DEF InChunk, InPage
    <3>3. Underway(t)' = (file[t] \o batch) \o rest /\ Underway(t) = (file[t] \o <<>>) \o page.rest
      BY <2>1, <3>1, <3>2 DEF Underway
    <3>4. (file[t] \o batch) \o rest = file[t] \o (batch \o rest)
      <4>1. batch \in Seq(Keys) /\ rest \in Seq(Keys) /\ file[t] \in Seq(Keys)
        BY <1>4, <2>1
      <4>2. \A a, b, c \in Seq(Keys) : (a \o b) \o c = a \o (b \o c)
        BY Regrouped
      <4>3. QED
        BY <4>1, <4>2, Zenon
    <3>5. file[t] \o <<>> = file[t]
      BY <2>1, ConcatEmptySeq
    <3>6. QED
      BY <1>4, <3>3, <3>4, <3>5
  <2>3. CASE t # h
    <3>1. InChunk(t) = <<>> /\ InPage(t) = <<>>
      BY <1>1, <2>3 DEF InChunk, InPage
    <3>2. InChunk(t)' = <<>> /\ InPage(t)' = <<>>
      BY <1>1, <1>6, <2>3 DEF InChunk, InPage
    <3>3. QED
      BY <2>1, <3>1, <3>2 DEF Underway
  <2>4. QED
    BY <2>2, <2>3
<1>12. Parted'
  BY <1>1, <1>3, <1>11 DEF DumpInv, Parted, Reading
<1>13. NothingIsMissed'
  <2>1. \A t \in Tables : chunk # NoteFor(t)
    BY <1>1, DumpAssumption DEF NoteFor, Chunk
  <2>2. ASSUME NEW t \in Tables \ ToSet(todo') PROVE Accounted(t)'
    <3>1. Accounted(t)
      BY <1>1 DEF DumpInv, NothingIsMissed, Running
    <3>2. QED
      BY <1>1, <1>11, <2>1, <3>1 DEF Accounted
  <2>3. page'.full \/ stayed'[h] \subseteq ToSet(Underway(h)')
    BY <1>1, <1>3, <1>5, <1>11 DEF DumpInv, NothingIsMissed
  <2>4. QED
    BY <1>1, <2>2, <2>3 DEF NothingIsMissed, FileTellsWhatIsMissing
<1>14. WithinTheGate'
  <2>1. Counted' \subseteq Counted
    BY <1>1 DEF Counted
  <2>2. PassesTheGate
    BY <1>1 DEF DumpInv, WithinTheGate
  <2>3. QED
    BY <1>1, <1>11, <2>1, <2>2, GateKept DEF DumpInv
<1>15. QED
  BY <1>8, <1>9, <1>10, <1>12, <1>13, <1>14 DEF DumpInv

\* A page told whole: the table is done with, or the next one follows.
LEMMA PageDoneStep == DumpInv /\ PageDone => DumpInv'
<1> SUFFICES ASSUME DumpInv, PageDone PROVE DumpInv'
  OBVIOUS
<1> DEFINE h == Head(todo)
<1>1. /\ stage = "page" /\ chunk = None /\ draining = FALSE /\ page.rest = <<>>
      /\ UNCHANGED <<confirm, rows, stayed, writes, total, miscounted, receiver, draining, file, noted>>
  BY DEF PageDone, Pulled, db, peer, out, DumpInv, DumpTypeOK
<1>2. todo # <<>>
  BY <1>1 DEF DumpInv, StagesAgree
<1>3. h \in Tables
  BY <1>2, AtHead
<1>4. page.full \/ stayed[h] \subseteq ToSet(Underway(h))
  BY <1>1 DEF DumpInv, NothingIsMissed
<1>5. CASE h \notin Keyed /\ SaysTruncated /\ Leave
  <2>1. chunk' \in {None, NoteFor(h)} /\ (page.full => chunk' = NoteFor(h))
    BY <1>5 DEF SaysTruncated
  <2>2. QED
    BY <1>1, <1>2, <1>4, <1>5, <2>1, LeaveStep
<1>6. CASE h \in Keyed /\ ~GoesOn /\ Leave /\ chunk' = chunk
  BY <1>1, <1>2, <1>4, <1>6, LeaveStep DEF GoesOn
<1>7. CASE /\ h \in Keyed /\ stage' = "read" /\ page' = None
           /\ todo' = todo /\ cursor' = cursor /\ chunk' = chunk
  <2>1. DumpTypeOK'
    BY <1>1, <1>7 DEF DumpInv, DumpTypeOK
  <2>2. StagesAgree'
    BY <1>1, <1>2, <1>7 DEF DumpInv, StagesAgree
  <2>3. NotYetWritten'
    BY <1>1, <1>7 DEF DumpInv, NotYetWritten, Running, Reading
  <2>4. ASSUME NEW t \in Tables PROVE Underway(t) = file[t] /\ Underway(t)' = file[t]
    <3>1. Underway(t)' = file[t]
      BY <1>1, <1>7, <2>1, <2>2, AllInFileNext
    <3>2. file[t] \in Seq(Keys) /\ InChunk(t) = <<>> /\ InPage(t) = <<>>
      BY <1>1 DEF InChunk, InPage, DumpInv, DumpTypeOK
    <3>3. QED
      BY <3>1, <3>2, ConcatEmptySeq DEF Underway
  <2>5. Parted'
    BY <1>1, <1>3, <1>7, <2>4 DEF DumpInv, Parted, Reading
  <2>6. NothingIsMissed'
    BY <1>1, <1>7, <2>4 DEF DumpInv, NothingIsMissed, Running, FileTellsWhatIsMissing, Accounted, NoteFor
  <2>7. WithinTheGate'
    <3>1. Counted' \subseteq Counted
      BY <1>1, <1>7 DEF Counted
    <3>2. PassesTheGate
      BY <1>1 DEF DumpInv, WithinTheGate
    <3>3. QED
      BY <1>1, <2>4, <3>1, <3>2, GateKept DEF DumpInv
  <2>8. QED
    BY <2>1, <2>2, <2>3, <2>5, <2>6, <2>7 DEF DumpInv
<1>8. QED
  BY <1>5, <1>6, <1>7 DEF PageDone

\* What is not written never was, and what is written stays.
LEMMA StoppedStep ==
  ASSUME DumpInv, stage \in {"page", "ddl", "describe", "aborting"},
         stage' \in {"aborting", "ended", "torn"},
         chunk' = None, draining' = FALSE, noted \subseteq noted', noted' \subseteq Tables,
         UNCHANGED <<confirm, rows, stayed, writes, todo, total, miscounted, cursor, page, receiver, file>>,
         FileTellsWhatIsMissing'
  PROVE  DumpInv'
<1>1. DumpTypeOK'
  BY DEF DumpInv, DumpTypeOK
<1>2. StagesAgree'
  BY DEF DumpInv, StagesAgree
<1>3. NotYetWritten'
  BY DEF NotYetWritten, Running
<1>4. ASSUME NEW t \in Tables
      PROVE  Underway(t)' = file[t] /\ IsInjective(file[t]) /\ ToSet(file[t]) \subseteq ToSet(Underway(t))
  <2>1. Underway(t)' = file[t]
    BY <1>1, <1>2, AllInFileNext
  <2>2. IsInjective(Underway(t))
    BY DEF DumpInv, Parted
  <2>3. QED
    BY <2>1, <2>2, UnderwayTypes DEF DumpInv
<1>5. Parted'
  BY <1>4 DEF DumpInv, Parted, Reading
<1>6. NothingIsMissed'
  BY DEF NothingIsMissed, Running
<1>7. WithinTheGate'
  <2>1. Counted' \subseteq Counted
    BY DEF Counted
  <2>2. PassesTheGate
    BY DEF DumpInv, WithinTheGate
  <2>3. QED
    BY <1>4, <2>1, <2>2, GateKept DEF DumpInv
<1>8. QED
  BY <1>1, <1>2, <1>3, <1>5, <1>6, <1>7 DEF DumpInv

LEMMA RunDiesStep == DumpInv /\ RunDies => DumpInv'
<1> SUFFICES ASSUME DumpInv, RunDies PROVE DumpInv'
  OBVIOUS
<1>1. /\ stage = "page" /\ stage' = "aborting" /\ chunk' = None /\ draining' = FALSE
      /\ UNCHANGED <<confirm, rows, stayed, writes, todo, total, miscounted, cursor, page, receiver, file, noted>>
  BY DEF RunDies, Pulled, db, peer, out, DumpInv, DumpTypeOK
<1>2. noted \subseteq Tables
  BY DEF DumpInv, DumpTypeOK
<1>3. QED
  BY <1>1, <1>2, StoppedStep DEF FileTellsWhatIsMissing

LEMMA TornStep == DumpInv /\ Torn => DumpInv'
<1> SUFFICES ASSUME DumpInv, Torn PROVE DumpInv'
  OBVIOUS
<1>1. /\ stage' = "torn" /\ chunk' = None /\ draining' = FALSE
      /\ UNCHANGED <<confirm, rows, stayed, writes, todo, total, miscounted, cursor, page, receiver, file, noted>>
  BY DEF Torn, db, out
<1>2. noted \subseteq Tables /\ stage \in {"ddl", "describe", "page"}
  BY DEF Torn, NobodyReads, DumpInv, DumpTypeOK, StagesAgree
<1>3. QED
  BY <1>1, <1>2, StoppedStep DEF FileTellsWhatIsMissing

LEMMA AbortedStep == DumpInv /\ Aborted => DumpInv'
<1> SUFFICES ASSUME DumpInv, Aborted PROVE DumpInv'
  OBVIOUS
<1>1. /\ stage = "aborting" /\ stage' = "ended" /\ receiver' = receiver
      /\ noted' = IF receiver = "there" THEN Tables ELSE noted
      /\ UNCHANGED <<confirm, rows, stayed, writes, todo, total, miscounted, cursor, page, chunk, draining, file>>
  BY DEF Aborted, db, peer
<1>2. noted \subseteq Tables /\ chunk = None /\ draining = FALSE
  BY <1>1 DEF DumpInv, DumpTypeOK, StagesAgree
<1>3. FileTellsWhatIsMissing'
  BY <1>1 DEF FileTellsWhatIsMissing
<1>4. QED
  BY <1>1, <1>2, <1>3, StoppedStep

\* Nothing left to do: every table is accounted for.
LEMMA EndedStep == DumpInv /\ Ended => DumpInv'
<1> SUFFICES ASSUME DumpInv, Ended PROVE DumpInv'
  OBVIOUS
<1>1. /\ stage = "ddl" /\ stage' = "ended" /\ todo = <<>> /\ chunk = None /\ draining = FALSE
      /\ UNCHANGED <<confirm, rows, stayed, writes, todo, total, miscounted, cursor, page, chunk, receiver,
                     draining, file, noted>>
  BY DEF Ended, Pulled, db, peer, out, DumpInv, DumpTypeOK
<1>2. noted \subseteq Tables
  BY DEF DumpInv, DumpTypeOK
<1>3. FileTellsWhatIsMissing'
  <2>1. ToSet(todo) = {}
    BY <1>1 DEF ToSet
  <2>2. ASSUME NEW t \in Tables PROVE t \in noted \/ stayed[t] \subseteq ToSet(file[t])
    <3>1. Accounted(t)
      BY <1>1, <2>1 DEF DumpInv, NothingIsMissed, Running
    <3>2. chunk # NoteFor(t)
      BY <1>1, DumpAssumption DEF NoteFor, Chunk
    <3>3. Underway(t) = file[t]
      BY <1>1, AllInFile DEF DumpInv
    <3>4. QED
      BY <3>1, <3>2, <3>3 DEF Accounted
  <2>3. QED
    BY <1>1, <2>2 DEF FileTellsWhatIsMissing
<1>4. QED
  BY <1>1, <1>2, <1>3, StoppedStep

\* A chunk that is written moves to the file.
LEMMA WriteChunkStep == DumpInv /\ WriteChunk => DumpInv'
<1> SUFFICES ASSUME DumpInv, WriteChunk PROVE DumpInv'
  OBVIOUS
<1>1. /\ chunk # None /\ chunk' = None /\ draining' \in BOOLEAN
      /\ file' = IF chunk.kind = "insert" THEN [file EXCEPT ![chunk.table] = @ \o chunk.rows] ELSE file
      /\ noted' = IF chunk.kind = "note" THEN noted \cup {chunk.table} ELSE noted
      /\ UNCHANGED <<confirm, rows, stayed, writes, stage, todo, total, miscounted, cursor, page, receiver>>
  BY DEF WriteChunk, Written, db
<1>2. /\ chunk.kind \in {"text", "note", "insert"}
      /\ chunk.kind = "insert" => chunk.table \in Tables /\ chunk.rows \in Seq(Keys)
      /\ chunk.kind = "note" => chunk.table \in Tables /\ chunk = NoteFor(chunk.table)
  BY <1>1, ChunkKinds DEF DumpInv
<1>3. /\ stage \in {"ddl", "describe", "page"}
      /\ chunk.kind = "insert" <=> stage = "page"
      /\ chunk.kind = "insert" => chunk.table = Head(todo) /\ todo # <<>>
  BY <1>1 DEF DumpInv, StagesAgree
<1>4. \A t \in Tables : file[t] \in Seq(Keys)
  BY DEF DumpInv, DumpTypeOK
<1>5. ASSUME NEW t \in Tables PROVE file'[t] = file[t] \o InChunk(t) /\ file'[t] \in Seq(Keys)
  <2>1. file \in [Tables -> Seq(Keys)]
    BY DEF DumpInv, DumpTypeOK
  <2>2. CASE chunk.kind = "insert" /\ chunk.table = t
    <3>1. file'[t] = file[t] \o chunk.rows /\ InChunk(t) = chunk.rows
      BY <1>1, <2>1, <2>2 DEF InChunk
    <3>2. QED
      BY <1>2, <1>4, <2>2, <3>1, Joined
  <2>3. CASE ~(chunk.kind = "insert" /\ chunk.table = t)
    <3>1. file'[t] = file[t] /\ InChunk(t) = <<>>
      BY <1>1, <1>2, <2>1, <2>3 DEF InChunk
    <3>2. QED
      BY <1>4, <3>1, ConcatEmptySeq
  <2>4. QED
    BY <2>2, <2>3
<1>6. file' \in [Tables -> Seq(Keys)]
  <2>1. file \in [Tables -> Seq(Keys)]
    BY DEF DumpInv, DumpTypeOK
  <2>2. DOMAIN file' = Tables /\ file' = [t \in Tables |-> file'[t]]
    BY <1>1, <2>1
  <2>3. QED
    BY <1>5, <2>2
<1>7. noted' \subseteq Tables /\ noted \subseteq noted'
  BY <1>1, <1>2 DEF DumpInv, DumpTypeOK
<1>8. DumpTypeOK'
  BY <1>1, <1>6, <1>7 DEF DumpInv, DumpTypeOK
<1>9. StagesAgree'
  BY <1>1, <1>3 DEF DumpInv, StagesAgree
<1>10. NotYetWritten'
  <2>1. ASSUME NEW t \in Tables, chunk.kind = "insert" => t # Head(todo) PROVE file'[t] = file[t]
    <3>1. InChunk(t) = <<>>
      BY <1>3, <2>1 DEF InChunk
    <3>2. QED
      BY <1>4, <1>5, <3>1, ConcatEmptySeq
  <2>2. ASSUME NEW t \in ToSet(todo), Reading => t # Head(todo) PROVE file'[t] = <<>>
    <3>1. t \in Tables
      BY Held DEF DumpInv, DumpTypeOK
    <3>2. file[t] = <<>>
      BY <1>3, <2>2 DEF DumpInv, NotYetWritten, Running
    <3>3. QED
      BY <1>3, <2>1, <2>2, <3>1, <3>2 DEF Reading
  <2>3. QED
    BY <1>1, <1>3, <2>2 DEF NotYetWritten, Reading
<1>11. ASSUME NEW t \in Tables PROVE Underway(t)' = Underway(t)
  <2>1. InChunk(t)' = <<>> /\ InPage(t)' = InPage(t)
    BY <1>1 DEF InChunk, InPage
  <2>2. file'[t] \o <<>> = file'[t]
    BY <1>5, ConcatEmptySeq
  <2>3. QED
    BY <1>5, <2>1, <2>2 DEF Underway
<1>12. Parted'
  <2>1. stage = "page" => Head(todo) \in Tables
    BY <1>3, AtHead
  <2>2. QED
    BY <1>1, <1>3, <1>11, <2>1 DEF DumpInv, Parted, Reading
<1>13. NothingIsMissed'
  <2>1. ASSUME NEW t \in Tables \ ToSet(todo) PROVE Accounted(t)'
    <3>1. Accounted(t)
      BY <1>3 DEF DumpInv, NothingIsMissed, Running
    <3>2. chunk = NoteFor(t) => t \in noted'
      BY <1>1 DEF NoteFor
    <3>3. QED
      BY <1>1, <1>7, <1>11, <3>1, <3>2 DEF Accounted
  <2>2. stage = "page" => page.full \/ stayed[Head(todo)] \subseteq ToSet(Underway(Head(todo)))
    BY DEF DumpInv, NothingIsMissed
  <2>3. stage = "page" => Head(todo) \in Tables
    BY <1>3, AtHead
  <2>4. QED
    BY <1>1, <1>3, <1>11, <2>1, <2>2, <2>3 DEF NothingIsMissed, FileTellsWhatIsMissing
<1>14. WithinTheGate'
  <2>1. Counted' \subseteq Counted
    BY <1>1 DEF Counted
  <2>2. PassesTheGate
    BY <1>3 DEF DumpInv, WithinTheGate
  <2>3. QED
    BY <1>1, <1>11, <2>1, <2>2, GateKept DEF DumpInv
<1>15. QED
  BY <1>8, <1>9, <1>10, <1>12, <1>13, <1>14 DEF DumpInv

\* What the receiver does moves no row.
LEMMA PeerStep ==
  ASSUME DumpInv, receiver' \in {"there", "gone"}, draining' \in BOOLEAN, draining' => draining,
         stage = "ended" => receiver' = receiver,
         UNCHANGED <<confirm, rows, stayed, writes, stage, todo, total, miscounted, cursor, page, chunk, file, noted>>
  PROVE  DumpInv'
<1>1. DumpTypeOK'
  BY DEF DumpInv, DumpTypeOK
<1>2. StagesAgree' /\ NotYetWritten'
  BY DEF DumpInv, StagesAgree, NotYetWritten, Running, Reading
<1>3. \A t \in Tables : Underway(t)' = Underway(t)
  BY DEF Underway, InChunk, InPage
<1>4. Reading => Head(todo) \in Tables
  BY AtHead DEF DumpInv, StagesAgree, Reading
<1>5. Parted'
  BY <1>3, <1>4 DEF DumpInv, Parted, Reading
<1>6. NothingIsMissed'
  BY <1>3, <1>4 DEF DumpInv, NothingIsMissed, Running, Reading, FileTellsWhatIsMissing, Accounted, NoteFor
<1>7. WithinTheGate'
  <2>1. Counted' \subseteq Counted
    BY DEF Counted
  <2>2. stage' \in {"listing", "counting", "refused", "failed"} \/ PassesTheGate
    BY DEF DumpInv, WithinTheGate
  <2>3. QED
    BY <1>3, <2>1, <2>2, GateKept DEF DumpInv
<1>8. QED
  BY <1>1, <1>2, <1>5, <1>6, <1>7 DEF DumpInv

\* Every step keeps what a dump keeps to.
LEMMA DumpInvStep == DumpInv /\ [DumpNext]_dumpVars => DumpInv'
<1> SUFFICES ASSUME DumpInv, [DumpNext]_dumpVars PROVE DumpInv'
  OBVIOUS
<1>1. CASE \E t \in Tables, k \in Keys : Insert(t, k) \/ Delete(t, k)
  BY <1>1, InsertStep, DeleteStep
<1>2. CASE Serve
  BY <1>2, ListTablesStep, CountTableStep, PreparedStep, BeginStep, TableDdlStep, DescribeStep,
     TableFailsStep, ReadPageStep, YieldBatchStep, PageDoneStep, RunDiesStep, WriteChunkStep,
     TornStep, AbortedStep, EndedStep DEF Serve
<1>3. CASE Drained
  <2>1. /\ draining' = FALSE /\ receiver' = receiver
        /\ UNCHANGED <<confirm, rows, stayed, writes, stage, todo, total, miscounted, cursor, page, chunk, file, noted>>
    BY <1>3 DEF Drained, db, gen, out
  <2>2. receiver \in {"there", "gone"}
    BY DEF DumpInv, DumpTypeOK
  <2>3. QED
    BY <2>1, <2>2, PeerStep
<1>4. CASE ClientLeaves
  <2>1. /\ receiver' = "gone" /\ draining' = draining /\ stage # "ended"
        /\ UNCHANGED <<confirm, rows, stayed, writes, stage, todo, total, miscounted, cursor, page, chunk, file, noted>>
    BY <1>4 DEF ClientLeaves, DumpOver, db, gen, out
  <2>2. draining \in BOOLEAN
    BY DEF DumpInv, DumpTypeOK
  <2>3. QED
    BY <2>1, <2>2, PeerStep
<1>5. CASE UNCHANGED dumpVars
  <2>1. /\ receiver' = receiver /\ draining' = draining
        /\ UNCHANGED <<confirm, rows, stayed, writes, stage, todo, total, miscounted, cursor, page, chunk, file, noted>>
    BY <1>5 DEF dumpVars, db, gen, peer, out
  <2>2. receiver \in {"there", "gone"} /\ draining \in BOOLEAN
    BY DEF DumpInv, DumpTypeOK
  <2>3. QED
    BY <2>1, <2>2, PeerStep
<1>6. QED
  BY <1>1, <1>2, <1>3, <1>4, <1>5 DEF DumpNext

\* Rows that are all among those counted or come in since are no more of them.
LEMMA GateHolds == DumpInv => NoBigDumpUnasked
<1> SUFFICES ASSUME DumpInv, ~confirm, ~miscounted
             PROVE  Cardinality(RowsInFile) <= Threshold + writes
  BY DEF NoBigDumpUnasked
<1>1. total \in Nat /\ writes \in Nat /\ Threshold \in Nat
  BY DumpAssumption DEF DumpInv, DumpTypeOK
<1>2. CASE stage \in {"listing", "counting", "refused", "failed"}
  <2>1. \A t \in Tables : file[t] = <<>>
    BY <1>2 DEF DumpInv, NotYetWritten
  <2>2. RowsInFile = {}
    <3>1. ASSUME NEW r \in RowsInFile PROVE FALSE
      <4>1. r[1] \in Tables /\ r[2] \in ToSet(file[r[1]])
        BY DEF RowsInFile
      <4>2. ToSet(<<>>) = {}
        BY DEF ToSet
      <4>3. QED
        BY <2>1, <4>1, <4>2
    <3>2. QED
      BY <3>1
  <2>3. QED
    BY <1>1, <2>2, FS_EmptySet
<1>3. CASE stage \notin {"listing", "counting", "refused", "failed"}
  <2>1. total <= Threshold
    BY <1>3 DEF DumpInv, WithinTheGate, PassesTheGate
  <2>2. PICK counted \in SUBSET (Tables \X Keys), added \in SUBSET (Tables \X Keys) :
          /\ Cardinality(counted) <= total /\ Cardinality(added) <= writes
          /\ \A t \in Tables : \A k \in ToSet(Underway(t)) : <<t, k>> \in counted \cup added
    BY DEF DumpInv, WithinTheGate
  <2>3. RowsInFile \subseteq counted \cup added
    <3>1. ASSUME NEW r \in RowsInFile PROVE r \in counted \cup added
      <4>1. r[1] \in Tables /\ r[2] \in ToSet(file[r[1]]) /\ r = <<r[1], r[2]>>
        BY DEF RowsInFile
      <4>2. r[2] \in ToSet(Underway(r[1]))
        BY <4>1, UnderwayTypes DEF DumpInv
      <4>3. <<r[1], r[2]>> \in counted \cup added
        BY <2>2, <4>1, <4>2
      <4>4. QED
        BY <4>1, <4>3
    <3>2. QED
      BY <3>1
  <2>4. /\ IsFiniteSet(counted) /\ Cardinality(counted) \in Nat
        /\ IsFiniteSet(added) /\ Cardinality(added) \in Nat
    BY PairsAreFinite
  <2>5. /\ IsFiniteSet(counted \cup added)
        /\ Cardinality(counted \cup added) =
             Cardinality(counted) + Cardinality(added) - Cardinality(counted \cap added)
    BY <2>4, FS_Union
  <2>6. Cardinality(counted \cap added) \in Nat
    BY <2>4, FS_Subset, FS_CardinalityType
  <2>7. Cardinality(counted \cup added) <= Threshold + writes
    BY <1>1, <2>1, <2>2, <2>4, <2>5, <2>6
  <2>8. /\ Cardinality(RowsInFile) <= Cardinality(counted \cup added)
        /\ Cardinality(RowsInFile) \in Nat /\ Cardinality(counted \cup added) \in Nat
    BY <2>3, <2>5, FS_Subset, FS_CardinalityType
  <2>9. QED
    BY <1>1, <2>7, <2>8
<1>4. QED
  BY <1>2, <1>3

\* The invariant says of the file what is promised of it.
LEMMA DumpInvTells == DumpInv => FileIsTrue
<1> SUFFICES ASSUME DumpInv PROVE FileIsTrue
  OBVIOUS
<1>1. FileTellsWhatIsMissing
  BY DEF DumpInv, NothingIsMissed
<1>2. NoRowTwice
  BY UnderwayTypes DEF DumpInv, Parted, NoRowTwice
<1>3. QED
  BY <1>1, <1>2, GateHolds DEF FileIsTrue

\* A dump's stages agree, its cursor parts what is told from what is not, and
\* what has left was counted or came in since
\* (dump-database.use-case.ts:63-246, connection-dump.controller.ts:61-145).
THEOREM DumpInvariant == DumpSpec => []DumpInv
<1>1. DumpInv /\ [DumpNext]_dumpVars => DumpInv'
  BY DumpInvStep
<1>2. QED
  BY <1>1, DumpInvInit, PTL DEF DumpSpec

\* Each request that is out was sent, and a patient user has one out at most
\* (useDump.ts:64-110).
LEMMA ButtonStep == ButtonInv /\ [ButtonNext]_buttonVars => ButtonInv'
<1> SUFFICES ASSUME ButtonInv, [ButtonNext]_buttonVars PROVE ButtonInv'
  OBVIOUS
<1> DEFINE kinds == {"plain", "confirmed"}
<1>1. /\ requests \in [kinds -> Nat] /\ starts \in 0..MaxStarts /\ MaxStarts \in Nat
      /\ requests["plain"] + requests["confirmed"] <= starts
      /\ patient \in BOOLEAN /\ question \in BOOLEAN /\ failure \in BOOLEAN
      /\ state \in {"idle", "running", "confirm", "failed"}
  BY ButtonAssumption DEF ButtonInv, ButtonTypeOK
<1>2. patient => /\ requests["plain"] + requests["confirmed"] = IF state = "running" THEN 1 ELSE 0
                 /\ state = "confirm" => question
  BY DEF ButtonInv, OneDownload
<1>3. ASSUME /\ requests' \in [kinds -> Nat] /\ starts' \in 0..MaxStarts
             /\ requests'["plain"] + requests'["confirmed"] <= starts'
             /\ patient' = patient /\ question' \in BOOLEAN /\ failure' \in BOOLEAN
             /\ state' \in {"idle", "running", "confirm", "failed"}
             /\ patient => /\ requests'["plain"] + requests'["confirmed"] =
                                IF state' = "running" THEN 1 ELSE 0
                           /\ state' = "confirm" => question'
      PROVE  ButtonInv'
  <2>1. requests' \in [kinds -> 0..MaxStarts]
    <3>1. requests'["plain"] \in 0..MaxStarts /\ requests'["confirmed"] \in 0..MaxStarts
      BY <1>1, <1>3
    <3>2. QED
      BY <1>3, <3>1
  <2>2. ButtonTypeOK'
    BY <1>1, <1>3, <2>1 DEF ButtonTypeOK
  <2>3. QED
    BY <1>1, <1>3, <2>2 DEF ButtonInv, OneDownload
<1>4. ASSUME NEW kind \in kinds, Starts(kind), patient => state # "running"
      PROVE  ButtonInv'
  <2>1. /\ starts < MaxStarts /\ starts' = starts + 1 /\ requests' = [requests EXCEPT ![kind] = @ + 1]
        /\ state' = "running" /\ failure' = FALSE /\ question' = question /\ patient' = patient
    BY <1>4 DEF Starts
  <2>2. /\ requests' \in [kinds -> Nat] /\ starts' \in 0..MaxStarts
        /\ requests'["plain"] + requests'["confirmed"] = requests["plain"] + requests["confirmed"] + 1
    BY <1>1, <2>1
  <2>3. patient => requests'["plain"] + requests'["confirmed"] = 1
    <3>1. CASE patient
      <4>1. requests["plain"] + requests["confirmed"] = 0
        BY <1>2, <1>4, <3>1
      <4>2. QED
        BY <2>2, <4>1
    <3>2. QED
      BY <1>1, <3>1
  <2>4. requests'["plain"] + requests'["confirmed"] <= starts'
    <3>1. requests["plain"] \in Nat /\ requests["confirmed"] \in Nat
      BY <1>1
    <3>2. QED
      BY <1>1, <2>1, <2>2, <3>1
  <2>5. QED
    BY <1>1, <1>3, <2>1, <2>2, <2>3, <2>4
<1>5. ASSUME NEW kind \in kinds, Saved(kind) \/ Refused(kind) \/ Failed(kind)
      PROVE  ButtonInv'
  <2>1. /\ requests[kind] > 0 /\ requests' = [requests EXCEPT ![kind] = @ - 1]
        /\ starts' = starts /\ patient' = patient
        /\ question' \in BOOLEAN /\ failure' \in BOOLEAN
        /\ state' \in {"idle", "confirm", "failed"} /\ (state' = "confirm" => question')
    BY <1>1, <1>5 DEF Saved, Refused, Failed, Returns
  <2>2. /\ requests' \in [kinds -> Nat]
        /\ requests'["plain"] + requests'["confirmed"] = requests["plain"] + requests["confirmed"] - 1
    BY <1>1, <2>1
  <2>3. QED
    BY <1>1, <1>2, <1>3, <2>1, <2>2
<1>6. CASE Download
  BY <1>4, <1>6 DEF Download, CanDownload
<1>7. CASE Accept
  BY <1>4, <1>7 DEF Accept, CanAnswer
<1>8. CASE Dismiss
  <2>1. /\ question' = FALSE /\ state' = "idle" /\ (patient => state = "confirm")
        /\ failure' = failure /\ requests' = requests /\ starts' = starts /\ patient' = patient
    BY <1>8 DEF Dismiss, CanAnswer
  <2>2. QED
    BY <1>1, <1>2, <1>3, <2>1
<1>9. CASE UNCHANGED buttonVars
  BY <1>1, <1>2, <1>3, <1>9 DEF buttonVars
<1>10. QED
  BY <1>5, <1>6, <1>7, <1>8, <1>9 DEF ButtonNext

\* Each request that is out was sent, and a patient user has one out at most
\* (useDump.ts:64-110).
THEOREM ButtonInvariant == ButtonSpec => []ButtonInv
<1>1. ButtonInit => ButtonInv
  <2> SUFFICES ASSUME ButtonInit PROVE ButtonInv
    OBVIOUS
  <2>1. /\ requests = [k \in {"plain", "confirmed"} |-> 0] /\ starts = 0 /\ state = "idle"
        /\ question = FALSE /\ failure = FALSE /\ patient \in BOOLEAN
    BY DEF ButtonInit
  <2>2. requests["plain"] = 0 /\ requests["confirmed"] = 0 /\ 0 \in 0..MaxStarts
    BY <2>1, ButtonAssumption
  <2>3. ButtonTypeOK
    BY <2>1, <2>2 DEF ButtonTypeOK
  <2>4. QED
    BY <2>1, <2>2, <2>3 DEF ButtonInv, OneDownload
<1>2. QED
  BY <1>1, ButtonStep, PTL DEF ButtonSpec

\* A file the client got to the end of misses a row that was there all along
\* only from a table a comment names, holds no row twice and is not larger than
\* was agreed to, and the button has one download out
\* (dump-database.use-case.ts:63-246, useDump.ts:64-110).
THEOREM DumpTheorem == DumpSpec /\ ButtonSpec => []DumpIsTrue
<1>1. DumpInv /\ ButtonInv => DumpIsTrue
  BY DumpInvTells DEF ButtonInv, DumpIsTrue
<1>2. QED
  BY <1>1, DumpInvariant, ButtonInvariant, PTL

-----------------------------------------------------------------------------
(***************************************************************************)
(* What a provider makes of its vendor's frames.                           *)
(***************************************************************************)
(***************************************************************************)
(* What a vendor says, and what is made of it.                             *)
(***************************************************************************)
\* Null is told from what may stand in its place.
LEMMA Nulls ==
  /\ Null \notin Nat /\ Null \notin Count /\ Null \notin 0..MaxFrames
  /\ Null \notin Usage \cup {<<1, 1>>} /\ Null \notin RecordType
  /\ Null \notin {"served", "stop", "end_turn", "novel", "network", "provider", "configuration"}
<1>1. MaxFrames \in Nat /\ Null \notin Nat
  BY ProviderAssumption
<1>2. Count \subseteq Nat /\ 0..MaxFrames \subseteq Nat
  BY <1>1 DEF Count
<1>3. QED
  BY <1>1, <1>2, ProviderAssumption

\* One more thing said is the last, unless it is nothing.
LEMMA LastMore ==
  ASSUME NEW n \in Nat, NEW s, NEW r, \A i \in 1..n : r[i] = s[i], NEW what, IsLast(what, s, n)
  PROVE  IsLast(Else(r[n + 1], what), r, n + 1)
<1>1. \A i \in 1..(n + 1) : i \in 1..n \/ i = n + 1
  OBVIOUS
<1>2. CASE r[n + 1] # Null
  <2>1. n + 1 \in 1..(n + 1) /\ \A j \in 1..(n + 1) : ~(n + 1 < j)
    OBVIOUS
  <2>2. QED
    BY <1>2, <2>1 DEF IsLast, Else
<1>3. CASE r[n + 1] = Null /\ what = Null
  BY <1>1, <1>3 DEF IsLast, Else
<1>4. CASE r[n + 1] = Null /\ what # Null
  <2>1. PICK i \in 1..n : s[i] = what /\ \A j \in 1..n : i < j => s[j] = Null
    BY <1>4 DEF IsLast
  <2>2. i \in 1..(n + 1) /\ r[i] = what /\ \A j \in 1..(n + 1) : i < j => r[j] = Null
    BY <1>1, <1>4, <2>1
  <2>3. QED
    BY <1>4, <2>2 DEF IsLast, Else
<1>5. QED
  BY <1>2, <1>3, <1>4

\* What was last among some is so among the same.
LEMMA LastSame ==
  ASSUME NEW n \in Nat, NEW s, NEW r, \A i \in 1..n : r[i] = s[i], NEW what, IsLast(what, s, n)
  PROVE  IsLast(what, r, n)
  BY DEF IsLast

\* There is one last thing said.
LEMMA LastIsLastSaid ==
  ASSUME NEW n \in Nat, NEW s, DOMAIN s = 1..n, NEW what, IsLast(what, s, n)
  PROVE  what = LastSaid(s)
<1> DEFINE spoken == {i \in DOMAIN s : s[i] # Null}
<1>1. LastSaid(s) = IF spoken = {} THEN Null ELSE s[CHOOSE i \in spoken : \A j \in spoken : j <= i]
  BY DEF LastSaid
<1>2. CASE what = Null
  BY <1>1, <1>2 DEF IsLast
<1>3. CASE what # Null
  <2>1. PICK i \in 1..n : s[i] = what /\ \A j \in 1..n : i < j => s[j] = Null
    BY <1>3 DEF IsLast
  <2>2. i \in spoken /\ \A j \in spoken : j <= i
    BY <1>3, <2>1
  <2>3. \A k \in spoken : (\A j \in spoken : j <= k) => k = i
    BY <2>2
  <2> HIDE DEF spoken
  <2>4. (CHOOSE k \in spoken : \A j \in spoken : j <= k) = i
    BY <2>2, <2>3
  <2>5. QED
    BY <1>1, <2>1, <2>2, <2>4
<1>4. QED
  BY <1>2, <1>3

\* Two sequences that rise through the same numbers are the same.
LEMMA RisesOnce ==
  ASSUME NEW s \in Seq(Nat), NEW r \in Seq(Nat), ToSet(s) = ToSet(r),
         \A i, j \in 1..Len(s) : i < j => s[i] < s[j],
         \A i, j \in 1..Len(r) : i < j => r[i] < r[j]
  PROVE  s = r
<1>1. /\ Len(s) \in Nat /\ Len(r) \in Nat /\ DOMAIN s = 1..Len(s) /\ DOMAIN r = 1..Len(r)
      /\ \A i \in 1..Len(s) : s[i] \in Nat
      /\ \A i \in 1..Len(r) : r[i] \in Nat
  BY LenProperties
<1>2. /\ \A i \in 1..Len(s) : \E j \in 1..Len(r) : r[j] = s[i]
      /\ \A i \in 1..Len(r) : \E j \in 1..Len(s) : s[j] = r[i]
  <2>1. ASSUME NEW i \in 1..Len(s) PROVE \E j \in 1..Len(r) : r[j] = s[i]
    BY Held
  <2>2. ASSUME NEW i \in 1..Len(r) PROVE \E j \in 1..Len(s) : s[j] = r[i]
    BY Held
  <2>3. QED
    BY <2>1, <2>2
<1> DEFINE Apart == {i \in 1..Len(s) : i > Len(r) \/ s[i] # r[i]}
           Above == {i \in 1..Len(r) : i > Len(s) \/ s[i] # r[i]}
<1>3. Apart = {}
  <2> SUFFICES ASSUME Apart # {} PROVE FALSE
    OBVIOUS
  <2>1. PICK i \in Apart : \A j \in Apart : i <= j
    <3>1. Apart \subseteq Nat
      BY <1>1
    <3> HIDE DEF Apart
    <3>2. QED
      BY <3>1, LeastNumber
  <2>2. i \in 1..Len(s) /\ \A j \in 1..Len(s) : j < i => j <= Len(r) /\ s[j] = r[j]
    BY <1>1, <2>1
  <2>3. PICK j \in 1..Len(r) : r[j] = s[i]
    BY <1>2, <2>2
  <2>4. ~(j < i)
    <3>1. ASSUME j < i PROVE FALSE
      <4>1. j \in 1..Len(s) /\ s[j] = r[j] /\ s[j] < s[i] /\ s[i] \in Nat
        BY <1>1, <2>2, <2>3, <3>1
      <4>2. QED
        BY <2>3, <4>1
    <3>2. QED
      BY <3>1
  <2>5. i \in 1..Len(r) /\ i <= j
    BY <1>1, <2>2, <2>3, <2>4
  <2>6. s[i] # r[i] /\ r[i] \in Nat /\ s[i] \in Nat
    BY <1>1, <2>1, <2>2, <2>5
  <2>7. i # j /\ i < j /\ r[i] < s[i]
    <3>1. i \in Nat /\ j \in Nat
      BY <1>1, <2>5
    <3> HIDE DEF Apart
    <3>2. i # j
      BY <2>3, <2>6
    <3>3. i < j
      BY <2>5, <3>1, <3>2
    <3>4. r[i] < r[j]
      BY <2>5, <3>3
    <3>5. QED
      BY <2>3, <3>2, <3>3, <3>4
  <2>8. PICK k \in 1..Len(s) : s[k] = r[i]
    BY <1>2, <2>5
  <2>9. k < i
    <3>1. CASE k = i
      BY <2>6, <2>8, <3>1
    <3>2. CASE i < k
      <4>1. s[i] < s[k]
        BY <2>2, <3>2
      <4>2. /\ s[i] \in Nat /\ r[i] \in Nat
            /\ s[i] < r[i] /\ r[i] < s[i]
        BY <2>6, <2>7, <2>8, <4>1
      <4> HIDE DEF Apart
      <4>3. QED
        BY <4>2
    <3>3. k \in Nat /\ i \in Nat
      BY <1>1, <2>2, <2>8
    <3>4. QED
      BY <3>1, <3>2, <3>3
  <2>10. k \in 1..Len(r) /\ s[k] = r[k] /\ r[k] < r[i]
    BY <1>1, <2>2, <2>5, <2>9
  <2>11. QED
    BY <2>6, <2>8, <2>10
<1>4. Len(s) <= Len(r) /\ \A i \in 1..Len(s) : s[i] = r[i]
  <2>1. \A i \in 1..Len(s) : i <= Len(r) /\ s[i] = r[i]
    <3> SUFFICES ASSUME NEW i \in 1..Len(s) PROVE i <= Len(r) /\ s[i] = r[i]
      OBVIOUS
    <3>1. i \notin Apart
      BY <1>3
    <3>2. ~(i > Len(r)) /\ s[i] = r[i]
      BY <3>1
    <3>3. i \in Nat /\ Len(r) \in Nat
      BY <1>1
    <3> HIDE DEF Apart
    <3>4. QED
      BY <3>2, <3>3
  <2>2. QED
    BY <1>1, <2>1
<1>5. Len(r) = Len(s)
  <2>6. Len(s) \in Nat /\ Len(r) \in Nat /\ Len(s) <= Len(r)
    BY <1>1, <1>4
  <2> SUFFICES ASSUME Len(s) < Len(r) PROVE FALSE
    BY <2>6
  <2>1. Len(r) \in 1..Len(r)
    BY <1>1
  <2>2. PICK j \in 1..Len(s) : s[j] = r[Len(r)]
    BY <1>2, <2>1
  <2>3. j \in 1..Len(r) /\ r[j] = r[Len(r)] /\ j < Len(r)
    BY <1>1, <1>4, <2>2
  <2>4. r[j] < r[Len(r)] /\ r[j] \in Nat
    BY <1>1, <2>1, <2>3
  <2>5. QED
    BY <2>3, <2>4
<1>6. QED
  BY <1>1, <1>4, <1>5, SeqEqual

\* The text told is the text there is.
LEMMA TextIsTexts ==
  ASSUME NEW n \in Nat, NEW frames, DOMAIN frames = 1..n, Len(frames) = n,
         NEW t \in Seq(Nat), IsText(t, frames, n)
  PROVE  t = Texts(frames)
<1> DEFINE said == {i \in DOMAIN frames : frames[i].text}
           Fits(u) == ToSet(u) = said /\ \A i, j \in DOMAIN u : i < j => u[i] < u[j]
<1>1. /\ Len(t) \in Nat /\ DOMAIN t = 1..Len(t) /\ \A i \in 1..Len(t) : t[i] \in ToSet(t)
      /\ t = [i \in 1..Len(t) |-> t[i]]
  BY LenProperties, Held
<1>2. said = {i \in 1..n : frames[i].text} /\ said \subseteq Nat
  OBVIOUS
<1>3. Fits(t) /\ Len(t) <= n
  BY <1>2 DEF IsText
<1>4. t \in [1..Len(t) -> said]
  BY <1>1, <1>3
<1>5. t \in BoundedSeq(said, Len(frames))
  <2>1. Len(t) \in 0..n
    BY <1>1, <1>3
  <2> HIDE DEF said
  <2>2. QED
    BY <1>4, <2>1 DEF BoundedSeq, SeqOf
<1>6. ASSUME NEW u \in BoundedSeq(said, Len(frames)), Fits(u) PROVE u = t
  <2>1. PICK m \in 0..n : u \in [1..m -> said]
    <3> HIDE DEF said
    <3>1. QED
      BY DEF BoundedSeq, SeqOf
  <2>2. u \in Seq(Nat) /\ Len(u) = m
    BY <1>2, <2>1, SeqDef
  <2>3. \A i, j \in 1..Len(u) : i < j => u[i] < u[j]
    BY <1>6, <2>1, <2>2
  <2>4. \A i, j \in 1..Len(t) : i < j => t[i] < t[j]
    BY <1>1, <1>3
  <2>5. ToSet(u) = ToSet(t)
    BY <1>3, <1>6
  <2>6. QED
    BY <2>2, <2>3, <2>4, <2>5, RisesOnce
<1>7. Texts(frames) = CHOOSE u \in BoundedSeq(said, Len(frames)) : Fits(u)
  BY DEF Texts
<1> HIDE DEF said, Fits
<1>8. QED
  BY <1>3, <1>5, <1>6, <1>7

\* Text that comes with one more frame.
LEMMA TextMore ==
  ASSUME NEW n \in Nat, NEW h, NEW g, \A i \in 1..n : g[i] = h[i], NEW t \in Seq(Nat), IsText(t, h, n)
  PROVE  /\ IsText(t, g, n)
         /\ ~g[n + 1].text => IsText(t, g, n + 1)
         /\ g[n + 1].text => IsText(Append(t, n + 1), g, n + 1)
<1>1. Len(t) \in Nat /\ DOMAIN t = 1..Len(t) /\ \A i \in 1..Len(t) : t[i] \in Nat
  BY LenProperties
<1>2. \A i : i \in 1..(n + 1) <=> i \in 1..n \/ i = n + 1
  OBVIOUS
<1>3. {i \in 1..n : g[i].text} = {i \in 1..n : h[i].text}
  OBVIOUS
<1>4. IsText(t, g, n)
  BY <1>3 DEF IsText
<1>5. ASSUME ~g[n + 1].text PROVE IsText(t, g, n + 1)
  <2>1. {i \in 1..(n + 1) : g[i].text} = {i \in 1..n : g[i].text}
    BY <1>2, <1>5
  <2>2. Len(t) <= n + 1
    BY <1>1, <1>4 DEF IsText
  <2>3. QED
    BY <1>4, <2>1, <2>2 DEF IsText
<1>6. ASSUME g[n + 1].text PROVE IsText(Append(t, n + 1), g, n + 1)
  <2> DEFINE u == Append(t, n + 1)
  <2>1. /\ u \in Seq(Nat) /\ Len(u) = Len(t) + 1 /\ u[Len(t) + 1] = n + 1
        /\ \A i \in 1..Len(t) : u[i] = t[i]
    BY AppendProperties
  <2>2. DOMAIN u = 1..(Len(t) + 1)
    BY <2>1, LenProperties
  <2> HIDE DEF u
  <2>3. \A i : i \in 1..(Len(t) + 1) <=> i \in 1..Len(t) \/ i = Len(t) + 1
    BY <1>1
  <2>4. {i \in 1..(n + 1) : g[i].text} = {i \in 1..n : g[i].text} \cup {n + 1}
    BY <1>2, <1>6
  <2>5. \A i \in 1..Len(t) : t[i] \in {j \in 1..n : g[j].text}
    <3>1. \A i \in 1..Len(t) : t[i] \in ToSet(t)
      BY Held
    <3>2. QED
      BY <1>4, <3>1 DEF IsText
  <2>6. ToSet(u) = ToSet(t) \cup {n + 1}
    <3>1. ASSUME NEW x \in ToSet(u) PROVE x \in ToSet(t) \cup {n + 1}
      <4>1. PICK i \in 1..Len(u) : x = u[i]
        BY <2>1, Held
      <4>2. QED
        BY <2>1, <2>3, <4>1, Held
    <3>2. ASSUME NEW x \in ToSet(t) PROVE x \in ToSet(u)
      <4>1. PICK i \in 1..Len(t) : x = t[i]
        BY Held
      <4>2. i \in 1..Len(u) /\ u[i] = x
        BY <1>1, <2>1, <4>1
      <4>3. QED
        BY <2>1, <4>2, Held
    <3>3. n + 1 \in ToSet(u)
      <4>1. Len(t) + 1 \in 1..Len(u)
        BY <1>1, <2>1
      <4>2. QED
        BY <2>1, <4>1, Held
    <3>4. QED
      BY <3>1, <3>2, <3>3
  <2>7. ASSUME NEW i \in 1..(Len(t) + 1), NEW j \in 1..(Len(t) + 1), i < j PROVE u[i] < u[j]
    <3>1. i \in 1..Len(t) /\ u[i] = t[i]
      BY <1>1, <2>1, <2>3, <2>7
    <3>2. CASE j \in 1..Len(t)
      BY <1>1, <1>4, <2>1, <2>7, <3>1, <3>2 DEF IsText
    <3>3. CASE j = Len(t) + 1
      <4>1. t[i] \in 1..n
        BY <2>5, <3>1
      <4>2. QED
        BY <2>1, <3>1, <3>3, <4>1
    <3>4. QED
      BY <2>3, <3>2, <3>3
  <2>8. Len(u) <= n + 1
    BY <1>1, <1>4, <2>1 DEF IsText
  <2>9. ToSet(u) = {i \in 1..(n + 1) : g[i].text}
    BY <1>4, <2>4, <2>6 DEF IsText
  <2>10. QED
    BY <2>2, <2>7, <2>8, <2>9 DEF IsText, u
<1>7. QED
  BY <1>4, <1>5, <1>6

\* What is kept of an answer.
LEMMA CappedType ==
  ASSUME NEW t \in Seq(0..MaxFrames)
  PROVE  Capped(t) \in Seq(0..Marker)
<1>1. MaxFrames \in Nat /\ TextCap \in Nat /\ Len(t) \in Nat
  BY ProviderAssumption, LenProperties
<1>2. 0..MaxFrames \subseteq 0..Marker /\ Marker \in 0..Marker
  BY <1>1 DEF Marker
<1>3. \A i \in 1..Len(t) : t[i] \in 0..Marker
  BY <1>2, LenProperties
<1>4. t \in Seq(0..Marker)
  <2>1. t \in [1..Len(t) -> 0..MaxFrames]
    BY LenProperties
  <2>2. t \in [1..Len(t) -> 0..Marker]
    BY <1>2, <2>1
  <2> DEFINE S == 0..Marker
  <2>3. \E n \in Nat : t \in [1..n -> S]
    BY <1>1, <2>2
  <2> HIDE DEF S
  <2>4. t \in Seq(S)
    BY <2>3, SeqDef
  <2>5. QED
    BY <2>4 DEF S
<1>5. ASSUME TextCap < Len(t) PROVE SubSeq(t, 1, TextCap) \in Seq(0..Marker)
  <2>1. \A i \in 1..TextCap : t[i] \in 0..Marker
    BY <1>1, <1>3, <1>5
  <2>2. QED
    BY <1>1, <2>1, SubSeqProperties
<1>6. ASSUME TextCap < Len(t) PROVE Append(SubSeq(t, 1, TextCap), Marker) \in Seq(0..Marker)
  BY <1>2, <1>5, <1>6, AppendProperties
<1>7. CASE Len(t) <= TextCap
  BY <1>4, <1>7 DEF Capped
<1>8. CASE ~(Len(t) <= TextCap)
  <2>1. TextCap < Len(t)
    BY <1>1, <1>8
  <2>2. Capped(t) = Append(SubSeq(t, 1, TextCap), Marker)
    BY <1>8 DEF Capped
  <2>3. QED
    BY <1>6, <2>1, <2>2
<1>9. QED
  BY <1>7, <1>8

LEMMA AiRecordType ==
  ASSUME NEW status \in {"ok", "error", "cancelled"}, NEW t \in TallyType,
         NEW error \in Unsaid({"network", "provider", "configuration"})
  PROVE  /\ AiRecord(status, t, error) \in RecordType /\ AiRecord(status, t, error) # Null
         /\ AiRecord(status, t, error).status = status
         /\ AiRecord(status, t, error).response = Capped(t.text)
         /\ AiRecord(status, t, error).tokensIn = t.tokensIn
         /\ AiRecord(status, t, error).tokensOut = t.tokensOut
         /\ AiRecord(status, t, error).error = error
         /\ status # "cancelled" => AiRecord(status, t, error).stopReason = t.stopReason
<1>1. t.text \in Seq(0..MaxFrames) /\ Else(t.model, "asked") \in {"served", "asked"}
  BY DEF TallyType, Unsaid, Else
<1>2. Capped(t.text) \in Seq(0..Marker)
  BY <1>1, CappedType
<1>3. AiRecord(status, t, error) \in RecordType
  BY <1>1, <1>2 DEF AiRecord, RecordType, TallyType, Unsaid
<1>4. QED
  BY <1>3, Nulls DEF AiRecord

\* What an event does to the tally.
LEMMA TallyStep ==
  ASSUME NEW t \in TallyType, NEW e \in EventType, WellFormed(e)
  PROVE  /\ Tallied(t, e) \in TallyType
         /\ Tallied(t, e).tokensIn = Else(e.tokensIn, t.tokensIn)
         /\ Tallied(t, e).tokensOut = Else(e.tokensOut, t.tokensOut)
         /\ Tallied(t, e).text = IF e.text # Null THEN Append(t.text, e.text) ELSE t.text
         /\ Tallied(t, e).sawStop = (t.sawStop \/ e.type = "message_stop")
         /\ Tallied(t, e).stopReason = IF e.type = "message_stop" THEN e.stopReason ELSE t.stopReason
<1>1. e.type \in {"message_start", "text_delta", "usage", "message_stop"}
  BY DEF EventType
<1>2. /\ t.text \in Seq(0..MaxFrames) /\ t.tokensIn \in Unsaid(Count) /\ t.tokensOut \in Unsaid(Count)
      /\ t.model \in Unsaid({"served"}) /\ t.stopReason \in Unsaid(StopReasons) /\ t.sawStop \in BOOLEAN
  BY DEF TallyType
<1>3. /\ e.tokensIn \in Unsaid(Count) /\ e.tokensOut \in Unsaid(Count) /\ e.model \in Unsaid({"served"})
      /\ e.text \in Unsaid(0..MaxFrames) /\ e.stopReason \in Unsaid(StopReasons)
  BY DEF EventType
<1>4. /\ Else(e.tokensIn, t.tokensIn) \in Unsaid(Count) /\ Else(e.tokensOut, t.tokensOut) \in Unsaid(Count)
      /\ Else(e.model, t.model) \in Unsaid({"served"})
  BY <1>2, <1>3 DEF Else
<1>5. CASE e.type = "message_start"
  <2>1. /\ e.tokensOut = Null /\ e.text = Null
        /\ Tallied(t, e) = [t EXCEPT !.tokensIn = Else(e.tokensIn, @), !.model = Else(e.model, @)]
    BY <1>5 DEF WellFormed, Tallied
  <2>2. Tallied(t, e) \in TallyType
    BY <1>4, <2>1 DEF TallyType
  <2>3. QED
    BY <1>2, <1>5, <2>1, <2>2 DEF TallyType, Else
<1>6. CASE e.type = "text_delta"
  <2>1. /\ e.tokensOut = Null /\ e.tokensIn = Null /\ e.text \in 0..MaxFrames /\ e.text # Null
        /\ Tallied(t, e) = [t EXCEPT !.text = Append(@, e.text)]
    BY <1>3, <1>6 DEF WellFormed, Tallied, Unsaid
  <2>2. Append(t.text, e.text) \in Seq(0..MaxFrames)
    BY <1>2, <2>1, AppendProperties
  <2>3. Tallied(t, e) \in TallyType
    BY <2>1, <2>2 DEF TallyType
  <2>4. QED
    BY <1>2, <1>6, <2>1, <2>3 DEF TallyType, Else
<1>7. CASE e.type = "usage"
  <2>1. /\ e.text = Null
        /\ Tallied(t, e) = [t EXCEPT !.tokensIn = Else(e.tokensIn, @), !.tokensOut = Else(e.tokensOut, @)]
    BY <1>7 DEF WellFormed, Tallied
  <2>2. Tallied(t, e) \in TallyType
    BY <1>4, <2>1 DEF TallyType
  <2>3. QED
    BY <1>2, <1>7, <2>1, <2>2 DEF TallyType
<1>8. CASE e.type = "message_stop"
  <2>1. /\ e.text = Null /\ e.tokensIn = Null /\ e.tokensOut = Null
        /\ Tallied(t, e) = [t EXCEPT !.stopReason = e.stopReason, !.sawStop = TRUE]
    BY <1>8 DEF WellFormed, Tallied
  <2>2. Tallied(t, e) \in TallyType
    BY <1>3, <2>1 DEF TallyType
  <2>3. QED
    BY <1>2, <1>8, <2>1, <2>2 DEF TallyType, Else
<1>9. QED
  BY <1>1, <1>5, <1>6, <1>7, <1>8

-----------------------------------------------------------------------------
\* The words of the vendors, and of the port.
LEMMA Words ==
  ASSUME NEW r \in Unsaid({"stop", "end_turn", "novel"})
  PROVE  /\ StopReason(r) \in StopReasons /\ StopReason(r) \in Unsaid(StopReasons)
         /\ StopReason(Null) = Null
<1>1. StopReason(r) \in StopReasons
  BY DEF StopReasons
<1>2. StopReason(Null) = Null
  BY Nulls DEF StopReason
<1>3. QED
  BY <1>1, <1>2 DEF Unsaid

LEMMA Counts ==
  ASSUME NEW u \in Unsaid(Usage \cup {<<1, 1>>, <<Null, Null>>})
  PROVE  /\ In(u) \in Unsaid(Count) /\ Out(u) \in Unsaid(Count)
         /\ u # Null => In(u) = u[1] /\ Out(u) = u[2]
<1>1. \/ u = Null \/ u = <<1, Null>> \/ u = <<2, 2>> \/ u = <<Null, 1>> \/ u = <<1, 1>> \/ u = <<Null, Null>>
  BY DEF Unsaid, Usage
<1>2. u # Null => u[1] \in {Null, 1, 2} /\ u[2] \in {Null, 1, 2}
  BY <1>1
<1>3. QED
  BY <1>2 DEF In, Out, Unsaid, Count

LEMMA StartEvents ==
  ASSUME NEW in \in Unsaid(Count), NEW model \in Unsaid({"served"})
  PROVE  /\ MessageStart(in, model) \in EventType /\ WellFormed(MessageStart(in, model))
         /\ MessageStart(in, model).type = "message_start"
         /\ MessageStart(in, model).tokensIn = in
         /\ MessageStart(in, model).tokensOut = Null
         /\ MessageStart(in, model).text = Null
BY DEF MessageStart, Event, EventType, WellFormed, Unsaid

LEMMA TextEvents ==
  ASSUME NEW n \in 0..MaxFrames
  PROVE  /\ TextDelta(n) \in EventType /\ WellFormed(TextDelta(n))
         /\ TextDelta(n).type = "text_delta"
         /\ TextDelta(n).tokensIn = Null
         /\ TextDelta(n).tokensOut = Null
         /\ TextDelta(n).text = n /\ n # Null
<1>1. n # Null
  BY Nulls
<1>2. QED
  BY <1>1 DEF TextDelta, Event, EventType, WellFormed, Unsaid

LEMMA UsageEvents ==
  ASSUME NEW u, u[1] \in Unsaid(Count), u[2] \in Unsaid(Count)
  PROVE  /\ UsageOf(u) \in EventType /\ WellFormed(UsageOf(u))
         /\ UsageOf(u).type = "usage"
         /\ UsageOf(u).tokensIn = u[1]
         /\ UsageOf(u).tokensOut = u[2]
         /\ UsageOf(u).text = Null
BY DEF UsageOf, Event, EventType, WellFormed, Unsaid

LEMMA StopEvents ==
  ASSUME NEW r \in Unsaid({"stop", "end_turn", "novel"})
  PROVE  /\ MessageStop(StopReason(r)) \in EventType /\ WellFormed(MessageStop(StopReason(r)))
         /\ MessageStop(StopReason(r)).type = "message_stop"
         /\ MessageStop(StopReason(r)).tokensIn = Null
         /\ MessageStop(StopReason(r)).tokensOut = Null
         /\ MessageStop(StopReason(r)).text = Null
         /\ MessageStop(StopReason(r)).stopReason = StopReason(r)
<1>1. StopReason(r) \in Unsaid(StopReasons)
  BY Words
<1>2. QED
  BY <1>1 DEF MessageStop, Event, EventType, WellFormed, Unsaid

\* One event more, or none, after those before it.
LEMMA OneMore ==
  ASSUME NEW S, NEW q \in Seq(S), NEW w \in Seq(S)
  PROVE  /\ q \o w \in Seq(S) /\ Len(q \o w) = Len(q) + Len(w)
         /\ \A i \in 1..Len(q) : (q \o w)[i] = q[i]
         /\ Len(w) = 1 => (q \o w)[Len(q) + 1] = w[1]
<1>1. /\ q \o w \in Seq(S) /\ Len(q \o w) = Len(q) + Len(w)
      /\ \A i \in 1..(Len(q) + Len(w)) : (q \o w)[i] = IF i <= Len(q) THEN q[i] ELSE w[i - Len(q)]
      /\ Len(q) \in Nat /\ Len(w) \in Nat
  BY ConcatProperties, LenProperties
<1> DEFINE c == q \o w
<1>2. /\ c \in Seq(S) /\ Len(c) = Len(q) + Len(w)
      /\ \A i \in 1..(Len(q) + Len(w)) : c[i] = IF i <= Len(q) THEN q[i] ELSE w[i - Len(q)]
  BY <1>1
<1> HIDE DEF c
<1>3. \A i \in 1..Len(q) : c[i] = q[i]
  BY <1>1, <1>2
<1>4. ASSUME Len(w) = 1 PROVE c[Len(q) + 1] = w[1]
  <2>1. Len(q) + 1 \in 1..(Len(q) + Len(w)) /\ ~(Len(q) + 1 <= Len(q)) /\ (Len(q) + 1) - Len(q) = 1
    BY <1>1, <1>4
  <2>2. QED
    BY <1>2, <2>1
<1>5. QED
  BY <1>2, <1>3, <1>4 DEF c

\* A place among four, where each is there or not.
LEMMA FourPlaces ==
  ASSUME NEW o1 \in 0..1, NEW o2 \in 0..1, NEW o3 \in 0..1, NEW o4 \in 0..1,
         NEW i \in 1..(o1 + o2 + o3 + o4)
  PROVE  \/ o1 = 1 /\ i = 1
         \/ o2 = 1 /\ i = o1 + 1
         \/ o3 = 1 /\ i = o1 + o2 + 1
         \/ o4 = 1 /\ i = o1 + o2 + o3 + o4
OBVIOUS

\* Four events at most, one after another.
LaidOut(S, q, w1, w2, w3, w4, o1, o2, o3, o4) ==
  /\ q = w1 \o w2 \o w3 \o w4
  /\ w1 \in Seq(S) /\ w2 \in Seq(S) /\ w3 \in Seq(S) /\ w4 \in Seq(S)
  /\ o1 \in 0..1 /\ o2 \in 0..1 /\ o3 \in 0..1 /\ o4 \in 0..1
  /\ o1 = Len(w1) /\ o2 = Len(w2) /\ o3 = Len(w3) /\ o4 = Len(w4)

Positions(S, q, w1, w2, w3, w4, o1, o2, o3, o4) ==
  /\ q \in Seq(S) /\ DOMAIN q = 1..Len(q) /\ Len(q) = o1 + o2 + o3 + o4
  /\ o1 = 1 => q[1] = w1[1]
  /\ o2 = 1 => q[o1 + 1] = w2[1]
  /\ o3 = 1 => q[o1 + o2 + 1] = w3[1]
  /\ o4 = 1 => q[o1 + o2 + o3 + o4] = w4[1]
  /\ \A i \in DOMAIN q : \/ o1 = 1 /\ i = 1
                         \/ o2 = 1 /\ i = o1 + 1
                         \/ o3 = 1 /\ i = o1 + o2 + 1
                         \/ o4 = 1 /\ i = o1 + o2 + o3 + o4

LEMMA FourAtMost ==
  ASSUME NEW S, NEW q, NEW w1, NEW w2, NEW w3, NEW w4, NEW o1, NEW o2, NEW o3, NEW o4,
         LaidOut(S, q, w1, w2, w3, w4, o1, o2, o3, o4)
  PROVE  Positions(S, q, w1, w2, w3, w4, o1, o2, o3, o4)
<1>0. /\ q = w1 \o w2 \o w3 \o w4
      /\ w1 \in Seq(S) /\ w2 \in Seq(S) /\ w3 \in Seq(S) /\ w4 \in Seq(S)
      /\ o1 \in 0..1 /\ o2 \in 0..1 /\ o3 \in 0..1 /\ o4 \in 0..1
      /\ Len(w1) = o1 /\ Len(w2) = o2 /\ Len(w3) = o3 /\ Len(w4) = o4
  BY Zenon DEF LaidOut
<1>1. PICK q2 \in Seq(S) :
        /\ q2 = w1 \o w2 /\ Len(q2) = Len(w1) + Len(w2)
        /\ \A i \in 1..Len(w1) : q2[i] = w1[i]
        /\ Len(w2) = 1 => q2[Len(w1) + 1] = w2[1]
  <2>1. /\ w1 \o w2 \in Seq(S) /\ Len(w1 \o w2) = Len(w1) + Len(w2)
        /\ \A i \in 1..Len(w1) : (w1 \o w2)[i] = w1[i]
        /\ Len(w2) = 1 => (w1 \o w2)[Len(w1) + 1] = w2[1]
    BY <1>0, OneMore, Zenon
  <2>2. QED
    BY <2>1, Zenon
<1>2. PICK q3 \in Seq(S) :
        /\ q3 = q2 \o w3 /\ Len(q3) = Len(q2) + Len(w3)
        /\ \A i \in 1..Len(q2) : q3[i] = q2[i]
        /\ Len(w3) = 1 => q3[Len(q2) + 1] = w3[1]
  <2>1. /\ q2 \o w3 \in Seq(S) /\ Len(q2 \o w3) = Len(q2) + Len(w3)
        /\ \A i \in 1..Len(q2) : (q2 \o w3)[i] = q2[i]
        /\ Len(w3) = 1 => (q2 \o w3)[Len(q2) + 1] = w3[1]
    BY <1>0, OneMore, Zenon
  <2>2. QED
    BY <2>1, Zenon
<1>3. /\ q \in Seq(S) /\ Len(q) = Len(q3) + Len(w4)
      /\ \A i \in 1..Len(q3) : q[i] = q3[i]
      /\ Len(w4) = 1 => q[Len(q3) + 1] = w4[1]
  <2>1. /\ q3 \o w4 \in Seq(S) /\ Len(q3 \o w4) = Len(q3) + Len(w4)
        /\ \A i \in 1..Len(q3) : (q3 \o w4)[i] = q3[i]
        /\ Len(w4) = 1 => (q3 \o w4)[Len(q3) + 1] = w4[1]
    BY <1>0, OneMore, Zenon
  <2>2. q = q3 \o w4
    BY <1>0, <1>1, <1>2, Zenon
  <2>3. QED
    BY <2>1, <2>2, Zenon
<1>5. Len(q2) = o1 + o2 /\ Len(q3) = o1 + o2 + o3 /\ Len(q) = o1 + o2 + o3 + o4
  BY <1>0, <1>1, <1>2, <1>3
<1>6. o1 = 1 => q[1] = w1[1]
  <2>1. o1 = 1 => 1 \in 1..o1 /\ 1 \in 1..(o1 + o2) /\ 1 \in 1..(o1 + o2 + o3)
    BY <1>0
  <2>2. QED
    BY <1>0, <1>1, <1>2, <1>3, <1>5, <2>1
<1>7. o2 = 1 => q[o1 + 1] = w2[1]
  <2>1. o2 = 1 => o1 + 1 \in 1..(o1 + o2) /\ o1 + 1 \in 1..(o1 + o2 + o3)
    BY <1>0
  <2>2. QED
    BY <1>0, <1>1, <1>2, <1>3, <1>5, <2>1
<1>8. o3 = 1 => q[o1 + o2 + 1] = w3[1]
  <2>1. o3 = 1 => o1 + o2 + 1 \in 1..(o1 + o2 + o3)
    BY <1>0
  <2>2. QED
    BY <1>0, <1>2, <1>3, <1>5, <2>1
<1>9. o4 = 1 => q[o1 + o2 + o3 + o4] = w4[1]
  <2>1. o4 = 1 => Len(w4) = 1 /\ o1 + o2 + o3 + o4 = Len(q3) + 1
    BY <1>0, <1>5
  <2>2. QED
    BY <1>3, <2>1
<1>10. DOMAIN q = 1..Len(q)
  BY <1>3, LenProperties
<1>11. ASSUME NEW i \in DOMAIN q
       PROVE  \/ o1 = 1 /\ i = 1
              \/ o2 = 1 /\ i = o1 + 1
              \/ o3 = 1 /\ i = o1 + o2 + 1
              \/ o4 = 1 /\ i = o1 + o2 + o3 + o4
  <2>1. i \in 1..(o1 + o2 + o3 + o4)
    BY <1>5, <1>10, Zenon
  <2>2. o1 \in 0..1 /\ o2 \in 0..1 /\ o3 \in 0..1 /\ o4 \in 0..1
    BY <1>0, Zenon
  <2>3. QED
    BY <2>1, <2>2, FourPlaces
<1>12. QED
  BY <1>3, <1>5, <1>6, <1>7, <1>8, <1>9, <1>10, <1>11, Zenon DEF Positions

\* The events of one frame: how they are bracketed, and what they say.
Shape(q, opens, stops) ==
  /\ q \in Seq(EventType)
  /\ \A i \in DOMAIN q : WellFormed(q[i])
  /\ \A i \in DOMAIN q : q[i].type = "message_start" <=> i = 1 /\ opens
  /\ \A i \in DOMAIN q : q[i].type = "message_stop" => i = Len(q)
  /\ Has(q, "message_stop") <=> stops
  /\ opens => q # <<>>

Content(q, n, said, usage, reason) ==
  /\ \A i \in DOMAIN q : q[i].text # Null =>
       said /\ q[i].text = n /\ \A j \in DOMAIN q : q[j].text # Null => i = j
  /\ said => \E i \in DOMAIN q : q[i].text # Null
  /\ \A i \in DOMAIN q :
       /\ q[i].tokensIn # Null => q[i].tokensIn = In(usage)
       /\ q[i].tokensOut # Null => q[i].tokensOut = Out(usage)
       /\ q[i].type = "message_stop" => q[i].stopReason = StopReason(reason)
  /\ In(usage) # Null => \E i \in DOMAIN q : q[i].tokensIn # Null
  /\ Out(usage) # Null => \E i \in DOMAIN q : q[i].tokensOut # Null

\* Whatever the vendor, a frame's events are at most a start, a text, a count
\* and a stop; a start leaves nothing out that no count makes up for.
EventsOf(opens, said, counts, stops, model, usage, n, reason) ==
  When(opens, MessageStart(In(usage), model)) \o When(said, TextDelta(n))
  \o When(counts, UsageOf(usage)) \o When(stops, MessageStop(StopReason(reason)))

OfAFrame(opens, said, counts, stops, model, usage, n, reason) ==
  /\ opens \in BOOLEAN /\ said \in BOOLEAN /\ counts \in BOOLEAN /\ stops \in BOOLEAN
  /\ model \in Unsaid({"served"}) /\ usage \in Unsaid(Usage \cup {<<1, 1>>})
  /\ n \in 0..MaxFrames /\ reason \in Unsaid({"stop", "end_turn", "novel"})
  /\ counts => usage # Null
  /\ usage # Null => counts \/ (opens /\ Out(usage) = Null)

LEMMA FrameEvents ==
  ASSUME NEW opens, NEW said, NEW counts, NEW stops, NEW model, NEW usage, NEW n, NEW reason,
         OfAFrame(opens, said, counts, stops, model, usage, n, reason)
  PROVE  LET q == EventsOf(opens, said, counts, stops, model, usage, n, reason)
         IN  Shape(q, opens, stops) /\ Content(q, n, said, usage, reason)
<1> DEFINE q == EventsOf(opens, said, counts, stops, model, usage, n, reason)
           e1 == MessageStart(In(usage), model)
           e2 == TextDelta(n)
           e3 == UsageOf(usage)
           e4 == MessageStop(StopReason(reason))
<1>0. /\ opens \in BOOLEAN /\ said \in BOOLEAN /\ counts \in BOOLEAN /\ stops \in BOOLEAN
      /\ model \in Unsaid({"served"}) /\ usage \in Unsaid(Usage \cup {<<1, 1>>})
      /\ n \in 0..MaxFrames /\ reason \in Unsaid({"stop", "end_turn", "novel"})
      /\ counts => usage # Null
      /\ usage # Null => counts \/ (opens /\ Out(usage) = Null)
  BY DEF OfAFrame
<1>1. /\ In(usage) \in Unsaid(Count) /\ Out(usage) \in Unsaid(Count)
      /\ usage # Null => In(usage) = usage[1] /\ Out(usage) = usage[2]
      /\ usage = Null => In(usage) = Null /\ Out(usage) = Null
  BY <1>0, Counts DEF Unsaid, In, Out
<1>2. /\ e1 \in EventType /\ WellFormed(e1) /\ e1.type = "message_start" /\ e1.tokensIn = In(usage)
      /\ e1.tokensOut = Null /\ e1.text = Null
  BY <1>0, <1>1, StartEvents
<1>3. /\ e2 \in EventType /\ WellFormed(e2) /\ e2.type = "text_delta" /\ e2.tokensIn = Null
      /\ e2.tokensOut = Null /\ e2.text = n /\ n # Null
  BY <1>0, TextEvents
<1>4. counts => /\ e3 \in EventType /\ WellFormed(e3) /\ e3.type = "usage"
                /\ e3.tokensIn = In(usage) /\ e3.tokensOut = Out(usage) /\ e3.text = Null
  BY <1>0, <1>1, UsageEvents
<1>5. /\ e4 \in EventType /\ WellFormed(e4) /\ e4.type = "message_stop" /\ e4.tokensIn = Null
      /\ e4.tokensOut = Null /\ e4.text = Null /\ e4.stopReason = StopReason(reason)
  BY <1>0, StopEvents
<1> HIDE DEF e1, e2, e3, e4, q
<1>6. q = When(opens, e1) \o When(said, e2) \o When(counts, e3) \o When(stops, e4)
  BY Zenon DEF EventsOf, e1, e2, e3, e4, q
<1>7. /\ When(opens, e1) \in Seq(EventType) /\ When(said, e2) \in Seq(EventType)
      /\ When(counts, e3) \in Seq(EventType) /\ When(stops, e4) \in Seq(EventType)
  BY <1>0, <1>2, <1>3, <1>4, <1>5 DEF When
<1>8. PICK w1 \in Seq(EventType), w2 \in Seq(EventType), w3 \in Seq(EventType), w4 \in Seq(EventType) :
        /\ w1 = When(opens, e1) /\ w2 = When(said, e2) /\ w3 = When(counts, e3) /\ w4 = When(stops, e4)
  BY <1>7
<1>a. /\ Len(w1) \in 0..1 /\ (opens <=> Len(w1) = 1) /\ (opens => w1[1] = e1)
      /\ Len(w2) \in 0..1 /\ (said <=> Len(w2) = 1) /\ (said => w2[1] = e2)
      /\ Len(w3) \in 0..1 /\ (counts <=> Len(w3) = 1) /\ (counts => w3[1] = e3)
      /\ Len(w4) \in 0..1 /\ (stops <=> Len(w4) = 1) /\ (stops => w4[1] = e4)
  <2>1. Len(w1) \in 0..1 /\ (opens <=> Len(w1) = 1) /\ (opens => w1[1] = e1)
    BY <1>0, <1>8 DEF When
  <2>2. Len(w2) \in 0..1 /\ (said <=> Len(w2) = 1) /\ (said => w2[1] = e2)
    BY <1>0, <1>8 DEF When
  <2>3. Len(w3) \in 0..1 /\ (counts <=> Len(w3) = 1) /\ (counts => w3[1] = e3)
    BY <1>0, <1>8 DEF When
  <2>4. Len(w4) \in 0..1 /\ (stops <=> Len(w4) = 1) /\ (stops => w4[1] = e4)
    BY <1>0, <1>8 DEF When
  <2>5. QED
    BY <2>1, <2>2, <2>3, <2>4
<1>c. PICK k1 \in 0..1, k2 \in 0..1, k3 \in 0..1, k4 \in 0..1 :
        k1 = Len(w1) /\ k2 = Len(w2) /\ k3 = Len(w3) /\ k4 = Len(w4)
  BY <1>a
<1>d. (opens <=> k1 = 1) /\ (said <=> k2 = 1) /\ (counts <=> k3 = 1) /\ (stops <=> k4 = 1)
  BY <1>a, <1>c
<1>e. LaidOut(EventType, q, w1, w2, w3, w4, k1, k2, k3, k4)
  <2>1. q = w1 \o w2 \o w3 \o w4
    BY <1>6, <1>8, Zenon
  <2>2. QED
    BY <1>c, <2>1, Zenon DEF LaidOut
<1>p. Positions(EventType, q, w1, w2, w3, w4, k1, k2, k3, k4)
  BY <1>e, FourAtMost, Zenon
<1>f. /\ q \in Seq(EventType) /\ DOMAIN q = 1..Len(q) /\ Len(q) = k1 + k2 + k3 + k4
      /\ k1 = 1 => q[1] = w1[1]
      /\ k2 = 1 => q[k1 + 1] = w2[1]
      /\ k3 = 1 => q[k1 + k2 + 1] = w3[1]
      /\ k4 = 1 => q[k1 + k2 + k3 + k4] = w4[1]
  BY <1>p, Zenon DEF Positions
<1>g. /\ k1 = 1 => q[1] = e1
      /\ k2 = 1 => q[k1 + 1] = e2
      /\ k3 = 1 => q[k1 + k2 + 1] = e3
      /\ k4 = 1 => q[k1 + k2 + k3 + k4] = e4
  BY <1>a, <1>d, <1>f, Zenon
<1>9. ASSUME NEW i \in DOMAIN q
      PROVE  \/ opens /\ i = 1 /\ q[i] = e1
             \/ said /\ i = k1 + 1 /\ q[i] = e2
             \/ counts /\ i = k1 + k2 + 1 /\ q[i] = e3
             \/ stops /\ i = Len(q) /\ q[i] = e4
  <2>2. \/ k1 = 1 /\ i = 1
        \/ k2 = 1 /\ i = k1 + 1
        \/ k3 = 1 /\ i = k1 + k2 + 1
        \/ k4 = 1 /\ i = k1 + k2 + k3 + k4
    BY <1>p, Zenon DEF Positions
  <2>3. QED
    BY <1>f, <1>g, <1>d, <2>2
<1>10. /\ opens => 1 \in DOMAIN q /\ q[1] = e1
       /\ said => k1 + 1 \in DOMAIN q /\ q[k1 + 1] = e2
       /\ counts => k1 + k2 + 1 \in DOMAIN q /\ q[k1 + k2 + 1] = e3
       /\ stops => Len(q) \in DOMAIN q /\ q[Len(q)] = e4
  <2>1. /\ k1 = 1 => 1 \in 1..(k1 + k2 + k3 + k4)
        /\ k2 = 1 => k1 + 1 \in 1..(k1 + k2 + k3 + k4)
        /\ k3 = 1 => k1 + k2 + 1 \in 1..(k1 + k2 + k3 + k4)
        /\ k4 = 1 => k1 + k2 + k3 + k4 \in 1..(k1 + k2 + k3 + k4)
    OBVIOUS
  <2>2. QED
    BY <1>f, <1>g, <1>d, <2>1
<1>11. /\ opens => \A i \in DOMAIN q : i = 1 => q[i] = e1
       /\ \A i \in DOMAIN q : q[i] = e1 \/ q[i] = e2 \/ (counts /\ q[i] = e3) \/ (stops /\ q[i] = e4)
  BY <1>9, <1>10
<1>12. Shape(q, opens, stops)
  <2>1. \A i \in DOMAIN q : WellFormed(q[i])
    BY <1>2, <1>3, <1>4, <1>5, <1>11
  <2>2. \A i \in DOMAIN q : q[i].type = "message_start" <=> i = 1 /\ opens
    <3>1. ASSUME NEW i \in DOMAIN q, q[i].type = "message_start" PROVE i = 1 /\ opens
      BY <1>2, <1>3, <1>4, <1>5, <1>9, <3>1
    <3>2. ASSUME NEW i \in DOMAIN q, i = 1, opens PROVE q[i].type = "message_start"
      BY <1>2, <1>10, <3>2
    <3>3. QED
      BY <3>1, <3>2
  <2>3. \A i \in DOMAIN q : q[i].type = "message_stop" => i = Len(q)
    BY <1>2, <1>3, <1>4, <1>5, <1>9
  <2>4. Has(q, "message_stop") <=> stops
    <3>1. ASSUME Has(q, "message_stop") PROVE stops
      BY <1>2, <1>3, <1>4, <1>5, <1>9, <3>1 DEF Has
    <3>2. ASSUME stops PROVE Has(q, "message_stop")
      BY <1>5, <1>10, <3>2 DEF Has
    <3>3. QED
      BY <3>1, <3>2
  <2>5. QED
    BY <1>f, <1>10, <2>1, <2>2, <2>3, <2>4 DEF Shape
<1>13. Content(q, n, said, usage, reason)
  <2>1. ASSUME NEW i \in DOMAIN q, q[i].text # Null
        PROVE  said /\ q[i].text = n /\ i = k1 + 1
    BY <1>2, <1>3, <1>4, <1>5, <1>9, <2>1
  <2>2. said => \E i \in DOMAIN q : q[i].text # Null
    BY <1>3, <1>10
  <2>3. \A i \in DOMAIN q :
          /\ q[i].tokensIn # Null => q[i].tokensIn = In(usage)
          /\ q[i].tokensOut # Null => q[i].tokensOut = Out(usage)
          /\ q[i].type = "message_stop" => q[i].stopReason = StopReason(reason)
    <3> SUFFICES ASSUME NEW i \in DOMAIN q
                 PROVE  /\ q[i].tokensIn # Null => q[i].tokensIn = In(usage)
                        /\ q[i].tokensOut # Null => q[i].tokensOut = Out(usage)
                        /\ q[i].type = "message_stop" => q[i].stopReason = StopReason(reason)
      OBVIOUS
    <3>1. \/ q[i] = e1 \/ q[i] = e2 \/ (counts /\ q[i] = e3) \/ (stops /\ q[i] = e4)
      BY <1>9
    <3>2. QED
      BY <1>2, <1>3, <1>4, <1>5, <3>1
  <2>4. In(usage) # Null => \E i \in DOMAIN q : q[i].tokensIn # Null
    BY <1>0, <1>1, <1>2, <1>4, <1>10
  <2>5. Out(usage) # Null => \E i \in DOMAIN q : q[i].tokensOut # Null
    BY <1>0, <1>1, <1>2, <1>4, <1>10
  <2>6. QED
    BY <2>1, <2>2, <2>3, <2>4, <2>5 DEF Content
<1>14. QED
  BY <1>12, <1>13 DEF q

\* What a frame of either vendor may say.
LEMMA OpenAiFrame ==
  ASSUME NEW f \in OpenAiFrames
  PROVE  /\ f \in FrameType /\ f.kind \in {"chunk", "done", "garbled", "error"}
         /\ f.kind # "chunk" => ~f.text /\ f.usage = Null /\ f.reason = Null
<1>1. /\ Blank = [kind |-> "chunk", model |-> Null, text |-> FALSE, usage |-> Null, reason |-> Null]
      /\ Piece = [kind |-> "chunk", model |-> "served", text |-> FALSE, usage |-> Null, reason |-> Null]
  <2>1. Blank = [kind |-> "chunk", model |-> Null, text |-> FALSE, usage |-> Null, reason |-> Null]
    BY DEF Blank
  <2>2. Piece = [[kind |-> "chunk", model |-> Null, text |-> FALSE, usage |-> Null, reason |-> Null]
                   EXCEPT !.model = "served"]
    BY <2>1 DEF Piece
  <2>3. QED
    BY <2>1, <2>2
<1>2. \/ f \in {Blank, Piece}
      \/ f = [Piece EXCEPT !.text = TRUE]
      \/ f = [Piece EXCEPT !.text = TRUE, !.usage = <<1, 1>>]
      \/ \E r \in {"stop", "novel"} : f = [Piece EXCEPT !.reason = r]
      \/ \E u \in Usage : f = [Piece EXCEPT !.usage = u]
      \/ \E k \in {"done", "garbled", "error"} : f = [Blank EXCEPT !.kind = k]
  BY DEF OpenAiFrames
<1>3. CASE f \in {Blank, Piece}
  <2>1. CASE f = Blank
    BY <1>1, <2>1 DEF FrameType, Unsaid
  <2>2. CASE f = Piece
    BY <1>1, <2>2 DEF FrameType, Unsaid
  <2>3. QED
    BY <1>3, <2>1, <2>2
<1>4. CASE f = [Piece EXCEPT !.text = TRUE]
  BY <1>1, <1>4 DEF FrameType, Unsaid
<1>5. CASE f = [Piece EXCEPT !.text = TRUE, !.usage = <<1, 1>>]
  <2>1. f = [kind |-> "chunk", model |-> "served", text |-> TRUE, usage |-> <<1, 1>>, reason |-> Null]
    BY <1>1, <1>5
  <2>2. QED
    BY <2>1 DEF FrameType, Unsaid
<1>6. ASSUME NEW r \in {"stop", "novel"}, f = [Piece EXCEPT !.reason = r]
      PROVE  /\ f \in FrameType /\ f.kind = "chunk"
  BY <1>1, <1>6 DEF FrameType, Unsaid
<1>7. ASSUME NEW u \in Usage, f = [Piece EXCEPT !.usage = u]
      PROVE  /\ f \in FrameType /\ f.kind = "chunk"
  <2>1. f = [kind |-> "chunk", model |-> "served", text |-> FALSE, usage |-> u, reason |-> Null]
    BY <1>1, <1>7
  <2>2. QED
    BY <2>1 DEF FrameType, Unsaid
<1>8. ASSUME NEW k \in {"done", "garbled", "error"}, f = [Blank EXCEPT !.kind = k]
      PROVE  /\ f \in FrameType /\ f.kind = k /\ ~f.text /\ f.usage = Null /\ f.reason = Null
  BY <1>1, <1>8 DEF FrameType, Unsaid
<1>9. QED
  BY <1>1, <1>2, <1>3, <1>4, <1>5, <1>6, <1>7, <1>8

LEMMA AnthropicFrame ==
  ASSUME NEW f \in AnthropicFrames
  PROVE  /\ f \in FrameType
         /\ f.kind \in {"ping", "error", "message_start", "content_block_delta", "message_delta",
                        "message_stop"}
         /\ f.text => f.kind = "content_block_delta"
         /\ f.usage # Null => \/ f.kind = "message_delta"
                              \/ f.kind = "message_start" /\ Out(f.usage) = Null
         /\ f.reason # Null => f.kind = "message_delta"
         /\ f.kind = "message_start" => ~Came("message_start")
         /\ f.kind \notin {"ping", "error", "message_start"} =>
              Came("message_start") /\ ~Came("message_stop")
<1> DEFINE Kind(k) == [Blank EXCEPT !.kind = k]
<1>1. Blank = [kind |-> "chunk", model |-> Null, text |-> FALSE, usage |-> Null, reason |-> Null]
  BY DEF Blank
<1>2. \/ f \in {Kind("ping"), Kind("error")}
      \/ /\ ~Came("message_start")
         /\ \E u \in {Null, <<1, Null>>} :
              f = [Kind("message_start") EXCEPT !.model = "served", !.usage = u]
      \/ /\ Came("message_start") /\ ~Came("message_stop")
         /\ \/ \E b \in BOOLEAN : f = [Kind("content_block_delta") EXCEPT !.text = b]
            \/ \E r \in {"end_turn", "novel"}, u \in {Null, <<Null, 1>>, <<2, 2>>} :
                 f = [Kind("message_delta") EXCEPT !.reason = r, !.usage = u]
            \/ f = Kind("message_stop")
  <2> DEFINE Start   == {[Kind("message_start") EXCEPT !.model = "served", !.usage = u] :
                           u \in {Null, <<1, Null>>}}
             Content0 == {[Kind("content_block_delta") EXCEPT !.text = b] : b \in BOOLEAN}
             Delta   == {[Kind("message_delta") EXCEPT !.reason = d[1], !.usage = d[2]] :
                           d \in {"end_turn", "novel"} \X {Null, <<Null, 1>>, <<2, 2>>}}
  <2>1. f \in {Kind("ping"), Kind("error")}
          \cup (IF ~Came("message_start") THEN Start
                ELSE IF Came("message_stop") THEN {}
                ELSE Content0 \cup Delta \cup {Kind("message_stop")})
    BY Zenon DEF AnthropicFrames, Came
  <2>2. f \in Start => \E u \in {Null, <<1, Null>>} :
                          f = [Kind("message_start") EXCEPT !.model = "served", !.usage = u]
    BY Zenon
  <2>3. f \in Content0 => \E b \in BOOLEAN : f = [Kind("content_block_delta") EXCEPT !.text = b]
    BY Zenon
  <2>4. f \in Delta => \E r \in {"end_turn", "novel"}, u \in {Null, <<Null, 1>>, <<2, 2>>} :
                          f = [Kind("message_delta") EXCEPT !.reason = r, !.usage = u]
    <3> SUFFICES ASSUME NEW d \in {"end_turn", "novel"} \X {Null, <<Null, 1>>, <<2, 2>>},
                        f = [Kind("message_delta") EXCEPT !.reason = d[1], !.usage = d[2]]
                 PROVE  \E r \in {"end_turn", "novel"}, u \in {Null, <<Null, 1>>, <<2, 2>>} :
                          f = [Kind("message_delta") EXCEPT !.reason = r, !.usage = u]
      BY Zenon
    <3>1. d[1] \in {"end_turn", "novel"} /\ d[2] \in {Null, <<Null, 1>>, <<2, 2>>}
      OBVIOUS
    <3> HIDE DEF Kind
    <3>2. QED
      BY <3>1, Zenon
  <2> HIDE DEF Start, Content0, Delta, Kind
  <2>5. QED
    BY <2>1, <2>2, <2>3, <2>4, Zenon
<1>3. /\ Kind("ping") = [kind |-> "ping", model |-> Null, text |-> FALSE, usage |-> Null, reason |-> Null]
      /\ Kind("error") = [kind |-> "error", model |-> Null, text |-> FALSE, usage |-> Null, reason |-> Null]
      /\ Kind("message_start") = [kind |-> "message_start", model |-> Null, text |-> FALSE, usage |-> Null, reason |-> Null]
      /\ Kind("content_block_delta") = [kind |-> "content_block_delta", model |-> Null, text |-> FALSE, usage |-> Null, reason |-> Null]
      /\ Kind("message_delta") = [kind |-> "message_delta", model |-> Null, text |-> FALSE, usage |-> Null, reason |-> Null]
      /\ Kind("message_stop") = [kind |-> "message_stop", model |-> Null, text |-> FALSE, usage |-> Null, reason |-> Null]
  <2>1. Kind("ping") = [kind |-> "ping", model |-> Null, text |-> FALSE, usage |-> Null, reason |-> Null]
    <3>1. Kind("ping") = [[kind |-> "chunk", model |-> Null, text |-> FALSE, usage |-> Null, reason |-> Null]
                         EXCEPT !.kind = "ping"]
      BY <1>1, Zenon
    <3> HIDE DEF Kind
    <3>2. QED
      BY <3>1
  <2>2. Kind("error") = [kind |-> "error", model |-> Null, text |-> FALSE, usage |-> Null, reason |-> Null]
    <3>1. Kind("error") = [[kind |-> "chunk", model |-> Null, text |-> FALSE, usage |-> Null, reason |-> Null]
                         EXCEPT !.kind = "error"]
      BY <1>1, Zenon
    <3> HIDE DEF Kind
    <3>2. QED
      BY <3>1
  <2>3. Kind("message_start") = [kind |-> "message_start", model |-> Null, text |-> FALSE, usage |-> Null, reason |-> Null]
    <3>1. Kind("message_start") = [[kind |-> "chunk", model |-> Null, text |-> FALSE, usage |-> Null, reason |-> Null]
                         EXCEPT !.kind = "message_start"]
      BY <1>1, Zenon
    <3> HIDE DEF Kind
    <3>2. QED
      BY <3>1
  <2>4. Kind("content_block_delta") = [kind |-> "content_block_delta", model |-> Null, text |-> FALSE, usage |-> Null, reason |-> Null]
    <3>1. Kind("content_block_delta") = [[kind |-> "chunk", model |-> Null, text |-> FALSE, usage |-> Null, reason |-> Null]
                         EXCEPT !.kind = "content_block_delta"]
      BY <1>1, Zenon
    <3> HIDE DEF Kind
    <3>2. QED
      BY <3>1
  <2>5. Kind("message_delta") = [kind |-> "message_delta", model |-> Null, text |-> FALSE, usage |-> Null, reason |-> Null]
    <3>1. Kind("message_delta") = [[kind |-> "chunk", model |-> Null, text |-> FALSE, usage |-> Null, reason |-> Null]
                         EXCEPT !.kind = "message_delta"]
      BY <1>1, Zenon
    <3> HIDE DEF Kind
    <3>2. QED
      BY <3>1
  <2>6. Kind("message_stop") = [kind |-> "message_stop", model |-> Null, text |-> FALSE, usage |-> Null, reason |-> Null]
    <3>1. Kind("message_stop") = [[kind |-> "chunk", model |-> Null, text |-> FALSE, usage |-> Null, reason |-> Null]
                         EXCEPT !.kind = "message_stop"]
      BY <1>1, Zenon
    <3> HIDE DEF Kind
    <3>2. QED
      BY <3>1
  <2>7. QED
    BY <2>1, <2>2, <2>3, <2>4, <2>5, <2>6, Zenon
<1> HIDE DEF Kind
<1>4. CASE f \in {Kind("ping"), Kind("error")}
  <2>1. CASE f = Kind("ping")
    <3>1. f = [kind |-> "ping", model |-> Null, text |-> FALSE, usage |-> Null, reason |-> Null]
      BY <1>3, <2>1, Zenon
    <3>2. QED
      BY <3>1 DEF FrameType, Unsaid
  <2>2. CASE f = Kind("error")
    <3>1. f = [kind |-> "error", model |-> Null, text |-> FALSE, usage |-> Null, reason |-> Null]
      BY <1>3, <2>2, Zenon
    <3>2. QED
      BY <3>1 DEF FrameType, Unsaid
  <2>3. QED
    BY <1>4, <2>1, <2>2
<1>5. ASSUME ~Came("message_start"), NEW u \in {Null, <<1, Null>>},
             f = [Kind("message_start") EXCEPT !.model = "served", !.usage = u]
      PROVE  f \in FrameType /\ f.kind = "message_start" /\ ~f.text /\ Out(f.usage) = Null /\ f.reason = Null
  <2>1. f = [kind |-> "message_start", model |-> "served", text |-> FALSE, usage |-> u, reason |-> Null]
    <3>1. f = [[kind |-> "message_start", model |-> Null, text |-> FALSE, usage |-> Null, reason |-> Null]
                 EXCEPT !.model = "served", !.usage = u]
      BY <1>3, <1>5, Zenon
    <3>2. QED
      BY <3>1
  <2>2. u \in Unsaid(Usage \cup {<<1, 1>>}) /\ Out(u) = Null
    BY DEF Unsaid, Usage, Out
  <2>3. QED
    BY <2>1, <2>2 DEF FrameType, Unsaid
<1>6. ASSUME NEW b \in BOOLEAN, f = [Kind("content_block_delta") EXCEPT !.text = b]
      PROVE  f \in FrameType /\ f.kind = "content_block_delta" /\ f.usage = Null /\ f.reason = Null
  BY <1>3, <1>6 DEF FrameType, Unsaid
<1>7. ASSUME NEW r \in {"end_turn", "novel"}, NEW u \in {Null, <<Null, 1>>, <<2, 2>>},
             f = [Kind("message_delta") EXCEPT !.reason = r, !.usage = u]
      PROVE  f \in FrameType /\ f.kind = "message_delta" /\ ~f.text
  <2>1. f = [kind |-> "message_delta", model |-> Null, text |-> FALSE, usage |-> u, reason |-> r]
    <3>1. f = [[kind |-> "message_delta", model |-> Null, text |-> FALSE, usage |-> Null, reason |-> Null]
                 EXCEPT !.reason = r, !.usage = u]
      BY <1>3, <1>7, Zenon
    <3>2. QED
      BY <3>1
  <2>2. u \in Unsaid(Usage \cup {<<1, 1>>})
    BY DEF Unsaid, Usage
  <2>3. QED
    BY <2>1, <2>2 DEF FrameType, Unsaid
<1>8. CASE f = Kind("message_stop")
  <2>1. f = [kind |-> "message_stop", model |-> Null, text |-> FALSE, usage |-> Null, reason |-> Null]
    BY <1>3, <1>8, Zenon
  <2>4. f \in FrameType /\ f.kind = "message_stop" /\ ~f.text /\ f.usage = Null /\ f.reason = Null
    BY <2>1 DEF FrameType, Unsaid
  <2>5. Came("message_start") /\ ~Came("message_stop")
    <3>1. CASE f \in {Kind("ping"), Kind("error")}
      <4>1. f.kind \in {"ping", "error"}
        BY <1>3, <3>1
      <4>2. QED
        BY <2>4, <4>1
    <3>2. ASSUME NEW u, f = [Kind("message_start") EXCEPT !.model = "served", !.usage = u] PROVE FALSE
      <4>1. f = [[kind |-> "message_start", model |-> Null, text |-> FALSE, usage |-> Null, reason |-> Null]
                   EXCEPT !.model = "served", !.usage = u]
        BY <1>3, <3>2, Zenon
      <4>2. f.kind = "message_start"
        BY <4>1
      <4>3. QED
        BY <2>4, <4>2
    <3>3. QED
      BY <1>2, <3>1, <3>2, Zenon
  <2>6. QED
    BY <2>4, <2>5
<1>9. CASE f \notin {Kind("ping"), Kind("error")}
  BY <1>2, <1>5, <1>6, <1>7, <1>8, <1>9
<1>10. QED
  BY <1>4, <1>9

\* What either vendor's frame comes to.
LEMMA Nothing ==
  ASSUME NEW a \in Seq(EventType), NEW e
  PROVE  a \o When(FALSE, e) = a /\ When(FALSE, e) \o a = a
BY ConcatEmptySeq DEF When

LEMMA OpenAiEventsOf ==
  ASSUME NEW f \in FrameType, NEW n \in 0..MaxFrames
  PROVE  OpenAiEvents(f, n) = EventsOf(yielded = <<>>, f.text, f.usage # Null, FALSE, f.model, f.usage, n, Null)
<1> DEFINE a == When(yielded = <<>>, MessageStart(In(f.usage), f.model))
           b == When(f.text, TextDelta(n))
           c == When(f.usage # Null, UsageOf(f.usage))
<1>1. f.usage \in Unsaid(Usage \cup {<<1, 1>>}) /\ f.model \in Unsaid({"served"})
  BY DEF FrameType
<1>2. In(f.usage) \in Unsaid(Count) /\ (f.usage # Null => f.usage[1] \in Unsaid(Count) /\ f.usage[2] \in Unsaid(Count))
  <2>1. f.usage \in Unsaid(Usage \cup {<<1, 1>>, <<Null, Null>>})
    BY <1>1 DEF Unsaid
  <2>2. /\ In(f.usage) \in Unsaid(Count) /\ Out(f.usage) \in Unsaid(Count)
        /\ f.usage # Null => In(f.usage) = f.usage[1] /\ Out(f.usage) = f.usage[2]
    BY <2>1, Counts
  <2>3. QED
    BY <2>2
<1>3. a \in Seq(EventType)
  BY <1>1, <1>2, StartEvents DEF When
<1>4. b \in Seq(EventType)
  BY TextEvents DEF When
<1>5. c \in Seq(EventType)
  BY <1>2, UsageEvents DEF When
<1>6. OpenAiEvents(f, n) = a \o b \o c
  BY DEF OpenAiEvents
<1>7. EventsOf(yielded = <<>>, f.text, f.usage # Null, FALSE, f.model, f.usage, n, Null)
        = a \o b \o c \o When(FALSE, MessageStop(StopReason(Null)))
  BY DEF EventsOf
<1> HIDE DEF a, b, c
<1>8. a \o b \in Seq(EventType) /\ a \o b \o c \in Seq(EventType)
  BY <1>3, <1>4, <1>5, ConcatProperties
<1>9. QED
  BY <1>6, <1>7, <1>8, Nothing

LEMMA EndEventsOf ==
  ASSUME NEW n \in 0..MaxFrames, NEW reason \in Unsaid({"stop", "end_turn", "novel"})
  PROVE  When(yielded = <<>>, MessageStart(Null, Null)) \o <<MessageStop(StopReason(reason))>>
           = EventsOf(yielded = <<>>, FALSE, FALSE, TRUE, Null, Null, n, reason)
<1> DEFINE a == When(yielded = <<>>, MessageStart(Null, Null))
           d == <<MessageStop(StopReason(reason))>>
<1>1. a \in Seq(EventType)
  BY StartEvents DEF When, Unsaid
<1>2. In(Null) = Null /\ d = When(TRUE, MessageStop(StopReason(reason)))
  BY DEF In, When
<1>3. EventsOf(yielded = <<>>, FALSE, FALSE, TRUE, Null, Null, n, reason)
        = a \o When(FALSE, TextDelta(n)) \o When(FALSE, UsageOf(Null)) \o d
  BY <1>2 DEF EventsOf
<1> HIDE DEF a, d
<1>4. a \o When(FALSE, TextDelta(n)) = a
  BY <1>1, Nothing
<1>5. a \o When(FALSE, UsageOf(Null)) = a
  BY <1>1, Nothing
<1>6. QED
  BY <1>3, <1>4, <1>5 DEF a, d

LEMMA AtomicShape ==
  ASSUME NEW r \in Replies
  PROVE  Shape(AtomicEvents(r), TRUE, TRUE)
<1> DEFINE e1 == MessageStart(r.usage[1], r.model)
           e2 == TextDelta(0)
           e3 == UsageOf(r.usage)
           e4 == MessageStop(StopReason(r.reason))
<1>1. /\ r.usage \in Usage \cup {<<Null, Null>>} /\ r.model \in Unsaid({"served"})
      /\ r.reason \in Unsaid({"stop", "end_turn", "novel"})
  BY DEF Replies, Unsaid
<1>2. r.usage[1] \in Unsaid(Count) /\ r.usage[2] \in Unsaid(Count)
  BY <1>1 DEF Usage, Count, Unsaid
<1>3. e1 \in EventType /\ WellFormed(e1) /\ e1.type = "message_start"
  BY <1>1, <1>2, StartEvents
<1>4. e2 \in EventType /\ WellFormed(e2) /\ e2.type = "text_delta"
  <2>1. 0 \in 0..MaxFrames
    BY ProviderAssumption
  <2>2. QED
    BY <2>1, TextEvents
<1>5. e3 \in EventType /\ WellFormed(e3) /\ e3.type = "usage"
  BY <1>2, UsageEvents
<1>6. e4 \in EventType /\ WellFormed(e4) /\ e4.type = "message_stop"
  BY <1>1, StopEvents
<1>7. AtomicEvents(r) = <<e1, e2, e3, e4>>
  BY DEF AtomicEvents
<1> HIDE DEF e1, e2, e3, e4
<1> DEFINE q == <<e1, e2, e3, e4>>
<1>8. /\ q \in Seq(EventType) /\ DOMAIN q = 1..4 /\ Len(q) = 4
      /\ q[1] = e1 /\ q[2] = e2 /\ q[3] = e3 /\ q[4] = e4
  BY <1>3, <1>4, <1>5, <1>6
<1> HIDE DEF q
<1>9. \A i \in DOMAIN q : i \in {1, 2, 3, 4}
  BY <1>8
<1>10. /\ \A i \in DOMAIN q : WellFormed(q[i])
       /\ \A i \in DOMAIN q : q[i].type = "message_start" <=> i = 1 /\ TRUE
       /\ \A i \in DOMAIN q : q[i].type = "message_stop" => i = Len(q)
  BY <1>3, <1>4, <1>5, <1>6, <1>8, <1>9
<1>11. Has(q, "message_stop")
  <2>1. 4 \in DOMAIN q
    BY <1>8
  <2>2. QED
    BY <1>6, <1>8, <2>1 DEF Has
<1>12. QED
  BY <1>7, <1>8, <1>10, <1>11 DEF Shape, q

-----------------------------------------------------------------------------
\* What was heard, but for its last frame.
LEMMA HeardType ==
  ASSUME NEW h \in Seq(FrameType)
  PROVE  /\ Len(h) \in Nat /\ DOMAIN h = 1..Len(h) /\ (h # <<>> <=> Len(h) > 0)
         /\ \A i \in 1..Len(h) : h[i] \in FrameType
         /\ DOMAIN InsOf(h) = 1..Len(h) /\ DOMAIN OutsOf(h) = 1..Len(h) /\ DOMAIN ReasonsOf(h) = 1..Len(h)
         /\ \A i \in 1..Len(h) : /\ InsOf(h)[i] = In(h[i].usage) /\ OutsOf(h)[i] = Out(h[i].usage)
                                 /\ ReasonsOf(h)[i] = h[i].reason
<1>1. Len(h) \in Nat /\ DOMAIN h = 1..Len(h) /\ \A i \in 1..Len(h) : h[i] \in FrameType
  BY LenProperties
<1>2. h # <<>> <=> Len(h) > 0
  BY <1>1, EmptySeq
<1>3. QED
  BY <1>1, <1>2 DEF InsOf, OutsOf, ReasonsOf

LEMMA Fronts ==
  ASSUME NEW h \in Seq(FrameType), h # <<>>
  PROVE  /\ Front(h) \in Seq(FrameType) /\ Len(Front(h)) = Len(h) - 1
         /\ \A i \in 1..(Len(h) - 1) : Front(h)[i] = h[i]
<1>1. Len(h) \in Nat /\ Len(h) > 0 /\ \A i \in 1..Len(h) : h[i] \in FrameType
  BY HeardType
<1>2. Len(h) - 1 \in Nat /\ \A i \in 1..(Len(h) - 1) : h[i] \in FrameType
  BY <1>1
<1> DEFINE n == Len(h) - 1
<1>3. n \in Nat /\ Front(h) = SubSeq(h, 1, n) /\ \A i \in 1..n : h[i] \in FrameType
  BY <1>2 DEF Front
<1> HIDE DEF n
<1>4. /\ SubSeq(h, 1, n) \in Seq(FrameType) /\ Len(SubSeq(h, 1, n)) = IF 1 <= n THEN n - 1 + 1 ELSE 0
      /\ \A i \in 1..(n - 1 + 1) : SubSeq(h, 1, n)[i] = h[1 + i - 1]
  <2>1. 1 \in Int /\ n \in Int
    BY <1>3
  <2>2. QED
    BY <1>3, <2>1, SubSeqProperties
<1>5. /\ Len(SubSeq(h, 1, n)) = n
      /\ \A i \in 1..n : SubSeq(h, 1, n)[i] = h[i]
  <2>1. (IF 1 <= n THEN n - 1 + 1 ELSE 0) = n /\ n - 1 + 1 = n /\ \A i \in 1..n : 1 + i - 1 = i
    BY <1>3
  <2>2. QED
    BY <1>4, <2>1
<1>6. QED
  BY <1>3, <1>4, <1>5 DEF n

\* Frames have numbers.
LEMMA Numbers ==
  ASSUME NEW t \in Seq(0..MaxFrames)
  PROVE  t \in Seq(Nat)
<1>1. MaxFrames \in Nat /\ Len(t) \in Nat /\ t \in [1..Len(t) -> 0..MaxFrames]
  BY ProviderAssumption, LenProperties
<1>2. t \in [1..Len(t) -> Nat]
  BY <1>1
<1>3. QED
  BY <1>1, <1>2, SeqDef

\* What is told of the frames there were is what the record is to say.
LEMMA TextTold ==
  ASSUME NEW h \in Seq(FrameType), NEW t \in Seq(0..MaxFrames), IsText(t, h, Len(h))
  PROVE  t = Texts(h)
<1>1. t \in Seq(Nat)
  BY Numbers
<1>2. Len(h) \in Nat /\ DOMAIN h = 1..Len(h)
  BY HeardType
<1>3. QED
  BY <1>1, <1>2, TextIsTexts

LEMMA CountsTold ==
  ASSUME NEW h \in Seq(FrameType), NEW what
  PROVE  /\ IsLast(what, InsOf(h), Len(h)) => what = LastSaid(InsOf(h))
         /\ IsLast(what, OutsOf(h), Len(h)) => what = LastSaid(OutsOf(h))
         /\ IsLast(what, ReasonsOf(h), Len(h)) => what = LastSaid(ReasonsOf(h))
<1>1. /\ Len(h) \in Nat
      /\ DOMAIN InsOf(h) = 1..Len(h) /\ DOMAIN OutsOf(h) = 1..Len(h) /\ DOMAIN ReasonsOf(h) = 1..Len(h)
  BY HeardType
<1>2. QED
  BY <1>1, LastIsLastSaid

LEMMA TextToldInFront ==
  ASSUME NEW h \in Seq(FrameType), h # <<>>, NEW t \in Seq(0..MaxFrames), IsText(t, h, Len(h) - 1)
  PROVE  t = Texts(Front(h))
<1>1. /\ Front(h) \in Seq(FrameType) /\ Len(Front(h)) = Len(h) - 1 /\ Len(h) - 1 \in Nat
      /\ \A i \in 1..(Len(h) - 1) : Front(h)[i] = h[i]
  BY Fronts, HeardType
<1>2. {i \in 1..(Len(h) - 1) : Front(h)[i].text} = {i \in 1..(Len(h) - 1) : h[i].text}
  BY <1>1
<1>3. IsText(t, Front(h), Len(Front(h)))
  BY <1>1, <1>2 DEF IsText
<1>4. QED
  BY <1>1, <1>3, TextTold

LEMMA CountsToldInFront ==
  ASSUME NEW h \in Seq(FrameType), h # <<>>, NEW what
  PROVE  /\ IsLast(what, InsOf(h), Len(h) - 1) => what = LastSaid(InsOf(Front(h)))
         /\ IsLast(what, OutsOf(h), Len(h) - 1) => what = LastSaid(OutsOf(Front(h)))
<1>1. /\ Front(h) \in Seq(FrameType) /\ Len(Front(h)) = Len(h) - 1 /\ Len(h) - 1 \in Nat
      /\ \A i \in 1..(Len(h) - 1) : Front(h)[i] = h[i]
  BY Fronts, HeardType
<1>2. \A i \in 1..(Len(h) - 1) : InsOf(Front(h))[i] = InsOf(h)[i] /\ OutsOf(Front(h))[i] = OutsOf(h)[i]
  <2> SUFFICES ASSUME NEW i \in 1..(Len(h) - 1)
               PROVE  InsOf(Front(h))[i] = InsOf(h)[i] /\ OutsOf(Front(h))[i] = OutsOf(h)[i]
    OBVIOUS
  <2>1. i \in 1..Len(h) /\ i \in 1..Len(Front(h))
    BY <1>1
  <2>2. InsOf(h)[i] = In(h[i].usage) /\ OutsOf(h)[i] = Out(h[i].usage)
    BY <2>1, HeardType
  <2>3. InsOf(Front(h))[i] = In(Front(h)[i].usage) /\ OutsOf(Front(h))[i] = Out(Front(h)[i].usage)
    BY <1>1, <2>1, HeardType
  <2>4. QED
    BY <1>1, <2>2, <2>3
<1>3. /\ IsLast(what, InsOf(h), Len(h) - 1) => IsLast(what, InsOf(Front(h)), Len(Front(h)))
      /\ IsLast(what, OutsOf(h), Len(h) - 1) => IsLast(what, OutsOf(Front(h)), Len(Front(h)))
  BY <1>1, <1>2, LastSame
<1>4. QED
  BY <1>1, <1>3, CountsTold

\* One frame more.
LEMMA HeardMore ==
  ASSUME NEW h \in Seq(FrameType), NEW f \in FrameType
  PROVE  LET g == Append(h, f)
         IN  /\ g \in Seq(FrameType) /\ Len(g) = Len(h) + 1 /\ g[Len(h) + 1] = f /\ g # <<>>
             /\ \A i \in 1..Len(h) : /\ g[i] = h[i] /\ InsOf(g)[i] = InsOf(h)[i]
                                     /\ OutsOf(g)[i] = OutsOf(h)[i] /\ ReasonsOf(g)[i] = ReasonsOf(h)[i]
             /\ InsOf(g)[Len(h) + 1] = In(f.usage) /\ OutsOf(g)[Len(h) + 1] = Out(f.usage)
             /\ ReasonsOf(g)[Len(h) + 1] = f.reason
<1> DEFINE g == Append(h, f)
<1>1. /\ g \in Seq(FrameType) /\ Len(g) = Len(h) + 1 /\ g[Len(h) + 1] = f
      /\ \A i \in 1..Len(h) : g[i] = h[i]
  BY AppendProperties
<1> HIDE DEF g
<1>2. Len(h) \in Nat /\ \A i \in 1..Len(h) : i \in 1..Len(g)
  BY <1>1, HeardType
<1>3. Len(h) + 1 \in 1..Len(g) /\ g # <<>>
  BY <1>1, <1>2, HeardType
<1>4. \A i \in 1..Len(g) : /\ InsOf(g)[i] = In(g[i].usage) /\ OutsOf(g)[i] = Out(g[i].usage)
                           /\ ReasonsOf(g)[i] = g[i].reason
  BY <1>1, HeardType
<1>5. \A i \in 1..Len(h) : /\ InsOf(h)[i] = In(h[i].usage) /\ OutsOf(h)[i] = Out(h[i].usage)
                           /\ ReasonsOf(h)[i] = h[i].reason
  BY HeardType
<1>6. QED
  BY <1>1, <1>2, <1>3, <1>4, <1>5 DEF g

(***************************************************************************)
(* The steps.                                                              *)
(***************************************************************************)
\* What is not touched stays as it was.
LEMMA Untouched ==
  ASSUME AiInv, UNCHANGED <<vendor, mode, heard, carried, queue, last, yielded, tally>>
  PROVE  Bracketed' /\ (Streamed => Tells)'
<1>1. Bracketed /\ (Streamed => Tells)
  BY DEF AiInv
<1>2. Bracketed'
  BY <1>1 DEF Bracketed, AllSaid, Came, Streamed
<1>3. Streamed' = Streamed
  BY DEF Streamed
<1>4. ASSUME Streamed PROVE Tells'
  BY <1>1, <1>4 DEF Tells
<1>5. QED
  BY <1>2, <1>3, <1>4

\* A call that fails is told of as far as it was listened to, and its failure
\* is told for what it was.
LEMMA FailsStep ==
  ASSUME AiInv, phase \in {"calling", "reading"},
         NEW why \in {"unreachable", "key", "refused", "said", "garbled", "wordless", "broken"},
         NEW category \in {"network", "provider", "configuration"},
         category = "configuration" <=> why = "key",
         category = "network" <=> why \in {"unreachable", "broken"},
         Fails(why, category), heard' \in Seq(FrameType), Len(heard') <= MaxFrames,
         Bracketed', (Streamed => Tells)'
  PROVE  AiInv'
<1>1. /\ AiProvidersTypeOK /\ PhasesAgree
  BY DEF AiInv
<1>2. /\ phase' = "over" /\ record' = AiRecord("error", tally, category)
      /\ thrown' = "upstream" /\ cause' = why /\ vendor' = vendor /\ mode' = mode
      /\ carried' = carried /\ queue' = queue /\ last' = last /\ yielded' = yielded /\ tally' = tally
  BY DEF Fails, Asked
<1>3. queue = <<>> /\ tally \in TallyType /\ last \in BOOLEAN
  BY <1>1 DEF PhasesAgree, AiProvidersTypeOK
<1>4. /\ record' \in RecordType /\ record' # Null /\ record'.status = "error" /\ record'.error = category
      /\ record'.response = Capped(tally.text) /\ record'.tokensIn = tally.tokensIn
      /\ record'.tokensOut = tally.tokensOut
  <2>1. category \in Unsaid({"network", "provider", "configuration"})
    BY DEF Unsaid
  <2>2. QED
    BY <1>2, <1>3, <2>1, AiRecordType
<1>5. AiProvidersTypeOK'
  BY <1>1, <1>2, <1>4 DEF AiProvidersTypeOK, Unsaid
<1>6. PhasesAgree'
  BY <1>1, <1>2 DEF PhasesAgree
<1>7. BlameIsRight'
  BY <1>2, <1>4 DEF BlameIsRight
<1>8. RecordIsTheAnswer'
  <2> SUFFICES ASSUME mode' = "stream", vendor' # "atomic"
               PROVE  /\ record'.response = Capped(Texts(heard'))
                      /\ record'.tokensIn = LastSaid(InsOf(heard'))
                      /\ record'.tokensOut = LastSaid(OutsOf(heard'))
    BY <1>4 DEF RecordIsTheAnswer
  <2>1. Tells'
    BY DEF Streamed
  <2>2. /\ IsText(tally'.text, heard', Len(heard'))
        /\ IsLast(tally'.tokensIn, InsOf(heard'), Len(heard'))
        /\ IsLast(tally'.tokensOut, OutsOf(heard'), Len(heard'))
    BY <1>2, <1>3, <2>1 DEF Tells
  <2>3. tally.text \in Seq(0..MaxFrames)
    BY <1>3 DEF TallyType
  <2>4. tally.text = Texts(heard')
    BY <1>2, <2>2, <2>3, TextTold
  <2>5. tally.tokensIn = LastSaid(InsOf(heard')) /\ tally.tokensOut = LastSaid(OutsOf(heard'))
    BY <1>2, <2>2, CountsTold
  <2>6. QED
    BY <1>4, <2>4, <2>5
<1>9. QED
  BY <1>4, <1>5, <1>6, <1>7, <1>8 DEF AiInv

\* An answer told to its end.
LEMMA CompleteStep ==
  ASSUME AiInv, phase \in {"reading", "yielded"}, queue = <<>>, vendor # "anthropic" => last,
         Complete(tally)
  PROVE  AiInv'
<1>1. /\ AiProvidersTypeOK /\ PhasesAgree /\ Bracketed /\ (Streamed => Tells) /\ BlameIsRight
  BY DEF AiInv
<1>2. /\ phase' = "over" /\ record' = AiRecord("ok", tally, Null)
      /\ vendor' = vendor /\ mode' = mode /\ heard' = heard /\ carried' = carried /\ queue' = queue
      /\ last' = last /\ yielded' = yielded /\ tally' = tally /\ thrown' = thrown /\ cause' = cause
  BY DEF Complete, Asked
<1>3. /\ tally \in TallyType /\ last \in BOOLEAN /\ mode = "stream" /\ cause = "none" /\ thrown = "nothing"
      /\ heard \in Seq(FrameType)
      /\ last => vendor # "anthropic"
  BY <1>1 DEF PhasesAgree, AiProvidersTypeOK
<1>4. /\ record' \in RecordType /\ record' # Null /\ record'.status = "ok" /\ record'.error = Null
      /\ record'.response = Capped(tally.text) /\ record'.tokensIn = tally.tokensIn
      /\ record'.tokensOut = tally.tokensOut /\ record'.stopReason = tally.stopReason
  <2>1. Null \in Unsaid({"network", "provider", "configuration"})
    BY DEF Unsaid
  <2>2. QED
    BY <1>2, <1>3, <2>1, AiRecordType
<1>5. Bracketed' /\ (Streamed => Tells)'
  BY <1>2, Untouched
<1>6. AiProvidersTypeOK'
  BY <1>1, <1>2, <1>4 DEF AiProvidersTypeOK, Unsaid
<1>7. PhasesAgree'
  BY <1>1, <1>2 DEF PhasesAgree
<1>8. BlameIsRight'
  BY <1>2, <1>3, <1>4 DEF BlameIsRight
<1>9. tally.sawStop <=> last \/ (vendor = "anthropic" /\ Came("message_stop"))
  <2>1. ~Has(queue, "message_stop")
    BY DEF Has
  <2>2. tally.sawStop \in BOOLEAN
    BY <1>3 DEF TallyType
  <2>3. QED
    BY <1>1, <1>3, <2>1, <2>2 DEF Bracketed, AllSaid
<1>10. vendor # "anthropic" => tally.sawStop
  BY <1>9
<1>11. RecordIsTheAnswer'
  <2> SUFFICES ASSUME vendor # "atomic"
               PROVE  /\ record'.response = Capped(Texts(heard))
                      /\ record'.tokensIn = LastSaid(InsOf(heard))
                      /\ record'.tokensOut = LastSaid(OutsOf(heard))
                      /\ record'.stopReason =
                           IF vendor = "openai" \/ (\E i \in DOMAIN heard : heard[i].kind = "message_stop")
                           THEN StopReason(LastSaid(ReasonsOf(heard))) ELSE Null
    BY <1>2, <1>4 DEF RecordIsTheAnswer
  <2>1. Tells
    BY <1>1, <1>3 DEF Streamed
  <2>2. /\ IsText(tally.text, heard, Len(heard))
        /\ IsLast(tally.tokensIn, InsOf(heard), Len(heard))
        /\ IsLast(tally.tokensOut, OutsOf(heard), Len(heard))
        /\ IsLast(carried, ReasonsOf(heard), Len(heard))
        /\ tally.stopReason = IF tally.sawStop THEN StopReason(carried) ELSE Null
    BY <2>1 DEF Tells
  <2>3. tally.text \in Seq(0..MaxFrames)
    BY <1>3 DEF TallyType
  <2>4. tally.text = Texts(heard)
    BY <1>3, <2>2, <2>3, TextTold
  <2>5. /\ tally.tokensIn = LastSaid(InsOf(heard)) /\ tally.tokensOut = LastSaid(OutsOf(heard))
        /\ carried = LastSaid(ReasonsOf(heard))
    BY <1>3, <2>2, CountsTold
  <2>6. vendor \in {"openai", "anthropic"}
    BY <1>1, ProviderAssumption DEF AiProvidersTypeOK
  <2>7. tally.sawStop <=> vendor = "openai" \/ Came("message_stop")
    BY <1>3, <1>9, <1>10, <2>6
  <2>8. QED
    BY <1>4, <2>2, <2>4, <2>5, <2>7 DEF Came
<1>12. QED
  BY <1>2, <1>4, <1>5, <1>6, <1>7, <1>8, <1>10, <1>11 DEF AiInv

\* Whoever walks away leaves what was not yet handed over of the last frame.
LEMMA WalkAwayStep ==
  ASSUME AiInv, WalkAway
  PROVE  AiInv'
<1>1. /\ AiProvidersTypeOK /\ PhasesAgree /\ Bracketed /\ (Streamed => Tells) /\ BlameIsRight
  BY DEF AiInv
<1> DEFINE status == IF tally.sawStop THEN "ok" ELSE "cancelled"
<1>2. /\ phase = "yielded" /\ phase' = "over" /\ record' = AiRecord(status, tally, Null)
      /\ vendor' = vendor /\ mode' = mode /\ heard' = heard /\ carried' = carried /\ queue' = queue
      /\ last' = last /\ yielded' = yielded /\ tally' = tally /\ thrown' = thrown /\ cause' = cause
  BY DEF WalkAway, Asked
<1>3. /\ tally \in TallyType /\ last \in BOOLEAN /\ mode = "stream" /\ cause = "none" /\ thrown = "nothing"
      /\ heard \in Seq(FrameType) /\ tally.sawStop \in BOOLEAN
  BY <1>1, <1>2 DEF PhasesAgree, AiProvidersTypeOK, TallyType
<1>4. /\ record' \in RecordType /\ record' # Null /\ record'.status = status /\ record'.error = Null
      /\ record'.response = Capped(tally.text) /\ record'.tokensIn = tally.tokensIn
      /\ record'.tokensOut = tally.tokensOut
      /\ status = "ok" => record'.stopReason = tally.stopReason
  <2>1. Null \in Unsaid({"network", "provider", "configuration"}) /\ status \in {"ok", "error", "cancelled"}
    BY DEF Unsaid
  <2> HIDE DEF status
  <2>2. status = "ok" => status # "cancelled"
    OBVIOUS
  <2>3. QED
    BY <1>2, <1>3, <2>1, <2>2, AiRecordType
<1>5. status = "ok" <=> tally.sawStop
  OBVIOUS
<1>6. status = "ok" \/ status = "cancelled"
  OBVIOUS
<1> HIDE DEF status
<1>7. Bracketed' /\ (Streamed => Tells)'
  BY <1>2, Untouched
<1>8. AiProvidersTypeOK'
  BY <1>1, <1>2, <1>4 DEF AiProvidersTypeOK, Unsaid
<1>9. PhasesAgree'
  BY <1>1, <1>2 DEF PhasesAgree
<1>10. BlameIsRight'
  BY <1>2, <1>3, <1>4 DEF BlameIsRight
<1>11. ASSUME tally.sawStop PROVE queue = <<>> /\ (vendor = "openai" \/ last \/ Came("message_stop"))
  BY <1>1, <1>11 DEF Bracketed, AllSaid
<1>12. RecordIsTheAnswer'
  <2> SUFFICES ASSUME vendor # "atomic"
               PROVE  LET listened == IF status = "cancelled" THEN {heard, Front(heard)} ELSE {heard}
                          final == vendor = "openai" \/ (\E i \in DOMAIN heard : heard[i].kind = "message_stop")
                      IN  /\ \E h \in listened : record'.response = Capped(Texts(h))
                          /\ \E h \in listened : record'.tokensIn = LastSaid(InsOf(h))
                          /\ \E h \in listened : record'.tokensOut = LastSaid(OutsOf(h))
                          /\ status = "ok" =>
                               record'.stopReason = IF final THEN StopReason(LastSaid(ReasonsOf(heard))) ELSE Null
    BY <1>2, <1>4 DEF RecordIsTheAnswer
  <2>1. Tells
    BY <1>1, <1>3 DEF Streamed
  <2>2. tally.text \in Seq(0..MaxFrames)
    BY <1>3 DEF TallyType
  <2>3. /\ \/ tally.text = Texts(heard)
           \/ (\E i \in DOMAIN queue : queue[i].text # Null) /\ heard # <<>> /\ tally.text = Texts(Front(heard))
        /\ \/ tally.tokensIn = LastSaid(InsOf(heard))
           \/ (\E i \in DOMAIN queue : queue[i].tokensIn # Null) /\ tally.tokensIn = LastSaid(InsOf(Front(heard)))
        /\ \/ tally.tokensOut = LastSaid(OutsOf(heard))
           \/ (\E i \in DOMAIN queue : queue[i].tokensOut # Null) /\ tally.tokensOut = LastSaid(OutsOf(Front(heard)))
    <3>1. \/ tally.text = Texts(heard)
          \/ (\E i \in DOMAIN queue : queue[i].text # Null) /\ heard # <<>> /\ tally.text = Texts(Front(heard))
      <4>1. CASE IsText(tally.text, heard, Len(heard))
        BY <1>3, <2>2, <4>1, TextTold
      <4>2. CASE /\ \E i \in DOMAIN queue : queue[i].text # Null
                 /\ heard # <<>> /\ IsText(tally.text, heard, Len(heard) - 1)
        BY <1>3, <2>2, <4>2, TextToldInFront
      <4>3. QED
        BY <2>1, <4>1, <4>2, Zenon DEF Tells
    <3>3. \/ tally.tokensIn = LastSaid(InsOf(heard))
          \/ (\E i \in DOMAIN queue : queue[i].tokensIn # Null) /\ tally.tokensIn = LastSaid(InsOf(Front(heard)))
      <4>1. CASE IsLast(tally.tokensIn, InsOf(heard), Len(heard))
        BY <1>3, <4>1, CountsTold
      <4>2. CASE /\ \E i \in DOMAIN queue : queue[i].tokensIn # Null
                 /\ IsLast(tally.tokensIn, InsOf(heard), Len(heard) - 1)
        <5>1. heard # <<>>
          BY <2>1, <4>2 DEF Tells
        <5>2. QED
          BY <1>3, <4>2, <5>1, CountsToldInFront
      <4>3. QED
        BY <2>1, <4>1, <4>2 DEF Tells
    <3>4. \/ tally.tokensOut = LastSaid(OutsOf(heard))
          \/ (\E i \in DOMAIN queue : queue[i].tokensOut # Null) /\ tally.tokensOut = LastSaid(OutsOf(Front(heard)))
      <4>1. CASE IsLast(tally.tokensOut, OutsOf(heard), Len(heard))
        BY <1>3, <4>1, CountsTold
      <4>2. CASE /\ \E i \in DOMAIN queue : queue[i].tokensOut # Null
                 /\ IsLast(tally.tokensOut, OutsOf(heard), Len(heard) - 1)
        <5>1. heard # <<>>
          BY <2>1, <4>2 DEF Tells
        <5>2. QED
          BY <1>3, <4>2, <5>1, CountsToldInFront
      <4>3. QED
        BY <2>1, <4>1, <4>2 DEF Tells
    <3>5. QED
      BY <3>1, <3>3, <3>4
  <2>4. CASE status = "cancelled"
    BY <1>4, <2>3, <2>4
  <2>5. CASE status = "ok"
    <3>1. tally.sawStop /\ queue = <<>>
      BY <1>5, <1>11, <2>5
    <3>2. /\ tally.text = Texts(heard) /\ tally.tokensIn = LastSaid(InsOf(heard))
          /\ tally.tokensOut = LastSaid(OutsOf(heard))
      BY <2>3, <3>1
    <3>3. tally.stopReason = StopReason(carried) /\ carried = LastSaid(ReasonsOf(heard))
      BY <1>3, <2>1, <3>1, CountsTold DEF Tells
    <3>4. vendor = "openai" \/ \E i \in DOMAIN heard : heard[i].kind = "message_stop"
      <4>1. vendor \in {"openai", "anthropic"}
        BY <1>1, ProviderAssumption DEF AiProvidersTypeOK
      <4>2. ~(last /\ vendor = "anthropic")
        BY <1>1 DEF PhasesAgree
      <4>3. QED
        BY <1>11, <3>1, <4>1, <4>2 DEF Came
    <3>5. QED
      BY <1>4, <2>5, <3>2, <3>3, <3>4
  <2>6. QED
    BY <1>6, <2>4, <2>5
<1>13. QED
  BY <1>2, <1>4, <1>5, <1>7, <1>8, <1>9, <1>10, <1>12 DEF AiInv

\* A call that answers whole.
LEMMA RepliedStep ==
  ASSUME AiInv, Replied
  PROVE  AiInv'
<1>1. /\ AiProvidersTypeOK /\ PhasesAgree /\ Bracketed /\ (Streamed => Tells) /\ BlameIsRight
  BY DEF AiInv
<1>2. phase = "calling" /\ (mode = "unary" \/ vendor = "atomic")
  BY DEF Replied
<1>3. PICK r \in Replies :
        \/ Fails("wordless", "provider") /\ heard' = heard
        \/ mode = "unary" /\ Complete(OutcomeOf(r))
        \/ /\ mode # "unary" /\ queue' = AtomicEvents(r)
           /\ phase' = "handing" /\ last' = TRUE
           /\ UNCHANGED <<Asked, heard, carried, yielded, tally, record, thrown, cause>>
  BY DEF Replied
<1>4. /\ tally = Tally0 /\ yielded = <<>> /\ heard = <<>> /\ carried = Null /\ queue = <<>> /\ ~last
      /\ record = Null /\ cause = "none" /\ thrown = "nothing"
      /\ heard \in Seq(FrameType) /\ tally \in TallyType /\ Len(heard) <= MaxFrames
  BY <1>1, <1>2 DEF PhasesAgree, AiProvidersTypeOK
<1>5. CASE Fails("wordless", "provider") /\ heard' = heard
  <2>1. Bracketed' /\ (Streamed => Tells)'
    BY <1>5, Untouched DEF Fails, Asked
  <2>2. QED
    BY <1>2, <1>4, <1>5, <2>1, FailsStep
<1>6. CASE mode = "unary" /\ Complete(OutcomeOf(r))
  <2>1. /\ phase' = "over" /\ record' = AiRecord("ok", OutcomeOf(r), Null)
        /\ vendor' = vendor /\ mode' = mode /\ heard' = heard /\ carried' = carried /\ queue' = queue
        /\ last' = last /\ yielded' = yielded /\ tally' = tally /\ thrown' = thrown /\ cause' = cause
    BY <1>6 DEF Complete, Asked
  <2>2. OutcomeOf(r) \in TallyType
    <3>1. /\ r.usage \in Usage \cup {<<Null, Null>>} /\ r.model \in Unsaid({"served"})
          /\ r.reason \in Unsaid({"stop", "end_turn", "novel"})
      BY DEF Replies, Unsaid
    <3>2. r.usage[1] \in Unsaid(Count) /\ r.usage[2] \in Unsaid(Count)
      BY <3>1 DEF Usage, Count, Unsaid
    <3>3. StopReason(r.reason) \in Unsaid(StopReasons)
      BY <3>1, Words
    <3>4. <<0>> \in Seq(0..MaxFrames)
      <4>1. 0 \in 0..MaxFrames
        BY ProviderAssumption
      <4>2. QED
        BY <4>1
    <3>5. QED
      BY <3>1, <3>2, <3>3, <3>4 DEF OutcomeOf, TallyType
  <2>3. record' \in RecordType /\ record' # Null /\ record'.status = "ok" /\ record'.error = Null
    <3>1. Null \in Unsaid({"network", "provider", "configuration"})
      BY DEF Unsaid
    <3>2. QED
      BY <2>1, <2>2, <3>1, AiRecordType
  <2>4. Bracketed' /\ (Streamed => Tells)'
    BY <2>1, Untouched
  <2>5. AiProvidersTypeOK'
    BY <1>1, <2>1, <2>3 DEF AiProvidersTypeOK, Unsaid
  <2>6. PhasesAgree'
    BY <1>1, <2>1 DEF PhasesAgree
  <2>7. BlameIsRight'
    BY <1>4, <2>1, <2>3 DEF BlameIsRight
  <2>8. RecordIsTheAnswer'
    BY <1>6, <2>1 DEF RecordIsTheAnswer
  <2>9. QED
    BY <1>6, <2>1, <2>4, <2>5, <2>6, <2>7, <2>8 DEF AiInv
<1>7. CASE /\ mode # "unary" /\ queue' = AtomicEvents(r)
           /\ phase' = "handing" /\ last' = TRUE
           /\ UNCHANGED <<Asked, heard, carried, yielded, tally, record, thrown, cause>>
  <2>1. /\ vendor = "atomic" /\ vendor' = vendor /\ mode' = mode /\ heard' = heard /\ carried' = carried
        /\ yielded' = yielded /\ tally' = tally /\ record' = record /\ thrown' = thrown /\ cause' = cause
        /\ phase' = "handing" /\ last' = TRUE
    BY <1>2, <1>7 DEF Asked
  <2>2. Shape(queue', TRUE, TRUE)
    BY <1>7, AtomicShape
  <2>3. queue' # <<>> /\ queue' \in Seq(EventType)
    BY <2>2 DEF Shape, Has
  <2>4. AiProvidersTypeOK'
    BY <1>1, <2>1, <2>3 DEF AiProvidersTypeOK
  <2>5. mode = "stream"
    BY <1>1, <1>7 DEF AiProvidersTypeOK
  <2>6. PhasesAgree'
    BY <1>1, <1>4, <2>1, <2>3, <2>5 DEF PhasesAgree
  <2>7. ~tally.sawStop /\ ~Has(yielded, "message_stop") /\ DOMAIN yielded = {}
    BY <1>4 DEF Tally0, Has
  <2>8. Bracketed'
    <3>1. /\ \A i \in DOMAIN queue' : WellFormed(queue'[i])
          /\ \A i \in DOMAIN queue' : queue'[i].type = "message_start" <=> i = 1 /\ yielded' = <<>>
          /\ \A i \in DOMAIN queue' : queue'[i].type = "message_stop" => i = Len(queue') /\ ~tally'.sawStop
          /\ Has(queue', "message_stop")
      BY <1>4, <2>1, <2>2, <2>7 DEF Shape
    <3>2. AllSaid' /\ ~Streamed'
      BY <2>1 DEF AllSaid, Streamed
    <3>3. /\ \A i \in DOMAIN yielded' : yielded'[i].type = "message_start" <=> i = 1
          /\ \A i \in DOMAIN yielded' : yielded'[i].type = "message_stop" => i = Len(yielded')
          /\ ~tally'.sawStop /\ ~Has(yielded', "message_stop")
      BY <2>1, <2>7
    <3>4. QED
      BY <3>1, <3>2, <3>3 DEF Bracketed
  <2>9. ~Streamed'
    BY <2>1 DEF Streamed
  <2>10. BlameIsRight' /\ RecordIsTheAnswer'
    BY <1>4, <2>1 DEF BlameIsRight, RecordIsTheAnswer
  <2>11. QED
    BY <1>4, <2>1, <2>4, <2>6, <2>8, <2>9, <2>10 DEF AiInv
<1>8. QED
  BY <1>3, <1>5, <1>6, <1>7

\* Steps that leave the answer alone.
LEMMA OpeningStep ==
  ASSUME AiInv, StreamOpens \/ Crash
  PROVE  AiInv'
<1>1. /\ AiProvidersTypeOK /\ PhasesAgree /\ RecordIsTheAnswer /\ BlameIsRight
  BY DEF AiInv
<1>2. /\ phase = "calling" /\ vendor' = vendor /\ mode' = mode /\ heard' = heard /\ carried' = carried
      /\ queue' = queue /\ last' = last /\ yielded' = yielded /\ tally' = tally /\ record' = record
  BY DEF StreamOpens, Crash, Asked
<1>3. \/ /\ phase' = "reading" /\ mode = "stream" /\ vendor # "atomic" /\ thrown' = thrown /\ cause' = cause
      \/ phase' = "over" /\ thrown' = "bug" /\ cause' = "bug"
  BY DEF StreamOpens, Crash
<1>4. queue = <<>> /\ ~last /\ record = Null
  BY <1>1, <1>2 DEF PhasesAgree
<1>5. Bracketed' /\ (Streamed => Tells)'
  BY <1>2, Untouched
<1>6. AiProvidersTypeOK'
  BY <1>1, <1>2, <1>3 DEF AiProvidersTypeOK
<1>7. PhasesAgree'
  BY <1>1, <1>2, <1>3, <1>4 DEF PhasesAgree
<1>8. BlameIsRight' /\ RecordIsTheAnswer'
  BY <1>1, <1>2, <1>3, <1>4 DEF BlameIsRight, RecordIsTheAnswer
<1>9. QED
  BY <1>2, <1>4, <1>5, <1>6, <1>7, <1>8 DEF AiInv

LEMMA FailingStep ==
  ASSUME AiInv, Unreachable \/ Rejected \/ Breaks
  PROVE  AiInv'
<1>1. AiProvidersTypeOK
  BY DEF AiInv
<1>2. heard' = heard /\ heard \in Seq(FrameType) /\ Len(heard) <= MaxFrames
  BY <1>1 DEF Unreachable, Rejected, Breaks, AiProvidersTypeOK
<1>3. phase \in {"calling", "reading"}
  BY DEF Unreachable, Rejected, Breaks
<1>4. \/ Fails("unreachable", "network") \/ Fails("key", "configuration")
      \/ Fails("refused", "provider") \/ Fails("broken", "network")
  BY DEF Unreachable, Rejected, Breaks
<1>5. Bracketed' /\ (Streamed => Tells)'
  BY <1>2, <1>4, Untouched DEF Fails, Asked
<1>6. CASE Fails("unreachable", "network")
  BY <1>2, <1>3, <1>5, <1>6, FailsStep
<1>7. CASE Fails("key", "configuration")
  BY <1>2, <1>3, <1>5, <1>7, FailsStep
<1>8. CASE Fails("refused", "provider")
  BY <1>2, <1>3, <1>5, <1>8, FailsStep
<1>9. CASE Fails("broken", "network")
  BY <1>2, <1>3, <1>5, <1>9, FailsStep
<1>10. QED
  BY <1>4, <1>6, <1>7, <1>8, <1>9

\* An event handed over.
LEMMA YieldStep ==
  ASSUME AiInv, Yield
  PROVE  AiInv'
<1>1. /\ AiProvidersTypeOK /\ PhasesAgree /\ Bracketed /\ (Streamed => Tells) /\ BlameIsRight
      /\ RecordIsTheAnswer
  BY DEF AiInv
<1> DEFINE e == Head(queue)
<1>2. /\ phase = "handing" /\ phase' = "yielded" /\ tally' = Tallied(tally, e)
      /\ yielded' = Append(yielded, e) /\ queue' = Tail(queue)
      /\ vendor' = vendor /\ mode' = mode /\ heard' = heard /\ carried' = carried
      /\ last' = last /\ record' = record /\ thrown' = thrown /\ cause' = cause
  BY DEF Yield, Asked
<1>3. /\ queue # <<>> /\ queue \in Seq(EventType) /\ yielded \in Seq(EventType) /\ tally \in TallyType
      /\ heard \in Seq(FrameType) /\ tally.sawStop \in BOOLEAN /\ last \in BOOLEAN /\ record = Null
  BY <1>1, <1>2 DEF PhasesAgree, AiProvidersTypeOK, TallyType
<1>4. /\ e \in EventType /\ e = queue[1] /\ queue' \in Seq(EventType) /\ Len(queue') = Len(queue) - 1
      /\ \A i \in 1..Len(queue') : queue'[i] = queue[i + 1]
      /\ Len(queue) \in Nat /\ Len(queue) > 0 /\ DOMAIN queue = 1..Len(queue) /\ DOMAIN queue' = 1..Len(queue')
  <2>1. /\ e \in EventType /\ Tail(queue) \in Seq(EventType) /\ Len(Tail(queue)) = Len(queue) - 1
        /\ \A i \in 1..Len(Tail(queue)) : Tail(queue)[i] = queue[i + 1]
    BY <1>3, HeadTailProperties
  <2>2. Len(queue) \in Nat /\ Len(queue) > 0 /\ DOMAIN queue = 1..Len(queue) /\ e = queue[1]
    BY <1>3, EmptySeq, LenProperties
  <2>3. DOMAIN Tail(queue) = 1..Len(Tail(queue))
    BY <2>1, LenProperties
  <2>4. QED
    BY <1>2, <2>1, <2>2, <2>3
<1>5. /\ yielded' \in Seq(EventType) /\ Len(yielded') = Len(yielded) + 1 /\ yielded'[Len(yielded) + 1] = e
      /\ \A i \in 1..Len(yielded) : yielded'[i] = yielded[i]
      /\ Len(yielded) \in Nat /\ DOMAIN yielded = 1..Len(yielded) /\ DOMAIN yielded' = 1..(Len(yielded) + 1)
      /\ yielded' # <<>> /\ (yielded = <<>> <=> Len(yielded) = 0)
  <2>1. e \in EventType
    BY <1>4
  <2> HIDE DEF e
  <2>2. /\ Append(yielded, e) \in Seq(EventType) /\ Len(Append(yielded, e)) = Len(yielded) + 1
        /\ Append(yielded, e)[Len(yielded) + 1] = e
        /\ \A i \in 1..Len(yielded) : Append(yielded, e)[i] = yielded[i]
    BY <1>3, <2>1, AppendProperties
  <2>3. /\ Len(yielded) \in Nat /\ DOMAIN yielded = 1..Len(yielded) /\ (yielded = <<>> <=> Len(yielded) = 0)
    BY <1>3, EmptySeq, LenProperties
  <2>4. DOMAIN Append(yielded, e) = 1..(Len(yielded) + 1) /\ Append(yielded, e) # <<>>
    <3> DEFINE y == Append(yielded, e)
    <3>1. y \in Seq(EventType) /\ Len(y) = Len(yielded) + 1
      BY <2>2
    <3> HIDE DEF y
    <3>2. DOMAIN y = 1..Len(y) /\ (y = <<>> => Len(y) = 0)
      BY <3>1, LenProperties, EmptySeq
    <3>3. DOMAIN y = 1..(Len(yielded) + 1) /\ y # <<>>
      BY <2>3, <3>1, <3>2
    <3>4. QED
      BY <3>3 DEF y
  <2>5. QED
    BY <1>2, <2>2, <2>3, <2>4
<1>6. WellFormed(e) /\ 1 \in DOMAIN queue
  BY <1>1, <1>4 DEF Bracketed
<1> HIDE DEF e
<1>7. /\ tally' \in TallyType
      /\ tally'.tokensIn = Else(e.tokensIn, tally.tokensIn)
      /\ tally'.tokensOut = Else(e.tokensOut, tally.tokensOut)
      /\ tally'.text = IF e.text # Null THEN Append(tally.text, e.text) ELSE tally.text
      /\ tally'.sawStop = (tally.sawStop \/ e.type = "message_stop")
      /\ tally'.stopReason = IF e.type = "message_stop" THEN e.stopReason ELSE tally.stopReason
  BY <1>2, <1>3, <1>4, <1>6, TallyStep
<1>8. tally'.sawStop <=> tally.sawStop \/ e.type = "message_stop"
  BY <1>3, <1>7
<1>9. ~tally.sawStop
  BY <1>1, <1>3 DEF Bracketed
<1>10. ASSUME e.type = "message_stop" PROVE queue' = <<>> /\ Len(queue) = 1
  <2>1. 1 = Len(queue)
    BY <1>1, <1>4, <1>6, <1>10 DEF Bracketed
  <2>2. QED
    <3>1. queue' \in Seq(EventType) /\ Len(queue') = 0
      <4>1. queue' \in Seq(EventType) /\ Len(queue') = Len(queue) - 1
        BY <1>4
      <4>2. Len(queue) - 1 = 0
        BY <2>1
      <4>3. QED
        BY <4>1, <4>2
    <3>2. QED
      BY <2>1, <3>1, EmptySeq
<1>11. AiProvidersTypeOK'
  BY <1>1, <1>2, <1>4, <1>5, <1>7 DEF AiProvidersTypeOK
<1>12. PhasesAgree'
  BY <1>1, <1>2, <1>5 DEF PhasesAgree
<1>13. Bracketed'
  <2>1. \A i \in DOMAIN queue' : i + 1 \in DOMAIN queue /\ queue'[i] = queue[i + 1] /\ i + 1 # 1 /\ i # Len(queue)
    BY <1>4
  <2>2. \A i \in DOMAIN queue' : WellFormed(queue'[i])
    BY <1>1, <2>1 DEF Bracketed
  <2>3. \A i \in DOMAIN queue' : queue'[i].type # "message_start"
    BY <1>1, <2>1 DEF Bracketed
  <2>4. \A i \in DOMAIN queue' : queue'[i].type = "message_stop" => i = Len(queue') /\ ~tally'.sawStop
    <3> SUFFICES ASSUME NEW i \in DOMAIN queue', queue'[i].type = "message_stop"
                 PROVE  i = Len(queue') /\ ~tally'.sawStop
      OBVIOUS
    <3>1. i + 1 = Len(queue)
      BY <1>1, <2>1 DEF Bracketed
    <3>2. i = Len(queue')
      BY <1>4, <3>1
    <3>3. e.type # "message_stop"
      BY <1>4, <1>10, <3>1
    <3>4. QED
      BY <1>8, <1>9, <3>2, <3>3
  <2>5. e.type = "message_start" <=> yielded = <<>>
    BY <1>1, <1>4, <1>6 DEF Bracketed
  <2>6. \A i \in DOMAIN yielded' : \/ i \in DOMAIN yielded /\ yielded'[i] = yielded[i] /\ i # Len(yielded')
                                   \/ i = Len(yielded') /\ yielded'[i] = e
    <3> SUFFICES ASSUME NEW i \in DOMAIN yielded'
                 PROVE  \/ i \in DOMAIN yielded /\ yielded'[i] = yielded[i] /\ i # Len(yielded')
                        \/ i = Len(yielded') /\ yielded'[i] = e
      OBVIOUS
    <3>1. PICK m \in Nat : m = Len(yielded)
      BY <1>5
    <3>2. /\ i \in 1..(m + 1) /\ Len(yielded') = m + 1 /\ yielded'[m + 1] = e /\ DOMAIN yielded = 1..m
          /\ \A j \in 1..m : yielded'[j] = yielded[j]
      BY <1>5, <3>1
    <3>3. CASE i = m + 1
      BY <3>2, <3>3
    <3>4. CASE i # m + 1
      <4>1. i \in 1..m
        BY <3>2, <3>4
      <4>2. QED
        BY <3>2, <3>4, <4>1
    <3>5. QED
      BY <3>3, <3>4
  <2>7. \A i \in DOMAIN yielded' : yielded'[i].type = "message_start" <=> i = 1
    <3> SUFFICES ASSUME NEW i \in DOMAIN yielded'
                 PROVE  yielded'[i].type = "message_start" <=> i = 1
      OBVIOUS
    <3>1. CASE i \in DOMAIN yielded /\ yielded'[i] = yielded[i]
      BY <1>1, <3>1 DEF Bracketed
    <3>2. CASE i = Len(yielded') /\ yielded'[i] = e
      BY <1>5, <2>5, <3>2
    <3>3. QED
      BY <2>6, <3>1, <3>2
  <2>8. \A i \in DOMAIN yielded : yielded[i].type # "message_stop"
    BY <1>1, <1>9 DEF Bracketed, Has
  <2>9. \A i \in DOMAIN yielded' : yielded'[i].type = "message_stop" => i = Len(yielded')
    BY <2>6, <2>8
  <2>10. tally'.sawStop <=> Has(yielded', "message_stop")
    <3>1. ASSUME e.type = "message_stop" PROVE Has(yielded', "message_stop")
      <4>1. Len(yielded) + 1 \in DOMAIN yielded'
        BY <1>5
      <4>2. QED
        BY <1>5, <3>1, <4>1 DEF Has
    <3>2. ASSUME Has(yielded', "message_stop") PROVE e.type = "message_stop"
      BY <2>6, <2>8, <3>2 DEF Has
    <3>3. QED
      BY <1>8, <1>9, <3>1, <3>2
  <2>11. tally'.sawStop => queue' = <<>>
    BY <1>8, <1>9, <1>10
  <2>12. AllSaid' <=> tally'.sawStop \/ Has(queue', "message_stop")
    <3>1. AllSaid' <=> AllSaid
      BY <1>2 DEF AllSaid, Came
    <3>2. AllSaid <=> Has(queue, "message_stop")
      BY <1>1, <1>9 DEF Bracketed
    <3>3. Has(queue, "message_stop") <=> e.type = "message_stop" \/ Has(queue', "message_stop")
      <4>1. ASSUME NEW i \in DOMAIN queue, queue[i].type = "message_stop", i # 1
            PROVE  Has(queue', "message_stop")
        <5>1. i - 1 \in DOMAIN queue' /\ (i - 1) + 1 = i
          BY <1>4, <4>1
        <5>2. queue'[i - 1] = queue[i]
          BY <2>1, <5>1
        <5>3. QED
          BY <4>1, <5>1, <5>2 DEF Has
      <4>2. Has(queue', "message_stop") => Has(queue, "message_stop")
        BY <2>1 DEF Has
      <4>3. e.type = "message_stop" => Has(queue, "message_stop")
        BY <1>4, <1>6 DEF Has
      <4>4. Has(queue, "message_stop") => e.type = "message_stop" \/ Has(queue', "message_stop")
        BY <1>4, <4>1 DEF Has
      <4>5. QED
        BY <4>2, <4>3, <4>4
    <3>4. QED
      BY <1>8, <1>9, <3>1, <3>2, <3>3
  <2>13. (Streamed /\ vendor = "anthropic")' =>
           (Came("message_start")' <=> yielded' # <<>> \/ queue' # <<>>)
    BY <1>1, <1>2, <1>3, <1>5 DEF Bracketed, Streamed, Came
  <2>14. QED
    BY <1>5, <2>2, <2>3, <2>4, <2>7, <2>9, <2>10, <2>11, <2>12, <2>13 DEF Bracketed
<1>14. ASSUME Streamed' PROVE Tells'
  <2>1. Tells
    BY <1>1, <1>2, <1>14 DEF Streamed
  <2> DEFINE n == Len(heard)
  <2>2. n \in Nat /\ (heard # <<>> => n - 1 \in Nat /\ n - 1 + 1 = n /\ n \in 1..n)
    BY <1>3, HeardType
  <2>3. tally.text \in Seq(Nat)
    BY <1>3, Numbers DEF TallyType
  <2>4. \A i \in DOMAIN queue' : i + 1 \in DOMAIN queue /\ queue'[i] = queue[i + 1]
    BY <1>4
  <2>5. \A i \in DOMAIN queue : i = 1 \/ (i - 1 \in DOMAIN queue' /\ queue'[i - 1] = queue[i])
    <3> SUFFICES ASSUME NEW i \in DOMAIN queue, i # 1
                 PROVE  i - 1 \in DOMAIN queue' /\ queue'[i - 1] = queue[i]
      OBVIOUS
    <3>1. i - 1 \in DOMAIN queue' /\ (i - 1) + 1 = i
      BY <1>4
    <3>2. QED
      BY <2>4, <3>1
  <2>6. IF \E i \in DOMAIN queue' : queue'[i].text # Null
        THEN heard # <<>> /\ IsText(tally'.text, heard, n - 1)
        ELSE IsText(tally'.text, heard, n)
    <3>1. CASE e.text # Null
      <4>1. /\ heard # <<>> /\ IsText(tally.text, heard, n - 1) /\ e.text = n /\ heard[n].text
            /\ \A j \in DOMAIN queue : queue[j].text # Null => 1 = j
        BY <1>4, <1>6, <2>1, <3>1 DEF Tells
      <4>2. ~ \E i \in DOMAIN queue' : queue'[i].text # Null
        <5> SUFFICES ASSUME NEW i \in DOMAIN queue', queue'[i].text # Null PROVE FALSE
          OBVIOUS
        <5>1. i \in 1..Len(queue') /\ 1 = i + 1 /\ Len(queue') \in Nat
          BY <1>4, <2>4, <4>1
        <5>2. QED
          BY <5>1
      <4>3. IsText(Append(tally.text, n), heard, n)
        <5> HIDE DEF n
        <5> DEFINE m == n - 1
        <5>1. m \in Nat /\ m + 1 = n /\ IsText(tally.text, heard, m) /\ heard[m + 1].text
          BY <2>2, <4>1
        <5> HIDE DEF m
        <5>2. IsText(Append(tally.text, m + 1), heard, m + 1)
          BY <2>3, <5>1, TextMore
        <5>3. QED
          BY <5>1, <5>2
      <4>4. QED
        BY <1>7, <3>1, <4>1, <4>2, <4>3
    <3>2. CASE e.text = Null
      <4>1. (\E i \in DOMAIN queue' : queue'[i].text # Null) <=> \E i \in DOMAIN queue : queue[i].text # Null
        BY <1>4, <2>4, <2>5, <3>2
      <4>2. QED
        BY <1>7, <2>1, <3>2, <4>1 DEF Tells
    <3>3. QED
      BY <3>1, <3>2
  <2>7. \A i \in DOMAIN queue' : queue'[i].text # Null =>
          /\ queue'[i].text = n /\ heard[n].text
          /\ \A j \in DOMAIN queue' : queue'[j].text # Null => i = j
    <3> SUFFICES ASSUME NEW i \in DOMAIN queue', queue'[i].text # Null
                 PROVE  /\ queue'[i].text = n /\ heard[n].text
                        /\ \A j \in DOMAIN queue' : queue'[j].text # Null => i = j
      OBVIOUS
    <3>1. /\ queue[i + 1].text = n /\ heard[n].text
          /\ \A j \in DOMAIN queue : queue[j].text # Null => i + 1 = j
      BY <2>1, <2>4 DEF Tells
    <3>2. ASSUME NEW j \in DOMAIN queue', queue'[j].text # Null PROVE i = j
      <4>1. i + 1 = j + 1
        BY <2>4, <3>1, <3>2
      <4>2. i \in Nat /\ j \in Nat
        BY <1>4
      <4>3. QED
        BY <4>1, <4>2
    <3>3. QED
      BY <2>4, <3>1, <3>2
  <2>8. \/ IsLast(tally'.tokensIn, InsOf(heard), n)
        \/ /\ \E i \in DOMAIN queue' : queue'[i].tokensIn # Null
           /\ IsLast(tally'.tokensIn, InsOf(heard), n - 1)
    <3>1. CASE e.tokensIn # Null
      <4>1. heard # <<>> /\ e.tokensIn = InsOf(heard)[n] /\ tally'.tokensIn = e.tokensIn
        BY <1>4, <1>6, <1>7, <2>1, <3>1 DEF Tells, Else
      <4>2. n \in 1..n /\ \A j \in 1..n : ~(n < j)
        BY <2>2, <4>1
      <4>3. QED
        BY <3>1, <4>1, <4>2 DEF IsLast
    <3>2. CASE e.tokensIn = Null
      <4>1. tally'.tokensIn = tally.tokensIn
        BY <1>7, <3>2 DEF Else
      <4>2. (\E i \in DOMAIN queue : queue[i].tokensIn # Null) => \E i \in DOMAIN queue' : queue'[i].tokensIn # Null
        BY <1>4, <2>5, <3>2
      <4>3. QED
        BY <2>1, <4>1, <4>2 DEF Tells
    <3>3. QED
      BY <3>1, <3>2
  <2>9. \/ IsLast(tally'.tokensOut, OutsOf(heard), n)
        \/ /\ \E i \in DOMAIN queue' : queue'[i].tokensOut # Null
           /\ IsLast(tally'.tokensOut, OutsOf(heard), n - 1)
    <3>1. CASE e.tokensOut # Null
      <4>1. heard # <<>> /\ e.tokensOut = OutsOf(heard)[n] /\ tally'.tokensOut = e.tokensOut
        BY <1>4, <1>6, <1>7, <2>1, <3>1 DEF Tells, Else
      <4>2. n \in 1..n /\ \A j \in 1..n : ~(n < j)
        BY <2>2, <4>1
      <4>3. QED
        BY <3>1, <4>1, <4>2 DEF IsLast
    <3>2. CASE e.tokensOut = Null
      <4>1. tally'.tokensOut = tally.tokensOut
        BY <1>7, <3>2 DEF Else
      <4>2. (\E i \in DOMAIN queue : queue[i].tokensOut # Null) => \E i \in DOMAIN queue' : queue'[i].tokensOut # Null
        BY <1>4, <2>5, <3>2
      <4>3. QED
        BY <2>1, <4>1, <4>2 DEF Tells
    <3>3. QED
      BY <3>1, <3>2
  <2>10. \A i \in DOMAIN queue' :
           /\ queue'[i].tokensIn # Null => heard # <<>> /\ queue'[i].tokensIn = InsOf(heard)[n]
           /\ queue'[i].tokensOut # Null => heard # <<>> /\ queue'[i].tokensOut = OutsOf(heard)[n]
           /\ queue'[i].type = "message_stop" => queue'[i].stopReason = StopReason(carried)
    BY <2>1, <2>4 DEF Tells
  <2>11. tally'.stopReason = IF tally'.sawStop THEN StopReason(carried) ELSE Null
    BY <1>4, <1>6, <1>7, <1>8, <1>9, <2>1 DEF Tells
  <2>12. IsLast(carried, ReasonsOf(heard), n)
    BY <2>1 DEF Tells
  <2>13. QED
    BY <1>2, <2>6, <2>7, <2>8, <2>9, <2>10, <2>11, <2>12 DEF Tells
<1>15. BlameIsRight' /\ RecordIsTheAnswer'
  BY <1>1, <1>2, <1>3 DEF BlameIsRight, RecordIsTheAnswer
<1>16. QED
  BY <1>2, <1>3, <1>11, <1>12, <1>13, <1>14, <1>15 DEF AiInv

\* What the events of one frame, or of the end, do to what was told.
QueueBrackets(q, opens, stops, isLast) ==
  /\ Shape(q, opens, stops) /\ opens \in BOOLEAN /\ stops \in BOOLEAN /\ isLast \in BOOLEAN
  /\ q # <<>> => (opens <=> yielded = <<>>)
  /\ tally.sawStop => q = <<>>
  /\ isLast => q # <<>> /\ vendor # "anthropic"

LEMMA QueuedBrackets ==
  ASSUME AiInv, phase = "reading", NEW q, NEW opens, NEW stops, NEW isLast,
         QueueBrackets(q, opens, stops, isLast), Queues(q, isLast),
         AllSaid' <=> tally.sawStop \/ stops,
         vendor = "anthropic" => (Came("message_start")' <=> yielded # <<>> \/ q # <<>>)
  PROVE  Bracketed'
<1>1. Bracketed /\ tally.sawStop \in BOOLEAN /\ phase = "reading"
  BY DEF AiInv, AiProvidersTypeOK, TallyType
<1>2. queue' = q /\ yielded' = yielded /\ tally' = tally /\ vendor' = vendor
  BY DEF Queues, Asked
<1>3. /\ \A i \in DOMAIN q : WellFormed(q[i])
      /\ \A i \in DOMAIN q : q[i].type = "message_start" <=> i = 1 /\ opens
      /\ \A i \in DOMAIN q : q[i].type = "message_stop" => i = Len(q)
      /\ Has(q, "message_stop") <=> stops
  BY DEF QueueBrackets, Shape
<1>4. q # <<>> => (opens <=> yielded = <<>>)
  BY DEF QueueBrackets
<1>5. tally.sawStop => q = <<>>
  BY DEF QueueBrackets
<1>6. \A i \in DOMAIN q : q # <<>>
  OBVIOUS
<1>7. \A i \in DOMAIN q : q[i].type = "message_start" <=> i = 1 /\ yielded = <<>>
  BY <1>3, <1>4, <1>6
<1>8. \A i \in DOMAIN q : q[i].type = "message_stop" => i = Len(q) /\ ~tally.sawStop
  BY <1>3, <1>5, <1>6
<1>9. AllSaid' <=> tally.sawStop \/ Has(q, "message_stop")
  BY <1>3
<1>10. (Streamed /\ vendor = "anthropic")' =>
         (Came("message_start")' <=> yielded' # <<>> \/ queue' # <<>>)
  BY <1>2
<1>11. /\ \A i \in DOMAIN yielded : yielded[i].type = "message_start" <=> i = 1
       /\ \A i \in DOMAIN yielded : yielded[i].type = "message_stop" => i = Len(yielded)
       /\ tally.sawStop <=> Has(yielded, "message_stop")
  BY <1>1 DEF Bracketed
<1>12. QED
  BY <1>2, <1>3, <1>5, <1>7, <1>8, <1>9, <1>10, <1>11 DEF Bracketed

\* A frame more is told of once its events are.
LEMMA QueuedTells ==
  ASSUME AiInv, phase = "reading", Len(heard) < MaxFrames, NEW f \in FrameType, NEW q,
         heard' = Append(heard, f), carried' = Else(f.reason, carried), queue' = q, tally' = tally,
         Content(q, Len(heard) + 1, f.text, f.usage, carried'),
         tally.sawStop => f.reason = Null
  PROVE  (Streamed => Tells)'
<1>1. /\ AiProvidersTypeOK /\ PhasesAgree /\ (Streamed => Tells)
  BY DEF AiInv
<1>2. /\ heard \in Seq(FrameType) /\ tally \in TallyType /\ mode = "stream" /\ vendor # "atomic"
      /\ queue = <<>> /\ tally.sawStop \in BOOLEAN
  BY <1>1 DEF PhasesAgree, AiProvidersTypeOK, TallyType
<1>3. Tells
  BY <1>1, <1>2 DEF Streamed
<1>4. /\ IsText(tally.text, heard, Len(heard))
      /\ IsLast(tally.tokensIn, InsOf(heard), Len(heard))
      /\ IsLast(tally.tokensOut, OutsOf(heard), Len(heard))
      /\ IsLast(carried, ReasonsOf(heard), Len(heard))
      /\ tally.stopReason = IF tally.sawStop THEN StopReason(carried) ELSE Null
  BY <1>2, <1>3 DEF Tells
<1>5. PICK n \in Nat : n = Len(heard)
  BY <1>2, HeardType
<1>6. PICK g \in Seq(FrameType) : g = heard'
  BY <1>2, HeardMore
<1>7. /\ Len(g) = n + 1 /\ g[n + 1] = f /\ g # <<>>
      /\ \A i \in 1..n : /\ g[i] = heard[i] /\ InsOf(g)[i] = InsOf(heard)[i]
                         /\ OutsOf(g)[i] = OutsOf(heard)[i] /\ ReasonsOf(g)[i] = ReasonsOf(heard)[i]
      /\ InsOf(g)[n + 1] = In(f.usage) /\ OutsOf(g)[n + 1] = Out(f.usage) /\ ReasonsOf(g)[n + 1] = f.reason
  BY <1>2, <1>5, <1>6, HeardMore
<1>8. tally.text \in Seq(Nat)
  BY <1>2, Numbers DEF TallyType
<1>9. /\ IsText(tally.text, g, n)
      /\ ~f.text => IsText(tally.text, g, n + 1)
  BY <1>4, <1>5, <1>7, <1>8, TextMore
<1>10. /\ \A i \in DOMAIN q : q[i].text # Null =>
            f.text /\ q[i].text = n + 1 /\ \A j \in DOMAIN q : q[j].text # Null => i = j
       /\ f.text => \E i \in DOMAIN q : q[i].text # Null
       /\ \A i \in DOMAIN q :
            /\ q[i].tokensIn # Null => q[i].tokensIn = In(f.usage)
            /\ q[i].tokensOut # Null => q[i].tokensOut = Out(f.usage)
            /\ q[i].type = "message_stop" => q[i].stopReason = StopReason(carried')
       /\ In(f.usage) # Null => \E i \in DOMAIN q : q[i].tokensIn # Null
       /\ Out(f.usage) # Null => \E i \in DOMAIN q : q[i].tokensOut # Null
  BY <1>5 DEF Content
<1>11. IF \E i \in DOMAIN q : q[i].text # Null
       THEN IsText(tally.text, g, n) ELSE IsText(tally.text, g, n + 1)
  BY <1>9, <1>10
<1>12. /\ IsLast(Else(In(f.usage), tally.tokensIn), InsOf(g), n + 1)
       /\ IsLast(tally.tokensIn, InsOf(g), n)
  BY <1>4, <1>5, <1>7, LastMore, LastSame
<1>13. /\ IsLast(Else(Out(f.usage), tally.tokensOut), OutsOf(g), n + 1)
       /\ IsLast(tally.tokensOut, OutsOf(g), n)
  BY <1>4, <1>5, <1>7, LastMore, LastSame
<1>14. IsLast(carried', ReasonsOf(g), n + 1)
  <2>1. IsLast(Else(f.reason, carried), ReasonsOf(g), n + 1)
    BY <1>4, <1>5, <1>7, LastMore
  <2>2. QED
    BY <2>1
<1>15. \/ IsLast(tally.tokensIn, InsOf(g), n + 1)
       \/ (\E i \in DOMAIN q : q[i].tokensIn # Null) /\ IsLast(tally.tokensIn, InsOf(g), n)
  BY <1>10, <1>12 DEF Else
<1>16. \/ IsLast(tally.tokensOut, OutsOf(g), n + 1)
       \/ (\E i \in DOMAIN q : q[i].tokensOut # Null) /\ IsLast(tally.tokensOut, OutsOf(g), n)
  BY <1>10, <1>13 DEF Else
<1>17. tally.stopReason = IF tally.sawStop THEN StopReason(carried') ELSE Null
  BY <1>2, <1>4 DEF Else
<1>18. Len(g) - 1 = n
  BY <1>7
<1>19. Tells'
  <2>1. /\ IF \E i \in DOMAIN q : q[i].text # Null
           THEN g # <<>> /\ IsText(tally.text, g, Len(g) - 1)
           ELSE IsText(tally.text, g, Len(g))
        /\ \A i \in DOMAIN q : q[i].text # Null =>
             /\ q[i].text = Len(g) /\ g[Len(g)].text
             /\ \A j \in DOMAIN q : q[j].text # Null => i = j
    BY <1>7, <1>10, <1>11, <1>18
  <2>2. /\ \/ IsLast(tally.tokensIn, InsOf(g), Len(g))
           \/ /\ \E i \in DOMAIN q : q[i].tokensIn # Null
              /\ IsLast(tally.tokensIn, InsOf(g), Len(g) - 1)
        /\ \/ IsLast(tally.tokensOut, OutsOf(g), Len(g))
           \/ /\ \E i \in DOMAIN q : q[i].tokensOut # Null
              /\ IsLast(tally.tokensOut, OutsOf(g), Len(g) - 1)
    BY <1>7, <1>15, <1>16, <1>18
  <2>3. \A i \in DOMAIN q :
          /\ q[i].tokensIn # Null => g # <<>> /\ q[i].tokensIn = InsOf(g)[Len(g)]
          /\ q[i].tokensOut # Null => g # <<>> /\ q[i].tokensOut = OutsOf(g)[Len(g)]
          /\ q[i].type = "message_stop" => q[i].stopReason = StopReason(carried')
    BY <1>7, <1>10
  <2>4. IsLast(carried', ReasonsOf(g), Len(g))
    BY <1>7, <1>14
  <2>5. QED
    BY <1>6, <1>17, <2>1, <2>2, <2>3, <2>4 DEF Tells
<1>20. QED
  BY <1>19

\* Nothing more is said at the end.
LEMMA EndingTells ==
  ASSUME AiInv, phase = "reading", NEW q, NEW n,
         heard' = heard, carried' = carried, queue' = q, tally' = tally,
         Content(q, n, FALSE, Null, carried)
  PROVE  (Streamed => Tells)'
<1>1. /\ AiProvidersTypeOK /\ PhasesAgree /\ (Streamed => Tells)
  BY DEF AiInv
<1>2. queue = <<>> /\ mode = "stream" /\ vendor # "atomic"
  BY <1>1 DEF PhasesAgree
<1>3. Tells
  BY <1>1, <1>2 DEF Streamed
<1>4. /\ IsText(tally.text, heard, Len(heard))
      /\ IsLast(tally.tokensIn, InsOf(heard), Len(heard))
      /\ IsLast(tally.tokensOut, OutsOf(heard), Len(heard))
      /\ IsLast(carried, ReasonsOf(heard), Len(heard))
      /\ tally.stopReason = IF tally.sawStop THEN StopReason(carried) ELSE Null
  BY <1>2, <1>3 DEF Tells
<1>5. In(Null) = Null /\ Out(Null) = Null
  BY DEF In, Out
<1>6. \A i \in DOMAIN q : /\ q[i].text = Null /\ q[i].tokensIn = Null /\ q[i].tokensOut = Null
                          /\ q[i].type = "message_stop" => q[i].stopReason = StopReason(carried)
  BY <1>5 DEF Content
<1>7. QED
  BY <1>4, <1>6 DEF Tells

\* What is queued is of the right type, and the call goes on.
LEMMA QueuedStep ==
  ASSUME AiInv, phase = "reading", NEW q, NEW isLast, NEW opens, NEW stops,
         QueueBrackets(q, opens, stops, isLast), Queues(q, isLast),
         heard' \in Seq(FrameType), Len(heard') <= MaxFrames,
         carried' \in Unsaid({"stop", "end_turn", "novel"}),
         Bracketed', (Streamed => Tells)'
  PROVE  AiInv'
<1>1. /\ AiProvidersTypeOK /\ PhasesAgree /\ BlameIsRight /\ RecordIsTheAnswer
  BY DEF AiInv
<1>2. /\ queue' = q /\ last' = isLast /\ phase' = (IF q = <<>> THEN "reading" ELSE "handing")
      /\ vendor' = vendor /\ mode' = mode /\ yielded' = yielded /\ tally' = tally
      /\ record' = record /\ thrown' = thrown /\ cause' = cause
  BY DEF Queues, Asked
<1>3. /\ record = Null /\ mode = "stream" /\ vendor # "atomic"
  BY <1>1 DEF PhasesAgree
<1>4. q \in Seq(EventType) /\ isLast \in BOOLEAN /\ (isLast => q # <<>> /\ vendor # "anthropic")
  BY DEF QueueBrackets, Shape
<1>5. AiProvidersTypeOK'
  BY <1>1, <1>2, <1>4 DEF AiProvidersTypeOK
<1>6. PhasesAgree'
  BY <1>1, <1>2, <1>3, <1>4 DEF PhasesAgree
<1>7. BlameIsRight' /\ RecordIsTheAnswer'
  BY <1>1, <1>2, <1>3 DEF BlameIsRight, RecordIsTheAnswer
<1>8. QED
  BY <1>2, <1>3, <1>5, <1>6, <1>7 DEF AiInv

\* A frame of either vendor, whatever it holds.
LEMMA HearStep ==
  ASSUME AiInv, Hear
  PROVE  AiInv'
<1>1. /\ AiProvidersTypeOK /\ PhasesAgree /\ Bracketed
  BY DEF AiInv
<1>2. phase = "reading" /\ Len(heard) < MaxFrames
  BY DEF Hear
<1>3. PICK f \in Frames :
        \/ f.kind \in {"error", "garbled"} /\ FailsInBand(f) /\ heard' = Append(heard, f)
        \/ f.kind = "done" /\ OpenAiEnds(Append(heard, f))
        \/ /\ f.kind \notin {"error", "garbled", "done"}
           /\ heard' = Append(heard, f) /\ carried' = Else(f.reason, carried)
           /\ Queues(IF vendor = "openai" THEN OpenAiEvents(f, Len(Append(heard, f)))
                     ELSE AnthropicEvents(f, Len(Append(heard, f)), Else(f.reason, carried)), FALSE)
  BY <1>2 DEF Hear
<1>4. /\ heard \in Seq(FrameType) /\ tally \in TallyType /\ tally.sawStop \in BOOLEAN /\ mode = "stream"
      /\ queue = <<>> /\ ~last /\ carried \in Unsaid({"stop", "end_turn", "novel"})
      /\ vendor \in {"openai", "anthropic"}
  BY <1>1, <1>2, ProviderAssumption DEF PhasesAgree, AiProvidersTypeOK, TallyType
<1>5. /\ f \in FrameType
      /\ vendor = "openai" => f \in OpenAiFrames
      /\ vendor = "anthropic" => f \in AnthropicFrames
  BY <1>4, OpenAiFrame, AnthropicFrame DEF Frames
<1>6. /\ f.text \in BOOLEAN /\ f.usage \in Unsaid(Usage \cup {<<1, 1>>}) /\ f.model \in Unsaid({"served"})
      /\ f.reason \in Unsaid({"stop", "end_turn", "novel"})
  BY <1>5 DEF FrameType
<1>7. PICK n \in 0..MaxFrames : n = Len(heard) + 1
  <2>1. Len(heard) \in Nat /\ MaxFrames \in Nat
    BY <1>4, HeardType, ProviderAssumption
  <2>2. Len(heard) + 1 \in 0..MaxFrames
    BY <1>2, <2>1
  <2>3. QED
    BY <2>2
<1>8. /\ Append(heard, f) \in Seq(FrameType) /\ Len(Append(heard, f)) = n /\ n <= MaxFrames
      /\ Append(heard, f)[n] = f /\ \A i \in 1..Len(heard) : Append(heard, f)[i] = heard[i]
      /\ DOMAIN heard = 1..Len(heard) /\ DOMAIN Append(heard, f) = 1..n /\ Len(heard) \in Nat
  <2>1. /\ Append(heard, f) \in Seq(FrameType) /\ Len(Append(heard, f)) = Len(heard) + 1
        /\ Append(heard, f)[Len(heard) + 1] = f /\ \A i \in 1..Len(heard) : Append(heard, f)[i] = heard[i]
    BY <1>4, <1>5, HeardMore
  <2>2. DOMAIN Append(heard, f) = 1..Len(Append(heard, f)) /\ DOMAIN heard = 1..Len(heard) /\ Len(heard) \in Nat
    BY <1>4, <2>1, HeardType
  <2>3. n <= MaxFrames
    BY <1>7, ProviderAssumption
  <2>4. QED
    BY <1>7, <2>1, <2>2, <2>3
<1>9. heard' = Append(heard, f)
  BY <1>3 DEF OpenAiEnds
<1>10. \A kind : Came(kind)' <=> Came(kind) \/ f.kind = kind
  <2> SUFFICES ASSUME NEW kind PROVE Came(kind)' <=> Came(kind) \/ f.kind = kind
    OBVIOUS
  <2>1. PICK g : g = Append(heard, f)
    OBVIOUS
  <2>2. /\ DOMAIN g = 1..n /\ g[n] = f /\ (\A i \in 1..Len(heard) : g[i] = heard[i]) /\ DOMAIN heard = 1..Len(heard)
        /\ heard' = g /\ n = Len(heard) + 1 /\ Len(heard) \in Nat
    BY <1>7, <1>8, <1>9, <2>1
  <2>3. \A i : i \in 1..n <=> i \in 1..Len(heard) \/ i = n
    BY <2>2
  <2>4. QED
    BY <2>2, <2>3 DEF Came
<1>11. tally.sawStop <=> vendor = "anthropic" /\ Came("message_stop")
  <2>1. ~Has(queue, "message_stop")
    BY <1>4 DEF Has
  <2>2. QED
    BY <1>1, <1>4, <2>1 DEF Bracketed, AllSaid
<1>12. vendor = "anthropic" => (Came("message_start") <=> yielded # <<>>)
  BY <1>1, <1>4 DEF Bracketed, Streamed
<1>13. tally.sawStop => f.reason = Null
  BY <1>5, <1>11, AnthropicFrame
<1>14. CASE f.kind \in {"error", "garbled"} /\ FailsInBand(f)
  <2>1. Fails("said", "provider") \/ Fails("garbled", "provider")
    BY <1>14 DEF FailsInBand
  <2>2. /\ queue' = queue /\ yielded' = yielded /\ tally' = tally /\ carried' = carried
        /\ vendor' = vendor /\ mode' = mode /\ last' = last
    BY <2>1 DEF Fails, Asked
  <2>3. ~f.text /\ f.usage = Null /\ f.reason = Null
    BY <1>4, <1>5, <1>6, <1>14, OpenAiFrame, AnthropicFrame
  <2>4. Bracketed'
    <3>1. Came("message_stop")' <=> Came("message_stop")
      BY <1>10, <1>14
    <3>2. Came("message_start")' <=> Came("message_start")
      BY <1>10, <1>14
    <3>3. AllSaid' <=> AllSaid
      BY <2>2, <3>1 DEF AllSaid
    <3>4. QED
      BY <1>1, <2>2, <3>2, <3>3 DEF Bracketed, Streamed
  <2>5. (Streamed => Tells)'
    <3>1. Content(<<>>, Len(heard) + 1, f.text, f.usage, carried')
      <4>1. In(Null) = Null /\ Out(Null) = Null
        BY DEF In, Out
      <4>2. QED
        BY <2>3, <4>1 DEF Content
    <3>2. carried' = Else(f.reason, carried)
      BY <2>2, <2>3 DEF Else
    <3>3. QED
      BY <1>2, <1>4, <1>5, <1>9, <2>2, <2>3, <3>1, <3>2, QueuedTells
  <2>6. heard' \in Seq(FrameType) /\ Len(heard') <= MaxFrames
    BY <1>8, <1>9
  <2>7. CASE Fails("said", "provider")
    BY <1>2, <2>4, <2>5, <2>6, <2>7, FailsStep
  <2>8. CASE Fails("garbled", "provider")
    BY <1>2, <2>4, <2>5, <2>6, <2>8, FailsStep
  <2>9. QED
    BY <2>1, <2>7, <2>8
<1>15. CASE f.kind = "done" /\ OpenAiEnds(Append(heard, f))
  <2>1. vendor = "openai" /\ ~f.text /\ f.usage = Null /\ f.reason = Null
    BY <1>4, <1>5, <1>15, OpenAiFrame, AnthropicFrame
  <2> DEFINE q == When(yielded = <<>>, MessageStart(Null, Null)) \o <<MessageStop(StopReason(carried))>>
  <2>2. Queues(q, TRUE) /\ carried' = carried
    BY <1>15 DEF OpenAiEnds
  <2>3. q = EventsOf(yielded = <<>>, FALSE, FALSE, TRUE, Null, Null, n, carried)
    BY <1>4, EndEventsOf
  <2>4. Shape(q, yielded = <<>>, TRUE) /\ Content(q, n, FALSE, Null, carried)
    <3>1. OfAFrame(yielded = <<>>, FALSE, FALSE, TRUE, Null, Null, n, carried)
      BY <1>4 DEF OfAFrame, Unsaid
    <3> HIDE DEF q
    <3>2. QED
      BY <2>3, <3>1, FrameEvents, Zenon
  <2> HIDE DEF q
  <2>5. q # <<>>
    BY <2>4 DEF Shape, Has
  <2>6. ~tally.sawStop
    BY <1>11, <2>1
  <2>7. QueueBrackets(q, yielded = <<>>, TRUE, TRUE)
    <3>1. (yielded = <<>>) \in BOOLEAN /\ TRUE \in BOOLEAN
      OBVIOUS
    <3>2. vendor # "anthropic" /\ (tally.sawStop => q = <<>>)
      BY <2>1, <2>6
    <3>3. QED
      BY <2>4, <2>5, <3>1, <3>2, Zenon DEF QueueBrackets
  <2>8. AllSaid'
    BY <2>2 DEF AllSaid, Queues
  <2>9. Bracketed'
    BY <1>2, <2>1, <2>2, <2>7, <2>8, QueuedBrackets
  <2>10. (Streamed => Tells)'
    <3>1. carried' = Else(f.reason, carried)
      BY <2>1, <2>2 DEF Else
    <3>2. Content(q, Len(heard) + 1, f.text, f.usage, carried')
      <4>1. f.text = FALSE
        BY <1>6, <2>1
      <4>2. QED
        BY <1>7, <2>1, <2>2, <2>4, <4>1
    <3>3. queue' = q /\ tally' = tally
      BY <2>2 DEF Queues
    <3>4. QED
      BY <1>2, <1>5, <1>9, <2>1, <3>1, <3>2, <3>3, QueuedTells
  <2>11. heard' \in Seq(FrameType) /\ Len(heard') <= MaxFrames /\ carried' \in Unsaid({"stop", "end_turn", "novel"})
    BY <1>4, <1>8, <1>9, <2>2
  <2>12. QED
    BY <1>2, <2>2, <2>7, <2>9, <2>10, <2>11, QueuedStep
<1>16. CASE /\ f.kind \notin {"error", "garbled", "done"}
            /\ carried' = Else(f.reason, carried)
            /\ Queues(IF vendor = "openai" THEN OpenAiEvents(f, Len(Append(heard, f)))
                      ELSE AnthropicEvents(f, Len(Append(heard, f)), Else(f.reason, carried)), FALSE)
  <2> DEFINE reason == Else(f.reason, carried)
  <2>1. reason \in Unsaid({"stop", "end_turn", "novel"}) /\ carried' = reason
    BY <1>4, <1>6, <1>16 DEF Else
  <2> HIDE DEF reason
  <2>2. PICK q, opens, stops :
          /\ opens \in BOOLEAN /\ stops \in BOOLEAN
          /\ Queues(q, FALSE) /\ Shape(q, opens, stops) /\ Content(q, n, f.text, f.usage, reason)
          /\ q # <<>> => (opens <=> yielded = <<>>)
          /\ tally.sawStop => q = <<>>
          /\ AllSaid' <=> tally.sawStop \/ stops
          /\ vendor = "anthropic" => (Came("message_start")' <=> yielded # <<>> \/ q # <<>>)
    <3>1. CASE vendor = "openai"
      <4> DEFINE q == OpenAiEvents(f, n)
      <4>1. Queues(q, FALSE)
        BY <1>8, <1>16, <3>1
      <4>2. q = EventsOf(yielded = <<>>, f.text, f.usage # Null, FALSE, f.model, f.usage, n, Null)
        BY <1>5, OpenAiEventsOf
      <4>3. Shape(q, yielded = <<>>, FALSE) /\ Content(q, n, f.text, f.usage, Null)
        <5>1. OfAFrame(yielded = <<>>, f.text, f.usage # Null, FALSE, f.model, f.usage, n, Null)
          BY <1>6 DEF OfAFrame, Unsaid
        <5> HIDE DEF q
        <5>2. QED
          BY <4>2, <5>1, FrameEvents, Zenon
      <4> HIDE DEF q
      <4>4. Content(q, n, f.text, f.usage, reason)
        BY <4>3 DEF Content, Shape, Has
      <4>5. ~tally.sawStop
        BY <1>11, <3>1
      <4>6. ~AllSaid'
        BY <3>1, <4>1 DEF AllSaid, Queues, Asked
      <4>7. QED
        <5>1. PICK opens \in BOOLEAN, stops \in BOOLEAN : opens = (yielded = <<>>) /\ stops = FALSE
          OBVIOUS
        <5>2. Shape(q, opens, stops)
          BY <4>3, <5>1
        <5>3. /\ q # <<>> => (opens <=> yielded = <<>>)
              /\ tally.sawStop => q = <<>>
              /\ AllSaid' <=> tally.sawStop \/ stops
              /\ vendor = "anthropic" => (Came("message_start")' <=> yielded # <<>> \/ q # <<>>)
          BY <3>1, <4>5, <4>6, <5>1
        <5>4. QED
          BY <4>1, <4>4, <5>1, <5>2, <5>3, Zenon
    <3>2. CASE vendor = "anthropic"
      <4> DEFINE q == AnthropicEvents(f, n, reason)
                 opens == f.kind = "message_start"
                 stops == f.kind = "message_stop"
                 counts == f.kind = "message_delta" /\ f.usage # Null
      <4>1. Queues(q, FALSE)
        BY <1>8, <1>16, <3>2 DEF reason
      <4>2. q = EventsOf(opens, f.text, counts, stops, f.model, f.usage, n, reason)
        BY DEF AnthropicEvents, EventsOf
      <4>3. /\ f.kind \in {"ping", "error", "message_start", "content_block_delta", "message_delta", "message_stop"}
            /\ f.text => f.kind = "content_block_delta"
            /\ f.usage # Null => \/ f.kind = "message_delta"
                                 \/ f.kind = "message_start" /\ Out(f.usage) = Null
            /\ f.kind = "message_start" => ~Came("message_start")
            /\ f.kind \notin {"ping", "error", "message_start"} => Came("message_start") /\ ~Came("message_stop")
        BY <1>5, <3>2, AnthropicFrame
      <4>4. Shape(q, opens, stops) /\ Content(q, n, f.text, f.usage, reason)
        <5>1. opens \in BOOLEAN /\ counts \in BOOLEAN /\ stops \in BOOLEAN
          OBVIOUS
        <5>2. (counts => f.usage # Null) /\ (f.usage # Null => counts \/ (opens /\ Out(f.usage) = Null))
          BY <4>3
        <5> HIDE DEF opens, counts, stops, q
        <5>3. QED
          <6>1. OfAFrame(opens, f.text, counts, stops, f.model, f.usage, n, reason)
            BY <1>6, <2>1, <5>1, <5>2 DEF OfAFrame
          <6>2. QED
            BY <4>2, <6>1, FrameEvents, Zenon
      <4>5. f.kind = "ping" => q = <<>>
        <5>1. f.kind = "ping" => ~opens /\ ~f.text /\ ~counts /\ ~stops
          BY <4>3
        <5>2. ASSUME ~opens, ~f.text, ~counts, ~stops PROVE q = <<>>
          <6>1. q = <<>> \o <<>> \o <<>> \o <<>>
            BY <5>2 DEF AnthropicEvents, When
          <6>2. <<>> \in Seq(EventType)
            OBVIOUS
          <6>3. QED
            BY <6>1, <6>2, ConcatEmptySeq
        <5>3. QED
          BY <5>1, <5>2
      <4>6. q # <<>> => f.kind # "ping"
        BY <4>5
      <4>7. opens => q # <<>>
        BY <4>4 DEF Shape
      <4> HIDE DEF q
      <4>8. q # <<>> => (opens <=> yielded = <<>>)
        BY <1>12, <1>16, <3>2, <4>3, <4>6
      <4>9. tally.sawStop => q = <<>>
        <5>1. CASE tally.sawStop
          <6>1. Came("message_stop") /\ yielded # <<>>
            BY <1>1, <1>11, <5>1 DEF Bracketed, Has
          <6>2. f.kind = "ping"
            BY <1>12, <1>16, <3>2, <4>3, <6>1
          <6>3. QED
            BY <4>5, <6>2
        <5>2. QED
          BY <5>1
      <4>10. AllSaid' <=> tally.sawStop \/ stops
        <5>1. vendor' = vendor /\ mode' = mode /\ last' = FALSE
          BY <4>1 DEF Queues, Asked
        <5>2. QED
          BY <1>4, <1>10, <1>11, <3>2, <5>1 DEF AllSaid
      <4>11. Came("message_start")' <=> yielded # <<>> \/ q # <<>>
        BY <1>10, <1>12, <3>2, <4>3, <4>7, <4>8
      <4>12. opens \in BOOLEAN /\ stops \in BOOLEAN
        OBVIOUS
      <4> HIDE DEF opens, stops
      <4>13. QED
        <5>1. vendor = "anthropic" => (Came("message_start")' <=> yielded # <<>> \/ q # <<>>)
          BY <4>11
        <5>2. QED
          BY <4>1, <4>4, <4>8, <4>9, <4>10, <4>12, <5>1, Zenon
    <3>3. QED
      BY <1>4, <3>1, <3>2
  <2>3. QueueBrackets(q, opens, stops, FALSE)
    BY <2>2 DEF QueueBrackets
  <2>4. Bracketed'
    BY <1>2, <2>2, <2>3, QueuedBrackets
  <2>5. (Streamed => Tells)'
    <3>1. Content(q, Len(heard) + 1, f.text, f.usage, carried')
      BY <1>7, <2>1, <2>2
    <3>2. queue' = q /\ tally' = tally
      BY <2>2 DEF Queues
    <3>3. QED
      BY <1>2, <1>5, <1>9, <1>13, <1>16, <3>1, <3>2, QueuedTells
  <2>6. heard' \in Seq(FrameType) /\ Len(heard') <= MaxFrames /\ carried' \in Unsaid({"stop", "end_turn", "novel"})
    BY <1>8, <1>9, <2>1
  <2>7. QED
    BY <1>2, <2>2, <2>3, <2>4, <2>5, <2>6, QueuedStep
<1>17. QED
  BY <1>3, <1>14, <1>15, <1>16

\* A body that ends.
LEMMA EndsStep ==
  ASSUME AiInv, Ends
  PROVE  AiInv'
<1>1. /\ AiProvidersTypeOK /\ PhasesAgree /\ Bracketed
  BY DEF AiInv
<1>2. phase = "reading"
  BY DEF Ends
<1>3. /\ heard \in Seq(FrameType) /\ tally \in TallyType /\ tally.sawStop \in BOOLEAN
      /\ queue = <<>> /\ ~last /\ carried \in Unsaid({"stop", "end_turn", "novel"})
      /\ vendor \in {"openai", "anthropic"} /\ Len(heard) <= MaxFrames
  BY <1>1, <1>2, ProviderAssumption DEF PhasesAgree, AiProvidersTypeOK, TallyType
<1>4. CASE vendor = "anthropic"
  <2>1. Complete(tally)
    BY <1>4 DEF Ends
  <2>2. QED
    BY <1>2, <1>3, <1>4, <2>1, CompleteStep
<1>5. CASE vendor = "openai"
  <2> DEFINE q == When(yielded = <<>>, MessageStart(Null, Null)) \o <<MessageStop(StopReason(carried))>>
  <2>1. Queues(q, TRUE) /\ carried' = carried /\ heard' = heard
    BY <1>5 DEF Ends, OpenAiEnds
  <2>2. 0 \in 0..MaxFrames
    BY ProviderAssumption
  <2>3. q = EventsOf(yielded = <<>>, FALSE, FALSE, TRUE, Null, Null, 0, carried)
    BY <1>3, <2>2, EndEventsOf
  <2>4. Shape(q, yielded = <<>>, TRUE) /\ Content(q, 0, FALSE, Null, carried)
    <3>1. OfAFrame(yielded = <<>>, FALSE, FALSE, TRUE, Null, Null, 0, carried)
      BY <1>3, <2>2 DEF OfAFrame, Unsaid
    <3> HIDE DEF q
    <3>2. QED
      BY <2>3, <3>1, FrameEvents, Zenon
  <2> HIDE DEF q
  <2>5. q # <<>>
    BY <2>4 DEF Shape, Has
  <2>6. ~tally.sawStop
    <3>1. ~Has(queue, "message_stop")
      BY <1>3 DEF Has
    <3>2. QED
      BY <1>1, <1>3, <1>5, <3>1 DEF Bracketed, AllSaid
  <2>7. QueueBrackets(q, yielded = <<>>, TRUE, TRUE)
    <3>1. (yielded = <<>>) \in BOOLEAN /\ TRUE \in BOOLEAN
      OBVIOUS
    <3>2. vendor # "anthropic" /\ (tally.sawStop => q = <<>>)
      BY <1>5, <2>6
    <3>3. QED
      BY <2>4, <2>5, <3>1, <3>2, Zenon DEF QueueBrackets
  <2>8. AllSaid'
    BY <2>1 DEF AllSaid, Queues
  <2>9. Bracketed'
    BY <1>2, <1>5, <2>1, <2>7, <2>8, QueuedBrackets
  <2>10. queue' = q /\ tally' = tally
    BY <2>1 DEF Queues
  <2>11. (Streamed => Tells)'
    BY <1>2, <2>1, <2>4, <2>10, EndingTells
  <2>12. heard' \in Seq(FrameType) /\ Len(heard') <= MaxFrames /\ carried' \in Unsaid({"stop", "end_turn", "novel"})
    BY <1>3, <2>1
  <2>13. QED
    BY <1>2, <2>1, <2>7, <2>9, <2>11, <2>12, QueuedStep
<1>6. QED
  BY <1>3, <1>4, <1>5

\* The next event, the next frame, or the end.
LEMMA PullStep ==
  ASSUME AiInv, Pull
  PROVE  AiInv'
<1>1. /\ AiProvidersTypeOK /\ PhasesAgree /\ BlameIsRight /\ RecordIsTheAnswer
  BY DEF AiInv
<1>2. phase = "yielded" /\ record = Null /\ mode = "stream" /\ last \in BOOLEAN
      /\ (last => vendor # "anthropic") /\ (vendor = "atomic" => last)
  BY <1>1 DEF Pull, PhasesAgree, AiProvidersTypeOK
<1>3. CASE queue = <<>> /\ last
  <2>1. Complete(tally)
    BY <1>3 DEF Pull
  <2>2. QED
    BY <1>2, <1>3, <2>1, CompleteStep
<1>4. CASE ~(queue = <<>> /\ last)
  <2>1. /\ phase' = (IF queue = <<>> THEN "reading" ELSE "handing")
        /\ vendor' = vendor /\ mode' = mode /\ heard' = heard /\ carried' = carried /\ queue' = queue
        /\ last' = last /\ yielded' = yielded /\ tally' = tally /\ record' = record /\ thrown' = thrown
        /\ cause' = cause
    BY <1>4 DEF Pull, Asked
  <2>2. Bracketed' /\ (Streamed => Tells)'
    BY <2>1, Untouched
  <2>3. AiProvidersTypeOK'
    BY <1>1, <2>1 DEF AiProvidersTypeOK
  <2>4. PhasesAgree'
    BY <1>1, <1>2, <1>4, <2>1 DEF PhasesAgree
  <2>5. BlameIsRight' /\ RecordIsTheAnswer'
    BY <1>1, <1>2, <2>1 DEF BlameIsRight, RecordIsTheAnswer
  <2>6. QED
    BY <1>2, <2>1, <2>2, <2>3, <2>4, <2>5 DEF AiInv
<1>5. QED
  BY <1>3, <1>4

LEMMA AiInvInit == AiInit => AiInv
<1> SUFFICES ASSUME AiInit PROVE AiInv
  OBVIOUS
<1>1. /\ vendor \in Vendors /\ mode \in {"stream", "unary"} /\ phase = "calling" /\ heard = <<>>
      /\ carried = Null /\ queue = <<>> /\ last = FALSE /\ yielded = <<>> /\ tally = Tally0
      /\ record = Null /\ thrown = "nothing" /\ cause = "none"
  BY DEF AiInit
<1>2. /\ tally \in TallyType /\ tally.text = <<>> /\ tally.tokensIn = Null /\ tally.tokensOut = Null
      /\ tally.stopReason = Null /\ tally.sawStop = FALSE
  <2>1. <<>> \in Seq(0..MaxFrames)
    OBVIOUS
  <2>2. QED
    BY <1>1, <2>1 DEF Tally0, TallyType, Unsaid
<1>3. /\ <<>> \in Seq(FrameType) /\ <<>> \in Seq(EventType) /\ Len(<<>>) = 0 /\ MaxFrames \in Nat
      /\ DOMAIN <<>> = {} /\ Len(<<>>) <= MaxFrames
  BY ProviderAssumption
<1>4. AiProvidersTypeOK
  BY <1>1, <1>2, <1>3 DEF AiProvidersTypeOK, Unsaid
<1>5. PhasesAgree
  BY <1>1 DEF PhasesAgree
<1>6. Bracketed
  <2>1. ~Came("message_start") /\ ~Came("message_stop") /\ ~Has(queue, "message_stop") /\ ~Has(yielded, "message_stop")
    BY <1>1, <1>3 DEF Came, Has
  <2>2. ~AllSaid
    BY <1>1, <2>1 DEF AllSaid
  <2>3. QED
    BY <1>1, <1>2, <1>3, <2>1, <2>2 DEF Bracketed
<1>7. Tells
  <2>1. IsText(tally.text, heard, Len(heard))
    <3>1. ToSet(<<>>) = {}
      BY DEF ToSet
    <3>2. QED
      BY <1>1, <1>2, <1>3, <3>1 DEF IsText
  <2>2. /\ IsLast(tally.tokensIn, InsOf(heard), Len(heard))
        /\ IsLast(tally.tokensOut, OutsOf(heard), Len(heard))
        /\ IsLast(carried, ReasonsOf(heard), Len(heard))
    BY <1>1, <1>2, <1>3 DEF IsLast
  <2>3. QED
    BY <1>1, <1>2, <1>3, <2>1, <2>2 DEF Tells
<1>8. RecordIsTheAnswer /\ BlameIsRight
  BY <1>1 DEF RecordIsTheAnswer, BlameIsRight
<1>9. QED
  BY <1>1, <1>4, <1>5, <1>6, <1>7, <1>8 DEF AiInv

LEMMA AiInvStep == AiInv /\ [AiNext]_aiVars => AiInv'
<1> SUFFICES ASSUME AiInv, [AiNext]_aiVars PROVE AiInv'
  OBVIOUS
<1>1. CASE Unreachable \/ Rejected \/ Breaks
  BY <1>1, FailingStep
<1>2. CASE Crash \/ StreamOpens
  BY <1>2, OpeningStep
<1>3. CASE Replied
  BY <1>3, RepliedStep
<1>4. CASE Hear
  BY <1>4, HearStep
<1>5. CASE Ends
  BY <1>5, EndsStep
<1>6. CASE Yield
  BY <1>6, YieldStep
<1>7. CASE Pull
  BY <1>7, PullStep
<1>8. CASE WalkAway
  BY <1>8, WalkAwayStep
<1>9. CASE UNCHANGED aiVars
  <2>1. /\ vendor' = vendor /\ mode' = mode /\ phase' = phase /\ heard' = heard /\ carried' = carried
        /\ queue' = queue /\ last' = last /\ yielded' = yielded /\ tally' = tally /\ record' = record
        /\ thrown' = thrown /\ cause' = cause
    BY <1>9 DEF aiVars
  <2>2. Bracketed' /\ (Streamed => Tells)'
    BY <2>1, Untouched
  <2>3. AiProvidersTypeOK' /\ PhasesAgree'
    BY <2>1 DEF AiInv, AiProvidersTypeOK, PhasesAgree
  <2>4. RecordIsTheAnswer' /\ BlameIsRight'
    BY <2>1 DEF AiInv, RecordIsTheAnswer, BlameIsRight
  <2>5. QED
    BY <2>1, <2>2, <2>3, <2>4 DEF AiInv
<1>10. QED
  BY <1>1, <1>2, <1>3, <1>4, <1>5, <1>6, <1>7, <1>8, <1>9 DEF AiNext

LEMMA AiInvTells == AiInv => AnswerIsTold
<1> SUFFICES ASSUME AiInv PROVE AnswerIsTold
  OBVIOUS
<1>1. /\ AiProvidersTypeOK /\ PhasesAgree /\ Bracketed /\ RecordIsTheAnswer /\ BlameIsRight
      /\ record # Null /\ record.status = "ok" /\ mode = "stream" /\ vendor # "anthropic" => tally.sawStop
  BY DEF AiInv
<1>2. yielded \in Seq(EventType)
  BY <1>1 DEF AiProvidersTypeOK
<1>3. DOMAIN yielded = 1..Len(yielded) /\ Len(yielded) \in Nat /\ (yielded = <<>> <=> Len(yielded) = 0)
  BY <1>2, LenProperties, EmptySeq
<1>4. {i \in DOMAIN yielded : yielded[i].type = "message_start"} = (IF yielded = <<>> THEN {} ELSE {1})
  <2>1. \A i \in DOMAIN yielded : yielded[i].type = "message_start" <=> i = 1
    BY <1>1 DEF Bracketed
  <2>2. yielded # <<>> <=> 1 \in DOMAIN yielded
    BY <1>3
  <2>3. yielded = <<>> => DOMAIN yielded = {}
    BY <1>3
  <2>4. QED
    BY <2>1, <2>2, <2>3
<1>5. {i \in DOMAIN yielded : yielded[i].type = "message_stop"} \subseteq {Len(yielded)}
  BY <1>1 DEF Bracketed
<1>6. tally.sawStop => {i \in DOMAIN yielded : yielded[i].type = "message_stop"} # {}
  BY <1>1 DEF Bracketed, Has
<1>7. AnswerIsBracketed
  BY <1>1, <1>4, <1>5, <1>6 DEF AnswerIsBracketed
<1>8. QED
  BY <1>1, <1>7 DEF AnswerIsTold

\* Between any two steps a call to an AI keeps what history has, or is to have,
\* of it in step with what its vendor said, for any vendors, any number of
\* frames and any cap (openai-provider.ts, anthropic-provider.ts,
\* record-ai-call.ts).
THEOREM AiInvariant == AiSpec => []AiInv
<1>1. QED
  BY AiInvInit, AiInvStep, PTL DEF AiSpec

\* Whatever a vendor sends, and however it ends, the consumer gets a stream it
\* can read, history the text, counts and reason the vendor gave, and the
\* failure is told for what it was.
THEOREM AnswerTheorem == AiSpec => []AnswerIsTold
<1>1. QED
  BY AiInvariant, AiInvTells, PTL
=============================================================================
