-------------------------- MODULE PageAndDialProofs --------------------------
(***************************************************************************)
(* Proofs about ConnectionsPage, for any number of requests and drafts,    *)
(* about ConnectionForm, for any host, password, key and pin typed into    *)
(* it, and about SshDial, the bastion the form probes and the connections  *)
(* are dialled through, for any known_hosts file.  They share no variable. *)
(***************************************************************************)
EXTENDS ConnectionsScreen, SshDial, WellFoundedInduction, TLAPS

(***************************************************************************)
(* Data: what a write makes of the server's connections.                   *)
(***************************************************************************)
\* A list is known by the rows in it and what each was saved from.
LEMMA ListShape ==
  ASSUME NEW f \in Lists
  PROVE  /\ DOMAIN f \subseteq Rows
         /\ f \in [DOMAIN f -> 0..MaxDrafts]
  BY DEF Lists

\* An addition puts its own row in.
LEMMA ListAdded ==
  ASSUME server \in Lists, NEW id \in Rows, NEW d \in 0..MaxDrafts
  PROVE  Added(id, d) \in Lists /\ id \in DOMAIN Added(id, d) /\ Added(id, d)[id] = d
<1> DEFINE ids == DOMAIN server \cup {id}
<1>1. ids \in SUBSET Rows
  BY ListShape
<1>2. Added(id, d) \in [ids -> 0..MaxDrafts]
  BY ListShape DEF Added
<1>3. Added(id, d) \in Lists
  BY <1>1, <1>2 DEF Lists
<1>4. QED
  BY <1>3 DEF Added

\* An edit changes one row.
LEMMA ListEdited ==
  ASSUME NEW f \in Lists, NEW id \in DOMAIN f, NEW d \in 0..MaxDrafts
  PROVE  /\ [f EXCEPT ![id] = d] \in Lists
         /\ id \in DOMAIN [f EXCEPT ![id] = d]
         /\ [f EXCEPT ![id] = d][id] = d
<1>1. [f EXCEPT ![id] = d] \in [DOMAIN f -> 0..MaxDrafts]
  BY ListShape
<1>2. DOMAIN f \in SUBSET Rows
  BY ListShape
<1>3. QED
  BY <1>1, <1>2 DEF Lists

\* A deletion takes one row out.
LEMMA ListCut ==
  ASSUME NEW f \in Lists, NEW id
  PROVE  Restrict(f, DOMAIN f \ {id}) \in Lists
<1> DEFINE ids == DOMAIN f \ {id}
<1>1. Restrict(f, ids) = [x \in ids |-> f[x]]
  BY DEF Restrict
<1>2. Restrict(f, ids) \in [ids -> 0..MaxDrafts]
  BY <1>1, ListShape
<1>3. ids \in SUBSET Rows
  BY ListShape
<1>4. QED
  BY <1>2, <1>3 DEF Lists

\* Nothing listed is a list.
LEMMA EmptyList == NoEntry \in Lists
<1>1. NoEntry \in [{} -> 0..MaxDrafts]
  BY DEF NoEntry
<1>2. {} \in SUBSET Rows
  OBVIOUS
<1>3. QED
  BY <1>1, <1>2 DEF Lists

(***************************************************************************)
(* What a step makes of the requests.                                      *)
(***************************************************************************)
\* A new request is the last, with what is in the form; the others stay.
LEMMA StartEffect ==
  ASSUME PageParameters, PageInv, NEW kind \in {"register", "update", "remove"},
         NEW id \in 0..MaxCalls, Start(kind, id)
  PROVE  /\ Len(calls') = Len(calls) + 1 /\ Len(calls') <= MaxCalls
         /\ DOMAIN calls' = DOMAIN calls \cup {Len(calls')}
         /\ \A c \in DOMAIN calls : calls'[c] = calls[c] /\ c # Len(calls')
         /\ calls'[Len(calls')] = Call(kind, id, "writing")
         /\ calls' \in Seq(PageRequest)
<1>1. Call(kind, id, "writing") \in PageRequest
  BY EmptyList DEF Call, PageRequest, PageInv, PageTypeOK
<1>2. calls \in Seq(PageRequest) /\ Len(calls) \in Nat
  BY DEF PageInv, RequestsAreWellFormed
<1>3. Len(calls) + 1 <= MaxCalls
  BY <1>2 DEF Start, PageParameters
<1>4. QED
  BY <1>1, <1>2, <1>3 DEF Start

\* A step of one request leaves the others as they are.
LEMMA CallEffect ==
  ASSUME PageInv, NEW c \in DOMAIN calls, NEW r \in PageRequest,
         calls' = [calls EXCEPT ![c] = r]
  PROVE  /\ Len(calls') = Len(calls) /\ DOMAIN calls' = DOMAIN calls
         /\ calls'[c] = r
         /\ \A d \in DOMAIN calls \ {c} : calls'[d] = calls[d]
         /\ calls' \in Seq(PageRequest)
  BY DEF PageInv, RequestsAreWellFormed

\* Of what a request has, the type.
LEMMA CallShape ==
  ASSUME PageParameters, PageInv, NEW c \in DOMAIN calls
  PROVE  calls[c] \in PageRequest /\ c \in Rows /\ Len(calls) \in Nat /\ DOMAIN calls = 1..Len(calls)
<1>1. calls \in Seq(PageRequest) /\ Len(calls) <= MaxCalls
  BY DEF PageInv, RequestsAreWellFormed, PageTypeOK
<1>2. QED
  BY <1>1 DEF Rows, PageParameters

(***************************************************************************)
(* The invariant.                                                          *)
(***************************************************************************)
LEMMA PageInvInit ==
  ASSUME PageParameters, PageInit
  PROVE  PageInv
<1>1. server \in Lists
  <2>1. server \in [{1} -> 0..MaxDrafts] /\ {1} \in SUBSET Rows
    BY DEF PageInit, PageParameters, Rows
  <2>2. QED
    BY <2>1 DEF Lists
<1>2. calls \in Seq(PageRequest) /\ Len(calls) = 1 /\ DOMAIN calls = {1}
  BY EmptyList DEF PageInit, PageRequest, PageParameters
<1>3. RequestsAreWellFormed
  BY <1>1, <1>2, EmptyList DEF PageInit, RequestsAreWellFormed
<1>4. PageTypeOK
  <2>1. DOMAIN server \subseteq Rows /\ DOMAIN list \subseteq Rows
    BY <1>1, ListShape DEF PageInit, NoEntry
  <2>2. drivers \in {"loading", "loaded", "failed"} /\ editing \in Rows \cup {Adding}
        /\ draft \in 0..MaxDrafts /\ drafts \in 0..MaxDrafts /\ Len(calls) <= MaxCalls
    BY <1>2 DEF PageInit, PageParameters
  <2>3. \A c \in DOMAIN calls : calls[c].kind = "refresh" /\ calls[c].phase = "reading"
    BY <1>2 DEF PageInit
  <2>4. QED
    BY <2>1, <2>2, <2>3 DEF PageInit, PageTypeOK
<1>5. OneRequest /\ QuietListIsCurrent
  BY <1>2 DEF PageInit, OneRequest, QuietListIsCurrent, Waits
<1>6. QED
  BY <1>3, <1>4, <1>5 DEF PageInv

\* A click or key that sends nothing: it is made when nothing is on its way.
LEMMA FormStep ==
  ASSUME PageParameters, PageInv, MayAct,
         UNCHANGED <<patient, server, drivers, list, lastError, calls>>,
         editing' \in Rows \cup {Adding}, draft' \in 0..MaxDrafts, drafts' \in 0..MaxDrafts
  PROVE  PageInv'
<1>1. PageTypeOK' /\ RequestsAreWellFormed'
  BY DEF PageInv, PageTypeOK, RequestsAreWellFormed
<1>2. OneRequest' /\ QuietListIsCurrent'
  BY DEF PageInv, OneRequest, QuietListIsCurrent, MayAct, Waits
<1>3. QED
  BY <1>1, <1>2 DEF PageInv

LEMMA TypeStep ==
  ASSUME PageParameters, PageInv, Type
  PROVE  PageInv'
<1>1. drafts' \in 0..MaxDrafts /\ draft' \in 0..MaxDrafts
  BY DEF Type, PageInv, PageTypeOK, PageParameters
<1>2. QED
  BY <1>1, FormStep DEF Type, PageInv, PageTypeOK

LEMMA OpenStep ==
  ASSUME PageParameters, PageInv, NEW id \in Rows,
         StartEdit(id) \/ CancelEdit
  PROVE  PageInv'
<1>1. draft' \in 0..MaxDrafts /\ editing' \in Rows \cup {Adding}
  BY DEF StartEdit, CancelEdit, OpenOn, PageInv, PageTypeOK, PageParameters
<1>2. QED
  BY <1>1, FormStep DEF StartEdit, CancelEdit, PageInv, PageTypeOK

\* A click that sends a request: it is the only one, and the last.
LEMMA AskedStep ==
  ASSUME PageParameters, PageInv, MayAct, NEW kind \in {"register", "update", "remove"},
         NEW id \in 0..MaxCalls, Start(kind, id),
         UNCHANGED <<patient, server, drivers, screen, drafts>>
  PROVE  PageInv'
<1>1. /\ Len(calls') <= MaxCalls
      /\ DOMAIN calls' = DOMAIN calls \cup {Len(calls')}
      /\ \A c \in DOMAIN calls : calls'[c] = calls[c] /\ c # Len(calls')
      /\ calls'[Len(calls')] = Call(kind, id, "writing")
      /\ calls' \in Seq(PageRequest)
  BY StartEffect
<1>2. calls'[Len(calls')].phase = "writing" /\ calls'[Len(calls')].draft = draft
      /\ calls'[Len(calls')].kind = kind
  <2>1. Call(kind, id, "writing").phase = "writing" /\ Call(kind, id, "writing").draft = draft
        /\ Call(kind, id, "writing").kind = kind
    BY DEF Call
  <2>2. QED
    BY <1>1, <2>1
<1>3. PageTypeOK'
  BY <1>1, <1>2 DEF PageInv, PageTypeOK, screen
<1>4. RequestsAreWellFormed'
  BY <1>1, <1>2 DEF PageInv, RequestsAreWellFormed, screen
<1>5. OneRequest'
  BY <1>1, <1>2 DEF OneRequest, MayAct, Waits, screen
<1>6. ~Waits'
  BY <1>1, <1>2 DEF Waits
<1>7. QED
  BY <1>3, <1>4, <1>5, <1>6 DEF PageInv, QuietListIsCurrent

LEMMA PageSubmitStep ==
  ASSUME PageParameters, PageInv, Submit
  PROVE  PageInv'
<1>1. CASE editing = Adding
  BY <1>1, AskedStep DEF Submit, PageParameters
<1>2. CASE editing # Adding
  <2>1. editing \in 0..MaxCalls
    BY <1>2 DEF PageInv, PageTypeOK, Rows, PageParameters
  <2>2. QED
    BY <1>2, <2>1, AskedStep DEF Submit
<1>3. QED
  BY <1>1, <1>2

LEMMA RemoveStep ==
  ASSUME PageParameters, PageInv, NEW id \in Rows, Remove(id)
  PROVE  PageInv'
<1>1. id \in 0..MaxCalls
  BY DEF Rows, PageParameters
<1>2. QED
  BY <1>1, AskedStep DEF Remove

\* Whatever a request goes through before its end, it is still on its way, and
\* the screen stays as it was.
LEMMA UnderWayStep ==
  ASSUME PageParameters, PageInv, NEW c \in DOMAIN calls, NEW r \in PageRequest,
         calls[c].phase # "done", calls' = [calls EXCEPT ![c] = r],
         r.phase \notin {"done", "writing"},
         r.kind = calls[c].kind, r.draft = calls[c].draft,
         server' \in Lists, UNCHANGED <<patient, screen, drafts>>,
         drivers' = drivers,
         patient /\ r.phase = "listed" => r.read = server',
         patient /\ r.kind \in {"register", "update"}
                 /\ r.phase \in {"answered", "reading", "listed", "unlisted"} =>
           r.taken /\ \E id \in DOMAIN server' : server'[id] = r.draft
  PROVE  PageInv'
<1>1. /\ Len(calls') = Len(calls) /\ DOMAIN calls' = DOMAIN calls
      /\ calls'[c] = r
      /\ \A d \in DOMAIN calls \ {c} : calls'[d] = calls[d]
      /\ calls' \in Seq(PageRequest)
  BY CallEffect
<1>2. PageTypeOK'
  <2>1. DOMAIN server' \subseteq Rows
    BY ListShape
  <2>2. \A d \in DOMAIN calls' :
          /\ calls'[d].kind \in {"refresh", "register", "update", "remove"}
          /\ calls'[d].phase \in {"writing", "answered", "unanswered", "reading", "listed",
                                  "unlisted", "done"}
    BY <1>1 DEF PageInv, PageTypeOK, PageRequest
  <2>3. QED
    BY <1>1, <2>1, <2>2 DEF PageInv, PageTypeOK, screen
<1>3. RequestsAreWellFormed'
  BY <1>1 DEF PageInv, RequestsAreWellFormed, screen
<1>4. OneRequest'
  BY <1>1 DEF PageInv, OneRequest, screen
<1>5. ~Waits'
  BY <1>1 DEF Waits
<1>6. QED
  BY <1>2, <1>3, <1>4, <1>5 DEF PageInv, QuietListIsCurrent

LEMMA TakenStep ==
  ASSUME PageParameters, PageInv, NEW c \in DOMAIN calls, Taken(c)
  PROVE  PageInv'
<1>1. calls[c] \in PageRequest /\ c \in Rows
  BY CallShape
<1>2. PICK answer \in {"answered", "unanswered"} :
        calls' = [calls EXCEPT ![c].phase = answer, ![c].taken = TRUE]
  BY DEF Taken
<1> DEFINE r == [calls[c] EXCEPT !.phase = answer, !.taken = TRUE]
<1>3. r \in PageRequest /\ r.kind = calls[c].kind /\ r.draft = calls[c].draft
      /\ r.phase = answer /\ r.taken /\ calls' = [calls EXCEPT ![c] = r]
  BY <1>1, <1>2 DEF PageRequest
<1>4. calls[c].kind # "refresh" /\ calls[c].phase = "writing" /\ server \in Lists
  BY DEF Taken, PageInv, RequestsAreWellFormed
<1>5. server' \in Lists
      /\ (calls[c].kind \in {"register", "update"} =>
            \E id \in DOMAIN server' : server'[id] = calls[c].draft)
  <2>1. calls[c].draft \in 0..MaxDrafts /\ server' = After(c)
    BY <1>1 DEF PageRequest, Taken
  <2>2. CASE calls[c].kind = "register"
    <3>1. server' = Added(c, calls[c].draft)
      BY <2>1, <2>2 DEF After
    <3>2. QED
      BY <1>1, <1>4, <2>1, <3>1, ListAdded
  <2>3. CASE calls[c].kind = "update"
    <3>1. server' = [server EXCEPT ![calls[c].id] = calls[c].draft]
      BY <2>1, <2>3 DEF After
    <3>2. calls[c].id \in DOMAIN server
      BY <2>3 DEF Taken
    <3>3. server \in Lists /\ calls[c].draft \in 0..MaxDrafts
      BY <1>4, <2>1
    <3>4. server' \in Lists /\ calls[c].id \in DOMAIN server'
          /\ server'[calls[c].id] = calls[c].draft
      BY <3>1, <3>2, <3>3, ListEdited
    <3>5. QED
      BY <3>4
  <2>4. CASE calls[c].kind = "remove"
    <3>1. server' = Restrict(server, DOMAIN server \ {calls[c].id})
      BY <2>1, <2>4 DEF After
    <3>2. QED
      BY <1>4, <2>4, <3>1, ListCut
  <2>5. QED
    BY <1>1, <1>4, <2>2, <2>3, <2>4 DEF PageRequest
<1> HIDE DEF r
<1>6. UNCHANGED <<patient, drivers, screen, drafts>>
  BY DEF Taken
<1>7. r.phase \in {"answered", "unanswered"}
  BY <1>3
<1>8. QED
  BY <1>3, <1>4, <1>5, <1>6, <1>7, UnderWayStep

LEMMA RefusedStep ==
  ASSUME PageParameters, PageInv, NEW c \in DOMAIN calls, Refused(c)
  PROVE  PageInv'
<1> DEFINE r == [calls[c] EXCEPT !.phase = "unanswered"]
<1>1. calls[c] \in PageRequest
  BY CallShape
<1>2. r \in PageRequest /\ r.kind = calls[c].kind /\ r.draft = calls[c].draft
      /\ r.phase = "unanswered"
  BY <1>1 DEF PageRequest
<1>3. calls[c].phase = "writing" /\ calls' = [calls EXCEPT ![c] = r] /\ server' \in Lists
  BY DEF Refused, PageInv, RequestsAreWellFormed
<1>4. QED
  BY <1>2, <1>3, UnderWayStep DEF Refused

\* A write that was answered was taken, and what it saved is at the server.
LEMMA Saved ==
  ASSUME PageInv, patient, NEW c \in DOMAIN calls,
         calls[c].phase \in {"answered", "reading", "listed", "unlisted"},
         calls[c].kind \in {"register", "update"}
  PROVE  calls[c].taken /\ calls[c].draft = draft /\ \E id \in DOMAIN server : server[id] = draft
  BY DEF PageInv, OneRequest

LEMMA ListedStep ==
  ASSUME PageParameters, PageInv, NEW c \in DOMAIN calls, Listed(c)
  PROVE  PageInv'
<1>1. calls[c] \in PageRequest /\ server \in Lists /\ calls[c].phase = "reading"
  BY CallShape DEF PageInv, RequestsAreWellFormed, Listed
<1>2. patient /\ calls[c].kind \in {"register", "update"} =>
        calls[c].taken /\ \E id \in DOMAIN server : server[id] = calls[c].draft
  BY <1>1, Saved
<1>3. UNCHANGED <<patient, server, drivers, screen, drafts>>
  BY DEF Listed
<1>4. CASE calls' = [calls EXCEPT ![c].phase = "listed", ![c].read = server]
  <2> DEFINE r == [calls[c] EXCEPT !.phase = "listed", !.read = server]
  <2>1. r \in PageRequest /\ r.kind = calls[c].kind /\ r.draft = calls[c].draft
        /\ r.phase = "listed" /\ r.read = server /\ r.taken = calls[c].taken
    BY <1>1 DEF PageRequest
  <2>2. calls' = [calls EXCEPT ![c] = r]
    BY <1>4
  <2> HIDE DEF r
  <2>3. QED
    BY <1>1, <2>1, <2>2, <1>2, <1>3, UnderWayStep
<1>5. CASE calls' = [calls EXCEPT ![c].phase = "unlisted"]
  <2> DEFINE r == [calls[c] EXCEPT !.phase = "unlisted"]
  <2>1. r \in PageRequest /\ r.kind = calls[c].kind /\ r.draft = calls[c].draft
        /\ r.phase = "unlisted" /\ r.taken = calls[c].taken
    BY <1>1 DEF PageRequest
  <2>2. calls' = [calls EXCEPT ![c] = r]
    BY <1>5
  <2> HIDE DEF r
  <2>3. QED
    BY <1>1, <2>1, <2>2, <1>2, <1>3, UnderWayStep
<1>6. QED
  BY <1>4, <1>5 DEF Listed

LEMMA AnsweredStep ==
  ASSUME PageParameters, PageInv, NEW c \in DOMAIN calls, Answered(c)
  PROVE  PageInv'
<1> DEFINE r == [calls[c] EXCEPT !.phase = "reading"]
<1>1. calls[c] \in PageRequest /\ server \in Lists /\ calls[c].phase = "answered"
  BY CallShape DEF PageInv, RequestsAreWellFormed, Answered
<1>2. patient /\ calls[c].kind \in {"register", "update"} =>
        calls[c].taken /\ \E id \in DOMAIN server : server[id] = calls[c].draft
  BY <1>1, Saved
<1>3. UNCHANGED <<patient, server, drivers, screen, drafts>>
  BY DEF Answered
<1>4. r \in PageRequest /\ r.kind = calls[c].kind /\ r.draft = calls[c].draft
      /\ r.phase = "reading" /\ r.taken = calls[c].taken
  BY <1>1 DEF PageRequest
<1>5. calls' = [calls EXCEPT ![c] = r]
  BY DEF Answered, AfterWrite
<1> HIDE DEF r
<1>6. QED
  BY <1>1, <1>4, <1>5, <1>2, <1>3, UnderWayStep

\* What the end of a request does to the form.
LEMMA SettleEffect ==
  ASSUME PageInv, PageParameters, NEW c \in DOMAIN calls, NEW failed \in BOOLEAN,
         Settle(c, failed)
  PROVE  /\ draft' \in 0..MaxDrafts /\ editing' \in Rows \cup {Adding}
         /\ draft' # draft => ~failed /\ calls[c].kind \in {"register", "update"}
<1>1. CASE calls[c].kind = "register" /\ ~failed
  BY <1>1 DEF Settle, PageInv, PageTypeOK, PageParameters
<1>2. CASE calls[c].kind = "update" /\ ~failed
  <2>1. OpenOn(Adding)
    BY <1>2 DEF Settle
  <2>2. QED
    BY <1>2, <2>1 DEF OpenOn, PageInv, PageTypeOK, PageParameters
<1>3. CASE ~(calls[c].kind \in {"register", "update"} /\ ~failed)
  <2>1. UNCHANGED <<draft, editing>>
    BY <1>3 DEF Settle
  <2>2. QED
    BY <2>1 DEF PageInv, PageTypeOK
<1>4. QED
  BY <1>1, <1>2, <1>3

\* The end of a request: for a user who waits it was the only one, and the list
\* on screen is the server's or a banner says it may not be.
LEMMA FinishStep ==
  ASSUME PageParameters, PageInv, NEW c \in DOMAIN calls, NEW failed \in BOOLEAN,
         calls[c].phase # "done", Resume(c, failed), list' \in Lists,
         patient /\ ~failed => list' = server
  PROVE  PageInv'
<1> DEFINE r == [calls[c] EXCEPT !.phase = "done"]
<1>1. calls[c] \in PageRequest
  BY CallShape
<1>2. r \in PageRequest /\ r.phase = "done" /\ calls' = [calls EXCEPT ![c] = r]
  BY <1>1 DEF PageRequest, Resume
<1>3. /\ Len(calls') = Len(calls) /\ DOMAIN calls' = DOMAIN calls
      /\ calls'[c] = r
      /\ \A d \in DOMAIN calls \ {c} : calls'[d] = calls[d]
      /\ calls' \in Seq(PageRequest)
  BY <1>2, CallEffect
<1>4. draft' \in 0..MaxDrafts /\ editing' \in Rows \cup {Adding}
  BY SettleEffect DEF Resume
<1>5. PageTypeOK'
  <2>1. \A d \in DOMAIN calls' :
          /\ calls'[d].kind \in {"refresh", "register", "update", "remove"}
          /\ calls'[d].phase \in {"writing", "answered", "unanswered", "reading", "listed",
                                  "unlisted", "done"}
    BY <1>2, <1>3 DEF PageInv, PageTypeOK, PageRequest
  <2>2. DOMAIN list' \subseteq Rows
    BY ListShape
  <2>3. QED
    BY <1>3, <1>4, <2>1, <2>2 DEF PageInv, PageTypeOK, Resume
<1>6. RequestsAreWellFormed'
  BY <1>2, <1>3 DEF PageInv, RequestsAreWellFormed, Resume
<1>7. OneRequest'
  <2>1. patient => \A d \in DOMAIN calls' : calls'[d].phase = "done"
    BY <1>2, <1>3 DEF PageInv, OneRequest
  <2>2. QED
    BY <2>1 DEF OneRequest, Resume
<1>8. QuietListIsCurrent'
  BY DEF QuietListIsCurrent, Resume
<1>9. QED
  BY <1>5, <1>6, <1>7, <1>8 DEF PageInv

LEMMA EndStep ==
  ASSUME PageParameters, PageInv, NEW c \in DOMAIN calls,
         WriteFailed(c) \/ ListShown(c) \/ ListFailed(c)
  PROVE  PageInv'
<1>1. calls[c] \in PageRequest /\ list \in Lists
  BY CallShape DEF PageInv, RequestsAreWellFormed
<1>2. CASE WriteFailed(c)
  BY <1>1, <1>2, FinishStep DEF WriteFailed
<1>3. CASE ListFailed(c)
  BY <1>1, <1>3, FinishStep DEF ListFailed
<1>4. CASE ListShown(c)
  <2>1. calls[c].read \in Lists
    BY <1>1 DEF PageRequest
  <2>2. patient => calls[c].read = server
    BY <1>4 DEF ListShown, PageInv, OneRequest
  <2>3. QED
    BY <1>4, <2>1, <2>2, FinishStep DEF ListShown
<1>5. QED
  BY <1>2, <1>3, <1>4

LEMMA DriversStep ==
  ASSUME PageInv, DriversLoaded
  PROVE  PageInv'
<1>1. PageTypeOK' /\ RequestsAreWellFormed'
  BY DEF DriversLoaded, PageInv, PageTypeOK, RequestsAreWellFormed, screen
<1>2. OneRequest' /\ QuietListIsCurrent'
  BY DEF DriversLoaded, PageInv, OneRequest, QuietListIsCurrent, Waits, screen
<1>3. QED
  BY <1>1, <1>2 DEF PageInv

LEMMA PageInvStep ==
  ASSUME PageParameters, PageInv, PageNext
  PROVE  PageInv'
<1>1. CASE Type
  BY <1>1, TypeStep
<1>2. CASE CancelEdit
  <2>1. 1 \in Rows
    BY DEF Rows, PageParameters
  <2>2. QED
    BY <1>2, <2>1, OpenStep
<1>3. CASE Submit
  BY <1>3, PageSubmitStep
<1>4. ASSUME NEW id \in Rows, StartEdit(id) \/ Remove(id)
      PROVE  PageInv'
  BY <1>4, OpenStep, RemoveStep
<1>5. CASE DriversLoaded
  BY <1>5, DriversStep
<1>6. ASSUME NEW c \in DOMAIN calls,
             \/ Taken(c) \/ Refused(c) \/ Listed(c)
             \/ Answered(c) \/ WriteFailed(c) \/ ListShown(c) \/ ListFailed(c)
      PROVE  PageInv'
  BY <1>6, TakenStep, RefusedStep, ListedStep, AnsweredStep, EndStep
<1>7. QED
  BY <1>1, <1>2, <1>3, <1>4, <1>5, <1>6 DEF PageNext

\* The page's requests, list and form stand as PageInv says, for any number of
\* requests and drafts (useConnections.ts, pages/connections/index.vue).
THEOREM ConnectionsPageInvariant == ASSUME PageParameters PROVE PageSpec => []PageInv
<1>1. PageInit => PageInv
  BY PageInvInit
<1>2. PageInv /\ [PageNext]_pageVars => PageInv'
  <2>1. CASE UNCHANGED pageVars
    BY <2>1 DEF pageVars, PageInv, PageTypeOK, RequestsAreWellFormed, OneRequest,
                QuietListIsCurrent, Waits
  <2>2. QED
    BY <2>1, PageInvStep
<1>3. QED
  BY <1>1, <1>2, PTL DEF PageSpec

\* A user who waits for the page sees the server's list whenever nothing is on
\* its way and no banner is up (useConnections.ts).
THEOREM QuietListTheorem ==
  ASSUME PageParameters PROVE PageSpec => []QuietListIsTrue
<1>1. PageInv => QuietListIsTrue
  BY DEF PageInv, QuietListIsTrue
<1>2. QED
  BY <1>1, ConnectionsPageInvariant, PTL

(***************************************************************************)
(* Drafts.                                                                 *)
(***************************************************************************)
\* Only the end of a request makes it done, and only that of a write that was
\* answered and listed changes the form.
LEMMA DraftKept ==
  ASSUME PageParameters, PageInv, PageNext, patient, NEW c \in DOMAIN calls,
         calls[c].phase # "done", calls'[c].phase = "done", draft' # draft
  PROVE  calls[c].taken /\ calls[c].draft = draft /\ \E id \in DOMAIN server : server[id] = draft
<1>1. ASSUME NEW kind \in {"register", "update", "remove"}, NEW id \in 0..MaxCalls,
             Start(kind, id)
      PROVE  FALSE
  BY <1>1, StartEffect
<1>2. CASE Type \/ CancelEdit \/ DriversLoaded \/ \E id \in Rows : StartEdit(id)
  BY <1>2 DEF Type, CancelEdit, DriversLoaded, StartEdit
<1>3. CASE Submit
  BY <1>3 DEF Submit, screen
<1>4. CASE \E id \in Rows : Remove(id)
  BY <1>4 DEF Remove, screen
<1>5. ASSUME NEW d \in DOMAIN calls, Taken(d) \/ Refused(d) \/ Listed(d) \/ Answered(d)
      PROVE  FALSE
  BY <1>5 DEF Taken, Refused, Listed, Answered, screen
<1>6. ASSUME NEW d \in DOMAIN calls, WriteFailed(d) \/ ListFailed(d)
      PROVE  FALSE
  BY <1>6, SettleEffect DEF WriteFailed, ListFailed, Resume
<1>7. ASSUME NEW d \in DOMAIN calls, ListShown(d)
      PROVE  calls[c].taken /\ calls[c].draft = draft
             /\ \E id \in DOMAIN server : server[id] = draft
  <2>1. Resume(d, FALSE) /\ calls[d].phase = "listed"
    BY <1>7 DEF ListShown
  <2>2. calls[d].kind \in {"register", "update"}
    BY <2>1, SettleEffect DEF Resume
  <2>3. d = c
    BY <2>1, CallShape DEF Resume, PageInv, RequestsAreWellFormed
  <2>4. QED
    BY <2>1, <2>2, <2>3, Saved
<1>8. QED
  BY <1>2, <1>3, <1>4, <1>5, <1>6, <1>7 DEF PageNext

\* For a user who waits, no answer takes away a draft the server has not taken:
\* the form is reset only on success (onSubmit(), pages/connections/index.vue).
THEOREM DraftTheorem == ASSUME PageParameters PROVE PageSpec => NoDraftIsLost
<1>1. PageInv /\ [PageNext]_pageVars =>
        [\A c \in DOMAIN calls :
           patient /\ calls[c].phase # "done" /\ calls'[c].phase = "done" /\ draft' # draft
             => calls[c].taken /\ calls[c].draft = draft
                /\ \E id \in DOMAIN server : server[id] = draft]_pageVars
  BY DraftKept
<1>2. QED
  BY <1>1, ConnectionsPageInvariant, PTL DEF PageSpec, NoDraftIsLost

-----------------------------------------------------------------------------

(***************************************************************************)
(* The boxes: what the form sends, what the server makes of it, and what   *)
(* is dialled in the end.                                                  *)
(***************************************************************************)
\* The password a configuration has, wherever its driver reads it.
Stored(body) == IF body.url = None THEN body.password ELSE body.url.password

\* A URL is something.
LEMMA UrlIsThere ==
  /\ \A u \in Url : u # None
  /\ \A w \in Passwords : w # None
  /\ \A h \in Hosts : h # None
  /\ \A k \in Keys : k # None
  /\ \A n \in Pins : n # None
  /\ None # "require" /\ None # "disable" /\ None # "prefer" /\ None # "DISABLED"
  /\ None # 3306 /\ None # 5432 /\ None # 6000
  BY FormAssumption DEF SslModes

LEMMA OrTypes ==
  ASSUME NEW S, NEW v \in S \cup {None}, NEW w \in S \cup {None}
  PROVE  Or(v, w) \in S \cup {None}
  BY DEF Or

\* A URL with another password.
LEMMA UrlWithPassword ==
  ASSUME NEW u \in Url, NEW w \in Passwords \cup {None}
  PROVE  /\ [u EXCEPT !.password = w] \in Url
         /\ [u EXCEPT !.password = w].host = u.host
         /\ [u EXCEPT !.password = w].port = u.port
         /\ [u EXCEPT !.password = w].tls = u.tls
         /\ [u EXCEPT !.password = w].password = w
  BY DEF Url

\* What a configuration is after its credential was carried over: itself, but
\* for a credential left blank.
LEMMA CarriedFields ==
  ASSUME NEW p \in Bodies, NEW n \in Bodies
  PROVE  /\ Carried(p, n) \in Bodies
         /\ Carried(p, n).driver = n.driver /\ Carried(p, n).host = n.host
         /\ Carried(p, n).port = n.port /\ Carried(p, n).sslMode = n.sslMode
         /\ Carried(p, n).url = None <=> n.url = None
         /\ n.url # None => /\ Carried(p, n).url.host = n.url.host
                            /\ Carried(p, n).url.port = n.url.port
                            /\ Carried(p, n).url.tls = n.url.tls
         /\ n.driver \in SocketDrivers =>
              Stored(Carried(p, n)) = Or(Stored(n), Stored(p))
<1>1. n.driver \in Drivers
  BY DEF Bodies
<1>2. CASE n.driver \in {"turso", "d1"}
  <2>1. Carried(p, n) = [n EXCEPT !.token = Or(n.token, p.token)]
    BY <1>2 DEF Carried, Bodies
  <2>2. Or(n.token, p.token) \in Passwords \cup {None}
    BY OrTypes DEF Bodies
  <2>3. QED
    BY <1>2, <2>1, <2>2 DEF Bodies, SocketDrivers
<1>3. CASE n.driver = "null"
  BY <1>3 DEF Carried, SocketDrivers
<1>4. CASE n.driver \in SocketDrivers
  <2>1. Stored(p) \in Passwords \cup {None}
    BY DEF Bodies, Url, Stored
  <2>2. CASE n.url = None
    <3>1. Carried(p, n) = [n EXCEPT !.password = Or(n.password, Stored(p))]
      BY <1>4, <2>2 DEF Carried, Bodies, Stored, SocketDrivers
    <3>2. Or(n.password, Stored(p)) \in Passwords \cup {None}
      BY <2>1, OrTypes DEF Bodies
    <3>3. QED
      BY <2>2, <3>1, <3>2 DEF Bodies, Stored
  <2>3. CASE n.url # None
    <3> DEFINE u == [n.url EXCEPT !.password = Or(n.url.password, Stored(p))]
    <3>1. n.url \in Url
      BY <2>3 DEF Bodies
    <3>2. Or(n.url.password, Stored(p)) \in Passwords \cup {None}
      BY <2>1, <3>1, OrTypes DEF Url
    <3>3. Carried(p, n) = [n EXCEPT !.url = u]
      BY <1>4, <2>3, <3>1 DEF Carried, Bodies, Url, Stored, SocketDrivers
    <3>4. /\ u \in Url /\ u.host = n.url.host /\ u.port = n.url.port /\ u.tls = n.url.tls
          /\ u.password = Or(n.url.password, Stored(p)) /\ u # None
      BY <3>1, <3>2, UrlWithPassword, UrlIsThere
    <3> HIDE DEF u
    <3>5. QED
      BY <2>3, <3>3, <3>4 DEF Bodies, Stored
  <2>4. QED
    BY <2>2, <2>3
<1>5. QED
  BY <1>1, <1>2, <1>3, <1>4 DEF Drivers, SocketDrivers

\* The tunnel an accepted edit leaves.
LEMMA GraftedTunnel ==
  ASSUME NEW t \in SshTunnels \cup {None}, NEW s \in SshInput,
         Resolves(s, IF t = None THEN None ELSE t.auth)
  PROVE  /\ GraftSshTunnel(t, SetTunnel(s)) \in SshTunnels
         /\ GraftSshTunnel(t, SetTunnel(s)).host = s.host
         /\ GraftSshTunnel(t, SetTunnel(s)).auth = ResolveAuth(s, IF t = None THEN None ELSE t.auth)
         /\ GraftSshTunnel(t, SetTunnel(s)).hostKey = ResolveHostKey(s)
         /\ GraftSshTunnel(t, KeepTunnel) = t
         /\ GraftSshTunnel(t, DropTunnel) = None
<1> DEFINE carried == IF t = None THEN None ELSE t.auth
           Auths == [kind : {"private-key", "password"}, secret : Keys \cup Passwords]
<1>1. carried \in Auths \cup {None}
  BY DEF SshTunnels
<1>2. ResolveAuth(s, carried) \in Auths
  BY <1>1, UrlIsThere, FormAssumption DEF Resolves, AuthIsStated, OneOf, ResolveAuth, SshInput
<1>3. ResolveHostKey(s) \in [kind : {"fingerprint", "known-hosts"}, pin : Pins]
  BY UrlIsThere DEF Resolves, OneOf, ResolveHostKey, SshInput
<1>4. s.host \in Hosts
  BY DEF Resolves, SshInput
<1>5. GraftSshTunnel(t, SetTunnel(s))
        = [host |-> s.host, auth |-> ResolveAuth(s, carried), hostKey |-> ResolveHostKey(s)]
  BY DEF GraftSshTunnel, SetTunnel
<1> HIDE DEF carried
<1>6. /\ GraftSshTunnel(t, SetTunnel(s)) \in SshTunnels
      /\ GraftSshTunnel(t, SetTunnel(s)).host = s.host
      /\ GraftSshTunnel(t, SetTunnel(s)).auth = ResolveAuth(s, carried)
      /\ GraftSshTunnel(t, SetTunnel(s)).hostKey = ResolveHostKey(s)
  BY <1>2, <1>3, <1>4, <1>5 DEF SshTunnels
<1>7. GraftSshTunnel(t, KeepTunnel) = t /\ GraftSshTunnel(t, DropTunnel) = None
  BY DEF GraftSshTunnel, KeepTunnel, DropTunnel
<1>8. QED
  BY <1>6, <1>7 DEF carried

\* The tunnel of any edit a server accepts.
LEMMA GraftTypes ==
  ASSUME NEW p, NEW t \in SshTunnels \cup {None}, NEW b \in Bodies, Accepted(p, t, b)
  PROVE  GraftSshTunnel(t, b.ssh) \in SshTunnels \cup {None}
<1>1. b.ssh \in SshEdits
  BY DEF Bodies
<1>2. CASE b.ssh = KeepTunnel
  BY <1>2 DEF GraftSshTunnel, KeepTunnel
<1>3. CASE b.ssh = DropTunnel
  BY <1>3 DEF GraftSshTunnel, DropTunnel
<1>4. ASSUME NEW s \in SshInput, b.ssh = SetTunnel(s)
      PROVE  GraftSshTunnel(t, b.ssh) \in SshTunnels
  <2>1. b.ssh.edit = "set" /\ b.ssh.to = s
    BY <1>4 DEF SetTunnel
  <2>2. Resolves(s, IF t = None THEN None ELSE t.auth)
    BY <2>1 DEF Accepted
  <2>3. QED
    BY <1>4, <2>2, GraftedTunnel
<1>5. QED
  BY <1>1, <1>2, <1>3, <1>4 DEF SshEdits

\* What the server makes of an accepted body is sound.
LEMMA RebuiltIsSound ==
  ASSUME NEW p \in Bodies, NEW t \in SshTunnels \cup {None}, NEW b \in Bodies, Accepted(p, t, b)
  PROVE  Sound(Rebuilt(p, t, b)) /\ Rebuilt(p, t, b).driver = b.driver
<1> DEFINE r == Rebuilt(p, t, b)
           c == Carried(p, b)
<1>1. /\ r.driver = b.driver /\ r.config = c /\ r.tunnel = GraftSshTunnel(t, b.ssh)
      /\ r.parts = PartsOf(b) /\ DOMAIN r = {"driver", "config", "tunnel", "parts"}
  BY DEF Rebuilt
<1>2. /\ c \in Bodies /\ c.driver = b.driver /\ c.host = b.host /\ c.port = b.port
      /\ c.sslMode = b.sslMode /\ (c.url = None <=> b.url = None)
      /\ b.url # None => /\ c.url.host = b.url.host /\ c.url.port = b.url.port
                         /\ c.url.tls = b.url.tls
  BY CarriedFields
<1>3. GraftSshTunnel(t, b.ssh) \in SshTunnels \cup {None}
  BY GraftTypes
<1>4. Buildable(c, GraftSshTunnel(t, b.ssh))
  BY DEF Accepted
<1> HIDE DEF r, c
<1>5. Stated(c.url) = Stated(b.url)
  BY <1>2 DEF Stated
<1>6. PartsOf(c) = PartsOf(b)
  BY <1>2, <1>5 DEF PartsOf
<1>7. Sound(r)
  BY <1>1, <1>2, <1>3, <1>4, <1>6 DEF Sound
<1>8. QED
  BY <1>1, <1>7 DEF r

\* A body that says nothing but its driver.
LEMMA EmptyBodyTypes ==
  ASSUME NEW d \in Drivers
  PROVE  EmptyBody(d) \in Bodies /\ EmptyBody(d).driver = d
  BY DEF EmptyBody, Bodies, SshEdits, ServerPorts, Ports

\* A body the API takes is a body.
LEMMA RegisteredBodies ==
  ASSUME NEW b \in Registrations
  PROVE  b \in Bodies /\ Accepted(EmptyBody(b.driver), None, b)
<1> DEFINE Tunnels == [host : Hosts, key : Keys, password : {None}, fingerprint : Pins, knownHosts : {None}]
                      \cup [host : Hosts, key : {None}, password : Passwords,
                            fingerprint : {None}, knownHosts : Pins]
           Ssh == {KeepTunnel} \cup {SetTunnel(s) : s \in Tunnels}
           Token(d) == IF d \in {"turso", "d1"} THEN Passwords ELSE {None}
           Posts(d) == [driver : {d}, url : Url, host : {None}, port : {None}, password : {None},
                        sslMode : {None}, token : Token(d), ids : Passwords \cup {None}, ssh : Ssh]
                       \cup [driver : {d}, url : {None}, host : Hosts, port : Ports,
                             password : Passwords \cup {None}, sslMode : SslModes \cup {None},
                             token : Token(d), ids : Passwords \cup {None}, ssh : Ssh]
<1>1. Accepted(EmptyBody(b.driver), None, b) /\ b \in UNION {Posts(d) : d \in Drivers}
  BY Zenon DEF Registrations
<1>2. Tunnels \subseteq SshInput
  BY DEF SshInput
<1>3. Ssh \subseteq SshEdits
  BY <1>2, Zenon DEF SshEdits
<1>4. \A d : Token(d) \subseteq Passwords \cup {None}
  OBVIOUS
<1> HIDE DEF Tunnels, Ssh, Token
<1>5. \A d \in Drivers : Posts(d) \subseteq Bodies
  <2> SUFFICES ASSUME NEW d \in Drivers, NEW x \in Posts(d) PROVE x \in Bodies
    OBVIOUS
  <2>1. Ports \subseteq ServerPorts /\ None \in ServerPorts
    BY DEF ServerPorts, Ports
  <2>2. Token(d) \subseteq Passwords \cup {None}
    BY <1>4
  <2>3. CASE x \in [driver : {d}, url : Url, host : {None}, port : {None}, password : {None},
                    sslMode : {None}, token : Token(d), ids : Passwords \cup {None}, ssh : Ssh]
    BY <1>3, <2>1, <2>2, <2>3 DEF Bodies
  <2>4. CASE x \in [driver : {d}, url : {None}, host : Hosts, port : Ports,
                    password : Passwords \cup {None}, sslMode : SslModes \cup {None},
                    token : Token(d), ids : Passwords \cup {None}, ssh : Ssh]
    BY <1>3, <2>1, <2>2, <2>4 DEF Bodies
  <2>5. QED
    BY <2>3, <2>4
<1> HIDE DEF Posts
<1>6. QED
  BY <1>1, <1>5

\* Every record the API makes is sound.
LEMMA RecordsAreSound ==
  ASSUME NEW r \in Records
  PROVE  Sound(r)
<1>1. PICK b \in Registrations : r = Rebuilt(EmptyBody(b.driver), None, b)
  BY DEF Records
<1>2. b \in Bodies /\ Accepted(EmptyBody(b.driver), None, b) /\ b.driver \in Drivers
  BY RegisteredBodies DEF Bodies
<1>3. EmptyBody(b.driver) \in Bodies
  BY <1>2, EmptyBodyTypes
<1>4. QED
  BY <1>1, <1>2, <1>3, RebuiltIsSound

\* An empty form is a form.
LEMMA EmptyFormTypes ==
  ASSUME NEW d \in Drivers
  PROVE  /\ EmptyForm(d) \in Boxes /\ EmptyForm(d).driver = d
         /\ EmptyForm(d).useUrl = FALSE /\ EmptyForm(d).url = None /\ EmptyForm(d).password = None
         /\ EmptyForm(d).key = None /\ EmptyForm(d).sshPassword = None
         /\ EmptyForm(d).sshEnabled = FALSE
  BY DEF EmptyForm, Boxes, ServerPorts, Ports, SslModes

\* One box at a time.
LEMMA OneBox ==
  ASSUME NEW p \in Boxes
  PROVE  /\ \A x \in Hosts \cup {None} : [p EXCEPT !.host = x] \in Boxes /\ [p EXCEPT !.sshHost = x] \in Boxes
         /\ \A x \in ServerPorts : [p EXCEPT !.port = x] \in Boxes
         /\ \A x \in SslModes : [p EXCEPT !.sslMode = x] \in Boxes
         /\ [p EXCEPT !.sshEnabled = TRUE] \in Boxes
         /\ \A x \in {"private-key", "password"} : [p EXCEPT !.auth = x] \in Boxes
         /\ \A x \in {"fingerprint", "known-hosts"} : [p EXCEPT !.hostKey = x] \in Boxes
         /\ \A x \in Pins \cup {None} : [p EXCEPT !.fingerprint = x] \in Boxes /\ [p EXCEPT !.knownHosts = x] \in Boxes
<1>1. ASSUME NEW x \in Hosts \cup {None} PROVE [p EXCEPT !.host = x] \in Boxes
  BY SMTT(30) DEF Boxes
<1>2. ASSUME NEW x \in Hosts \cup {None} PROVE [p EXCEPT !.sshHost = x] \in Boxes
  BY SMTT(30) DEF Boxes
<1>3. ASSUME NEW x \in ServerPorts PROVE [p EXCEPT !.port = x] \in Boxes
  BY SMTT(30) DEF Boxes
<1>4. ASSUME NEW x \in SslModes PROVE [p EXCEPT !.sslMode = x] \in Boxes
  BY SMTT(30) DEF Boxes
<1>5. ASSUME NEW x \in BOOLEAN PROVE [p EXCEPT !.sshEnabled = x] \in Boxes
  BY SMTT(30) DEF Boxes
<1>6. ASSUME NEW x \in {"private-key", "password"} PROVE [p EXCEPT !.auth = x] \in Boxes
  BY SMTT(30) DEF Boxes
<1>7. ASSUME NEW x \in {"fingerprint", "known-hosts"} PROVE [p EXCEPT !.hostKey = x] \in Boxes
  BY SMTT(30) DEF Boxes
<1>8. ASSUME NEW x \in Pins \cup {None} PROVE [p EXCEPT !.fingerprint = x] \in Boxes
  BY SMTT(30) DEF Boxes
<1>9. ASSUME NEW x \in Pins \cup {None} PROVE [p EXCEPT !.knownHosts = x] \in Boxes
  BY SMTT(30) DEF Boxes
<1>10. QED
  BY <1>1, <1>2, <1>3, <1>4, <1>5, <1>6, <1>7, <1>8, <1>9

\* What the boxes of an edit open with.
LEMMA FormOfFields ==
  ASSUME NEW r, Sound(r)
  PROVE  /\ FormOf(r) \in Boxes /\ FormOf(r).driver = r.driver
         /\ FormOf(r).useUrl = FALSE /\ FormOf(r).password = None
         /\ FormOf(r).host = r.parts.host /\ FormOf(r).port = r.parts.port
         /\ FormOf(r).sslMode = Or(r.parts.sslMode, "require")
         /\ FormOf(r).key = None /\ FormOf(r).sshPassword = None
         /\ FormOf(r).sshEnabled <=> r.tunnel # None
         /\ r.tunnel # None =>
              /\ FormOf(r).sshHost = r.tunnel.host
              /\ FormOf(r).hostKey = r.tunnel.hostKey.kind
              /\ FormOf(r).fingerprint =
                   IF r.tunnel.hostKey.kind = "fingerprint" THEN r.tunnel.hostKey.pin ELSE None
              /\ FormOf(r).knownHosts =
                   IF r.tunnel.hostKey.kind = "known-hosts" THEN r.tunnel.hostKey.pin ELSE None
<1>1. r.driver \in Drivers /\ r.config \in Bodies /\ r.tunnel \in SshTunnels \cup {None}
  BY DEF Sound, Bodies
<1>2. /\ r.parts.host \in Hosts \cup {None} /\ r.parts.port \in ServerPorts
      /\ r.parts.sslMode \in SslModes \cup {None}
  BY <1>1 DEF Sound, PartsOf, Bodies, Url, ServerPorts, Or, Stated, HardenSslMode, SslModes
<1>3. Or(r.parts.sslMode, "require") \in SslModes
  BY <1>2 DEF Or, SslModes
<1> DEFINE plain == [EmptyForm(r.driver) EXCEPT
                       !.host = r.parts.host, !.port = r.parts.port,
                       !.sslMode = Or(r.parts.sslMode, "require")]
<1>4. /\ plain \in Boxes /\ plain.driver = r.driver
      /\ plain.useUrl = FALSE /\ plain.password = None /\ plain.sshEnabled = FALSE
      /\ plain.host = r.parts.host /\ plain.port = r.parts.port
      /\ plain.sslMode = Or(r.parts.sslMode, "require")
      /\ plain.key = None /\ plain.sshPassword = None
  <2> DEFINE empty == EmptyForm(r.driver)
             m == Or(r.parts.sslMode, "require")
  <2>1. /\ empty \in Boxes /\ empty.driver = r.driver /\ empty.useUrl = FALSE /\ empty.password = None
        /\ empty.sshEnabled = FALSE /\ empty.key = None /\ empty.sshPassword = None
    BY <1>1, EmptyFormTypes
  <2> HIDE DEF empty, m
  <2>2. plain = [[[empty EXCEPT !.host = r.parts.host] EXCEPT !.port = r.parts.port] EXCEPT !.sslMode = m]
    BY <2>1 DEF Boxes, empty, m
  <2>3. [empty EXCEPT !.host = r.parts.host] \in Boxes
    BY <1>2, <2>1, OneBox
  <2>4. [[empty EXCEPT !.host = r.parts.host] EXCEPT !.port = r.parts.port] \in Boxes
    BY <1>2, <2>3, OneBox
  <2>5. m \in SslModes
    BY <1>3 DEF m
  <2> HIDE DEF plain
  <2>6. plain \in Boxes
    BY <2>2, <2>4, <2>5, OneBox
  <2>7. QED
    BY <2>1, <2>2, <2>3, <2>4, <2>6 DEF Boxes, m
<1>5. CASE r.tunnel = None
  <2>1. FormOf(r) = plain
    BY <1>5 DEF FormOf
  <2> HIDE DEF plain
  <2>2. QED
    BY <1>4, <1>5, <2>1
<1>6. CASE r.tunnel # None
  <2> DEFINE t == r.tunnel
             pinned == IF t.hostKey.kind = "fingerprint" THEN t.hostKey.pin ELSE None
             known == IF t.hostKey.kind = "known-hosts" THEN t.hostKey.pin ELSE None
  <2>1. /\ t.host \in Hosts /\ t.auth.kind \in {"private-key", "password"}
        /\ t.hostKey.kind \in {"fingerprint", "known-hosts"}
        /\ pinned \in Pins \cup {None} /\ known \in Pins \cup {None}
    BY <1>1, <1>6 DEF SshTunnels
  <2>2. FormOf(r) = [plain EXCEPT !.sshEnabled = TRUE, !.sshHost = t.host, !.auth = t.auth.kind,
                                  !.hostKey = t.hostKey.kind,
                                  !.fingerprint = pinned, !.knownHosts = known]
    BY <1>6 DEF FormOf, SshParts
  <2> HIDE DEF plain, pinned, known
  <2>3. PICK p \in Boxes : p = plain
    BY <1>4
  <2>4. FormOf(r) = [p EXCEPT !.sshEnabled = TRUE, !.sshHost = t.host, !.auth = t.auth.kind,
                              !.hostKey = t.hostKey.kind,
                              !.fingerprint = pinned, !.knownHosts = known]
    BY <2>2, <2>3
  <2>5. FormOf(r) \in Boxes
    <3>1. PICK a \in Boxes : a = [p EXCEPT !.sshEnabled = TRUE]
      <4>1. [p EXCEPT !.sshEnabled = TRUE] \in Boxes
        BY OneBox
      <4>2. QED
        BY <4>1
    <3>2. PICK b \in Boxes : b = [a EXCEPT !.sshHost = t.host]
      <4>1. [a EXCEPT !.sshHost = t.host] \in Boxes
        BY <2>1, OneBox
      <4>2. QED
        BY <4>1
    <3>3. PICK c \in Boxes : c = [b EXCEPT !.auth = t.auth.kind]
      <4>1. [b EXCEPT !.auth = t.auth.kind] \in Boxes
        BY <2>1, OneBox
      <4>2. QED
        BY <4>1
    <3>4. PICK d \in Boxes : d = [c EXCEPT !.hostKey = t.hostKey.kind]
      <4>1. [c EXCEPT !.hostKey = t.hostKey.kind] \in Boxes
        BY <2>1, OneBox
      <4>2. QED
        BY <4>1
    <3>5. PICK e \in Boxes : e = [d EXCEPT !.fingerprint = pinned]
      <4>1. [d EXCEPT !.fingerprint = pinned] \in Boxes
        BY <2>1, OneBox
      <4>2. QED
        BY <4>1
    <3>6. [e EXCEPT !.knownHosts = known] \in Boxes
      BY <2>1, OneBox
    <3>7. FormOf(r) = [e EXCEPT !.knownHosts = known]
      BY <2>4, <3>1, <3>2, <3>3, <3>4, <3>5, SMTT(30)
    <3>8. QED
      BY <3>6, <3>7
  <2>6. /\ FormOf(r).driver = p.driver /\ FormOf(r).useUrl = p.useUrl /\ FormOf(r).password = p.password
        /\ FormOf(r).host = p.host /\ FormOf(r).port = p.port /\ FormOf(r).sslMode = p.sslMode
        /\ FormOf(r).key = p.key /\ FormOf(r).sshPassword = p.sshPassword
    BY <2>4, SMTT(30) DEF Boxes
  <2>7. /\ FormOf(r).sshEnabled = TRUE /\ FormOf(r).sshHost = t.host /\ FormOf(r).hostKey = t.hostKey.kind
        /\ FormOf(r).fingerprint = pinned /\ FormOf(r).knownHosts = known
    BY <2>4, SMTT(30) DEF Boxes
  <2>8. QED
    BY <1>4, <1>6, <2>3, <2>5, <2>6, <2>7 DEF pinned, known
<1>7. QED
  BY <1>5, <1>6

\* What the boxes of a tunnel say is an input of the server's.
LEMMA BuildSshFields ==
  ASSUME NEW f \in Boxes
  PROVE  BuildSsh(f) \in SshInput
  BY DEF BuildSsh, SshInput, Boxes

\* What is sent of a tunnel.
LEMMA SshMemberCases ==
  ASSUME NEW f \in Boxes, f.driver \in SocketDrivers
  PROVE  /\ SshMember(f) \in SshEdits
         /\ f.sshEnabled => SshMember(f) = SetTunnel(BuildSsh(f))
         /\ ~f.sshEnabled => SshMember(f) = IF mode = "edit" /\ record.tunnel # None
                                            THEN DropTunnel ELSE KeepTunnel
<1>1. SupportsSshTunnel(f.driver)
  BY UrlIsThere DEF SupportsSshTunnel, DefaultPort, SocketDrivers
<1>2. QED
  BY <1>1, BuildSshFields DEF SshMember, SshEdits

\* What is sent of the boxes.
LEMMA PayloadFields ==
  ASSUME NEW f \in Boxes
  PROVE  /\ Payload(f) \in Bodies /\ Payload(f).driver = f.driver
         /\ f.driver # "null" =>
              /\ Payload(f).sslMode = f.sslMode /\ Payload(f).ssh = SshMember(f)
              /\ f.useUrl => /\ Payload(f).url = f.url /\ Payload(f).host = None
                             /\ Payload(f).port = None /\ Payload(f).password = None
              /\ ~f.useUrl => /\ Payload(f).url = None /\ Payload(f).host = f.host
                              /\ Payload(f).port = Or(f.port, DefaultPort(f.driver))
                              /\ Payload(f).password = f.password
<1>1. f.driver \in Drivers /\ EmptyBody(f.driver) \in Bodies /\ EmptyBody(f.driver).driver = f.driver
  BY EmptyBodyTypes DEF Boxes
<1>2. SshMember(f) \in SshEdits
  BY BuildSshFields DEF SshMember, SshEdits
<1>3. Or(f.port, DefaultPort(f.driver)) \in ServerPorts
  BY DEF Or, DefaultPort, Boxes, ServerPorts, Ports
<1>4. CASE f.driver = "null"
  BY <1>1, <1>4 DEF Payload
<1>5. CASE f.driver # "null"
  <2> DEFINE secured == [EmptyBody(f.driver) EXCEPT !.sslMode = f.sslMode, !.ssh = SshMember(f)]
  <2>1. /\ secured \in Bodies /\ secured.driver = f.driver /\ secured.sslMode = f.sslMode
        /\ secured.ssh = SshMember(f) /\ secured.url = None /\ secured.host = None
        /\ secured.port = None /\ secured.password = None
    <3>1. f.sslMode \in SslModes \cup {None}
      BY DEF Boxes
    <3>2. /\ EmptyBody(f.driver).url = None /\ EmptyBody(f.driver).host = None
          /\ EmptyBody(f.driver).port = None /\ EmptyBody(f.driver).password = None
      BY DEF EmptyBody
    <3>3. QED
      BY <1>1, <1>2, <3>1, <3>2 DEF Bodies
  <2>2. Payload(f) = IF f.useUrl THEN [secured EXCEPT !.url = f.url]
                     ELSE [secured EXCEPT !.host = f.host, !.port = Or(f.port, DefaultPort(f.driver)),
                                          !.password = f.password]
    BY <1>5 DEF Payload
  <2> HIDE DEF secured
  <2>3. f.url \in Url \cup {None} /\ f.host \in Hosts \cup {None} /\ f.password \in Passwords \cup {None}
    BY DEF Boxes
  <2>4. CASE f.useUrl
    BY <1>5, <2>1, <2>2, <2>3, <2>4 DEF Bodies
  <2>5. CASE ~f.useUrl
    BY <1>3, <1>5, <2>1, <2>2, <2>3, <2>5 DEF Bodies
  <2>6. QED
    BY <2>4, <2>5
<1>6. QED
  BY <1>4, <1>5

(* The invariant of the form.                                              *)
LEMMA FormInvInit == FormInit => FormInv
  BY EmptyFormTypes, FormAssumption DEF FormInit, FormInv, Drivers

\* Touching a box touches nothing else.
LEMMA EditStep ==
  ASSUME FormInv, NEW f \in Boxes, mode = "edit" => f.driver = boxes.driver, Edit(f)
  PROVE  FormInv'
<1>1. /\ edits < MaxEdits /\ boxes' = f /\ edits' = edits + 1 /\ mode' = mode
      /\ record' = IF mode = "edit" THEN record ELSE None
  BY DEF Edit
<1>2. edits' \in 0..MaxEdits
  BY <1>1, FormAssumption DEF FormInv
<1>3. CASE mode = "edit"
  BY <1>1, <1>2, <1>3 DEF FormInv
<1>4. CASE mode # "edit"
  BY <1>1, <1>2, <1>4 DEF FormInv
<1>5. QED
  BY <1>3, <1>4

\* A form closed after an edit is an empty form.
LEMMA ClosedForm ==
  ASSUME NoLongerEditing, record' = None \/ Sound(record)'
  PROVE  FormInv'
  BY EmptyFormTypes, FormAssumption DEF NoLongerEditing, FormInv, Drivers

\* What typing into a box may leave on screen.
LEMMA TypedBoxes ==
  ASSUME FormInv
  PROVE  /\ \A d \in Drivers : [boxes EXCEPT !.driver = d] \in Boxes
         /\ \A h \in Hosts \cup {None} :
              LET f == [boxes EXCEPT !.host = h] IN f \in Boxes /\ f.driver = boxes.driver
         /\ \A p \in Ports :
              LET f == [boxes EXCEPT !.port = p] IN f \in Boxes /\ f.driver = boxes.driver
         /\ \A w \in Passwords :
              LET f == [boxes EXCEPT !.password = w] IN f \in Boxes /\ f.driver = boxes.driver
         /\ LET f == [boxes EXCEPT !.useUrl = ~@] IN f \in Boxes /\ f.driver = boxes.driver
         /\ \A m \in SslModes :
              LET f == [boxes EXCEPT !.sslMode = m] IN f \in Boxes /\ f.driver = boxes.driver
         /\ LET f == [boxes EXCEPT !.sshEnabled = ~@] IN f \in Boxes /\ f.driver = boxes.driver
         /\ \A u \in Url \cup {None} : AfterUrl(u) \in Boxes /\ AfterUrl(u).driver = boxes.driver
<1>1. boxes \in Boxes
  BY DEF FormInv
<1>2. \A d \in Drivers : [boxes EXCEPT !.driver = d] \in Boxes
  BY <1>1 DEF Boxes
<1>3. \A h \in Hosts \cup {None} :
        [boxes EXCEPT !.host = h] \in Boxes /\ [boxes EXCEPT !.host = h].driver = boxes.driver
  BY <1>1 DEF Boxes
<1>4. \A p \in Ports :
        [boxes EXCEPT !.port = p] \in Boxes /\ [boxes EXCEPT !.port = p].driver = boxes.driver
  BY <1>1 DEF Boxes, ServerPorts
<1>5. \A w \in Passwords :
        [boxes EXCEPT !.password = w] \in Boxes /\ [boxes EXCEPT !.password = w].driver = boxes.driver
  BY <1>1 DEF Boxes
<1>6. [boxes EXCEPT !.useUrl = ~@] \in Boxes /\ [boxes EXCEPT !.useUrl = ~@].driver = boxes.driver
  <2> DEFINE turned == ~boxes.useUrl
  <2>1. turned \in BOOLEAN
    OBVIOUS
  <2>2. [boxes EXCEPT !.useUrl = ~@] = [boxes EXCEPT !.useUrl = turned]
    OBVIOUS
  <2> HIDE DEF turned
  <2>3. [boxes EXCEPT !.useUrl = turned] \in Boxes
    BY <1>1, <2>1 DEF Boxes
  <2>4. [boxes EXCEPT !.useUrl = turned].driver = boxes.driver
    BY <1>1 DEF Boxes
  <2>5. QED
    BY <2>2, <2>3, <2>4
<1>7. \A m \in SslModes :
        [boxes EXCEPT !.sslMode = m] \in Boxes /\ [boxes EXCEPT !.sslMode = m].driver = boxes.driver
  BY <1>1 DEF Boxes
<1>8. [boxes EXCEPT !.sshEnabled = ~@] \in Boxes /\ [boxes EXCEPT !.sshEnabled = ~@].driver = boxes.driver
  <2> DEFINE turned == ~boxes.sshEnabled
  <2>1. turned \in BOOLEAN
    OBVIOUS
  <2>2. [boxes EXCEPT !.sshEnabled = ~@] = [boxes EXCEPT !.sshEnabled = turned]
    OBVIOUS
  <2> HIDE DEF turned
  <2>3. [boxes EXCEPT !.sshEnabled = turned] \in Boxes
    BY <1>1, <2>1 DEF Boxes
  <2>4. [boxes EXCEPT !.sshEnabled = turned].driver = boxes.driver
    BY <1>1 DEF Boxes
  <2>5. QED
    BY <2>2, <2>3, <2>4
<1>9. ASSUME NEW u \in Url \cup {None}
      PROVE  AfterUrl(u) \in Boxes /\ AfterUrl(u).driver = boxes.driver
  <2> DEFINE m == Or(Stated(u), boxes.sslMode)
  <2>1. m \in SslModes
    BY <1>1 DEF Or, Stated, HardenSslMode, SslModes, Boxes
  <2>2. AfterUrl(u) = [[boxes EXCEPT !.url = u] EXCEPT !.sslMode = m]
    BY <1>1 DEF AfterUrl, Boxes
  <2>3. [boxes EXCEPT !.url = u] \in Boxes
    BY <1>1 DEF Boxes
  <2> HIDE DEF m
  <2>4. PICK v \in Boxes : v = [boxes EXCEPT !.url = u]
    BY <2>3
  <2>5. v.driver = boxes.driver
    BY <1>1, <2>4 DEF Boxes
  <2>6. [v EXCEPT !.sslMode = m] \in Boxes /\ [v EXCEPT !.sslMode = m].driver = v.driver
    BY <2>1, SMTT(30) DEF Boxes
  <2>7. QED
    BY <2>2, <2>4, <2>5, <2>6
<1>10. QED
  BY <1>2, <1>3, <1>4, <1>5, <1>6, <1>7, <1>8, <1>9

\* The boxes of the tunnel are boxes too.
LEMMA TypeSshStep ==
  ASSUME FormInv, TypeSsh
  PROVE  FormInv'
<1>1. boxes \in Boxes
  BY DEF FormInv
<1>2. ASSUME NEW h \in Hosts, Edit([boxes EXCEPT !.sshHost = h]) PROVE FormInv'
  <2>1. [boxes EXCEPT !.sshHost = h] \in Boxes /\ [boxes EXCEPT !.sshHost = h].driver = boxes.driver
    BY <1>1 DEF Boxes
  <2>2. QED
    BY <1>2, <2>1, EditStep
<1>3. ASSUME NEW a \in {"private-key", "password"}, Edit([boxes EXCEPT !.auth = a]) PROVE FormInv'
  <2>1. [boxes EXCEPT !.auth = a] \in Boxes /\ [boxes EXCEPT !.auth = a].driver = boxes.driver
    BY <1>1 DEF Boxes
  <2>2. QED
    BY <1>3, <2>1, EditStep
<1>4. ASSUME NEW k \in Keys, Edit([boxes EXCEPT !.key = k]) PROVE FormInv'
  <2>1. [boxes EXCEPT !.key = k] \in Boxes /\ [boxes EXCEPT !.key = k].driver = boxes.driver
    BY <1>1 DEF Boxes
  <2>2. QED
    BY <1>4, <2>1, EditStep
<1>5. ASSUME NEW w \in Passwords, Edit([boxes EXCEPT !.sshPassword = w]) PROVE FormInv'
  <2>1. [boxes EXCEPT !.sshPassword = w] \in Boxes /\ [boxes EXCEPT !.sshPassword = w].driver = boxes.driver
    BY <1>1 DEF Boxes
  <2>2. QED
    BY <1>5, <2>1, EditStep
<1>6. ASSUME NEW k \in {"fingerprint", "known-hosts"}, Edit([boxes EXCEPT !.hostKey = k]) PROVE FormInv'
  <2>1. [boxes EXCEPT !.hostKey = k] \in Boxes /\ [boxes EXCEPT !.hostKey = k].driver = boxes.driver
    BY <1>1 DEF Boxes
  <2>2. QED
    BY <1>6, <2>1, EditStep
<1>7. ASSUME NEW n \in Pins, Edit([boxes EXCEPT !.fingerprint = n]) PROVE FormInv'
  <2>1. [boxes EXCEPT !.fingerprint = n] \in Boxes /\ [boxes EXCEPT !.fingerprint = n].driver = boxes.driver
    BY <1>1 DEF Boxes
  <2>2. QED
    BY <1>7, <2>1, EditStep
<1>8. ASSUME NEW n \in Pins, Edit([boxes EXCEPT !.knownHosts = n]) PROVE FormInv'
  <2>1. [boxes EXCEPT !.knownHosts = n] \in Boxes /\ [boxes EXCEPT !.knownHosts = n].driver = boxes.driver
    BY <1>1 DEF Boxes
  <2>2. QED
    BY <1>8, <2>1, EditStep
<1>9. QED
  BY <1>2, <1>3, <1>4, <1>5, <1>6, <1>7, <1>8 DEF TypeSsh

\* Opening a record puts a sound one under its own boxes.
LEMMA OpenRecordStep ==
  ASSUME FormInv, OpenRecord
  PROVE  FormInv'
<1>1. PICK r \in Records \cup ({record} \ {None}) : record' = r /\ boxes' = FormOf(r)
  BY DEF OpenRecord
<1>2. mode' = "edit" /\ edits' = 0
  BY DEF OpenRecord
<1>3. Sound(r)
  BY RecordsAreSound DEF FormInv
<1>4. FormOf(r) \in Boxes /\ FormOf(r).driver = r.driver
  BY <1>3, FormOfFields
<1>5. QED
  BY <1>1, <1>2, <1>3, <1>4, FormAssumption DEF FormInv

\* What an added connection is made from.
LEMMA SubmitAddStep ==
  ASSUME FormInv, SubmitAdd
  PROVE  FormInv'
<1> DEFINE body == Payload(boxes)
           ok   == Accepted(EmptyBody(boxes.driver), None, body)
<1>1. /\ record' = IF ok THEN Rebuilt(EmptyBody(boxes.driver), None, body) ELSE record
      /\ boxes' = IF ok THEN [EmptyForm(boxes.driver) EXCEPT !.useUrl = boxes.useUrl] ELSE boxes
      /\ edits' = IF ok THEN 0 ELSE edits
      /\ mode = "add" /\ mode' = mode
  BY DEF SubmitAdd
<1>2. boxes \in Boxes /\ boxes.driver \in Drivers /\ body \in Bodies
  BY PayloadFields DEF FormInv, Boxes
<1>3. EmptyBody(boxes.driver) \in Bodies
  BY <1>2, EmptyBodyTypes
<1>4. ok => Sound(Rebuilt(EmptyBody(boxes.driver), None, body))
  BY <1>2, <1>3, RebuiltIsSound
<1>5. [EmptyForm(boxes.driver) EXCEPT !.useUrl = boxes.useUrl] \in Boxes
  <2> DEFINE empty == EmptyForm(boxes.driver)
  <2>1. empty \in Boxes /\ boxes.useUrl \in BOOLEAN
    BY <1>2, EmptyFormTypes DEF Boxes
  <2> HIDE DEF empty
  <2>2. [empty EXCEPT !.useUrl = boxes.useUrl] \in Boxes
    BY <2>1 DEF Boxes
  <2>3. QED
    BY <2>2 DEF empty
<1> HIDE DEF body, ok
<1>6. CASE ok
  BY <1>1, <1>4, <1>5, <1>6, FormAssumption DEF FormInv
<1>7. CASE ~ok
  BY <1>1, <1>7 DEF FormInv
<1>8. QED
  BY <1>6, <1>7

\* What an edited connection is made from.
LEMMA SubmitEditStep ==
  ASSUME FormInv, SubmitEdit
  PROVE  FormInv'
<1> DEFINE body == Payload(boxes)
           ok   == Accepted(record.config, record.tunnel, body)
<1>1. /\ record' = IF body # EmptyBody(boxes.driver) /\ ok
                   THEN Rebuilt(record.config, record.tunnel, body) ELSE record
      /\ IF ok THEN NoLongerEditing ELSE UNCHANGED <<boxes, mode, edits>>
      /\ mode = "edit"
  BY DEF SubmitEdit
<1>2. Sound(record)
  BY <1>1 DEF FormInv
<1>3. record.config \in Bodies /\ record.tunnel \in SshTunnels \cup {None} /\ body \in Bodies
  BY <1>2, PayloadFields DEF FormInv, Sound
<1>4. ok => Sound(Rebuilt(record.config, record.tunnel, body))
  BY <1>3, RebuiltIsSound
<1> HIDE DEF body, ok
<1>5. CASE ok
  <2>1. Sound(record)'
    BY <1>1, <1>2, <1>4, <1>5
  <2>2. QED
    BY <1>1, <1>5, <2>1, ClosedForm
<1>6. CASE ~ok
  BY <1>1, <1>6 DEF FormInv, Sound
<1>7. QED
  BY <1>5, <1>6

\* A record, where there is one, can be dialled and stands under boxes of its
\* own driver, whatever is typed, submitted or left (ConnectionForm.vue).
LEMMA FormInvStep == FormInv /\ [FormNext]_formVars => FormInv'
<1> SUFFICES ASSUME FormInv, [FormNext]_formVars PROVE FormInv'
  OBVIOUS
<1>1. CASE OpenRecord
  BY <1>1, OpenRecordStep
<1>2. CASE LeaveRecord
  <2>1. NoLongerEditing /\ record' = record
    BY <1>2 DEF LeaveRecord
  <2>2. QED
    BY <2>1, ClosedForm DEF FormInv
<1>3. CASE PickDriver
  BY <1>3, TypedBoxes, EditStep DEF PickDriver
<1>4. CASE TypeHostBox
  BY <1>4, TypedBoxes, EditStep DEF TypeHostBox
<1>5. CASE TypePort
  BY <1>5, TypedBoxes, EditStep DEF TypePort
<1>6. CASE TypePassword
  BY <1>6, TypedBoxes, EditStep DEF TypePassword
<1>7. CASE PickSslMode
  BY <1>7, TypedBoxes, EditStep DEF PickSslMode
<1>8. CASE ToggleSsh
  BY <1>8, TypedBoxes, EditStep DEF ToggleSsh
<1>9. CASE ToggleUrl
  BY <1>9, TypedBoxes, EditStep DEF ToggleUrl
<1>10. CASE TypeUrl
  BY <1>10, TypedBoxes, EditStep DEF TypeUrl
<1>11. CASE TypeSsh
  BY <1>11, TypeSshStep
<1>12. CASE SubmitAdd
  BY <1>12, SubmitAddStep
<1>13. CASE SubmitEdit
  BY <1>13, SubmitEditStep
<1>14. CASE UNCHANGED formVars
  BY <1>14 DEF formVars, FormInv, Sound
<1>15. QED
  BY <1>1, <1>2, <1>3, <1>4, <1>5, <1>6, <1>7, <1>8, <1>9, <1>10, <1>11, <1>12, <1>13, <1>14
     DEF FormNext

THEOREM FormInvariant == FormSpec => []FormInv
  BY FormInvInit, FormInvStep, PTL DEF FormSpec

(* What is dialled.                                                        *)
(* A tunnel the boxes describe is the tunnel the server builds.            *)
LEMMA TunnelIsShown ==
  ASSUME NEW f \in Boxes, f.sshEnabled, NEW t \in SshTunnels \cup {None}, NEW old,
         old.tunnel = t, Resolves(BuildSsh(f), IF t = None THEN None ELSE t.auth)
  PROVE  GraftSshTunnel(t, SetTunnel(BuildSsh(f))) = Shown(f, old).tunnel
<1> DEFINE s == BuildSsh(f)
           carried == IF t = None THEN None ELSE t.auth
<1>1. /\ s \in SshInput /\ s.host = f.sshHost
      /\ s.key = IF f.auth = "private-key" THEN f.key ELSE None
      /\ s.password = IF f.auth = "password" THEN f.sshPassword ELSE None
      /\ s.fingerprint = IF f.hostKey = "fingerprint" THEN f.fingerprint ELSE None
      /\ s.knownHosts = IF f.hostKey = "known-hosts" THEN f.knownHosts ELSE None
  BY BuildSshFields DEF BuildSsh
<1>2. /\ f.auth \in {"private-key", "password"} /\ f.hostKey \in {"fingerprint", "known-hosts"}
  BY DEF Boxes
<1>3. GraftSshTunnel(t, SetTunnel(s))
        = [host |-> s.host, auth |-> ResolveAuth(s, carried), hostKey |-> ResolveHostKey(s)]
  BY DEF GraftSshTunnel, SetTunnel
<1>4. AuthIsStated(s, carried) /\ OneOf(s.fingerprint, s.knownHosts)
  BY DEF Resolves
<1>5. Shown(f, old).tunnel
        = [host |-> f.sshHost,
           auth |-> IF f.auth = "private-key" /\ f.key # None
                    THEN [kind |-> "private-key", secret |-> f.key]
                    ELSE IF f.auth = "password" /\ f.sshPassword # None
                    THEN [kind |-> "password", secret |-> f.sshPassword]
                    ELSE old.tunnel.auth,
           hostKey |-> [kind |-> f.hostKey,
                        pin |-> IF f.hostKey = "fingerprint" THEN f.fingerprint ELSE f.knownHosts]]
  BY DEF Shown
<1> HIDE DEF s
<1>6. ResolveAuth(s, carried)
        = IF f.auth = "private-key" /\ f.key # None THEN [kind |-> "private-key", secret |-> f.key]
          ELSE IF f.auth = "password" /\ f.sshPassword # None
          THEN [kind |-> "password", secret |-> f.sshPassword] ELSE old.tunnel.auth
  BY <1>1, <1>2, <1>4 DEF AuthIsStated, OneOf, ResolveAuth
<1>7. ResolveHostKey(s)
        = [kind |-> f.hostKey, pin |-> IF f.hostKey = "fingerprint" THEN f.fingerprint ELSE f.knownHosts]
  BY <1>1, <1>2, <1>4 DEF OneOf, ResolveHostKey
<1>8. QED
  BY <1>1, <1>3, <1>5, <1>6, <1>7 DEF s

\* What a sound record of a socket driver dials: its stored password, through
\* its tunnel, and MySQL has a URL.
LEMMA DialsFields ==
  ASSUME NEW r, Sound(r), r.driver \in SocketDrivers
  PROVE  /\ Dials(r).password = Stored(r.config) /\ Dials(r).tunnel = r.tunnel
         /\ r.driver = "mysql" => r.config.url # None
<1>1. r.driver = "mysql" => r.config.url # None
  BY DEF Sound, Buildable
<1>2. CASE r.driver = "postgres"
  BY <1>2 DEF Dials, PostgresDials, DialledAt, Stored
<1>3. CASE r.driver = "mysql"
  BY <1>1, <1>3 DEF Dials, MySqlDials, DialledAt, Stored
<1>4. QED
  BY <1>1, <1>2, <1>3 DEF SocketDrivers

\* What an accepted form's record dials is what its boxes show.
LEMMA DialledIsShown ==
  ASSUME NEW f \in Boxes, f.driver \in SocketDrivers,
         NEW p \in Bodies, NEW t \in SshTunnels \cup {None}, NEW old,
         old.password = Stored(p), old.tunnel = t,
         t # None => mode = "edit", mode = "edit" => record.tunnel = t,
         Accepted(p, t, Payload(f))
  PROVE  LET shown == Shown(f, old)
             dialled == Dials(Rebuilt(p, t, Payload(f)))
         IN  IF f.driver = "postgres" THEN dialled = shown
             ELSE dialled = [shown EXCEPT !.tls = dialled.tls]
<1> DEFINE b == Payload(f)
           c == Carried(p, b)
           r == Rebuilt(p, t, b)
           u == IF f.useUrl THEN f.url ELSE f
           shown == Shown(f, old)
           place == IF c.url = None THEN c ELSE c.url
<1>1. /\ b \in Bodies /\ b.driver = f.driver /\ b.sslMode = f.sslMode /\ b.ssh = SshMember(f)
      /\ f.useUrl => b.url = f.url /\ b.host = None
      /\ ~f.useUrl => /\ b.url = None /\ b.host = f.host /\ b.password = f.password
                      /\ b.port = Or(f.port, DefaultPort(f.driver))
  BY PayloadFields DEF SocketDrivers
<1>2. /\ c \in Bodies /\ c.driver = f.driver /\ c.host = b.host /\ c.port = b.port
      /\ c.sslMode = f.sslMode /\ (c.url = None <=> b.url = None)
      /\ b.url # None => c.url.host = b.url.host /\ c.url.port = b.url.port
      /\ Stored(c) = Or(Stored(b), Stored(p))
  BY <1>1, CarriedFields
<1>3. /\ r.driver = f.driver /\ r.config = c /\ r.tunnel = GraftSshTunnel(t, SshMember(f))
  BY <1>1 DEF Rebuilt
<1>4. Buildable(c, r.tunnel)
  BY <1>1, <1>3 DEF Accepted
<1>5. /\ f.useUrl => f.url # None
      /\ f.driver = "mysql" => f.useUrl
  BY <1>1, <1>2, <1>4 DEF Buildable, SocketDrivers
<1>6. r.tunnel = shown.tunnel
  <2>1. CASE f.sshEnabled
    <3>1. SshMember(f) = SetTunnel(BuildSsh(f))
      BY <2>1, SshMemberCases
    <3>2. Resolves(BuildSsh(f), IF t = None THEN None ELSE t.auth)
      BY <1>1, <3>1 DEF Accepted, SetTunnel
    <3>3. QED
      BY <1>3, <2>1, <3>1, <3>2, TunnelIsShown
  <2>2. CASE ~f.sshEnabled
    <3>1. SshMember(f) = IF mode = "edit" /\ record.tunnel # None THEN DropTunnel ELSE KeepTunnel
      BY <2>2, SshMemberCases
    <3>2. GraftSshTunnel(t, SshMember(f)) = None
      BY <3>1 DEF GraftSshTunnel, DropTunnel, KeepTunnel
    <3>3. shown.tunnel = None
      BY <2>2 DEF Shown
    <3>4. QED
      BY <1>3, <3>2, <3>3
  <2>3. QED
    BY <2>1, <2>2
<1>7. Stored(b) = u.password
  BY <1>1, <1>5 DEF Stored
<1>8. place.host = u.host /\ place.password = Or(u.password, Stored(p))
  BY <1>1, <1>2, <1>5, <1>7 DEF Stored
<1>9. Or(place.port, DefaultPort(f.driver)) = Or(u.port, DefaultPort(f.driver))
  BY <1>1, <1>2, <1>5 DEF Or
<1>10. /\ shown.host = u.host /\ shown.port = Or(u.port, DefaultPort(f.driver))
       /\ shown.password = Or(u.password, Stored(p)) /\ shown.tls = f.sslMode
       /\ shown = [host |-> shown.host, port |-> shown.port, password |-> shown.password,
                   tls |-> shown.tls, tunnel |-> shown.tunnel]
  BY DEF Shown
<1>11. HardenSslMode(Or(c.sslMode, Stated(c.url))) = f.sslMode
  <2>1. f.sslMode \in SslModes
    BY DEF Boxes
  <2>2. QED
    BY <1>2, <2>1, UrlIsThere DEF Or, HardenSslMode, SslModes
<1> HIDE DEF b, c, u, shown, r
<1>12. CASE f.driver = "postgres"
  <2>1. Dials(r) = [host |-> place.host, port |-> Or(place.port, DefaultPort(f.driver)),
                    password |-> place.password, tls |-> f.sslMode, tunnel |-> r.tunnel]
    BY <1>3, <1>11, <1>12 DEF Dials, PostgresDials, DialledAt
  <2> HIDE DEF place
  <2>2. Dials(r) = shown
    BY <1>6, <1>8, <1>9, <1>10, <2>1
  <2>3. QED
    BY <1>12, <2>2 DEF r, b, shown
<1>13. CASE f.driver = "mysql"
  <2> DEFINE tls == IF c.url.tls = "DISABLED" THEN "disable" ELSE "require"
  <2>1. place = c.url
    BY <1>1, <1>2, <1>5, <1>13 DEF u
  <2>2. Dials(r) = [host |-> place.host, port |-> Or(place.port, DefaultPort(f.driver)),
                    password |-> place.password, tls |-> tls, tunnel |-> r.tunnel]
    BY <1>3, <1>13, <2>1 DEF Dials, MySqlDials, DialledAt
  <2> HIDE DEF place, tls
  <2>3. Dials(r) = [shown EXCEPT !.tls = tls] /\ Dials(r).tls = tls
    BY <1>6, <1>8, <1>9, <1>10, <2>2
  <2>4. Dials(r) = [shown EXCEPT !.tls = Dials(r).tls]
    BY <2>3
  <2>5. QED
    BY <1>13, <2>4 DEF r, b, shown
<1>14. QED
  BY <1>12, <1>13 DEF SocketDrivers

\* A submit that closes the form was accepted.
LEMMA AcceptedSubmit ==
  ASSUME FormInv, SubmitStep
  PROVE  \/ /\ mode = "add"
            /\ Accepted(EmptyBody(boxes.driver), None, Payload(boxes))
            /\ record' = Rebuilt(EmptyBody(boxes.driver), None, Payload(boxes))
         \/ /\ mode = "edit" /\ Sound(record) /\ boxes.driver = record.driver
            /\ Accepted(record.config, record.tunnel, Payload(boxes))
            /\ record' = IF Payload(boxes) # EmptyBody(boxes.driver)
                         THEN Rebuilt(record.config, record.tunnel, Payload(boxes)) ELSE record
<1>1. CASE SubmitAdd
  BY <1>1 DEF SubmitStep, SubmitAdd
<1>2. CASE SubmitEdit
  <2>1. mode = "edit" /\ mode' = "add"
    BY <1>2 DEF SubmitStep, SubmitEdit
  <2>2. QED
    BY <1>2, <2>1 DEF SubmitEdit, FormInv
<1>3. QED
  BY <1>1, <1>2 DEF SubmitStep

\* The connection an accepted form makes is the one its boxes describe.
LEMMA FormSaysWhatIsDialledStep ==
  ASSUME FormInv, SubmitStep, boxes.driver \in SocketDrivers
  PROVE  LET shown  == Shown(boxes, IF mode = "add" THEN Nothing ELSE Dials(record))
             dialled == Dials(record')
         IN  IF boxes.driver = "postgres" THEN dialled = shown
             ELSE dialled = [shown EXCEPT !.tls = dialled.tls]
<1>1. boxes \in Boxes /\ boxes.driver \in Drivers
  BY DEF FormInv, Boxes
<1>2. CASE mode = "add"
  <2>1. /\ Accepted(EmptyBody(boxes.driver), None, Payload(boxes))
        /\ record' = Rebuilt(EmptyBody(boxes.driver), None, Payload(boxes))
    BY <1>2, AcceptedSubmit
  <2>2. EmptyBody(boxes.driver) \in Bodies
    BY <1>1, EmptyBodyTypes
  <2>3. Nothing.password = Stored(EmptyBody(boxes.driver)) /\ Nothing.tunnel = None
    BY DEF Nothing, Stored, EmptyBody
  <2>4. QED
    BY <1>1, <1>2, <2>1, <2>2, <2>3, DialledIsShown
<1>3. CASE mode = "edit"
  <2>1. /\ Sound(record) /\ boxes.driver = record.driver
        /\ Accepted(record.config, record.tunnel, Payload(boxes))
        /\ record' = IF Payload(boxes) # EmptyBody(boxes.driver)
                     THEN Rebuilt(record.config, record.tunnel, Payload(boxes)) ELSE record
    BY <1>3, AcceptedSubmit
  <2>2. Payload(boxes).sslMode # EmptyBody(boxes.driver).sslMode
    BY <1>1, PayloadFields, UrlIsThere DEF EmptyBody, Boxes, SslModes, SocketDrivers
  <2>3. record' = Rebuilt(record.config, record.tunnel, Payload(boxes))
    BY <2>1, <2>2
  <2>4. Dials(record).password = Stored(record.config) /\ Dials(record).tunnel = record.tunnel
    BY <2>1, DialsFields
  <2>5. record.config \in Bodies /\ record.tunnel \in SshTunnels \cup {None}
    BY <2>1 DEF Sound
  <2>6. QED
    BY <1>1, <1>3, <2>1, <2>3, <2>4, <2>5, DialledIsShown
<1>4. QED
  BY <1>2, <1>3 DEF FormInv

\* The boxes an edit opens with show a Postgres connection as it is dialled.
LEMMA OpenedBoxesShow ==
  ASSUME NEW r, Sound(r), r.driver = "postgres"
  PROVE  Shown(FormOf(r), Dials(r)) = Dials(r)
<1> DEFINE f == FormOf(r)
           c == r.config
           place == IF c.url = None THEN c ELSE c.url
           tls == HardenSslMode(Or(c.sslMode, Stated(c.url)))
           shown == Shown(f, Dials(r))
<1>1. c \in Bodies /\ r.tunnel \in SshTunnels \cup {None} /\ r.parts = PartsOf(c)
  BY DEF Sound
<1>2. Dials(r) = [host |-> place.host, port |-> Or(place.port, DefaultPort("postgres")),
                  password |-> place.password, tls |-> tls, tunnel |-> r.tunnel]
  BY DEF Dials, PostgresDials, DialledAt
<1>3. /\ f \in Boxes /\ f.driver = "postgres" /\ f.useUrl = FALSE /\ f.password = None
      /\ f.host = r.parts.host /\ f.port = r.parts.port
      /\ f.sslMode = Or(r.parts.sslMode, "require")
      /\ f.key = None /\ f.sshPassword = None
      /\ f.sshEnabled <=> r.tunnel # None
      /\ r.tunnel # None =>
           /\ f.sshHost = r.tunnel.host /\ f.hostKey = r.tunnel.hostKey.kind
           /\ f.fingerprint = IF r.tunnel.hostKey.kind = "fingerprint" THEN r.tunnel.hostKey.pin ELSE None
           /\ f.knownHosts = IF r.tunnel.hostKey.kind = "known-hosts" THEN r.tunnel.hostKey.pin ELSE None
  BY FormOfFields
<1>4. r.parts.host = place.host /\ r.parts.port = place.port
  BY <1>1 DEF PartsOf
<1>5. tls = Or(r.parts.sslMode, "require")
  <2>1. r.parts.sslMode = Or(c.sslMode, Stated(c.url))
    BY <1>1 DEF PartsOf
  <2>2. Or(c.sslMode, Stated(c.url)) \in SslModes \cup {None}
    BY <1>1 DEF Bodies, Or, Stated, HardenSslMode, SslModes
  <2>3. QED
    BY <2>1, <2>2, UrlIsThere DEF Or, HardenSslMode, SslModes
<1>6. Dials(r).password = place.password /\ Dials(r).tunnel = r.tunnel
  BY <1>2
<1> HIDE DEF f, c, place, tls
<1>7. shown.tunnel = r.tunnel
  <2>1. CASE r.tunnel = None
    BY <1>3, <2>1 DEF Shown
  <2>2. CASE r.tunnel # None
    <3> DEFINE t == r.tunnel
    <3>1. /\ t \in [host : Hosts, auth : [kind : {"private-key", "password"}, secret : Keys \cup Passwords],
                    hostKey : [kind : {"fingerprint", "known-hosts"}, pin : Pins]]
      BY <1>1, <2>2 DEF SshTunnels
    <3>2. shown.tunnel = [host |-> t.host, auth |-> t.auth,
                          hostKey |-> [kind |-> t.hostKey.kind,
                                       pin |-> IF t.hostKey.kind = "fingerprint" THEN f.fingerprint
                                                                                 ELSE f.knownHosts]]
      BY <1>3, <1>6, <2>2 DEF Shown
    <3>3. (IF t.hostKey.kind = "fingerprint" THEN f.fingerprint ELSE f.knownHosts) = t.hostKey.pin
      BY <1>3, <2>2, <3>1
    <3> HIDE DEF t
    <3>4. t = [host |-> t.host, auth |-> t.auth,
               hostKey |-> [kind |-> t.hostKey.kind, pin |-> t.hostKey.pin]]
      BY <3>1
    <3>5. QED
      BY <3>2, <3>3, <3>4 DEF t
  <2>3. QED
    BY <2>1, <2>2
<1>8. /\ shown.host = f.host /\ shown.port = Or(f.port, DefaultPort("postgres"))
      /\ shown.password = Or(f.password, Dials(r).password) /\ shown.tls = f.sslMode
      /\ shown = [host |-> shown.host, port |-> shown.port, password |-> shown.password,
                  tls |-> shown.tls, tunnel |-> shown.tunnel]
  BY <1>3 DEF Shown
<1> HIDE DEF shown
<1>9. shown = Dials(r)
  BY <1>2, <1>3, <1>4, <1>5, <1>6, <1>7, <1>8 DEF Or
<1>10. QED
  BY <1>9 DEF shown, f

\* Saving a form nobody typed in moves the connection nowhere.
LEMMA RenamingStep ==
  ASSUME FormInv, SubmitStep, mode = "edit", boxes = FormOf(record)
  PROVE  Dials(record') = Dials(record)
<1> DEFINE b == Payload(boxes)
<1>1. /\ Sound(record) /\ boxes.driver = record.driver /\ boxes \in Boxes
      /\ Accepted(record.config, record.tunnel, b)
      /\ record' = IF b # EmptyBody(boxes.driver)
                   THEN Rebuilt(record.config, record.tunnel, b) ELSE record
  BY AcceptedSubmit DEF FormInv
<1>2. boxes.useUrl = FALSE
  BY <1>1, FormOfFields
<1>3. CASE boxes.driver = "null"
  BY <1>1, <1>3 DEF Payload
<1>4. CASE boxes.driver = "postgres"
  <2>1. Dials(record') = Shown(boxes, Dials(record))
    BY <1>4, FormSaysWhatIsDialledStep DEF SocketDrivers
  <2>2. QED
    BY <1>1, <1>4, <2>1, OpenedBoxesShow
<1>5. CASE boxes.driver \in {"mysql", "turso", "d1"}
  <2>1. b \in Bodies /\ b.driver = boxes.driver /\ b.url = None /\ b.ids = None
    <3>1. b \in Bodies /\ b.driver = boxes.driver /\ b.url = None
      BY <1>1, <1>2, <1>5, PayloadFields
    <3>2. b = [[EmptyBody(boxes.driver) EXCEPT !.sslMode = boxes.sslMode, !.ssh = SshMember(boxes)]
                 EXCEPT !.host = boxes.host, !.port = Or(boxes.port, DefaultPort(boxes.driver)),
                        !.password = boxes.password]
      BY <1>2, <1>5 DEF Payload
    <3>3. b.ids = EmptyBody(boxes.driver).ids
      BY <3>2
    <3>4. QED
      BY <3>1, <3>3 DEF EmptyBody
  <2>2. record.config \in Bodies
    BY <1>1 DEF Sound
  <2> HIDE DEF b
  <2>3. Carried(record.config, b).driver = boxes.driver /\ Carried(record.config, b).url = None
    BY <2>1, <2>2, CarriedFields
  <2>4. boxes.driver = "d1" => Carried(record.config, b).ids = None
    BY <2>1 DEF Carried
  <2>5. Buildable(Carried(record.config, b), GraftSshTunnel(record.tunnel, b.ssh))
    BY <1>1 DEF Accepted
  <2>6. FALSE
    BY <1>5, <2>3, <2>4, <2>5 DEF Buildable
  <2>7. QED
    BY <2>6
<1>6. QED
  BY <1>1, <1>3, <1>4, <1>5 DEF Boxes, Drivers

(* What is saved is what the boxes say, whatever was typed into boxes since *)
(* hidden, and saving boxes nobody touched moves the connection nowhere     *)
(* (ConnectionForm.vue:209-296, update-connection.use-case.ts).             *)
THEOREM FormTheorem == FormSpec => SavesWhatItShows
<1> DEFINE Says ==
             SubmitStep /\ boxes.driver \in SocketDrivers =>
               LET shown  == Shown(boxes, IF mode = "add" THEN Nothing ELSE Dials(record))
                   dialled == Dials(record')
               IN  IF boxes.driver = "postgres" THEN dialled = shown
                   ELSE dialled = [shown EXCEPT !.tls = dialled.tls]
           Stays ==
             SubmitStep /\ mode = "edit" /\ boxes = FormOf(record) => Dials(record') = Dials(record)
<1>1. FormInv => Says /\ Stays
  BY FormSaysWhatIsDialledStep, RenamingStep
<1>2. FormInv /\ [FormNext]_formVars => [Says]_formVars /\ [Stays]_formVars
  BY <1>1
<1>3. QED
  BY <1>2, FormInvariant, PTL
     DEF FormSpec, SavesWhatItShows, TheFormSaysWhatIsDialled, RenamingMovesNothing

\* No draft is lost to an answer, and what is saved is what the boxes said
\* (pages/connections/index.vue:36-64, ConnectionForm.vue:209-296).
THEOREM ScreenTheorem ==
  ASSUME PageParameters PROVE PageSpec /\ FormSpec => WhatIsTypedIsSaved
  BY DraftTheorem, FormTheorem DEF WhatIsTypedIsSaved

-----------------------------------------------------------------------------
(***************************************************************************)
(* What a known_hosts file says, however many lines and patterns it has.   *)
(* The passes over it are recursive functions; what they compute is shown  *)
(* by way of the least number at which they would not.                     *)
(***************************************************************************)
\* Every set of numbers that is not empty has a least one.
LEMMA LeastNumber ==
  ASSUME NEW S, S \subseteq Nat, S # {}
  PROVE  \E n \in S : \A m \in S : n <= m
<1> DEFINE Less == OpToRel(<, Nat)
<1>1. IsWellFoundedOn(Less, Nat)
  BY NatLessThanWellFounded
<1>2. PICK n \in S : \A m \in S : <<m, n>> \notin Less
  <2> HIDE DEF Less
  <2>1. QED
    BY <1>1, WFMin
<1>3. ASSUME NEW m \in S
      PROVE  n <= m
  <2>1. n \in Nat /\ m \in Nat
    OBVIOUS
  <2>2. <<m, n>> \notin {p \in Nat \X Nat : p[1] < p[2]}
    BY <1>2 DEF OpToRel
  <2>3. ~(m < n)
    BY <2>1, <2>2
  <2>4. QED
    BY <2>1, <2>3
<1>4. QED
  BY <1>3

\* What holds at 0 and is handed on from each number to the next, up to a
\* bound, holds up to it: the numbers where it holds are a set.
LEMMA Onward ==
  ASSUME NEW n \in Nat, NEW S, 0 \in S,
         \A i \in 1..n : i - 1 \in S => i \in S
  PROVE  0..n \subseteq S
<1> DEFINE Bad == (0..n) \ S
<1>1. SUFFICES ASSUME Bad # {} PROVE FALSE
  OBVIOUS
<1>2. PICK b \in Bad : \A m \in Bad : b <= m
  <2>1. Bad \subseteq Nat
    OBVIOUS
  <2> HIDE DEF Bad
  <2>2. QED
    BY <1>1, <2>1, LeastNumber
<1>3. b \in 1..n /\ b - 1 \in 0..n
  OBVIOUS
<1>4. b - 1 \notin Bad
  BY <1>2, <1>3
<1>5. QED
  BY <1>2, <1>3, <1>4

\* The pass over a line's patterns is the function it is written as.
LEMMA PatternsPass ==
  ASSUME NEW patterns, Len(patterns) \in Nat
  PROVE  ReadPatterns(patterns) =
           [i \in 0..Len(patterns) |->
              IF i = 0 THEN "no"
              ELSE AfterPattern(ReadPatterns(patterns)[i - 1], patterns[i])]
<1> DEFINE UpTo(n, f) == f = [i \in 0..n |-> IF i = 0 THEN "no"
                                             ELSE AfterPattern(f[i - 1], patterns[i])]
           Made == {n \in Nat : \E f : UpTo(n, f)}
           Pass(f) == UpTo(Len(patterns), f)
<1>1. 0 \in Made
  <2>1. UpTo(0, [i \in 0..0 |-> "no"])
    OBVIOUS
  <2>2. QED
    BY <2>1
<1>2. ASSUME NEW n \in 1..Len(patterns), n - 1 \in Made
      PROVE  n \in Made
  <2>1. PICK f : UpTo(n - 1, f)
    BY <1>2
  <2> DEFINE g == [i \in 0..n |-> IF i = n THEN AfterPattern(f[n - 1], patterns[n]) ELSE f[i]]
  <2>2. \A i \in 0..(n - 1) : g[i] = f[i]
    OBVIOUS
  <2>3. \A i \in 0..n : g[i] = IF i = 0 THEN "no" ELSE AfterPattern(g[i - 1], patterns[i])
    BY <2>1, <2>2
  <2>4. UpTo(n, g)
    BY <2>3
  <2>5. \E h : UpTo(n, h)
    <3> HIDE DEF UpTo, g
    <3>1. QED
      BY <2>4
  <2>6. QED
    BY <2>5
<1>3. Len(patterns) \in Made
  <2> HIDE DEF Made
  <2>1. 0..Len(patterns) \subseteq Made
    BY <1>1, <1>2, Onward
  <2>2. QED
    BY <2>1
<1>4. \E f : Pass(f)
  BY <1>3
<1>5. Pass(CHOOSE f : Pass(f))
  <2> HIDE DEF Pass
  <2>1. QED
    BY <1>4
<1>6. ReadPatterns(patterns) = CHOOSE f : Pass(f)
  BY DEF ReadPatterns
<1>7. QED
  BY <1>5, <1>6

\* A line covers the host as it is meant to: some pattern matches, no negated
\* one does, wherever they stand.
LEMMA CoversAsMeant ==
  ASSUME NEW patterns \in Seq(Pattern)
  PROVE  CoversHost(patterns) <=> NamesTheHost(patterns)
<1> DEFINE N == Len(patterns)
           pass == ReadPatterns(patterns)
           Hit(i, neg) == \E j \in 1..i : patterns[j].matches /\ patterns[j].negated = neg
           Meant == {i \in 0..N : pass[i] = IF Hit(i, TRUE) THEN "killed"
                                            ELSE IF Hit(i, FALSE) THEN "yes" ELSE "no"}
<1>1. N \in Nat /\ DOMAIN patterns = 1..N /\ \A i \in 1..N : patterns[i] \in Pattern
  OBVIOUS
<1>2. pass[0] = "no" /\ \A i \in 1..N : pass[i] = AfterPattern(pass[i - 1], patterns[i])
  <2> HIDE DEF pass
  <2>1. pass = [i \in 0..N |-> IF i = 0 THEN "no" ELSE AfterPattern(pass[i - 1], patterns[i])]
    BY <1>1, PatternsPass DEF pass
  <2>2. 0 \in 0..N /\ \A i \in 1..N : i \in 0..N /\ i # 0
    BY <1>1
  <2>3. QED
    BY <2>1, <2>2
<1> HIDE DEF pass
<1>3. 0 \in Meant
  BY <1>1, <1>2
<1>4. ASSUME NEW i \in 1..N, i - 1 \in Meant
      PROVE  i \in Meant
  <2>1. \A neg \in BOOLEAN : Hit(i, neg) <=>
          Hit(i - 1, neg) \/ (patterns[i].matches /\ patterns[i].negated = neg)
    BY <1>1
  <2>2. patterns[i].matches \in BOOLEAN /\ patterns[i].negated \in BOOLEAN
    BY <1>1 DEF Pattern
  <2>3. pass[i] = AfterPattern(pass[i - 1], patterns[i])
    BY <1>2
  <2>4. pass[i - 1] = IF Hit(i - 1, TRUE) THEN "killed"
                      ELSE IF Hit(i - 1, FALSE) THEN "yes" ELSE "no"
    BY <1>4
  <2> HIDE DEF Hit
  <2>5. pass[i] = IF Hit(i, TRUE) THEN "killed" ELSE IF Hit(i, FALSE) THEN "yes" ELSE "no"
    BY <2>1, <2>2, <2>3, <2>4 DEF AfterPattern
  <2>6. i \in 0..N
    BY <1>1
  <2>7. QED
    BY <2>5, <2>6
<1>5. N \in Meant
  <2> HIDE DEF Meant
  <2>1. 0..N \subseteq Meant
    BY <1>1, <1>3, <1>4, Onward
  <2>2. QED
    BY <1>1, <2>1
<1>6. pass[N] = "yes" <=> ~Hit(N, TRUE) /\ Hit(N, FALSE)
  <2> HIDE DEF Hit
  <2>1. QED
    BY <1>5
<1>7. NamesTheHost(patterns) <=> ~Hit(N, TRUE) /\ Hit(N, FALSE)
  BY <1>1 DEF NamesTheHost, Pattern
<1>8. QED
  BY <1>6, <1>7 DEF CoversHost, pass

\* The pass over the lines is the function it is written as.
LEMMA LinesPass ==
  ASSUME NEW lines, Len(lines) \in Nat, NEW presented
  PROVE  ReadLines(lines, presented) =
           [i \in 0..Len(lines) |->
              IF i = 0 THEN [sawHost |-> FALSE, accepted |-> FALSE, revoked |-> FALSE]
              ELSE AfterLine(ReadLines(lines, presented)[i - 1], lines[i], presented)]
<1> DEFINE NoLine == [sawHost |-> FALSE, accepted |-> FALSE, revoked |-> FALSE]
           UpTo(n, f) == f = [i \in 0..n |-> IF i = 0 THEN NoLine
                                             ELSE AfterLine(f[i - 1], lines[i], presented)]
           Made == {n \in Nat : \E f : UpTo(n, f)}
           Pass(f) == UpTo(Len(lines), f)
<1>1. 0 \in Made
  <2> HIDE DEF NoLine
  <2>1. UpTo(0, [i \in 0..0 |-> NoLine])
    OBVIOUS
  <2>2. QED
    BY <2>1
<1>2. ASSUME NEW n \in 1..Len(lines), n - 1 \in Made
      PROVE  n \in Made
  <2> HIDE DEF NoLine
  <2>1. PICK f : UpTo(n - 1, f)
    BY <1>2
  <2> DEFINE g == [i \in 0..n |-> IF i = n THEN AfterLine(f[n - 1], lines[n], presented)
                                  ELSE f[i]]
  <2>2. \A i \in 0..(n - 1) : g[i] = f[i]
    OBVIOUS
  <2>3. \A i \in 0..n : g[i] = IF i = 0 THEN NoLine ELSE AfterLine(g[i - 1], lines[i], presented)
    BY <2>1, <2>2
  <2>4. UpTo(n, g)
    BY <2>3
  <2>5. \E h : UpTo(n, h)
    <3> HIDE DEF UpTo, g
    <3>1. QED
      BY <2>4
  <2>6. QED
    BY <2>5
<1>3. Len(lines) \in Made
  <2> HIDE DEF Made
  <2>1. 0..Len(lines) \subseteq Made
    BY <1>1, <1>2, Onward
  <2>2. QED
    BY <2>1
<1>4. \E f : Pass(f)
  BY <1>3
<1>5. Pass(CHOOSE f : Pass(f))
  <2> HIDE DEF Pass
  <2>1. QED
    BY <1>4
<1>6. ReadLines(lines, presented) = CHOOSE f : Pass(f)
  BY DEF ReadLines
<1>7. QED
  BY <1>5, <1>6

\* A line as it may be written: with any number of patterns.
AnyLine == [marker: {"", "@revoked", "@cert-authority"}, patterns: Seq(Pattern), key: HostKeys]

\* What the pass knows after some lines.
Told == [sawHost: BOOLEAN, accepted: BOOLEAN, revoked: BOOLEAN]

\* One line's part in the verdict.
LEMMA LineEffect ==
  ASSUME NEW seen \in Told, NEW l \in AnyLine, NEW presented
  PROVE  /\ AfterLine(seen, l, presented) \in Told
         /\ AfterLine(seen, l, presented).accepted <=> seen.accepted \/ Vouches(l, "", presented)
         /\ AfterLine(seen, l, presented).revoked
              <=> seen.revoked \/ Vouches(l, "@revoked", presented)
<1>1. CoversHost(l.patterns) <=> NamesTheHost(l.patterns)
  BY CoversAsMeant DEF AnyLine
<1>2. QED
  BY <1>1 DEF AfterLine, AnyLine, Vouches, Told

\* A key matches a known_hosts file when some line that covers the host has it
\* and no @revoked one does, in whatever order they stand (checkKnownHosts()).
LEMMA VerdictAsMeant ==
  ASSUME NEW lines \in Seq(AnyLine), NEW presented
  PROVE  CheckKnownHosts(lines, presented) = "match" <=> Trusts(lines, presented)
<1> DEFINE N == Len(lines)
           pass == ReadLines(lines, presented)
           Hit(i, mark) == \E j \in 1..i : Vouches(lines[j], mark, presented)
           Meant == {i \in 0..N : /\ pass[i] \in Told
                                  /\ pass[i].accepted <=> Hit(i, "")
                                  /\ pass[i].revoked <=> Hit(i, "@revoked")}
<1>1. N \in Nat /\ DOMAIN lines = 1..N /\ \A i \in 1..N : lines[i] \in AnyLine
  OBVIOUS
<1>2. /\ pass[0] = [sawHost |-> FALSE, accepted |-> FALSE, revoked |-> FALSE]
      /\ \A i \in 1..N : pass[i] = AfterLine(pass[i - 1], lines[i], presented)
  <2>1. pass = [i \in 0..N |-> IF i = 0
                               THEN [sawHost |-> FALSE, accepted |-> FALSE, revoked |-> FALSE]
                               ELSE AfterLine(pass[i - 1], lines[i], presented)]
    BY <1>1, LinesPass
  <2> HIDE DEF pass
  <2>2. 0 \in 0..N /\ \A i \in 1..N : i \in 0..N /\ i # 0
    BY <1>1
  <2>3. QED
    BY <2>1, <2>2
<1> HIDE DEF pass
<1>3. 0 \in Meant
  <2>1. ~Hit(0, "") /\ ~Hit(0, "@revoked")
    OBVIOUS
  <2>2. 0 \in 0..N
    BY <1>1
  <2>3. pass[0] \in Told /\ ~pass[0].accepted /\ ~pass[0].revoked
    BY <1>2 DEF Told
  <2> HIDE DEF Hit
  <2>4. QED
    BY <2>1, <2>2, <2>3
<1>4. ASSUME NEW i \in 1..N, i - 1 \in Meant
      PROVE  i \in Meant
  <2>1. ASSUME NEW mark
        PROVE  Hit(i, mark) <=> Hit(i - 1, mark) \/ Vouches(lines[i], mark, presented)
    <3>1. 1..i = 1..(i - 1) \cup {i}
      BY <1>1
    <3>2. QED
      BY <3>1
  <2>2. /\ pass[i - 1] \in Told
        /\ pass[i - 1].accepted <=> Hit(i - 1, "")
        /\ pass[i - 1].revoked <=> Hit(i - 1, "@revoked")
    <3> HIDE DEF Hit
    <3>1. QED
      BY <1>4
  <2>3. lines[i] \in AnyLine /\ pass[i] = AfterLine(pass[i - 1], lines[i], presented)
    BY <1>1, <1>2
  <2>4. /\ pass[i] \in Told
        /\ pass[i].accepted <=> pass[i - 1].accepted \/ Vouches(lines[i], "", presented)
        /\ pass[i].revoked <=> pass[i - 1].revoked \/ Vouches(lines[i], "@revoked", presented)
    BY <2>2, <2>3, LineEffect
  <2>5. i \in 0..N
    BY <1>1
  <2> HIDE DEF Hit
  <2>6. (pass[i].accepted <=> Hit(i, "")) /\ (pass[i].revoked <=> Hit(i, "@revoked"))
    BY <2>1, <2>2, <2>4
  <2>7. QED
    BY <2>4, <2>5, <2>6
<1>5. N \in Meant
  <2> HIDE DEF Meant
  <2>1. 0..N \subseteq Meant
    BY <1>1, <1>3, <1>4, Onward
  <2>2. QED
    BY <1>1, <2>1
<1>6. pass[N].accepted <=> SomeLine(lines, "", presented)
  BY <1>1, <1>5 DEF SomeLine
<1>7. pass[N].revoked <=> SomeLine(lines, "@revoked", presented)
  BY <1>1, <1>5 DEF SomeLine
<1>8. QED
  BY <1>6, <1>7 DEF CheckKnownHosts, Trusts, pass

(***************************************************************************)
(* The probes, the verdict and the session.                                *)
(***************************************************************************)
\* The files of an instance are files.
LEMMA FilesAreFiles ==
  ASSUME DialParameters
  PROVE  Files \subseteq Seq(AnyLine)
<1>1. Line \subseteq AnyLine
  <2>1. [1..PatternsPerLine -> Pattern \ {[negated |-> TRUE, matches |-> FALSE]}]
          \subseteq Seq(Pattern)
    <3> DEFINE Written == Pattern \ {[negated |-> TRUE, matches |-> FALSE]}
    <3>1. Written \subseteq Pattern /\ PatternsPerLine \in Nat
      BY DEF DialParameters
    <3> HIDE DEF Written
    <3>2. [1..PatternsPerLine -> Written] \subseteq Seq(Pattern)
      BY <3>1
    <3>3. QED
      BY <3>2 DEF Written
  <2>2. QED
    BY <2>1 DEF Line, AnyLine
<1>2. ASSUME NEW n \in 0..MaxLines, NEW f \in [1..n -> Line]
      PROVE  f \in Seq(AnyLine)
  BY <1>1, <1>2 DEF DialParameters
<1>3. QED
  BY <1>2 DEF Files

\* A verdict is one of three, and a match is trust (verifyHostKey()).
LEMMA VerdictIsTrust ==
  ASSUME DialParameters, DialTypeOK, NEW k
  PROVE  /\ Verdict(policy, k) \in {"match", "mismatch", "unknown"}
         /\ Verdict(policy, k) = "match" <=>
              IF Pinning THEN k = policy.pin ELSE Trusts(policy.lines, k)
<1>1. CASE Pinning
  BY <1>1 DEF Verdict, Pinning
<1>2. CASE ~Pinning
  <2>1. policy.lines \in Seq(AnyLine)
    BY <1>2, FilesAreFiles DEF DialTypeOK, Pinning
  <2>2. Verdict(policy, k) = CheckKnownHosts(policy.lines, k)
    BY <1>2 DEF Verdict, Pinning
  <2>3. CheckKnownHosts(policy.lines, k) \in {"match", "mismatch", "unknown"}
    BY DEF CheckKnownHosts
  <2>4. QED
    BY <1>2, <2>1, <2>2, <2>3, VerdictAsMeant
<1>3. QED
  BY <1>1, <1>2

LEMMA DialInvInit ==
  ASSUME DialParameters, DialInit
  PROVE  DialInv
<1>1. (CHOOSE b \in Bastions : TRUE) \in Bastions
  BY DEF DialParameters
<1>2. policy \in [kind: {"known-hosts"}, lines: Files]
                 \cup [kind: {"fingerprint"}, pin: HostKeys \cup {Absent}]
  BY DEF DialInit
<1>3. DialTypeOK
  BY <1>1, <1>2 DEF DialInit, DialTypeOK
<1>4. VerdictStands /\ DialAndSession
  BY DEF DialInit, VerdictStands, DialAndSession
<1>5. OneProbe
  BY DEF DialInit, OneProbe, FetchedPinIsTheHosts
<1>6. QED
  BY <1>3, <1>4, <1>5 DEF DialInv

\* What the form does leaves the tunnel as it is.
LEMMA FormKeepsTheTunnel ==
  ASSUME DialInv, UNCHANGED tunnel
  PROVE  VerdictStands' /\ DialAndSession'
  BY DEF DialInv, VerdictStands, DialAndSession, tunnel

\* What the tunnel does leaves the form as it is.
LEMMA TunnelKeepsTheForm ==
  ASSUME DialInv, UNCHANGED form
  PROVE  OneProbe'
  BY DEF DialInv, OneProbe, FetchedPinIsTheHosts, form

LEMMA RekeyStep ==
  ASSUME DialInv, Rekey
  PROVE  DialInv'
<1>1. DialTypeOK'
  BY DEF DialInv, DialTypeOK, Rekey, form, tunnel
<1>2. QED
  BY <1>1, FormKeepsTheTunnel, TunnelKeepsTheForm DEF DialInv, Rekey

LEMMA TypeHostStep ==
  ASSUME DialInv, NEW b \in Bastions, TypeHost(b)
  PROVE  DialInv'
<1>1. DialTypeOK'
  <2>1. box \in [host: Bastions, pin: HostKeys \cup {Absent},
                probing: BOOLEAN, failed: BOOLEAN, same: BOOLEAN]
    BY DEF DialInv, DialTypeOK
  <2>2. box' = [[box EXCEPT !.host = b] EXCEPT !.same = FALSE]
    BY <2>1 DEF TypeHost
  <2>3. box' \in [host: Bastions, pin: HostKeys \cup {Absent},
                 probing: BOOLEAN, failed: BOOLEAN, same: BOOLEAN]
    BY <2>1, <2>2
  <2>4. QED
    BY <2>3 DEF DialInv, DialTypeOK, TypeHost, tunnel
<1>2. OneProbe'
  BY DEF DialInv, DialTypeOK, OneProbe, FetchedPinIsTheHosts, TypeHost
<1>3. QED
  BY <1>1, <1>2, FormKeepsTheTunnel DEF DialInv, TypeHost

LEMMA FetchStep ==
  ASSUME DialInv, Fetch
  PROVE  DialInv'
<1>1. probes \in Seq(Probe) /\ box.host \in Bastions /\ Len(probes) \in Nat
  BY DEF DialInv, DialTypeOK
<1> DEFINE asked == [host |-> box.host, step |-> "dialling", captured |-> Absent]
<1>2. asked \in Probe /\ probes' = Append(probes, asked)
  BY <1>1 DEF Probe, Fetch
<1>3. /\ probes' \in Seq(Probe) /\ Len(probes') = Len(probes) + 1
      /\ DOMAIN probes' = DOMAIN probes \cup {Len(probes')}
      /\ probes'[Len(probes')] = asked
      /\ \A i \in DOMAIN probes : probes'[i] = probes[i]
  <2> HIDE DEF asked
  <2>1. QED
    BY <1>1, <1>2
<1>4. DialTypeOK'
  <2>1. box' \in [host: Bastions, pin: HostKeys \cup {Absent},
                  probing: BOOLEAN, failed: BOOLEAN, same: BOOLEAN]
    BY DEF DialInv, DialTypeOK, Fetch
  <2>2. QED
    BY <1>3, <2>1 DEF DialInv, DialTypeOK, Fetch, tunnel
<1>5. box'.probing /\ box'.host = box.host
  BY DEF Fetch, DialInv, DialTypeOK
<1>6. \A i \in DOMAIN probes : probes[i].step = "done"
  BY DEF Fetch, CanFetch, DialInv, OneProbe
<1>7. OneProbe'
  <2>1. \A i \in DOMAIN probes' : probes'[i].step # "done" => i = Len(probes')
    BY <1>3, <1>6
  <2>2. probes' # <<>> /\ probes'[Len(probes')].host = box'.host
    BY <1>1, <1>3, <1>5
  <2>3. QED
    BY <1>5, <2>1, <2>2 DEF OneProbe, FetchedPinIsTheHosts
<1>8. QED
  BY <1>4, <1>7, FormKeepsTheTunnel DEF DialInv, Fetch

\* A step of a probe on its way: it is the last, and stays with its host.
LEMMA ProbeEffect ==
  ASSUME DialInv, NEW i \in DOMAIN probes, NEW p \in Probe,
         probes[i].step # "done", p.host = probes[i].host,
         probes' = [probes EXCEPT ![i] = p]
  PROVE  /\ probes' \in Seq(Probe) /\ Len(probes') = Len(probes) /\ DOMAIN probes' = DOMAIN probes
         /\ i = Len(probes) /\ probes'[i] = p
         /\ \A j \in DOMAIN probes \ {i} : probes'[j] = probes[j] /\ probes[j].step = "done"
         /\ box.same => p.host = box.host
         /\ box.probing
<1>1. probes \in Seq(Probe)
  BY DEF DialInv, DialTypeOK
<1>2. i = Len(probes) /\ \A j \in DOMAIN probes \ {i} : probes[j].step = "done"
  BY DEF DialInv, OneProbe
<1>3. QED
  BY <1>1, <1>2 DEF DialInv, OneProbe

LEMMA ProbeSeenStep ==
  ASSUME DialInv, NEW i \in DOMAIN probes, ProbeSees(i) \/ ProbeSeesNothing(i)
  PROVE  DialInv'
<1>1. probes[i] \in Probe /\ presents[probes[i].host] \in HostKeys
  <2>1. probes[i] \in Probe
    BY DEF DialInv, DialTypeOK
  <2>2. QED
    BY <2>1 DEF DialInv, DialTypeOK, Probe
<1>2. PICK p \in Probe : /\ p.host = probes[i].host /\ p.step = "answered"
                         /\ probes' = [probes EXCEPT ![i] = p]
  <2>1. CASE ProbeSees(i)
    <3> DEFINE p == [probes[i] EXCEPT !.step = "answered", !.captured = presents[probes[i].host]]
    <3>1. p \in Probe /\ p.host = probes[i].host /\ p.step = "answered"
      BY <1>1 DEF Probe
    <3>2. probes' = [probes EXCEPT ![i] = p]
      BY <2>1 DEF ProbeSees
    <3>3. QED
      BY <3>1, <3>2
  <2>2. CASE ProbeSeesNothing(i)
    <3> DEFINE p == [probes[i] EXCEPT !.step = "answered"]
    <3>1. p \in Probe /\ p.host = probes[i].host /\ p.step = "answered"
      BY <1>1 DEF Probe
    <3>2. probes' = [probes EXCEPT ![i] = p]
      BY <2>2 DEF ProbeSeesNothing
    <3>3. QED
      BY <3>1, <3>2
  <2>3. QED
    BY <2>1, <2>2
<1>3. probes[i].step # "done" /\ UNCHANGED <<presents, box, tunnel>>
  BY DEF ProbeSees, ProbeSeesNothing
<1>4. /\ probes' \in Seq(Probe) /\ Len(probes') = Len(probes) /\ DOMAIN probes' = DOMAIN probes
      /\ i = Len(probes) /\ probes'[i] = p
      /\ \A j \in DOMAIN probes \ {i} : probes'[j] = probes[j] /\ probes[j].step = "done"
      /\ box.same => p.host = box.host
      /\ box.probing
  BY <1>2, <1>3, ProbeEffect
<1>5. DialTypeOK'
  BY <1>3, <1>4 DEF DialInv, DialTypeOK, tunnel
<1>6. OneProbe'
  BY <1>3, <1>4 DEF OneProbe, FetchedPinIsTheHosts
<1>7. QED
  BY <1>3, <1>5, <1>6, FormKeepsTheTunnel DEF DialInv

LEMMA ProbeArrivesStep ==
  ASSUME DialInv, NEW i \in DOMAIN probes, ProbeArrives(i)
  PROVE  DialInv'
<1> DEFINE p == [probes[i] EXCEPT !.step = "done"]
<1>1. probes[i] \in Probe
  BY DEF DialInv, DialTypeOK
<1>2. p \in Probe /\ p.host = probes[i].host /\ p.step = "done"
      /\ p.captured = probes[i].captured /\ p.captured \in HostKeys \cup {Absent}
  BY <1>1 DEF Probe
<1>3. probes[i].step # "done" /\ UNCHANGED <<presents, tunnel>>
      /\ probes' = [probes EXCEPT ![i] = p]
  BY DEF ProbeArrives
<1> HIDE DEF p
<1>4. /\ probes' \in Seq(Probe) /\ Len(probes') = Len(probes) /\ DOMAIN probes' = DOMAIN probes
      /\ i = Len(probes) /\ probes'[i] = p
      /\ \A j \in DOMAIN probes \ {i} : probes'[j] = probes[j] /\ probes[j].step = "done"
      /\ box.same => p.host = box.host
      /\ box.probing
  BY <1>2, <1>3, ProbeEffect
<1>5. /\ box' \in [host: Bastions, pin: HostKeys \cup {Absent},
                   probing: BOOLEAN, failed: BOOLEAN, same: BOOLEAN]
      /\ box'.same = box.same /\ box'.host = box.host
      /\ box'.failed \/ box'.pin = p.captured
  <2>1. CASE probes[i].captured = Absent
    BY <2>1 DEF ProbeArrives, DialInv, DialTypeOK
  <2>2. CASE probes[i].captured # Absent
    BY <1>2, <2>2 DEF ProbeArrives, DialInv, DialTypeOK
  <2>3. QED
    BY <2>1, <2>2
<1>6. DialTypeOK'
  BY <1>3, <1>4, <1>5 DEF DialInv, DialTypeOK, tunnel
<1>7. OneProbe'
  <2>1. \A j \in DOMAIN probes' : probes'[j].step = "done"
    BY <1>2, <1>4
  <2>2. box'.same => probes' # <<>> /\ probes'[Len(probes')].host = box'.host
    BY <1>4, <1>5
  <2>3. FetchedPinIsTheHosts'
    BY <1>4, <1>5 DEF FetchedPinIsTheHosts
  <2>4. QED
    BY <2>1, <2>2, <2>3 DEF OneProbe
<1>8. QED
  BY <1>3, <1>6, <1>7, FormKeepsTheTunnel DEF DialInv

LEMMA DialOpenStep ==
  ASSUME DialInv, OpenSshTunnel
  PROVE  DialInv'
<1>1. policy' \in [kind: {"known-hosts"}, lines: Files]
                  \cup [kind: {"fingerprint"}, pin: HostKeys \cup {Absent}]
  BY DEF DialInv, DialTypeOK, OpenSshTunnel, Pinning
<1>2. DialTypeOK'
  BY <1>1 DEF DialInv, DialTypeOK, OpenSshTunnel, form
<1>3. VerdictStands' /\ DialAndSession'
  BY DEF DialInv, VerdictStands, DialAndSession, OpenSshTunnel
<1>4. QED
  BY <1>2, <1>3, TunnelKeepsTheForm DEF DialInv, OpenSshTunnel

LEMMA VerifyStep ==
  ASSUME DialParameters, DialInv, VerifyHostKey
  PROVE  DialInv'
<1>1. key' \in HostKeys
  BY DEF DialInv, DialTypeOK, VerifyHostKey
<1> DEFINE verdict == Verdict(policy, key')
<1>2. verdict \in {"match", "mismatch", "unknown"}
  BY VerdictIsTrust DEF DialInv
<1>3. /\ rejection' = IF verdict = "match" THEN Absent ELSE verdict
      /\ client' = IF verdict = "match" THEN "verified" ELSE "refused"
      /\ UNCHANGED <<presents, form, policy, dial, reason, sockets>>
  BY DEF VerifyHostKey
<1> HIDE DEF verdict
<1>4. DialTypeOK'
  BY <1>1, <1>2, <1>3 DEF DialInv, DialTypeOK, form
<1>5. VerdictStands'
  <2>1. key' # Absent
    BY <1>1 DEF DialParameters
  <2>2. rejection' = Absent <=> verdict = "match"
    BY <1>2, <1>3 DEF DialParameters
  <2>3. Verdict(policy', key') = "match" <=> verdict = "match"
    BY <1>3 DEF verdict
  <2>4. client' \in {"verified", "up"} => rejection' = Absent
    BY <1>3
  <2>5. QED
    BY <2>1, <2>2, <2>3, <2>4 DEF VerdictStands
<1>6. DialAndSession'
  BY <1>3 DEF DialInv, DialAndSession, VerifyHostKey
<1>7. QED
  BY <1>3, <1>4, <1>5, <1>6, TunnelKeepsTheForm DEF DialInv

\* The steps of the session and the listener after that, to the last.
LEMMA ForwardStep ==
  ASSUME DialParameters, DialInv,
         \/ DialFails \/ SessionReady \/ Listens \/ ListenFails
         \/ \E s \in Sockets : SocketOpens(s) \/ SocketCloses(s)
         \/ SessionDies \/ CloseForward \/ Closed
  PROVE  DialInv'
<1>1. UNCHANGED <<presents, form, policy, key, rejection>>
  BY DEF DialFails, EndsTheClient, SessionReady, Listens, ListenFails, SocketOpens, SocketCloses,
         SessionDies, CloseForward, DestroysSockets, Closed
<1>2. DialTypeOK'
  <2>1. dial' \in {"none", "connecting", "listening", "open", "failed", "unheard",
                   "closing", "closed"}
    BY DEF DialInv, DialTypeOK, DialFails, SessionReady, Listens, ListenFails, SocketOpens,
           SocketCloses, SessionDies, CloseForward, Closed
  <2>2. client' \in {"none", "connecting", "verified", "refused", "up", "ended"}
    BY DEF DialInv, DialTypeOK, DialFails, EndsTheClient, SessionReady, Listens, ListenFails,
           SocketOpens, SocketCloses, SessionDies, CloseForward, Closed
  <2>3. reason' \in {Absent, "transport", "mismatch", "unknown"}
    BY DEF DialInv, DialTypeOK, DialFails, SessionReady, Listens, ListenFails, SocketOpens,
           SocketCloses, SessionDies, CloseForward, Closed
  <2>4. sockets' \subseteq Sockets
    BY DEF DialInv, DialTypeOK, DialFails, SessionReady, Listens, ListenFails, SocketOpens,
           SocketCloses, SessionDies, CloseForward, DestroysSockets, Closed
  <2>5. QED
    BY <1>1, <2>1, <2>2, <2>3, <2>4 DEF DialInv, DialTypeOK, form
<1>3. VerdictStands'
  <2>1. client' = client \/ client' \in {"up", "ended"}
    BY DEF DialFails, EndsTheClient, SessionReady, Listens, ListenFails, SocketOpens, SocketCloses,
           SessionDies, CloseForward, Closed
  <2>2. client' = "up" => client \in {"verified", "up"}
    BY DEF DialFails, EndsTheClient, SessionReady, Listens, ListenFails, SocketOpens, SocketCloses,
           SessionDies, CloseForward, Closed
  <2>3. QED
    BY <1>1, <2>1, <2>2 DEF DialInv, VerdictStands
<1>4. DialAndSession'
  <2>1. CASE DialFails
    BY <2>1 DEF DialInv, DialAndSession, DialFails, EndsTheClient
  <2>2. CASE SessionReady \/ Listens \/ ListenFails
    BY <2>2 DEF DialInv, DialAndSession, SessionReady, Listens, ListenFails
  <2>3. CASE \E s \in Sockets : SocketOpens(s) \/ SocketCloses(s)
    BY <2>3 DEF DialInv, DialAndSession, SocketOpens, SocketCloses
  <2>4. CASE SessionDies
    BY <2>4 DEF DialInv, DialAndSession, SessionDies
  <2>5. CASE CloseForward \/ Closed
    BY <2>5 DEF DialInv, DialAndSession, CloseForward, DestroysSockets, Closed
  <2>6. QED
    BY <2>1, <2>2, <2>3, <2>4, <2>5
<1>5. QED
  BY <1>1, <1>2, <1>3, <1>4, TunnelKeepsTheForm DEF DialInv

\* The form, its probes and the forward stand as DialInv says, for any hosts,
\* keys, known_hosts files and sockets (ssh-tunnel.ts, useSshHostKey.ts).
THEOREM DialInvariant ==
  ASSUME DialParameters PROVE DialSpec => []DialInv
<1>1. DialInit => DialInv
  BY DialInvInit
<1>2. DialInv /\ [DialNext]_dialVars => DialInv'
  <2>1. CASE UNCHANGED dialVars
    BY <2>1 DEF dialVars, DialInv, DialTypeOK, VerdictStands, DialAndSession, OneProbe,
                FetchedPinIsTheHosts
  <2>2. ASSUME DialInv, DialNext
        PROVE  DialInv'
    BY <2>2, RekeyStep, FetchStep, TypeHostStep, ProbeSeenStep, ProbeArrivesStep,
       DialOpenStep, VerifyStep, ForwardStep DEF DialNext
  <2>3. QED
    BY <2>1, <2>2
<1>3. QED
  BY <1>1, <1>2, PTL DEF DialSpec

\* For any known_hosts file, and whatever fails: a session is up over no key but
\* one its policy vouches for, a refusal is told as one, the pin in the box is
\* the host's beside it, and no forward that failed or closed leaves a session
\* (openSshTunnel, checkKnownHosts, useSshHostKey).
THEOREM TrustTheorem ==
  ASSUME DialParameters PROVE DialSpec => []SessionsAreTrusted
<1>1. ASSUME DialInv
      PROVE  SessionsAreTrusted
  <2>1. key # Absent => (rejection = Absent <=>
           IF Pinning THEN key = policy.pin ELSE Trusts(policy.lines, key))
    BY <1>1, VerdictIsTrust DEF DialInv, VerdictStands
  <2>2. client = "up" => key # Absent /\ rejection = Absent
    BY <1>1 DEF DialInv, VerdictStands
  <2>3. dial = "failed" => (reason = "transport" <=> rejection = Absent)
    BY <1>1 DEF DialInv, DialAndSession, DialTypeOK, DialParameters
  <2>4. OnlyTrustedKeysAreUp
    BY <2>1, <2>2, <2>3 DEF OnlyTrustedKeysAreUp
  <2>5. NoSessionIsLeft
    BY <1>1 DEF DialInv, DialAndSession, NoSessionIsLeft
  <2>6. QED
    BY <1>1, <2>4, <2>5 DEF SessionsAreTrusted, DialInv, OneProbe
<1>2. QED
  BY <1>1, DialInvariant, PTL
=============================================================================
