------------------------------ MODULE History ------------------------------
(***************************************************************************)
(* The query history: HistoryRecordingInterceptor and RecordHistory write  *)
(* a record for each query the server has dealt with, ExportHistory        *)
(* streams the records, and the SQL page's sidebar (useQueryHistory.ts)    *)
(* fetches that export at mount, after each run, and on demand.            *)
(*                                                                         *)
(* A record is the request it is about and its status.  The order the      *)
(* sidebar sorts by, and the text shown, are left out.                     *)
(***************************************************************************)
EXTENDS Naturals, SequencesExt

CONSTANTS
  Requests,   \* queries, and AI calls, of this page and of others
  Fetches,    \* the page's GET /history/export.jsonl
  MaxNow      \* bound on the wall clock

ASSUME HistoryAssumption == MaxNow \in Nat

VARIABLES
  now,        \* Date.now()
  stepped,    \* requests over which the clock was set back (observation)
  origin,     \* of each request: this page's connection, or another or the AI
  request,    \* of each: where it is, when it came, how it ended
  log,        \* InMemoryHistoryStore.records
  fetch,      \* each export: [stage, snapshot, got]
  sealed,     \* what the log was when the export began (observation)
  sidebar,    \* state and history of useQueryHistory
  waits       \* the user has one thing under way, a query or a load of the
              \* sidebar (observation)

historyVars == <<now, stepped, origin, request, log, fetch, sealed, sidebar, waits>>

Record == [of : Requests, status : {"ok", "error"}]

HistoryTypeOK ==
  /\ now \in 0..MaxNow /\ stepped \subseteq Requests
  /\ origin \in [Requests -> {"here", "elsewhere"}]
  /\ request \in [Requests -> [stage : {"none", "running", "answered", "heard", "lost"},
                               start : 0..MaxNow, status : {"none", "ok", "error"}]]
  /\ log \in Seq(Record) /\ sealed \in [Fetches -> Seq(Record)]
  /\ fetch \in [Fetches -> [stage : {"idle", "asked", "reading"},
                            snapshot : Seq(Record), got : Seq(Record)]]
  /\ sidebar \in [state : {"idle", "loading", "error"},
                   shown : UNION {[at -> Record] : at \in SUBSET (1..Len(log))}]
  /\ waits \in BOOLEAN

NoFetch == [stage |-> "idle", snapshot |-> <<>>, got |-> <<>>]

Idle == {f \in Fetches : fetch[f].stage = "idle"}

Underway(stage) == {r \in Requests : request[r].stage = stage}

(* What the server is still at, whether or not the page waits for it. *)
InHand == {r \in Underway("running") \cup Underway("lost") : request[r].status = "none"}

(* onMounted: the first export is asked for. *)
HistoryInit ==
  /\ now = 0 /\ stepped = {}
  /\ origin \in [Requests -> {"here", "elsewhere"}]
  /\ request = [r \in Requests |-> [stage |-> "none", start |-> 0, status |-> "none"]]
  /\ log = <<>>
  /\ LET first == CHOOSE f \in Fetches : TRUE
     IN  fetch = [f \in Fetches |-> [NoFetch EXCEPT !.stage =
                                       IF f = first THEN "asked" ELSE "idle"]]
  /\ sealed = [f \in Fetches |-> <<>>]
  /\ sidebar = [state |-> "loading", shown |-> <<>>]
  /\ waits \in BOOLEAN

----------------------------------------------------------------------------
(* The clock is the wall clock: it can be set back. *)

Tick ==
  /\ now < MaxNow
  /\ now' = now + 1
  /\ UNCHANGED <<stepped, origin, request, log, fetch, sealed, sidebar, waits>>

ClockSetBack ==
  /\ now > 0
  /\ now' = now - 1
  /\ stepped' = stepped \cup InHand
  /\ UNCHANGED <<origin, request, log, fetch, sealed, sidebar, waits>>

----------------------------------------------------------------------------
(* The server: intercept(). *)

(* Of the ways to run a query only the button is disabled while one runs:  *)
(* Ctrl+Enter, a browse and a save's reload are not.                       *)
MayRun(r) ==
  origin[r] = "here" /\ waits =>
     /\ \A q \in Requests : origin[q] = "here" => request[q].stage \in {"none", "heard", "lost"}
     /\ Idle = Fetches

Receive(r) ==
  /\ request[r].stage = "none" /\ MayRun(r)
  /\ request' = [request EXCEPT ![r] = [stage |-> "running", start |-> now, status |-> "none"]]
  /\ UNCHANGED <<now, stepped, origin, log, fetch, sealed, sidebar, waits>>

(* persist(): the record must pass historyRecordSchema, whose duration_ms  *)
(* is not negative.  What throws is swallowed by the caller.               *)
Persisted(l, r, status) ==
  IF now >= request[r].start THEN Append(l, [of |-> r, status |-> status]) ELSE l

\* A slip: the error path does not record.
MutRecorded(r, status) ==
  IF status = "ok" THEN Persisted(log, r, status) ELSE log

(* safeRecordSuccess in the tap, safeRecordError in the catchError: the    *)
(* push is synchronous, so it is done before the response goes out.        *)
Recorded(r, status) == Persisted(log, r, status)

Answer(r) ==
  /\ r \in InHand
  /\ \E status \in {"ok", "error"} :
       /\ request' = [request EXCEPT ![r] =
                        [stage |-> IF @.stage = "running" THEN "answered" ELSE @.stage,
                         start |-> 0, status |-> status]]
       /\ log' = Recorded(r, status)
  /\ UNCHANGED <<now, stepped, origin, fetch, sealed, sidebar, waits>>

----------------------------------------------------------------------------
(* The page. *)

(* refresh() waits for no other; Fetches bounds how many may be out.       *)
RefreshStarts ==
  /\ Idle # {}
  /\ LET f == CHOOSE g \in Idle : TRUE IN fetch' = [fetch EXCEPT ![f] = [NoFetch EXCEPT !.stage = "asked"]]
  /\ sidebar' = [sidebar EXCEPT !.state = "loading"]

(* onRun: when run() is back, well or not, the sidebar is refreshed.  A    *)
(* connection that breaks does not stop the server.                        *)
AfterRun(r) ==
  IF origin[r] = "here" THEN RefreshStarts
  ELSE UNCHANGED <<fetch, sidebar>>

RunReturns(r) ==
  /\ \/ /\ request[r].stage = "answered"
        /\ request' = [request EXCEPT ![r].stage = "heard"]
     \/ /\ request[r].stage \in {"running", "answered"} /\ origin[r] = "here"
        /\ request' = [request EXCEPT ![r].stage = "lost"]
  /\ AfterRun(r)
  /\ UNCHANGED <<now, stepped, origin, log, sealed, waits>>

(* The refresh button is disabled while the list is loading. *)
RefreshClicked ==
  /\ sidebar.state # "loading"
  /\ waits => \A r \in Underway("running") \cup Underway("answered") : origin[r] # "here"
  /\ RefreshStarts
  /\ UNCHANGED <<now, stepped, origin, request, log, sealed, waits>>

----------------------------------------------------------------------------
(* GET /history/export.jsonl. *)

(* iterate() copies the array when the iteration starts. *)
Source(f) == fetch[f].snapshot

ExportStarts(f) ==
  /\ fetch[f].stage = "asked"
  /\ fetch' = [fetch EXCEPT ![f].stage = "reading", ![f].snapshot = log]
  /\ sealed' = [sealed EXCEPT ![f] = log]
  /\ UNCHANGED <<now, stepped, origin, request, log, sidebar, waits>>

ExportWrites(f) ==
  /\ fetch[f].stage = "reading" /\ Len(fetch[f].got) < Len(Source(f))
  /\ fetch' = [fetch EXCEPT ![f].got = Append(@, Source(f)[Len(@) + 1])]
  /\ UNCHANGED <<now, stepped, origin, request, log, sealed, sidebar, waits>>

(* parseNdjson and the filter: other connections' records are dropped, and *)
(* so are the AI's, whose kind is not "query".  Each of those left is known *)
(* by its place in the log.                                                *)
Mine(records) == Restrict(records, {i \in DOMAIN records : origin[records[i].of] = "here"})

ExportLands(f) ==
  /\ fetch[f].stage = "reading" /\ Len(fetch[f].got) = Len(Source(f))
  /\ fetch' = [fetch EXCEPT ![f] = NoFetch]
  /\ sealed' = [sealed EXCEPT ![f] = <<>>]
  /\ sidebar' = [state |-> "idle", shown |-> Mine(fetch[f].got)]
  /\ UNCHANGED <<now, stepped, origin, request, log, waits>>

ExportFails(f) ==
  /\ f \notin Idle
  /\ fetch' = [fetch EXCEPT ![f] = NoFetch]
  /\ sealed' = [sealed EXCEPT ![f] = <<>>]
  /\ sidebar' = [sidebar EXCEPT !.state = "error"]
  /\ UNCHANGED <<now, stepped, origin, request, log, waits>>

----------------------------------------------------------------------------
HistoryNext ==
  \/ Tick \/ ClockSetBack \/ RefreshClicked
  \/ \E r \in Requests : Receive(r) \/ Answer(r) \/ RunReturns(r)
  \/ \E f \in Fetches : \/ ExportStarts(f) \/ ExportWrites(f)
                        \/ ExportLands(f) \/ ExportFails(f)

HistorySpec == HistoryInit /\ [][HistoryNext]_historyVars

----------------------------------------------------------------------------
RecordsOf(r, records) == Restrict(records, {i \in DOMAIN records : records[i].of = r})

(* A query the server has answered is in the log once, with the outcome it *)
(* was answered with, unless the clock was set back while it ran           *)
(* (history-recording.interceptor.ts:41-49).                               *)
AnsweredIsRecorded ==
  \A r \in Requests :
    LET records == RecordsOf(r, log)
    IN  /\ \A i, j \in DOMAIN records : i = j
        /\ \A i \in DOMAIN records : records[i].status = request[r].status
        /\ request[r].status # "none" /\ r \notin stepped => DOMAIN records # {}

(* A record written while an export runs does not surface in it: an export *)
(* tells the log as it was when it began (in-memory-history-store.ts:14-20).*)
ExportIsSealed ==
  \A f \in Fetches : IsPrefix(fetch[f].got, sealed[f])

(* When the user has one of the two under way at a time, a sidebar at rest *)
(* shows each run the page has heard the answer of, failed ones too, once  *)
(* (sql.vue:100-108).                                                      *)
RunIsShown ==
  waits /\ Idle = Fetches /\ sidebar.state = "idle" =>
    \A r \in Underway("heard") :
      origin[r] = "here" => RecordsOf(r, sidebar.shown) = RecordsOf(r, log)

(* What was answered is recorded, exported as it stood, and shown          *)
(* (record-history.use-case.ts:75-106, in-memory-history-store.ts:14-20,   *)
(* useQueryHistory.ts:114-138).                                            *)
HistoryIsTold == AnsweredIsRecorded /\ ExportIsSealed /\ RunIsShown
----------------------------------------------------------------------------
(* What the store, the exports and the sidebar keep to between the steps.  *)

(* A request has a record once it is dealt with, and no other.             *)
LogIsKept ==
  /\ \A r \in Requests : /\ request[r].stage \in {"none", "running"} => request[r].status = "none"
                         /\ request[r].stage \in {"answered", "heard"} => request[r].status # "none"
                         /\ r \in InHand \ stepped => request[r].start <= now
                         /\ request[r].status # "none" /\ r \notin stepped =>
                              \E i \in DOMAIN log : log[i].of = r
  /\ \A i \in DOMAIN log : log[i].status = request[log[i].of].status
  /\ \A i, j \in DOMAIN log : log[i].of = log[j].of => i = j

Begins(s, t) == Len(s) <= Len(t) /\ \A i \in 1..Len(s) : s[i] = t[i]

ExportsAreCopies ==
  \A f \in Fetches :
    /\ fetch[f].snapshot = sealed[f]
    /\ fetch[f].stage # "reading" => fetch[f].snapshot = <<>> /\ fetch[f].got = <<>>
    /\ Begins(fetch[f].got, fetch[f].snapshot) /\ Begins(fetch[f].snapshot, log)

(* The page's own runs it waits for. *)
Awaited == {r \in Underway("running") \cup Underway("answered") : origin[r] = "here"}

OneRunAtATime == \A q, r \in Awaited : q = r

Shows(records) ==
  \A r \in Underway("heard") : origin[r] = "here" => RecordsOf(r, records) = RecordsOf(r, log)

WaitsItsTurn ==
  /\ \A f, g \in Fetches \ Idle : f = g
  /\ Idle # Fetches => sidebar.state = "loading" /\ Awaited = {}
  /\ \A f \in Fetches : fetch[f].stage = "reading" => Shows(fetch[f].snapshot)
  /\ Idle = Fetches /\ sidebar.state = "idle" => Shows(sidebar.shown)

HistoryInv ==
  HistoryTypeOK /\ LogIsKept /\ ExportsAreCopies /\ (waits => OneRunAtATime /\ WaitsItsTurn)
=============================================================================
