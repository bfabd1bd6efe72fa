--------------------------- MODULE ConnectionsPage ---------------------------
(***************************************************************************)
(* The connections page: one form for adding and editing, a list that is   *)
(* read again after every write, and one error for all of useConnections.  *)
(*                                                                         *)
(* Requests run side by side, and onSubmit() decides what to do with the   *)
(* form from what lastError holds once its own await is over.  A label and *)
(* a draft stand for everything a connection and a form have in them.      *)
(***************************************************************************)
EXTENDS Naturals, Sequences, Functions

CONSTANTS
  MaxCalls,    \* bound on the requests the page starts (a hasty user's: one less)
  MaxDrafts,   \* bound on what the user types
  Adding       \* editing = null

VARIABLES
  patient,   \* this user waits for an answer before the next click or key
  server,    \* the connections there are: id -> the draft it was last saved from
  drivers,   \* useDrivers: loading, loaded or failed
  list,      \* useConnections.list
  lastError, \* useConnections.lastError # null
  editing,   \* the connection the form is open on, or Adding
  draft,     \* what is in the form; 0: what it opened with
  drafts,    \* drafts typed so far
  calls      \* every request, in the order they were started

pageVars == <<patient, server, drivers, list, lastError, editing, draft, drafts, calls>>
screen   == <<list, lastError, editing, draft>>

Rows == 1..MaxCalls   \* the one there was, and those calls 2.. may add

NoEntry == [id \in {} |-> 0]

\* The page asks for its drivers and its list when it is mounted.
Call(kind, id, phase) ==
  [kind |-> kind, id |-> id, draft |-> draft, phase |-> phase, taken |-> FALSE, read |-> NoEntry]

PageTypeOK ==
  /\ patient \in BOOLEAN
  /\ DOMAIN server \subseteq Rows /\ DOMAIN list \subseteq Rows
  /\ drivers \in {"loading", "loaded", "failed"}
  /\ lastError \in BOOLEAN
  /\ editing \in Rows \cup {Adding}
  /\ draft \in 0..MaxDrafts /\ drafts \in 0..MaxDrafts
  /\ Len(calls) <= MaxCalls
  /\ \A c \in DOMAIN calls :
       /\ calls[c].kind \in {"refresh", "register", "update", "remove"}
       /\ calls[c].phase \in {"writing", "answered", "unanswered", "reading", "listed",
                              "unlisted", "done"}

PageInit ==
  /\ patient \in BOOLEAN
  /\ server = [id \in {1} |-> 0]
  /\ drivers = "loading"
  /\ list = NoEntry /\ lastError = FALSE
  /\ editing = Adding /\ draft = 0 /\ drafts = 0
  /\ calls = <<[kind |-> "refresh", id |-> 0, draft |-> 0, phase |-> "reading", taken |-> FALSE,
                read |-> NoEntry]>>

-----------------------------------------------------------------------------
(* The user. *)

Waits == \A c \in DOMAIN calls : calls[c].phase = "done"

MayAct == patient => Waits /\ drivers # "loading"

Start(kind, id) ==
  /\ Len(calls) < IF patient THEN MaxCalls ELSE MaxCalls - 1
  /\ calls' = Append(calls, Call(kind, id, "writing"))

Type ==
  /\ MayAct /\ drafts < MaxDrafts
  /\ drafts' = drafts + 1 /\ draft' = drafts'
  /\ UNCHANGED <<patient, server, drivers, list, lastError, editing, calls>>

\* The form is keyed by what it is open on: another record is another form.
OpenOn(id) ==
  /\ editing' = id
  /\ draft' = IF id = editing THEN draft ELSE 0

StartEdit(id) ==
  /\ MayAct /\ id \in DOMAIN list
  /\ OpenOn(id)
  /\ UNCHANGED <<patient, server, drivers, list, lastError, drafts, calls>>

CancelEdit ==
  /\ MayAct /\ editing # Adding
  /\ OpenOn(Adding)
  /\ UNCHANGED <<patient, server, drivers, list, lastError, drafts, calls>>

\* onSubmit() to its await.  Without the drivers an addition has no button.
Submit ==
  /\ MayAct /\ draft # 0
  /\ IF editing = Adding THEN drivers = "loaded" /\ Start("register", 0)
                         ELSE Start("update", editing)
  /\ UNCHANGED <<patient, server, drivers, screen, drafts>>

Remove(id) ==
  /\ MayAct /\ id \in DOMAIN list
  /\ Start("remove", id)
  /\ UNCHANGED <<patient, server, drivers, screen, drafts>>

-----------------------------------------------------------------------------
(* The server, and answers that get lost. *)

Added(id, saved) == [row \in DOMAIN server \cup {id} |-> IF row = id THEN saved ELSE server[row]]

After(c) ==
  CASE calls[c].kind = "register" -> Added(c, calls[c].draft)
    [] calls[c].kind = "update"   -> [server EXCEPT ![calls[c].id] = calls[c].draft]
    [] calls[c].kind = "remove"   -> Restrict(server, DOMAIN server \ {calls[c].id})

\* POST, PATCH or DELETE is carried out; its answer may still not come back.  A
\* removal is idempotent: one of an id that is gone answers as the first did.
Taken(c) ==
  /\ calls[c].phase = "writing"
  /\ calls[c].kind = "update" => calls[c].id \in DOMAIN server
  /\ server' = After(c)
  /\ \E answer \in {"answered", "unanswered"} :
       calls' = [calls EXCEPT ![c].phase = answer, ![c].taken = TRUE]
  /\ UNCHANGED <<patient, drivers, screen, drafts>>

Refused(c) ==
  /\ calls[c].phase = "writing"
  /\ calls' = [calls EXCEPT ![c].phase = "unanswered"]
  /\ UNCHANGED <<patient, server, drivers, screen, drafts>>

\* GET /connections.
Listed(c) ==
  /\ calls[c].phase = "reading"
  /\ \/ calls' = [calls EXCEPT ![c].phase = "listed", ![c].read = server]
     \/ calls' = [calls EXCEPT ![c].phase = "unlisted"]
  /\ UNCHANGED <<patient, server, drivers, screen, drafts>>

DriversLoaded ==
  /\ drivers = "loading"
  /\ drivers' \in {"loaded", "failed"}
  /\ UNCHANGED <<patient, server, screen, drafts, calls>>

-----------------------------------------------------------------------------
(* The page, when an answer comes. *)

MutRemoveKeepsTheList(c) == IF calls[c].kind = "remove" THEN "done" ELSE "reading"

\* What follows a write: the list is read again.
AfterWrite(c) == "reading"

Answered(c) ==
  /\ calls[c].phase = "answered"
  /\ calls' = [calls EXCEPT ![c].phase = AfterWrite(c)]
  /\ UNCHANGED <<patient, server, drivers, screen, drafts>>

MutSettlesAnyway(c, failed) ==
  CASE calls[c].kind = "register" -> draft' = 0 /\ UNCHANGED editing
    [] calls[c].kind = "update"   -> OpenOn(Adding)
    [] OTHER -> UNCHANGED <<draft, editing>>

\* The rest of onSubmit(), in the same turn: reset() of whatever form is open,
\* or the edit closed, unless an error is on screen.
Settle(c, failed) ==
  CASE calls[c].kind = "register" /\ ~failed -> draft' = 0 /\ UNCHANGED editing
    [] calls[c].kind = "update"   /\ ~failed -> OpenOn(Adding)
    [] OTHER -> UNCHANGED <<draft, editing>>

Resume(c, failed) ==
  /\ calls' = [calls EXCEPT ![c].phase = "done"]
  /\ lastError' = failed
  /\ Settle(c, failed)
  /\ UNCHANGED <<patient, server, drivers, drafts>>

WriteFailed(c) == /\ calls[c].phase = "unanswered"
                  /\ Resume(c, TRUE) /\ UNCHANGED list

ListShown(c) == /\ calls[c].phase = "listed"
                /\ list' = calls[c].read /\ Resume(c, FALSE)

ListFailed(c) == /\ calls[c].phase = "unlisted"
                 /\ Resume(c, TRUE) /\ UNCHANGED list

PageNext ==
  \/ Type \/ CancelEdit \/ Submit
  \/ \E id \in Rows : StartEdit(id) \/ Remove(id)
  \/ DriversLoaded
  \/ \E c \in DOMAIN calls : \/ Taken(c) \/ Refused(c) \/ Listed(c)
                             \/ Answered(c) \/ WriteFailed(c) \/ ListShown(c) \/ ListFailed(c)

PageSpec == PageInit /\ [][PageNext]_pageVars

-----------------------------------------------------------------------------
(* What a user who waits can rely on.  One who does not loses drafts to the *)
(* answer of an earlier form, and keeps a list an earlier read brought.    *)

\* Only the user and an accepted save empty the form: no answer takes away a
\* draft the server has not taken ("reset only on success", onSubmit()).
NoDraftIsLost ==
  [][\A c \in DOMAIN calls :
       patient /\ calls[c].phase # "done" /\ calls'[c].phase = "done" /\ draft' # draft
         => calls[c].taken /\ calls[c].draft = draft
            /\ \E id \in DOMAIN server : server[id] = draft]_pageVars

\* With nothing on its way and no banner, the list on screen is the server's.
QuietListIsCurrent == patient /\ Waits /\ ~lastError => list = server

\* That, with the type of what the page keeps (useConnections.ts:224-278).
QuietListIsTrue == PageTypeOK /\ QuietListIsCurrent

-----------------------------------------------------------------------------
(***************************************************************************)
(* The inductive invariant behind them.                                    *)
(***************************************************************************)
PageParameters == MaxCalls \in Nat \ {0} /\ MaxDrafts \in Nat

Lists == UNION {[ids -> 0..MaxDrafts] : ids \in SUBSET Rows}

PageRequest == [kind: {"refresh", "register", "update", "remove"}, id: 0..MaxCalls, draft: 0..MaxDrafts,
            phase: {"writing", "answered", "unanswered", "reading", "listed", "unlisted", "done"},
            taken: BOOLEAN, read: Lists]

\* The requests are requests, and the page's first list is only read.
RequestsAreWellFormed ==
  /\ server \in Lists /\ list \in Lists /\ calls \in Seq(PageRequest)
  /\ \A c \in DOMAIN calls : calls[c].kind = "refresh" => calls[c].phase # "writing"

\* For a user who waits one request is on its way, the last; a list it brings is
\* the server's, and what it writes is in the form still, and once it is written
\* the server has it.
OneRequest ==
  patient =>
    \A c \in DOMAIN calls : calls[c].phase # "done" =>
      /\ c = Len(calls)
      /\ calls[c].phase = "listed" => calls[c].read = server
      /\ calls[c].kind \in {"register", "update"} =>
           /\ calls[c].draft = draft
           /\ calls[c].phase \in {"answered", "reading", "listed", "unlisted"} =>
                calls[c].taken /\ \E id \in DOMAIN server : server[id] = draft

PageInv == PageTypeOK /\ RequestsAreWellFormed /\ OneRequest /\ QuietListIsCurrent
=============================================================================
