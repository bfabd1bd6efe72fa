---------------------------- MODULE Connections ----------------------------
(***************************************************************************)
(* The in-memory connection registry and the three use cases that change   *)
(* it, with the awaits between what they read and what they write:         *)
(* RegisterConnection, UpdateConnection, DeleteConnection.  Every await is *)
(* a point where another request can run, so each handler is one action    *)
(* per stretch between awaits.                                             *)
(*                                                                         *)
(* An adapter is a driver with its pool, its credential and, behind a      *)
(* bastion, its forward.  Here it is open until somebody asks it to close, *)
(* from which moment it refuses new work; the await on close() may still   *)
(* take any time.  What happens inside one is TunneledAdapter's business.  *)
(***************************************************************************)
EXTENDS ConnectionTypes, Naturals

CONSTANTS
  Adapters,    \* identities for adapters; bounds how many are ever built
  Unbuilt,     \* state of an adapter nobody has built
  Serialised   \* TRUE: clients do not overlap writes to one connection

Record  == [label: Labels, adapter: Adapters, parts: Targets,
            ssh: Bastions \cup {Direct}]
Adapter == [open: BOOLEAN, endpoint: Endpoint]

ASSUME ConnectionsAssumption ==
  /\ Serialised \in BOOLEAN
  /\ Unnamed \notin Labels
  /\ Direct \notin Bastions
  /\ {Keep, Disable} \cap Bastions = {}
  /\ Keep # Disable
  /\ NoCredential \notin Credentials
  /\ Blank \notin Credentials
  /\ Missing \notin Record \cup Entry
  /\ Unbuilt \notin Adapter
  /\ NoRequest \notin Request

VARIABLES
  store,     \* the registry's Map
  seat,      \* insertion number of each id: a Map iterates in insertion order
  seats,     \* insertions so far
  issued,    \* ids newId() has returned
  adapters,  \* every adapter: open or closed, and what it was built to reach
  task,      \* what each writer is in the middle of, with its locals
  gone       \* ids whose DELETE has been answered (observation only)

vars == <<store, seat, seats, issued, adapters, task, gone>>

\* A handler's locals: `record` is what registry.get returned when it began.
Idle       == [stage: {"idle"}]
Creating   == [stage: {"creating"}, label: Labels, config: Config]
Rebuilding == [stage: {"rebuilding"}, id: Ids, record: Record,
               label: Labels \cup {Unnamed}, config: Config]
Replacing  == [stage: {"replacing"}, id: Ids, record: Record,
               label: Labels \cup {Unnamed}, config: Config, next: Adapters]
Deleting   == [stage: {"deleting"}, id: Ids, record: Record]
Task       == Idle \cup Creating \cup Rebuilding \cup Replacing \cup Deleting

idle == [stage |-> "idle"]

TypeOK ==
  /\ store \in [Ids -> Record \cup {Missing}]
  /\ seat \in [Ids -> Nat]
  /\ seats \in Nat
  /\ issued \in SUBSET Ids
  /\ adapters \in [Adapters -> Adapter \cup {Unbuilt}]
  /\ task \in [Writers -> Task]
  /\ gone \in SUBSET Ids

Present(id)  == store[id] # Missing
Holding      == {"rebuilding", "replacing", "deleting"}
Holds(w, id) == task[w].stage \in Holding /\ task[w].id = id
MayWrite(id) == Serialised => \A w \in Writers : ~Holds(w, id)

-----------------------------------------------------------------------------
(***************************************************************************)
(* The registry.                                                           *)
(***************************************************************************)
MutAddMovesToTheEnd(id, record) ==
  /\ store' = [store EXCEPT ![id] = record]
  /\ seat' = [seat EXCEPT ![id] = seats + 1]
  /\ seats' = seats + 1

\* add() replaces under an id already present, which keeps its place.
Add(id, record) ==
  /\ store' = [store EXCEPT ![id] = record]
  /\ IF Present(id)
     THEN UNCHANGED <<seat, seats>>
     ELSE seat' = [seat EXCEPT ![id] = seats + 1] /\ seats' = seats + 1

Evict(id) ==
  /\ store' = [store EXCEPT ![id] = Missing]
  /\ UNCHANGED <<seat, seats>>

(***************************************************************************)
(* Adapters.  A closed adapter keeps its configuration, credential         *)
(* included, so a successor can still be built from it.                    *)
(***************************************************************************)
Unused(a)  == adapters[a] = Unbuilt
IsOpen(a)  == adapters[a] # Unbuilt /\ adapters[a].open
IsClosed(a) == adapters[a] # Unbuilt /\ ~adapters[a].open

Open(a, where) == [adapters EXCEPT ![a] = [open |-> TRUE, endpoint |-> where]]
Shut(pool, a)  == [pool EXCEPT ![a].open = FALSE]

Finish(w)       == task' = [task EXCEPT ![w] = idle]
Become(w, next) == task' = [task EXCEPT ![w] = next]

-----------------------------------------------------------------------------
Init ==
  /\ store = [id \in Ids |-> Missing]
  /\ seat = [id \in Ids |-> 0]
  /\ seats = 0
  /\ issued = {}
  /\ adapters = [a \in Adapters |-> Unbuilt]
  /\ task = [w \in Writers |-> idle]
  /\ gone = {}

(***************************************************************************)
(* POST /connections.  The id is drawn and the record written only after   *)
(* the factory has built the adapter, with no await in between.            *)
(***************************************************************************)
RegisterBegin(w) ==
  /\ task[w].stage = "idle"
  /\ \E label \in Labels, config \in Config :
       /\ config.ssh # Disable
       /\ Become(w, [stage |-> "creating", label |-> label, config |-> config])
  /\ UNCHANGED <<store, seat, seats, issued, adapters, gone>>

RegisterRefused(w) ==
  /\ task[w].stage = "creating"
  /\ Finish(w)
  /\ UNCHANGED <<store, seat, seats, issued, adapters, gone>>

MutRegisterReusesFreeIds(w) ==
  /\ task[w].stage = "creating"
  /\ \E a \in Adapters, id \in Ids :
       LET where == Fresh(task[w].config) IN
       /\ Unused(a) /\ ~Present(id)
       /\ adapters' = Open(a, where)
       /\ issued' = issued \cup {id}
       /\ Add(id, [label |-> task[w].label, adapter |-> a,
                   parts |-> task[w].config.target, ssh |-> where.bastion])
  /\ Finish(w)
  /\ UNCHANGED gone

RegisterDone(w) ==
  /\ task[w].stage = "creating"
  /\ \E a \in Adapters, id \in Ids \ issued :
       LET where == Fresh(task[w].config) IN
       /\ Unused(a)
       /\ adapters' = Open(a, where)
       /\ issued' = issued \cup {id}
       /\ Add(id, [label |-> task[w].label, adapter |-> a,
                   parts |-> task[w].config.target, ssh |-> where.bastion])
  /\ Finish(w)
  /\ UNCHANGED gone

(***************************************************************************)
(* PATCH /connections/:id.  A body that names no connection detail is a    *)
(* rename, and has no await in it; any other rebuilds the adapter first.   *)
(***************************************************************************)
Rename(id) ==
  /\ Present(id)
  /\ MayWrite(id)
  /\ \E label \in Labels : Add(id, [store[id] EXCEPT !.label = label])
  /\ UNCHANGED <<issued, adapters, task, gone>>

MutEditClosesBeforeBuilding(w, id) ==
  /\ task[w].stage = "idle" /\ Present(id) /\ MayWrite(id)
  /\ \E label \in Labels \cup {Unnamed}, config \in Config :
       Become(w, [stage |-> "rebuilding", id |-> id, record |-> store[id],
                  label |-> label, config |-> config])
  /\ adapters' = Shut(adapters, store[id].adapter)
  /\ UNCHANGED <<store, seat, seats, issued, gone>>

EditBegin(w, id) ==
  /\ task[w].stage = "idle"
  /\ Present(id)
  /\ MayWrite(id)
  /\ \E label \in Labels \cup {Unnamed}, config \in Config :
       Become(w, [stage |-> "rebuilding", id |-> id, record |-> store[id],
                  label |-> label, config |-> config])
  /\ UNCHANGED <<store, seat, seats, issued, adapters, gone>>

\* The factory refused the configuration, or could not open the tunnel.
EditRefused(w) ==
  /\ task[w].stage = "rebuilding"
  /\ Finish(w)
  /\ UNCHANGED <<store, seat, seats, issued, adapters, gone>>

MutEditLeavesOldOpen(w) ==
  /\ task[w].stage = "rebuilding"
  /\ LET old == task[w].record.adapter IN
     \E a \in Adapters :
       /\ Unused(a)
       /\ adapters' = Open(a, Successor(adapters[old].endpoint, task[w].config))
       /\ Become(w, [stage |-> "replacing", id |-> task[w].id, record |-> task[w].record,
                     label |-> task[w].label, config |-> task[w].config, next |-> a])
  /\ UNCHANGED <<store, seat, seats, issued, gone>>

MutEditBuildsFromScratch(w) ==
  /\ task[w].stage = "rebuilding"
  /\ \E a \in Adapters :
       /\ Unused(a)
       /\ adapters' = Shut(Open(a, Fresh(task[w].config)), task[w].record.adapter)
       /\ Become(w, [stage |-> "replacing", id |-> task[w].id, record |-> task[w].record,
                     label |-> task[w].label, config |-> task[w].config, next |-> a])
  /\ UNCHANGED <<store, seat, seats, issued, gone>>

\* The successor is built from the adapter read at the start, which is then
\* asked to close; the handler waits for that before it writes.
EditBuilt(w) ==
  /\ task[w].stage = "rebuilding"
  /\ LET old == task[w].record.adapter IN
     \E a \in Adapters :
       /\ Unused(a)
       /\ adapters' = Shut(Open(a, Successor(adapters[old].endpoint, task[w].config)), old)
       /\ Become(w, [stage |-> "replacing", id |-> task[w].id, record |-> task[w].record,
                     label |-> task[w].label, config |-> task[w].config, next |-> a])
  /\ UNCHANGED <<store, seat, seats, issued, gone>>

MutEditDescribesTheBody(w) ==
  /\ task[w].stage = "replacing"
  /\ Add(task[w].id,
         [label   |-> Relabelled(task[w].record.label, task[w].label),
          adapter |-> task[w].next,
          parts   |-> task[w].config.target,
          ssh     |-> Graft(Direct, task[w].config.ssh)])
  /\ Finish(w)
  /\ UNCHANGED <<issued, adapters, gone>>

MutEditGivesUpWhenCloseFails(w) ==
  /\ task[w].stage = "replacing"
  /\ Finish(w)
  /\ UNCHANGED <<store, seat, seats, issued, adapters, gone>>

\* closeQuietly has returned, whether or not the old pool closed cleanly.  The
\* record written is the one read at the start, with this edit's changes.
EditCommit(w) ==
  /\ task[w].stage = "replacing"
  /\ LET next == task[w].next IN
     Add(task[w].id,
         [label   |-> Relabelled(task[w].record.label, task[w].label),
          adapter |-> next,
          parts   |-> task[w].config.target,
          ssh     |-> adapters[next].endpoint.bastion])
  /\ Finish(w)
  /\ UNCHANGED <<issued, adapters, gone>>

(***************************************************************************)
(* DELETE /connections/:id.                                                *)
(***************************************************************************)
DeleteBegin(w, id) ==
  /\ task[w].stage = "idle"
  /\ Present(id)
  /\ MayWrite(id)
  /\ adapters' = Shut(adapters, store[id].adapter)
  /\ Become(w, [stage |-> "deleting", id |-> id, record |-> store[id]])
  /\ UNCHANGED <<store, seat, seats, issued, gone>>

\* close() has settled, either way.
DeleteDone(w) ==
  /\ task[w].stage = "deleting"
  /\ Evict(task[w].id)
  /\ gone' = gone \cup {task[w].id}
  /\ Finish(w)
  /\ UNCHANGED <<issued, adapters>>

\* An id that is not there: 204 at once.
DeleteMissing(id) ==
  /\ id \in issued
  /\ ~Present(id)
  /\ gone' = gone \cup {id}
  /\ UNCHANGED <<store, seat, seats, issued, adapters, task>>

Next ==
  \/ \E w \in Writers :
       \/ RegisterBegin(w) \/ RegisterRefused(w) \/ RegisterDone(w)
       \/ EditRefused(w) \/ EditBuilt(w) \/ EditCommit(w)
       \/ DeleteDone(w)
       \/ \E id \in Ids : EditBegin(w, id) \/ DeleteBegin(w, id)
  \/ \E id \in Ids : Rename(id) \/ DeleteMissing(id)

Spec == Init /\ [][Next]_vars

\* Once an old pool has been asked to close, close() settles and the handler
\* that awaits it runs on.  Nothing is assumed of the factory or the clients.
Fairness == \A w \in Writers : WF_vars(EditCommit(w)) /\ WF_vars(DeleteDone(w))

FairSpec == Spec /\ Fairness

-----------------------------------------------------------------------------
(***************************************************************************)
(* What holds whatever the clients do.                                     *)
(***************************************************************************)
\* The record describes the connection it serves through: its parts and its
\* ssh are those of the adapter behind it, never of one it used to have or of
\* what a body asked for (UpdateConnection: "in lockstep with the rebuild").
DescribesWhatItServes ==
  \A id \in Ids : Present(id) =>
    /\ adapters[store[id].adapter] # Unbuilt
    /\ store[id].parts = adapters[store[id].adapter].endpoint.target
    /\ store[id].ssh = adapters[store[id].adapter].endpoint.bastion

\* A record whose adapter is closed is about to be replaced or evicted: the
\* request that closed it is still in flight.  A refused edit, or a close that
\* throws, never leaves a dead connection behind.
DeadIsBeingReplaced ==
  \A id \in Ids : (Present(id) /\ IsClosed(store[id].adapter)) =>
    \E w \in Writers :
      /\ task[w].stage \in {"replacing", "deleting"}
      /\ task[w].id = id
      /\ task[w].record.adapter = store[id].adapter

\* An edited connection stays where it is in the list.
EditKeepsPosition ==
  [][\A i, j \in Ids : (Present(i) /\ Present(j) /\ Present(i)' /\ Present(j)') =>
       (seat[i] < seat[j] <=> seat'[i] < seat'[j])]_vars

\* A connection whose pool has been closed under it does not stay that way.
DeadConnectionHeals ==
  \A id \in Ids :
    (Present(id) /\ IsClosed(store[id].adapter)) ~>
    (Present(id) => IsOpen(store[id].adapter))

(***************************************************************************)
(* What holds when writes to one connection do not overlap.                *)
(***************************************************************************)
\* Every open pool is reachable: a record serves through it, or the edit that
\* built it is about to write it.
NoPoolIsLost ==
  \A a \in Adapters : IsOpen(a) =>
    \/ \E id \in Ids : Present(id) /\ store[id].adapter = a
    \/ \E w \in Writers : task[w].stage = "replacing" /\ task[w].next = a

\* Once DELETE has answered, the connection stays deleted.
DeletedStaysDeleted == \A id \in gone : ~Present(id)

Reaches(id) == adapters[store[id].adapter].endpoint

Lands(w) == task[w].stage = "replacing" /\ task'[w].stage = "idle"

Asked(now, config) ==
  [target     |-> config.target,
   credential |-> IF config.password = Blank THEN now.credential ELSE config.password,
   bastion    |-> CASE config.ssh = Keep    -> now.bastion
                    [] config.ssh = Disable -> Direct
                    [] OTHER                -> config.ssh]

\* An edit that lands leaves the connection with the target it states, and with
\* what it does not state as that is when it lands: the credential of a blank
\* password box ("keep, never remove"), the tunnel of an absent ssh field, the
\* label of a body without one.
EditLandsAsAsked ==
  [][\A w \in Writers, id \in Ids :
       (Lands(w) /\ task[w].id = id /\ Present(id)) =>
         /\ Reaches(id)' = Asked(Reaches(id), task[w].config)
         /\ store'[id].label = IF task[w].label = Unnamed THEN store[id].label
                                                         ELSE task[w].label]_vars

\* And nothing else, a rename or another connection's edit, changes what a
\* connection reaches.
OnlyEditsRedirect ==
  [][\A id \in Ids : Present(id) /\ Present(id)' /\ Reaches(id)' # Reaches(id) =>
       \E w \in Writers : Lands(w) /\ task[w].id = id]_vars

\* An edit changes what it states and keeps what it does not, of one connection
\* (update-connection.use-case.ts:40-98, postgres-connection-config.ts).
EditsKeepTheRest == EditLandsAsAsked /\ OnlyEditsRedirect

-----------------------------------------------------------------------------
(***************************************************************************)
(* The inductive invariants behind them.                                   *)
(***************************************************************************)
InHand(w) == task[w].stage \in Holding

\* Ids come from newId(): nothing is stored, edited or deleted under another.
IdsAreIssued ==
  /\ \A id \in Ids : Present(id) => id \in issued
  /\ \A w \in Writers : InHand(w) => task[w].id \in issued
  /\ gone \subseteq issued

\* An adapter serves at most one id, and a request holds no other id's adapter.
AdaptersAreOwned ==
  /\ \A i, j \in Ids :
       (Present(i) /\ Present(j) /\ store[i].adapter = store[j].adapter) => i = j
  /\ \A w \in Writers, id \in Ids :
       (InHand(w) /\ Present(id) /\ task[w].record.adapter = store[id].adapter)
         => id = task[w].id
  /\ \A v, w \in Writers :
       (InHand(v) /\ InHand(w) /\ task[v].record.adapter = task[w].record.adapter)
         => task[v].id = task[w].id

\* What a request holds has been built, and closed once it waits for close().
HeldAdapters ==
  \A w \in Writers :
    /\ InHand(w) => ~Unused(task[w].record.adapter)
    /\ task[w].stage \in {"replacing", "deleting"} => IsClosed(task[w].record.adapter)

\* A successor is open, and nobody else knows it until it is written.
SuccessorsArePrivate ==
  \A w \in Writers : task[w].stage = "replacing" =>
    /\ IsOpen(task[w].next)
    /\ adapters[task[w].next].endpoint.target = task[w].config.target
    /\ \A id \in Ids : Present(id) => store[id].adapter # task[w].next
    /\ \A v \in Writers : InHand(v) => task[v].record.adapter # task[w].next
    /\ \A v \in Writers :
         (task[v].stage = "replacing" /\ task[v].next = task[w].next) => v = w

AnyInv == /\ TypeOK
          /\ IdsAreIssued
          /\ AdaptersAreOwned
          /\ HeldAdapters
          /\ SuccessorsArePrivate
          /\ DescribesWhatItServes
          /\ DeadIsBeingReplaced

\* Without overlap, what a request read is still what is stored.
HeldIsCurrent ==
  /\ \A w \in Writers : InHand(w) => store[task[w].id] = task[w].record
  /\ \A v, w \in Writers : (InHand(v) /\ InHand(w) /\ task[v].id = task[w].id) => v = w

\* The successor of an edit is the edit applied to what it replaces.
SuccessorIsTheEdit ==
  \A w \in Writers : task[w].stage = "replacing" =>
    adapters[task[w].next].endpoint =
      Successor(adapters[task[w].record.adapter].endpoint, task[w].config)

SerialInv == /\ HeldIsCurrent
             /\ SuccessorIsTheEdit
             /\ NoPoolIsLost
             /\ DeletedStaysDeleted

-----------------------------------------------------------------------------
(***************************************************************************)
(* Refinement: the requests of AtomicConnections are what the handlers     *)
(* have in hand, its catalogue is the registry seen through the adapters.  *)
(***************************************************************************)
EntryOf(record) ==
  [label |-> record.label, endpoint |-> adapters[record.adapter].endpoint]

catalogue == [id \in Ids |-> IF Present(id) THEN EntryOf(store[id]) ELSE Missing]

RequestOf(t) ==
  CASE t.stage = "idle"     -> NoRequest
    [] t.stage = "creating" -> [op |-> "register", label |-> t.label, config |-> t.config]
    [] t.stage = "deleting" -> [op |-> "delete", id |-> t.id]
    [] OTHER -> [op |-> "edit", id |-> t.id, label |-> t.label, config |-> t.config]

requests == [w \in Writers |-> RequestOf(task[w])]

Atomic == INSTANCE AtomicConnections WITH requests <- requests, catalogue <- catalogue

AtomicSpec == Atomic!Spec
=============================================================================
