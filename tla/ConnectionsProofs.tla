------------------------- MODULE ConnectionsProofs -------------------------
(***************************************************************************)
(* Proofs about Connections, for every number of writers, ids and adapters.*)
(***************************************************************************)
EXTENDS Connections, TLAPS

(***************************************************************************)
(* Data.                                                                   *)
(***************************************************************************)
\* An edit of an endpoint is an endpoint (the factory's rebuild).
LEMMA SuccessorType ==
  ASSUME NEW e \in Endpoint, NEW c \in Config
  PROVE  Successor(e, c) \in Endpoint
  BY DEF Endpoint, Config, Successor, Graft, Carry

\* A registration's body describes an endpoint (the factory's create).
LEMMA FreshType ==
  ASSUME NEW c \in Config
  PROVE  Fresh(c) \in Endpoint
  BY DEF Endpoint, Config, Fresh, Graft, Carry

\* A handler's locals, by the stage it is in.
LEMMA TaskFields ==
  ASSUME TypeOK, NEW w \in Writers
  PROVE  /\ task[w] \in Task
         /\ task[w].stage = "creating" => task[w] \in Creating
         /\ task[w].stage = "rebuilding" => task[w] \in Rebuilding
         /\ task[w].stage = "replacing" => task[w] \in Replacing
         /\ task[w].stage = "deleting" => task[w] \in Deleting
         /\ InHand(w) => task[w].id \in Ids /\ task[w].record \in Record
         /\ task[w].stage = "creating" => task[w].config \in Config /\ task[w].label \in Labels
         /\ task[w].stage \in {"rebuilding", "replacing"} =>
              task[w].config \in Config /\ task[w].label \in Labels \cup {Unnamed}
         /\ task[w].stage = "replacing" => task[w].next \in Adapters
<1>1. task[w] \in Task
  BY DEF TypeOK
<1>2. \/ task[w] \in Idle /\ task[w].stage = "idle"
      \/ task[w] \in Creating /\ task[w].stage = "creating"
      \/ task[w] \in Rebuilding /\ task[w].stage = "rebuilding"
      \/ task[w] \in Replacing /\ task[w].stage = "replacing"
      \/ task[w] \in Deleting /\ task[w].stage = "deleting"
  BY <1>1 DEF Task, Idle, Creating, Rebuilding, Replacing, Deleting
<1>3. QED
  BY <1>1, <1>2 DEF InHand, Holding, Idle, Creating, Rebuilding, Replacing, Deleting

\* A stored record is a record, and an adapter that is built has an endpoint.
LEMMA StoreFields ==
  ASSUME TypeOK, NEW id \in Ids, Present(id)
  PROVE  /\ store[id] \in Record
         /\ store[id].adapter \in Adapters
         /\ store[id].label \in Labels
  BY DEF TypeOK, Present, Record

\* The state and endpoint of every adapter, whatever its stage.
LEMMA AdapterFields ==
  ASSUME TypeOK, NEW a \in Adapters, ~Unused(a)
  PROVE  /\ adapters[a] \in Adapter
         /\ adapters[a].endpoint \in Endpoint
         /\ adapters[a].open \in BOOLEAN
  BY DEF TypeOK, Unused, Adapter

(***************************************************************************)
(* The type invariant needs to know that what a handler holds was built.   *)
(***************************************************************************)
\* The empty registry satisfies the invariant.
LEMMA InitAny == Init => AnyInv
  BY ConnectionsAssumption
     DEF Init, AnyInv, TypeOK, IdsAreIssued, AdaptersAreOwned, HeldAdapters, SuccessorsArePrivate,
         DescribesWhatItServes, DeadIsBeingReplaced, Present, InHand, Holding, Task, Idle, idle

\* Every handler stretch preserves the types.
LEMMA TypeStep == AnyInv /\ [Next]_vars => TypeOK'
<1> SUFFICES ASSUME AnyInv, [Next]_vars PROVE TypeOK'
  OBVIOUS
<1> USE DEF TypeOK
<1>t. TypeOK
  BY DEF AnyInv
<1>i. idle \in Task
  BY DEF idle, Task, Idle
<1>1. CASE UNCHANGED vars
  BY <1>1, <1>t DEF vars
<1>2. ASSUME NEW w \in Writers, RegisterBegin(w) PROVE TypeOK'
  <2>1. PICK label \in Labels, config \in Config :
          Become(w, [stage |-> "creating", label |-> label, config |-> config])
    BY <1>2 DEF RegisterBegin
  <2>2. [stage |-> "creating", label |-> label, config |-> config] \in Task
    BY DEF Task, Creating
  <2>3. QED
    BY <1>2, <1>t, <2>1, <2>2 DEF RegisterBegin, Become
<1>3. ASSUME NEW w \in Writers, RegisterRefused(w) PROVE TypeOK'
  BY <1>3, <1>t, <1>i DEF RegisterRefused, Finish
<1>4. ASSUME NEW w \in Writers, RegisterDone(w) PROVE TypeOK'
  <2>1. PICK a \in Adapters, id \in Ids \ issued :
          /\ adapters' = Open(a, Fresh(task[w].config))
          /\ issued' = issued \cup {id}
          /\ Add(id, [label |-> task[w].label, adapter |-> a,
                      parts |-> task[w].config.target, ssh |-> Fresh(task[w].config).bastion])
    BY <1>4 DEF RegisterDone
  <2>2. task[w].config \in Config /\ task[w].label \in Labels
    BY <1>4, <1>t, TaskFields DEF RegisterDone
  <2>3. Fresh(task[w].config) \in Endpoint
    BY <2>2, FreshType
  <2>4. [open |-> TRUE, endpoint |-> Fresh(task[w].config)] \in Adapter
    BY <2>3 DEF Adapter
  <2>5. [label |-> task[w].label, adapter |-> a,
         parts |-> task[w].config.target, ssh |-> Fresh(task[w].config).bastion] \in Record
    BY <2>2, <2>3 DEF Record, Config, Endpoint
  <2>6. adapters' \in [Adapters -> Adapter \cup {Unbuilt}]
    BY <1>t, <2>1, <2>4 DEF Open
  <2>7. /\ store' \in [Ids -> Record \cup {Missing}]
        /\ seat' \in [Ids -> Nat]
        /\ seats' \in Nat
    BY <1>t, <2>1, <2>5 DEF Add
  <2>8. QED
    BY <1>4, <1>t, <1>i, <2>1, <2>6, <2>7 DEF RegisterDone, Finish
<1>5. ASSUME NEW id \in Ids, Rename(id) PROVE TypeOK'
  <2>1. PICK label \in Labels : Add(id, [store[id] EXCEPT !.label = label])
    BY <1>5 DEF Rename
  <2>2. [store[id] EXCEPT !.label = label] \in Record
    BY <1>5, <1>t, StoreFields DEF Rename, Record
  <2>3. QED
    BY <1>5, <1>t, <2>1, <2>2 DEF Rename, Add
<1>6. ASSUME NEW w \in Writers, NEW id \in Ids, EditBegin(w, id) PROVE TypeOK'
  <2>1. PICK label \in Labels \cup {Unnamed}, config \in Config :
          Become(w, [stage |-> "rebuilding", id |-> id, record |-> store[id],
                     label |-> label, config |-> config])
    BY <1>6 DEF EditBegin
  <2>2. [stage |-> "rebuilding", id |-> id, record |-> store[id],
         label |-> label, config |-> config] \in Task
    BY <1>6, <1>t, StoreFields DEF EditBegin, Task, Rebuilding
  <2>3. QED
    BY <1>6, <1>t, <2>1, <2>2 DEF EditBegin, Become
<1>7. ASSUME NEW w \in Writers, EditRefused(w) PROVE TypeOK'
  BY <1>7, <1>t, <1>i DEF EditRefused, Finish
<1>8. ASSUME NEW w \in Writers, EditBuilt(w) PROVE TypeOK'
  <2> DEFINE old == task[w].record.adapter
             where == Successor(adapters[old].endpoint, task[w].config)
  <2>1. PICK a \in Adapters :
          /\ Unused(a)
          /\ adapters' = Shut(Open(a, where), old)
          /\ Become(w, [stage |-> "replacing", id |-> task[w].id, record |-> task[w].record,
                        label |-> task[w].label, config |-> task[w].config, next |-> a])
    BY <1>8 DEF EditBuilt
  <2>2. task[w] \in Rebuilding
    BY <1>8, <1>t, TaskFields DEF EditBuilt
  <2>3. old \in Adapters /\ ~Unused(old)
    BY <1>8, <2>2 DEF EditBuilt, Rebuilding, Record, AnyInv, HeldAdapters, InHand, Holding
  <2>4. adapters[old] \in Adapter /\ where \in Endpoint
    BY <2>2, <2>3, <1>t, AdapterFields, SuccessorType DEF Rebuilding
  <2>5. adapters' \in [Adapters -> Adapter \cup {Unbuilt}]
    BY <2>1, <2>3, <2>4, <1>t DEF Open, Shut, Adapter, Unused
  <2>6. [stage |-> "replacing", id |-> task[w].id, record |-> task[w].record,
         label |-> task[w].label, config |-> task[w].config, next |-> a] \in Task
    BY <2>2 DEF Rebuilding, Replacing, Task
  <2>7. QED
    BY <1>8, <1>t, <2>1, <2>5, <2>6 DEF EditBuilt, Become
<1>9. ASSUME NEW w \in Writers, EditCommit(w) PROVE TypeOK'
  <2> DEFINE next == task[w].next
             written == [label   |-> Relabelled(task[w].record.label, task[w].label),
                         adapter |-> next, parts |-> task[w].config.target,
                         ssh     |-> adapters[next].endpoint.bastion]
  <2>1. task[w] \in Replacing /\ ~Unused(next)
    BY <1>9, <1>t, TaskFields DEF EditCommit, AnyInv, SuccessorsArePrivate, IsOpen, Unused
  <2>2. adapters[next].endpoint \in Endpoint
    BY <2>1, <1>t, AdapterFields DEF Replacing
  <2>3. written \in Record
    BY <2>1, <2>2 DEF Replacing, Record, Config, Endpoint, Relabelled
  <2>4. Add(task[w].id, written) /\ task[w].id \in Ids
    BY <1>9, <2>1 DEF EditCommit, Replacing
  <2>5. QED
    BY <1>9, <1>t, <1>i, <2>3, <2>4 DEF EditCommit, Add, Finish
<1>10. ASSUME NEW w \in Writers, NEW id \in Ids, DeleteBegin(w, id) PROVE TypeOK'
  <2>1. store[id] \in Record /\ ~Unused(store[id].adapter)
    BY <1>10, <1>t, StoreFields DEF DeleteBegin, AnyInv, DescribesWhatItServes, Unused
  <2>2. adapters' \in [Adapters -> Adapter \cup {Unbuilt}]
    BY <1>10, <1>t, <2>1, AdapterFields DEF DeleteBegin, Shut, Adapter, Record
  <2>3. [stage |-> "deleting", id |-> id, record |-> store[id]] \in Task
    BY <2>1 DEF Deleting, Task
  <2>4. QED
    BY <1>10, <1>t, <2>2, <2>3 DEF DeleteBegin, Become
<1>11. ASSUME NEW w \in Writers, DeleteDone(w) PROVE TypeOK'
  <2>1. task[w].id \in Ids
    BY <1>11, <1>t, TaskFields DEF DeleteDone, Deleting
  <2>2. QED
    BY <1>11, <1>t, <1>i, <2>1 DEF DeleteDone, Evict, Finish
<1>12. ASSUME NEW id \in Ids, DeleteMissing(id) PROVE TypeOK'
  BY <1>12, <1>t DEF DeleteMissing
<1>13. QED
  BY <1>1, <1>2, <1>3, <1>4, <1>5, <1>6, <1>7, <1>8, <1>9, <1>10, <1>11, <1>12 DEF Next

(***************************************************************************)
(* What the steps that touch adapters do, point by point.                  *)
(***************************************************************************)
\* The adapters named by handlers and by the registry are adapters.
LEMMA HeldFields ==
  ASSUME TypeOK
  PROVE  /\ \A w \in Writers : InHand(w) => task[w].id \in Ids /\ task[w].record.adapter \in Adapters
         /\ \A w \in Writers : task[w].stage = "replacing" => task[w].next \in Adapters
         /\ \A id \in Ids : Present(id) => store[id].adapter \in Adapters
<1>1. \A w \in Writers : InHand(w) => task[w].id \in Ids /\ task[w].record \in Record
  BY TaskFields
<1>2. \A w \in Writers : InHand(w) => task[w].record.adapter \in Adapters
  BY <1>1 DEF Record
<1>3. QED
  BY <1>1, <1>2, TaskFields, StoreFields

\* An endpoint in an open or closed adapter is not the Unbuilt state.
LEMMA BuiltAdapter ==
  ASSUME NEW e \in Endpoint
  PROVE  /\ [open |-> TRUE, endpoint |-> e] # Unbuilt
         /\ [open |-> FALSE, endpoint |-> e] # Unbuilt
<1>1. [open |-> TRUE, endpoint |-> e] \in Adapter /\ [open |-> FALSE, endpoint |-> e] \in Adapter
  BY DEF Adapter
<1>2. QED
  BY <1>1, ConnectionsAssumption

Registered(w, a, id) ==
  /\ task[w].stage = "creating" /\ Unused(a) /\ id \notin issued
  /\ ~Unused(a)' /\ IsOpen(a)'
  /\ adapters'[a].endpoint = Fresh(task[w].config)
  /\ \A b \in Adapters \ {a} : adapters'[b] = adapters[b]
  /\ Present(id)' /\ store'[id].adapter = a
  /\ store'[id].parts = task[w].config.target
  /\ store'[id].ssh = Fresh(task[w].config).bastion
  /\ \A i \in Ids \ {id} : store'[i] = store[i]
  /\ task'[w] = idle
  /\ \A v \in Writers \ {w} : task'[v] = task[v]

\* What RegisterConnection does to adapters, records and handlers.
LEMMA RegisterEffect ==
  ASSUME AnyInv, TypeOK', NEW w \in Writers, RegisterDone(w)
  PROVE  \E a \in Adapters, id \in Ids : Registered(w, a, id)
<1>1. PICK a \in Adapters, id \in Ids \ issued :
        /\ Unused(a)
        /\ adapters' = Open(a, Fresh(task[w].config))
        /\ Add(id, [label |-> task[w].label, adapter |-> a,
                    parts |-> task[w].config.target, ssh |-> Fresh(task[w].config).bastion])
        /\ Finish(w)
  BY DEF RegisterDone
<1>2. TypeOK /\ Fresh(task[w].config) \in Endpoint
  BY TaskFields, FreshType DEF AnyInv, RegisterDone
<1>3. /\ adapters'[a] = [open |-> TRUE, endpoint |-> Fresh(task[w].config)]
      /\ \A b \in Adapters \ {a} : adapters'[b] = adapters[b]
  BY <1>1, <1>2 DEF Open, TypeOK
<1>4. adapters'[a] # Unbuilt /\ adapters'[a].open /\ adapters'[a].endpoint = Fresh(task[w].config)
  <2>1. adapters'[a] # Unbuilt
    BY <1>2, <1>3, BuiltAdapter
  <2>2. adapters'[a].open /\ adapters'[a].endpoint = Fresh(task[w].config)
    BY <1>3
  <2>3. QED
    BY <2>1, <2>2
<1>5. /\ store'[id] = [label |-> task[w].label, adapter |-> a,
                       parts |-> task[w].config.target, ssh |-> Fresh(task[w].config).bastion]
      /\ \A i \in Ids \ {id} : store'[i] = store[i]
  BY <1>1, <1>2 DEF Add, TypeOK
<1>6. task'[w] = idle /\ \A v \in Writers \ {w} : task'[v] = task[v]
  BY <1>1, <1>2 DEF Finish, TypeOK
<1>7. task[w].label \in Labels /\ task[w].config \in Config
  BY <1>2, TaskFields DEF RegisterDone
<1>8. store'[id] \in Record
  BY <1>2, <1>5, <1>7 DEF Record, Config, Endpoint
<1>9. task[w].stage = "creating"
  BY DEF RegisterDone
<1>10. QED
  BY <1>1, <1>3, <1>4, <1>5, <1>6, <1>8, <1>9, ConnectionsAssumption
     DEF Registered, Unused, IsOpen, Present

Rebuilt(w, a) ==
  LET old == task[w].record.adapter IN
  /\ task[w].stage = "rebuilding"
  /\ old \in Adapters /\ ~Unused(old) /\ Unused(a) /\ a # old
  /\ UNCHANGED <<store, seat, seats, issued, gone>>
  /\ adapters'[a] # Unbuilt /\ adapters'[a].open
  /\ adapters'[a].endpoint = Successor(adapters[old].endpoint, task[w].config)
  /\ adapters'[old] # Unbuilt /\ ~adapters'[old].open
  /\ adapters'[old].endpoint = adapters[old].endpoint
  /\ \A b \in Adapters \ {a, old} : adapters'[b] = adapters[b]
  /\ task'[w].stage = "replacing"
  /\ task'[w].id = task[w].id
  /\ task'[w].record = task[w].record
  /\ task'[w].label = task[w].label
  /\ task'[w].config = task[w].config
  /\ task'[w].next = a
  /\ \A v \in Writers \ {w} : task'[v] = task[v]

\* What the end of a rebuild does, before the old pool has closed.
LEMMA RebuiltEffect ==
  ASSUME AnyInv, NEW w \in Writers, EditBuilt(w)
  PROVE  \E a \in Adapters : Rebuilt(w, a)
<1> DEFINE old == task[w].record.adapter
           where == Successor(adapters[old].endpoint, task[w].config)
<1>1. TypeOK /\ task[w].stage = "rebuilding" /\ task[w] \in Rebuilding
  BY TaskFields DEF AnyInv, EditBuilt
<1>2. old \in Adapters /\ ~Unused(old)
  BY <1>1 DEF Rebuilding, Record, AnyInv, HeldAdapters, InHand, Holding
<1>3. PICK a \in Adapters :
        /\ Unused(a)
        /\ adapters' = Shut(Open(a, where), old)
        /\ Become(w, [stage |-> "replacing", id |-> task[w].id, record |-> task[w].record,
                      label |-> task[w].label, config |-> task[w].config, next |-> a])
  BY DEF EditBuilt
<1>4. a # old /\ adapters[old] \in Adapter /\ where \in Endpoint
  BY <1>1, <1>2, <1>3, AdapterFields, SuccessorType DEF Unused, Rebuilding
<1>5. /\ adapters'[a] = [open |-> TRUE, endpoint |-> where]
      /\ adapters'[old] = [open |-> FALSE, endpoint |-> adapters[old].endpoint]
      /\ \A b \in Adapters \ {a, old} : adapters'[b] = adapters[b]
  BY <1>1, <1>2, <1>3, <1>4 DEF Open, Shut, TypeOK, Adapter
<1>6. /\ task'[w] = [stage |-> "replacing", id |-> task[w].id, record |-> task[w].record,
                     label |-> task[w].label, config |-> task[w].config, next |-> a]
      /\ \A v \in Writers \ {w} : task'[v] = task[v]
  BY <1>1, <1>3 DEF Become, TypeOK
<1>7. adapters'[a] # Unbuilt /\ adapters'[old] # Unbuilt
  BY <1>1, <1>2, <1>4, <1>5, AdapterFields, BuiltAdapter
<1>8. /\ adapters'[a].open /\ ~adapters'[old].open
      /\ adapters'[a].endpoint = where
      /\ adapters'[old].endpoint = adapters[old].endpoint
  <2>1. adapters'[a].open /\ adapters'[a].endpoint = where
    BY <1>5
  <2>2. ~adapters'[old].open /\ adapters'[old].endpoint = adapters[old].endpoint
    BY <1>5
  <2>3. QED
    BY <2>1, <2>2
<1>9. UNCHANGED <<store, seat, seats, issued, gone>>
  BY DEF EditBuilt
<1>10. /\ task'[w].stage = "replacing"
       /\ task'[w].id = task[w].id
       /\ task'[w].record = task[w].record
       /\ task'[w].label = task[w].label
       /\ task'[w].config = task[w].config
       /\ task'[w].next = a
  BY <1>6
<1>11. Rebuilt(w, a)
  BY <1>1, <1>2, <1>3, <1>4, <1>5, <1>6, <1>7, <1>8, <1>9, <1>10 DEF Rebuilt
<1>12. QED
  BY <1>11

Committed(w) ==
  LET id == task[w].id IN
  /\ task[w].stage = "replacing" /\ id \in Ids
  /\ UNCHANGED <<adapters, issued, gone>>
  /\ store'[id] # Missing
  /\ store'[id].label = Relabelled(task[w].record.label, task[w].label)
  /\ store'[id].adapter = task[w].next
  /\ store'[id].parts = task[w].config.target
  /\ store'[id].ssh = adapters[task[w].next].endpoint.bastion
  /\ \A i \in Ids \ {id} : store'[i] = store[i]
  /\ task'[w] = idle
  /\ \A v \in Writers \ {w} : task'[v] = task[v]

\* What the upsert at the end of an edit does.
LEMMA CommitEffect ==
  ASSUME AnyInv, TypeOK', NEW w \in Writers, EditCommit(w)
  PROVE  Committed(w)
<1> DEFINE written == [label   |-> Relabelled(task[w].record.label, task[w].label),
                       adapter |-> task[w].next, parts |-> task[w].config.target,
                       ssh     |-> adapters[task[w].next].endpoint.bastion]
<1>1. TypeOK /\ task[w] \in Replacing /\ task[w].stage = "replacing"
  BY TaskFields DEF AnyInv, EditCommit
<1>2. task[w].id \in Ids /\ Add(task[w].id, written) /\ Finish(w)
  BY <1>1 DEF EditCommit, Replacing
<1>3. store'[task[w].id] = written /\ \A i \in Ids \ {task[w].id} : store'[i] = store[i]
  BY <1>1, <1>2 DEF Add, TypeOK
<1>4. task'[w] = idle /\ \A v \in Writers \ {w} : task'[v] = task[v]
  BY <1>1, <1>2 DEF Finish, TypeOK
<1>5. ~Unused(task[w].next)
  BY <1>1 DEF AnyInv, SuccessorsArePrivate, IsOpen, Unused
<1>6. adapters[task[w].next].endpoint \in Endpoint
  BY <1>1, <1>5, AdapterFields DEF Replacing
<1>7. written \in Record
  BY <1>1, <1>6 DEF Replacing, Record, Config, Endpoint, Relabelled
<1>8. store'[task[w].id] # Missing
  BY <1>3, <1>7, ConnectionsAssumption
<1>9. QED
  BY <1>1, <1>2, <1>3, <1>4, <1>8 DEF Committed, EditCommit

DeletionBegun(w, id) ==
  LET a == store[id].adapter IN
  /\ Present(id) /\ a \in Adapters /\ MayWrite(id)
  /\ UNCHANGED <<store, seat, seats, issued, gone>>
  /\ ~Unused(a) /\ adapters'[a] # Unbuilt /\ ~adapters'[a].open
  /\ adapters'[a].endpoint = adapters[a].endpoint
  /\ \A b \in Adapters \ {a} : adapters'[b] = adapters[b]
  /\ task[w].stage = "idle"
  /\ task'[w].stage = "deleting"
  /\ task'[w].id = id
  /\ task'[w].record = store[id]
  /\ \A v \in Writers \ {w} : task'[v] = task[v]

\* What the two stretches of a deletion do.
LEMMA DeletionEffect ==
  ASSUME AnyInv, NEW w \in Writers, NEW id \in Ids, DeleteBegin(w, id)
  PROVE  DeletionBegun(w, id)
<1> DEFINE a == store[id].adapter
<1>1. TypeOK /\ Present(id) /\ a \in Adapters /\ ~Unused(a)
  BY StoreFields DEF AnyInv, DeleteBegin, DescribesWhatItServes, Unused
<1>2. adapters[a] \in Adapter /\ adapters[a].endpoint \in Endpoint
  BY <1>1, AdapterFields
<1>3. /\ adapters'[a] = [open |-> FALSE, endpoint |-> adapters[a].endpoint]
      /\ \A b \in Adapters \ {a} : adapters'[b] = adapters[b]
  BY <1>1, <1>2 DEF DeleteBegin, Shut, TypeOK, Adapter
<1>4. adapters'[a] # Unbuilt
  BY <1>2, <1>3, BuiltAdapter
<1>5. /\ task'[w] = [stage |-> "deleting", id |-> id, record |-> store[id]]
      /\ \A v \in Writers \ {w} : task'[v] = task[v]
  BY <1>1 DEF DeleteBegin, Become, TypeOK
<1>6. QED
  BY <1>1, <1>3, <1>4, <1>5 DEF DeleteBegin, DeletionBegun, Unused

\* No id but an issued one is ever in play.
LEMMA IdsStep == AnyInv /\ [Next]_vars => IdsAreIssued'
<1> SUFFICES ASSUME AnyInv, [Next]_vars PROVE IdsAreIssued'
  OBVIOUS
<1>t. TypeOK /\ TypeOK'
  BY TypeStep DEF AnyInv
<1>h. /\ \A w \in Writers : InHand(w) => task[w].id \in Ids /\ task[w].record.adapter \in Adapters
      /\ \A w \in Writers : task[w].stage = "replacing" => task[w].next \in Adapters
      /\ \A id \in Ids : Present(id) => store[id].adapter \in Adapters
  BY <1>t, HeldFields
<1> USE DEF IdsAreIssued, Present, InHand, Holding, idle, TypeOK
<1>1. CASE UNCHANGED vars
  BY <1>1 DEF vars, AnyInv
<1>2. ASSUME NEW w \in Writers, RegisterBegin(w) PROVE IdsAreIssued'
  BY <1>2, <1>t, <1>h DEF AnyInv, RegisterBegin, Become
<1>3. ASSUME NEW w \in Writers, RegisterRefused(w) PROVE IdsAreIssued'
  BY <1>3, <1>t, <1>h DEF AnyInv, RegisterRefused, Finish
<1>4. ASSUME NEW w \in Writers, RegisterDone(w) PROVE IdsAreIssued'
  BY <1>4, <1>t, <1>h DEF AnyInv, RegisterDone, Finish, Add, Open
<1>5. ASSUME NEW id \in Ids, Rename(id) PROVE IdsAreIssued'
  BY <1>5, <1>t, <1>h DEF AnyInv, Rename, Add
<1>6. ASSUME NEW w \in Writers, NEW id \in Ids, EditBegin(w, id) PROVE IdsAreIssued'
  BY <1>6, <1>t, <1>h DEF AnyInv, EditBegin, Become
<1>7. ASSUME NEW w \in Writers, EditRefused(w) PROVE IdsAreIssued'
  BY <1>7, <1>t, <1>h DEF AnyInv, EditRefused, Finish
<1>8. ASSUME NEW w \in Writers, EditBuilt(w) PROVE IdsAreIssued'
  <2>1. PICK a \in Adapters : Rebuilt(w, a)
    BY <1>8, RebuiltEffect
  <2>2. QED
    BY <1>h, <2>1 DEF AnyInv, Rebuilt
<1>9. ASSUME NEW w \in Writers, EditCommit(w) PROVE IdsAreIssued'
  <2>1. Committed(w)
    BY <1>9, <1>t, CommitEffect
  <2>2. QED
    BY <1>h, <2>1 DEF AnyInv, Committed
<1>10. ASSUME NEW w \in Writers, NEW id \in Ids, DeleteBegin(w, id) PROVE IdsAreIssued'
  <2>1. DeletionBegun(w, id)
    BY <1>10, DeletionEffect
  <2>2. QED
    BY <1>h, <2>1 DEF AnyInv, DeletionBegun
<1>11. ASSUME NEW w \in Writers, DeleteDone(w) PROVE IdsAreIssued'
  BY <1>11, <1>t, <1>h DEF AnyInv, DeleteDone, Evict, Finish
<1>12. ASSUME NEW id \in Ids, DeleteMissing(id) PROVE IdsAreIssued'
  BY <1>12, <1>t, <1>h DEF AnyInv, DeleteMissing
<1>13. QED
  BY <1>1, <1>2, <1>3, <1>4, <1>5, <1>6, <1>7, <1>8, <1>9, <1>10, <1>11, <1>12 DEF Next

\* Adapters stay owned: a fresh one is nobody's, and an edit's successor has only
\* been seen by that edit.
LEMMA OwnedStep == AnyInv /\ [Next]_vars => AdaptersAreOwned'
<1> SUFFICES ASSUME AnyInv, [Next]_vars PROVE AdaptersAreOwned'
  OBVIOUS
<1>t. TypeOK /\ TypeOK'
  BY TypeStep DEF AnyInv
<1>h. /\ \A w \in Writers : InHand(w) => task[w].id \in Ids /\ task[w].record.adapter \in Adapters
      /\ \A w \in Writers : task[w].stage = "replacing" => task[w].next \in Adapters
      /\ \A id \in Ids : Present(id) => store[id].adapter \in Adapters
  BY <1>t, HeldFields
<1> USE DEF Present, InHand, Holding, idle, TypeOK, AdaptersAreOwned, HeldAdapters, SuccessorsArePrivate, DescribesWhatItServes, IdsAreIssued, Unused
<1>1. CASE UNCHANGED vars
  BY <1>1 DEF vars, AnyInv
<1>2. ASSUME NEW w \in Writers, RegisterBegin(w) PROVE AdaptersAreOwned'
  BY <1>2, <1>t, <1>h DEF AnyInv, RegisterBegin, Become
<1>3. ASSUME NEW w \in Writers, RegisterRefused(w) PROVE AdaptersAreOwned'
  BY <1>3, <1>t, <1>h DEF AnyInv, RegisterRefused, Finish
<1>4. ASSUME NEW w \in Writers, RegisterDone(w) PROVE AdaptersAreOwned'
  <2>1. PICK a \in Adapters, id \in Ids : Registered(w, a, id)
    BY <1>4, <1>t, RegisterEffect
  <2>2. QED
    BY <1>h, <2>1 DEF AnyInv, Registered
<1>5. ASSUME NEW id \in Ids, Rename(id) PROVE AdaptersAreOwned'
  BY <1>5, <1>t, <1>h DEF AnyInv, Rename, Add
<1>6. ASSUME NEW w \in Writers, NEW id \in Ids, EditBegin(w, id) PROVE AdaptersAreOwned'
  BY <1>6, <1>t, <1>h DEF AnyInv, EditBegin, Become
<1>7. ASSUME NEW w \in Writers, EditRefused(w) PROVE AdaptersAreOwned'
  BY <1>7, <1>t, <1>h DEF AnyInv, EditRefused, Finish
<1>8. ASSUME NEW w \in Writers, EditBuilt(w) PROVE AdaptersAreOwned'
  <2>1. PICK a \in Adapters : Rebuilt(w, a)
    BY <1>8, RebuiltEffect
  <2>2. QED
    BY <1>h, <2>1 DEF AnyInv, Rebuilt
<1>9. ASSUME NEW w \in Writers, EditCommit(w) PROVE AdaptersAreOwned'
  <2>1. Committed(w)
    BY <1>9, <1>t, CommitEffect
  <2>2. QED
    BY <1>h, <2>1 DEF AnyInv, Committed
<1>10. ASSUME NEW w \in Writers, NEW id \in Ids, DeleteBegin(w, id) PROVE AdaptersAreOwned'
  <2>1. DeletionBegun(w, id)
    BY <1>10, DeletionEffect
  <2>2. QED
    BY <1>h, <2>1 DEF AnyInv, DeletionBegun
<1>11. ASSUME NEW w \in Writers, DeleteDone(w) PROVE AdaptersAreOwned'
  BY <1>11, <1>t, <1>h DEF AnyInv, DeleteDone, Evict, Finish
<1>12. ASSUME NEW id \in Ids, DeleteMissing(id) PROVE AdaptersAreOwned'
  BY <1>12, <1>t, <1>h DEF AnyInv, DeleteMissing
<1>13. QED
  BY <1>1, <1>2, <1>3, <1>4, <1>5, <1>6, <1>7, <1>8, <1>9, <1>10, <1>11, <1>12 DEF Next

\* What a request holds stays built, and stays closed once it has been closed.
LEMMA HeldStep == AnyInv /\ [Next]_vars => HeldAdapters'
<1> SUFFICES ASSUME AnyInv, [Next]_vars PROVE HeldAdapters'
  OBVIOUS
<1>t. TypeOK /\ TypeOK'
  BY TypeStep DEF AnyInv
<1>h. /\ \A w \in Writers : InHand(w) => task[w].id \in Ids /\ task[w].record.adapter \in Adapters
      /\ \A w \in Writers : task[w].stage = "replacing" => task[w].next \in Adapters
      /\ \A id \in Ids : Present(id) => store[id].adapter \in Adapters
  BY <1>t, HeldFields
<1> USE DEF Present, InHand, Holding, idle, TypeOK, HeldAdapters, DescribesWhatItServes, Unused, IsClosed
<1>1. CASE UNCHANGED vars
  BY <1>1 DEF vars, AnyInv
<1>2. ASSUME NEW w \in Writers, RegisterBegin(w) PROVE HeldAdapters'
  BY <1>2, <1>t, <1>h DEF AnyInv, RegisterBegin, Become
<1>3. ASSUME NEW w \in Writers, RegisterRefused(w) PROVE HeldAdapters'
  BY <1>3, <1>t, <1>h DEF AnyInv, RegisterRefused, Finish
<1>4. ASSUME NEW w \in Writers, RegisterDone(w) PROVE HeldAdapters'
  <2>1. PICK a \in Adapters, id \in Ids : Registered(w, a, id)
    BY <1>4, <1>t, RegisterEffect
  <2>2. QED
    BY <1>h, <2>1 DEF AnyInv, Registered
<1>5. ASSUME NEW id \in Ids, Rename(id) PROVE HeldAdapters'
  BY <1>5, <1>t, <1>h DEF AnyInv, Rename, Add
<1>6. ASSUME NEW w \in Writers, NEW id \in Ids, EditBegin(w, id) PROVE HeldAdapters'
  BY <1>6, <1>t, <1>h DEF AnyInv, EditBegin, Become
<1>7. ASSUME NEW w \in Writers, EditRefused(w) PROVE HeldAdapters'
  BY <1>7, <1>t, <1>h DEF AnyInv, EditRefused, Finish
<1>8. ASSUME NEW w \in Writers, EditBuilt(w) PROVE HeldAdapters'
  <2>1. PICK a \in Adapters : Rebuilt(w, a)
    BY <1>8, RebuiltEffect
  <2>2. QED
    BY <1>h, <2>1 DEF AnyInv, Rebuilt
<1>9. ASSUME NEW w \in Writers, EditCommit(w) PROVE HeldAdapters'
  <2>1. Committed(w)
    BY <1>9, <1>t, CommitEffect
  <2>2. QED
    BY <1>h, <2>1 DEF AnyInv, Committed
<1>10. ASSUME NEW w \in Writers, NEW id \in Ids, DeleteBegin(w, id) PROVE HeldAdapters'
  <2>1. DeletionBegun(w, id)
    BY <1>10, DeletionEffect
  <2>2. QED
    BY <1>h, <2>1 DEF AnyInv, DeletionBegun
<1>11. ASSUME NEW w \in Writers, DeleteDone(w) PROVE HeldAdapters'
  BY <1>11, <1>t, <1>h DEF AnyInv, DeleteDone, Evict, Finish
<1>12. ASSUME NEW id \in Ids, DeleteMissing(id) PROVE HeldAdapters'
  BY <1>12, <1>t, <1>h DEF AnyInv, DeleteMissing
<1>13. QED
  BY <1>1, <1>2, <1>3, <1>4, <1>5, <1>6, <1>7, <1>8, <1>9, <1>10, <1>11, <1>12 DEF Next

\* Nobody but the edit that built a successor can close it or serve through it.
LEMMA PrivateStep == AnyInv /\ [Next]_vars => SuccessorsArePrivate'
<1> SUFFICES ASSUME AnyInv, [Next]_vars PROVE SuccessorsArePrivate'
  OBVIOUS
<1>t. TypeOK /\ TypeOK'
  BY TypeStep DEF AnyInv
<1>h. /\ \A w \in Writers : InHand(w) => task[w].id \in Ids /\ task[w].record.adapter \in Adapters
      /\ \A w \in Writers : task[w].stage = "replacing" => task[w].next \in Adapters
      /\ \A id \in Ids : Present(id) => store[id].adapter \in Adapters
  BY <1>t, HeldFields
<1> USE DEF Present, InHand, Holding, idle, TypeOK, AdaptersAreOwned, HeldAdapters, SuccessorsArePrivate, DescribesWhatItServes, Unused, IsOpen
<1>1. CASE UNCHANGED vars
  BY <1>1 DEF vars, AnyInv
<1>2. ASSUME NEW w \in Writers, RegisterBegin(w) PROVE SuccessorsArePrivate'
  BY <1>2, <1>t, <1>h DEF AnyInv, RegisterBegin, Become
<1>3. ASSUME NEW w \in Writers, RegisterRefused(w) PROVE SuccessorsArePrivate'
  BY <1>3, <1>t, <1>h DEF AnyInv, RegisterRefused, Finish
<1>4. ASSUME NEW w \in Writers, RegisterDone(w) PROVE SuccessorsArePrivate'
  <2>1. PICK a \in Adapters, id \in Ids : Registered(w, a, id)
    BY <1>4, <1>t, RegisterEffect
  <2>2. QED
    BY <1>h, <2>1 DEF AnyInv, Registered, Successor
<1>5. ASSUME NEW id \in Ids, Rename(id) PROVE SuccessorsArePrivate'
  BY <1>5, <1>t, <1>h DEF AnyInv, Rename, Add
<1>6. ASSUME NEW w \in Writers, NEW id \in Ids, EditBegin(w, id) PROVE SuccessorsArePrivate'
  BY <1>6, <1>t, <1>h DEF AnyInv, EditBegin, Become
<1>7. ASSUME NEW w \in Writers, EditRefused(w) PROVE SuccessorsArePrivate'
  BY <1>7, <1>t, <1>h DEF AnyInv, EditRefused, Finish
<1>8. ASSUME NEW w \in Writers, EditBuilt(w) PROVE SuccessorsArePrivate'
  <2>1. PICK a \in Adapters : Rebuilt(w, a)
    BY <1>8, RebuiltEffect
  <2>2. QED
    <3>1. /\ IsOpen(a)' /\ adapters'[a].endpoint.target = task'[w].config.target
          /\ task'[w].next = a
      BY <2>1 DEF Rebuilt, Successor
    <3>2. /\ \A id \in Ids : Present(id) => store[id].adapter # a
          /\ \A v \in Writers : InHand(v) => task[v].record.adapter # a
          /\ \A v \in Writers : task[v].stage = "replacing" => task[v].next # a
      BY <1>h, <2>1 DEF AnyInv, Rebuilt
    <3>3. /\ store' = store /\ InHand(w)
          /\ \A v \in Writers : InHand(v)' <=> InHand(v)
          /\ \A v \in Writers : task'[v].record = task[v].record
          /\ \A v \in Writers \ {w} : task'[v] = task[v]
      BY <2>1 DEF Rebuilt
    <3>4. \A v \in Writers \ {w} : task[v].stage = "replacing" =>
            task[v].next # task[w].record.adapter /\ adapters'[task[v].next] = adapters[task[v].next]
      <4>1. \A v \in Writers : task[v].stage = "replacing" =>
              task[v].next \in Adapters /\ task[v].next # task[w].record.adapter
        BY <1>h, <3>3 DEF AnyInv
      <4>2. QED
        BY <2>1, <3>2, <4>1 DEF Rebuilt
    <3> SUFFICES ASSUME NEW v \in Writers, task'[v].stage = "replacing"
                 PROVE  /\ IsOpen(task[v].next)'
                        /\ adapters'[task'[v].next].endpoint.target = task'[v].config.target
                        /\ \A id \in Ids : Present(id)' => store'[id].adapter # task'[v].next
                        /\ \A u \in Writers : InHand(u)' => task'[u].record.adapter # task'[v].next
                        /\ \A u \in Writers :
                             (task'[u].stage = "replacing" /\ task'[u].next = task'[v].next) => u = v
      BY DEF SuccessorsArePrivate
    <3>5. CASE v = w
      BY <3>1, <3>2, <3>3, <3>5
    <3>6. CASE v # w
      BY <3>1, <3>2, <3>3, <3>4, <3>6 DEF AnyInv
    <3>7. QED
      BY <3>5, <3>6
<1>9. ASSUME NEW w \in Writers, EditCommit(w) PROVE SuccessorsArePrivate'
  <2>1. Committed(w)
    BY <1>9, <1>t, CommitEffect
  <2>2. QED
    BY <1>h, <2>1 DEF AnyInv, Committed, Successor
<1>10. ASSUME NEW w \in Writers, NEW id \in Ids, DeleteBegin(w, id) PROVE SuccessorsArePrivate'
  <2>1. DeletionBegun(w, id)
    BY <1>10, DeletionEffect
  <2>2. QED
    BY <1>h, <2>1 DEF AnyInv, DeletionBegun, Successor
<1>11. ASSUME NEW w \in Writers, DeleteDone(w) PROVE SuccessorsArePrivate'
  BY <1>11, <1>t, <1>h DEF AnyInv, DeleteDone, Evict, Finish
<1>12. ASSUME NEW id \in Ids, DeleteMissing(id) PROVE SuccessorsArePrivate'
  BY <1>12, <1>t, <1>h DEF AnyInv, DeleteMissing
<1>13. QED
  BY <1>1, <1>2, <1>3, <1>4, <1>5, <1>6, <1>7, <1>8, <1>9, <1>10, <1>11, <1>12 DEF Next

\* Endpoints never change after an adapter is built, and what is written describes
\* the adapter written with it.
LEMMA DescribesStep == AnyInv /\ [Next]_vars => DescribesWhatItServes'
<1> SUFFICES ASSUME AnyInv, [Next]_vars PROVE DescribesWhatItServes'
  OBVIOUS
<1>t. TypeOK /\ TypeOK'
  BY TypeStep DEF AnyInv
<1>h. /\ \A w \in Writers : InHand(w) => task[w].id \in Ids /\ task[w].record.adapter \in Adapters
      /\ \A w \in Writers : task[w].stage = "replacing" => task[w].next \in Adapters
      /\ \A id \in Ids : Present(id) => store[id].adapter \in Adapters
  BY <1>t, HeldFields
<1> USE DEF Present, InHand, Holding, idle, TypeOK, SuccessorsArePrivate, DescribesWhatItServes, Unused
<1>1. CASE UNCHANGED vars
  BY <1>1 DEF vars, AnyInv
<1>2. ASSUME NEW w \in Writers, RegisterBegin(w) PROVE DescribesWhatItServes'
  BY <1>2, <1>t, <1>h DEF AnyInv, RegisterBegin, Become
<1>3. ASSUME NEW w \in Writers, RegisterRefused(w) PROVE DescribesWhatItServes'
  BY <1>3, <1>t, <1>h DEF AnyInv, RegisterRefused, Finish
<1>4. ASSUME NEW w \in Writers, RegisterDone(w) PROVE DescribesWhatItServes'
  <2>1. PICK a \in Adapters, id \in Ids : Registered(w, a, id)
    BY <1>4, <1>t, RegisterEffect
  <2>2. QED
    BY <1>h, <2>1 DEF AnyInv, Registered, Fresh
<1>5. ASSUME NEW id \in Ids, Rename(id) PROVE DescribesWhatItServes'
  BY <1>5, <1>t, <1>h DEF AnyInv, Rename, Add
<1>6. ASSUME NEW w \in Writers, NEW id \in Ids, EditBegin(w, id) PROVE DescribesWhatItServes'
  BY <1>6, <1>t, <1>h DEF AnyInv, EditBegin, Become
<1>7. ASSUME NEW w \in Writers, EditRefused(w) PROVE DescribesWhatItServes'
  BY <1>7, <1>t, <1>h DEF AnyInv, EditRefused, Finish
<1>8. ASSUME NEW w \in Writers, EditBuilt(w) PROVE DescribesWhatItServes'
  <2>1. PICK a \in Adapters : Rebuilt(w, a)
    BY <1>8, RebuiltEffect
  <2>2. \A b \in Adapters : adapters[b] # Unbuilt =>
          adapters'[b] # Unbuilt /\ adapters'[b].endpoint = adapters[b].endpoint
    BY <2>1 DEF Rebuilt
  <2>3. QED
    BY <1>h, <2>1, <2>2 DEF AnyInv, Rebuilt
<1>9. ASSUME NEW w \in Writers, EditCommit(w) PROVE DescribesWhatItServes'
  <2>1. Committed(w)
    BY <1>9, <1>t, CommitEffect
  <2>2. QED
    BY <1>h, <2>1 DEF AnyInv, Committed, IsOpen
<1>10. ASSUME NEW w \in Writers, NEW id \in Ids, DeleteBegin(w, id) PROVE DescribesWhatItServes'
  <2>1. DeletionBegun(w, id)
    BY <1>10, DeletionEffect
  <2>2. QED
    BY <1>h, <2>1 DEF AnyInv, DeletionBegun
<1>11. ASSUME NEW w \in Writers, DeleteDone(w) PROVE DescribesWhatItServes'
  BY <1>11, <1>t, <1>h DEF AnyInv, DeleteDone, Evict, Finish
<1>12. ASSUME NEW id \in Ids, DeleteMissing(id) PROVE DescribesWhatItServes'
  BY <1>12, <1>t, <1>h DEF AnyInv, DeleteMissing
<1>13. QED
  BY <1>1, <1>2, <1>3, <1>4, <1>5, <1>6, <1>7, <1>8, <1>9, <1>10, <1>11, <1>12 DEF Next

\* Whoever closes an adapter goes on to replace or evict the record it serves.
LEMMA DeadStep == AnyInv /\ [Next]_vars => DeadIsBeingReplaced'
<1> SUFFICES ASSUME AnyInv, [Next]_vars PROVE DeadIsBeingReplaced'
  OBVIOUS
<1>t. TypeOK /\ TypeOK'
  BY TypeStep DEF AnyInv
<1>h. /\ \A w \in Writers : InHand(w) => task[w].id \in Ids /\ task[w].record.adapter \in Adapters
      /\ \A w \in Writers : task[w].stage = "replacing" => task[w].next \in Adapters
      /\ \A id \in Ids : Present(id) => store[id].adapter \in Adapters
  BY <1>t, HeldFields
<1> USE DEF Present, InHand, Holding, idle, TypeOK, AdaptersAreOwned, HeldAdapters, SuccessorsArePrivate, DescribesWhatItServes,DeadIsBeingReplaced,IdsAreIssued, Unused, IsOpen, IsClosed
<1>1. CASE UNCHANGED vars
  BY <1>1 DEF vars, AnyInv
<1>2. ASSUME NEW w \in Writers, RegisterBegin(w) PROVE DeadIsBeingReplaced'
  BY <1>2, <1>t, <1>h DEF AnyInv, RegisterBegin, Become
<1>3. ASSUME NEW w \in Writers, RegisterRefused(w) PROVE DeadIsBeingReplaced'
  BY <1>3, <1>t, <1>h DEF AnyInv, RegisterRefused, Finish
<1>4. ASSUME NEW w \in Writers, RegisterDone(w) PROVE DeadIsBeingReplaced'
  <2>1. PICK a \in Adapters, id \in Ids : Registered(w, a, id)
    BY <1>4, <1>t, RegisterEffect
  <2>2. QED
    BY <1>h, <2>1 DEF AnyInv, Registered
<1>5. ASSUME NEW id \in Ids, Rename(id) PROVE DeadIsBeingReplaced'
  BY <1>5, <1>t, <1>h DEF AnyInv, Rename, Add
<1>6. ASSUME NEW w \in Writers, NEW id \in Ids, EditBegin(w, id) PROVE DeadIsBeingReplaced'
  BY <1>6, <1>t, <1>h DEF AnyInv, EditBegin, Become
<1>7. ASSUME NEW w \in Writers, EditRefused(w) PROVE DeadIsBeingReplaced'
  BY <1>7, <1>t, <1>h DEF AnyInv, EditRefused, Finish
<1>8. ASSUME NEW w \in Writers, EditBuilt(w) PROVE DeadIsBeingReplaced'
  <2>1. PICK a \in Adapters : Rebuilt(w, a)
    BY <1>8, RebuiltEffect
  <2>2. \A b \in Adapters \ {task[w].record.adapter} :
          adapters[b] # Unbuilt => adapters'[b] = adapters[b]
    BY <2>1 DEF Rebuilt
  <2>3. SUFFICES ASSUME NEW id \in Ids, Present(id)', IsClosed(store[id].adapter)'
                 PROVE  \E v \in Writers : /\ task'[v].stage \in {"replacing", "deleting"}
                                           /\ task'[v].id = id
                                           /\ task'[v].record.adapter = store'[id].adapter
    OBVIOUS
  <2>4. Present(id) /\ store'[id] = store[id] /\ store[id].adapter \in Adapters
    BY <1>h, <2>1, <2>3 DEF Rebuilt
  <2>5. CASE store[id].adapter = task[w].record.adapter
    <3>1. task[w].id = id
      BY <2>1, <2>4, <2>5, SMTT(30) DEF AnyInv, Rebuilt
    <3>2. QED
      BY <2>1, <2>4, <2>5, <3>1 DEF Rebuilt
  <2>6. CASE store[id].adapter # task[w].record.adapter
    <3>1. IsClosed(store[id].adapter)
      BY <2>1, <2>2, <2>3, <2>4, <2>6 DEF AnyInv
    <3>2. PICK v \in Writers : /\ task[v].stage \in {"replacing", "deleting"}
                               /\ task[v].id = id
                               /\ task[v].record.adapter = store[id].adapter
      BY <2>4, <3>1 DEF AnyInv
    <3>3. v # w
      BY <2>1, <3>2 DEF Rebuilt
    <3>4. QED
      BY <2>1, <2>4, <3>2, <3>3 DEF Rebuilt
  <2>7. QED
    BY <2>5, <2>6
<1>9. ASSUME NEW w \in Writers, EditCommit(w) PROVE DeadIsBeingReplaced'
  <2>1. Committed(w)
    BY <1>9, <1>t, CommitEffect
  <2>2. QED
    BY <1>h, <2>1 DEF AnyInv, Committed
<1>10. ASSUME NEW w \in Writers, NEW id \in Ids, DeleteBegin(w, id) PROVE DeadIsBeingReplaced'
  <2>1. DeletionBegun(w, id)
    BY <1>10, DeletionEffect
  <2>2. QED
    BY <1>h, <2>1 DEF AnyInv, DeletionBegun
<1>11. ASSUME NEW w \in Writers, DeleteDone(w) PROVE DeadIsBeingReplaced'
  BY <1>11, <1>t, <1>h DEF AnyInv, DeleteDone, Evict, Finish
<1>12. ASSUME NEW id \in Ids, DeleteMissing(id) PROVE DeadIsBeingReplaced'
  BY <1>12, <1>t, <1>h DEF AnyInv, DeleteMissing
<1>13. QED
  BY <1>1, <1>2, <1>3, <1>4, <1>5, <1>6, <1>7, <1>8, <1>9, <1>10, <1>11, <1>12 DEF Next

\* Every step preserves the inductive invariant, part by part.
LEMMA AnyStep == AnyInv /\ [Next]_vars => AnyInv'
  BY TypeStep, IdsStep, OwnedStep, HeldStep, PrivateStep, DescribesStep, DeadStep DEF AnyInv

\* However requests interleave, the inductive invariant holds.
THEOREM AnyInvariant == Spec => []AnyInv
  BY InitAny, AnyStep, PTL DEF Spec

\* Every variable keeps its type (Connections, all actions).
THEOREM TypeCorrect == Spec => []TypeOK
<1>1. AnyInv => TypeOK
  BY DEF AnyInv
<1>2. QED
  BY AnyInvariant, <1>1, PTL

\* The registry always describes the adapter it serves through, whatever edits,
\* renames and deletions overlap (UpdateConnection.execute, RegisterConnection.execute).
THEOREM DescriptionTheorem == Spec => []DescribesWhatItServes
<1>1. AnyInv => DescribesWhatItServes
  BY DEF AnyInv
<1>2. QED
  BY AnyInvariant, <1>1, PTL

\* A record with a closed pool always has the request that closed it still in
\* flight behind it (UpdateConnection.execute, DeleteConnection.execute).
THEOREM DeadConnectionTheorem == Spec => []DeadIsBeingReplaced
<1>1. AnyInv => DeadIsBeingReplaced
  BY DEF AnyInv
<1>2. QED
  BY AnyInvariant, <1>1, PTL

\* The list order of connections that stay registered never changes (the registry's add).
THEOREM PositionTheorem == Spec => EditKeepsPosition
<1> DEFINE P == \A i, j \in Ids : (Present(i) /\ Present(j) /\ Present(i)' /\ Present(j)') =>
                  (seat[i] < seat[j] <=> seat'[i] < seat'[j])
<1>1. AnyInv /\ [Next]_vars => [P]_vars
  <2> SUFFICES ASSUME AnyInv, Next PROVE P
    BY DEF vars
  <2>1. \A i \in Ids : Present(i) => seat'[i] = seat[i]
    <3>1. ASSUME NEW w \in Writers, RegisterDone(w) PROVE \A i \in Ids : Present(i) => seat'[i] = seat[i]
      BY <3>1 DEF RegisterDone, Add, AnyInv, TypeOK, IdsAreIssued
    <3>2. ASSUME NEW id \in Ids, Rename(id) PROVE seat' = seat
      BY <3>2 DEF Rename, Add
    <3>3. ASSUME NEW w \in Writers, EditCommit(w) PROVE \A i \in Ids : Present(i) => seat'[i] = seat[i]
      BY <3>3 DEF EditCommit, Add, AnyInv, TypeOK
    <3>4. ASSUME NEW w \in Writers, NEW id \in Ids, EditBegin(w, id) \/ DeleteBegin(w, id)
          PROVE  seat' = seat
      BY <3>4 DEF EditBegin, DeleteBegin
    <3>5. ASSUME NEW w \in Writers,
                 \/ RegisterBegin(w) \/ RegisterRefused(w) \/ EditRefused(w) \/ EditBuilt(w)
                 \/ DeleteDone(w)
          PROVE  seat' = seat
      BY <3>5 DEF RegisterBegin, RegisterRefused, EditRefused, EditBuilt, DeleteDone, Evict
    <3>6. ASSUME NEW id \in Ids, DeleteMissing(id) PROVE seat' = seat
      BY <3>6 DEF DeleteMissing
    <3>7. QED
      BY <3>1, <3>2, <3>3, <3>4, <3>5, <3>6 DEF Next
  <2>2. QED
    BY <2>1
<1>2. QED
  BY AnyInvariant, <1>1, PTL DEF Spec, EditKeepsPosition

-----------------------------------------------------------------------------
(***************************************************************************)
(* When writes to one connection do not overlap: the invariant SerialInv,  *)
(* what an edit keeps, and that the handlers with their awaits implement   *)
(* AtomicConnections.                                                      *)
(***************************************************************************)

(***************************************************************************)
(* What a step of one handler leaves to the others.                        *)
(***************************************************************************)
\* A request that begins or is refused changes nothing but its own task.
LEMMA QuietStep ==
  ASSUME TypeOK, NEW w \in Writers,
         RegisterBegin(w) \/ RegisterRefused(w) \/ EditRefused(w)
  PROVE  /\ UNCHANGED <<store, seat, seats, issued, adapters, gone>>
         /\ ~InHand(w)'
         /\ task[w].stage # "replacing" /\ task'[w].stage # "replacing"
         /\ \A v \in Writers \ {w} : task'[v] = task[v]
  BY DEF TypeOK, RegisterBegin, RegisterRefused, EditRefused, Become, Finish, InHand, Holding, idle

\* An edit that begins takes hold of the record as it is stored.
LEMMA BeginEffect ==
  ASSUME TypeOK, NEW w \in Writers, NEW id \in Ids, EditBegin(w, id)
  PROVE  /\ UNCHANGED <<store, seat, seats, issued, adapters, gone>>
         /\ Present(id) /\ MayWrite(id)
         /\ task[w].stage = "idle"
         /\ task'[w].stage = "rebuilding"
         /\ task'[w].id = id
         /\ task'[w].record = store[id]
         /\ \A v \in Writers \ {w} : task'[v] = task[v]
  BY DEF TypeOK, EditBegin, Become

\* A rename changes one record, and only its label.
LEMMA RenameEffect ==
  ASSUME TypeOK, NEW id \in Ids, Rename(id)
  PROVE  /\ UNCHANGED <<seat, seats, issued, adapters, task, gone>>
         /\ Present(id) /\ MayWrite(id)
         /\ Present(id)'
         /\ \E label \in Labels : store' = [store EXCEPT ![id].label = label]
         /\ store'[id].adapter = store[id].adapter
         /\ \A i \in Ids \ {id} : store'[i] = store[i]
<1>1. PICK label \in Labels : Add(id, [store[id] EXCEPT !.label = label])
  BY DEF Rename
<1>2. store[id] \in Record /\ Present(id)
  BY StoreFields DEF Rename
<1>3. [store[id] EXCEPT !.label = label] \in Record
  BY <1>2 DEF Record
<1>4. store' = [store EXCEPT ![id] = [store[id] EXCEPT !.label = label]]
  BY <1>1 DEF Add
<1>5. store'[id] = [store[id] EXCEPT !.label = label] /\ \A i \in Ids \ {id} : store'[i] = store[i]
  BY <1>4 DEF TypeOK
<1>6. store'[id].adapter = store[id].adapter /\ Present(id)'
  BY <1>2, <1>3, <1>5, ConnectionsAssumption DEF Record, Present
<1>7. QED
  BY <1>1, <1>2, <1>4, <1>5, <1>6 DEF Rename, Add

\* The end of a deletion takes the record away.
LEMMA EvictEffect ==
  ASSUME TypeOK, NEW w \in Writers, DeleteDone(w)
  PROVE  /\ UNCHANGED <<seat, seats, issued, adapters>>
         /\ task[w].stage = "deleting" /\ task[w].id \in Ids
         /\ store'[task[w].id] = Missing
         /\ \A i \in Ids \ {task[w].id} : store'[i] = store[i]
         /\ gone' = gone \cup {task[w].id}
         /\ task'[w] = idle
         /\ \A v \in Writers \ {w} : task'[v] = task[v]
<1>1. task[w].id \in Ids
  BY TaskFields DEF DeleteDone, Deleting
<1>2. QED
  BY <1>1 DEF TypeOK, DeleteDone, Evict, Finish

(***************************************************************************)
(* SerialInv is inductive, part by part.                                   *)
(***************************************************************************)
\* Only the request that holds a record writes it, so what it read stays current.
LEMMA CurrentStep == ASSUME Serialised, AnyInv, SerialInv, [Next]_vars PROVE HeldIsCurrent'
<1>t. TypeOK /\ TypeOK'
  BY TypeStep DEF AnyInv
<1>g. gone \subseteq Ids
  BY <1>t DEF TypeOK
<1>h. /\ \A w \in Writers : InHand(w) => task[w].id \in Ids /\ task[w].record.adapter \in Adapters
      /\ \A w \in Writers : task[w].stage = "replacing" => task[w].next \in Adapters
      /\ \A id \in Ids : Present(id) => store[id].adapter \in Adapters
  BY <1>t, HeldFields
<1> USE DEF HeldIsCurrent, SerialInv, Present, InHand, Holding, idle
<1>1. CASE UNCHANGED vars
  BY <1>1 DEF vars
<1>2. ASSUME NEW w \in Writers, RegisterBegin(w) \/ RegisterRefused(w) \/ EditRefused(w)
      PROVE  HeldIsCurrent'
  BY <1>2, <1>t, <1>h, QuietStep
<1>3. ASSUME NEW w \in Writers, RegisterDone(w) PROVE HeldIsCurrent'
  <2>1. PICK a \in Adapters, id \in Ids : Registered(w, a, id)
    BY <1>3, <1>t, RegisterEffect
  <2>2. gone' = gone
    BY <1>3 DEF RegisterDone
  <2>3. QED
    BY <1>h, <1>g, <2>1, <2>2 DEF AnyInv, IdsAreIssued, HeldAdapters, SuccessorsArePrivate, Registered
<1>4. ASSUME NEW id \in Ids, Rename(id) PROVE HeldIsCurrent'
  BY <1>4, <1>t, <1>h, RenameEffect DEF MayWrite, Holds
<1>5. ASSUME NEW w \in Writers, NEW id \in Ids, EditBegin(w, id) PROVE HeldIsCurrent'
  BY <1>5, <1>t, <1>h, BeginEffect DEF MayWrite, Holds
<1>6. ASSUME NEW w \in Writers, EditBuilt(w) PROVE HeldIsCurrent'
  <2>1. PICK a \in Adapters : Rebuilt(w, a)
    BY <1>6, RebuiltEffect
  <2>2. QED
    BY <1>t, <1>h, <2>1 DEF AnyInv, HeldAdapters, SuccessorsArePrivate, Rebuilt
<1>7. ASSUME NEW w \in Writers, EditCommit(w) PROVE HeldIsCurrent'
  <2>1. Committed(w)
    BY <1>7, <1>t, CommitEffect
  <2>2. QED
    BY <1>t, <1>h, <2>1 DEF AnyInv, HeldAdapters, SuccessorsArePrivate, Committed
<1>8. ASSUME NEW w \in Writers, NEW id \in Ids, DeleteBegin(w, id) PROVE HeldIsCurrent'
  <2>1. DeletionBegun(w, id)
    BY <1>8, DeletionEffect
  <2>2. QED
    BY <1>t, <1>h, <2>1 DEF AnyInv, HeldAdapters, SuccessorsArePrivate, DeletionBegun, MayWrite, Holds
<1>9. ASSUME NEW w \in Writers, DeleteDone(w) PROVE HeldIsCurrent'
  BY <1>9, <1>t, <1>h, EvictEffect DEF AnyInv, HeldAdapters
<1>10. ASSUME NEW id \in Ids, DeleteMissing(id) PROVE HeldIsCurrent'
  BY <1>10, <1>t, <1>h DEF DeleteMissing
<1>11. QED
  BY <1>1, <1>2, <1>3, <1>4, <1>5, <1>6, <1>7, <1>8, <1>9, <1>10 DEF Next

\* Endpoints do not change once built, so a successor stays the edit of what it replaces.
LEMMA EditStep == ASSUME Serialised, AnyInv, SerialInv, [Next]_vars PROVE SuccessorIsTheEdit'
<1>t. TypeOK /\ TypeOK'
  BY TypeStep DEF AnyInv
<1>g. gone \subseteq Ids
  BY <1>t DEF TypeOK
<1>h. /\ \A w \in Writers : InHand(w) => task[w].id \in Ids /\ task[w].record.adapter \in Adapters
      /\ \A w \in Writers : task[w].stage = "replacing" => task[w].next \in Adapters
      /\ \A id \in Ids : Present(id) => store[id].adapter \in Adapters
  BY <1>t, HeldFields
<1> USE DEF SuccessorIsTheEdit, Unused, IsOpen, IsClosed, SerialInv, Present, InHand, Holding, idle
<1>1. CASE UNCHANGED vars
  BY <1>1 DEF vars
<1>2. ASSUME NEW w \in Writers, RegisterBegin(w) \/ RegisterRefused(w) \/ EditRefused(w)
      PROVE  SuccessorIsTheEdit'
  BY <1>2, <1>t, <1>h, QuietStep
<1>3. ASSUME NEW w \in Writers, RegisterDone(w) PROVE SuccessorIsTheEdit'
  <2>1. PICK a \in Adapters, id \in Ids : Registered(w, a, id)
    BY <1>3, <1>t, RegisterEffect
  <2>2. gone' = gone
    BY <1>3 DEF RegisterDone
  <2>3. QED
    BY <1>h, <1>g, <2>1, <2>2 DEF AnyInv, IdsAreIssued, HeldAdapters, SuccessorsArePrivate, Registered
<1>4. ASSUME NEW id \in Ids, Rename(id) PROVE SuccessorIsTheEdit'
  BY <1>4, <1>t, <1>h, RenameEffect DEF MayWrite, Holds
<1>5. ASSUME NEW w \in Writers, NEW id \in Ids, EditBegin(w, id) PROVE SuccessorIsTheEdit'
  BY <1>5, <1>t, <1>h, BeginEffect DEF MayWrite, Holds
<1>6. ASSUME NEW w \in Writers, EditBuilt(w) PROVE SuccessorIsTheEdit'
  <2>1. PICK a \in Adapters : Rebuilt(w, a)
    BY <1>6, RebuiltEffect
  <2>2. QED
    BY <1>t, <1>h, <2>1 DEF AnyInv, HeldAdapters, SuccessorsArePrivate, Rebuilt
<1>7. ASSUME NEW w \in Writers, EditCommit(w) PROVE SuccessorIsTheEdit'
  <2>1. Committed(w)
    BY <1>7, <1>t, CommitEffect
  <2>2. QED
    BY <1>t, <1>h, <2>1 DEF AnyInv, HeldAdapters, SuccessorsArePrivate, Committed
<1>8. ASSUME NEW w \in Writers, NEW id \in Ids, DeleteBegin(w, id) PROVE SuccessorIsTheEdit'
  <2>1. DeletionBegun(w, id)
    BY <1>8, DeletionEffect
  <2>2. QED
    BY <1>t, <1>h, <2>1 DEF AnyInv, HeldAdapters, SuccessorsArePrivate, DeletionBegun, MayWrite, Holds
<1>9. ASSUME NEW w \in Writers, DeleteDone(w) PROVE SuccessorIsTheEdit'
  BY <1>9, <1>t, <1>h, EvictEffect DEF AnyInv, HeldAdapters
<1>10. ASSUME NEW id \in Ids, DeleteMissing(id) PROVE SuccessorIsTheEdit'
  BY <1>10, <1>t, <1>h DEF DeleteMissing
<1>11. QED
  BY <1>1, <1>2, <1>3, <1>4, <1>5, <1>6, <1>7, <1>8, <1>9, <1>10 DEF Next

\* What leaves the registry has been closed, and what is open is in it or about to be.
LEMMA PoolStep == ASSUME Serialised, AnyInv, SerialInv, [Next]_vars PROVE NoPoolIsLost'
<1>t. TypeOK /\ TypeOK'
  BY TypeStep DEF AnyInv
<1>g. gone \subseteq Ids
  BY <1>t DEF TypeOK
<1>h. /\ \A w \in Writers : InHand(w) => task[w].id \in Ids /\ task[w].record.adapter \in Adapters
      /\ \A w \in Writers : task[w].stage = "replacing" => task[w].next \in Adapters
      /\ \A id \in Ids : Present(id) => store[id].adapter \in Adapters
  BY <1>t, HeldFields
<1> USE DEF NoPoolIsLost, HeldIsCurrent, IsOpen, IsClosed, Unused, SerialInv, Present, InHand, Holding, idle
<1>1. CASE UNCHANGED vars
  BY <1>1 DEF vars
<1>2. ASSUME NEW w \in Writers, RegisterBegin(w) \/ RegisterRefused(w) \/ EditRefused(w)
      PROVE  NoPoolIsLost'
  BY <1>2, <1>t, <1>h, QuietStep
<1>3. ASSUME NEW w \in Writers, RegisterDone(w) PROVE NoPoolIsLost'
  <2>1. PICK a \in Adapters, id \in Ids : Registered(w, a, id)
    BY <1>3, <1>t, RegisterEffect
  <2>2. gone' = gone
    BY <1>3 DEF RegisterDone
  <2>3. QED
    BY <1>h, <1>g, <2>1, <2>2 DEF AnyInv, IdsAreIssued, HeldAdapters, SuccessorsArePrivate, Registered
<1>4. ASSUME NEW id \in Ids, Rename(id) PROVE NoPoolIsLost'
  BY <1>4, <1>t, <1>h, RenameEffect DEF MayWrite, Holds
<1>5. ASSUME NEW w \in Writers, NEW id \in Ids, EditBegin(w, id) PROVE NoPoolIsLost'
  BY <1>5, <1>t, <1>h, BeginEffect DEF MayWrite, Holds
<1>6. ASSUME NEW w \in Writers, EditBuilt(w) PROVE NoPoolIsLost'
  <2>1. PICK a \in Adapters : Rebuilt(w, a)
    BY <1>6, RebuiltEffect
  <2>2. QED
    BY <1>t, <1>h, <2>1 DEF AnyInv, HeldAdapters, SuccessorsArePrivate, Rebuilt
<1>7. ASSUME NEW w \in Writers, EditCommit(w) PROVE NoPoolIsLost'
  <2>1. Committed(w)
    BY <1>7, <1>t, CommitEffect
  <2>2. QED
    BY <1>t, <1>h, <2>1 DEF AnyInv, HeldAdapters, SuccessorsArePrivate, Committed
<1>8. ASSUME NEW w \in Writers, NEW id \in Ids, DeleteBegin(w, id) PROVE NoPoolIsLost'
  <2>1. DeletionBegun(w, id)
    BY <1>8, DeletionEffect
  <2>2. QED
    BY <1>t, <1>h, <2>1 DEF AnyInv, HeldAdapters, SuccessorsArePrivate, DeletionBegun, MayWrite, Holds
<1>9. ASSUME NEW w \in Writers, DeleteDone(w) PROVE NoPoolIsLost'
  BY <1>9, <1>t, <1>h, EvictEffect DEF AnyInv, HeldAdapters
<1>10. ASSUME NEW id \in Ids, DeleteMissing(id) PROVE NoPoolIsLost'
  BY <1>10, <1>t, <1>h DEF DeleteMissing
<1>11. QED
  BY <1>1, <1>2, <1>3, <1>4, <1>5, <1>6, <1>7, <1>8, <1>9, <1>10 DEF Next

\* Only an edit that still finds its record writes it back.
LEMMA GoneStep == ASSUME Serialised, AnyInv, SerialInv, [Next]_vars PROVE DeletedStaysDeleted'
<1>t. TypeOK /\ TypeOK'
  BY TypeStep DEF AnyInv
<1>g. gone \subseteq Ids
  BY <1>t DEF TypeOK
<1>h. /\ \A w \in Writers : InHand(w) => task[w].id \in Ids /\ task[w].record.adapter \in Adapters
      /\ \A w \in Writers : task[w].stage = "replacing" => task[w].next \in Adapters
      /\ \A id \in Ids : Present(id) => store[id].adapter \in Adapters
  BY <1>t, HeldFields
<1> USE DEF DeletedStaysDeleted, HeldIsCurrent, SerialInv, Present, InHand, Holding, idle
<1>1. CASE UNCHANGED vars
  BY <1>1 DEF vars
<1>2. ASSUME NEW w \in Writers, RegisterBegin(w) \/ RegisterRefused(w) \/ EditRefused(w)
      PROVE  DeletedStaysDeleted'
  BY <1>2, <1>t, <1>h, <1>g, QuietStep
<1>3. ASSUME NEW w \in Writers, RegisterDone(w) PROVE DeletedStaysDeleted'
  <2>1. PICK a \in Adapters, id \in Ids : Registered(w, a, id)
    BY <1>3, <1>t, RegisterEffect
  <2>2. gone' = gone
    BY <1>3 DEF RegisterDone
  <2>3. QED
    BY <1>h, <1>g, <2>1, <2>2 DEF AnyInv, IdsAreIssued, HeldAdapters, SuccessorsArePrivate, Registered
<1>4. ASSUME NEW id \in Ids, Rename(id) PROVE DeletedStaysDeleted'
  BY <1>4, <1>t, <1>h, <1>g, RenameEffect DEF MayWrite, Holds
<1>5. ASSUME NEW w \in Writers, NEW id \in Ids, EditBegin(w, id) PROVE DeletedStaysDeleted'
  BY <1>5, <1>t, <1>h, <1>g, BeginEffect DEF MayWrite, Holds
<1>6. ASSUME NEW w \in Writers, EditBuilt(w) PROVE DeletedStaysDeleted'
  <2>1. PICK a \in Adapters : Rebuilt(w, a)
    BY <1>6, RebuiltEffect
  <2>2. QED
    BY <1>t, <1>h, <1>g, <2>1 DEF AnyInv, HeldAdapters, SuccessorsArePrivate, Rebuilt
<1>7. ASSUME NEW w \in Writers, EditCommit(w) PROVE DeletedStaysDeleted'
  <2>1. Committed(w)
    BY <1>7, <1>t, CommitEffect
  <2>2. store[task[w].id] = task[w].record /\ task[w].record \in Record
    BY <1>t, <2>1, TaskFields DEF Committed
  <2>3. Present(task[w].id)
    BY <2>2, ConnectionsAssumption
  <2>4. QED
    BY <1>g, <2>1, <2>3 DEF Committed
<1>8. ASSUME NEW w \in Writers, NEW id \in Ids, DeleteBegin(w, id) PROVE DeletedStaysDeleted'
  <2>1. DeletionBegun(w, id)
    BY <1>8, DeletionEffect
  <2>2. QED
    BY <1>t, <1>h, <1>g, <2>1 DEF AnyInv, HeldAdapters, SuccessorsArePrivate, DeletionBegun, MayWrite, Holds
<1>9. ASSUME NEW w \in Writers, DeleteDone(w) PROVE DeletedStaysDeleted'
  BY <1>9, <1>t, <1>h, <1>g, EvictEffect DEF AnyInv, HeldAdapters
<1>10. ASSUME NEW id \in Ids, DeleteMissing(id) PROVE DeletedStaysDeleted'
  BY <1>10, <1>t, <1>h DEF DeleteMissing
<1>11. QED
  BY <1>1, <1>2, <1>3, <1>4, <1>5, <1>6, <1>7, <1>8, <1>9, <1>10 DEF Next

\* The serial invariant is inductive on top of AnyInv.
LEMMA SerialStep == ASSUME Serialised, AnyInv, SerialInv, [Next]_vars PROVE SerialInv'
  BY CurrentStep, EditStep, PoolStep, GoneStep DEF SerialInv

\* The empty registry satisfies it.
LEMMA InitSerial == Init => SerialInv
  BY DEF Init, SerialInv, HeldIsCurrent, SuccessorIsTheEdit, NoPoolIsLost, DeletedStaysDeleted,
         InHand, Holding, IsOpen, idle

\* When writes to one connection do not overlap, what a handler read before an
\* await is still what is stored after it.
THEOREM SerialInvariant == ASSUME Serialised PROVE Spec => []SerialInv
<1>1. AnyInv /\ SerialInv /\ [Next]_vars => SerialInv'
  BY SerialStep
<1>2. QED
  BY <1>1, InitSerial, AnyInvariant, PTL DEF Spec

\* No open pool is ever unreachable (UpdateConnection.execute closes the pool it
\* replaces, DeleteConnection.execute the one it evicts).
THEOREM PoolTheorem == ASSUME Serialised PROVE Spec => []NoPoolIsLost
<1>1. SerialInv => NoPoolIsLost
  BY DEF SerialInv
<1>2. QED
  BY SerialInvariant, <1>1, PTL

\* A connection whose DELETE has been answered never comes back.
THEOREM DeletionTheorem == ASSUME Serialised PROVE Spec => []DeletedStaysDeleted
<1>1. SerialInv => DeletedStaysDeleted
  BY DEF SerialInv
<1>2. QED
  BY SerialInvariant, <1>1, PTL

-----------------------------------------------------------------------------
(***************************************************************************)
(* Refinement.                                                             *)
(***************************************************************************)
\* What each stage of a handler is, seen as a request that has been submitted.
LEMMA RequestStages ==
  ASSUME TypeOK, NEW w \in Writers
  PROVE  /\ task[w].stage = "idle" => requests[w] = NoRequest
         /\ task[w].stage = "creating" =>
              /\ requests[w] = [op |-> "register", label |-> task[w].label, config |-> task[w].config]
              /\ requests[w] \in RegisterRequest
         /\ task[w].stage \in {"rebuilding", "replacing"} =>
              /\ requests[w] = [op |-> "edit", id |-> task[w].id, label |-> task[w].label,
                                config |-> task[w].config]
              /\ requests[w] \in EditRequest
         /\ task[w].stage = "deleting" =>
              /\ requests[w] = [op |-> "delete", id |-> task[w].id]
              /\ requests[w] \in DeleteRequest
         /\ task[w].stage # "idle" => requests[w] \in Request /\ requests[w] # NoRequest
<1>1. requests[w] = RequestOf(task[w])
  BY DEF requests
<1>2. task[w].stage \in {"idle", "creating", "rebuilding", "replacing", "deleting"}
  BY DEF TypeOK, Task, Idle, Creating, Rebuilding, Replacing, Deleting
<1>3. task[w].stage = "idle" => requests[w] = NoRequest
  BY <1>1 DEF RequestOf
<1>4. ASSUME task[w].stage = "creating"
      PROVE  /\ requests[w] = [op |-> "register", label |-> task[w].label, config |-> task[w].config]
             /\ requests[w] \in RegisterRequest
  BY <1>1, <1>4, TaskFields DEF RequestOf, RegisterRequest
<1>5. ASSUME task[w].stage \in {"rebuilding", "replacing"}
      PROVE  /\ requests[w] = [op |-> "edit", id |-> task[w].id, label |-> task[w].label,
                               config |-> task[w].config]
             /\ requests[w] \in EditRequest
  BY <1>1, <1>5, TaskFields DEF RequestOf, EditRequest, InHand, Holding
<1>6. ASSUME task[w].stage = "deleting"
      PROVE  /\ requests[w] = [op |-> "delete", id |-> task[w].id]
             /\ requests[w] \in DeleteRequest
  BY <1>1, <1>6, TaskFields DEF RequestOf, DeleteRequest, InHand, Holding
<1>7. QED
  BY <1>2, <1>3, <1>4, <1>5, <1>6, ConnectionsAssumption DEF Request

\* A handler's step changes only its own request.
LEMMA RequestMoves ==
  ASSUME NEW w \in Writers, \A v \in Writers \ {w} : task'[v] = task[v]
  PROVE  requests' = [requests EXCEPT ![w] = RequestOf(task'[w])]
  BY DEF requests

\* Closing an adapter, or building one that nothing serves through yet, does not
\* show in the catalogue.
LEMMA CatalogueStays ==
  ASSUME store' = store,
         \A id \in Ids : Present(id) =>
           adapters'[store[id].adapter].endpoint = adapters[store[id].adapter].endpoint
  PROVE  catalogue' = catalogue
  BY DEF catalogue, EntryOf, Present

\* Writing one record changes one entry.
LEMMA CatalogueMoves ==
  ASSUME NEW id \in Ids,
         \A i \in Ids \ {id} : store'[i] = store[i],
         \A i \in Ids \ {id} : Present(i) =>
           adapters'[store[i].adapter].endpoint = adapters[store[i].adapter].endpoint
  PROVE  catalogue' = [catalogue EXCEPT ![id] =
           IF store'[id] = Missing THEN Missing
           ELSE [label |-> store'[id].label, endpoint |-> adapters'[store'[id].adapter].endpoint]]
  BY DEF catalogue, EntryOf, Present

\* What a record stands for is never mistaken for the absence of one.
LEMMA EntryType ==
  ASSUME AnyInv, NEW id \in Ids, Present(id)
  PROVE  EntryOf(store[id]) \in Entry /\ EntryOf(store[id]) # Missing
<1>1. TypeOK /\ store[id] \in Record /\ ~Unused(store[id].adapter)
  BY StoreFields DEF AnyInv, DescribesWhatItServes, Unused
<1>2. adapters[store[id].adapter].endpoint \in Endpoint /\ store[id].label \in Labels
  BY <1>1, AdapterFields DEF Record
<1>3. EntryOf(store[id]) \in Entry
  BY <1>2 DEF EntryOf, Entry
<1>4. QED
  BY <1>3, ConnectionsAssumption

\* Both specifications mean the same by a request and by what one does to an endpoint.
LEMMA SameData ==
  /\ Atomic!RegisterRequest = RegisterRequest
  /\ Atomic!EditRequest = EditRequest
  /\ Atomic!DeleteRequest = DeleteRequest
  /\ Atomic!Request = Request
  /\ \A c : Atomic!Fresh(c) = Fresh(c)
  /\ \A e, c : Atomic!Successor(e, c) = Successor(e, c)
  /\ \A l, m : Atomic!Relabelled(l, m) = Relabelled(l, m)
<1> USE DEF Atomic!Config, Config
<1>1. /\ Atomic!RegisterRequest = RegisterRequest
      /\ Atomic!EditRequest = EditRequest
      /\ Atomic!DeleteRequest = DeleteRequest
  BY DEF Atomic!RegisterRequest, RegisterRequest, Atomic!EditRequest, EditRequest,
         Atomic!DeleteRequest, DeleteRequest
<1>2. Atomic!Request = Request
  BY <1>1 DEF Atomic!Request, Request
<1>3. /\ \A c : Atomic!Fresh(c) = Fresh(c)
      /\ \A e, c : Atomic!Successor(e, c) = Successor(e, c)
  BY DEF Atomic!Fresh, Fresh, Atomic!Successor, Successor, Atomic!Graft, Graft, Atomic!Carry, Carry
<1>4. \A l, m : Atomic!Relabelled(l, m) = Relabelled(l, m)
  BY DEF Atomic!Relabelled, Relabelled
<1>5. QED
  BY <1>1, <1>2, <1>3, <1>4

\* A handler that is idle has nothing submitted.
LEMMA IdleRequest == RequestOf(idle) = NoRequest
  BY DEF RequestOf, idle

\* A handler that goes from idle to a stage of its own submits a request.
LEMMA RegisterBeginMaps ==
  ASSUME TypeOK, NEW w \in Writers, RegisterBegin(w)
  PROVE  Atomic!Submit(w)
<1>1. PICK label \in Labels, config \in Config :
        task'[w] = [stage |-> "creating", label |-> label, config |-> config]
  BY DEF RegisterBegin, Become, TypeOK
<1>2. /\ \A v \in Writers \ {w} : task'[v] = task[v]
      /\ UNCHANGED <<store, seat, seats, issued, adapters, gone>>
  BY QuietStep
<1>3. RequestOf(task'[w]) = [op |-> "register", label |-> label, config |-> config]
  BY <1>1 DEF RequestOf
<1>4. RequestOf(task'[w]) \in Request
  BY <1>3 DEF Request, RegisterRequest
<1>5. requests[w] = NoRequest
  BY RequestStages DEF RegisterBegin
<1>6. requests' = [requests EXCEPT ![w] = RequestOf(task'[w])]
  BY <1>2, RequestMoves
<1>7. catalogue' = catalogue
  BY <1>2, CatalogueStays
<1>8. QED
  BY <1>2, <1>4, <1>5, <1>6, <1>7, SameData DEF Atomic!Submit

\* So does an edit that begins ...
LEMMA EditBeginMaps ==
  ASSUME TypeOK, NEW w \in Writers, NEW id \in Ids, EditBegin(w, id)
  PROVE  Atomic!Submit(w)
<1>1. PICK label \in Labels \cup {Unnamed}, config \in Config :
        task'[w] = [stage |-> "rebuilding", id |-> id, record |-> store[id],
                    label |-> label, config |-> config]
  BY DEF EditBegin, Become, TypeOK
<1>2. /\ \A v \in Writers \ {w} : task'[v] = task[v]
      /\ UNCHANGED <<store, seat, seats, issued, adapters, gone>>
      /\ task[w].stage = "idle"
  BY BeginEffect
<1>3. RequestOf(task'[w]) = [op |-> "edit", id |-> id, label |-> label, config |-> config]
  BY <1>1 DEF RequestOf
<1>4. RequestOf(task'[w]) \in Request
  BY <1>3 DEF Request, EditRequest
<1>5. requests[w] = NoRequest
  BY <1>2, RequestStages
<1>6. requests' = [requests EXCEPT ![w] = RequestOf(task'[w])]
  BY <1>2, RequestMoves
<1>7. catalogue' = catalogue
  BY <1>2, CatalogueStays
<1>8. QED
  BY <1>2, <1>4, <1>5, <1>6, <1>7, SameData DEF Atomic!Submit

\* ... and a deletion: closing the pool does not show yet.
LEMMA DeleteBeginMaps ==
  ASSUME AnyInv, NEW w \in Writers, NEW id \in Ids, DeleteBegin(w, id)
  PROVE  Atomic!Submit(w)
<1>1. DeletionBegun(w, id) /\ TypeOK
  BY DeletionEffect DEF AnyInv
<1>2. RequestOf(task'[w]) = [op |-> "delete", id |-> id]
  BY <1>1 DEF DeletionBegun, RequestOf
<1>3. RequestOf(task'[w]) \in Request
  BY <1>2 DEF Request, DeleteRequest
<1>4. requests[w] = NoRequest
  BY <1>1, RequestStages DEF DeletionBegun
<1>5. requests' = [requests EXCEPT ![w] = RequestOf(task'[w])]
  BY <1>1, RequestMoves DEF DeletionBegun
<1>6. catalogue' = catalogue
  BY <1>1, HeldFields, CatalogueStays DEF DeletionBegun
<1>7. QED
  BY <1>1, <1>3, <1>4, <1>5, <1>6, SameData DEF Atomic!Submit, DeletionBegun

\* A refusal at either stage is a refusal.
LEMMA RefusedMaps ==
  ASSUME TypeOK, NEW w \in Writers, RegisterRefused(w) \/ EditRefused(w)
  PROVE  Atomic!Refuse(w)
<1>1. /\ task'[w] = idle
      /\ \A v \in Writers \ {w} : task'[v] = task[v]
      /\ UNCHANGED <<store, seat, seats, issued, adapters, gone>>
      /\ task[w].stage # "idle"
  BY DEF RegisterRefused, EditRefused, Finish, TypeOK
<1>2. requests' = [requests EXCEPT ![w] = NoRequest]
  BY <1>1, RequestMoves, IdleRequest
<1>3. requests[w] # NoRequest
  BY <1>1, RequestStages
<1>4. catalogue' = catalogue
  BY <1>1, CatalogueStays
<1>5. QED
  BY <1>1, <1>2, <1>3, <1>4 DEF Atomic!Refuse

\* The successor is built and the old pool told to close: nothing shows.
LEMMA EditBuiltMaps ==
  ASSUME AnyInv, NEW w \in Writers, EditBuilt(w)
  PROVE  UNCHANGED <<catalogue, seat, seats, issued, gone, requests>>
<1>1. PICK a \in Adapters : Rebuilt(w, a)
  BY RebuiltEffect
<1>t. TypeOK
  BY DEF AnyInv
<1>2. \A id \in Ids : Present(id) => store[id].adapter \in Adapters /\ ~Unused(store[id].adapter)
  BY <1>t, HeldFields DEF AnyInv, DescribesWhatItServes, Unused
<1>3. catalogue' = catalogue
  BY <1>1, <1>2, CatalogueStays DEF Rebuilt
<1>4. RequestOf(task'[w]) = RequestOf(task[w])
  BY <1>1 DEF Rebuilt, RequestOf
<1>5. requests' = requests
  BY <1>1, <1>4 DEF Rebuilt, requests
<1>6. QED
  BY <1>1, <1>3, <1>5 DEF Rebuilt

\* A registration takes effect at once: a fresh id, at the end of the list.
LEMMA RegisterDoneMaps ==
  ASSUME AnyInv, TypeOK', NEW w \in Writers, RegisterDone(w)
  PROVE  Atomic!ApplyRegister(w)
<1>1. PICK a \in Adapters, id \in Ids \ issued :
        LET where == Fresh(task[w].config)
            record == [label |-> task[w].label, adapter |-> a,
                       parts |-> task[w].config.target, ssh |-> where.bastion] IN
        /\ Unused(a)
        /\ adapters' = Open(a, where)
        /\ issued' = issued \cup {id}
        /\ Add(id, record)
  BY DEF RegisterDone
<1>2. /\ TypeOK
      /\ task[w].stage = "creating"
      /\ task[w].config \in Config /\ task[w].label \in Labels
      /\ Fresh(task[w].config) \in Endpoint
  BY TaskFields, FreshType DEF AnyInv, RegisterDone
<1>3. adapters' = [adapters EXCEPT ![a] = [open |-> TRUE, endpoint |-> Fresh(task[w].config)]]
  BY <1>1 DEF Open
<1>4. /\ store'[id] = [label |-> task[w].label, adapter |-> a, parts |-> task[w].config.target,
                       ssh |-> Fresh(task[w].config).bastion]
      /\ \A i \in Ids \ {id} : store'[i] = store[i]
  BY <1>1, <1>2 DEF Add, TypeOK
<1>5. store'[id] \in Record
  BY <1>2, <1>4 DEF Record, Config, Endpoint
<1>6. \A i \in Ids : Present(i) => store[i].adapter \in Adapters \ {a}
  BY <1>1, <1>2, StoreFields DEF AnyInv, DescribesWhatItServes, Unused
<1>7. catalogue' = [catalogue EXCEPT ![id] =
        [label |-> task[w].label, endpoint |-> Fresh(task[w].config)]]
  <2>1. /\ store'[id] # Missing
        /\ store'[id].label = task[w].label
        /\ adapters'[store'[id].adapter].endpoint = Fresh(task[w].config)
    BY <1>2, <1>3, <1>4, <1>5, ConnectionsAssumption DEF TypeOK
  <2>2. \A i \in Ids \ {id} : Present(i) =>
          adapters'[store[i].adapter].endpoint = adapters[store[i].adapter].endpoint
    BY <1>2, <1>3, <1>6 DEF TypeOK
  <2>3. QED
    BY <1>4, <2>1, <2>2, CatalogueMoves
<1>8. ~Present(id)
  BY <1>1 DEF AnyInv, IdsAreIssued
<1>9. seat' = [seat EXCEPT ![id] = seats + 1] /\ seats' = seats + 1
  BY <1>1, <1>8 DEF Add
<1>10. /\ task'[w] = idle /\ gone' = gone
       /\ \A v \in Writers \ {w} : task'[v] = task[v]
  BY <1>2 DEF RegisterDone, Finish, TypeOK
<1>11. requests' = [requests EXCEPT ![w] = NoRequest]
  BY <1>10, RequestMoves, IdleRequest
<1>12. requests[w] \in RegisterRequest /\ requests[w].label = task[w].label
         /\ requests[w].config = task[w].config
  <2>1. /\ requests[w] = [op |-> "register", label |-> task[w].label, config |-> task[w].config]
        /\ requests[w] \in RegisterRequest
    BY <1>2, RequestStages
  <2>2. QED
    BY <2>1
<1>13. QED
  BY <1>1, <1>7, <1>9, <1>10, <1>11, <1>12, SameData DEF Atomic!ApplyRegister

\* An edit takes effect when its record is written, on the entry as it is then.
LEMMA EditCommitMaps ==
  ASSUME Serialised, AnyInv, SerialInv, TypeOK', NEW w \in Writers, EditCommit(w)
  PROVE  Atomic!ApplyEdit(w)
<1> DEFINE id == task[w].id
<1>1. Committed(w) /\ TypeOK
  BY CommitEffect DEF AnyInv
<1>2. /\ store[id] = task[w].record /\ task[w].record \in Record
      /\ id \in Ids /\ task[w].stage = "replacing"
  BY <1>1, TaskFields DEF SerialInv, HeldIsCurrent, InHand, Holding, Committed
<1>3. store[id] # Missing
  BY <1>2, ConnectionsAssumption
<1>4. /\ catalogue[id].label = task[w].record.label
      /\ catalogue[id].endpoint = adapters[task[w].record.adapter].endpoint
      /\ catalogue[id] = EntryOf(store[id])
  BY <1>2, <1>3 DEF catalogue, EntryOf, Present
<1>5. catalogue[id] # Missing
  BY <1>1, <1>2, <1>3, <1>4, EntryType DEF Present
<1>6. adapters[task[w].next].endpoint =
        Successor(adapters[task[w].record.adapter].endpoint, task[w].config)
  BY <1>2 DEF SerialInv, SuccessorIsTheEdit
<1>7. catalogue' = [catalogue EXCEPT ![id] =
        [label    |-> Relabelled(catalogue[id].label, task[w].label),
         endpoint |-> Successor(catalogue[id].endpoint, task[w].config)]]
  BY <1>1, <1>4, <1>6, CatalogueMoves DEF Committed
<1>8. requests' = [requests EXCEPT ![w] = NoRequest]
  BY <1>1, RequestMoves, IdleRequest DEF Committed
<1>9. /\ requests[w] \in EditRequest /\ requests[w].id = id
      /\ requests[w].label = task[w].label /\ requests[w].config = task[w].config
  <2>1. /\ requests[w] = [op |-> "edit", id |-> id, label |-> task[w].label,
                          config |-> task[w].config]
        /\ requests[w] \in EditRequest
    BY <1>1, <1>2, RequestStages
  <2>2. QED
    BY <2>1
<1>10. UNCHANGED <<seat, seats, issued, gone>>
  BY <1>3 DEF EditCommit, Add, Present
<1>11. QED
  BY <1>5, <1>7, <1>8, <1>9, <1>10, SameData DEF Atomic!ApplyEdit, Atomic!Present

\* A deletion takes effect when the record is evicted.
LEMMA DeleteDoneMaps ==
  ASSUME AnyInv, NEW w \in Writers, DeleteDone(w)
  PROVE  Atomic!ApplyDelete(w)
<1>1. TypeOK
  BY DEF AnyInv
<1>2. catalogue' = [catalogue EXCEPT ![task[w].id] = Missing]
  BY <1>1, EvictEffect, CatalogueMoves
<1>3. requests' = [requests EXCEPT ![w] = NoRequest]
  BY <1>1, EvictEffect, RequestMoves, IdleRequest
<1>4. requests[w] \in DeleteRequest /\ requests[w].id = task[w].id
  <2>1. /\ requests[w] = [op |-> "delete", id |-> task[w].id]
        /\ requests[w] \in DeleteRequest
    BY <1>1, EvictEffect, RequestStages
  <2>2. QED
    BY <2>1
<1>5. QED
  BY <1>1, <1>2, <1>3, <1>4, EvictEffect, SameData DEF Atomic!ApplyDelete

\* A rename and the deletion of what is not there need no request.
LEMMA RenameMaps ==
  ASSUME AnyInv, NEW id \in Ids, Rename(id)
  PROVE  Atomic!Rename(id)
<1>t. TypeOK
  BY DEF AnyInv
<1>1. PICK label \in Labels : Add(id, [store[id] EXCEPT !.label = label])
  BY DEF Rename
<1>2. store[id] \in Record /\ Present(id)
  BY <1>t, StoreFields DEF Rename
<1>3. store'[id] = [store[id] EXCEPT !.label = label]
  BY <1>t, <1>1 DEF Add, TypeOK
<1>4. /\ store'[id].label = label /\ store'[id].adapter = store[id].adapter
      /\ store'[id] # Missing
      /\ \A i \in Ids \ {id} : store'[i] = store[i]
      /\ UNCHANGED <<seat, seats, issued, adapters, task, gone>>
  BY <1>t, <1>2, <1>3, RenameEffect DEF Record, Present
<1>5. catalogue' = [catalogue EXCEPT ![id] =
        [label |-> label, endpoint |-> adapters[store[id].adapter].endpoint]]
  BY <1>4, CatalogueMoves
<1>6. catalogue[id] = [label |-> store[id].label, endpoint |-> adapters[store[id].adapter].endpoint]
  BY <1>2 DEF catalogue, EntryOf
<1>7. catalogue' = [catalogue EXCEPT ![id].label = label]
  <2>1. [catalogue[id] EXCEPT !.label = label] =
          [label |-> label, endpoint |-> adapters[store[id].adapter].endpoint]
    BY <1>6
  <2>2. QED
    BY <1>5, <2>1
<1>8. requests' = requests
  BY <1>4 DEF requests
<1>9. catalogue[id] # Missing
  <2>1. catalogue[id] = EntryOf(store[id])
    BY <1>2 DEF catalogue
  <2>2. QED
    BY <1>2, <2>1, EntryType
<1>10. QED
  BY <1>4, <1>7, <1>8, <1>9 DEF Atomic!Rename, Atomic!Present

\* Deleting what is not there is answered at once in both.
LEMMA DeleteMissingMaps ==
  ASSUME NEW id \in Ids, DeleteMissing(id)
  PROVE  Atomic!DeleteMissing(id)
<1>1. ~Present(id) /\ gone' = gone \cup {id}
      /\ UNCHANGED <<store, seat, seats, issued, adapters, task>>
  BY DEF DeleteMissing
<1>2. catalogue' = catalogue
  BY <1>1, CatalogueStays
<1>3. requests' = requests
  BY <1>1 DEF requests
<1>4. catalogue[id] = Missing
  BY <1>1 DEF catalogue
<1>5. QED
  BY <1>1, <1>2, <1>3, <1>4 DEF Atomic!DeleteMissing, Atomic!Present

\* The empty registry is the empty catalogue, with nothing submitted.
LEMMA InitMaps == Init => Atomic!Init
<1> SUFFICES ASSUME Init PROVE Atomic!Init
  OBVIOUS
<1>1. catalogue = [id \in Ids |-> Missing]
  BY DEF Init, catalogue, Present
<1>2. requests = [w \in Writers |-> NoRequest]
  BY IdleRequest DEF Init, requests
<1>3. QED
  BY <1>1, <1>2 DEF Init, Atomic!Init

\* Every stretch of a handler is a step of AtomicConnections or invisible to it.
LEMMA StepMaps ==
  ASSUME Serialised, AnyInv, SerialInv, [Next]_vars
  PROVE  [Atomic!Next]_(Atomic!avars)
<1>t. TypeOK /\ TypeOK'
  BY TypeStep DEF AnyInv
<1>1. CASE UNCHANGED vars
  <2>1. UNCHANGED <<store, seat, seats, issued, adapters, task, gone>>
    BY <1>1 DEF vars
  <2>2. catalogue' = catalogue /\ requests' = requests
    BY <2>1, CatalogueStays DEF requests
  <2>3. QED
    BY <2>1, <2>2 DEF Atomic!avars
<1>2. ASSUME NEW w \in Writers, RegisterBegin(w) PROVE Atomic!Submit(w)
  BY <1>2, <1>t, RegisterBeginMaps
<1>3. ASSUME NEW w \in Writers, RegisterRefused(w) \/ EditRefused(w) PROVE Atomic!Refuse(w)
  BY <1>3, <1>t, RefusedMaps
<1>4. ASSUME NEW w \in Writers, RegisterDone(w) PROVE Atomic!ApplyRegister(w)
  BY <1>4, <1>t, RegisterDoneMaps
<1>5. ASSUME NEW id \in Ids, Rename(id) PROVE Atomic!Rename(id)
  BY <1>5, RenameMaps
<1>6. ASSUME NEW w \in Writers, NEW id \in Ids, EditBegin(w, id) PROVE Atomic!Submit(w)
  BY <1>6, <1>t, EditBeginMaps
<1>7. ASSUME NEW w \in Writers, EditBuilt(w) PROVE UNCHANGED Atomic!avars
  BY <1>7, EditBuiltMaps DEF Atomic!avars
<1>8. ASSUME NEW w \in Writers, EditCommit(w) PROVE Atomic!ApplyEdit(w)
  BY <1>8, <1>t, EditCommitMaps
<1>9. ASSUME NEW w \in Writers, NEW id \in Ids, DeleteBegin(w, id) PROVE Atomic!Submit(w)
  BY <1>9, DeleteBeginMaps
<1>10. ASSUME NEW w \in Writers, DeleteDone(w) PROVE Atomic!ApplyDelete(w)
  BY <1>10, DeleteDoneMaps
<1>11. ASSUME NEW id \in Ids, DeleteMissing(id) PROVE Atomic!DeleteMissing(id)
  BY <1>11, DeleteMissingMaps
<1>12. QED
  BY <1>1, <1>2, <1>3, <1>4, <1>5, <1>6, <1>7, <1>8, <1>9, <1>10, <1>11 DEF Next, Atomic!Next

\* Without overlapping writes, each POST, PATCH and DELETE /connections takes effect
\* in one indivisible step or not at all, awaits notwithstanding.
THEOREM RefinementTheorem == ASSUME Serialised PROVE Spec => AtomicSpec
<1>1. AnyInv /\ SerialInv /\ [Next]_vars => [Atomic!Next]_(Atomic!avars)
  BY StepMaps
<1>2. QED
  BY <1>1, InitMaps, AnyInvariant, SerialInvariant, PTL DEF Spec, AtomicSpec, Atomic!Spec

-----------------------------------------------------------------------------
(***************************************************************************)
(* What an edit changes, and what it keeps.                                *)
(***************************************************************************)
\* The factory's rebuild is what the body asks for, on top of what there was.
LEMMA SuccessorIsAsked ==
  ASSUME NEW e, NEW c \in Config
  PROVE  Successor(e, c) = Asked(e, c)
<1>1. c.ssh = Keep \/ c.ssh = Disable \/ (c.ssh # Keep /\ c.ssh # Disable)
  OBVIOUS
<1>2. QED
  BY <1>1, ConnectionsAssumption DEF Successor, Asked, Graft, Carry

\* The adapters behind records that are not being written keep their endpoints.
LEMMA EndpointsStay ==
  ASSUME AnyInv, Next
  PROVE  \A id \in Ids : (Present(id) /\ store'[id] = store[id]) =>
           adapters'[store[id].adapter].endpoint = adapters[store[id].adapter].endpoint
<1>t. TypeOK /\ TypeOK'
  BY TypeStep DEF AnyInv
<1>1. \A id \in Ids : Present(id) => store[id].adapter \in Adapters /\ ~Unused(store[id].adapter)
  BY <1>t, HeldFields DEF AnyInv, DescribesWhatItServes, Unused
<1>2. \A a \in Adapters : ~Unused(a) => adapters'[a].endpoint = adapters[a].endpoint
  <2>1. ASSUME NEW w \in Writers, RegisterDone(w)
        PROVE  \A a \in Adapters : ~Unused(a) => adapters'[a].endpoint = adapters[a].endpoint
    BY <2>1, <1>t, RegisterEffect DEF Registered
  <2>2. ASSUME NEW w \in Writers, EditBuilt(w)
        PROVE  \A a \in Adapters : ~Unused(a) => adapters'[a].endpoint = adapters[a].endpoint
    BY <2>2, <1>t, RebuiltEffect DEF Rebuilt
  <2>3. ASSUME NEW w \in Writers, NEW id \in Ids, DeleteBegin(w, id)
        PROVE  \A a \in Adapters : ~Unused(a) => adapters'[a].endpoint = adapters[a].endpoint
    BY <2>3, <1>t, DeletionEffect DEF DeletionBegun
  <2>4. ASSUME NEW w \in Writers,
               \/ RegisterBegin(w) \/ RegisterRefused(w) \/ EditRefused(w)
               \/ EditCommit(w) \/ DeleteDone(w)
        PROVE  adapters' = adapters
    BY <2>4 DEF RegisterBegin, RegisterRefused, EditRefused, EditCommit, DeleteDone
  <2>5. ASSUME NEW id \in Ids, Rename(id) \/ DeleteMissing(id) PROVE adapters' = adapters
    BY <2>5 DEF Rename, DeleteMissing
  <2>6. ASSUME NEW w \in Writers, NEW id \in Ids, EditBegin(w, id) PROVE adapters' = adapters
    BY <2>6 DEF EditBegin
  <2>7. QED
    BY <2>1, <2>2, <2>3, <2>4, <2>5, <2>6 DEF Next
<1>3. QED
  BY <1>1, <1>2

\* Among records that stay, only the end of an edit changes more than a label.
LEMMA RecordsStay ==
  ASSUME AnyInv, Next, NEW id \in Ids, Present(id), Present(id)'
  PROVE  \/ store'[id] = store[id]
         \/ Rename(id)
         \/ \E w \in Writers : EditCommit(w) /\ task[w].id = id
<1>t. TypeOK /\ TypeOK'
  BY TypeStep DEF AnyInv
<1>1. ASSUME NEW w \in Writers, RegisterDone(w) PROVE store'[id] = store[id]
  <2>1. PICK a \in Adapters, i \in Ids : Registered(w, a, i)
    BY <1>1, <1>t, RegisterEffect
  <2>2. id # i
    BY <2>1 DEF AnyInv, IdsAreIssued, Registered
  <2>3. QED
    BY <2>1, <2>2 DEF Registered
<1>2. ASSUME NEW w \in Writers, EditCommit(w), task[w].id # id PROVE store'[id] = store[id]
  BY <1>2, <1>t, CommitEffect DEF Committed
<1>3. ASSUME NEW w \in Writers, DeleteDone(w) PROVE store'[id] = store[id]
  BY <1>3, <1>t, EvictEffect DEF Present
<1>4. ASSUME NEW i \in Ids, Rename(i), i # id PROVE store'[id] = store[id]
  BY <1>4, <1>t, RenameEffect
<1>5. ASSUME NEW w \in Writers,
             \/ RegisterBegin(w) \/ RegisterRefused(w) \/ EditRefused(w) \/ EditBuilt(w)
      PROVE  store'[id] = store[id]
  BY <1>5 DEF RegisterBegin, RegisterRefused, EditRefused, EditBuilt
<1>6. ASSUME NEW w \in Writers, NEW i \in Ids, EditBegin(w, i) \/ DeleteBegin(w, i)
      PROVE  store'[id] = store[id]
  BY <1>6 DEF EditBegin, DeleteBegin
<1>7. ASSUME NEW i \in Ids, DeleteMissing(i) PROVE store'[id] = store[id]
  BY <1>7 DEF DeleteMissing
<1>8. QED
  BY <1>1, <1>2, <1>3, <1>4, <1>5, <1>6, <1>7 DEF Next

\* A request that was waiting for close() and is done has written its edit.
LEMMA LandingIsCommit ==
  ASSUME AnyInv, Next, NEW w \in Writers, Lands(w)
  PROVE  EditCommit(w)
<1>t. TypeOK /\ TypeOK' /\ task[w].stage = "replacing" /\ task'[w].stage = "idle"
  BY TypeStep DEF AnyInv, Lands
<1>1. ASSUME NEW v \in Writers,
             \/ RegisterBegin(v) \/ RegisterRefused(v) \/ RegisterDone(v)
             \/ EditRefused(v) \/ EditBuilt(v) \/ DeleteDone(v)
      PROVE  FALSE
  BY <1>1, <1>t DEF RegisterBegin, RegisterRefused, RegisterDone, EditRefused, EditBuilt, DeleteDone,
     Become, Finish, TypeOK
<1>2. ASSUME NEW v \in Writers, NEW id \in Ids, EditBegin(v, id) \/ DeleteBegin(v, id)
      PROVE  FALSE
  BY <1>2, <1>t DEF EditBegin, DeleteBegin, Become, TypeOK
<1>3. ASSUME NEW id \in Ids, Rename(id) \/ DeleteMissing(id) PROVE FALSE
  BY <1>3, <1>t DEF Rename, DeleteMissing
<1>4. ASSUME NEW v \in Writers, EditCommit(v), v # w PROVE FALSE
  BY <1>4, <1>t, CommitEffect DEF Committed
<1>5. QED
  BY <1>1, <1>2, <1>3, <1>4 DEF Next

\* An edit that lands is the edit asked for, of what is stored when it lands.
LEMMA LandingStep ==
  ASSUME Serialised, AnyInv, SerialInv, Next,
         NEW w \in Writers, NEW id \in Ids, Lands(w), task[w].id = id, Present(id)
  PROVE  /\ Reaches(id)' = Asked(Reaches(id), task[w].config)
         /\ store'[id].label = IF task[w].label = Unnamed THEN store[id].label
                                                         ELSE task[w].label
<1>t. TypeOK /\ TypeOK'
  BY TypeStep DEF AnyInv
<1>1. Committed(w) /\ task[w].config \in Config /\ task[w].stage = "replacing"
  BY <1>t, LandingIsCommit, CommitEffect, TaskFields DEF Committed
<1>2. task[w].record = store[id]
  BY <1>1 DEF SerialInv, HeldIsCurrent, InHand, Holding
<1>3. adapters'[store'[id].adapter].endpoint =
        Successor(adapters[store[id].adapter].endpoint, task[w].config)
  BY <1>1, <1>2 DEF SerialInv, SuccessorIsTheEdit, Committed
<1>4. Reaches(id)' = Asked(Reaches(id), task[w].config)
  BY <1>1, <1>3, SuccessorIsAsked DEF Reaches
<1>5. store'[id].label = IF task[w].label = Unnamed THEN store[id].label ELSE task[w].label
  BY <1>1, <1>2 DEF Committed, Relabelled
<1>6. QED
  BY <1>4, <1>5

\* Whatever else happens, a connection reaches what it reached.
LEMMA RedirectStep ==
  ASSUME AnyInv, Next, NEW id \in Ids, Present(id), Present(id)', Reaches(id)' # Reaches(id)
  PROVE  \E w \in Writers : Lands(w) /\ task[w].id = id
<1>t. TypeOK /\ TypeOK'
  BY TypeStep DEF AnyInv
<1>1. store'[id] # store[id]
  BY EndpointsStay DEF Reaches
<1>2. ~Rename(id)
  BY <1>t, RenameEffect DEF Reaches
<1>3. PICK w \in Writers : EditCommit(w) /\ task[w].id = id
  BY <1>1, <1>2, RecordsStay
<1>4. Committed(w)
  BY <1>3, <1>t, CommitEffect
<1>5. Lands(w)
  BY <1>3, <1>4 DEF Lands, Committed, EditCommit, idle
<1>6. QED
  BY <1>3, <1>5

\* Without overlapping writes, an edit that lands replaces what its body states and
\* keeps the credential, the tunnel and the label it does not, and nothing but such
\* an edit changes what a connection reaches (UpdateConnection.execute and the
\* factory's rebuild).
THEOREM EditTheorem == ASSUME Serialised PROVE Spec => EditsKeepTheRest
<1> DEFINE L == \A w \in Writers, id \in Ids :
                  (Lands(w) /\ task[w].id = id /\ Present(id)) =>
                    /\ Reaches(id)' = Asked(Reaches(id), task[w].config)
                    /\ store'[id].label = IF task[w].label = Unnamed THEN store[id].label
                                                                    ELSE task[w].label
           R == \A id \in Ids : Present(id) /\ Present(id)' /\ Reaches(id)' # Reaches(id) =>
                  \E w \in Writers : Lands(w) /\ task[w].id = id
<1>1. AnyInv /\ SerialInv /\ [Next]_vars => [L]_vars
  BY LandingStep
<1>2. AnyInv /\ SerialInv /\ [Next]_vars => [R]_vars
  BY RedirectStep
<1>3. QED
  BY <1>1, <1>2, AnyInvariant, SerialInvariant, PTL
     DEF Spec, EditsKeepTheRest, EditLandsAsAsked, OnlyEditsRedirect
=============================================================================
