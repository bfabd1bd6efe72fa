# A verification project for dbboard-web

TLA+ models of dbboard-web (a database browser: a NestJS API in
`apps/api`, a Nuxt page in `apps/web`), the TLC runs that check them, and
proofs checked by TLAPS. Paths below are relative to `src/`.

The program is single-threaded twice over, once in Node and once in the
browser. Its difficulty is in the `await`s: a handler reads something, waits
for a database, a bastion or a provider, and then acts on what it read, while
other handlers have run. Every model therefore has one action for each stretch
of code between two awaits, with the locals of the handler in the state.

## 1. Inventory

| Component | State it keeps | Operations | What is hard | What makes it correct |
|---|---|---|---|---|
| Connection registry and its use cases (`usecase/{register,update,delete}-connection`, `infrastructure/in-memory-connection-registry`) | a Map from id to record: label, driver, live adapter, non-secret description | POST, PATCH, DELETE, GET `/connections` | PATCH awaits twice (rebuild, close of the old pool) between its read and its upsert; DELETE once | the list describes what it serves; nothing is lost or brought back; an edit changes what it mentions |
| Adapter factory, credential carry-over (`static-adapter-factory`, `postgres-connection-config`, `domain/ssh/tunnel-edit`) | none | create, rebuild | absent, null and blank mean different things | a blank secret is kept, never removed |
| Tunneled adapter (`infrastructure/tunneled-adapter`, `ssh-tunnel`) | inner adapter, forward, `live`, `closed`, `lastUsed`, the shared `refresh` promise | every query, reconnect, close | single-flight health check; rebuild can fail at each step; close during any of it | one forward, none leaked, none cut under a query; closed is closed |
| Recorded AI stream and SSE pipe (`usecase/record-ai-call`, `presentation/ai-sse`) | generator locals, the response, one history record | pull, yield, end, fail, hang up | `return()` on a busy async generator is queued | one truthful record; the provider is told when the client leaves |
| SQL page (`pages/connections/[id]/sql.vue`, `useQueryExecution`, `useEditContext`, `useRowUpdate`, `ResultGrid.vue`, `utils/grid-edit`) | result and provenance, key of the table, staged edits, save in flight | run, browse, describe, edit, save, discard | answers out of order, failures that leave old rows on screen, edits during a save | an edit is written to the row, table and key it was made against |
| Restore (`usecase/restore-database`, `domain/restore/*`, `useRestore`, `RestorePanel.vue`) | plan, consent, script; counts | plan, run, cancel | consent given to one plan, spent on another; partial failure | what is run is what was agreed to; the counts tell what is in the database |
| Dump (`usecase/dump-database`, `domain/dump/*`, `useDump`) | size gate, stream | prepare, stream, confirm, dismiss | client leaves mid-stream | no dump over the limit without a yes |
| AI panel (`useAiAssist`, `internal/sse`) | the run on screen | stream, cancel, atomic call | a replaced stream that still talks | the screen shows the last question's answer only |
| Query history (`record-history`, interceptor, in-memory store, export) | append-only list | record, iterate, export | fire-and-forget writers beside readers | one record for each query, an export is a snapshot |
| Schema browser (`useSchemaBrowser`, `SchemaBrowser.vue`, `useTableDescriptions`) | table list, column cache, worker pool | expand, describe all | bounded concurrency, memoised failures | at most eight describes, all accounted for |
| Connections page (`useConnections`, `ConnectionForm.vue`, `useSshHostKey`) | list, form, fingerprint | refresh, add, edit, probe | answers out of order | the fingerprint pinned is the host's own |
| Host-key policy (`domain/ssh/*`) | none | verify | known_hosts precedence | unknown is refused |
| Database adapters (`infrastructure/*-adapter`) and row write-back (`usecase/update-row`) | pool of sessions | query, batch, describe, update a row | a session goes back with a transaction on it; a COMMIT whose answer is lost; two-query describes; which failure is whose | a batch whose statements leave the transaction alone is whole or absent; what a caller is told of its row is so |
| AI providers (`openai-*`, `anthropic-*`, `domain/ai`) and the SSE readers of both ends | what has been heard | stream, unary call | frames cut anywhere, counts that run, answers that just end | the record tells what was said; a failure is laid at the right door |
| Script splitting (`domain/restore/split`, `plan`) | none | split, classify | quotes, comments, dollar tags, bodies inside each other | the statements are those that were written |
| Query execution and introspection use cases, HTTP shell, presentation | none | | I/O, text | not modelled, see section 7 |

A component is modelled unless section 7 says otherwise.

Interactions: the page calls the API over HTTP; `ExecuteQuery` and its siblings
look an adapter up in the registry and await one call on it; the adapter may be
a tunneled one, which dials a bastion; `UpdateConnection` asks the factory for a
successor of an adapter and closes the old one; the AI controller pipes the
recording generator, which pulls from a provider, into the response, and
writes history.

The hazards, each at its line, are listed in `PROJECT.json` with the properties
that would notice them; a note says where a property holds for some users only.

## 2. Plan

Done: a model of every component above but the three left to section 7, their
runs, and proofs for any values of the constants of: the registry, under any
interleaving and with writes to one connection serialised, its refinement of
`AtomicConnections` included; the tunneled adapter; the SQL page, its schema
browser and its history; the recorded stream and the providers behind it; the
dump and its button; the restore; the adapters' pools and the row write-back;
the AI panel; the connections page and its form; the SSH dial with its
known_hosts files. Section 6 says what each rests on. What remains are the folds
over data, for every input, by the least-number argument of section 6, which
`SshDial` and `AiProviders` needed too: `GridSort` (an edit stays with its row),
then `SseWire` (however the bytes are cut). `SqlSplit`, a scanner of some thirty
states held against a grammar, stays with TLC.

## 3. Modules

| Module | Models | Correspondence |
|---|---|---|
| `ConnectionTypes` | what a connection is made of; `Graft`, `Carry`, `Successor`, `Fresh`, `Relabelled` | `graftSshTunnel`, `carryCredential`, the factory's `rebuild` and `create` |
| `AtomicConnections` | abstract specification: a request is submitted and takes effect in one step, or not at all | what the routes promise |
| `Connections` | the registry and its three writers | one action per stretch between awaits; `task[w]` holds the handler's locals, `adapters` every adapter ever built |
| `ConnectionsPage` | the page's list, banner, one form and every request it has out | `list`, `lastError`, `editing` are `useConnections`' and the page's refs; a `draft` is all that is typed; `calls` are the requests, with their reload |
| `ConnectionsScreen` | page and form together | `WhatIsTypedIsSaved`, what the two owe their user |
| `ConnectionForm` | the form's boxes, the payload, what the server makes of it, and the boxes that makes next | `form` is the boxes, `record` what the registry has |
| `TunneledAdapter` | one tunneled adapter and its callers | `refresh` is how far the run behind the shared promise has got, `closing` the teardown of `close()`, `calls` what each caller awaits; a forward and the pool over it share a number |
| `SshDial` | one forward: the host-key probe, the verdict, client, listener, sockets, close | `dial` is how far `openSshTunnel()` and its handle have got, `box` and `probes` the form's side, `policy` the pin or the known_hosts lines |
| `SqlTransaction` | what stands of a batch between BEGIN and COMMIT, some of whose statements end its transaction | a batch's statements are places; MySQL commits at such a statement, Postgres drops |
| `Adapters` | one driver's pool: batches, typed statements, a row write-back, a describe | `session` is each pooled connection and the transaction left open on it; `ends` the statements of a batch that end its transaction, `applied` what is durable |
| `AiStream` | one streamed answer | `pipe` is the pump, `generator` the recording generator, `returning` a queued `return()` |
| `AiProviders` | inside the generator: a vendor's frames to events, events to a record | `heard` are the frames, `queue` what a frame still has to yield, `tally` the recorder's locals |
| `SseWire` | bytes to frames, at the server and in the browser | `held` is what the `TextDecoder` keeps back, `buffer` the undecoded text |
| `AiPanel` | the provider list, the panel's switches, both ways of asking | `ai` and `panel` are the refs of `useAiAssist` and `AiPanel.vue`, `asks` every request sent |
| `Dump` | one dump: preflight, generator, controller, a leaving client | `stage` is how far the generator has got, `chunk` what it has yielded, `draining` the controller's wait; a row is its key |
| `DumpButton` | the button and its question | the refs of `useDump` |
| `DumpScreen` | dump and button together | `DumpIsTrue`, what the two owe their user |
| `QueryPage` | one visit to the SQL page | `runs`, `describes`, `saving` are requests in flight; `result`, `sourceTable`, `table`, `pk`, `staged`, `editing` are the refs of that name; a cell is its row |
| `GridSort` | the display order of a result and the edits staged through it | `keys` is `useResultSort`'s, `Order` is `sortedRowOrder`; cells are ranked as `utils/sort.ts` ranks types |
| `SchemaSidebar` | the table list, its columns, the fan-out of describes | `entry` is `columnCache`, `probe` the memoised promise, `fan` the latest `describeAll` |
| `History` | recording, the store, an export, the sidebar that reads it | `log` is the store, `fetch` each export and what it has still to send |
| `Restore` | the restore panel, the runs it posts and the server applying them | `state`, `script`, `plan`, `confirmed`, `outcome`, `inFlight` are the refs and locals of `useRestore`; `reading` is the await on `file.text()`; a record of `runs` is a request: its client side, the progress of `RestoreDatabase.run` and what the database holds of it |
| `SqlSplit` | `splitStatements` and `classifyScript` as operators | the scanner, one character at a time |
| `SqlScript` | somebody writing a script, piece by piece, by the rules of the dialects | the reference `SqlSplit` is held against |
| `MC*` | instances for TLC, see below | |
| `ConnectionsProofs`, `TunneledAdapterProofs`, `SqlPageProofs`, `StreamsProofs`, `RestoreProofs`, `AdaptersProofs`, `AiPanelProofs`, `PageAndDialProofs` | theorems | the module they are named for; `SqlPageProofs` is about `QueryPage`, `SchemaSidebar` and `History`, `StreamsProofs` about `AiStream`, `AiProviders` and `DumpScreen`, `PageAndDialProofs` about `ConnectionsScreen` and `SshDial`: what stands in one of them shares no variable |

Operators named `Mut...` are plausible bugs of the code, written beside the
definition they alter; `PROJECT.json` says which property notices which.

Variables and fields commented "observation" record history for the properties
and guard nothing.

What is abstracted: a `target` is everything about the database end that is
not secret, a `bastion` a whole tunnel, a `credential` a password or token. In
`Connections` an adapter is open until it is asked to close and then takes no
work: what goes on inside is `TunneledAdapter`'s subject, and a dial, one step
that works or fails there, is `SshDial`'s. `pool.end()` waits for the queries it
is running and rejects at once when called again, as `pg`'s does. In `AiStream`
events are counted and only `message_stop` is told apart; their content is
`AiProviders`' subject. In `AiPanel` a piece of text is the question it answers.
In `Adapters` a statement is a place in its batch, and of an error the code and
errno are all that is kept. In `ConnectionForm` the host
stands for every box that travels as it does. In `QueryPage` every result has
rows and all tables name their key columns alike, so that nothing is refused for
the column's absence. In `Restore` a script is the kinds of its statements, as
`SqlSplit` labels them, every DDL statement creates a table, and nobody drops
one. Of the statements labelled `other` or `unparsed` two are told apart:
`lock` stands for LOCK TABLES, GRANT, ANALYZE and their like, at which MySQL
commits as it does at DDL, `abort` for ABORT and PREPARE TRANSACTION, which drop
a Postgres transaction and are not stripped as control. `MCRestore` writes the
three scripts as texts as well and assumes, for TLC to evaluate, that splitting
them gives those kinds. In `SqlSplit` a keyword is one
letter.

### Composition

Some of these modules meet only in a value one hands the other: the tunneled
adapter sees a dial as done or failed, the restore a script as split, the
stream an event as yielded. They share no variable, so interleaving them would
multiply states and reach nothing new. `MCServers`, `MCStreams`, `MCSqlPage`,
`MCConnectionsPage` and `MCScripts` therefore extend or instantiate several of them,
with a constant `focus`: the component in focus moves, the others rest in their initial
state. Every behaviour of every component is a behaviour of the instance, and
each property is checked over all of them. Fairness is stated for each. Where
components do share state they are one module: the registry and its writers, the
pump and its generator, the panel and the run it posted, the page and its grid.

## 4. Runs

| Run | Shows | Bounds |
|---|---|---|
| `Connections_any` | whatever overlaps: types, `DescribesWhatItServes`, `DeadIsBeingReplaced`, `EditKeepsPosition`, `DeadConnectionHeals`; of the page `QuietListIsTrue`; of page and form `WhatIsTypedIsSaved` | 2 writers, 2 ids, 3 adapters, one label, target and bastion: enough for two handlers on one record and a bystander. Page: 4 requests, 2 drafts. Form: 5 drivers, 2 hosts, one value of each secret, 2 edits before a submission |
| `Connections_serial` | no overlap on one id: `NoPoolIsLost`, `DeletedStaysDeleted`, `EditsKeepTheRest`, refinement `AtomicSpec` | same registry, with 2 labels, a bastion and a credential |
| `Connections_resurrect` | what overlap costs (violation) | as in `_any` |
| `TunneledAdapter_all` | types, `OneForward`, `NoForwardIsLeaked`, `ForwardOutlivesQueries`, `QuietCloseIsFinal`, `NobodyWaitsForEver`; below it `SessionsAreTrusted`; beside it `BatchesAreWhole`, `AnswersAreTrue` | 3 callers, all may reconnect, 4 forwards: two can rebuild again while a third runs. 2 hosts, 2 keys, 2 probes (the second overtakes the first), 2 sockets. 4 engines, 2 sessions, 2 batches of 2: one to inherit what the other left, and one of them at most with statements that end its transaction (`OneEndsItsTransaction`); 6 kinds of failure; two calls of batch and row write (`TwoCalls`), one of them at most failing in a way only its name tells from a socket's (`OddFailuresAreFew`) |
| `TunneledAdapter_reopened` | violation, without any reconnect | 2 callers |
| `AiStream_all` | `HistoryIsTrue`, `HangupReachesProvider` of the pipe; `StreamerIsTold` of the pipe, the wire (`FramesArriveWhole`) and the dump (`NobodyIsWaitedFor`); `AnswerIsTold` of the providers; `PanelIsTrue`, `CancelIsClean`; `DumpIsTrue` | 5 events (the machine looks at most one back); 4 vendor frames, text capped after one piece; 2 frames on the wire, every cut of them; 3 questions: two replaced; 3 keys in pages of 2 and one write by others; 4 downloads |
| `AiStream_stalled` | violation: provider stalls | 5 events |
| `QueryPage_any` | `OnlyOwnRowsAreEditable` for any user (of rows a browse brought), `PatienceIsEnough` for a patient one; `SortMovesNoEdit`; `SchemaIsTold`, `FanOutEnds`, `HistoryIsTold` | 2 tables (one without a key), 2 rows, 3 runs: two overtaken answers; results of 2 and 3 rows with ties, NULLs, a short row and mixed types, 2 sort keys, 2 staged edits; 3 tables over a pool of 2; 2 requests and 2 exports |
| `QueryPage_halfsaved` | violation | 2 runs |
| `Restore_all` | `ReportIsTrue`, `RunEnds` for any user, `ConsentIsKept`; `ScriptIsRead` | four kinds of engine, 3 scripts (`dump`: transaction control, schema and data; `rows`: data; `odd`: a LOCK TABLES, an ABORT and data, the only script of its visit, `OddComesAlone`), 2 preflights, 2 runs (1 for an impatient user, whose preflights overlap it); scripts of 3 pieces and 2 statement ends |
| `Restore_mysql`, `_consent` | violations | same; `_mysql` on MySQL only, without the odd script |

`MaxForwards`, `MaxEvents`, `MaxRuns` and the set `Adapters` bound what would
grow without end, and so do the other `Max` constants. Deadlock is checked where
the code has no end of its own; the visits of `QueryPage` and `Restore` may stop
once their runs are spent, and the composed instances let a component that has
come to its bound rest. `Serialised` restricts clients, not code: TRUE means
that no request on an id starts while another holds that id. `patient` is a
habit of the user, chosen in the initial state, so that both kinds are checked:
a patient one lets each request end before the next, saves nothing under an
error banner, lets a file be planned before going on, and leaves an answered
question alone. `waits` (in `History`) is the like: only the Run button is disabled while a
run is out, Ctrl+Enter, a browse and a save's reload are not. `tidy` (in `AiPanel`) is a habit of the server: an error it
sends in band is the last thing it sends. `Reconnecters` says who may call
`reconnect()`, which no route does today.

A known_hosts file has at most `MaxLines` lines of `PatternsPerLine` patterns,
one of which may match nothing; two of each are enough for a line or a pattern
to come before or after the one that overrules it, and the proof has any number.

The symmetry of writers and of adapters is used in the runs without a liveness
property, and only there.

The conjuncts of a property that a run checks over several components are named
in its MC module or at the end of the component's: `ReportIsTrue` joins
`AllOrNothing` (of batches whose statements leave the transaction alone),
`StopLeavesAPrefix`, `CountsAreTrue` (of scripts that do not drop their own
transaction) and `HangupStopsTheRestore`,
`ConsentIsKept` joins `StalePlanIsHarmless`, `PatientUserAgreed` and
`RunningCanBeCancelled`, and so on.

### What the violations say

Each is a disagreement between a sentence in the repository and what the code
does; `PROJECT.json` quotes it. An edit that overlaps a deletion brings the
connection back; a tunneled adapter closed during a rebuild dials again and
keeps the forward; a stalled provider is never told of a hangup; after a
half-failed save the rows that landed stay marked; a failed restore of a dump
into MySQL leaves the tables it had created; a plan that arrives late is shown,
and can be agreed to, over the script of another file.

### Met on the way

Not given a run of their own. The models have all of these behaviours; where a
property would fail, it is stated for the users or the inputs it holds for, and
its comment says so.

Connections and their page:

* two overlapping edits of one connection leave a pool open that nothing refers
  to (`update-connection.use-case.ts:77-78`): `NoPoolIsLost` holds of
  `Connections_serial` and fails with `Serialised = FALSE`; so does
  `EditsKeepTheRest`: an edit that overlaps a rename, or the edit that stored a
  password or a tunnel, undoes it (`:71,77`);
* a user who types the next connection before the last one is answered loses
  what is typed (`index.vue:53,63`); one whose requests overlap may keep the
  older list (`useConnections.ts:228`), and an older success clears the banner
  of a newer failure;
* a registration that worked and whose reload failed leaves the form filled, and
  a second submission registers it twice (`index.vue:51-53`);
* the form has no box for a Turso token or a D1 account, so those connections
  cannot be reconfigured there, and MySQL by parts is refused for want of a
  database URL; its TLS select says what is dialled "always"
  (`ConnectionForm.vue:102-104`), which for MySQL it does not.

Tunnels and adapters:

* a reconnect that outwaited one refresh may join the next one, started by
  another caller in between, and return without having reconnected
  (`tunneled-adapter.ts:264-265`);
* after `close()`, a failing probe tears the pair down a second time; the pool
  refuses its second `end()` at once, and the forward is cut under queries the
  first teardown still waits for (`tunneled-adapter.ts:146-156`), hence the
  `~closed` in `ForwardOutlivesQueries`;
* a listen that fails after the session is up leaves the session
  (`ssh-tunnel.ts:212`);
* a probe that fails leaves the pin of the host probed before in its box, the
  host having changed, although `useSshHostKey.ts:55-57` clears the answer for
  that reason;
* a row write-back through a pooled session on which a typed `BEGIN` was left
  joins that transaction; a describe whose two queries straddle an `ALTER` tells
  of neither table; an UPDATE that hits several rows is committed and reported as
  a conflict (`update-row.use-case.ts:67`);
* how far a driver can tell a failure. Postgres takes for the connection's what
  has no code or one of a list; a socket's code outside it (`EPIPE`) and TLS's
  are the statement's. MySQL takes for it what has a code and no errno: "a Node
  socket failure carries only a string code" (`mysql-adapter.ts:636-638`). Node's
  `ECONNREFUSED` and its like carry a number for errno too, so a MySQL server
  that is down is answered as a wrong statement, and so is a plain error.
  `FailureIsLaidRight` asks of each driver what it can tell;
* a failed table listing is a 400 on Postgres and Turso and a 502 on MySQL
  and D1. The dump's button takes a 400 for the size question, so a failed
  listing is shown as one (`useDump.ts:77` says there is no other);
* MySQL commits at a DDL statement, a LOCK TABLES or a GRANT of a batch even when
  it then refuses the statement; what stands afterwards is the batch up to there.

Streams:

* an answer that ended in an in-band error and then fails on the wire lands on
  the answer after it (`useAiAssist.ts:241`), unless the server is `tidy`;
* an Anthropic stream cut cleanly before `message_stop` is recorded as complete,
  with no stop reason; an OpenAI one without `[DONE]` counts as complete; an
  unterminated last frame is dropped;
* the buttons of an answered dump question stay clickable while the confirmed
  dump runs.

The SQL page:

* saving while another browse is in flight, or after one has failed, reloads
  that browse's statement under the older rows' table and key
  (`sql.vue:131-134`), although its comment says it "re-runs the statement that
  produced the rows" (`:125`): edits staged on one table can then be made to
  another's rows. `PatienceIsEnough` holds, `RowsAreLabelled` for every user does
  not, and `BrowsedRowsAreOwn` excepts what a save reloaded;
* edits staged while a save is in flight vanish when it lands
  (`ResultGrid.vue:382-383`);
* an older run that succeeds after a newer one failed clears the newer one's
  banner (`useQueryExecution.ts:77-80`);
* a capability probe that fails is remembered: columns come by `LIMIT 0` for the
  rest of the visit (`useSchemaBrowser.ts:139-150`), and a refreshed table list
  does not renew columns already loaded (`SchemaBrowser.vue:87`);
* a clock set back during a request makes its duration negative, and the record
  is refused by its own schema (`record-history.use-case.ts:85`).

Restore:

* an ABORT or a PREPARE TRANSACTION in a script is not taken for transaction
  control (`plan.ts:197-205`), although "the runner owns the transaction
  boundary" (`:109`): on Postgres what the batch did before it is dropped, what
  follows stays, and all of it is counted. `AllOrNothing` and `CountsAreTrue`
  except such scripts, and `AllOrNothing` those MySQL commits at;
* a restore cancelled after its batch has begun is not rolled back: the batch
  runs on and commits, although `useRestore.ts:17-20` says the server rolls
  back when it notices the socket close;
* the splitter's rules are those of the dumps it names (`split.ts:16-20`): a
  backslash in a MySQL literal, MySQL's `--1`, SQLite's comments, which do not
  nest, and a Postgres name with `$x$` inside are read otherwise than the engine
  would. `SqlScript` writes none of them.

## 5. Fairness

* `Connections!Fairness`: weak fairness of `EditCommit` and `DeleteDone`. The
  awaited `close()` settles, resolved or rejected, and the event loop runs the
  continuation. Nothing is assumed of the factory or of clients.
* `TunneledAdapter!Fairness`: weak fairness of the refresh as a whole, of the
  end of close(), and of each caller's continuation and answer. A dial has
  ssh2's handshake timeout, a dead session the 30 s keepalive. That a query
  itself ends is an assumption on the driver: Postgres sets `query_timeout`.
  A rebuild waits for running queries, so without it everyone can wait.
* `SshDial!DialFairness`: Node calls the callback of `server.close()` once no
  socket is left. Nothing is assumed of the sockets' other ends.
* `AiStream!ServerSpec`: the server's continuations run. `LiveSpec` adds that
  the provider goes on sending, ending or failing; `AiStream_stalled` shows
  that the property needs it.
* `AiPanel!FairPanelSpec`: an aborted fetch rejects. Nothing is assumed of the server.
* `SchemaSidebar!FanFairness`: each describe of the fan-out is answered or
  fails, and its worker goes on.
* `Restore!RestoreFairness`: the server works on each run it has, and the panel
  gets its answer or its own abort. Adapters have statement timeouts or
  transports that fail; the network may lose an answer, which `Lost` reports as
  a failure.

## 6. Proofs

Each component's module ends with the inductive invariant its proofs need, as a
conjunction of named parts, and with what they ask of its constants. TLC found
each invariant to hold on the instance of the component's run before it was
proved. The assumptions on constants are `ASSUME`s that TLC evaluates: in the
module itself, or, for a module checked together with others (`Adapters`,
`AiPanel`, `ConnectionsPage`, `SshDial`), in the MC module, and then they are a
hypothesis of the theorem.

`ConnectionsProofs`, under any interleaving: for every set of writers, ids and
adapters, `AnyInv` is inductive. It joins the type invariant with: ids are
issued, an adapter serves at most one id and is held by requests on that id only
(`AdaptersAreOwned`), what a request holds was built and is closed once it waits
for the close (`HeldAdapters`), and a successor is open and known to its edit
only (`SuccessorsArePrivate`). Without ownership a deletion of one id could close
the adapter of another, and `DeadIsBeingReplaced` would not be inductive. From it
follow `TypeCorrect`, `DescriptionTheorem`, `DeadConnectionTheorem` and
`PositionTheorem`. The steps on adapters are first summarised by lemmas
(`RegisterEffect`, `RebuiltEffect`, `CommitEffect`, `DeletionEffect`) that each
conjunct's proof then cites.

The same module, with `Serialised` (a restriction on clients, section 4) as a
hypothesis: `SerialInv` adds that the record a request read is still the one
stored, that one request at most holds an id (`HeldIsCurrent`), and that a
successor is the edit applied to what it replaces (`SuccessorIsTheEdit`).
`PoolTheorem` and `DeletionTheorem` read `NoPoolIsLost` and `DeletedStaysDeleted`
off it. `EditTheorem` proves of each step that an edit that lands leaves what it
was asked for on top of what is then stored (`Asked`, from `SuccessorIsTheEdit`),
and of any other that it changes nothing a connection reaches (`RedirectStep`).
`RefinementTheorem`
shows that `Connections` implements `AtomicConnections`: initial states map to
initial states; a request begins where the abstract one is submitted, an edit
takes effect at its upsert and a deletion at its removal, each with the abstract
step of that name; a close, and a step that does not finish a request, stutters.
It needs that `Missing` is not an entry.

`TunneledAdapterProofs` proves `TunnelInv` inductive for any callers and any
bound on forwards: the pair held is the only one up but for the one being
built (`PairIsHeld`), each step of a refresh determines what is up
(`RefreshIsExclusive`), a close concerns the pair held or an older one
(`CloseIsForHeld`), and no query runs over a pair still being built
(`QueriesAreAdmitted`). `OneForward`, `NoForwardIsLeaked` and
`ForwardOutlivesQueries` follow. `QuietCloseTheorem` is `QuietCloseIsFinal`
without its wait: after a close() that met no refresh and no reconnect nothing is
dialled again, and a forward still up is the one close() is draining.

`SqlPageProofs`, of `QueryPage`: for any tables, any finite set of rows and any
number of runs. `OnlyOwnRowsAreEditable` is inductive with four facts beside it: a
describe whose generation is the current one is of the current table
(`DescribesAreDated`), a typed statement has no provenance (`TypedHasNoSource`),
the provenance of a browse is what it reads, in flight and on screen
(`BrowseIsLabelled`, a save's reload excepted: section 4), and rows with a provenance have a statement to reload (`BrowseIsKnown`).
`PatienceTheorem` needs `PatientInv` on top: one thing in flight, and the
statement browsed last is the one behind the rows unless its run is still out or
has failed. Of `SchemaSidebar`: each index below `next` of a fan-out is a
worker's, or has its description or its failure, and no two of these
(`SchemaTheorem`, for any number of workers). Of `History`: a request that is
dealt with has one record and any other none, a sidebar's list was the log at
the moment its fetch was made, and an export has sent a beginning of its
snapshot (`HistoryTheorem`).

`StreamsProofs`, of `AiStream`: `StreamInv` lists where the generator can be at each await of
the pump (`PipeAndGenerator`); with what `terminus` and the record can be at each
point, `HistoryIsTrue` follows, and so does `HangupTheorem`: nothing is written
to a response whose client has left.

Of `Dump`, for any tables and keys, any sizes of page, batch and gate, and others
who insert and delete meanwhile: the cursor parts what a keyed table has told,
all of it at or below, from what it has not (`Parted`), so that a page never
repeats a row and never steps over one that stayed; a table already passed is
whole or noted (`NothingIsMissed`). The gate compares a count made earlier than
the rows it lets through; `WithinTheGate` therefore keeps two sets, no larger
than what was counted and what was inserted since, that hold all that has left.
`NoBigDumpUnasked` bounds the file by them. For the button one download at a time
needs only that those under way were sent. `DumpTheorem` joins the two.

Of `AiProviders`, for any number of frames, any cap and whatever the vendors
send: the tally of `runRecordedAiStream` is behind the frames heard by what is
still queued, all of it of the last frame (`Tells`); the queue continues the
bracket that what was yielded has opened (`Bracketed`). A frame makes at most a
start, a text, a count and a stop, in this order (`FrameEvents`, by way of the
sixteen ways to lay out four things that may be absent, `FourAtMost`).
`AnswerTheorem` then says of the record that it has the text, the last counts
and the reason of the frames listened to; that what is listened to up to is a
sequence in order of the frames with text is unique (`RisesOnce`, from the least
place where two such would differ).

`RestoreProofs`: for any scripts on any engine. `Sound` says of a run what its
`next`, its two counts, its landed statements and its hangups are to each other:
in the loop every statement behind `next` was counted once; of a batch that is
done what its engine has closed has landed, and of one that failed all or
nothing, if no statement ends its transaction (`Batched`, over `Standing` and
`AfterCommit` of `SqlTransaction`); once an abort was heard at most the statement in flight
lands. `ReportTheorem` reads the four parts of `ReportIsTrue` off it.
`ConsentTheorem` needs that a run which found tables without a yes never gets
past the gate, for any user, and for a patient one that there is one file, one
plan and one run at a time (`PatientInv`).

`AdaptersProofs`: for any sessions, batches and batch size. A session that is
out is out to exactly one batch, and one in the pool has no batch's transaction
open (`SessionsAreHeld`); on its way what is durable of a batch is what its place
and the statements that end its transaction make it, and it fails as its driver
names the failure (`CallSound`, `Leaves`). `BatchTheorem` and
`AnswerTheorem` follow. `PragmaKeepsTheKey` is their hypothesis: that sorting a
key's places in the PRAGMA's rows gives the key back is a fact about the two
shapes a table can have, evaluated by TLC, since `SelectSeq` and `SortSeq` are
out of the prover's reach.

`AiPanelProofs`: for any finite set of providers and any number of questions.
An open stream is the one of the moment or was told to stop when another took
its place (`StreamsAreReplaced`), and with a `tidy` server the last question is
the one waited for (`LastIsWaitedFor`). `PanelTheorem` and `CancelTheorem`, that
the end of a cancelled stream puts up no banner, follow.

`PageAndDialProofs`, of `ConnectionsPage`: for a user who waits one request is
on its way, the last, and what it writes is in the form still and, once written,
at the server (`OneRequest`), a deletion of an id that was gone already included.
`QuietListTheorem` says the list on screen is the
server's, `DraftTheorem` that no answer takes away a draft the server has not
taken. Of `ConnectionForm`, for any hosts, passwords, keys and pins: each record
the form meets is one its driver can build (`FormInv`), and the boxes show the
server that is dialled, so a form sent back untouched moves nothing
(`FormTheorem`). `ScreenTheorem` joins page and form. Of `SshDial`: what the verifier said is still what the policy says, no
session got past it otherwise (`VerdictStands`), and one probe at most is out,
the last (`OneProbe`). That a verdict is what the file means, whatever the order
of its lines and patterns and however many, is `VerdictAsMeant`. The passes over
them are recursive functions. The library's induction theorems take an operator,
which no prover here can instantiate; its least-element theorem (`WFMin`) takes a
set, so `LeastNumber` and `Onward` argue from the least number at which a claim
would fail, first that the recursive function exists, then what it computes.

What could not be reasoned about was rewritten to the same effect: a CASE with
overlapping arms as IF, `Restore!Runnable` as the set of the statements to run
with their `Place` instead of a `SelectSeq`, a description's names as members of
`Names`, because the prover cannot place a string literal in STRING, the readers
of a known_hosts file as functions of their own, record sets in place of
comprehensions over several variables, an order stated of places in place of a
fold, `AiProviders!Texts` and `LastSaid` as the sequence and the place with the
property meant in place of the fold that builds it.

Only model-checked, and why:

* every liveness property (`DeadConnectionHeals`, `NobodyWaitsForEver`,
  `HangupReachesProvider`, `FanOutEnds`, `RunEnds`, the waiting parts of
  `StreamerIsTold` and `CancelIsClean`), whose proof would need ENABLED;
  `NobodyIsWaitedFor` of `Dump`, which speaks of it; `QuietCloseIsFinal` as far
  as it waits;
* `SortMovesNoEdit`, `ScriptIsRead` and `FramesArriveWhole`: what `GridSort`,
  `SqlSplit` and `SseWire` compute, folds over data that an induction would have
  to follow character by character;
* the joint type invariants `StreamsTypeOK`, `PageTypeOK` and `ScriptsTypeOK`,
  conjunctions of those of the components: each part but those of the three
  modules just named is a conjunct of an invariant proved above.

## 7. Not modelled

* Query execution and introspection use cases: a lookup and one awaited call
  each, over an adapter `Adapters` has; a row cap.
* The HTTP shell: wiring, one authentication header, environment variables.
* Presentation: themes, layout, translations, virtual scrolling.
* Of the adapters: decoding of cells, type names, quoting, the text of DDL. Of
  the providers: the environment they are configured from, the registry (a fixed
  list read once), prompts. Of history: the reader of NDJSON lines, which only
  ever meets lines this program wrote. Of restore: `reset()`, which nothing
  calls.

They are I/O or text, without interleaving of their own. Persistence is absent
from the program (both stores are in memory), so there is no crash recovery to
model.
