------------------------------- MODULE Restore -------------------------------
(***************************************************************************)
(* Restoring a .sql script: the panel that plans it, asks and runs it      *)
(* (useRestore, RestorePanel) and the server that applies it statement by  *)
(* statement or as one batch (RestoreDatabase and the adapters' batches),  *)
(* for a client that may cancel and a target others write to as well.      *)
(*                                                                         *)
(* A script is its statements' kinds.  A statement is known by its place   *)
(* among the runnable ones.  Every DDL statement creates a table.          *)
(***************************************************************************)
EXTENDS Naturals, Sequences, FiniteSets, SqlTransaction

CONSTANTS
  Scripts,
  Statements,  \* what each script splits into
  Engines,     \* those the target may be
  MaxPlans,    \* bounds on the preflights
  MaxRuns,     \*   and the runs of one visit,
  MaxHasty,    \*   fewer for a user who is not patient, as they overlap
  None         \* null

\* classifyScript() labels a statement, and only "transaction_control" is not
\* run.  Of what else there is, "lock" stands for those MySQL commits at beside
\* DDL (LOCK TABLES, GRANT, ANALYZE), "abort" for those that drop a Postgres
\* transaction and are not known as control (ABORT, PREPARE TRANSACTION), and
\* "data" for all that leave the transaction alone.
Kind == {"ddl", "data", "lock", "abort", "control"}

\* Postgres and Turso batch in a transaction, MySQL in one that some statements
\* commit, D1 runs single statements, the null adapter none.
Engine == {"transaction", "implicit", "statement", "none"}

ASSUME RestoreAssumption ==
  /\ Statements \in [Scripts -> Seq(Kind)]
  /\ Engines \subseteq Engine
  /\ {MaxPlans, MaxRuns, MaxHasty} \subseteq Nat /\ MaxHasty <= MaxRuns
  /\ None \notin Nat \cup Scripts

\* runnableStatements(): the runner owns the transaction boundary.
Runnable(s) == {i \in DOMAIN Statements[s] : Statements[s][i] # "control"}
Size(s)     == Cardinality(Runnable(s))
Place(s, i) == Cardinality({j \in Runnable(s) : j <= i})
Places(s, kinds) == {Place(s, i) : i \in {j \in Runnable(s) : Statements[s][j] \in kinds}}
Ddl(s)      == Places(s, {"ddl"})

VARIABLES
  engine,
  patient,   \* the user waits for a file to be planned before going on (a habit)
  tables,    \* the target holds tables
  reading,   \* files chosen whose text is being read
  plans,     \* preflights in flight
  planned,   \* preflights so far
  state,     \* the panel's refs of these names
  script,
  plan,
  confirmed,
  outcome,   \*   the run it came from
  inFlight,
  ticked,    \* the plan on screen when the box was last ticked (observation only)
  runs       \* every run posted

vars == <<engine, patient, tables, reading, plans, planned, state, script, plan,
          confirmed, outcome, inFlight, ticked, runs>>
world == <<engine, patient>>

\* The statements that end a batch's transaction, and what they do to it.
Ends(s) == CASE engine = "implicit"    -> Places(s, {"ddl", "lock"})
             [] engine = "transaction" -> Places(s, {"abort"})
             [] OTHER                  -> {}
Commits == engine = "implicit"

\* Only Postgres knows an ABORT; elsewhere it is refused.
Known(run) == engine = "transaction" \/ run.next \notin Places(run.script, {"abort"})

panel == <<reading, plans, planned, state, script, plan, confirmed, outcome,
           inFlight, ticked>>

Plan == [id: 1..MaxPlans, script: Scripts, empty: BOOLEAN]

\* `landed`: what is in the database for good.  Observation only: `informed`,
\* what ran was planned and agreed to; `found`, the target had tables when it
\* was posted; `early` and `before`, the server heard of the hangup while it
\* was preparing, with so much landed.
Run == [script: Scripts, confirmed: BOOLEAN, onError: {"stop", "continue"},
        client: {"waiting", "aborting", "gone", "answered"},
        server: {"preparing", "batch", "loop", "executing", "done", "failed"},
        aborted: BOOLEAN, cancelled: BOOLEAN,
        next: Nat, statementsRun: Nat, failures: Nat, landed: SUBSET (Nat \ {0}),
        informed: BOOLEAN, found: BOOLEAN, early: BOOLEAN, before: Nat]

TypeOK ==
  /\ engine \in Engines /\ patient \in BOOLEAN /\ tables \in BOOLEAN
  /\ reading \in SUBSET Scripts
  /\ plans \in SUBSET [id: 1..MaxPlans, script: Scripts]
  /\ planned \in 0..MaxPlans
  /\ state \in {"idle", "planning", "ready", "running", "done", "cancelled", "failed"}
  /\ script \in Scripts \cup {None}
  /\ plan \in Plan \cup {None}
  /\ confirmed \in BOOLEAN
  /\ outcome \in 1..MaxRuns \cup {None}
  /\ inFlight \in 1..MaxRuns \cup {None}
  /\ ticked \in 0..MaxPlans
  /\ runs \in Seq(Run) /\ Len(runs) <= MaxRuns
  /\ \A r \in DOMAIN runs : /\ runs[r].landed \subseteq 1..Size(runs[r].script)
                            /\ runs[r].next <= Size(runs[r].script) + 1

Init ==
  /\ engine \in Engines /\ patient \in BOOLEAN /\ tables \in BOOLEAN
  /\ reading = {}
  /\ plans = {}
  /\ planned = 0
  /\ state = "idle"
  /\ script = None
  /\ plan = None
  /\ confirmed = FALSE
  /\ outcome = None
  /\ inFlight = None
  /\ ticked = 0
  /\ runs = <<>>

-----------------------------------------------------------------------------
(***************************************************************************)
(* The panel.                                                              *)
(***************************************************************************)
\* onFileChange() up to file.text().  The input is disabled during a run only.
ChooseFile(s) ==
  /\ state # "running" /\ planned + Cardinality(reading) < MaxPlans
  /\ patient => reading = {} /\ plans = {}
  /\ reading' = reading \cup {s}
  /\ UNCHANGED <<world, tables, plans, planned, state, script, plan, confirmed,
                 outcome, inFlight, ticked, runs>>

MutPreflightKeepsConsent(s) ==
  /\ s \in reading
  /\ reading' = reading \ {s}
  /\ script' = s
  /\ plan' = None
  /\ outcome' = None
  /\ state' = "planning"
  /\ planned' = planned + 1
  /\ plans' = plans \cup {[id |-> planned + 1, script |-> s]}
  /\ UNCHANGED <<world, tables, confirmed, inFlight, ticked, runs>>

\* preflight() up to its request: the first file's answers are dropped.
Preflight(s) ==
  /\ s \in reading
  /\ reading' = reading \ {s}
  /\ script' = s
  /\ plan' = None
  /\ outcome' = None
  /\ confirmed' = FALSE
  /\ state' = "planning"
  /\ planned' = planned + 1
  /\ plans' = plans \cup {[id |-> planned + 1, script |-> s]}
  /\ UNCHANGED <<world, tables, inFlight, ticked, runs>>

PlanAnswered(p) ==
  /\ plans' = plans \ {p}
  /\ plan' = [id |-> p.id, script |-> p.script, empty |-> ~tables]
  /\ state' = "ready"
  /\ UNCHANGED <<world, tables, reading, planned, script, confirmed, outcome,
                 inFlight, ticked, runs>>

PlanFailed(p) ==
  /\ plans' = plans \ {p}
  /\ state' = "failed"
  /\ UNCHANGED <<world, tables, reading, planned, script, plan, confirmed,
                 outcome, inFlight, ticked, runs>>

\* The box, shown while the plan on screen finds tables.
Tick ==
  /\ state = "ready" /\ plan # None /\ ~plan.empty
  /\ confirmed' = ~confirmed
  /\ ticked' = plan.id
  /\ UNCHANGED <<world, tables, reading, plans, planned, state, script, plan,
                 outcome, inFlight, runs>>

CanRun == plan # None /\ (plan.empty \/ confirmed)
MayRun == Len(runs) < (IF patient THEN MaxRuns ELSE MaxHasty)

Post(onError) ==
  Append(runs,
    [script |-> script, confirmed |-> confirmed, onError |-> onError,
     client |-> "waiting", server |-> "preparing",
     aborted |-> FALSE, cancelled |-> FALSE,
     next |-> 1, statementsRun |-> 0, failures |-> 0, landed |-> {},
     informed |-> plan.script = script /\ (confirmed => ticked = plan.id),
     found |-> tables, early |-> FALSE, before |-> 0])

RunScript ==
  /\ state = "ready" /\ script # None /\ CanRun /\ MayRun
  /\ patient => reading = {}
  /\ outcome' = None
  /\ state' = "running"
  /\ \E onError \in {"stop", "continue"} : runs' = Post(onError)
  /\ inFlight' = Len(runs) + 1
  /\ UNCHANGED <<world, tables, reading, plans, planned, script, plan, confirmed,
                 ticked>>

\* The Cancel button, which aborts the request held in `inFlight`, if any.
Cancel ==
  /\ state = "running" /\ inFlight # None /\ runs[inFlight].client = "waiting"
  /\ runs' = [runs EXCEPT ![inFlight].client = "aborting"]
  /\ UNCHANGED <<world, tables, panel>>

\* The end of run(), whichever way, is the end of what Cancel can reach.
Leave(r, client, how, shown) ==
  /\ runs' = [runs EXCEPT ![r].client = client]
  /\ state' = how
  /\ outcome' = shown
  /\ inFlight' = None
  /\ UNCHANGED <<world, tables, reading, plans, planned, script, plan, confirmed,
                 ticked>>

MutAbortedIsSilent(r) ==
  /\ runs[r].client = "aborting"
  /\ Leave(r, "gone", state, outcome)

Aborted(r) ==
  /\ runs[r].client = "aborting"
  /\ Leave(r, "gone", "cancelled", outcome)

Answered(r) ==
  /\ runs[r].client = "waiting"
  /\ \/ runs[r].server = "done" /\ Leave(r, "answered", "done", r)
     \/ runs[r].server = "failed" /\ Leave(r, "answered", "failed", outcome)

\* The network, not the server, fails.
Lost(r) ==
  /\ runs[r].client = "waiting"
  /\ Leave(r, "gone", "failed", outcome)

-----------------------------------------------------------------------------
(***************************************************************************)
(* The server.                                                             *)
(***************************************************************************)
\* Run r is now `run`; its DDL among what landed has made tables.
Becomes(r, run) ==
  /\ runs' = [runs EXCEPT ![r] = run]
  /\ tables' = (tables \/ run.landed \cap Ddl(run.script) # {})
  /\ UNCHANGED <<world, panel>>

\* The response closes before it was written.
HearHangup(r) ==
  LET run == runs[r] IN
  /\ run.client \in {"aborting", "gone"} /\ ~run.aborted
  /\ run.server \notin {"done", "failed"}
  /\ Becomes(r, [run EXCEPT !.aborted = TRUE, !.early = run.server = "preparing",
                            !.before = Cardinality(run.landed)])

\* prepare() has listed the tables; run() passes its gates and picks a path.
Prepare(r) ==
  LET run == runs[r] IN
  /\ run.server = "preparing"
  /\ (tables => run.confirmed) /\ engine # "none"
  /\ IF engine = "statement" THEN Becomes(r, [run EXCEPT !.server = "loop"])
     ELSE IF run.aborted THEN Becomes(r, [run EXCEPT !.server = "done", !.cancelled = TRUE])
     ELSE Becomes(r, [run EXCEPT !.server = "batch"])

\* A gate is shut, the connection unknown, or its tables cannot be listed.
Refuse(r) ==
  /\ runs[r].server = "preparing"
  /\ Becomes(r, [runs[r] EXCEPT !.server = "failed"])

\* A statement of a batch goes through: what stands of it then is for good.
BatchStep(r) ==
  LET run == runs[r] IN
  /\ run.server = "batch" /\ run.next <= Size(run.script) /\ Known(run)
  /\ Becomes(r, [run EXCEPT !.landed = Standing(run.next, Ends(run.script), Commits),
                            !.next = @ + 1])

BatchCommits(r) ==
  LET run == runs[r] IN
  /\ run.server = "batch" /\ run.next > Size(run.script)
  /\ Becomes(r, [run EXCEPT !.server = "done",
                            !.landed = AfterCommit(Size(run.script), Ends(run.script), Commits),
                            !.statementsRun = Size(run.script)])

\* A statement is refused and what is left of the transaction rolled back, or
\* the session breaks, and what it was at may have gone through.
BatchFails(r) ==
  LET run == runs[r] IN
  /\ run.server = "batch"
  /\ \E landed \in Left(run.next - 1, Size(run.script), Ends(run.script), Commits, ~Known(run)) :
       Becomes(r, [run EXCEPT !.server = "failed", !.landed = landed])

MutLoopOneTooMany(r) ==
  LET run == runs[r] IN
  /\ run.server = "loop"
  /\ IF run.next > Size(run.script) + 1 THEN Becomes(r, [run EXCEPT !.server = "done"])
     ELSE IF run.aborted THEN Becomes(r, [run EXCEPT !.server = "done", !.cancelled = TRUE])
     ELSE Becomes(r, [run EXCEPT !.server = "executing"])

\* The top of runPerStatement()'s loop.
Loop(r) ==
  LET run == runs[r] IN
  /\ run.server = "loop"
  /\ IF run.next > Size(run.script) THEN Becomes(r, [run EXCEPT !.server = "done"])
     ELSE IF run.aborted THEN Becomes(r, [run EXCEPT !.server = "done", !.cancelled = TRUE])
     ELSE Becomes(r, [run EXCEPT !.server = "executing"])

StatementRuns(r) ==
  LET run == runs[r] IN
  /\ run.server = "executing" /\ Known(run)
  /\ Becomes(r, [run EXCEPT !.server = "loop", !.next = @ + 1,
                            !.statementsRun = @ + 1, !.landed = @ \cup {run.next}])

MutFailureCounts(r) ==
  LET run == runs[r] IN
  /\ run.server = "executing"
  /\ Becomes(r, [run EXCEPT !.server = IF run.onError = "stop" THEN "done" ELSE "loop",
                            !.next = @ + 1, !.failures = @ + 1, !.statementsRun = @ + 1])

\* It is refused, or its answer is lost on the way back.
StatementFails(r) ==
  LET run == runs[r] IN
  /\ run.server = "executing"
  /\ \E landed \in {run.landed} \cup (IF Known(run) THEN {run.landed \cup {run.next}} ELSE {}) :
       Becomes(r, [run EXCEPT !.server = IF run.onError = "stop" THEN "done" ELSE "loop",
                              !.next = @ + 1, !.failures = @ + 1, !.landed = landed])

\* Somebody else creates the first table.
OtherCreates == ~tables /\ tables' = TRUE /\ UNCHANGED <<world, panel, runs>>

-----------------------------------------------------------------------------
Server(r) == \/ Prepare(r) \/ Refuse(r)
             \/ BatchStep(r) \/ BatchCommits(r) \/ BatchFails(r)
             \/ Loop(r) \/ StatementRuns(r) \/ StatementFails(r)

Next ==
  \/ \E s \in Scripts : ChooseFile(s) \/ Preflight(s)
  \/ \E p \in plans : PlanAnswered(p) \/ PlanFailed(p)
  \/ Tick
  \/ RunScript
  \/ Cancel
  \/ \E r \in DOMAIN runs : Aborted(r) \/ Answered(r) \/ Lost(r)
  \/ \E r \in DOMAIN runs : HearHangup(r) \/ Server(r)
  \/ OtherCreates

Spec == Init /\ [][Next]_vars

\* Adapters answer (each has a statement timeout or a transport that fails),
\* and what the server answers, or the user's own abort, reaches the panel.
RestoreFairness ==
  \A r \in 1..MaxRuns : /\ WF_vars(r \in DOMAIN runs /\ Server(r))
                        /\ WF_vars(r \in DOMAIN runs /\ (Aborted(r) \/ Answered(r)))

FairSpec == Spec /\ RestoreFairness

-----------------------------------------------------------------------------
(***************************************************************************)
(* Properties.                                                             *)
(***************************************************************************)
Over(r)     == runs[r].server \in {"done", "failed"}
Whole(r)    == 1..Size(runs[r].script)
DropsItself(s) == ~Commits /\ Ends(s) # {}
AtOnce(r)   == Over(r) => runs[r].landed \in {{}, Whole(r)}

\* A batch that is over is in the database whole or not at all, also when it
\* failed or its client left, if its statements leave the transaction alone.
AllOrNothing ==
  \A r \in DOMAIN runs :
    engine \in {"transaction", "implicit"} /\ Ends(runs[r].script) = {} => AtOnce(r)

\* The port promises it of every batch of every adapter that has
\* executeInTransaction.
BatchIsAllOrNothing ==
  \A r \in DOMAIN runs : engine \in {"transaction", "implicit"} => AtOnce(r)

\* Without a transaction, "stop" leaves a prefix of the script: whatever ran
\* behind the one statement that failed would have built on it.
StopLeavesAPrefix ==
  \A r \in DOMAIN runs :
    engine = "statement" /\ runs[r].onError = "stop" =>
      \/ runs[r].landed = 1..runs[r].statementsRun
      \/ runs[r].failures = 1 /\ runs[r].landed = 1..(runs[r].statementsRun + 1)

\* The counts on screen account for the database: each statement counted has
\* landed, each that landed was counted or reported as a failure, and a report
\* without failures means the whole script.  (A script that drops its own
\* transaction is counted as run and is not there.)
CountsAreTrue ==
  outcome # None /\ ~DropsItself(runs[outcome].script) =>
    LET run == runs[outcome] IN
    /\ run.statementsRun <= Cardinality(run.landed)
    /\ Cardinality(run.landed) <= run.statementsRun + run.failures
    /\ run.failures = 0 => run.landed = Whole(outcome)

\* A hangup the server hears while it prepares starts nothing; one it hears
\* between statements lets at most the statement in flight through.
HangupStopsTheRestore ==
  \A r \in DOMAIN runs : runs[r].aborted =>
    /\ runs[r].early => runs[r].landed = {}
    /\ engine = "statement" => Cardinality(runs[r].landed) <= runs[r].before + 1

\* What the panel reports and what is in the database agree, however the run
\* ended (restore-database.use-case.ts, RestorePanel.vue).
ReportIsTrue ==
  AllOrNothing /\ StopLeavesAPrefix /\ CountsAreTrue /\ HangupStopsTheRestore

\* A plan that has gone stale cannot overwrite: whatever the panel showed,
\* nothing is applied to a target that had tables when the run was posted
\* unless the user has agreed.
StalePlanIsHarmless ==
  \A r \in DOMAIN runs :
    runs[r].found /\ ~runs[r].confirmed => runs[r].landed = {}

\* What is run is what was planned, and a yes was said to that plan.
RunIsWhatWasAgreed == \A r \in DOMAIN runs : runs[r].informed

\* It is for a user who lets a file be planned before going on.
PatientUserAgreed == patient => RunIsWhatWasAgreed

\* While the panel shows a run, and its Cancel button, there is a request for
\* the button to abort (for that user).
RunningCanBeCancelled == patient /\ state = "running" => inFlight # None

\* A restore is of the user's making: agreed to where there was something to
\* overwrite, and theirs to cancel (useRestore.ts, RestorePanel.vue).
ConsentIsKept == StalePlanIsHarmless /\ PatientUserAgreed /\ RunningCanBeCancelled

\* The panel does not hang in a run, however it ends.
RunEnds == state = "running" ~> state # "running"

-----------------------------------------------------------------------------
(***************************************************************************)
(* The inductive invariant behind them.                                    *)
(***************************************************************************)
\* What a run's path through the server is, and what it has done at each point.
Starts(run) ==
  /\ run.server = "preparing" => /\ run.next = 1 /\ run.statementsRun = 0 /\ run.failures = 0
                                 /\ run.landed = {} /\ ~run.cancelled
  /\ run.next >= 1 /\ (run.server # "failed" => run.landed \subseteq 1..(run.next - 1))
  /\ engine = "none"      => run.server \in {"preparing", "failed"}
  /\ engine = "statement" => run.server # "batch"
  /\ engine # "statement" => run.server \notin {"loop", "executing"}

\* A run the gate should have stopped has not got past it.
Gated(run) ==
  run.found /\ ~run.confirmed => run.server \in {"preparing", "failed"} /\ run.landed = {}

\* A batch: its counts, what stands of it, and its landing whole where nothing
\* ends its transaction.
Batched(run) ==
  engine # "statement" =>
    /\ run.failures = 0
    /\ run.server = "done" =>
         IF run.cancelled THEN run.landed = {} /\ run.statementsRun = 0
         ELSE /\ run.landed = AfterCommit(Size(run.script), Ends(run.script), Commits)
              /\ run.statementsRun = Size(run.script)
    /\ run.server = "failed" /\ Ends(run.script) = {} =>
         run.landed \in {{}, 1..Size(run.script)}

\* The loop: each statement behind it was counted, landed or both, and a
\* hangup it has heard of lets at most the statement in flight through.
Looped(run) ==
  engine = "statement" =>
    /\ run.statementsRun + run.failures = run.next - 1
    /\ run.statementsRun <= Cardinality(run.landed)
    /\ run.failures = 0 => run.landed = 1..(run.next - 1)
    /\ run.server = "executing" => run.next <= Size(run.script)
    /\ run.onError = "stop" =>
         \/ run.failures = 0
         \/ run.failures = 1 /\ run.server = "done"
            /\ run.landed \in {1..run.statementsRun, 1..(run.statementsRun + 1)}
    /\ run.server = "done" /\ ~run.cancelled =>
         run.next > Size(run.script) \/ run.failures > 0
    /\ run.aborted =>
         Cardinality(run.landed) <= run.before + (IF run.server = "executing" THEN 0 ELSE 1)

\* Only a client that is leaving aborts, and only an abort cancels.
HungUp(run) ==
  /\ run.cancelled => run.aborted /\ run.server = "done"
  /\ run.aborted => run.client \in {"aborting", "gone"}
  /\ run.early => /\ run.aborted /\ run.landed = {}
                  /\ run.server \in {"preparing", "loop", "done", "failed"}

Sound(run) == Starts(run) /\ Gated(run) /\ Batched(run) /\ Looped(run) /\ HungUp(run)

\* What was found is still there, and what the panel reports has ended.
RunsInv ==
  \A r \in DOMAIN runs : Sound(runs[r]) /\ (runs[r].found => tables)

OutcomeInv ==
  outcome # None => /\ outcome \in DOMAIN runs
                    /\ runs[outcome].client = "answered" /\ runs[outcome].server = "done"

\* The preflights to come are within the bound.
PlansAreBounded == IsFiniteSet(reading) /\ planned + Cardinality(reading) <= MaxPlans

RestoreInv == TypeOK /\ PlansAreBounded /\ RunsInv /\ OutcomeInv

\* A patient user has one file, one plan for it and one run at a time.
OneFileAtATime ==
  /\ \A s, t \in reading : s = t
  /\ reading # {} => plans = {} /\ state # "running"
  /\ plans # {} => state = "planning"
  /\ \A p \in plans : p.id = planned /\ p.script = script
  /\ plan # None => plan.id = planned /\ plan.script = script
  /\ confirmed => ticked = planned

OneRunAtATime ==
  /\ state = "running" <=> inFlight # None
  /\ \A r \in DOMAIN runs : runs[r].client \in {"waiting", "aborting"} => inFlight = r

PatientInv ==
  patient => OneFileAtATime /\ OneRunAtATime /\ RunIsWhatWasAgreed

=============================================================================
