----------------------------- MODULE QueryPage -----------------------------
(***************************************************************************)
(* The SQL page of one connection: the runs in flight and the result on    *)
(* screen (useQueryExecution), what that result may be edited against      *)
(* (useEditContext), and the edits staged over it and their save           *)
(* (ResultGrid, useRowUpdate), joined by the page's own handlers.          *)
(*                                                                         *)
(* A run is known by its number.  What a result holds is reduced to the    *)
(* table whose rows it carries; every result has rows, and every key       *)
(* column has the same name in every table.  A cell is its row.            *)
(***************************************************************************)
EXTENDS Naturals, FiniteSets

CONSTANTS
  Tables,
  Keyless,      \* those without a primary key
  Rows,         \* row indexes of a grid
  MaxRuns,      \* bound on the runs of one visit
  Typed,        \* what a statement the user typed reads
  NoTable,      \* null
  NotSaving

ASSUME QueryPageAssumption ==
  /\ MaxRuns \in Nat
  /\ Rows \subseteq Nat \ {0} /\ IsFiniteSet(Rows)
  /\ Keyless \subseteq Tables
  /\ Typed \notin Tables /\ NoTable \notin Tables

RunId == 1..MaxRuns
NoRow == 0
Run   == [id: RunId, reads: Tables \cup {Typed}, source: Tables \cup {NoTable},
          reloaded: BOOLEAN]
Save  == [table: Tables, todo: (SUBSET Rows) \ {{}}, over: RunId, restaged: SUBSET Rows]

ASSUME NotSavingAssumption == NotSaving \notin Save

VARIABLES
  patient,     \* the user waits for each run and save, and saves nothing under
               \*   an error banner; chosen once, a habit and not code
  started,     \* runs so far
  runs,        \* those in flight
  result,      \* the rows on screen: the run they came from, the table read,
               \*   and whether a save reloaded them (observation only)
  sourceTable, \* their provenance
  state,
  browseSql,   \* the table the statement last browsed reads
  table,       \* useEditContext: its table,
  pk,          \*   the table whose key it holds,
  generation,
  describes,   \*   and the describes in flight
  editing,     \* the row an editor is open on
  staged,      \* rows with a staged edit
  stagedOver,  \* the run whose rows they were staged over (observation only)
  written,     \* rows whose staged edit has landed (observation only)
  saving       \* the save in flight

vars == <<patient, started, runs, result, sourceTable, state, browseSql, table,
          pk, generation, describes, editing, staged, stagedOver, written, saving>>
page  == <<patient, browseSql>>
query == <<started, runs, result, sourceTable, state>>
edit  == <<table, pk, generation, describes>>
grid  == <<editing, staged, stagedOver, written, saving>>

TypeOK ==
  /\ patient \in BOOLEAN
  /\ started \in 0..MaxRuns
  /\ runs \in SUBSET Run
  /\ result \in [run: 0..MaxRuns, reads: Tables \cup {Typed, NoTable}, reloaded: BOOLEAN]
  /\ sourceTable \in Tables \cup {NoTable}
  /\ state \in {"idle", "loading", "error"}
  /\ browseSql \in Tables \cup {NoTable}
  /\ table \in Tables \cup {NoTable}
  /\ pk \in Tables \cup {NoTable}
  /\ generation \in Nat
  /\ describes \in SUBSET [generation: Nat, table: Tables]
  /\ editing \in Rows \cup {NoRow}
  /\ staged \in SUBSET Rows
  /\ stagedOver \in 0..MaxRuns
  /\ written \in SUBSET Rows
  /\ saving \in Save \cup {NotSaving}

Init ==
  /\ patient \in BOOLEAN
  /\ started = 0
  /\ runs = {}
  /\ result = [run |-> 0, reads |-> NoTable, reloaded |-> FALSE]
  /\ sourceTable = NoTable
  /\ state = "idle"
  /\ browseSql = NoTable
  /\ table = NoTable
  /\ pk = NoTable
  /\ generation = 0
  /\ describes = {}
  /\ editing = NoRow
  /\ staged = {}
  /\ stagedOver = 0
  /\ written = {}
  /\ saving = NotSaving

-----------------------------------------------------------------------------
(***************************************************************************)
(* Runs.                                                                   *)
(***************************************************************************)
\* run() up to its await.
Start(reads, source, reloaded) ==
  /\ started < MaxRuns
  /\ started' = started + 1
  /\ runs' = runs \cup {[id |-> started + 1, reads |-> reads, source |-> source,
                         reloaded |-> reloaded]}
  /\ state' = "loading"
  /\ UNCHANGED <<result, sourceTable>>

MayAct == patient => runs = {} /\ saving = NotSaving

\* The Run button, or Ctrl+Enter, which nothing disables.
RunTyped ==
  /\ MayAct
  /\ Start(Typed, NoTable, FALSE)
  /\ UNCHANGED <<page, edit, grid>>

Browse(t) ==
  /\ MayAct
  /\ browseSql' = t
  /\ Start(t, t, FALSE)
  /\ UNCHANGED <<patient, edit, grid>>

\* syncEditContext(): load() up to its await.
LoadContext(source) ==
  /\ generation' = generation + 1
  /\ table' = source
  /\ pk' = NoTable
  /\ describes' = IF source = NoTable THEN describes
                  ELSE describes \cup {[generation |-> generation + 1, table |-> source]}

Settle(r) == runs' = runs \ {r}

MutRunAnsweredKeepsStaged(r) ==
  /\ Settle(r)
  /\ result' = [run |-> r.id, reads |-> r.reads, reloaded |-> r.reloaded]
  /\ sourceTable' = r.source
  /\ state' = "idle"
  /\ LoadContext(r.source)
  /\ UNCHANGED <<started, page, grid>>

\* The answer, the handler's syncEditContext() and the grid's watch on the
\* result, which drops whatever was staged over the rows before.
RunAnswered(r) ==
  /\ Settle(r)
  /\ result' = [run |-> r.id, reads |-> r.reads, reloaded |-> r.reloaded]
  /\ sourceTable' = r.source
  /\ state' = "idle"
  /\ LoadContext(r.source)
  /\ editing' = NoRow
  /\ staged' = {}
  /\ written' = {}
  /\ UNCHANGED <<started, page, stagedOver, saving>>

\* A failure leaves the rows and their provenance; the context is reloaded.
RunFailed(r) ==
  /\ Settle(r)
  /\ state' = "error"
  /\ LoadContext(sourceTable)
  /\ UNCHANGED <<started, result, sourceTable, page, grid>>

-----------------------------------------------------------------------------
(***************************************************************************)
(* The edit context.                                                       *)
(***************************************************************************)
MutDescribedUnguarded(d) ==
  /\ describes' = describes \ {d}
  /\ pk' = IF d.table \in Keyless THEN NoTable ELSE d.table
  /\ UNCHANGED <<query, page, table, generation, grid>>

\* An answer that a later load() has overtaken is dropped.
Described(d) ==
  /\ describes' = describes \ {d}
  /\ pk' = IF d.generation # generation THEN pk
           ELSE IF d.table \in Keyless THEN NoTable ELSE d.table
  /\ UNCHANGED <<query, page, table, generation, grid>>

\* Unknown is read-only too.
DescribeFailed(d) ==
  /\ describes' = describes \ {d}
  /\ pk' = IF d.generation = generation THEN NoTable ELSE pk
  /\ UNCHANGED <<query, page, table, generation, grid>>

Editable == table # NoTable /\ pk # NoTable

-----------------------------------------------------------------------------
(***************************************************************************)
(* The grid.                                                               *)
(***************************************************************************)
OpenEditor(row) ==
  /\ Editable /\ editing = NoRow
  /\ editing' = row
  /\ UNCHANGED <<query, page, edit, staged, stagedOver, written, saving>>

\* Enter, or leaving the input.  The context may have gone meanwhile.
CommitEditor ==
  /\ editing # NoRow
  /\ editing' = NoRow
  /\ staged' = staged \cup {editing}
  /\ stagedOver' = result.run
  /\ written' = written \ {editing}
  /\ saving' = IF saving = NotSaving THEN saving
               ELSE [saving EXCEPT !.restaged = @ \cup {editing}]
  /\ UNCHANGED <<query, page, edit>>

\* Revert, which un-stages the cell, and Escape, which does not.
LeaveEditor ==
  /\ editing # NoRow
  /\ editing' = NoRow
  /\ \E revert \in BOOLEAN : staged' = IF revert THEN staged \ {editing} ELSE staged
  /\ UNCHANGED <<query, page, edit, stagedOver, written, saving>>

\* Discard, which also drops the last failure.
Discard ==
  /\ Editable /\ (staged # {} \/ editing # NoRow)
  /\ editing' = NoRow
  /\ staged' = {}
  /\ written' = {}
  /\ UNCHANGED <<query, page, edit, stagedOver, saving>>

\* saveEdits() up to the first request, which first commits an open editor.
BeginSave ==
  LET flushed == staged \cup ({editing} \ {NoRow}) IN
  /\ saving' = [table |-> table, todo |-> flushed, over |-> result.run, restaged |-> {}]
  /\ staged' = flushed
  /\ editing' = NoRow
  /\ stagedOver' = IF editing = NoRow THEN stagedOver ELSE result.run
  /\ written' = written \ {editing}
  /\ UNCHANGED <<query, page, edit>>

MutSaveNothing == MayAct /\ Editable /\ saving = NotSaving /\ BeginSave

SaveEdits ==
  /\ MayAct /\ Editable /\ saving = NotSaving
  /\ patient => state # "error"
  /\ staged # {} \/ editing # NoRow
  /\ BeginSave

First(rows) == CHOOSE r \in rows : \A s \in rows : r <= s

\* The edit of `row` as it was when the save began has been written.
Land(row) ==
  written' = IF saving.over = result.run /\ row \notin saving.restaged
             THEN written \cup {row} ELSE written

RowWritten ==
  /\ saving # NotSaving /\ Cardinality(saving.todo) > 1
  /\ LET row == First(saving.todo) IN
       /\ saving' = [saving EXCEPT !.todo = @ \ {row}]
       /\ Land(row)
  /\ UNCHANGED <<query, page, edit, editing, staged, stagedOver>>

MutReloadAsEditor(source) == Start(Typed, source, TRUE)

\* onSaved(): the statement browsed last, under the provenance of the rows.
Reload(source) == Start(browseSql, source, TRUE)

\* The last one: everything staged goes, and the page reloads the browse.
SaveLanded ==
  /\ saving # NotSaving /\ Cardinality(saving.todo) = 1
  /\ Land(First(saving.todo))
  /\ staged' = {}
  /\ saving' = NotSaving
  /\ \/ sourceTable = NoTable /\ UNCHANGED query
     \/ sourceTable # NoTable /\ Reload(sourceTable)
  /\ UNCHANGED <<page, edit, editing, stagedOver>>

\* The rest is not sent.
RowRefused ==
  /\ saving # NotSaving
  /\ saving' = NotSaving
  /\ UNCHANGED <<query, page, edit, editing, staged, stagedOver, written>>

-----------------------------------------------------------------------------
Next ==
  \/ RunTyped
  \/ \E t \in Tables : Browse(t)
  \/ \E r \in runs : RunAnswered(r) \/ RunFailed(r)
  \/ \E d \in describes : Described(d) \/ DescribeFailed(d)
  \/ \E row \in Rows : OpenEditor(row)
  \/ CommitEditor
  \/ LeaveEditor
  \/ Discard
  \/ SaveEdits
  \/ RowWritten
  \/ SaveLanded
  \/ RowRefused

Spec == Init /\ [][Next]_vars

-----------------------------------------------------------------------------
(***************************************************************************)
(* Properties.                                                             *)
(***************************************************************************)
\* A slow describe never lands on the grid that replaced its own: the key the
\* UPDATEs are written on is that of the table they are written to, and that
\* is the table the grid is labelled with.
KeyIsTheTablesOwn ==
  /\ pk # NoTable => pk = table /\ pk \notin Keyless
  /\ table = sourceTable

\* Provenance decides, never SQL: rows of a statement the user typed are
\* never editable, whatever was browsed before, after or meanwhile.
TypedRowsAreReadOnly == result.reads = Typed => ~Editable

\* Rows a browse brought are edited by the key of the table they are of.  Those a
\* save reloaded may be of the table browsed last, under the label and key of the
\* one saved to (onSaved(): browseSql.value, not the statement that produced the
\* rows), unless the user is patient: PatienceIsEnough.
BrowsedRowsAreOwn == Editable /\ ~result.reloaded => result.reads = pk

\* A staged edit belongs to the rows on screen; an edit to row 0 of the old
\* result is not carried over to row 0 of the new one.
StagedOverTheseRows == staged # {} => stagedOver = result.run

\* What a browse brought can be edited by its own table's key, what was typed
\* not at all, what a save reloaded by the key of the table it is labelled with,
\* and what has been edited is still the rows on screen
\* (useEditContext.ts, useQueryExecution.ts, ResultGrid.vue).
OnlyOwnRowsAreEditable ==
  KeyIsTheTablesOwn /\ TypedRowsAreReadOnly /\ BrowsedRowsAreOwn /\ StagedOverTheseRows

\* The rows on screen are rows of the table the grid is editable against.
RowsAreLabelled == sourceTable # NoTable => result.reads = sourceTable

\* They always are for a user who lets every run and save end before the next
\* and, when a browse has failed, browses again before saving.
PatienceIsEnough == patient => RowsAreLabelled

\* A save that failed half-way leaves marked exactly the rows that did not land.
FailedSaveShowsTheRest == saving = NotSaving => staged \cap written = {}

-----------------------------------------------------------------------------
(***************************************************************************)
(* The inductive invariants behind the first two.                          *)
(***************************************************************************)
\* A describe is of the table its load() was for; only the last load's counts.
DescribesAreDated ==
  \A d \in describes : /\ d.generation <= generation
                       /\ d.generation = generation => d.table = table

\* A typed statement has no provenance, in flight or on screen.
TypedHasNoSource ==
  /\ \A r \in runs : r.reads = Typed => r.source = NoTable
  /\ result.reads = Typed => sourceTable = NoTable

\* A browse's provenance is what it reads, in flight and on screen.
BrowseIsLabelled ==
  /\ \A r \in runs : r.source # NoTable /\ ~r.reloaded => r.reads = r.source
  /\ sourceTable # NoTable /\ ~result.reloaded => result.reads = sourceTable

\* Rows with a provenance came from a run and were browsed, so there is a
\* statement to reload.
BrowseIsKnown ==
  /\ sourceTable # NoTable => browseSql # NoTable /\ result.run # 0
  /\ \A r \in runs : r.source # NoTable => browseSql # NoTable

PageInv == /\ TypeOK
           /\ DescribesAreDated
           /\ TypedHasNoSource
           /\ BrowseIsKnown
           /\ BrowseIsLabelled
           /\ OnlyOwnRowsAreEditable

\* The patient user has one thing in flight, and the statement browsed last is
\* the one behind the rows unless its run is still out or has failed.
OneAtATime ==
  /\ \A r, s \in runs : r = s
  /\ runs # {} <=> state = "loading"
  /\ runs # {} => saving = NotSaving
  /\ saving # NotSaving => state = "idle"
BrowseIsCurrent ==
  /\ \A r \in runs : r.source # NoTable => r.reads = r.source /\ browseSql = r.source
  /\ state = "idle" /\ sourceTable # NoTable => browseSql = sourceTable

PatientInv == patient => OneAtATime /\ BrowseIsCurrent /\ RowsAreLabelled
=============================================================================
