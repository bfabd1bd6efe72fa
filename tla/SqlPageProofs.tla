--------------------------- MODULE SqlPageProofs ---------------------------
(***************************************************************************)
(* Proofs about what the SQL page is made of: QueryPage, for any tables,   *)
(* any finite grid and any number of runs; SchemaSidebar, for any tables   *)
(* and any number of describes at once; History, for any requests, any     *)
(* number of exports and any clock.                                        *)
(***************************************************************************)
EXTENDS QueryPage, SchemaSidebar, History, FiniteSetTheorems, WellFoundedInduction, TLAPS

(***************************************************************************)
(* The rows a save goes through.                                           *)
(***************************************************************************)
\* A set of naturals has a least element.
LEMMA LeastElement ==
  ASSUME NEW T, T \subseteq Nat, T # {}
  PROVE  \E x \in T : \A y \in T : x <= y
<1> DEFINE R == OpToRel(<, Nat)
<1>1. IsWellFoundedOn(R, Nat)
  BY NatLessThanWellFounded
<1>2. \A x, y \in Nat : <<x, y>> \in R <=> x < y
  BY DEF OpToRel
<1> HIDE DEF R
<1>3. PICK x \in T : \A y \in T : ~(<<y, x>> \in R)
  BY <1>1, WFMin
<1>4. \A y \in T : y \in Nat /\ x \in Nat
  OBVIOUS
<1>5. \A y \in T : ~(y < x)
  BY <1>2, <1>3, <1>4
<1>6. QED
  BY <1>4, <1>5

\* What a save writes next is one of its rows.
LEMMA FirstIsARow ==
  ASSUME NEW T \in SUBSET Rows, T # {}
  PROVE  First(T) \in T
  BY LeastElement, QueryPageAssumption DEF First

\* A save that has more than one row to write has rows left after the next.
LEMMA RestIsNotEmpty ==
  ASSUME NEW T \in SUBSET Rows, Cardinality(T) > 1, NEW x
  PROVE  T \ {x} # {}
<1>1. IsFiniteSet(T)
  BY FS_Subset, QueryPageAssumption
<1>2. T # {} /\ T # {x}
  BY <1>1, FS_EmptySet, FS_Singleton
<1>3. QED
  BY <1>2

(***************************************************************************)
(* Types.                                                                  *)
(***************************************************************************)
\* A page nobody has used yet.
LEMMA InitPage == Init => PageInv /\ PatientInv
  BY QueryPageAssumption, NotSavingAssumption
     DEF Init, PageInv, PatientInv, TypeOK, DescribesAreDated, TypedHasNoSource, BrowseIsKnown,
         BrowseIsLabelled, OnlyOwnRowsAreEditable, KeyIsTheTablesOwn, TypedRowsAreReadOnly,
         BrowsedRowsAreOwn, StagedOverTheseRows,
         Editable, OneAtATime, BrowseIsCurrent, RowsAreLabelled, Save, Run, RunId

\* A run that begins is a run, and the only change it makes to the query's state.
LEMMA StartTypes ==
  ASSUME TypeOK, NEW reads \in Tables \cup {Typed}, NEW source \in Tables \cup {NoTable},
         NEW reloaded \in BOOLEAN, Start(reads, source, reloaded)
  PROVE  /\ started' \in 0..MaxRuns
         /\ runs' \in SUBSET Run
         /\ result' = result /\ sourceTable' = sourceTable
         /\ state' = "loading"
<1>1. started + 1 \in RunId /\ started + 1 \in 0..MaxRuns
  BY QueryPageAssumption DEF TypeOK, Start, RunId
<1>2. [id |-> started + 1, reads |-> reads, source |-> source, reloaded |-> reloaded] \in Run
  BY <1>1 DEF Run
<1>3. QED
  BY <1>1, <1>2 DEF TypeOK, Start

\* Reloading the edit context keeps its types.
LEMMA ContextTypes ==
  ASSUME TypeOK, NEW source \in Tables \cup {NoTable}, LoadContext(source)
  PROVE  /\ table' \in Tables \cup {NoTable}
         /\ pk' \in Tables \cup {NoTable}
         /\ generation' \in Nat
         /\ describes' \in SUBSET [generation: Nat, table: Tables]
<1>1. source # NoTable => [generation |-> generation + 1, table |-> source]
                            \in [generation: Nat, table: Tables]
  BY DEF TypeOK
<1>2. QED
  BY <1>1 DEF TypeOK, LoadContext

\* Every handler of the page preserves the types.
LEMMA TypeStep == ASSUME PageInv, [Next]_vars PROVE TypeOK'
<1>t. TypeOK /\ Rows \subseteq Nat \ {0}
  BY QueryPageAssumption DEF PageInv
<1>1. CASE UNCHANGED vars
  BY <1>1, <1>t DEF vars, TypeOK
<1>2. CASE RunTyped
  BY <1>2, <1>t, StartTypes DEF RunTyped, page, edit, grid, TypeOK
<1>3. ASSUME NEW t \in Tables, Browse(t) PROVE TypeOK'
  BY <1>3, <1>t, StartTypes DEF Browse, edit, grid, TypeOK
<1>4. ASSUME NEW r \in runs, RunAnswered(r) PROVE TypeOK'
  <2>1. r \in Run
    BY <1>t DEF TypeOK
  <2>2. /\ r.id \in 0..MaxRuns /\ r.reads \in Tables \cup {Typed}
        /\ r.source \in Tables \cup {NoTable} /\ r.reloaded \in BOOLEAN
    BY <2>1, QueryPageAssumption DEF Run, RunId
  <2>3. result' \in [run: 0..MaxRuns, reads: Tables \cup {Typed, NoTable}, reloaded: BOOLEAN]
    BY <1>4, <2>2 DEF RunAnswered
  <2>4. /\ table' \in Tables \cup {NoTable}
        /\ pk' \in Tables \cup {NoTable}
        /\ generation' \in Nat
        /\ describes' \in SUBSET [generation: Nat, table: Tables]
    BY <1>4, <1>t, <2>2, ContextTypes DEF RunAnswered
  <2>5. QED
    BY <1>4, <1>t, <2>2, <2>3, <2>4 DEF RunAnswered, Settle, page, TypeOK
<1>5. ASSUME NEW r \in runs, RunFailed(r) PROVE TypeOK'
  BY <1>5, <1>t, ContextTypes DEF RunFailed, Settle, page, grid, TypeOK
<1>6. ASSUME NEW d \in describes, Described(d) \/ DescribeFailed(d) PROVE TypeOK'
  <2>1. d.table \in Tables
    BY <1>t DEF TypeOK
  <2>2. QED
    BY <1>6, <1>t, <2>1 DEF Described, DescribeFailed, page, query, grid, TypeOK
<1>7. ASSUME NEW row \in Rows, OpenEditor(row) PROVE TypeOK'
  BY <1>7, <1>t DEF OpenEditor, page, query, edit, TypeOK
<1>8. CASE CommitEditor
  <2>1. editing \in Rows /\ result.run \in 0..MaxRuns
    BY <1>8, <1>t DEF CommitEditor, TypeOK
  <2>2. saving' \in Save \cup {NotSaving}
    BY <1>8, <1>t, <2>1 DEF CommitEditor, TypeOK, Save
  <2>3. QED
    BY <1>8, <1>t, <2>1, <2>2 DEF CommitEditor, page, query, edit, TypeOK
<1>9. CASE LeaveEditor
  BY <1>9, <1>t DEF LeaveEditor, page, query, edit, TypeOK
<1>10. CASE Discard
  BY <1>10, <1>t DEF Discard, page, query, edit, TypeOK
<1>11. CASE SaveEdits
  <2> DEFINE flushed == staged \cup ({editing} \ {NoRow})
  <2>1. flushed \in (SUBSET Rows) \ {{}}
    BY <1>11, <1>t DEF SaveEdits, TypeOK, NoRow
  <2>2. table \in Tables
    BY <1>11, <1>t DEF SaveEdits, Editable, TypeOK
  <2>3. result.run \in RunId
    BY <2>2, <1>t, QueryPageAssumption
       DEF PageInv, OnlyOwnRowsAreEditable, KeyIsTheTablesOwn, BrowseIsKnown, TypeOK, RunId
  <2>4. [table |-> table, todo |-> flushed, over |-> result.run, restaged |-> {}] \in Save
    BY <2>1, <2>2, <2>3 DEF Save
  <2>5. QED
    BY <1>11, <1>t, <2>1, <2>4 DEF SaveEdits, BeginSave, page, query, edit, TypeOK
<1>12. CASE RowWritten
  <2>1. saving \in Save /\ saving.todo \in SUBSET Rows /\ saving.todo # {}
    BY <1>12, <1>t DEF RowWritten, TypeOK, Save
  <2>2. First(saving.todo) \in Rows /\ saving.todo \ {First(saving.todo)} # {}
    BY <1>12, <2>1, FirstIsARow, RestIsNotEmpty DEF RowWritten
  <2>3. saving' \in Save
    BY <1>12, <2>1, <2>2 DEF RowWritten, Save
  <2>4. written' \in SUBSET Rows
    BY <1>12, <1>t, <2>2 DEF RowWritten, Land, TypeOK
  <2>5. QED
    BY <1>12, <1>t, <2>3, <2>4 DEF RowWritten, page, query, edit, TypeOK
<1>13. CASE SaveLanded
  <2>1. saving \in Save /\ saving.todo \in SUBSET Rows /\ saving.todo # {}
    BY <1>13, <1>t DEF SaveLanded, TypeOK, Save
  <2>2. First(saving.todo) \in Rows
    BY <2>1, FirstIsARow
  <2>3. written' \in SUBSET Rows
    BY <1>13, <1>t, <2>2 DEF SaveLanded, Land, TypeOK
  <2>4. /\ started' \in 0..MaxRuns
        /\ runs' \in SUBSET Run
        /\ result' = result /\ sourceTable' = sourceTable
        /\ state' \in {state, "loading"}
    <3>1. CASE UNCHANGED query
      BY <3>1, <1>t DEF query, TypeOK
    <3>2. CASE sourceTable # NoTable /\ Reload(sourceTable)
      <4>1. browseSql \in Tables /\ sourceTable \in Tables
        BY <3>2, <1>t DEF PageInv, BrowseIsKnown, TypeOK
      <4>2. QED
        BY <3>2, <4>1, <1>t, StartTypes DEF Reload
    <3>3. QED
      BY <1>13, <3>1, <3>2 DEF SaveLanded
  <2>5. QED
    BY <1>13, <1>t, <2>3, <2>4 DEF SaveLanded, page, edit, TypeOK
<1>14. CASE RowRefused
  BY <1>14, <1>t DEF RowRefused, page, query, edit, TypeOK
<1>15. QED
  BY <1>1, <1>2, <1>3, <1>4, <1>5, <1>6, <1>7, <1>8, <1>9, <1>10, <1>11, <1>12, <1>13, <1>14 DEF Next

(***************************************************************************)
(* The grid's handlers leave the query, the page and the edit context.     *)
(***************************************************************************)
GridStep ==
  \/ \E row \in Rows : OpenEditor(row)
  \/ CommitEditor \/ LeaveEditor \/ Discard \/ SaveEdits \/ RowWritten \/ RowRefused

\* What the grid does on its own touches only what is staged and saved.
LEMMA GridStepIsLocal ==
  ASSUME GridStep
  PROVE  UNCHANGED <<patient, browseSql, started, runs, result, sourceTable, state,
                     table, pk, generation, describes>>
  BY DEF GridStep, OpenEditor, CommitEditor, LeaveEditor, Discard, SaveEdits, BeginSave,
         RowWritten, RowRefused, query, page, edit

\* The steps of the page, with those of the grid taken together.
LEMMA NextCases ==
  ASSUME [Next]_vars
  PROVE  \/ UNCHANGED vars
         \/ RunTyped
         \/ \E t \in Tables : Browse(t)
         \/ \E r \in runs : RunAnswered(r)
         \/ \E r \in runs : RunFailed(r)
         \/ \E d \in describes : Described(d) \/ DescribeFailed(d)
         \/ SaveLanded
         \/ GridStep
  BY DEF Next, GridStep

\* A save that lands changes neither the rows on screen nor their edit context.
LEMMA LandedEffect ==
  ASSUME TypeOK, SaveLanded
  PROVE  /\ UNCHANGED <<patient, browseSql, result, sourceTable, table, pk, generation, describes,
                        editing, stagedOver>>
         /\ staged' = {} /\ saving # NotSaving /\ saving' = NotSaving
         /\ \/ sourceTable = NoTable /\ UNCHANGED <<started, runs, state>>
            \/ /\ sourceTable # NoTable /\ state' = "loading"
               /\ runs' = runs \cup {[id |-> started + 1, reads |-> browseSql, source |-> sourceTable,
                                       reloaded |-> TRUE]}
  BY DEF SaveLanded, Reload, Start, query, page, edit

\* Only a load() makes a describe current, and it empties the key first.
LEMMA DatedStep == ASSUME PageInv, [Next]_vars PROVE DescribesAreDated'
<1>t. TypeOK /\ DescribesAreDated
  BY DEF PageInv
<1>g. /\ generation \in Nat
      /\ \A d \in describes : d.generation \in Nat
  BY <1>t DEF TypeOK
<1> USE DEF DescribesAreDated
<1>1. CASE UNCHANGED vars
  BY <1>1, <1>t DEF vars
<1>2. ASSUME RunTyped \/ \E t \in Tables : Browse(t) PROVE DescribesAreDated'
  BY <1>2, <1>t DEF RunTyped, Browse, edit
<1>3. ASSUME NEW source, LoadContext(source) PROVE DescribesAreDated'
  <2>1. CASE source = NoTable
    BY <1>3, <1>t, <1>g, <2>1 DEF LoadContext
  <2>2. CASE source # NoTable
    <3>1. describes' = describes \cup {[generation |-> generation + 1, table |-> source]}
      BY <1>3, <2>2 DEF LoadContext
    <3>2. generation' = generation + 1 /\ table' = source
      BY <1>3 DEF LoadContext
    <3>3. QED
      BY <1>t, <1>g, <3>1, <3>2
  <2>3. QED
    BY <2>1, <2>2
<1>4. ASSUME NEW r \in runs, RunAnswered(r) \/ RunFailed(r) PROVE DescribesAreDated'
  BY <1>3, <1>4 DEF RunAnswered, RunFailed
<1>5. ASSUME NEW d \in describes, Described(d) \/ DescribeFailed(d) PROVE DescribesAreDated'
  BY <1>5, <1>t DEF Described, DescribeFailed
<1>6. CASE SaveLanded
  BY <1>6, <1>t, LandedEffect
<1>7. CASE GridStep
  BY <1>7, <1>t, GridStepIsLocal
<1>8. QED
  BY <1>1, <1>2, <1>4, <1>5, <1>6, <1>7, NextCases

\* A run keeps the provenance it was started with until its answer installs it.
LEMMA SourceStep == ASSUME PageInv, [Next]_vars PROVE TypedHasNoSource' /\ BrowseIsKnown'
<1>t. /\ TypeOK /\ TypedHasNoSource /\ BrowseIsKnown
      /\ NoTable \notin Tables /\ Typed \notin Tables
  BY QueryPageAssumption DEF PageInv
<1>r. /\ \A r \in runs : r.reads \in Tables \cup {Typed} /\ r.id # 0
      /\ browseSql \in Tables \cup {NoTable}
  BY <1>t, QueryPageAssumption DEF TypeOK, Run, RunId
<1> USE DEF TypedHasNoSource, BrowseIsKnown
<1>1. CASE UNCHANGED vars
  BY <1>1, <1>t DEF vars
<1>2. CASE RunTyped
  BY <1>2, <1>t DEF RunTyped, Start, page
<1>3. ASSUME NEW t \in Tables, Browse(t) PROVE TypedHasNoSource' /\ BrowseIsKnown'
  BY <1>3, <1>t DEF Browse, Start
<1>4. ASSUME NEW r \in runs, RunAnswered(r) PROVE TypedHasNoSource' /\ BrowseIsKnown'
  <2>1. /\ result'.reads = r.reads /\ result'.run = r.id
        /\ sourceTable' = r.source /\ browseSql' = browseSql /\ runs' \subseteq runs
    BY <1>4 DEF RunAnswered, Settle, page
  <2>2. QED
    BY <1>t, <1>r, <2>1
<1>5. ASSUME NEW r \in runs, RunFailed(r) PROVE TypedHasNoSource' /\ BrowseIsKnown'
  BY <1>5, <1>t DEF RunFailed, Settle, page
<1>6. ASSUME NEW d \in describes, Described(d) \/ DescribeFailed(d)
      PROVE  TypedHasNoSource' /\ BrowseIsKnown'
  BY <1>6, <1>t DEF Described, DescribeFailed, query, page
<1>7. CASE SaveLanded
  <2>1. sourceTable # NoTable => browseSql # Typed
    BY <1>t, <1>r
  <2>2. QED
    BY <1>7, <1>t, <2>1, LandedEffect
<1>8. CASE GridStep
  BY <1>8, <1>t, GridStepIsLocal
<1>9. QED
  BY <1>1, <1>2, <1>3, <1>4, <1>5, <1>6, <1>7, <1>8, NextCases

\* A browse is labelled with what it reads, and only a reload is not a browse.
LEMMA LabelStep == ASSUME PageInv, [Next]_vars PROVE BrowseIsLabelled'
<1>t. TypeOK /\ BrowseIsLabelled
  BY DEF PageInv
<1> USE DEF BrowseIsLabelled
<1>1. CASE UNCHANGED vars
  BY <1>1, <1>t DEF vars
<1>2. CASE RunTyped
  BY <1>2, <1>t DEF RunTyped, Start
<1>3. ASSUME NEW t \in Tables, Browse(t) PROVE BrowseIsLabelled'
  BY <1>3, <1>t DEF Browse, Start
<1>4. ASSUME NEW r \in runs, RunAnswered(r) PROVE BrowseIsLabelled'
  <2>1. /\ result'.reads = r.reads /\ result'.reloaded = r.reloaded
        /\ sourceTable' = r.source /\ runs' \subseteq runs
    BY <1>4 DEF RunAnswered, Settle
  <2>2. QED
    BY <1>t, <2>1
<1>5. ASSUME NEW r \in runs, RunFailed(r) PROVE BrowseIsLabelled'
  BY <1>5, <1>t DEF RunFailed, Settle
<1>6. ASSUME NEW d \in describes, Described(d) \/ DescribeFailed(d) PROVE BrowseIsLabelled'
  BY <1>6, <1>t DEF Described, DescribeFailed, query
<1>7. CASE SaveLanded
  BY <1>7, <1>t, LandedEffect
<1>8. CASE GridStep
  BY <1>8, <1>t, GridStepIsLocal
<1>9. QED
  BY <1>1, <1>2, <1>3, <1>4, <1>5, <1>6, <1>7, <1>8, NextCases

\* The key in hand is the labelled table's own, whichever describe answers when.
LEMMA KeyStep == ASSUME PageInv, [Next]_vars PROVE KeyIsTheTablesOwn'
<1>t. TypeOK /\ KeyIsTheTablesOwn /\ DescribesAreDated
  BY DEF PageInv, OnlyOwnRowsAreEditable
<1> USE DEF KeyIsTheTablesOwn
<1>1. CASE UNCHANGED vars
  BY <1>1, <1>t DEF vars
<1>2. ASSUME RunTyped \/ \E t \in Tables : Browse(t) PROVE KeyIsTheTablesOwn'
  BY <1>2, <1>t DEF RunTyped, Browse, Start, edit
<1>3. ASSUME NEW r \in runs, RunAnswered(r) \/ RunFailed(r) PROVE KeyIsTheTablesOwn'
  BY <1>3 DEF RunAnswered, RunFailed, LoadContext
<1>4. ASSUME NEW d \in describes, Described(d) \/ DescribeFailed(d) PROVE KeyIsTheTablesOwn'
  BY <1>4, <1>t DEF Described, DescribeFailed, DescribesAreDated, query
<1>5. CASE SaveLanded
  BY <1>5, <1>t, LandedEffect
<1>6. CASE GridStep
  BY <1>6, <1>t, GridStepIsLocal
<1>7. QED
  BY <1>1, <1>2, <1>3, <1>4, <1>5, <1>6, NextCases

\* An answer unstages everything; whatever is staged later is over its rows.
LEMMA StagedStep == ASSUME PageInv, [Next]_vars PROVE StagedOverTheseRows'
<1>t. TypeOK /\ StagedOverTheseRows
  BY DEF PageInv, OnlyOwnRowsAreEditable
<1> USE DEF StagedOverTheseRows
<1>1. CASE UNCHANGED vars
  BY <1>1, <1>t DEF vars
<1>2. ASSUME RunTyped \/ \E t \in Tables : Browse(t) PROVE StagedOverTheseRows'
  BY <1>2, <1>t DEF RunTyped, Browse, Start, grid
<1>3. ASSUME NEW r \in runs, RunAnswered(r) PROVE StagedOverTheseRows'
  BY <1>3 DEF RunAnswered
<1>4. ASSUME NEW r \in runs, RunFailed(r) PROVE StagedOverTheseRows'
  BY <1>4, <1>t DEF RunFailed, grid
<1>5. ASSUME NEW d \in describes, Described(d) \/ DescribeFailed(d) PROVE StagedOverTheseRows'
  BY <1>5, <1>t DEF Described, DescribeFailed, query, grid
<1>6. CASE SaveLanded
  BY <1>6, <1>t, LandedEffect
<1>7. ASSUME NEW row \in Rows, OpenEditor(row) PROVE StagedOverTheseRows'
  BY <1>7, <1>t DEF OpenEditor, query
<1>8. CASE CommitEditor
  BY <1>8, <1>t DEF CommitEditor, query
<1>9. CASE LeaveEditor
  BY <1>9, <1>t DEF LeaveEditor, query
<1>10. CASE Discard
  BY <1>10, <1>t DEF Discard, query
<1>11. CASE SaveEdits
  BY <1>11, <1>t DEF SaveEdits, BeginSave, query
<1>12. CASE RowWritten \/ RowRefused
  BY <1>12, <1>t DEF RowWritten, RowRefused, query
<1>13. QED
  BY <1>1, <1>2, <1>3, <1>4, <1>5, <1>6, <1>7, <1>8, <1>9, <1>10, <1>11, <1>12, NextCases DEF GridStep

\* Every handler preserves the inductive invariant, part by part.
LEMMA PageStep == ASSUME PageInv, [Next]_vars PROVE PageInv'
<1>1. TypeOK' /\ DescribesAreDated' /\ TypedHasNoSource' /\ BrowseIsKnown'
  BY TypeStep, DatedStep, SourceStep
<1>2. KeyIsTheTablesOwn' /\ StagedOverTheseRows'
  BY KeyStep, StagedStep
<1>3. TypedRowsAreReadOnly'
  BY <1>1, <1>2 DEF TypedHasNoSource, KeyIsTheTablesOwn, TypedRowsAreReadOnly, Editable
<1>4. BrowseIsLabelled' /\ BrowsedRowsAreOwn'
  BY <1>2, LabelStep DEF BrowseIsLabelled, KeyIsTheTablesOwn, BrowsedRowsAreOwn, Editable
<1>5. QED
  BY <1>1, <1>2, <1>3, <1>4 DEF PageInv, OnlyOwnRowsAreEditable

\* Whatever answers when, the page's inductive invariant holds.
THEOREM PageInvariant == Spec => []PageInv
<1>1. Init => PageInv
  BY InitPage
<1>2. PageInv /\ [Next]_vars => PageInv'
  BY PageStep
<1>3. QED
  BY <1>1, <1>2, PTL DEF Spec

\* The rows a browse brought are edited by the key of the table they are of, rows
\* of a typed statement never (useEditContext.ts, ResultGrid.vue).
THEOREM OwnRowsTheorem == Spec => []OnlyOwnRowsAreEditable
<1>1. PageInv => OnlyOwnRowsAreEditable
  BY DEF PageInv
<1>2. QED
  BY PageInvariant, <1>1, PTL

-----------------------------------------------------------------------------
(***************************************************************************)
(* The patient user.                                                       *)
(***************************************************************************)
\* A user who waits starts a run only when nothing is out, and it is then alone.
LEMMA StartAlone ==
  ASSUME TypeOK, patient, PatientInv, MayAct, NEW reads, NEW source, NEW reloaded \in BOOLEAN,
         Start(reads, source, reloaded)
  PROVE  /\ runs' = {[id |-> started + 1, reads |-> reads, source |-> source,
                       reloaded |-> reloaded]}
         /\ state' = "loading" /\ saving = NotSaving
         /\ result' = result /\ sourceTable' = sourceTable
  BY DEF MayAct, Start

\* With one run out at a time, the rows on screen are those of the statement
\* browsed last, or of none that can be edited.
LEMMA PatientStep == ASSUME PageInv, PatientInv, [Next]_vars PROVE PatientInv'
<1> SUFFICES ASSUME patient' PROVE OneAtATime' /\ BrowseIsCurrent' /\ RowsAreLabelled'
  BY DEF PatientInv
<1>t. TypeOK /\ TypeOK'
  BY TypeStep DEF PageInv
<1>p. patient' = patient
  <2>1. UNCHANGED vars => patient' = patient
    BY DEF vars
  <2>2. RunTyped \/ (\E t \in Tables : Browse(t)) => patient' = patient
    BY DEF RunTyped, Browse, page
  <2>3. (\E r \in runs : RunAnswered(r) \/ RunFailed(r)) => patient' = patient
    BY DEF RunAnswered, RunFailed, page
  <2>4. (\E d \in describes : Described(d) \/ DescribeFailed(d)) => patient' = patient
    BY DEF Described, DescribeFailed, page
  <2>5. QED
    BY <1>t, <2>1, <2>2, <2>3, <2>4, NextCases, LandedEffect, GridStepIsLocal
<1>i. patient /\ OneAtATime /\ BrowseIsCurrent /\ RowsAreLabelled
  BY <1>p DEF PatientInv
<1>n. NoTable \notin Tables /\ Typed \notin Tables
  BY QueryPageAssumption
<1> USE DEF OneAtATime, BrowseIsCurrent, RowsAreLabelled
<1>1. CASE UNCHANGED vars
  BY <1>1, <1>i DEF vars
<1>2. CASE RunTyped
  <2>1. /\ runs' = {[id |-> started + 1, reads |-> Typed, source |-> NoTable, reloaded |-> FALSE]}
        /\ state' = "loading" /\ saving = NotSaving
        /\ UNCHANGED <<result, sourceTable, browseSql, saving>>
    BY <1>2, <1>t, <1>i, StartAlone DEF RunTyped, page, grid
  <2>2. QED
    BY <1>i, <2>1
<1>3. ASSUME NEW t \in Tables, Browse(t)
      PROVE  OneAtATime' /\ BrowseIsCurrent' /\ RowsAreLabelled'
  <2>1. /\ runs' = {[id |-> started + 1, reads |-> t, source |-> t, reloaded |-> FALSE]}
        /\ state' = "loading" /\ saving = NotSaving /\ browseSql' = t
        /\ UNCHANGED <<result, sourceTable, saving>>
    BY <1>3, <1>t, <1>i, StartAlone DEF Browse, grid
  <2>2. QED
    BY <1>i, <2>1
<1>4. ASSUME NEW r \in runs, RunAnswered(r)
      PROVE  OneAtATime' /\ BrowseIsCurrent' /\ RowsAreLabelled'
  <2>1. /\ runs' = {} /\ state' = "idle"
        /\ sourceTable' = r.source /\ result'.reads = r.reads
        /\ UNCHANGED <<browseSql, saving>>
    BY <1>4, <1>i DEF RunAnswered, Settle, page
  <2>2. QED
    BY <1>i, <2>1
<1>5. ASSUME NEW r \in runs, RunFailed(r)
      PROVE  OneAtATime' /\ BrowseIsCurrent' /\ RowsAreLabelled'
  <2>1. /\ runs' = {} /\ state' = "error"
        /\ UNCHANGED <<browseSql, saving, result, sourceTable>>
    BY <1>5, <1>i DEF RunFailed, Settle, page, grid
  <2>2. saving = NotSaving
    BY <1>5, <1>i
  <2>3. QED
    BY <1>i, <2>1, <2>2
<1>6. ASSUME NEW d \in describes, Described(d) \/ DescribeFailed(d)
      PROVE  OneAtATime' /\ BrowseIsCurrent' /\ RowsAreLabelled'
  BY <1>6, <1>i DEF Described, DescribeFailed, query, page, grid
<1>7. CASE SaveLanded
  <2>1. runs = {} /\ state = "idle" /\ saving' = NotSaving
    BY <1>7, <1>t, <1>i, LandedEffect
  <2>2. CASE UNCHANGED <<started, runs, state>>
    BY <1>7, <1>t, <1>i, <2>1, <2>2, LandedEffect
  <2>3. CASE /\ sourceTable # NoTable /\ state' = "loading"
             /\ runs' = runs \cup {[id |-> started + 1, reads |-> browseSql, source |-> sourceTable,
                                     reloaded |-> TRUE]}
    <3>1. runs' = {[id |-> started + 1, reads |-> sourceTable, source |-> sourceTable,
                    reloaded |-> TRUE]}
      BY <1>i, <2>1, <2>3
    <3>2. UNCHANGED <<browseSql, result, sourceTable>> /\ browseSql = sourceTable
      BY <1>7, <1>t, <1>i, <2>1, <2>3, LandedEffect
    <3>3. QED
      BY <1>i, <2>1, <2>3, <3>1, <3>2
  <2>4. QED
    BY <1>7, <1>t, <2>2, <2>3, LandedEffect
<1>8. CASE GridStep
  <2>1. UNCHANGED <<browseSql, runs, result, sourceTable, state>>
    BY <1>8, GridStepIsLocal
  <2>2. BrowseIsCurrent' /\ RowsAreLabelled'
    BY <1>i, <2>1
  <2>3. saving' # NotSaving => saving # NotSaving \/ (MayAct /\ state # "error")
    BY <1>8, <1>i DEF GridStep, OpenEditor, CommitEditor, LeaveEditor, Discard, SaveEdits,
       RowWritten, RowRefused
  <2>4. state \in {"idle", "loading", "error"}
    BY <1>t DEF TypeOK
  <2>5. OneAtATime'
    BY <1>i, <2>1, <2>3, <2>4 DEF MayAct
  <2>6. QED
    BY <2>2, <2>5
<1>9. QED
  BY <1>1, <1>2, <1>3, <1>4, <1>5, <1>6, <1>7, <1>8, NextCases

\* For a user who waits for each answer, the grid shows rows of the table it is
\* editable against (sql.vue's onSaved, useQueryExecution.ts).
THEOREM PatienceTheorem == Spec => []PatienceIsEnough
<1>1. Init => PatientInv
  BY InitPage
<1>2. PageInv /\ PatientInv /\ [Next]_vars => PatientInv'
  BY PatientStep
<1>3. PatientInv => PatienceIsEnough
  BY DEF PatientInv, PatienceIsEnough
<1>4. QED
  BY <1>1, <1>2, <1>3, PageInvariant, PTL DEF Spec

----------------------------------------------------------------------------
(***************************************************************************)
(* The fan-out of describes.                                               *)
(***************************************************************************)
\* The tables asked about are a sequence.
LEMMA AskedIsASequence ==
  ASSUME NEW f \in Fan
  PROVE  /\ f.asked \in Seq(SideTables) /\ Len(f.asked) \in Nat
         /\ DOMAIN f.asked = 1..Len(f.asked)
<1>1. PICK n \in 0..Cardinality(SideTables) : f.asked \in [1..n -> SideTables]
  BY DEF Fan
<1>2. Cardinality(SideTables) \in Nat
  BY FS_CardinalityType, SidebarAssumption
<1>3. n \in Nat
  BY <1>1, <1>2
<1>4. f.asked \in Seq(SideTables)
  BY <1>1, <1>3
<1>5. QED
  BY <1>4

\* The workers are finitely many.
LEMMA WorkersAreFinite ==
  ASSUME NEW f
  PROVE  IsFiniteSet(Busy(f)) /\ Cardinality(Busy(f)) \in Nat
<1>1. IsFiniteSet(1..Pool)
  BY FS_Interval, SidebarAssumption
<1>2. Busy(f) \in SUBSET (1..Pool)
  BY DEF Busy
<1>3. QED
  BY <1>1, <1>2, FS_Subset, FS_CardinalityType

\* So are the descriptions.
LEMMA SlotsAreFinite ==
  ASSUME NEW n \in Int, NEW S, S \subseteq 1..n
  PROVE  IsFiniteSet(S) /\ Cardinality(S) \in Nat
<1>1. IsFiniteSet(1..n)
  BY FS_Interval
<1>2. QED
  BY <1>1, FS_Subset, FS_CardinalityType

\* No fan-out has taken place.
LEMMA NoFanIsAccounted == NoFan \in Fan /\ Accounted(NoFan)
<1>1. Busy(NoFan) = {}
  BY DEF NoFan, Busy
<1>2. 1 \in 1..Pool
  BY SidebarAssumption
<1>3. /\ NoFan.asked = <<>> /\ NoFan.next = 1 /\ NoFan.slots = {} /\ NoFan.failed = 0
      /\ NoFan.at \in [1..Pool -> Nat]
  BY DEF NoFan
<1>4. Len(NoFan.asked) = 0 /\ DOMAIN NoFan.asked = {}
  BY <1>3
<1>5. Accounted(NoFan)
  BY <1>1, <1>2, <1>3, <1>4, FS_EmptySet DEF Accounted
<1>6. NoFan.asked \in [1..0 -> SideTables]
  BY <1>3, <1>4
<1>7. Cardinality(SideTables) \in Nat
  BY FS_CardinalityType, SidebarAssumption
<1>8. NoFan.asked \in UNION {[1..n -> SideTables] : n \in 0..Cardinality(SideTables)}
  BY <1>6, <1>7
<1>9. NoFan \in Fan
  BY <1>3, <1>8 DEF NoFan, Fan
<1>10. QED
  BY <1>5, <1>9

\* A describe that ends, one way or the other, is accounted for, and its worker
\* has the next table or rests.
LEMMA TakesNextAccounts ==
  ASSUME NEW f \in Fan, Accounted(f), NEW w \in Busy(f),
         NEW slots, NEW failed \in Nat,
         \/ slots = f.slots \cup {f.at[w]} /\ failed = f.failed
         \/ slots = f.slots /\ failed = f.failed + 1
  PROVE  LET g == TakesNext([f EXCEPT !.slots = slots, !.failed = failed], w)
         IN  g \in Fan /\ Accounted(g)
<1> DEFINE h == [f EXCEPT !.slots = slots, !.failed = failed]
           g == TakesNext(h, w)
<1>1. /\ f.asked \in Seq(SideTables) /\ Len(f.asked) \in Nat
      /\ DOMAIN f.asked = 1..Len(f.asked)
  BY AskedIsASequence
<1>2. /\ f.next \in Nat /\ f.at \in [1..Pool -> Nat] /\ f.slots \in SUBSET Nat /\ f.failed \in Nat
      /\ DOMAIN f = {"asked", "next", "at", "slots", "failed"}
  BY DEF Fan
<1>3. w \in 1..Pool /\ f.at[w] \in (1..f.next - 1) \ f.slots
  BY DEF Accounted, Busy
<1>4. /\ IsFiniteSet(f.slots) /\ Cardinality(f.slots) \in Nat
  BY <1>2, SlotsAreFinite DEF Accounted
<1>a. /\ f.failed + Cardinality(f.slots) + Cardinality(Busy(f)) = f.next - 1
      /\ f.slots \subseteq 1..f.next - 1
      /\ Cardinality(Busy(f)) \in Nat
  BY WorkersAreFinite DEF Accounted
<1>5. /\ slots \subseteq 1..f.next - 1
      /\ slots \in SUBSET Nat
      /\ Cardinality(slots) \in Nat
      /\ failed + Cardinality(slots) + Cardinality(Busy(f)) = f.next
  <2>1. CASE slots = f.slots \cup {f.at[w]} /\ failed = f.failed
    <3>1. Cardinality(slots) = Cardinality(f.slots) + 1
      BY <1>3, <1>4, <2>1, FS_AddElement
    <3>2. f.slots \cup {f.at[w]} \subseteq 1..f.next - 1
      BY <1>3, <1>a
    <3>3. slots \subseteq 1..f.next - 1 /\ slots \in SUBSET Nat
      BY <1>2, <2>1, <3>2
    <3>4. Cardinality(slots) \in Nat
      BY <1>4, <3>1
    <3>5. failed + Cardinality(slots) + Cardinality(Busy(f)) = f.next
      <4>1. f.failed \in Nat /\ Cardinality(f.slots) \in Nat /\ Cardinality(Busy(f)) \in Nat /\ f.next \in Nat
        BY <1>2, <1>4, <1>a
      <4>2. f.failed + Cardinality(f.slots) + Cardinality(Busy(f)) = f.next - 1
        BY <1>a
      <4>3. failed = f.failed /\ Cardinality(slots) = Cardinality(f.slots) + 1
        BY <2>1, <3>1
      <4>4. QED
        BY <4>1, <4>2, <4>3
    <3>6. QED
      BY <3>3, <3>4, <3>5
  <2>2. CASE slots = f.slots /\ failed = f.failed + 1
    <3>1. /\ f.failed \in Nat /\ Cardinality(f.slots) \in Nat /\ Cardinality(Busy(f)) \in Nat /\ f.next \in Nat
          /\ f.failed + Cardinality(f.slots) + Cardinality(Busy(f)) = f.next - 1
      BY <1>2, <1>4, <1>a
    <3>2. failed + Cardinality(f.slots) + Cardinality(Busy(f)) = f.next
      BY <2>2, <3>1
    <3>3. QED
      BY <1>2, <1>4, <1>a, <2>2, <3>2
  <2>3. QED
    BY <2>1, <2>2
<1>6. \A v \in Busy(f) \ {w} : f.at[v] \in (1..f.next - 1) \ slots
  BY <1>3 DEF Accounted, Busy
<1>7. /\ h \in Fan /\ h.asked = f.asked /\ h.next = f.next /\ h.at = f.at
      /\ h.slots = slots /\ h.failed = failed
  BY <1>5 DEF Fan
<1> HIDE DEF h
<1>8. CASE f.next <= Len(f.asked)
  <2>1. g = [h EXCEPT !.at[w] = f.next, !.next = f.next + 1]
    BY <1>7, <1>8 DEF TakesNext
  <2>2. /\ g \in Fan /\ g.asked = f.asked /\ g.next = f.next + 1 /\ g.slots = slots
        /\ g.failed = failed /\ g.at = [f.at EXCEPT ![w] = f.next]
    <3>1. f.next + 1 \in Nat /\ f.next \in Nat
      BY <1>2
    <3>2. h.at \in [1..Pool -> Nat] /\ DOMAIN h = {"asked", "next", "at", "slots", "failed"}
      BY <1>7 DEF Fan
    <3>3. [h.at EXCEPT ![w] = f.next] \in [1..Pool -> Nat]
      BY <3>1, <3>2
    <3>4. g = [h EXCEPT !.at = [h.at EXCEPT ![w] = f.next], !.next = f.next + 1]
      BY <2>1
    <3> HIDE DEF g
    <3>5. QED
      BY <1>7, <3>1, <3>2, <3>3, <3>4 DEF Fan
  <2>3. f.next # 0
    BY <1>1 DEF Accounted
  <2>4. Busy(g) = Busy(f)
    BY <1>2, <1>3, <2>2, <2>3 DEF Busy
  <2>5. \A v \in Busy(g) : g.at[v] = IF v = w THEN f.next ELSE f.at[v]
    BY <1>2, <1>3, <2>2, <2>4 DEF Busy
  <2>6. /\ \A v \in Busy(g) : g.at[v] \in (1..g.next - 1) \ g.slots
        /\ g.slots \subseteq 1..g.next - 1
    BY <1>2, <1>5, <1>6, <2>2, <2>3, <2>4, <2>5
  <2>7. \A u, v \in Busy(g) : g.at[u] = g.at[v] => u = v
    <3> SUFFICES ASSUME NEW u \in Busy(g), NEW v \in Busy(g), g.at[u] = g.at[v] PROVE u = v
      OBVIOUS
    <3>1. \A x \in Busy(f) \ {w} : f.at[x] # f.next
      BY <1>2, <1>6
    <3>2. \A x, y \in Busy(f) : f.at[x] = f.at[y] => x = y
      BY DEF Accounted
    <3>3. u \in Busy(f) /\ v \in Busy(f)
      BY <2>4
    <3> HIDE DEF g
    <3>4. (IF u = w THEN f.next ELSE f.at[u]) = (IF v = w THEN f.next ELSE f.at[v])
      BY <2>5
    <3>5. QED
      BY <3>1, <3>2, <3>3, <3>4
  <2>8. g.next \in 1..Len(g.asked) + 1
    BY <1>1, <1>2, <1>8, <2>2
  <2>9. g.failed + Cardinality(g.slots) + Cardinality(Busy(g)) = g.next - 1
    BY <1>2, <1>5, <2>2, <2>4
  <2>10. Busy(g) # 1..Pool => g.next = Len(g.asked) + 1
    BY <1>1, <1>2, <1>8, <2>4 DEF Accounted
  <2>11. Accounted(g)
    BY <2>2, <2>6, <2>7, <2>8, <2>9, <2>10 DEF Accounted
  <2>12. QED
    BY <2>2, <2>11 DEF h
<1>9. CASE ~(f.next <= Len(f.asked))
  <2>1. g = [h EXCEPT !.at[w] = 0]
    BY <1>7, <1>9 DEF TakesNext
  <2>2. /\ g \in Fan /\ g.asked = f.asked /\ g.next = f.next /\ g.slots = slots
        /\ g.failed = failed /\ g.at = [f.at EXCEPT ![w] = 0]
    <3>1. h.at \in [1..Pool -> Nat] /\ DOMAIN h = {"asked", "next", "at", "slots", "failed"}
      BY <1>7 DEF Fan
    <3>2. [h.at EXCEPT ![w] = 0] \in [1..Pool -> Nat]
      BY <3>1
    <3>3. g = [h EXCEPT !.at = [h.at EXCEPT ![w] = 0]]
      BY <2>1
    <3> HIDE DEF g
    <3>4. QED
      BY <1>7, <3>1, <3>2, <3>3 DEF Fan
  <2>3. Busy(g) = Busy(f) \ {w}
    BY <1>2, <1>3, <2>2 DEF Busy
  <2>4. \A v \in Busy(g) : g.at[v] = f.at[v]
    BY <1>2, <1>3, <2>2, <2>3 DEF Busy
  <2>5. Cardinality(Busy(g)) = Cardinality(Busy(f)) - 1
    BY <2>3, WorkersAreFinite, FS_RemoveElement
  <2>6. g.next = Len(g.asked) + 1
    BY <1>1, <1>2, <1>9, <2>2 DEF Accounted
  <2>7. g.failed + Cardinality(g.slots) + Cardinality(Busy(g)) = g.next - 1
    BY <1>2, <1>5, <2>2, <2>5, WorkersAreFinite
  <2>8. /\ \A v \in Busy(g) : g.at[v] \in (1..g.next - 1) \ g.slots
        /\ g.slots \subseteq 1..g.next - 1
        /\ \A u, v \in Busy(g) : g.at[u] = g.at[v] => u = v
    BY <1>5, <1>6, <2>2, <2>3, <2>4 DEF Accounted
  <2>9. Accounted(g)
    BY <1>1, <1>2, <2>2, <2>6, <2>7, <2>8 DEF Accounted
  <2>10. QED
    BY <2>2, <2>9 DEF h
<1>10. QED
  BY <1>8, <1>9 DEF h

\* A fan-out begins with a worker for each of the first tables.
LEMMA DescribeAllAccounts ==
  ASSUME NEW tables \in SUBSET SideTables, NEW s \in InOrder(tables), NEW k \in Nat,
         k = IF Len(s) < Pool THEN Len(s) ELSE Pool
  PROVE  LET g == [NoFan EXCEPT !.asked = s, !.next = k + 1,
                                !.at = [w \in 1..Pool |-> IF w <= k THEN w ELSE 0]]
         IN  g \in Fan /\ Accounted(g)
<1> DEFINE at == [w \in 1..Pool |-> IF w <= k THEN w ELSE 0]
           g == [NoFan EXCEPT !.asked = s, !.next = k + 1, !.at = at]
<1>1. /\ Cardinality(tables) \in Nat
      /\ Cardinality(tables) \in 0..Cardinality(SideTables)
  <2>1. /\ IsFiniteSet(tables) /\ IsFiniteSet(SideTables)
        /\ Cardinality(tables) <= Cardinality(SideTables)
    BY SidebarAssumption, FS_Subset
  <2>2. Cardinality(tables) \in Nat /\ Cardinality(SideTables) \in Nat
    BY <2>1, FS_CardinalityType
  <2>3. QED
    BY <2>1, <2>2
<1>2. /\ s \in [1..Cardinality(tables) -> tables]
      /\ \A i, j \in DOMAIN s : i < j => s[i] < s[j]
  BY DEF InOrder
<1>3. s \in Seq(SideTables) /\ Len(s) = Cardinality(tables) /\ DOMAIN s = 1..Len(s)
  BY <1>1, <1>2
<1>4. s \in UNION {[1..n -> SideTables] : n \in 0..Cardinality(SideTables)}
  BY <1>1, <1>2
<1>5. \A i, j \in DOMAIN s : s[i] = s[j] => i = j
  <2>1. SUFFICES ASSUME NEW i \in DOMAIN s, NEW j \in DOMAIN s, i # j PROVE s[i] # s[j]
    OBVIOUS
  <2>2. s[i] \in Int /\ s[j] \in Int
    BY <1>2, <1>3, SidebarAssumption
  <2>3. i \in Nat /\ j \in Nat /\ (i < j \/ j < i)
    BY <1>1, <1>3, <2>1
  <2>4. s[i] < s[j] \/ s[j] < s[i]
    BY <1>2, <2>3
  <2>5. QED
    BY <2>2, <2>4
<1>6. at \in [1..Pool -> Nat] /\ Pool \in Nat /\ k <= Pool /\ k <= Len(s)
  BY <1>1, <1>3, SidebarAssumption
<1>7. /\ g.asked = s /\ g.next = k + 1 /\ g.at = at /\ g.slots = {} /\ g.failed = 0
  BY DEF NoFan
<1>8. g \in Fan
  <2>1. NoFan \in Fan /\ k + 1 \in Nat
    BY NoFanIsAccounted
  <2> HIDE DEF at
  <2>2. QED
    BY <1>4, <1>6, <2>1 DEF Fan
<1>9. Busy(g) = 1..k
  BY <1>6, <1>7 DEF Busy
<1>10. Cardinality(Busy(g)) = k
  <2>1. 1 \in Int /\ k \in Int
    OBVIOUS
  <2>2. Cardinality(1..k) = IF 1 > k THEN 0 ELSE k - 1 + 1
    BY <2>1, FS_Interval
  <2>3. QED
    BY <1>9, <2>2
<1>11. \A w \in Busy(g) : g.at[w] = w
  BY <1>6, <1>7, <1>9
<1>12. Busy(g) # 1..Pool => k = Len(s)
  BY <1>1, <1>3, <1>6, <1>9, SidebarAssumption
<1> HIDE DEF g, at
<1>13. g.failed + Cardinality(g.slots) + Cardinality(Busy(g)) = g.next - 1
  BY <1>7, <1>10, FS_EmptySet
<1>14. Accounted(g)
  BY <1>1, <1>3, <1>5, <1>6, <1>7, <1>9, <1>11, <1>12, <1>13 DEF Accounted
<1>15. QED
  BY <1>8, <1>14 DEF g, at

(***************************************************************************)
(* The sidebar.                                                            *)
(***************************************************************************)
LEMMA InitSidebar == SidebarInit => SidebarInv
<1> SUFFICES ASSUME SidebarInit PROVE SidebarInv
  OBVIOUS
<1>1. fan \in Fan /\ Accounted(fan)
  BY NoFanIsAccounted DEF SidebarInit
<1>2. SidebarTypeOK
  BY <1>1, SidebarAssumption DEF SidebarInit, SidebarTypeOK, Routes
<1>3. RouteFollowsProbe /\ QuotedOnceKnown
  BY DEF SidebarInit, RouteFollowsProbe, QuotedOnceKnown
<1>4. QED
  BY <1>1, <1>2, <1>3 DEF SidebarInv

\* The fan-out changes only by a step of its own.
LEMMA FanStep ==
  ASSUME SidebarInv, [SidebarNext]_sidebarVars
  PROVE  fan' \in Fan /\ Accounted(fan')
<1>1. fan \in Fan /\ Accounted(fan) /\ list.tables \in SUBSET SideTables
  BY DEF SidebarInv, SidebarTypeOK
<1>2. CASE DescribeAll
  <2>1. AiTables \in SUBSET SideTables
    BY <1>1 DEF AiTables
  <2>2. PICK s \in InOrder(AiTables) :
          LET n == Len(s)
              k == IF n < Pool THEN n ELSE Pool
          IN  fan' = [NoFan EXCEPT !.asked = s, !.next = k + 1,
                                   !.at = [w \in 1..Pool |-> IF w <= k THEN w ELSE 0]]
    BY <1>2 DEF DescribeAll
  <2>3. Cardinality(AiTables) \in Nat
    BY <2>1, SidebarAssumption, FS_Subset, FS_CardinalityType
  <2>4. s \in [1..Cardinality(AiTables) -> AiTables]
    BY DEF InOrder
  <2>5. Len(s) \in Nat
    BY <2>3, <2>4
  <2>6. QED
    BY <2>1, <2>2, <2>5, DescribeAllAccounts, SidebarAssumption
<1>3. ASSUME NEW w \in 1..Pool, TableDescribed(w)
      PROVE  fan' \in Fan /\ Accounted(fan')
  <2>1. w \in Busy(fan) /\ fan.failed \in Nat
    BY <1>1, <1>3 DEF Busy, TableDescribed, Fan
  <2>2. [fan EXCEPT !.slots = fan.slots \cup {fan.at[w]}]
        = [fan EXCEPT !.slots = fan.slots \cup {fan.at[w]}, !.failed = fan.failed]
    BY <1>1 DEF Fan
  <2>3. fan' = TakesNext([fan EXCEPT !.slots = fan.slots \cup {fan.at[w]}, !.failed = fan.failed], w)
    BY <1>3, <2>2 DEF TableDescribed
  <2>4. QED
    BY <1>1, <2>1, <2>3, TakesNextAccounts
<1>4. ASSUME NEW w \in 1..Pool, TableDescribeFails(w)
      PROVE  fan' \in Fan /\ Accounted(fan')
  <2>1. w \in Busy(fan) /\ fan.failed \in Nat /\ fan.failed + 1 \in Nat
    BY <1>1, <1>4 DEF Busy, TableDescribeFails, Fan
  <2>2. [fan EXCEPT !.failed = fan.failed + 1]
        = [fan EXCEPT !.slots = fan.slots, !.failed = fan.failed + 1]
    BY <1>1 DEF Fan
  <2>3. fan' = TakesNext([fan EXCEPT !.slots = fan.slots, !.failed = fan.failed + 1], w)
    BY <1>4, <2>2 DEF TableDescribeFails, AfterDescribeFails
  <2>4. QED
    BY <1>1, <2>1, <2>3, TakesNextAccounts
<1>5. CASE fan' = fan
  BY <1>1, <1>5
<1>6. QED
  BY <1>2, <1>3, <1>4, <1>5
     DEF SidebarNext, Listing, Columns, Describing, Refresh, Listed, TableComesOrGoes,
         ConnectionListLands, ProbeAnswers, Toggle, Send, Answered, HandToEditor, OfferAnswers,
         sidebarVars

\* Types.
LEMMA SidebarTypeStep ==
  ASSUME SidebarInv, [SidebarNext]_sidebarVars
  PROVE  SidebarTypeOK'
<1>1. SidebarTypeOK /\ fan' \in Fan
  BY FanStep DEF SidebarInv
<1>2. Built \in [known : BOOLEAN, dialect : {"ansi", "mysql"}]
  BY DEF Built, CurrentDialect, DialectOf
<1>3. CASE Listing
  BY <1>1, <1>3, SidebarAssumption
     DEF SidebarTypeOK, Listing, Refresh, Listed, TableComesOrGoes
<1>4. CASE ConnectionListLands \/ ProbeAnswers
  BY <1>1, <1>4 DEF SidebarTypeOK, ConnectionListLands, ProbeAnswers
<1>5. ASSUME NEW t \in SideTables, Toggle(t) \/ Send(t)
      PROVE  SidebarTypeOK'
  BY <1>1, <1>2, <1>5 DEF SidebarTypeOK, Toggle, Send, Probed, Routes
<1>6. ASSUME NEW t \in SideTables, Answered(t) \/ HandToEditor(t)
      PROVE  SidebarTypeOK'
  BY <1>1, <1>2, <1>6 DEF SidebarTypeOK, Answered, HandToEditor, Routes
<1>7. CASE Describing
  BY <1>1, <1>7
     DEF SidebarTypeOK, Describing, OfferAnswers, DescribeAll, TableDescribed, TableDescribeFails
<1>8. CASE UNCHANGED sidebarVars
  BY <1>1, <1>8 DEF SidebarTypeOK, sidebarVars
<1>9. QED
  BY <1>3, <1>4, <1>5, <1>6, <1>7, <1>8 DEF SidebarNext, Columns

\* A route is taken only on the answer of the probe, which is given once.
LEMMA RouteStep ==
  ASSUME SidebarInv, [SidebarNext]_sidebarVars
  PROVE  RouteFollowsProbe'
<1>1. SidebarTypeOK /\ RouteFollowsProbe
  BY DEF SidebarInv
<1>2. entry \in [SideTables -> [state : {"idle", "loading", "loaded", "error"},
                               via : {"none", "probe"} \cup Routes]]
  BY <1>1 DEF SidebarTypeOK
<1>3. ASSUME NEW t \in SideTables, Toggle(t) \/ Send(t) \/ Answered(t)
      PROVE  RouteFollowsProbe'
  BY <1>1, <1>2, <1>3 DEF RouteFollowsProbe, Toggle, Send, Answered, Probed, Routes
<1>4. CASE ProbeAnswers
  BY <1>1, <1>4 DEF RouteFollowsProbe, ProbeAnswers
<1>5. CASE UNCHANGED <<entry, probe>>
  BY <1>1, <1>5 DEF RouteFollowsProbe
<1>6. QED
  BY <1>3, <1>4, <1>5
     DEF SidebarNext, Listing, Columns, Describing, Refresh, Listed, TableComesOrGoes,
         ConnectionListLands, HandToEditor, OfferAnswers, DescribeAll, TableDescribed,
         TableDescribeFails, sidebarVars

\* What is built is quoted for the driver of the moment, and the engine of a
\* connection does not change.
LEMMA QuoteStep ==
  ASSUME SidebarInv, [SidebarNext]_sidebarVars
  PROVE  QuotedOnceKnown'
<1>1. QuotedOnceKnown /\ driver \in {Unknown, engine.driver}
  BY DEF SidebarInv, SidebarTypeOK
<1>2. Built.known => Built.dialect = DialectOf(engine.driver)
  BY <1>1 DEF Built, CurrentDialect
<1>3. engine' = engine /\ sent' \in {sent, Built}
  BY DEF SidebarNext, Listing, Columns, Describing, Refresh, Listed, TableComesOrGoes,
         ConnectionListLands, ProbeAnswers, Toggle, Send, Answered, HandToEditor, OfferAnswers,
         DescribeAll, TableDescribed, TableDescribeFails, sidebarVars
<1>4. QED
  BY <1>1, <1>2, <1>3 DEF QuotedOnceKnown, DialectOf

LEMMA SidebarStep ==
  ASSUME SidebarInv, [SidebarNext]_sidebarVars
  PROVE  SidebarInv'
<1>1. Accounted(fan)'
  BY FanStep DEF Accounted, Busy
<1>2. QED
  BY <1>1, SidebarTypeStep, RouteStep, QuoteStep DEF SidebarInv

\* What the invariant says of the schema.
LEMMA SidebarTells == SidebarInv => SchemaIsTold
<1> SUFFICES ASSUME SidebarInv PROVE SchemaIsTold
  OBVIOUS
<1>1. OneRoute
  BY DEF SidebarInv, RouteFollowsProbe, OneRoute, Routes
<1>2. fan \in Fan /\ Accounted(fan)
  BY DEF SidebarInv, SidebarTypeOK
<1>3. Len(fan.asked) \in Nat
  BY <1>2, AskedIsASequence
<1>4. Cardinality(fan.slots) \in Nat /\ fan.failed \in Nat /\ fan.next \in Nat
  <2>1. fan.failed \in Nat /\ fan.next \in Nat /\ fan.next - 1 \in Int
    BY <1>2 DEF Fan
  <2>2. fan.slots \subseteq 1..fan.next - 1
    BY <1>2 DEF Accounted
  <2>3. QED
    BY <2>1, <2>2, SlotsAreFinite
<1>5. Busy(fan) = {} => fan.failed + Cardinality(fan.slots) = Len(fan.asked)
  <2>1. SUFFICES ASSUME Busy(fan) = {}
                 PROVE  fan.failed + Cardinality(fan.slots) = Len(fan.asked)
    OBVIOUS
  <2>2. 1 \in 1..Pool
    BY SidebarAssumption
  <2>3. fan.next = Len(fan.asked) + 1 /\ Cardinality(Busy(fan)) = 0
    BY <1>2, <2>1, <2>2, FS_EmptySet DEF Accounted
  <2>4. fan.failed + Cardinality(fan.slots) + Cardinality(Busy(fan)) = fan.next - 1
    BY <1>2 DEF Accounted
  <2>5. QED
    BY <1>3, <1>4, <2>3, <2>4
<1>6. FanOutIsComplete
  <2>1. /\ \A v, w \in Busy(fan) : v # w => fan.at[v] # fan.at[w]
        /\ \A w \in Busy(fan) : fan.at[w] \notin fan.slots /\ fan.at[w] < fan.next
    BY <1>2, <1>4 DEF Accounted
  <2>2. QED
    BY <1>2, <1>5, <2>1 DEF FanOutIsComplete, Accounted, Busy
<1>7. QED
  BY <1>1, <1>6 DEF SidebarInv, SchemaIsTold

\* SidebarInv is an invariant of the schema browser, for any tables and any
\* number of workers.
THEOREM SidebarInvariant == SidebarSpec => []SidebarInv
<1>1. SidebarInit => SidebarInv
  BY InitSidebar
<1>2. SidebarInv /\ [SidebarNext]_sidebarVars => SidebarInv'
  BY SidebarStep
<1>3. QED
  BY <1>1, <1>2, PTL DEF SidebarSpec

\* The columns come by one route, what is built is quoted for the engine once
\* it is known, and a fan-out accounts for every table it was asked about
\* (useSchemaBrowser.ts:90-172, useTableDescriptions.ts:71-107).
THEOREM SchemaTheorem == SidebarSpec => []SchemaIsTold
<1>1. SidebarInv => SchemaIsTold
  BY SidebarTells
<1>2. QED
  BY <1>1, SidebarInvariant, PTL

----------------------------------------------------------------------------
(***************************************************************************)
(* The query history.                                                      *)
(***************************************************************************)
\* Two listings that have the same records of a request, at the same places.
LEMMA RecordsAgree ==
  ASSUME NEW r, NEW s, NEW t,
         {i \in DOMAIN s : s[i].of = r} = {i \in DOMAIN t : t[i].of = r},
         \A i \in DOMAIN s : s[i].of = r => s[i] = t[i]
  PROVE  RecordsOf(r, s) = RecordsOf(r, t)
  BY DEF RecordsOf, Restrict

\* What a listing with one more record has.
LEMMA AppendedRecord ==
  ASSUME NEW s \in Seq(Record), NEW e \in Record
  PROVE  /\ Append(s, e) \in Seq(Record)
         /\ Len(Append(s, e)) = Len(s) + 1 /\ DOMAIN Append(s, e) = 1..Len(s) + 1
         /\ \A i \in 1..Len(s) : Append(s, e)[i] = s[i]
         /\ Append(s, e)[Len(s) + 1] = e
         /\ Begins(s, Append(s, e))
         /\ \A r : r # e.of => RecordsOf(r, Append(s, e)) = RecordsOf(r, s)
<1>1. /\ Append(s, e) \in Seq(Record)
      /\ Len(Append(s, e)) = Len(s) + 1 /\ DOMAIN Append(s, e) = 1..Len(s) + 1
      /\ \A i \in 1..Len(s) : Append(s, e)[i] = s[i]
      /\ Append(s, e)[Len(s) + 1] = e
      /\ Len(s) \in Nat /\ DOMAIN s = 1..Len(s)
  OBVIOUS
<1>2. ASSUME NEW r, r # e.of PROVE RecordsOf(r, Append(s, e)) = RecordsOf(r, s)
  <2> DEFINE t == Append(s, e)
  <2>1. /\ DOMAIN t = 1..Len(s) + 1 /\ t[Len(s) + 1].of # r
        /\ \A i \in 1..Len(s) : t[i] = s[i]
    BY <1>1, <1>2
  <2> HIDE DEF t
  <2>2. {i \in DOMAIN t : t[i].of = r} = {i \in DOMAIN s : s[i].of = r}
    BY <1>1, <2>1
  <2>3. \A i \in DOMAIN t : t[i].of = r => t[i] = s[i]
    BY <1>1, <2>1
  <2>4. RecordsOf(r, t) = RecordsOf(r, s)
    BY <2>2, <2>3, RecordsAgree
  <2>5. QED
    BY <2>4 DEF t
<1>3. QED
  BY <1>1, <1>2 DEF Begins

\* A listing begins another that begins a third.
LEMMA BeginsOnward ==
  ASSUME NEW s \in Seq(Record), NEW t \in Seq(Record), NEW u \in Seq(Record),
         Begins(s, t), Begins(t, u)
  PROVE  Begins(s, u)
  BY DEF Begins

\* A listing that has as many records as the one it begins is that one.
LEMMA BeginsWhole ==
  ASSUME NEW s \in Seq(Record), NEW t \in Seq(Record), Begins(s, t), Len(s) = Len(t)
  PROVE  s = t
<1>1. /\ DOMAIN s = 1..Len(s) /\ DOMAIN t = 1..Len(t)
      /\ s = [i \in 1..Len(s) |-> s[i]] /\ t = [i \in 1..Len(t) |-> t[i]]
  OBVIOUS
<1>2. QED
  BY <1>1 DEF Begins

\* The page keeps every record of a request of its own.
LEMMA MineKeepsOwn ==
  ASSUME NEW r, origin[r] = "here", NEW records
  PROVE  RecordsOf(r, Mine(records)) = RecordsOf(r, records)
<1> DEFINE own == Mine(records)
<1>1. /\ DOMAIN own = {i \in DOMAIN records : origin[records[i].of] = "here"}
      /\ \A i \in DOMAIN own : own[i] = records[i]
  BY DEF Mine, Restrict
<1> HIDE DEF own
<1>2. {i \in DOMAIN own : own[i].of = r} = {i \in DOMAIN records : records[i].of = r}
  BY <1>1
<1>3. RecordsOf(r, own) = RecordsOf(r, records)
  BY <1>1, <1>2, RecordsAgree
<1>4. QED
  BY <1>3 DEF own

\* Types of what an export is made of.
LEMMA FetchFields ==
  ASSUME HistoryTypeOK, NEW f \in Fetches
  PROVE  /\ fetch[f].snapshot \in Seq(Record) /\ fetch[f].got \in Seq(Record)
         /\ sealed[f] \in Seq(Record) /\ log \in Seq(Record)
         /\ fetch[f].stage \in {"idle", "asked", "reading"}
  BY DEF HistoryTypeOK

\* A refresh puts out one export, and touches no other.
LEMMA RefreshEffect ==
  ASSUME HistoryTypeOK, RefreshStarts
  PROVE  \E f \in Idle :
            /\ fetch' = [fetch EXCEPT ![f] = [stage |-> "asked", snapshot |-> <<>>, got |-> <<>>]]
            /\ sidebar' = [sidebar EXCEPT !.state = "loading"]
<1>1. PICK f \in Idle : f = CHOOSE g \in Idle : TRUE
  BY DEF RefreshStarts
<1>2. [NoFetch EXCEPT !.stage = "asked"] = [stage |-> "asked", snapshot |-> <<>>, got |-> <<>>]
  BY DEF NoFetch
<1>3. QED
  BY <1>1, <1>2 DEF RefreshStarts

\* A server that has just started, and a page that has asked for its history.
LEMMA InitHistory == HistoryInit => HistoryInv
<1> SUFFICES ASSUME HistoryInit PROVE HistoryInv
  OBVIOUS
<1>1. PICK first : fetch = [f \in Fetches |-> [NoFetch EXCEPT !.stage =
                                              IF f = first THEN "asked" ELSE "idle"]]
  BY DEF HistoryInit
<1>10. /\ now = 0 /\ stepped = {} /\ log = <<>> /\ waits \in BOOLEAN
       /\ origin \in [Requests -> {"here", "elsewhere"}]
       /\ request = [r \in Requests |-> [stage |-> "none", start |-> 0, status |-> "none"]]
       /\ sealed = [f \in Fetches |-> <<>>]
       /\ sidebar = [state |-> "loading", shown |-> <<>>]
  BY DEF HistoryInit
<1>2. \A f \in Fetches :
        fetch[f] = [stage |-> IF f = first THEN "asked" ELSE "idle", snapshot |-> <<>>, got |-> <<>>]
  BY <1>1 DEF NoFetch
<1>3. /\ <<>> \in Seq(Record) /\ Len(<<>>) = 0 /\ DOMAIN <<>> = {}
      /\ <<>> \in [{} -> Record]
  OBVIOUS
<1>11. \A f \in Fetches : /\ fetch[f].snapshot = <<>> /\ fetch[f].got = <<>> /\ sealed[f] = <<>>
                          /\ fetch[f].stage = IF f = first THEN "asked" ELSE "idle"
  <2> TAKE f \in Fetches
  <2>1. fetch[f] = [stage |-> IF f = first THEN "asked" ELSE "idle", snapshot |-> <<>>, got |-> <<>>]
    BY <1>2
  <2>2. sealed[f] = <<>>
    BY <1>10
  <2>3. QED
    BY <2>1, <2>2
<1>12. Begins(<<>>, <<>>)
  BY <1>3 DEF Begins
<1>4. HistoryTypeOK
  <2>1. fetch \in [Fetches -> [stage : {"idle", "asked", "reading"},
                               snapshot : Seq(Record), got : Seq(Record)]]
    BY <1>1, <1>2, <1>3
  <2>2. sidebar \in [state : {"idle", "loading", "error"},
                     shown : UNION {[at -> Record] : at \in SUBSET (1..Len(log))}]
    BY <1>3, <1>10
  <2>3. sealed \in [Fetches -> Seq(Record)]
    BY <1>3, <1>10
  <2>4. request \in [Requests -> [stage : {"none", "running", "answered", "heard", "lost"},
                                  start : 0..MaxNow, status : {"none", "ok", "error"}]]
    BY <1>10, HistoryAssumption
  <2>5. now \in 0..MaxNow /\ stepped \subseteq Requests /\ log \in Seq(Record)
    BY <1>3, <1>10, HistoryAssumption
  <2>6. QED
    BY <1>10, <2>1, <2>2, <2>3, <2>4, <2>5 DEF HistoryTypeOK
<1>5. LogIsKept
  BY <1>3, <1>10, HistoryAssumption DEF LogIsKept, InHand, Underway
<1>6. ExportsAreCopies
  BY <1>10, <1>11, <1>12 DEF ExportsAreCopies
<1>7. Awaited = {} /\ Underway("heard") = {}
  BY <1>10 DEF Awaited, Underway
<1>13. (\A records : Shows(records)) /\ (\A f, g \in Fetches \ Idle : f = g)
  BY <1>7, <1>11 DEF Shows, Idle
<1>8. WaitsItsTurn
  BY <1>7, <1>10, <1>11, <1>13 DEF WaitsItsTurn
<1>9. QED
  BY <1>4, <1>5, <1>6, <1>7, <1>8 DEF HistoryInv, OneRunAtATime

\* What the server is still at.
LEMMA InHandMembers ==
  /\ \A r : r \in InHand <=> /\ r \in Requests /\ request[r].stage \in {"running", "lost"}
                             /\ request[r].status = "none"
  /\ \A r : r \in InHand' <=> /\ r \in Requests /\ request'[r].stage \in {"running", "lost"}
                              /\ request'[r].status = "none"
  BY DEF InHand, Underway

\* An answer settles its request, and records it unless the clock was set back
\* before it came.
LEMMA AnswerEffect ==
  ASSUME HistoryInv, NEW r \in Requests, Answer(r)
  PROVE  \E status \in {"ok", "error"} :
            /\ r \in InHand
            /\ request' = [request EXCEPT ![r] =
                             [stage |-> IF request[r].stage = "running" THEN "answered" ELSE "lost",
                              start |-> 0, status |-> status]]
            /\ \/ log' = Append(log, [of |-> r, status |-> status])
               \/ log' = log /\ r \in stepped
<1>1. PICK status \in {"ok", "error"} :
        /\ request' = [request EXCEPT ![r] =
                         [stage |-> IF @.stage = "running" THEN "answered" ELSE @.stage,
                          start |-> 0, status |-> status]]
        /\ log' = Recorded(r, status)
  BY DEF Answer
<1>2. r \in InHand /\ request[r].stage \in {"running", "lost"}
  BY InHandMembers DEF Answer
<1>3. log' = Append(log, [of |-> r, status |-> status]) \/ (log' = log /\ r \in stepped)
  <2>1. CASE now >= request[r].start
    BY <1>1, <2>1 DEF Recorded, Persisted
  <2>2. CASE ~(now >= request[r].start)
    <3>1. log' = log
      BY <1>1, <2>2 DEF Recorded, Persisted
    <3>2. now \in Nat /\ request[r].start \in Nat
      BY HistoryAssumption DEF HistoryInv, HistoryTypeOK
    <3>3. r \in InHand \ stepped => request[r].start <= now
      BY DEF HistoryInv, LogIsKept
    <3>4. QED
      BY <1>2, <2>2, <3>1, <3>2, <3>3
  <2>3. QED
    BY <2>1, <2>2
<1>4. request' = [request EXCEPT ![r] =
                    [stage |-> IF request[r].stage = "running" THEN "answered" ELSE "lost",
                     start |-> 0, status |-> status]]
  BY <1>1, <1>2
<1>5. QED
  BY <1>2, <1>3, <1>4

\* The log only grows.
LEMMA LogGrows ==
  ASSUME HistoryInv, [HistoryNext]_historyVars
  PROVE  log' \in Seq(Record) /\ Begins(log, log')
<1>1. log \in Seq(Record) /\ Begins(log, log)
  BY DEF HistoryInv, HistoryTypeOK, Begins
<1>2. ASSUME NEW r \in Requests, Answer(r)
      PROVE  log' \in Seq(Record) /\ Begins(log, log')
  <2>1. PICK status \in {"ok", "error"} :
           log' = Append(log, [of |-> r, status |-> status]) \/ log' = log
    BY <1>2, AnswerEffect
  <2>2. [of |-> r, status |-> status] \in Record
    BY DEF Record
  <2>3. QED
    BY <1>1, <2>1, <2>2, AppendedRecord
<1>3. CASE log' = log
  BY <1>1, <1>3
<1>4. QED
  BY <1>2, <1>3
     DEF HistoryNext, Tick, ClockSetBack, RefreshClicked, Receive, RunReturns, ExportStarts,
         ExportWrites, ExportLands, ExportFails, historyVars

\* Types.
LEMMA HistoryTypeStep ==
  ASSUME HistoryInv, [HistoryNext]_historyVars
  PROVE  HistoryTypeOK'
<1> DEFINE Shown(l) == UNION {[at -> Record] : at \in SUBSET (1..Len(l))}
<1>1. HistoryTypeOK /\ log' \in Seq(Record) /\ Begins(log, log')
  BY LogGrows DEF HistoryInv
<1>2. Shown(log) \subseteq Shown(log')
  <2>1. Len(log) \in Nat /\ Len(log') \in Nat /\ Len(log) <= Len(log')
    BY <1>1 DEF Begins, HistoryTypeOK
  <2>2. 1..Len(log) \subseteq 1..Len(log')
    BY <2>1
  <2>3. QED
    BY <2>2
<1>3. sidebar.shown \in Shown(log') /\ sidebar.state \in {"idle", "loading", "error"}
  BY <1>1, <1>2 DEF HistoryTypeOK
<1>4. \A s \in {"idle", "loading", "error"} :
        [sidebar EXCEPT !.state = s] \in [state : {"idle", "loading", "error"}, shown : Shown(log')]
  BY <1>1, <1>3 DEF HistoryTypeOK
<1>5. sidebar \in [state : {"idle", "loading", "error"}, shown : Shown(log')]
  BY <1>1, <1>3 DEF HistoryTypeOK
<1>6. NoFetch \in [stage : {"idle", "asked", "reading"}, snapshot : Seq(Record), got : Seq(Record)]
  BY DEF NoFetch
<1>7. ASSUME RefreshStarts
      PROVE  /\ fetch' \in [Fetches -> [stage : {"idle", "asked", "reading"},
                                        snapshot : Seq(Record), got : Seq(Record)]]
             /\ sidebar' \in [state : {"idle", "loading", "error"}, shown : Shown(log')]
  <2>1. PICK f \in Idle :
          /\ fetch' = [fetch EXCEPT ![f] = [stage |-> "asked", snapshot |-> <<>>, got |-> <<>>]]
          /\ sidebar' = [sidebar EXCEPT !.state = "loading"]
    BY <1>1, <1>7, RefreshEffect
  <2>2. [stage |-> "asked", snapshot |-> <<>>, got |-> <<>>]
          \in [stage : {"idle", "asked", "reading"}, snapshot : Seq(Record), got : Seq(Record)]
    OBVIOUS
  <2>3. QED
    BY <1>1, <1>4, <2>1, <2>2 DEF HistoryTypeOK
<1> HIDE DEF Shown
<1>8. CASE Tick \/ ClockSetBack
  <2>1. now' \in 0..MaxNow /\ stepped' \subseteq Requests
    BY <1>1, <1>8, HistoryAssumption DEF HistoryTypeOK, Tick, ClockSetBack, InHand, Underway
  <2>2. QED
    BY <1>1, <1>8, <2>1 DEF HistoryTypeOK, Tick, ClockSetBack
<1>9. CASE RefreshClicked
  BY <1>1, <1>7, <1>9 DEF HistoryTypeOK, RefreshClicked, Shown
<1>10. ASSUME NEW r \in Requests, Receive(r)
       PROVE  HistoryTypeOK'
  BY <1>1, <1>10 DEF HistoryTypeOK, Receive
<1>11. ASSUME NEW r \in Requests, Answer(r)
       PROVE  HistoryTypeOK'
  <2>1. request' \in [Requests -> [stage : {"none", "running", "answered", "heard", "lost"},
                                   start : 0..MaxNow, status : {"none", "ok", "error"}]]
    <3>1. PICK status \in {"ok", "error"} :
            request' = [request EXCEPT ![r] =
                          [stage |-> IF request[r].stage = "running" THEN "answered" ELSE "lost",
                           start |-> 0, status |-> status]]
      BY <1>11, AnswerEffect
    <3>2. [stage |-> IF request[r].stage = "running" THEN "answered" ELSE "lost",
           start |-> 0, status |-> status]
            \in [stage : {"none", "running", "answered", "heard", "lost"},
                start : 0..MaxNow, status : {"none", "ok", "error"}]
      BY HistoryAssumption
    <3>3. QED
      BY <1>1, <3>1, <3>2 DEF HistoryTypeOK
  <2>2. QED
    BY <1>1, <1>5, <1>11, <2>1 DEF HistoryTypeOK, Answer, Shown
<1>12. ASSUME NEW r \in Requests, RunReturns(r)
       PROVE  HistoryTypeOK'
  <2>1. request' \in [Requests -> [stage : {"none", "running", "answered", "heard", "lost"},
                                   start : 0..MaxNow, status : {"none", "ok", "error"}]]
    <3>1. request[r] \in [stage : {"none", "running", "answered", "heard", "lost"},
                          start : 0..MaxNow, status : {"none", "ok", "error"}]
      BY <1>1 DEF HistoryTypeOK
    <3>2. PICK stage \in {"heard", "lost"} : request' = [request EXCEPT ![r].stage = stage]
      BY <1>12 DEF RunReturns
    <3>3. QED
      BY <1>1, <3>1, <3>2 DEF HistoryTypeOK
  <2>2. RefreshStarts \/ UNCHANGED <<fetch, sidebar>>
    BY <1>12 DEF RunReturns, AfterRun
  <2>3. UNCHANGED <<now, stepped, origin, log, sealed, waits>>
    BY <1>12 DEF RunReturns
  <2>4. QED
    BY <1>1, <1>7, <2>1, <2>2, <2>3 DEF HistoryTypeOK, Shown
<1>13. ASSUME NEW f \in Fetches, ExportStarts(f) \/ ExportWrites(f)
       PROVE  HistoryTypeOK'
  <2>1. fetch' \in [Fetches -> [stage : {"idle", "asked", "reading"},
                                snapshot : Seq(Record), got : Seq(Record)]]
    <3>1. CASE ExportStarts(f)
      <4>1. /\ fetch' = [fetch EXCEPT ![f].stage = "reading", ![f].snapshot = log]
            /\ fetch[f].got \in Seq(Record) /\ log \in Seq(Record)
        BY <1>1, <3>1, FetchFields DEF ExportStarts
      <4>2. fetch[f] \in [stage : {"idle", "asked", "reading"}, snapshot : Seq(Record),
                          got : Seq(Record)]
        BY <1>1 DEF HistoryTypeOK
      <4>3. [fetch[f] EXCEPT !.stage = "reading"]
              \in [stage : {"idle", "asked", "reading"}, snapshot : Seq(Record), got : Seq(Record)]
        BY <4>2
      <4>4. [[fetch[f] EXCEPT !.stage = "reading"] EXCEPT !.snapshot = log]
              \in [stage : {"idle", "asked", "reading"}, snapshot : Seq(Record), got : Seq(Record)]
        BY <4>1, <4>3
      <4>5. fetch' = [fetch EXCEPT ![f] =
                        [[fetch[f] EXCEPT !.stage = "reading"] EXCEPT !.snapshot = log]]
        BY <1>1, <4>1 DEF HistoryTypeOK
      <4>6. QED
        BY <1>1, <4>4, <4>5 DEF HistoryTypeOK
    <3>2. CASE ExportWrites(f)
      <4>1. /\ fetch[f].got \in Seq(Record) /\ fetch[f].snapshot \in Seq(Record)
            /\ Len(fetch[f].got) < Len(fetch[f].snapshot)
        BY <1>1, <3>2 DEF HistoryTypeOK, ExportWrites, Source
      <4>2. fetch[f].snapshot[Len(fetch[f].got) + 1] \in Record
        BY <4>1
      <4>3. Append(fetch[f].got, fetch[f].snapshot[Len(fetch[f].got) + 1]) \in Seq(Record)
        BY <4>1, <4>2
      <4>4. PICK got \in Seq(Record) : fetch' = [fetch EXCEPT ![f].got = got]
        BY <3>2, <4>3 DEF ExportWrites, Source
      <4>5. fetch[f] \in [stage : {"idle", "asked", "reading"}, snapshot : Seq(Record),
                          got : Seq(Record)]
        BY <1>1 DEF HistoryTypeOK
      <4>6. [fetch[f] EXCEPT !.got = got]
              \in [stage : {"idle", "asked", "reading"}, snapshot : Seq(Record), got : Seq(Record)]
        BY <4>5
      <4>7. QED
        BY <1>1, <4>4, <4>6 DEF HistoryTypeOK
    <3>3. QED
      BY <1>13, <3>1, <3>2
  <2>2. sealed' \in [Fetches -> Seq(Record)]
    BY <1>1, <1>13 DEF HistoryTypeOK, ExportStarts, ExportWrites
  <2>3. UNCHANGED <<now, stepped, origin, request, log, sidebar, waits>>
    BY <1>13 DEF ExportStarts, ExportWrites
  <2>4. QED
    BY <1>1, <2>1, <2>2, <2>3 DEF HistoryTypeOK
<1>14. ASSUME NEW f \in Fetches, ExportLands(f)
       PROVE  HistoryTypeOK'
  <2>1. Mine(fetch[f].got) \in Shown(log')
    <3> DEFINE own == {i \in DOMAIN fetch[f].got : origin[fetch[f].got[i].of] = "here"}
    <3>1. fetch[f].got \in Seq(Record) /\ DOMAIN fetch[f].got = 1..Len(fetch[f].got)
      BY <1>1, FetchFields
    <3>2. fetch[f].snapshot \in Seq(Record) /\ log \in Seq(Record)
      BY <1>1, FetchFields
    <3>3. Begins(fetch[f].got, fetch[f].snapshot) /\ Begins(fetch[f].snapshot, log)
      BY DEF HistoryInv, ExportsAreCopies
    <3>4. Len(fetch[f].got) <= Len(log') /\ Len(log') \in Nat /\ Len(fetch[f].got) \in Nat
      BY <1>1, <3>1, <3>2, <3>3 DEF Begins
    <3>5. own \subseteq 1..Len(log')
      BY <3>1, <3>4
    <3>6. Mine(fetch[f].got) \in [own -> Record]
      BY <3>1 DEF Mine, Restrict
    <3>7. QED
      BY <3>5, <3>6 DEF Shown
  <2>2. sidebar' \in [state : {"idle", "loading", "error"}, shown : Shown(log')]
    BY <1>14, <2>1 DEF ExportLands
  <2>3. QED
    BY <1>1, <1>6, <1>14, <2>2 DEF HistoryTypeOK, ExportLands, Shown
<1>15. ASSUME NEW f \in Fetches, ExportFails(f)
       PROVE  HistoryTypeOK'
  <2>1. sidebar' \in [state : {"idle", "loading", "error"}, shown : Shown(log')]
    BY <1>4, <1>15 DEF ExportFails
  <2>2. /\ fetch' = [fetch EXCEPT ![f] = NoFetch] /\ sealed' = [sealed EXCEPT ![f] = <<>>]
        /\ UNCHANGED <<now, stepped, origin, request, log, waits>>
    BY <1>15 DEF ExportFails
  <2>3. QED
    BY <1>1, <1>6, <2>1, <2>2 DEF HistoryTypeOK, Shown
<1>16. CASE UNCHANGED historyVars
  BY <1>1, <1>16 DEF HistoryTypeOK, historyVars
<1>17. QED
  BY <1>8, <1>9, <1>10, <1>11, <1>12, <1>13, <1>14, <1>15, <1>16 DEF HistoryNext

\* The store and the server: a request has its record from its answer on.
LEMMA LogStep ==
  ASSUME HistoryInv, [HistoryNext]_historyVars
  PROVE  LogIsKept'
<1>1. HistoryTypeOK /\ LogIsKept /\ log \in Seq(Record) /\ DOMAIN log = 1..Len(log)
  BY DEF HistoryInv, HistoryTypeOK
<1>20. \A i \in DOMAIN log : log[i] \in Record
  BY <1>1
<1>2. CASE UNCHANGED <<request, log>> /\ (Tick \/ ClockSetBack)
  <2>1. InHand' = InHand
    BY <1>2 DEF InHand, Underway
  <2>2. now \in Nat /\ \A r \in Requests : request[r].start \in Nat
    BY <1>1, HistoryAssumption DEF HistoryTypeOK
  <2>3. \/ stepped' = stepped /\ now' = now + 1
        \/ stepped' = stepped \cup InHand /\ now' = now - 1
    BY <1>2 DEF Tick, ClockSetBack
  <2>4. \A r \in Requests : r \in InHand' \ stepped' => request'[r].start <= now'
    BY <1>1, <1>2, <2>1, <2>2, <2>3 DEF LogIsKept
  <2>5. stepped \subseteq stepped'
    BY <2>3
  <2>6. QED
    BY <1>1, <1>2, <2>4, <2>5 DEF LogIsKept
<1>3. ASSUME NEW r \in Requests, Receive(r)
      PROVE  LogIsKept'
  <2>1. /\ request' = [request EXCEPT ![r] = [stage |-> "running", start |-> now, status |-> "none"]]
        /\ request[r].stage = "none"
        /\ UNCHANGED <<now, stepped, log>>
    BY <1>3 DEF Receive
  <2>2. /\ request'[r] = [stage |-> "running", start |-> now, status |-> "none"]
        /\ \A q \in Requests : q # r => request'[q] = request[q]
        /\ request[r].status = "none" /\ now \in Nat
    BY <1>1, <2>1, HistoryAssumption DEF LogIsKept, HistoryTypeOK
  <2>3. \A q \in Requests : request'[q].status = request[q].status
    BY <2>2
  <2>4. \A i \in DOMAIN log : log[i].of \in Requests
    BY <1>20 DEF Record
  <2>5. \A q \in Requests : q \in InHand' \ stepped' => request'[q].start <= now'
    BY <1>1, <2>1, <2>2, InHandMembers DEF LogIsKept
  <2>6. QED
    BY <1>1, <2>1, <2>2, <2>3, <2>4, <2>5 DEF LogIsKept
<1>4. ASSUME NEW r \in Requests, Answer(r)
      PROVE  LogIsKept'
  <2>1. PICK status \in {"ok", "error"} :
          /\ r \in InHand
          /\ request' = [request EXCEPT ![r] =
                           [stage |-> IF request[r].stage = "running" THEN "answered" ELSE "lost",
                            start |-> 0, status |-> status]]
          /\ \/ log' = Append(log, [of |-> r, status |-> status])
             \/ log' = log /\ r \in stepped
    BY <1>4, AnswerEffect
  <2>2. UNCHANGED <<now, stepped>>
    BY <1>4 DEF Answer
  <2>3. /\ request'[r].stage \in {"answered", "lost"} /\ request'[r].status = status
        /\ \A q \in Requests : q # r => request'[q] = request[q]
    BY <1>1, <2>1 DEF HistoryTypeOK
  <2>4. \A q \in Requests : q \in InHand' \ stepped' => request'[q].start <= now'
    BY <1>1, <2>2, <2>3, InHandMembers DEF LogIsKept
  <2>5. \A i \in DOMAIN log : log[i].of \in Requests /\ log[i].of # r
    <3>1. \A i \in DOMAIN log : log[i].of \in Requests /\ log[i].status \in {"ok", "error"}
      BY <1>20 DEF Record
    <3>2. request[r].status = "none"
      BY <2>1, InHandMembers
    <3>3. QED
      BY <1>1, <3>1, <3>2 DEF LogIsKept
  <2>6. \A q \in Requests :
          /\ request'[q].stage \in {"none", "running"} => request'[q].status = "none"
          /\ request'[q].stage \in {"answered", "heard"} => request'[q].status # "none"
    BY <1>1, <2>3 DEF LogIsKept
  <2>7. CASE log' = log /\ r \in stepped
    BY <1>1, <2>2, <2>3, <2>4, <2>5, <2>6, <2>7 DEF LogIsKept
  <2>8. CASE log' = Append(log, [of |-> r, status |-> status])
    <3>1. [of |-> r, status |-> status] \in Record /\ Len(log) \in Nat
      BY <1>1 DEF Record
    <3>2. /\ DOMAIN log' = 1..Len(log) + 1
          /\ \A i \in 1..Len(log) : log'[i] = log[i]
          /\ log'[Len(log) + 1] = [of |-> r, status |-> status]
      BY <1>1, <2>8, <3>1, AppendedRecord
    <3>3. \A i \in DOMAIN log' : log'[i].status = request'[log'[i].of].status
      BY <1>1, <2>3, <2>5, <3>1, <3>2 DEF LogIsKept
    <3>4. \A i, j \in DOMAIN log' : log'[i].of = log'[j].of => i = j
      BY <1>1, <2>5, <3>1, <3>2 DEF LogIsKept
    <3>5. \A q \in Requests : request'[q].status # "none" /\ q \notin stepped' =>
                                \E i \in DOMAIN log' : log'[i].of = q
      <4>1. \E i \in DOMAIN log' : log'[i].of = r
        BY <3>1, <3>2
      <4>2. \A i \in DOMAIN log : i \in DOMAIN log' /\ log'[i] = log[i]
        BY <1>1, <3>1, <3>2
      <4>3. QED
        BY <1>1, <2>2, <2>3, <4>1, <4>2 DEF LogIsKept
    <3>6. QED
      BY <2>4, <2>6, <3>3, <3>4, <3>5 DEF LogIsKept
  <2>9. QED
    BY <2>1, <2>7, <2>8
<1>5. ASSUME NEW r \in Requests, RunReturns(r)
      PROVE  LogIsKept'
  <2>1. UNCHANGED <<now, stepped, log>>
    BY <1>5 DEF RunReturns
  <2>2. \/ request[r].stage = "answered" /\ request' = [request EXCEPT ![r].stage = "heard"]
        \/ /\ request[r].stage \in {"running", "answered"}
           /\ request' = [request EXCEPT ![r].stage = "lost"]
    BY <1>5 DEF RunReturns
  <2>3. /\ \A q \in Requests : /\ q # r => request'[q] = request[q]
                               /\ request'[q].status = request[q].status
                               /\ request'[q].start = request[q].start
        /\ \/ request[r].stage = "answered" /\ request'[r].stage = "heard"
           \/ request[r].stage \in {"running", "answered"} /\ request'[r].stage = "lost"
    BY <1>1, <2>2 DEF HistoryTypeOK
  <2>4. InHand' \subseteq InHand
    BY <1>1, <2>3, InHandMembers DEF LogIsKept
  <2>5. \A q \in Requests : q \in InHand' \ stepped' => request'[q].start <= now'
    BY <1>1, <2>1, <2>3, <2>4 DEF LogIsKept
  <2>6. \A i \in DOMAIN log : log[i].of \in Requests
    BY <1>20 DEF Record
  <2>7. QED
    BY <1>1, <2>1, <2>3, <2>5, <2>6 DEF LogIsKept
<1>6. CASE UNCHANGED <<now, stepped, request, log>>
  BY <1>1, <1>6 DEF LogIsKept, InHand, Underway
<1>7. QED
  BY <1>2, <1>3, <1>4, <1>5, <1>6
     DEF HistoryNext, Tick, ClockSetBack, RefreshClicked, ExportStarts, ExportWrites,
         ExportLands, ExportFails, historyVars

\* Nothing written is the beginning of anything.
LEMMA NothingBegins == ASSUME NEW s \in Seq(Record) PROVE Begins(<<>>, s)
  BY DEF Begins

\* An export writes what it copied when it began.
LEMMA CopiesStep ==
  ASSUME HistoryInv, [HistoryNext]_historyVars
  PROVE  ExportsAreCopies'
<1>1. HistoryTypeOK /\ ExportsAreCopies /\ log' \in Seq(Record) /\ Begins(log, log')
  BY LogGrows DEF HistoryInv
<1> DEFINE Copies(f, l) ==
      /\ fetch[f].snapshot = sealed[f]
      /\ fetch[f].stage # "reading" => fetch[f].snapshot = <<>> /\ fetch[f].got = <<>>
      /\ Begins(fetch[f].got, fetch[f].snapshot) /\ Begins(fetch[f].snapshot, l)
<1>2. \A f \in Fetches : Copies(f, log')
  <2> TAKE f \in Fetches
  <2>1. Copies(f, log)
    BY <1>1 DEF ExportsAreCopies
  <2>2. fetch[f].snapshot \in Seq(Record) /\ log \in Seq(Record)
    BY <1>1, FetchFields
  <2>3. QED
    BY <1>1, <2>1, <2>2, BeginsOnward
<1>3. Begins(<<>>, <<>>) /\ Begins(<<>>, log')
  <2>1. <<>> \in Seq(Record)
    OBVIOUS
  <2>2. QED
    BY <1>1, <2>1, NothingBegins
<1>4. ASSUME RefreshStarts, UNCHANGED sealed
      PROVE  ExportsAreCopies'
  <2>1. PICK f \in Idle :
          fetch' = [fetch EXCEPT ![f] = [stage |-> "asked", snapshot |-> <<>>, got |-> <<>>]]
    BY <1>1, <1>4, RefreshEffect
  <2>2. f \in Fetches /\ fetch[f].stage = "idle"
    BY DEF Idle
  <2>3. sealed[f] = <<>>
    BY <1>2, <2>2
  <2>4. /\ fetch'[f].stage = "asked" /\ fetch'[f].snapshot = <<>> /\ fetch'[f].got = <<>>
        /\ \A g \in Fetches : g # f => fetch'[g] = fetch[g]
    BY <1>1, <2>1, <2>2 DEF HistoryTypeOK
  <2>5. QED
    BY <1>2, <1>3, <1>4, <2>3, <2>4 DEF ExportsAreCopies
<1>5. ASSUME NEW f \in Fetches, ExportStarts(f)
      PROVE  ExportsAreCopies'
  <2>1. /\ fetch' = [fetch EXCEPT ![f].stage = "reading", ![f].snapshot = log]
        /\ sealed' = [sealed EXCEPT ![f] = log] /\ log' = log /\ fetch[f].stage = "asked"
    BY <1>5 DEF ExportStarts
  <2>2. /\ fetch'[f].stage = "reading" /\ fetch'[f].snapshot = log /\ fetch'[f].got = <<>>
        /\ sealed'[f] = log
        /\ \A g \in Fetches : g # f => fetch'[g] = fetch[g] /\ sealed'[g] = sealed[g]
    BY <1>1, <1>2, <2>1 DEF HistoryTypeOK
  <2>3. Begins(log, log)
    BY DEF Begins
  <2>4. Begins(fetch'[f].got, fetch'[f].snapshot) /\ Begins(fetch'[f].snapshot, log')
    BY <1>3, <2>1, <2>2, <2>3
  <2>5. \A g \in Fetches : g # f => Copies(g, log') /\ fetch'[g] = fetch[g] /\ sealed'[g] = sealed[g]
    BY <1>2, <2>2
  <2>6. QED
    BY <2>2, <2>4, <2>5 DEF ExportsAreCopies
<1>6. ASSUME NEW f \in Fetches, ExportWrites(f)
      PROVE  ExportsAreCopies'
  <2> DEFINE s == fetch[f].snapshot
             got == fetch[f].got
             e == s[Len(got) + 1]
  <2>1. /\ fetch' = [fetch EXCEPT ![f].got = Append(got, e)] /\ sealed' = sealed
        /\ fetch[f].stage = "reading" /\ Len(got) < Len(s)
    BY <1>1, <1>6 DEF ExportWrites, Source, HistoryTypeOK
  <2>2. s \in Seq(Record) /\ got \in Seq(Record) /\ Begins(got, s)
    BY <1>1, <1>2, FetchFields
  <2>3. e \in Record
    BY <2>1, <2>2
  <2>4. /\ fetch'[f].stage = "reading" /\ fetch'[f].snapshot = s /\ fetch'[f].got = Append(got, e)
        /\ \A g \in Fetches : g # f => fetch'[g] = fetch[g]
    BY <1>1, <2>1 DEF HistoryTypeOK
  <2>5. Begins(Append(got, e), s)
    <3>1. /\ Len(Append(got, e)) = Len(got) + 1 /\ Append(got, e)[Len(got) + 1] = e
          /\ \A i \in 1..Len(got) : Append(got, e)[i] = got[i]
      BY <2>2, <2>3, AppendedRecord
    <3>2. Len(got) \in Nat /\ Len(s) \in Nat
      BY <2>2
    <3> HIDE DEF s, got
    <3>3. QED
      BY <2>1, <2>2, <3>1, <3>2 DEF Begins
  <2>6. QED
    BY <1>2, <2>1, <2>4, <2>5 DEF ExportsAreCopies
<1>7. ASSUME NEW f \in Fetches, ExportLands(f) \/ ExportFails(f)
      PROVE  ExportsAreCopies'
  <2>1. fetch' = [fetch EXCEPT ![f] = NoFetch] /\ sealed' = [sealed EXCEPT ![f] = <<>>]
    BY <1>7 DEF ExportLands, ExportFails
  <2>2. /\ fetch'[f].stage = "idle" /\ fetch'[f].snapshot = <<>> /\ fetch'[f].got = <<>>
        /\ sealed'[f] = <<>>
        /\ \A g \in Fetches : g # f => fetch'[g] = fetch[g] /\ sealed'[g] = sealed[g]
    BY <1>1, <2>1 DEF HistoryTypeOK, NoFetch
  <2>3. QED
    BY <1>2, <1>3, <2>2 DEF ExportsAreCopies
<1>8. CASE UNCHANGED <<fetch, sealed>>
  BY <1>2, <1>8 DEF ExportsAreCopies
<1>9. QED
  BY <1>4, <1>5, <1>6, <1>7, <1>8
     DEF HistoryNext, Tick, ClockSetBack, RefreshClicked, Receive, Answer, RunReturns, AfterRun,
         historyVars

\* Whose answer the page waits for.
LEMMA AwaitedMembers ==
  /\ \A r : r \in Awaited <=> /\ r \in Requests /\ request[r].stage \in {"running", "answered"}
                              /\ origin[r] = "here"
  /\ \A r : r \in Awaited' <=> /\ r \in Requests /\ request'[r].stage \in {"running", "answered"}
                               /\ origin'[r] = "here"
  BY DEF Awaited, Underway

\* What becomes of a request.
LEMMA RequestStep ==
  ASSUME HistoryInv, [HistoryNext]_historyVars
  PROVE  /\ origin' = origin /\ waits' = waits
         /\ \A q \in Requests :
              \/ request'[q] = request[q]
              \/ Receive(q) /\ request[q].stage = "none" /\ request'[q].stage = "running"
              \/ Answer(q) /\ q \in InHand /\ request'[q].stage \in {"answered", "lost"}
                           /\ (request[q].stage = "lost" => request'[q].stage = "lost")
              \/ RunReturns(q) /\ request[q].stage \in {"running", "answered"}
                               /\ request'[q].stage \in {"heard", "lost"}
<1>1. HistoryTypeOK
  BY DEF HistoryInv
<1>2. origin' = origin /\ waits' = waits
  BY DEF HistoryNext, Tick, ClockSetBack, RefreshClicked, Receive, Answer, RunReturns,
         ExportStarts, ExportWrites, ExportLands, ExportFails, historyVars
<1>3. SUFFICES ASSUME NEW q \in Requests, request'[q] # request[q]
               PROVE  \/ Receive(q) /\ request[q].stage = "none" /\ request'[q].stage = "running"
                      \/ Answer(q) /\ q \in InHand /\ request'[q].stage \in {"answered", "lost"}
                                   /\ (request[q].stage = "lost" => request'[q].stage = "lost")
                      \/ RunReturns(q) /\ request[q].stage \in {"running", "answered"}
                                       /\ request'[q].stage \in {"heard", "lost"}
  BY <1>2
<1>4. ASSUME NEW r \in Requests, Receive(r)
      PROVE  r = q /\ request[q].stage = "none" /\ request'[q].stage = "running"
  BY <1>1, <1>3, <1>4 DEF Receive, HistoryTypeOK
<1>5. ASSUME NEW r \in Requests, Answer(r)
      PROVE  /\ r = q /\ q \in InHand /\ request'[q].stage \in {"answered", "lost"}
             /\ (request[q].stage = "lost" => request'[q].stage = "lost")
  <2>1. PICK status \in {"ok", "error"} :
          /\ r \in InHand
          /\ request' = [request EXCEPT ![r] =
                           [stage |-> IF request[r].stage = "running" THEN "answered" ELSE "lost",
                            start |-> 0, status |-> status]]
    BY <1>5, AnswerEffect
  <2>2. r = q
    BY <1>1, <1>3, <2>1 DEF HistoryTypeOK
  <2>3. request'[q] = [stage |-> IF request[q].stage = "running" THEN "answered" ELSE "lost",
                       start |-> 0, status |-> status]
    BY <1>1, <2>1, <2>2 DEF HistoryTypeOK
  <2>4. QED
    BY <2>1, <2>2, <2>3
<1>6. ASSUME NEW r \in Requests, RunReturns(r)
      PROVE  /\ r = q /\ request[q].stage \in {"running", "answered"}
             /\ request'[q].stage \in {"heard", "lost"}
  <2>1. PICK stage \in {"heard", "lost"} : request' = [request EXCEPT ![r].stage = stage]
    BY <1>6 DEF RunReturns
  <2>2. request[r].stage \in {"running", "answered"}
    BY <1>6 DEF RunReturns
  <2>3. QED
    BY <1>1, <1>3, <2>1, <2>2 DEF HistoryTypeOK
<1>7. request' # request
  BY <1>3
<1>8. QED
  BY <1>4, <1>5, <1>6, <1>7
     DEF HistoryNext, Tick, ClockSetBack, RefreshClicked, ExportStarts, ExportWrites,
         ExportLands, ExportFails, historyVars

\* A user who waits runs one query at a time.
LEMMA OneRunStep ==
  ASSUME HistoryInv, waits, [HistoryNext]_historyVars
  PROVE  OneRunAtATime'
<1>1. OneRunAtATime
  BY DEF HistoryInv
<1>2. ASSUME NEW r \in Requests, Receive(r), origin[r] = "here"
      PROVE  Awaited' \subseteq {r}
  <2>1. \A q \in Requests : origin[q] = "here" => request[q].stage \in {"none", "heard", "lost"}
    BY <1>2 DEF Receive, MayRun
  <2>2. \A q \in Requests : q # r => request'[q] = request[q]
    BY <1>2 DEF Receive, HistoryInv, HistoryTypeOK
  <2>3. QED
    BY <2>1, <2>2, AwaitedMembers, RequestStep
<1>3. CASE \A r \in Requests : ~(Receive(r) /\ origin[r] = "here")
  <2>1. Awaited' \subseteq Awaited
    <3>1. SUFFICES ASSUME NEW q \in Requests, q \in Awaited', q \notin Awaited PROVE FALSE
      BY AwaitedMembers
    <3>2. request'[q].stage \in {"running", "answered"} /\ origin[q] = "here"
      BY <3>1, AwaitedMembers, RequestStep
    <3>3. request[q].stage \notin {"running", "answered"}
      BY <3>1, <3>2, AwaitedMembers
    <3>4. Answer(q) /\ q \in InHand /\ request[q].stage # "lost"
      BY <1>3, <3>2, <3>3, RequestStep
    <3>5. QED
      BY <3>3, <3>4, InHandMembers
  <2>2. QED
    BY <1>1, <2>1 DEF OneRunAtATime
<1>4. QED
  BY <1>2, <1>3 DEF OneRunAtATime

\* What a listing shows of the runs that were heard it goes on showing, as long
\* as no other is.
LEMMA ShowsStays ==
  ASSUME HistoryInv, [HistoryNext]_historyVars, NEW records, Shows(records),
         \A r \in Requests : RunReturns(r) => origin[r] # "here"
  PROVE  Shows(records)'
<1>1. SUFFICES ASSUME NEW r \in Requests, request'[r].stage = "heard", origin[r] = "here"
               PROVE  RecordsOf(r, records) = RecordsOf(r, log')
  BY RequestStep DEF Shows, Underway, RecordsOf
<1>2. request[r].stage = "heard"
  BY <1>1, RequestStep
<1>3. RecordsOf(r, records) = RecordsOf(r, log)
  BY <1>1, <1>2 DEF Shows, Underway
<1>4. ASSUME NEW q \in Requests, Answer(q)
      PROVE  RecordsOf(r, log') = RecordsOf(r, log)
  <2>1. PICK status \in {"ok", "error"} :
          /\ q \in InHand
          /\ log' = Append(log, [of |-> q, status |-> status]) \/ log' = log
    BY <1>4, AnswerEffect
  <2>2. q # r
    BY <1>2, <2>1, InHandMembers
  <2> DEFINE e == [of |-> q, status |-> status]
  <2>3. e \in Record /\ log \in Seq(Record) /\ r # e.of
    BY <2>2 DEF Record, HistoryInv, HistoryTypeOK
  <2>4. log' = Append(log, e) \/ log' = log
    BY <2>1
  <2> HIDE DEF e
  <2>5. RecordsOf(r, Append(log, e)) = RecordsOf(r, log)
    BY <2>3, AppendedRecord
  <2>6. QED
    BY <2>4, <2>5
<1>5. log' # log => \E q \in Requests : Answer(q)
  BY DEF HistoryNext, Tick, ClockSetBack, RefreshClicked, Receive, RunReturns, ExportStarts,
         ExportWrites, ExportLands, ExportFails, historyVars
<1>6. QED
  BY <1>3, <1>4, <1>5

\* A refresh that begins when no other is out, and no run of the page's.
LEMMA RefreshInTurn ==
  ASSUME HistoryInv, RefreshStarts, Idle = Fetches, Awaited' = {}
  PROVE  WaitsItsTurn'
<1>1. PICK f \in Idle :
        /\ fetch' = [fetch EXCEPT ![f] = [stage |-> "asked", snapshot |-> <<>>, got |-> <<>>]]
        /\ sidebar' = [sidebar EXCEPT !.state = "loading"]
  BY RefreshEffect DEF HistoryInv
<1>2. \A g \in Fetches : fetch'[g].stage = IF g = f THEN "asked" ELSE "idle"
  BY <1>1 DEF HistoryInv, HistoryTypeOK, Idle
<1>3. Fetches \ Idle' = {f} /\ Idle' # Fetches
  BY <1>1, <1>2 DEF Idle
<1>4. sidebar'.state = "loading"
  BY <1>1 DEF HistoryInv, HistoryTypeOK
<1>5. \A g \in Fetches : fetch'[g].stage # "reading"
  BY <1>2
<1>6. QED
  BY <1>3, <1>4, <1>5 DEF WaitsItsTurn

\* With a user who waits, the sidebar at rest shows what the page has heard.
LEMMA TurnStep ==
  ASSUME HistoryInv, [HistoryNext]_historyVars, waits
  PROVE  WaitsItsTurn'
<1>1. HistoryTypeOK /\ WaitsItsTurn /\ OneRunAtATime /\ ExportsAreCopies
  BY DEF HistoryInv
<1>2. CASE RefreshClicked
  <2>1. Idle = Fetches
    BY <1>1, <1>2 DEF RefreshClicked, WaitsItsTurn
  <2>2. Awaited' = {}
    BY <1>2, AwaitedMembers DEF RefreshClicked, Underway
  <2>3. QED
    BY <1>2, <2>1, <2>2, RefreshInTurn DEF RefreshClicked
<1>3. ASSUME NEW r \in Requests, RunReturns(r), origin[r] = "here"
      PROVE  WaitsItsTurn'
  <2>1. RefreshStarts /\ UNCHANGED origin
    BY <1>3 DEF RunReturns, AfterRun
  <2>2. r \in Awaited
    BY <1>3, AwaitedMembers DEF RunReturns
  <2>3. Awaited = {r} /\ Idle = Fetches
    BY <1>1, <2>2 DEF OneRunAtATime, WaitsItsTurn
  <2>4. /\ request'[r].stage \in {"heard", "lost"}
        /\ \A q \in Requests : q # r => request'[q] = request[q]
    <3>1. PICK stage \in {"heard", "lost"} : request' = [request EXCEPT ![r].stage = stage]
      BY <1>3 DEF RunReturns
    <3>2. QED
      BY <1>1, <3>1 DEF HistoryTypeOK
  <2>5. Awaited' = {}
    BY <2>1, <2>3, <2>4, AwaitedMembers
  <2>6. QED
    BY <2>1, <2>3, <2>5, RefreshInTurn
<1>4. CASE \A r \in Requests : RunReturns(r) => origin[r] # "here"
  <2>1. \A records : Shows(records) => Shows(records)'
    BY <1>4, ShowsStays
  <2>2. Idle # Fetches => Awaited' = {}
    <3>1. SUFFICES ASSUME Idle # Fetches, NEW q \in Requests, q \in Awaited' PROVE FALSE
      BY AwaitedMembers
    <3>2. Awaited = {} /\ origin[q] = "here" /\ request'[q].stage \in {"running", "answered"}
      BY <1>1, <3>1, AwaitedMembers, RequestStep DEF WaitsItsTurn
    <3>3. request[q].stage \notin {"running", "answered"}
      BY <3>2, AwaitedMembers
    <3>4. ~Receive(q)
      BY <3>1, <3>2 DEF Receive, MayRun
    <3>5. QED
      BY <3>2, <3>3, <3>4, RequestStep, InHandMembers
  <2>3. CASE UNCHANGED <<fetch, sidebar>>
    <3>1. Idle' = Idle
      BY <2>3 DEF Idle
    <3>2. QED
      BY <1>1, <2>1, <2>2, <2>3, <3>1 DEF WaitsItsTurn
  <2>4. ASSUME NEW f \in Fetches, ExportStarts(f)
        PROVE  WaitsItsTurn'
    <3>1. /\ fetch'[f].stage = "reading" /\ fetch'[f].snapshot = log' /\ fetch[f].stage = "asked"
          /\ \A g \in Fetches : g # f => fetch'[g] = fetch[g]
      BY <1>1, <2>4 DEF ExportStarts, HistoryTypeOK
    <3>2. Idle' = Idle /\ sidebar' = sidebar
      BY <2>4, <3>1 DEF Idle, ExportStarts
    <3>3. Shows(log)'
      BY DEF Shows
    <3>4. QED
      BY <1>1, <2>1, <2>2, <3>1, <3>2, <3>3 DEF WaitsItsTurn, Shows
  <2>5. ASSUME NEW f \in Fetches, ExportWrites(f)
        PROVE  WaitsItsTurn'
    <3>1. \A g \in Fetches : /\ fetch'[g].stage = fetch[g].stage
                             /\ fetch'[g].snapshot = fetch[g].snapshot
      BY <1>1, <2>5 DEF ExportWrites, HistoryTypeOK
    <3>2. Idle' = Idle /\ sidebar' = sidebar
      BY <2>5, <3>1 DEF Idle, ExportWrites
    <3>3. QED
      BY <1>1, <2>1, <2>2, <3>1, <3>2 DEF WaitsItsTurn
  <2>6. ASSUME NEW f \in Fetches, ExportLands(f) \/ ExportFails(f)
        PROVE  \A g \in Fetches : fetch'[g].stage = "idle"
    <3>1. f \in Fetches \ Idle
      BY <2>6 DEF ExportLands, ExportFails, Idle
    <3>2. \A g \in Fetches : g # f => fetch[g].stage = "idle"
      BY <1>1, <3>1 DEF WaitsItsTurn, Idle
    <3>3. QED
      <4>1. fetch' = [fetch EXCEPT ![f] = NoFetch] /\ NoFetch.stage = "idle"
        BY <2>6 DEF ExportLands, ExportFails, NoFetch
      <4>2. QED
        BY <1>1, <3>2, <4>1 DEF HistoryTypeOK
  <2>7. ASSUME NEW f \in Fetches, ExportLands(f)
        PROVE  WaitsItsTurn'
    <3>1. \A g \in Fetches : fetch'[g].stage = "idle"
      BY <2>6, <2>7
    <3>2. Idle' = Fetches
      BY <3>1 DEF Idle
    <3>3. fetch[f].got = fetch[f].snapshot
      <4>1. fetch[f].got \in Seq(Record) /\ fetch[f].snapshot \in Seq(Record)
        BY <1>1, FetchFields
      <4>2. Begins(fetch[f].got, fetch[f].snapshot)
        BY <1>1 DEF ExportsAreCopies
      <4>3. Len(fetch[f].got) = Len(fetch[f].snapshot)
        BY <2>7 DEF ExportLands, Source
      <4>4. QED
        BY <4>1, <4>2, <4>3, BeginsWhole
    <3>4. Shows(fetch[f].snapshot)
      BY <1>1, <2>7 DEF ExportLands, WaitsItsTurn
    <3>5. Shows(Mine(fetch[f].got))
      BY <3>3, <3>4, MineKeepsOwn DEF Shows
    <3>6. sidebar'.shown = Mine(fetch[f].got) /\ UNCHANGED <<request, origin, log>>
      BY <2>7 DEF ExportLands
    <3>7. Shows(sidebar.shown)'
      BY <3>5, <3>6 DEF Shows, Underway
    <3>8. QED
      BY <3>1, <3>2, <3>7 DEF WaitsItsTurn
  <2>8. ASSUME NEW f \in Fetches, ExportFails(f)
        PROVE  WaitsItsTurn'
    <3>1. \A g \in Fetches : fetch'[g].stage = "idle"
      BY <2>6, <2>8
    <3>2. Idle' = Fetches
      BY <3>1 DEF Idle
    <3>3. sidebar'.state = "error"
      BY <1>1, <2>8 DEF ExportFails, HistoryTypeOK
    <3>4. QED
      BY <3>1, <3>2, <3>3 DEF WaitsItsTurn
  <2>9. QED
    BY <1>2, <1>4, <2>3, <2>4, <2>5, <2>7, <2>8
       DEF HistoryNext, Tick, ClockSetBack, Receive, Answer, RunReturns, AfterRun, historyVars
<1>5. QED
  BY <1>3, <1>4

LEMMA HistoryStep ==
  ASSUME HistoryInv, [HistoryNext]_historyVars
  PROVE  HistoryInv'
<1>1. waits' = waits
  BY RequestStep
<1>2. QED
  BY <1>1, HistoryTypeStep, LogStep, CopiesStep, OneRunStep, TurnStep DEF HistoryInv

\* What the invariant says of the history.
LEMMA HistoryTells == HistoryInv => HistoryIsTold
<1> SUFFICES ASSUME HistoryInv PROVE HistoryIsTold
  OBVIOUS
<1>1. HistoryTypeOK /\ LogIsKept /\ ExportsAreCopies
  BY DEF HistoryInv
<1>2. AnsweredIsRecorded
  <2> SUFFICES ASSUME NEW r \in Requests
               PROVE  LET records == RecordsOf(r, log)
                      IN  /\ \A i, j \in DOMAIN records : i = j
                          /\ \A i \in DOMAIN records : records[i].status = request[r].status
                          /\ request[r].status # "none" /\ r \notin stepped => DOMAIN records # {}
    BY DEF AnsweredIsRecorded
  <2> DEFINE records == RecordsOf(r, log)
  <2>1. /\ DOMAIN records = {i \in DOMAIN log : log[i].of = r}
        /\ \A i \in DOMAIN records : records[i] = log[i]
    BY DEF RecordsOf, Restrict
  <2> HIDE DEF records
  <2>2. /\ \A i, j \in DOMAIN records : i = j
        /\ \A i \in DOMAIN records : records[i].status = request[r].status
        /\ request[r].status # "none" /\ r \notin stepped => DOMAIN records # {}
    BY <1>1, <2>1 DEF LogIsKept
  <2>3. QED
    BY <2>2 DEF records
<1>3. ExportIsSealed
  <2> SUFFICES ASSUME NEW f \in Fetches PROVE IsPrefix(fetch[f].got, sealed[f])
    BY DEF ExportIsSealed
  <2> DEFINE s == fetch[f].got
             t == sealed[f]
  <2>1. s \in Seq(Record) /\ t \in Seq(Record) /\ Begins(s, t)
    BY <1>1, FetchFields DEF ExportsAreCopies
  <2> HIDE DEF s, t
  <2>2. /\ Len(s) \in Nat /\ Len(t) \in Nat /\ Len(s) <= Len(t)
        /\ \A i \in 1..Len(s) : s[i] = t[i]
    BY <2>1 DEF Begins
  <2>3. SubSeq(s, 1, Len(s)) = SubSeq(t, 1, Len(s))
    BY <2>1, <2>2
  <2>4. IsPrefix(s, t)
    BY <2>2, <2>3 DEF IsPrefix
  <2>5. QED
    BY <2>4 DEF s, t
<1>4. RunIsShown
  BY DEF HistoryInv, WaitsItsTurn, Shows, RunIsShown
<1>5. QED
  BY <1>2, <1>3, <1>4 DEF HistoryIsTold

\* HistoryInv is an invariant of the history, for any requests, any number of
\* exports and any clock.
THEOREM HistoryInvariant == HistorySpec => []HistoryInv
<1>1. HistoryInit => HistoryInv
  BY InitHistory
<1>2. HistoryInv /\ [HistoryNext]_historyVars => HistoryInv'
  BY HistoryStep
<1>3. QED
  BY <1>1, <1>2, PTL DEF HistorySpec

\* What was answered is recorded once and truthfully, an export tells the log as
\* it was when it began, and to a user who waits the sidebar at rest shows each
\* run that was heard (record-history.use-case.ts:75-106,
\* in-memory-history-store.ts:14-20, sql.vue:100-108).
THEOREM HistoryTheorem == HistorySpec => []HistoryIsTold
<1>1. HistoryInv => HistoryIsTold
  BY HistoryTells
<1>2. QED
  BY <1>1, HistoryInvariant, PTL
=============================================================================
