------------------------------ MODULE GridSort ------------------------------
(***************************************************************************)
(* The grid's display order over a result (utils/sort.ts, useResultSort),  *)
(* and the edits staged through it (ResultGrid.vue, utils/grid-edit.ts):   *)
(* a slot of the display stands for the row the order puts there.          *)
(*                                                                         *)
(* A cell is the rank of its type and its place in the order of that type, *)
(* total also for doubles (totalOrderBits).  A row may be short.  Its      *)
(* first cell is its key, which is fixed; so are blobs and documents.      *)
(***************************************************************************)
EXTENDS Integers, FiniteSets, SequencesExt

CONSTANTS
  Results,   \* what runs return: sequences of rows, each with a key of its own
  Columns,
  MaxKeys,   \* MAX_SORT_KEYS
  MaxEdits   \* bound on the edits staged at a time

NULL == <<0, 0>>
Tagged == {3, 4}            \* the ranks of blobs and documents
Texts == {NULL, <<2, 1>>}   \* what is staged: NULL, or a text

VARIABLES
  rows,      \* of the result on screen
  keys,      \* useResultSort's keys
  editing,   \* row and column an editor is open on, or none
  staged,    \* the edits, by row index
  meant      \* by the key of the row the user opened them on (observation)

gridVars == <<rows, keys, editing, staged, meant>>

NotEditing == [row |-> 0, col |-> 0, key |-> NULL]

GridTypeOK ==
  /\ rows \in Results
  /\ keys \in Seq([column : Columns, ascending : BOOLEAN])
  /\ editing = NotEditing \/ (editing.row \in DOMAIN rows /\ editing.col \in Columns)
  /\ \A e \in staged : e.row \in DOMAIN rows /\ e.col \in Columns /\ e.value \in Texts
  /\ \A e \in meant : e.col \in Columns /\ e.value \in Texts

GridInit ==
  /\ rows \in Results
  /\ keys = <<>>
  /\ editing = NotEditing /\ staged = {} /\ meant = {}

-----------------------------------------------------------------------------
(***************************************************************************)
(* utils/sort.ts.                                                          *)
(***************************************************************************)
\* compareValues(): by type first.
CompareValues(a, b) ==
  CASE a[1] # b[1] -> (IF a[1] < b[1] THEN -1 ELSE 1)
    [] a[1] = b[1] /\ a[2] # b[2] -> (IF a[2] < b[2] THEN -1 ELSE 1)
    [] OTHER       -> 0

\* compareCells(): a missing cell comes first.
CompareCells(left, right, column) ==
  LET has(row) == column <= Len(row)
  IN  CASE has(left) /\ has(right) -> CompareValues(left[column], right[column])
        [] has(left)  /\ ~has(right) -> 1
        [] ~has(left) /\ has(right)  -> -1
        [] OTHER                     -> 0

\* The comparator of sortedRowOrder(): the first key that tells them apart.
CompareRows(left, right) ==
  FoldLeft(LAMBDA ordering, key :
             IF ordering # 0 THEN ordering
             ELSE LET o == CompareCells(left, right, key.column)
                  IN  IF key.ascending THEN o ELSE -o,
           0, keys)

\* Array.prototype.sort is stable: rows that compare equal keep their order.
Order == SetToSortSeq(DOMAIN rows, LAMBDA i, j :
           LET o == CompareRows(rows[i], rows[j]) IN o < 0 \/ (o = 0 /\ i < j))

MutRowIndexFor(slot) == slot

RowIndexFor(slot) == Order[slot]

Without(s, i) == SubSeq(s, 1, i - 1) \o SubSeq(s, i + 1, Len(s))

NextSortKeys(column, additive) ==
  LET on == {i \in DOMAIN keys : keys[i].column = column}
      up == [column |-> column, ascending |-> TRUE]
  IN  CASE additive /\ on = {} ->
             (IF Len(keys) >= MaxKeys THEN keys ELSE Append(keys, up))
        [] additive /\ on # {} ->
             LET i == CHOOSE k \in on : TRUE
             IN  IF keys[i].ascending THEN [keys EXCEPT ![i].ascending = FALSE]
                 ELSE Without(keys, i)
        [] ~additive /\ on # {} /\ Len(keys) = 1 ->
             (IF keys[1].ascending THEN <<[up EXCEPT !.ascending = FALSE]>> ELSE <<>>)
        [] OTHER -> <<up>>

Toggle ==
  /\ \E column \in Columns, additive \in BOOLEAN : keys' = NextSortKeys(column, additive)
  /\ UNCHANGED <<rows, editing, staged, meant>>

\* A fresh result drops the keys, and what was staged over the one before.
NewResult ==
  /\ rows' \in Results
  /\ keys' = <<>>
  /\ editing' = NotEditing /\ staged' = {} /\ meant' = {}

-----------------------------------------------------------------------------
(***************************************************************************)
(* ResultGrid.                                                             *)
(***************************************************************************)
Cell(row, col) == IF col <= Len(rows[row]) THEN rows[row][col] ELSE NULL

CellEditable(row, col) == col # 1 /\ Cell(row, col)[1] \notin Tagged

\* A double click on a cell, which is where the user sees it.
OnCellDblClick ==
  \E slot \in DOMAIN Order, col \in Columns :
    LET row == RowIndexFor(slot) IN
    /\ CellEditable(row, col)
    /\ editing' = [row |-> row, col |-> col, key |-> rows[Order[slot]][1]]
    /\ UNCHANGED <<rows, keys, staged, meant>>

\* What there is for the cell being edited.
StagedHere == {e \in staged : e.row = editing.row /\ e.col = editing.col}
MeantHere  == {e \in meant : e.key = editing.key /\ e.col = editing.col}

\* An edit of the same cell takes the place of the one before.
Replace(edits, sameCell, edit) == (edits \ sameCell) \cup {edit}

\* commitEditor(), nullEditor() and the dialog's: setStaged().
Commit ==
  /\ editing # NotEditing /\ Cardinality(staged) < MaxEdits
  /\ \E v \in Texts :
       /\ staged' = Replace(staged, StagedHere,
                            [row |-> editing.row, col |-> editing.col, value |-> v])
       /\ meant' = Replace(meant, MeantHere,
                           [key |-> editing.key, col |-> editing.col, value |-> v])
  /\ editing' = NotEditing
  /\ UNCHANGED <<rows, keys>>

\* revertEditor(), and Escape, which stages nothing.
Leave ==
  /\ editing # NotEditing
  /\ \/ staged' = staged \ StagedHere /\ meant' = meant \ MeantHere
     \/ UNCHANGED <<staged, meant>>
  /\ editing' = NotEditing
  /\ UNCHANGED <<rows, keys>>

Discard ==
  /\ editing' = NotEditing /\ staged' = {} /\ meant' = {}
  /\ UNCHANGED <<rows, keys>>

\* buildRowUpdates(): an update per touched row, by the key it came with.
RowUpdates ==
  LET touched == {e.row : e \in staged}
  IN  {[key |-> rows[r][1],
        edits |-> {[col |-> e.col, value |-> e.value] : e \in {f \in staged : f.row = r}}] :
         r \in touched}

GridNext == Toggle \/ NewResult \/ OnCellDblClick \/ Commit \/ Leave \/ Discard

GridSpec == GridInit /\ [][GridNext]_gridVars

-----------------------------------------------------------------------------
\* Every row is shown once, and where two rows are told apart by some key, the
\* first such key decides.
RowsAreInOrder ==
  /\ Len(Order) = Len(rows) /\ Range(Order) = DOMAIN rows
  /\ \A a, b \in DOMAIN Order : a < b =>
       LET apart == {k \in DOMAIN keys :
                       CompareCells(rows[Order[a]], rows[Order[b]], keys[k].column) # 0}
           first == CHOOSE k \in apart : \A l \in apart : k <= l
       IN  IF apart = {} THEN Order[a] < Order[b]
           ELSE (CompareCells(rows[Order[a]], rows[Order[b]], keys[first].column) < 0)
                  <=> keys[first].ascending

\* However the grid was sorted when an editor was opened, and whenever it is
\* sorted again, what a save would write goes to the rows the user saw.
SavedAsSeen ==
  {[key |-> u.key, col |-> e.col, value |-> e.value] :
     <<u, e>> \in {<<u, e>> \in RowUpdates \X UNION {v.edits : v \in RowUpdates} : e \in u.edits}}
  = meant

\* Sorting is of the display (utils/sort.ts:125-186, grid-edit.ts:8-12).
SortMovesNoEdit == RowsAreInOrder /\ SavedAsSeen
=============================================================================
