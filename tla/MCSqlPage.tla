----------------------------- MODULE MCSqlPage -----------------------------
(***************************************************************************)
(* What the SQL page is made of, for TLC: QueryPage, GridSort,             *)
(* SchemaSidebar (its columns and its fan-out apart, which share only the  *)
(* listing), and History.  QueryPage names a row by what it is, whatever   *)
(* the order on screen; GridSort says why it may.  They share no state, so *)
(* a behaviour is judged by one of them at a time: the one in focus moves, *)
(* the others rest.                                                        *)
(***************************************************************************)
EXTENDS MCQueryPage, SchemaSidebar, History

CONSTANTS GridColumns, MaxKeys, MaxEdits

VARIABLES focus,
          rows, keys, opened, edits, meant

(* Two results: one with duplicates, numbers among texts, NULLs and a      *)
(* short row, and one that names the same keys in another order.           *)
Number(n) == <<1, n>>
Word(n)   == <<2, n>>
Results ==
  {<<<<Number(3), Number(1), Word(1)>>, <<Number(1), Word(2), <<0, 0>>>>,
     <<Number(2), Number(1), <<4, 1>>>>>>,
   <<<<Number(2), <<0, 0>>>>, <<Number(1)>>, <<Number(3), <<3, 1>>>>>>}

Grid == INSTANCE GridSort WITH Columns <- GridColumns, editing <- opened,
                              staged <- edits

gridVars == <<rows, keys, opened, edits, meant>>
mcVars   == <<focus, vars, sidebarVars, historyVars, gridVars>>

(* Whoever is not in focus begins in one state. *)
MCInit ==
  /\ focus \in {"query", "columns", "fan", "history", "grid"}
  /\ Init /\ (focus # "query" => patient)
  /\ SidebarInit
  /\ focus \notin {"columns", "fan"} =>
        there = {} /\ engine = [driver |-> "mysql", describes |-> FALSE]
  /\ HistoryInit
  /\ focus # "history" => waits /\ origin = [r \in Requests |-> "here"]
  /\ Grid!GridInit
  /\ focus # "grid" => rows = CHOOSE r \in Results : TRUE

MCNext ==
  \/ /\ focus = "query" /\ Next
     /\ UNCHANGED <<focus, sidebarVars, historyVars, gridVars>>
  \/ /\ focus = "columns" /\ (Listing \/ Columns)
     /\ UNCHANGED <<focus, vars, historyVars, gridVars>>
  \/ /\ focus = "fan" /\ (Listing \/ Describing)
     /\ UNCHANGED <<focus, vars, historyVars, gridVars>>
  \/ /\ focus = "history" /\ HistoryNext
     /\ UNCHANGED <<focus, vars, sidebarVars, gridVars>>
  \/ /\ focus = "grid" /\ Grid!GridNext
     /\ UNCHANGED <<focus, vars, sidebarVars, historyVars>>

MCSpec == MCInit /\ [][MCNext]_mcVars /\ FanFairness

PageTypeOK ==
  TypeOK /\ SidebarTypeOK /\ HistoryTypeOK /\ Grid!GridTypeOK

(* However the grid is sorted, an edit is of the row the user saw          *)
(* (utils/sort.ts:125-186, grid-edit.ts:76-129).                           *)
SortMovesNoEdit == Grid!SortMovesNoEdit
=============================================================================
