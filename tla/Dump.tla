-------------------------------- MODULE Dump --------------------------------
(***************************************************************************)
(* One GET /connections/:id/dump: DumpDatabase's preflight and its         *)
(* generator, pulled by the controller that writes each chunk to a client  *)
(* which may leave, while others write to the tables being read.           *)
(*                                                                         *)
(* A row is its key.  The file is what each table's INSERTs hold, and the  *)
(* tables some comment names.                                              *)
(***************************************************************************)
EXTENDS Naturals, Sequences, FiniteSets, SequencesExt

CONSTANTS
  Tables,
  Keyed,       \* those with a primary key
  Keys,        \* a set of numbers: the rows a table may hold
  Threshold,   \* DEFAULT_BACKUP_WARN_ROWS
  PageRows,    \* READ_PAGE_ROWS
  BatchRows,   \* INSERT_BATCH_ROWS
  MaxWrites,   \* bound on what others insert and delete meanwhile
  None         \* null

VARIABLES
  rows,      \* what the tables hold
  confirm,   \* the request carries confirm=true
  stayed,    \* rows present since the request came (observation only)
  writes,    \* changes by others so far
  stage,     \* where prepare() and run() have got to
  todo,      \* tables still to visit; the head is being visited
  total,     \* rows counted
  miscounted,\* some count failed (observation only)
  cursor,    \* the last key of the page before; 0: none
  page,      \* rows read and not yet put in a chunk, and whether the page was full
  chunk,     \* what the generator has yielded and the controller not yet written
  receiver,  \* there or gone
  draining,  \* the controller waits for drain or close
  file,      \* rows written for each table, in order
  noted      \* tables a comment in the file names

db    == <<rows, stayed, writes>>
gen   == <<stage, todo, total, miscounted, cursor, page, chunk>>
out   == <<file, noted>>
peer  == <<receiver, draining>>
dumpVars  == <<confirm, db, gen, peer, out>>

Chunk == [kind: {"text"}] \cup [kind: {"note"}, table: Tables]
         \cup [kind: {"insert"}, table: Tables, rows: Seq(Keys)]

DumpTypeOK ==
  /\ confirm \in BOOLEAN
  /\ rows \in [Tables -> SUBSET Keys] /\ stayed \in [Tables -> SUBSET Keys]
  /\ writes \in 0..MaxWrites
  /\ stage \in {"listing", "counting", "begin", "ddl", "describe", "read", "page",
                "ended", "refused", "failed", "aborting", "torn"}
  /\ todo \in Seq(Tables) /\ total \in Nat /\ cursor \in Keys \cup {0}
  /\ page \in [rest: Seq(Keys), full: BOOLEAN] \cup {None}
  /\ chunk \in Chunk \cup {None}
  /\ receiver \in {"there", "gone"} /\ draining \in BOOLEAN /\ miscounted \in BOOLEAN
  /\ file \in [Tables -> Seq(Keys)] /\ noted \in SUBSET Tables

ASSUME DumpAssumption ==
  /\ IsFiniteSet(Tables) /\ IsFiniteSet(Keys) /\ Keys \subseteq Nat \ {0}
  /\ Threshold \in Nat /\ MaxWrites \in Nat
  /\ PageRows \in Nat \ {0} /\ BatchRows \in Nat \ {0}
  /\ None \notin [rest: Seq(Keys), full: BOOLEAN] \cup Chunk

Ascending(set) == CHOOSE s \in [1..Cardinality(set) -> set] :
                    /\ ToSet(s) = set
                    /\ \A i, j \in 1..Cardinality(set) : i < j => s[i] < s[j]
AllTables      == SetToSeq(Tables)

DumpInit ==
  /\ confirm \in BOOLEAN
  /\ rows \in [Tables -> SUBSET Keys]
  /\ stayed = rows
  /\ writes = 0
  /\ stage = "listing" /\ todo = <<>> /\ total = 0
  /\ cursor = 0 /\ page = None /\ chunk = None
  /\ receiver = "there" /\ draining = FALSE /\ miscounted = FALSE
  /\ file = [t \in Tables |-> <<>>] /\ noted = {}

-----------------------------------------------------------------------------
(* Others at work on the tables. *)

Insert(t, k) ==
  /\ writes < MaxWrites /\ k \notin rows[t]
  /\ rows' = [rows EXCEPT ![t] = @ \cup {k}]
  /\ writes' = writes + 1
  /\ UNCHANGED <<confirm, stayed, gen, peer, out>>

Delete(t, k) ==
  /\ writes < MaxWrites /\ k \in rows[t]
  /\ rows' = [rows EXCEPT ![t] = @ \ {k}]
  /\ stayed' = [stayed EXCEPT ![t] = @ \ {k}]
  /\ writes' = writes + 1
  /\ UNCHANGED <<confirm, gen, peer, out>>

-----------------------------------------------------------------------------
(* prepare(). *)

ListTables ==
  /\ stage = "listing"
  /\ \/ stage' = "counting" /\ todo' = AllTables
     \/ stage' = "failed" /\ UNCHANGED todo
  /\ UNCHANGED <<confirm, db, total, miscounted, cursor, page, chunk, peer, out>>

\* countRows(): a count that cannot be read is planned at zero.
CountTable ==
  /\ stage = "counting" /\ todo # <<>>
  /\ \E fails \in BOOLEAN :
       /\ total' = total + (IF fails THEN 0 ELSE Cardinality(rows[Head(todo)]))
       /\ miscounted' = (miscounted \/ fails)
  /\ todo' = Tail(todo)
  /\ UNCHANGED <<confirm, db, stage, cursor, page, chunk, peer, out>>

\* exceedsThreshold(): exactly at it is not over it.
PassesTheGate == total <= Threshold \/ confirm

Prepared ==
  /\ stage = "counting" /\ todo = <<>>
  /\ IF PassesTheGate
     THEN stage' = "begin" /\ todo' = AllTables
     ELSE stage' = "refused" /\ UNCHANGED todo
  /\ UNCHANGED <<confirm, db, total, miscounted, cursor, page, chunk, peer, out>>

-----------------------------------------------------------------------------
(* run(): each yield hands a chunk over and waits for it to be written.    *)

Pulled(where) == stage = where /\ chunk = None /\ ~draining

NoteFor(t) == [kind |-> "note", table |-> t]

\* The table is done with; the cursor is a local of dumpRows().
Leave == todo' = Tail(todo) /\ cursor' = 0 /\ page' = None /\ stage' = "ddl"

Begin ==
  /\ Pulled("begin")
  /\ chunk' = [kind |-> "text"] /\ stage' = "ddl"
  /\ UNCHANGED <<confirm, db, todo, total, miscounted, cursor, page, peer, out>>

TableDdl ==
  /\ Pulled("ddl") /\ todo # <<>>
  /\ chunk' = [kind |-> "text"] /\ stage' = "describe"
  /\ UNCHANGED <<confirm, db, todo, total, miscounted, cursor, page, peer, out>>

Describe ==
  /\ Pulled("describe")
  /\ stage' = "read"
  /\ UNCHANGED <<confirm, db, todo, total, miscounted, cursor, page, chunk, peer, out>>

\* failureComment(): a table that fails costs the dump that table only.
TableFails ==
  /\ \E where \in {"ddl", "describe", "read"} : Pulled(where)
  /\ todo # <<>>
  /\ Leave
  /\ chunk' = NoteFor(Head(todo))
  /\ UNCHANGED <<confirm, db, total, miscounted, peer, out>>

MutPageHoldsTheCursor(t) ==
  IF t \in Keyed THEN Ascending({k \in rows[t] : k >= cursor}) ELSE Ascending(rows[t])

\* buildSelectPage(): a keyed page starts strictly after the cursor.
FromTheCursor(t) ==
  IF t \in Keyed THEN Ascending({k \in rows[t] : k > cursor}) ELSE Ascending(rows[t])

FirstOf(s, n) == SubSeq(s, 1, IF Len(s) < n THEN Len(s) ELSE n)

ReadPage ==
  /\ Pulled("read")
  /\ LET read == FirstOf(FromTheCursor(Head(todo)), PageRows) IN
       IF read = <<>>
       THEN Leave
       ELSE /\ page' = [rest |-> read, full |-> Len(read) = PageRows]
            /\ cursor' = Last(read)
            /\ stage' = "page"
            /\ UNCHANGED todo
  /\ UNCHANGED <<confirm, db, total, miscounted, chunk, peer, out>>

\* The loop over a page: one INSERT for each batch.
YieldBatch ==
  /\ Pulled("page") /\ page.rest # <<>>
  /\ chunk' = [kind |-> "insert", table |-> Head(todo), rows |-> FirstOf(page.rest, BatchRows)]
  /\ page' = [page EXCEPT !.rest = SubSeq(@, BatchRows + 1, Len(@))]
  /\ UNCHANGED <<confirm, db, stage, todo, total, miscounted, cursor, peer, out>>

\* Without a key there is nothing to page with, and a full page may not be all.
SaysTruncated == chunk' = IF page.full THEN NoteFor(Head(todo)) ELSE None

GoesOn == page.full

PageDone ==
  /\ Pulled("page") /\ page.rest = <<>>
  /\ \/ Head(todo) \notin Keyed /\ SaysTruncated /\ Leave
     \/ Head(todo) \in Keyed /\ ~GoesOn /\ Leave /\ UNCHANGED chunk
     \/ /\ Head(todo) \in Keyed /\ GoesOn
        /\ stage' = "read" /\ page' = None
        /\ UNCHANGED <<todo, cursor, chunk>>
  /\ UNCHANGED <<confirm, db, total, miscounted, peer, out>>

\* A value no literal can be made of: the generator itself throws.
RunDies ==
  /\ Pulled("page") /\ page.rest # <<>>
  /\ stage' = "aborting"
  /\ UNCHANGED <<confirm, db, todo, total, miscounted, cursor, page, chunk, peer, out>>

-----------------------------------------------------------------------------
(* download() and writeChunk(). *)

\* What a chunk, once written, adds to the file.
Written(c) ==
  /\ file' = IF c.kind = "insert" THEN [file EXCEPT ![c.table] = @ \o c.rows] ELSE file
  /\ noted' = IF c.kind = "note" THEN noted \cup {c.table} ELSE noted

\* res.write() says whether there is room for more; the pump waits for drain.
WriteChunk ==
  /\ chunk # None /\ receiver = "there"
  /\ Written(chunk)
  /\ chunk' = None
  /\ draining' \in BOOLEAN
  /\ UNCHANGED <<confirm, db, stage, todo, total, miscounted, cursor, page, receiver>>

Drained ==
  /\ draining /\ receiver = "there"
  /\ draining' = FALSE
  /\ UNCHANGED <<confirm, db, gen, receiver, out>>

DumpOver == stage \in {"ended", "refused", "failed", "torn"}

ClientLeaves ==
  /\ receiver = "there" /\ ~DumpOver
  /\ receiver' = "gone"
  /\ UNCHANGED <<confirm, db, gen, draining, out>>

MutWaitsForDrainOnly == receiver = "gone" /\ chunk # None

\* writeChunk() answers false: nobody to write to, or close came before drain.
NobodyReads == receiver = "gone" /\ (chunk # None \/ draining)

\* Returning from the loop tears the generator down where it waits.
Torn ==
  /\ NobodyReads
  /\ stage' = "torn" /\ chunk' = None /\ draining' = FALSE
  /\ UNCHANGED <<confirm, db, todo, total, miscounted, cursor, page, receiver, out>>

\* abortComment() speaks for the whole file; then res.end().
Aborted ==
  /\ stage = "aborting"
  /\ noted' = IF receiver = "there" THEN Tables ELSE noted
  /\ stage' = "ended"
  /\ UNCHANGED <<confirm, db, todo, total, miscounted, cursor, page, chunk, peer, file>>

Ended ==
  /\ Pulled("ddl") /\ todo = <<>>
  /\ stage' = "ended"
  /\ UNCHANGED <<confirm, db, todo, total, miscounted, cursor, page, chunk, peer, out>>

-----------------------------------------------------------------------------
Serve ==
  \/ ListTables \/ CountTable \/ Prepared
  \/ Begin \/ TableDdl \/ Describe \/ TableFails \/ ReadPage \/ YieldBatch \/ PageDone
  \/ RunDies \/ WriteChunk \/ Torn \/ Aborted \/ Ended

DumpNext ==
  \/ \E t \in Tables, k \in Keys : Insert(t, k) \/ Delete(t, k)
  \/ Serve \/ Drained \/ ClientLeaves

DumpSpec == DumpInit /\ [][DumpNext]_dumpVars

-----------------------------------------------------------------------------
\* "A truncated dump that looks complete is the worse outcome": in a file the
\* client got to the end of, a row that was there all along is missing only
\* from a table some comment names.
FileTellsWhatIsMissing ==
  stage = "ended" /\ receiver = "there" =>
    \A t \in Tables : t \in noted \/ stayed[t] \subseteq ToSet(file[t])

\* Keyset paging under concurrent writes, and the batches of a page: no row is
\* in the file twice, so that the dump can be loaded.
NoRowTwice == \A t \in Tables : IsInjective(file[t])

\* Without a yes, no more rows leave than the gate allows, but for tables that
\* could not be counted and rows that came in since.
RowsInFile == {r \in Tables \X Keys : r[2] \in ToSet(file[r[1]])}

NoBigDumpUnasked == confirm \/ miscounted \/ Cardinality(RowsInFile) <= Threshold + writes

\* The file is what it says it is: complete but for the tables it names,
\* without a row twice, and not larger than what was agreed to
\* (dump-database.use-case.ts:63-246).
FileIsTrue == FileTellsWhatIsMissing /\ NoRowTwice /\ NoBigDumpUnasked

\* A client that leaves, in the middle of a page or while its buffer is full,
\* leaves no dump behind that waits: the server's own steps, each of which
\* takes the dump further, go on until it is over
\* (connection-dump.controller.ts:61-79).
NobodyIsWaitedFor == receiver = "gone" /\ ~DumpOver => ENABLED Serve

-----------------------------------------------------------------------------
(* What a dump keeps to between its steps. *)

Running == stage \in {"ddl", "describe", "read", "page"}
Reading == stage \in {"read", "page"}

\* A table's rows in the file and on the way to it, in order.
InChunk(t)  == IF chunk # None /\ chunk.kind = "insert" /\ chunk.table = t THEN chunk.rows ELSE <<>>
InPage(t)   == IF stage = "page" /\ Head(todo) = t THEN page.rest ELSE <<>>
Underway(t) == (file[t] \o InChunk(t)) \o InPage(t)

StagesAgree ==
  /\ IsInjective(todo)
  /\ stage \in {"describe", "read", "page"} => todo # <<>>
  /\ stage \in {"listing", "counting", "begin", "ddl", "describe"} => cursor = 0
  /\ stage = "listing" => todo = <<>>
  /\ stage = "begin" => ToSet(todo) = Tables
  /\ stage = "page" => page # None
  /\ chunk # None \/ draining => stage \in {"ddl", "describe", "page"}
  /\ chunk # None => (chunk.kind = "insert" <=> stage = "page")
  /\ chunk # None /\ chunk.kind = "insert" => chunk.table = Head(todo)

\* A table is written to from its first page on.
NotYetWritten ==
  /\ stage \in {"listing", "counting", "begin", "refused", "failed"} =>
       \A t \in Tables : file[t] = <<>>
  /\ Running => \A t \in ToSet(todo) : (Reading => t # Head(todo)) => file[t] = <<>>
  /\ stage = "read" /\ Head(todo) \notin Keyed => file[Head(todo)] = <<>>

\* The cursor parts what a keyed table has told from what it has not.
Parted ==
  /\ \A t \in Tables : IsInjective(Underway(t)) /\ stayed[t] \subseteq rows[t]
  /\ Reading /\ Head(todo) \in Keyed =>
       /\ \A k \in ToSet(Underway(Head(todo))) : k <= cursor
       /\ \A k \in stayed[Head(todo)] : k <= cursor => k \in ToSet(Underway(Head(todo)))

Accounted(t) == t \in noted \/ chunk = NoteFor(t) \/ stayed[t] \subseteq ToSet(Underway(t))

NothingIsMissed ==
  /\ Running => \A t \in Tables \ ToSet(todo) : Accounted(t)
  /\ stage = "page" => page.full \/ stayed[Head(todo)] \subseteq ToSet(Underway(Head(todo)))
  /\ FileTellsWhatIsMissing

\* What has left was there when it was counted, or came in since.
Counted == IF stage \in {"listing", "failed"} THEN {}
           ELSE IF stage = "counting" THEN Tables \ ToSet(todo) ELSE Tables

WithinTheGate ==
  /\ stage \in {"listing", "counting", "refused", "failed"} \/ PassesTheGate
  /\ miscounted \/ \E counted, added \in SUBSET (Tables \X Keys) :
       /\ Cardinality(counted) <= total /\ Cardinality(added) <= writes
       /\ \A t \in Counted : \A k \in rows[t] : <<t, k>> \in counted \cup added
       /\ \A t \in Tables : \A k \in ToSet(Underway(t)) : <<t, k>> \in counted \cup added

DumpInv == DumpTypeOK /\ StagesAgree /\ NotYetWritten /\ Parted /\ NothingIsMissed /\ WithinTheGate
=============================================================================
