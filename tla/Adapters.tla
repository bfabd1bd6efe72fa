------------------------------ MODULE Adapters ------------------------------
(***************************************************************************)
(* One database adapter in use: batches in a transaction, a row write-back *)
(* and a describe, over a pool of sessions that typed statements also use,  *)
(* while other clients change the data and the table.                      *)
(*                                                                         *)
(* A statement is a place in its batch; the table is its columns and its   *)
(* key; a failure is the error the driver raises, as its translation tells *)
(* errors apart.                                                           *)
(***************************************************************************)
EXTENDS Naturals, Sequences, FiniteSets, SequencesExt, SqlTransaction

CONSTANTS
  Drivers,     \* subset of {"postgres", "mysql", "turso", "d1"}
  Sessions,    \* the pool's connections
  Batches,     \* calls of executeInTransaction
  Size,        \* statements of a batch
  NoSession

Pooled == {"postgres", "mysql"}
SqliteFamily == {"turso", "d1"}

VARIABLES
  scene,      \* the calls that are made: "writes" or "describes", which share nothing
  driver,
  session,    \* session -> free or held, and the transaction left open in it
  batch,      \* batch -> where its call is, on which session, with what answer
  ends,       \* batch -> its statements that end the transaction around them
  applied,    \* batch -> its statements that are durable
  row,        \* how many rows carry the key, and how many hold the new value, durably
  write,      \* the call of UpdateRow
  table,      \* the table as it is: its columns and, in key order, its key
  describe,   \* the call of describeTable
  altered     \* the table changed while it was being described (observation only)

adapterVars == <<scene, driver, session, batch, ends, applied, row, write, table, describe, altered>>
txn  == <<session, batch, ends, applied>>
edit == <<row, write>>
desc == <<describe, altered>>

Names == {"a", "b", "c", "d"}

\* Two shapes of one table: a composite key not in column order, and another.
Shapes == {[columns |-> <<"a", "b", "c">>, key |-> <<"b", "a">>],
           [columns |-> <<"c", "d">>, key |-> <<"d">>]}
Dropped == [columns |-> <<>>, key |-> <<>>]

\* refused: the server answers, and the connection will not do (errno of the
\* refusal set; SQLSTATE 28xxx; HTTP 401, 429, 5xx).  engine: it answers that the
\* statement is wrong.  socket: Node's error of a socket, with a number for errno
\* and a code of Postgres' list; oddSocket: with another code (EPIPE).  driver:
\* the driver's or TLS's own, a code of another kind and no errno.  codeless: a
\* plain Error.
Failures   == {"refused", "engine", "socket", "oddSocket", "driver", "codeless"}

\* After these the server may have done what it was asked.
Unheard    == {"socket", "oddSocket", "driver", "codeless"}
Categories == {"query", "schema", "connection", "conflict", "capability"}
CallAnswer     == [says: {"none", "ok"} \cup Categories, why: {"own"} \cup Failures]

Says(word)      == [says |-> word, why |-> "own"]
Failed(says, f) == [says |-> says, why |-> f]
Unanswered      == Says("none")

AdaptersTypeOK ==
  /\ scene \in {"writes", "describes"}
  /\ driver \in Drivers
  /\ session \in [Sessions -> [state: {"free", "held"}, open: {"nothing", "typed", "batch"}]]
  /\ batch \in [Batches -> [pc: {"idle", "begin", "run", "rollback", "over"}, at: 0..Size,
                            on: Sessions \cup {NoSession}, answer: CallAnswer, broken: BOOLEAN]]
  /\ ends \in [Batches -> SUBSET (1..Size)]
  /\ applied \in [Batches -> SUBSET (1..Size)]
  /\ row \in [matching: 0..2, changed: 0..2]
  /\ write \in [answer: CallAnswer, hit: 0..2, lost: BOOLEAN]
  /\ table \in Shapes \cup {Dropped}
  /\ describe \in [pc: {"idle", "key", "over"}, columns: Seq(Names), key: Seq(Names), answer: CallAnswer]
  /\ altered \in BOOLEAN

AdaptersInit ==
  /\ scene \in {"writes", "describes"}
  /\ driver \in Drivers
  /\ session = [s \in Sessions |-> [state |-> "free", open |-> "nothing"]]
  /\ batch = [b \in Batches |-> [pc |-> "idle", at |-> 0, on |-> NoSession, answer |-> Unanswered,
                                 broken |-> FALSE]]
  /\ ends \in [Batches -> IF driver \in Pooled THEN SUBSET (1..Size) ELSE {{}}]
  /\ applied = [b \in Batches |-> {}]
  /\ row \in {[matching |-> n, changed |-> 0] : n \in IF scene = "writes" THEN 0..2 ELSE {1}}
  /\ write = [answer |-> Unanswered, hit |-> 0, lost |-> FALSE]
  /\ table \in IF scene = "writes" THEN {Dropped} ELSE Shapes
  /\ describe = [pc |-> "idle", columns |-> <<>>, key |-> <<>>, answer |-> Unanswered]
  /\ altered = FALSE

-----------------------------------------------------------------------------
(* translate(), translateError(), errorFromResponse(): what a driver's      *)
(* failure is called.                                                       *)

MutMySqlCategory(failure) == IF failure = "driver" THEN "connection" ELSE "query"

\* An errno of the refusal set; or a code and no errno, which no error of a
\* socket is without.
MySqlCategory(failure) ==
  IF failure \in {"refused", "driver"} THEN "connection" ELSE "query"

\* isConnectionLevelError(): no code, or one of the list.  An SQLSTATE that is
\* not of class 08 is the statement's.
PostgresCategory(failure) ==
  IF failure \in {"socket", "codeless"} THEN "connection" ELSE "query"

LibsqlCategory(failure) == IF failure = "engine" THEN "query" ELSE "connection"

D1Category(failure) == IF failure = "engine" THEN "query" ELSE "connection"

Category(d, failure) ==
  CASE d = "mysql"    -> MySqlCategory(failure)
    [] d = "postgres" -> PostgresCategory(failure)
    [] d = "turso"    -> LibsqlCategory(failure)
    [] d = "d1"       -> D1Category(failure)

\* introspect(): SQL the caller did not write is not the caller's mistake.
IntrospectionCategory(d, call, failure) ==
  LET plain == Category(d, failure) IN
    IF plain # "connection" /\ (d = "mysql" \/ (d = "d1" /\ call = "listTables"))
    THEN "schema" ELSE plain

-----------------------------------------------------------------------------
(* executeInTransaction() of the pooled drivers. *)

\* pool.session() waits while every session is out.
Acquire(b) ==
  /\ driver \in Pooled /\ batch[b].pc = "idle"
  /\ \E s \in Sessions :
       /\ session[s].state = "free"
       /\ session' = [session EXCEPT ![s].state = "held"]
       /\ batch' = [batch EXCEPT ![b].pc = "begin", ![b].on = s]
  /\ UNCHANGED <<scene, driver, ends, applied, edit, table, desc>>

AcquireFails(b) ==
  /\ driver \in Pooled /\ batch[b].pc = "idle"
  /\ \E f \in Failures :
       batch' = [batch EXCEPT ![b].pc = "over", ![b].answer = Failed(Category(driver, f), f)]
  /\ UNCHANGED <<scene, driver, session, ends, applied, edit, table, desc>>

\* A BEGIN joins what a typed BEGIN has left open, or ends it.
Begin(b) ==
  /\ batch[b].pc = "begin"
  /\ batch' = [batch EXCEPT ![b].pc = "run"]
  /\ session' = [session EXCEPT ![batch[b].on].open = "batch"]
  /\ UNCHANGED <<scene, driver, ends, applied, edit, table, desc>>

\* MySQL commits at a statement that ends the transaction, Postgres drops it.
Commits == driver = "mysql"

MutStatementOnThePool(b) ==
  /\ batch[b].pc = "run" /\ batch[b].at < Size
  /\ batch' = [batch EXCEPT ![b].at = @ + 1]
  /\ applied' = [applied EXCEPT ![b] = @ \cup {batch[b].at + 1}]
  /\ UNCHANGED <<scene, driver, session, ends, edit, table, desc>>

Statement(b) ==
  /\ batch[b].pc = "run" /\ batch[b].at < Size
  /\ batch' = [batch EXCEPT ![b].at = @ + 1]
  /\ applied' = [applied EXCEPT ![b] = Standing(batch[b].at + 1, ends[b], Commits)]
  /\ UNCHANGED <<scene, driver, session, ends, edit, table, desc>>

MutReleasesFirst(b) == [session EXCEPT ![batch[b].on].state = "free"]

\* release(): the session goes back to the pool as it stands.
Released(b) == [session EXCEPT ![batch[b].on] = [state |-> "free", open |-> "nothing"]]

Commit(b) ==
  /\ batch[b].pc = "run" /\ batch[b].at = Size
  /\ applied' = [applied EXCEPT ![b] = AfterCommit(Size, ends[b], Commits)]
  /\ session' = Released(b)
  /\ batch' = [batch EXCEPT ![b].pc = "over", ![b].on = NoSession, ![b].answer = Says("ok")]
  /\ UNCHANGED <<scene, driver, ends, edit, table, desc>>

\* Any statement, BEGIN and COMMIT included, is refused, or its answer never
\* comes, and the server may have done it.
RunFails(b) ==
  /\ batch[b].pc \in {"begin", "run"}
  /\ \E f \in Failures :
       /\ batch' = [batch EXCEPT ![b].pc = "rollback", ![b].broken = f # "engine",
                                 ![b].answer = Failed(Category(driver, f), f)]
       /\ \E left \in IF batch[b].pc = "begin" THEN {{}}
                      ELSE Left(batch[b].at, Size, ends[b], Commits, f = "engine") :
            applied' = [applied EXCEPT ![b] = left]
  /\ UNCHANGED <<scene, driver, session, ends, edit, table, desc>>

RolledBack(b) ==
  /\ batch[b].pc = "rollback" /\ ~batch[b].broken
  /\ session' = Released(b)
  /\ batch' = [batch EXCEPT ![b].pc = "over", ![b].on = NoSession]
  /\ UNCHANGED <<scene, driver, ends, applied, edit, table, desc>>

\* destroy(): the pool opens a fresh connection in its place.
Destroyed(b) == [session EXCEPT ![batch[b].on] = [state |-> "free", open |-> "nothing"]]

RollbackFails(b) ==
  /\ batch[b].pc = "rollback"
  /\ session' = Destroyed(b)
  /\ batch' = [batch EXCEPT ![b].pc = "over", ![b].on = NoSession]
  /\ UNCHANGED <<scene, driver, ends, applied, edit, table, desc>>

\* client.batch(): the driver's own transaction.
LibsqlBatch(b) ==
  /\ driver = "turso" /\ batch[b].pc = "idle"
  /\ \/ /\ applied' = [applied EXCEPT ![b] = 1..Size]
        /\ batch' = [batch EXCEPT ![b].pc = "over", ![b].at = Size, ![b].answer = Says("ok")]
     \/ \E f \in Failures :
          /\ applied' \in {applied} \cup (IF f \in Unheard THEN {[applied EXCEPT ![b] = 1..Size]} ELSE {})
          /\ batch' = [batch EXCEPT ![b].pc = "over", ![b].answer = Failed(Category(driver, f), f)]
  /\ UNCHANGED <<scene, driver, session, ends, edit, table, desc>>

\* executeQuery() with a BEGIN the user typed: the pool takes the session back.
TypedBegin(s) ==
  /\ driver \in Pooled /\ session[s] = [state |-> "free", open |-> "nothing"]
  /\ session' = [session EXCEPT ![s].open = "typed"]
  /\ UNCHANGED <<scene, driver, batch, ends, applied, edit, table, desc>>

\* attachIdleClientErrorHandler(): the pool drops an idle session that breaks.
IdleBreaks(s) ==
  /\ driver \in Pooled /\ session[s].state = "free" /\ session[s].open # "nothing"
  /\ session' = [session EXCEPT ![s].open = "nothing"]
  /\ UNCHANGED <<scene, driver, batch, ends, applied, edit, table, desc>>

-----------------------------------------------------------------------------
(* UpdateRow. *)

\* buildUpdateSql() refuses: no edits, no key, or a key value no literal fits.
PlanRefused ==
  /\ write.answer = Unanswered
  /\ write' = [write EXCEPT !.answer = Says("query")]
  /\ UNCHANGED <<scene, driver, txn, row, table, desc>>

MutAnyHitWillDo(n) == IF n = 0 THEN Says("conflict") ELSE Says("ok")

Gate(n) == IF n = 1 THEN Says("ok") ELSE Says("conflict")

\* execute() on whichever session is free; in a typed transaction it waits for
\* a COMMIT that may never come.
RowWritten ==
  /\ write.answer = Unanswered
  /\ \E s \in Sessions :
       /\ driver \in Pooled => session[s].state = "free"
       /\ LET lost == driver \in Pooled /\ session[s].open = "typed" IN
            /\ row' = [row EXCEPT !.changed = IF lost THEN @ ELSE row.matching]
            /\ write' = [answer |-> Gate(row.matching), hit |-> row.matching, lost |-> lost]
  /\ UNCHANGED <<scene, driver, txn, table, desc>>

RowFails ==
  /\ write.answer = Unanswered
  /\ \E f \in Failures :
       /\ write' = [write EXCEPT !.answer = Failed(Category(driver, f), f)]
       /\ row' \in {row} \cup (IF f \in Unheard THEN {[row EXCEPT !.changed = row.matching]} ELSE {})
  /\ UNCHANGED <<scene, driver, txn, table, desc>>

\* Another client re-keys, deletes or adds such a row.
OthersWrite ==
  /\ row.changed = 0 /\ write.answer = Unanswered
  /\ \E n \in 0..2 : n # row.matching /\ row' = [row EXCEPT !.matching = n]
  /\ UNCHANGED <<scene, driver, txn, write, table, desc>>

-----------------------------------------------------------------------------
(* describeTable(). *)

OthersAlter ==
  /\ describe.pc # "over"
  /\ table' \in (Shapes \cup {Dropped}) \ {table}
  /\ altered' = (altered \/ describe.pc = "key")
  /\ UNCHANGED <<scene, driver, txn, edit, describe>>

\* PRAGMA table_info: the columns in their order, each with its place in the key.
Pragma(t) == [i \in DOMAIN t.columns |-> [name |-> t.columns[i],
                                          pk |-> IF Contains(t.key, t.columns[i])
                                                 THEN CHOOSE j \in DOMAIN t.key : t.key[j] = t.columns[i]
                                                 ELSE 0]]

KeyFromPragma(rows) ==
  LET keyed == SortSeq(SelectSeq(rows, LAMBDA r : r.pk > 0), LAMBDA r, q : r.pk < q.pk)
  IN  [i \in DOMAIN keyed |-> keyed[i].name]

\* Postgres and MySQL ask for the columns first ...
DescribeColumns ==
  /\ driver \in Pooled /\ describe.pc = "idle"
  /\ describe' = IF table.columns = <<>>
                 THEN [describe EXCEPT !.pc = "over", !.answer = Says("query")]
                 ELSE [describe EXCEPT !.pc = "key", !.columns = table.columns]
  /\ UNCHANGED <<scene, driver, txn, edit, table, altered>>

\* ... and for the key in a second query.
DescribeKey ==
  /\ describe.pc = "key"
  /\ describe' = [describe EXCEPT !.pc = "over", !.key = table.key, !.answer = Says("ok")]
  /\ UNCHANGED <<scene, driver, txn, edit, table, altered>>

DescribePragma ==
  /\ driver \in SqliteFamily /\ describe.pc = "idle"
  /\ describe' = IF table.columns = <<>>
                 THEN [describe EXCEPT !.pc = "over", !.answer = Says("query")]
                 ELSE [pc |-> "over", columns |-> table.columns, key |-> KeyFromPragma(Pragma(table)),
                       answer |-> Says("ok")]
  /\ UNCHANGED <<scene, driver, txn, edit, table, altered>>

DescribeFails ==
  /\ describe.pc # "over"
  /\ \E f \in Failures :
       describe' = [describe EXCEPT !.pc = "over",
                                    !.answer = Failed(IntrospectionCategory(driver, "describeTable", f), f)]
  /\ UNCHANGED <<scene, driver, txn, edit, table, altered>>

-----------------------------------------------------------------------------
BatchStep(b) == \/ Acquire(b) \/ AcquireFails(b) \/ Begin(b) \/ Statement(b) \/ Commit(b)
                \/ RunFails(b) \/ RolledBack(b) \/ RollbackFails(b) \/ LibsqlBatch(b)

Writes == \/ \E b \in Batches : BatchStep(b)
          \/ \E s \in Sessions : TypedBegin(s) \/ IdleBreaks(s)
          \/ PlanRefused \/ RowWritten \/ RowFails \/ OthersWrite

Describes == OthersAlter \/ DescribeColumns \/ DescribeKey \/ DescribePragma \/ DescribeFails

AdaptersNext == \/ scene = "writes" /\ Writes
                \/ scene = "describes" /\ Describes

AdaptersSpec == AdaptersInit /\ [][AdaptersNext]_adapterVars

-----------------------------------------------------------------------------
\* A session the pool can hand out carries no batch's transaction, and none is
\* out that no call will bring back (executeInTransaction, release and destroy).
PoolIsClean ==
  \A s \in Sessions :
    /\ session[s].state = "free" => session[s].open # "batch"
    /\ session[s].state = "held" => Cardinality({b \in Batches : batch[b].on = s}) = 1

\* Two calls never share a session.  So a batch that leaves its transaction
\* alone is in the database whole or not at all: whole if it says so, not at all
\* if a statement was refused.  One that does not is a prefix on MySQL, whole if
\* it says so; on Postgres what followed the statement that dropped the
\* transaction is in if the batch says ok, and what preceded it is lost.
BatchIsWhole ==
  \A b \in Batches :
    /\ ends[b] = {} => applied[b] \in {{}, 1..Size}
    /\ ends[b] = {} /\ batch[b].answer.why = "engine" => applied[b] = {}
    /\ Commits => \E n \in 0..Size : applied[b] = 1..n
    /\ batch[b].answer.says = "ok" =>
         applied[b] = IF ends[b] = {} \/ Commits THEN 1..Size
                      ELSE {m \in 1..Size : \E i \in ends[b] : i < m}

\* The exactly-one gate of UpdateRow: a write that says ok has changed the one
\* row, or waits in a transaction the user typed; a conflict over no row has
\* changed none.
OneRowOrAnError ==
  /\ write.answer.says = "ok" => write.hit = 1 /\ (write.lost \/ row.changed = 1)
  /\ write.answer = Says("conflict") /\ write.hit = 0 => row.changed = 0
  /\ write.answer = Says("query") => row.changed = 0

\* What is described is the table at some moment, key in key order, but for the
\* drivers that ask twice while others alter it.
DescribedAtOnce ==
  describe.answer.says = "ok" =>
    \/ [columns |-> describe.columns, key |-> describe.key] \in Shapes
    \/ altered /\ driver \in Pooled

\* What a pooled session leaves behind: no other call's transaction, and a
\* batch that is whole wherever its statements let it be, with the type of what
\* the driver keeps (postgres-adapter.ts:420-472, mysql-adapter.ts:409-413,
\* 483-514).
BatchesAreWhole == AdaptersTypeOK /\ PoolIsClean /\ BatchIsWhole

\* A wrong statement never looks like an outage; and what surely is one is laid
\* at the connection: for the drivers of SQLite all but a statement's own
\* failure, for Postgres the sockets' errors it lists and those without a code,
\* for MySQL a refusal and the driver's own.  Of a socket's error, whose errno is
\* a number, translate() of the MySQL driver makes the statement's.
Surely(d) ==
  CASE d = "mysql"    -> {"refused", "driver"}
    [] d = "postgres" -> {"socket", "codeless"}
    [] OTHER          -> Failures \ {"engine"}

LaidRight(answer) ==
  /\ answer.why = "engine" => answer.says # "connection"
  /\ answer.why \in Surely(driver) => answer.says = "connection"

Answers == {write.answer, describe.answer} \cup {batch[b].answer : b \in Batches}

FailureIsLaidRight == \A a \in Answers : LaidRight(a)

\* What a caller is told is so: of the row it changed, of the table it
\* described, and of whose failure it was as far as its driver can tell
\* (update-row.use-case.ts:22-70, describeTable and translateError of the
\* adapters).
AnswersAreTrue == OneRowOrAnError /\ DescribedAtOnce /\ FailureIsLaidRight

-----------------------------------------------------------------------------
(***************************************************************************)
(* The inductive invariant behind them.                                    *)
(***************************************************************************)
\* What is asked of the constants.
AdaptersParameters ==
  /\ Drivers \subseteq Pooled \cup SqliteFamily
  /\ Size \in Nat
  /\ NoSession \notin Sessions

\* A key read back from its places in the PRAGMA's rows is the key: a fact
\* about two tables, for TLC to evaluate.
PragmaKeepsTheKey == \A t \in Shapes : KeyFromPragma(Pragma(t)) = t.key

InCall == {"begin", "run", "rollback"}

\* A session that is out is out to exactly one call, and back in the pool it
\* has no batch's transaction open.
SessionsAreHeld ==
  /\ \A b \in Batches :
       /\ batch[b].pc \in InCall <=> batch[b].on \in Sessions
       /\ batch[b].on \in Sessions => session[batch[b].on].state = "held"
  /\ \A b, c \in Batches : batch[b].on \in Sessions /\ batch[b].on = batch[c].on => b = c
  /\ \A s \in Sessions :
       IF session[s].state = "held" THEN \E b \in Batches : batch[b].on = s
                                    ELSE session[s].open # "batch"

\* A call has no answer before its last step, and once it fails it fails as its
\* driver names the failure.
FailedAs(answer) == \E f \in Failures : answer = Failed(Category(driver, f), f)

\* What a call over, or about to be, may have left durable.
Leaves(call, closers, durable) ==
  /\ closers = {} => durable \in {{}, 1..Size}
  /\ closers = {} /\ call.answer.why = "engine" => durable = {}
  /\ Commits => \E n \in 0..Size : durable = 1..n
  /\ call.answer = Says("ok") =>
       durable = IF closers = {} \/ Commits THEN 1..Size
                 ELSE {m \in 1..Size : \E i \in closers : i < m}

\* On its way what is durable is what its place in the batch makes it.
CallSound(call, closers, durable) ==
  /\ durable \in SUBSET (1..Size)
  /\ driver \notin Pooled => closers = {}
  /\ call.pc \in {"idle", "begin"} => call.at = 0
  /\ call.pc \in {"idle", "begin", "run"} => /\ call.answer = Unanswered
                                             /\ durable = Standing(call.at, closers, Commits)
  /\ call.pc = "rollback" => FailedAs(call.answer)
  /\ call.pc = "over" => call.answer = Says("ok") \/ FailedAs(call.answer)
  /\ Leaves(call, closers, durable)

BatchesInProgress == \A b \in Batches : CallSound(batch[b], ends[b], applied[b])

WriteInProgress ==
  /\ write.answer = Unanswered => row.changed = 0 /\ write.hit = 0
  /\ FailedAs(write.answer) => write.hit = 0
  /\ \/ write.answer \in {Unanswered, Says("ok"), Says("conflict"), Says("query")}
     \/ FailedAs(write.answer)

DescribeInProgress ==
  /\ describe.pc # "over" => describe.answer = Unanswered
  /\ describe.pc = "idle" => ~altered
  /\ describe.pc = "key" => /\ driver \in Pooled
                            /\ altered \/ (table \in Shapes /\ describe.columns = table.columns)
  /\ LaidRight(describe.answer)

AdaptersInv ==
  /\ AdaptersTypeOK
  /\ SessionsAreHeld /\ BatchesInProgress
  /\ WriteInProgress /\ OneRowOrAnError
  /\ DescribeInProgress /\ DescribedAtOnce
=============================================================================
