--------------------------- MODULE SqlTransaction ---------------------------
(***************************************************************************)
(* What a server has made durable of a batch that is sent to it between    *)
(* BEGIN and COMMIT (executeInTransaction of the pooled drivers).  Some    *)
(* statements end the transaction around them, and each that follows       *)
(* stands by itself: MySQL commits it at DDL, LOCK TABLES or GRANT,        *)
(* Postgres drops it at ABORT or PREPARE TRANSACTION.                      *)
(*                                                                         *)
(* A statement is its place in the batch.  `done` have gone through, `ends`*)
(* are the places of those that end the transaction, `commits` says how.   *)
(***************************************************************************)
EXTENDS Naturals

\* Before the COMMIT: nothing, until a statement has ended the transaction.
Standing(done, ends, commits) ==
  {m \in 1..done : \E i \in ends : i <= done /\ (commits \/ i < m)}

\* After it: everything, if it still had a transaction to commit.
AfterCommit(size, ends, commits) ==
  IF ends = {} THEN 1..size ELSE Standing(size, ends, commits)

AfterNext(done, size, ends, commits) ==
  IF done = size THEN AfterCommit(size, ends, commits) ELSE Standing(done + 1, ends, commits)

\* What the batch leaves when its next statement, or the COMMIT, fails.  MySQL
\* commits what precedes a statement of that kind even when it refuses the
\* statement; one whose answer was not heard may have gone through.
Left(done, size, ends, commits, heard) ==
  {Standing(done, ends, commits)}
    \cup (IF commits /\ done + 1 \in ends THEN {1..done} ELSE {})
    \cup (IF heard THEN {} ELSE {AfterNext(done, size, ends, commits)})
=============================================================================
