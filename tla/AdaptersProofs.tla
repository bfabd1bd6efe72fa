--------------------------- MODULE AdaptersProofs ---------------------------
(***************************************************************************)
(* Proofs about Adapters, for any number of sessions, batches and          *)
(* statements, and any of the drivers.                                     *)
(***************************************************************************)
EXTENDS Adapters, FiniteSetTheorems, TLAPS

(***************************************************************************)
(* Answers.                                                                *)
(***************************************************************************)
\* Every driver names every failure, and lays it as it can tell.
LEMMA CategoryOf ==
  ASSUME AdaptersParameters, driver \in Drivers, NEW f \in Failures
  PROVE  /\ Category(driver, f) \in {"connection", "query"}
         /\ f = "engine" => Category(driver, f) # "connection"
         /\ f \in Surely(driver) => Category(driver, f) = "connection"
<1>1. driver \in {"postgres", "mysql", "turso", "d1"}
  BY DEF AdaptersParameters, Pooled, SqliteFamily
<1>2. CASE driver = "mysql"
  BY <1>2 DEF Category, MySqlCategory, Surely
<1>3. CASE driver = "postgres"
  BY <1>3 DEF Category, PostgresCategory, Surely
<1>4. CASE driver \in {"turso", "d1"}
  BY <1>4 DEF Category, LibsqlCategory, D1Category, Surely
<1>5. QED
  BY <1>1, <1>2, <1>3, <1>4

\* A failure's answer is no other answer.
LEMMA FailedIs ==
  ASSUME AdaptersParameters, driver \in Drivers, NEW answer, FailedAs(answer)
  PROVE  /\ answer \in CallAnswer
         /\ answer \notin {Unanswered, Says("ok"), Says("conflict"), Says("query")}
         /\ answer.says \in {"connection", "query"}
         /\ answer.why # "own"
         /\ LaidRight(answer)
<1>1. PICK f \in Failures : answer = Failed(Category(driver, f), f)
  BY DEF FailedAs
<1>2. answer.says = Category(driver, f) /\ answer.why = f
  BY <1>1 DEF Failed
<1>3. answer.says \in {"connection", "query"} /\ answer.why # "own"
  BY <1>2, CategoryOf DEF Failures
<1>4. answer \in CallAnswer
  BY <1>1, CategoryOf DEF Failed, CallAnswer, Categories
<1>5. \A word : Says(word).why = "own"
  BY DEF Says
<1>6. QED
  BY <1>2, <1>3, <1>4, <1>5, CategoryOf DEF Unanswered, LaidRight

\* What is said in a word.
LEMMA SaysIs ==
  /\ Says("ok") \in CallAnswer /\ Says("conflict") \in CallAnswer /\ Says("query") \in CallAnswer
  /\ Unanswered \in CallAnswer
  /\ \A v, w : Says(v) = Says(w) => v = w
  /\ \A w : Says(w).says = w /\ Says(w).why = "own"
<1>1. \A w : Says(w).says = w /\ Says(w).why = "own"
  BY DEF Says
<1>2. \A v, w : Says(v) = Says(w) => v = w
  BY <1>1
<1>3. \A w \in {"none", "ok"} \cup Categories : Says(w) \in CallAnswer
  BY DEF Says, CallAnswer
<1>4. QED
  BY <1>1, <1>2, <1>3 DEF Unanswered, Categories

\* An own word blames nobody.
LEMMA OwnIsLaidRight == ASSUME NEW answer, answer.why = "own" PROVE LaidRight(answer)
  BY DEF LaidRight, Surely, Failures

-----------------------------------------------------------------------------
(***************************************************************************)
(* What a transaction leaves durable.                                      *)
(***************************************************************************)
\* Before the COMMIT.
LEMMA StandingIs ==
  ASSUME NEW size \in Nat, NEW done \in 0..size, NEW closers \in SUBSET (1..size)
  PROVE  /\ Standing(done, closers, Commits) \in SUBSET (1..size)
         /\ Standing(0, closers, Commits) = {}
         /\ closers = {} => Standing(done, closers, Commits) = {}
         /\ Commits => \E n \in 0..size : Standing(done, closers, Commits) = 1..n
<1>1. Standing(done, closers, Commits) \in SUBSET (1..size) /\ Standing(0, closers, Commits) = {}
  BY DEF Standing
<1>2. closers = {} => Standing(done, closers, Commits) = {}
  BY DEF Standing
<1>3. ASSUME Commits, \E i \in closers : i <= done
      PROVE  Standing(done, closers, Commits) = 1..done
  BY <1>3 DEF Standing
<1>4. ASSUME ~\E i \in closers : i <= done
      PROVE  Standing(done, closers, Commits) = 1..0
  BY <1>4 DEF Standing
<1>5. done \in 0..size /\ 0 \in 0..size
  OBVIOUS
<1>6. ASSUME Commits
      PROVE  \E n \in 0..size : Standing(done, closers, Commits) = 1..n
  <2>1. CASE \E i \in closers : i <= done
    BY <1>3, <1>5, <1>6, <2>1
  <2>2. CASE ~\E i \in closers : i <= done
    BY <1>4, <1>5, <2>2
  <2>3. QED
    BY <2>1, <2>2
<1>7. QED
  BY <1>1, <1>2, <1>6

\* After it.
LEMMA AfterCommitIs ==
  ASSUME NEW size \in Nat, NEW closers \in SUBSET (1..size)
  PROVE  AfterCommit(size, closers, Commits) =
           IF closers = {} \/ Commits THEN 1..size ELSE {m \in 1..size : \E i \in closers : i < m}
<1>1. CASE closers = {}
  BY <1>1 DEF AfterCommit
<1>2. CASE closers # {} /\ Commits
  <2>1. PICK i \in closers : i <= size
    <3>1. PICK i : i \in closers
      BY <1>2
    <3>2. i \in 1..size
      BY <3>1
    <3>3. QED
      BY <3>1, <3>2
  <2>2. Standing(size, closers, Commits) = 1..size
    BY <1>2, <2>1 DEF Standing
  <2>3. QED
    BY <1>2, <2>2 DEF AfterCommit
<1>3. CASE closers # {} /\ ~Commits
  <2>1. Standing(size, closers, Commits) = {m \in 1..size : \E i \in closers : i < m}
    BY <1>3 DEF Standing
  <2>2. QED
    BY <1>3, <2>1 DEF AfterCommit
<1>4. QED
  BY <1>1, <1>2, <1>3

-----------------------------------------------------------------------------
(***************************************************************************)
(* Batches.                                                                *)
(***************************************************************************)
Session == [state: {"free", "held"}, open: {"nothing", "typed", "batch"}]
Call    == [pc: {"idle", "begin", "run", "rollback", "over"}, at: 0..Size,
            on: Sessions \cup {NoSession}, answer: CallAnswer, broken: BOOLEAN]

\* What a step of b's call may do to its session: keep it out, take one that is
\* in, or give it back as the pool wants it.
Keeps(b, call) ==
  /\ call.on = batch[b].on /\ (call.pc \in InCall <=> batch[b].pc \in InCall)
  /\ session' \in [Sessions -> Session]
  /\ \A s \in Sessions : /\ session'[s].state = session[s].state
                         /\ session'[s].state = "free" => session'[s].open # "batch"

Takes(b, call) ==
  /\ batch[b].on \notin Sessions /\ call.pc \in InCall /\ call.on \in Sessions
  /\ session[call.on].state = "free"
  /\ session' = [session EXCEPT ![call.on].state = "held"]

GivesBack(b, call) ==
  /\ batch[b].on \in Sessions /\ call.pc \notin InCall /\ call.on = NoSession
  /\ session' = [session EXCEPT ![batch[b].on] = [state |-> "free", open |-> "nothing"]]

Moves(b, call, durable) ==
  /\ call \in Call /\ CallSound(call, ends[b], durable)
  /\ batch' = [batch EXCEPT ![b] = call]
  /\ applied' = [applied EXCEPT ![b] = durable]
  /\ Keeps(b, call) \/ Takes(b, call) \/ GivesBack(b, call)
  /\ UNCHANGED <<scene, driver, ends, edit, table, desc>>

\* Where a step of a batch starts from.
LEMMA OldCall ==
  ASSUME AdaptersParameters, AdaptersInv, NEW b \in Batches
  PROVE  /\ driver \in Drivers
         /\ batch[b] \in Call /\ CallSound(batch[b], ends[b], applied[b])
         /\ applied[b] \in SUBSET (1..Size) /\ ends[b] \in SUBSET (1..Size)
         /\ Size \in Nat /\ batch[b].at \in 0..Size /\ Commits \in BOOLEAN
         /\ batch = [batch EXCEPT ![b] = batch[b]] /\ applied = [applied EXCEPT ![b] = applied[b]]
         /\ session \in [Sessions -> Session]
         /\ batch[b].pc \in InCall <=> batch[b].on \in Sessions
         /\ batch[b].on \in Sessions => session[batch[b].on].state = "held"
         /\ \A s \in Sessions : session[s].state = "free" => session[s].open # "batch"
         /\ batch[b].on \notin Sessions => batch[b].on = NoSession
  BY DEF AdaptersInv, AdaptersTypeOK, BatchesInProgress, SessionsAreHeld, CallSound, Session, Call,
         Commits, AdaptersParameters

\* A call on its way, at its place, with what that place makes durable.
LEMMA UnderWay ==
  ASSUME AdaptersParameters, AdaptersInv, NEW b \in Batches, NEW call \in Call,
         call.answer = Unanswered, call.pc \in {"begin", "run"}, call.pc = "begin" => call.at = 0
  PROVE  CallSound(call, ends[b], Standing(call.at, ends[b], Commits))
<1>1. /\ Size \in Nat /\ call.at \in 0..Size /\ ends[b] \in SUBSET (1..Size) /\ Commits \in BOOLEAN
      /\ driver \notin Pooled => ends[b] = {}
  BY OldCall DEF Call, CallSound
<1>2. Unanswered.why # "engine" /\ Unanswered # Says("ok")
  BY SaysIs DEF Unanswered
<1> DEFINE durable == Standing(call.at, ends[b], Commits)
<1>3. /\ durable \in SUBSET (1..Size) /\ (ends[b] = {} => durable = {})
      /\ Commits => \E n \in 0..Size : durable = 1..n
  BY <1>1, StandingIs
<1> HIDE DEF durable
<1>4. Leaves(call, ends[b], durable)
  BY <1>1, <1>2, <1>3 DEF Leaves
<1>5. QED
  BY <1>1, <1>3, <1>4 DEF CallSound, durable

\* An own word is no failure's.
LEMMA OkIsSound ==
  ASSUME AdaptersParameters, AdaptersInv, NEW b \in Batches, NEW call \in Call,
         call.answer = Says("ok"), call.pc = "over"
  PROVE  CallSound(call, ends[b], AfterCommit(Size, ends[b], Commits))
<1>1. /\ Size \in Nat /\ ends[b] \in SUBSET (1..Size) /\ Commits \in BOOLEAN
      /\ driver \notin Pooled => ends[b] = {}
  BY OldCall DEF CallSound
<1> DEFINE durable == AfterCommit(Size, ends[b], Commits)
<1>2. /\ durable = IF ends[b] = {} \/ Commits THEN 1..Size ELSE {m \in 1..Size : \E i \in ends[b] : i < m}
      /\ durable \in SUBSET (1..Size)
  BY <1>1, AfterCommitIs
<1> HIDE DEF durable
<1>3. Leaves(call, ends[b], durable)
  BY <1>1, <1>2, SaysIs DEF Leaves
<1>4. CallSound(call, ends[b], durable)
  BY <1>1, <1>2, <1>3 DEF CallSound
<1>5. QED
  BY <1>4 DEF durable

\* A call that fails, whatever the database made of it, is sound unless the
\* statement's own failure is given for a batch that is in.
LEMMA FailureIsSound ==
  ASSUME AdaptersParameters, AdaptersInv, NEW b \in Batches, NEW f \in Failures, NEW call \in Call,
         NEW durable \in SUBSET (1..Size),
         call.answer = Failed(Category(driver, f), f), call.pc \in {"rollback", "over"},
         ends[b] = {} => durable \in {{}, 1..Size},
         ends[b] = {} /\ f = "engine" => durable = {},
         Commits => \E n \in 0..Size : durable = 1..n
  PROVE  CallSound(call, ends[b], durable)
<1>1. FailedAs(call.answer) /\ driver \in Drivers
  BY DEF FailedAs, AdaptersInv, AdaptersTypeOK
<1>2. call.answer # Says("ok") /\ call.answer.why = f
  BY <1>1, FailedIs DEF Failed
<1>3. driver \notin Pooled => ends[b] = {}
  BY OldCall DEF CallSound
<1>4. Leaves(call, ends[b], durable)
  BY <1>2 DEF Leaves
<1>5. QED
  BY <1>1, <1>3, <1>4 DEF CallSound

LEMMA AcquireMoves ==
  ASSUME AdaptersParameters, AdaptersInv, NEW b \in Batches, Acquire(b)
  PROVE  \E call, durable : Moves(b, call, durable)
<1>1. PICK s \in Sessions :
        /\ session[s].state = "free"
        /\ session' = [session EXCEPT ![s].state = "held"]
        /\ batch' = [batch EXCEPT ![b].pc = "begin", ![b].on = s]
  BY DEF Acquire
<1> DEFINE call == [batch[b] EXCEPT !.pc = "begin", !.on = s]
<1>2. call \in Call /\ CallSound(call, ends[b], applied[b])
  <2>1. batch[b].pc = "idle" /\ batch[b] \in Call /\ CallSound(batch[b], ends[b], applied[b])
    BY OldCall DEF Acquire
  <2>2. call \in Call
    BY <2>1 DEF Call
  <2>3. call.pc = "begin" /\ call.answer = batch[b].answer /\ call.at = batch[b].at
    BY <2>1 DEF Call
  <2>4. /\ call.at = 0 /\ call.answer = Unanswered
        /\ applied[b] = Standing(call.at, ends[b], Commits)
    BY <2>1, <2>3 DEF CallSound
  <2>5. QED
    BY <2>2, <2>3, <2>4, UnderWay
<1>3. batch' = [batch EXCEPT ![b] = call]
  BY <1>1
<1>4. Takes(b, call)
  BY <1>1, OldCall, ZenonT(40) DEF Acquire, Takes, InCall, Call
<1>5. Moves(b, call, applied[b])
  BY <1>2, <1>3, <1>4, OldCall DEF Acquire, Moves
<1>6. QED
  BY <1>5

LEMMA AcquireFailsMoves ==
  ASSUME AdaptersParameters, AdaptersInv, NEW b \in Batches, AcquireFails(b)
  PROVE  \E call, durable : Moves(b, call, durable)
<1>1. PICK f \in Failures :
        batch' = [batch EXCEPT ![b].pc = "over", ![b].answer = Failed(Category(driver, f), f)]
  BY DEF AcquireFails
<1> DEFINE call == [batch[b] EXCEPT !.pc = "over", !.answer = Failed(Category(driver, f), f)]
<1>2. FailedAs(Failed(Category(driver, f), f))
  BY DEF FailedAs
<1>3. call \in Call
  BY <1>2, OldCall, FailedIs, ZenonT(40) DEF Call
<1>4. applied[b] = {}
  BY OldCall, StandingIs DEF AcquireFails, CallSound
<1>5. CallSound(call, ends[b], applied[b])
  <2>1. call.answer = Failed(Category(driver, f), f) /\ call.pc = "over"
    BY OldCall DEF Call
  <2>2. 0 \in 0..Size /\ applied[b] = 1..0
    BY <1>4 DEF AdaptersParameters
  <2> HIDE DEF call
  <2>3. QED
    BY <1>3, <1>4, <2>1, <2>2, OldCall, FailureIsSound
<1>6. batch' = [batch EXCEPT ![b] = call]
  BY <1>1
<1>7. Keeps(b, call)
  BY OldCall DEF AcquireFails, Keeps, InCall, Call, Session
<1>8. Moves(b, call, applied[b])
  BY <1>3, <1>5, <1>6, <1>7, OldCall DEF AcquireFails, Moves
<1>9. QED
  BY <1>8

LEMMA BeginMoves ==
  ASSUME AdaptersParameters, AdaptersInv, NEW b \in Batches, Begin(b)
  PROVE  \E call, durable : Moves(b, call, durable)
<1> DEFINE call == [batch[b] EXCEPT !.pc = "run"]
<1>1. call \in Call /\ CallSound(call, ends[b], applied[b])
  <2>1. batch[b].pc = "begin" /\ batch[b] \in Call /\ CallSound(batch[b], ends[b], applied[b])
    BY OldCall DEF Begin
  <2>2. call \in Call /\ call.pc = "run" /\ call.answer = batch[b].answer /\ call.at = batch[b].at
    BY <2>1 DEF Call
  <2>3. call.answer = Unanswered /\ applied[b] = Standing(call.at, ends[b], Commits)
    BY <2>1, <2>2 DEF CallSound
  <2>4. QED
    BY <2>2, <2>3, UnderWay
<1>2. batch' = [batch EXCEPT ![b] = call]
  BY DEF Begin
<1>3. batch[b].on \in Sessions /\ session[batch[b].on].state = "held"
  BY OldCall DEF Begin, InCall
<1>4. session' \in [Sessions -> Session]
  BY <1>3, OldCall DEF Begin, Session
<1>5. \A s \in Sessions : /\ session'[s].state = session[s].state
                          /\ session'[s].state = "free" => session'[s].open # "batch"
  BY <1>3, OldCall DEF Begin, Session
<1>6. Keeps(b, call)
  BY <1>4, <1>5, OldCall DEF Begin, Keeps, InCall, Call
<1>7. Moves(b, call, applied[b])
  BY <1>1, <1>2, <1>6, OldCall DEF Begin, Moves
<1>8. QED
  BY <1>7

LEMMA StatementMoves ==
  ASSUME AdaptersParameters, AdaptersInv, NEW b \in Batches, Statement(b)
  PROVE  \E call, durable : Moves(b, call, durable)
<1> DEFINE call == [batch[b] EXCEPT !.at = @ + 1]
           durable == Standing(call.at, ends[b], Commits)
<1>1. call \in Call /\ CallSound(call, ends[b], durable)
  <2>1. /\ batch[b].pc = "run" /\ batch[b] \in Call /\ CallSound(batch[b], ends[b], applied[b])
        /\ batch[b].at < Size /\ batch[b].at \in 0..Size /\ Size \in Nat
    BY OldCall DEF Statement
  <2>2. call \in Call /\ call.pc = "run" /\ call.answer = batch[b].answer
    BY <2>1 DEF Call
  <2>3. call.answer = Unanswered
    BY <2>1, <2>2 DEF CallSound
  <2> HIDE DEF call
  <2>4. QED
    BY <2>2, <2>3, UnderWay
<1>2. batch' = [batch EXCEPT ![b] = call]
  BY DEF Statement
<1>3. applied' = [applied EXCEPT ![b] = durable]
  <2>1. call.at = batch[b].at + 1
    BY OldCall DEF Call
  <2>2. QED
    BY <2>1 DEF Statement
<1>4. Keeps(b, call)
  BY OldCall DEF Statement, Keeps, InCall, Call, Session
<1>5. Moves(b, call, durable)
  BY <1>1, <1>2, <1>3, <1>4, OldCall DEF Statement, Moves
<1>6. QED
  BY <1>5

LEMMA CommitMoves ==
  ASSUME AdaptersParameters, AdaptersInv, NEW b \in Batches, Commit(b)
  PROVE  \E call, durable : Moves(b, call, durable)
<1> DEFINE call == [batch[b] EXCEPT !.pc = "over", !.on = NoSession, !.answer = Says("ok")]
<1>1. call \in Call /\ call.answer = Says("ok") /\ call.pc = "over"
  BY OldCall, SaysIs DEF Call
<1>2. CallSound(call, ends[b], AfterCommit(Size, ends[b], Commits))
  BY <1>1, OkIsSound
<1>3. batch' = [batch EXCEPT ![b] = call]
  BY DEF Commit
<1>4. GivesBack(b, call)
  BY OldCall DEF Commit, GivesBack, Released, InCall, Call
<1>5. Moves(b, call, AfterCommit(Size, ends[b], Commits))
  BY <1>1, <1>2, <1>3, <1>4 DEF Commit, Moves
<1>6. QED
  BY <1>5

LEMMA RunFailsMoves ==
  ASSUME AdaptersParameters, AdaptersInv, NEW b \in Batches, RunFails(b)
  PROVE  \E call, durable : Moves(b, call, durable)
<1>0. PICK f \in Failures :
        /\ batch' = [batch EXCEPT ![b].pc = "rollback", ![b].broken = f # "engine",
                                  ![b].answer = Failed(Category(driver, f), f)]
        /\ \E left \in IF batch[b].pc = "begin" THEN {{}}
                       ELSE Left(batch[b].at, Size, ends[b], Commits, f = "engine") :
             applied' = [applied EXCEPT ![b] = left]
  BY DEF RunFails
<1>1. PICK durable \in IF batch[b].pc = "begin" THEN {{}}
                      ELSE Left(batch[b].at, Size, ends[b], Commits, f = "engine") :
        applied' = [applied EXCEPT ![b] = durable]
  BY <1>0
<1> DEFINE call == [batch[b] EXCEPT !.pc = "rollback", !.broken = (f # "engine"),
                                    !.answer = Failed(Category(driver, f), f)]
<1>2. FailedAs(Failed(Category(driver, f), f))
  BY DEF FailedAs
<1>3. call \in Call
  BY <1>2, OldCall, FailedIs, ZenonT(40) DEF Call
<1>4. /\ durable \in SUBSET (1..Size)
      /\ ends[b] = {} => durable \in {{}, 1..Size}
      /\ ends[b] = {} /\ f = "engine" => durable = {}
      /\ Commits => \E n \in 0..Size : durable = 1..n
  <2>1. CASE durable = {}
    <3>1. 0 \in 0..Size /\ durable = 1..0
      BY <2>1 DEF AdaptersParameters
    <3>2. QED
      BY <2>1, <3>1
  <2>2. CASE durable \in Left(batch[b].at, Size, ends[b], Commits, f = "engine")
    <3> DEFINE done == batch[b].at
               closers == ends[b]
    <3>1. Size \in Nat /\ done \in 0..Size /\ closers \in SUBSET (1..Size)
      BY OldCall
    <3>2. \/ durable = Standing(done, closers, Commits)
          \/ durable = 1..done /\ closers # {}
          \/ f # "engine" /\ done = Size /\ durable = AfterCommit(Size, closers, Commits)
          \/ f # "engine" /\ done # Size /\ durable = Standing(done + 1, closers, Commits)
      BY <2>2 DEF Left, AfterNext
    <3> HIDE DEF done, closers
    <3>3. CASE durable = Standing(done, closers, Commits)
      BY <3>1, <3>3, StandingIs DEF closers
    <3>4. CASE durable = 1..done /\ closers # {}
      BY <3>1, <3>4 DEF closers
    <3>5. CASE f # "engine" /\ done = Size /\ durable = AfterCommit(Size, closers, Commits)
      <4>1. durable = IF closers = {} \/ Commits THEN 1..Size
                      ELSE {m \in 1..Size : \E i \in closers : i < m}
        BY <3>1, <3>5, AfterCommitIs
      <4>2. durable \in SUBSET (1..Size) /\ Size \in 0..Size
        BY <3>1, <4>1
      <4>3. QED
        BY <3>5, <4>1, <4>2 DEF closers
    <3>6. CASE f # "engine" /\ done # Size /\ durable = Standing(done + 1, closers, Commits)
      <4>1. done + 1 \in 0..Size
        BY <3>1, <3>6
      <4>2. QED
        BY <3>1, <3>6, <4>1, StandingIs DEF closers
    <3>7. QED
      BY <3>2, <3>3, <3>4, <3>5, <3>6
  <2>3. QED
    BY <1>1, <2>1, <2>2
<1>5. CallSound(call, ends[b], durable)
  <2>1. call.answer = Failed(Category(driver, f), f) /\ call.pc = "rollback"
    BY OldCall DEF Call
  <2> HIDE DEF call
  <2>2. QED
    BY <1>3, <1>4, <2>1, FailureIsSound
<1>6. batch' = [batch EXCEPT ![b] = call]
  BY <1>0
<1>7. Keeps(b, call)
  BY OldCall DEF RunFails, Keeps, InCall, Call, Session
<1>8. Moves(b, call, durable)
  BY <1>1, <1>3, <1>5, <1>6, <1>7 DEF RunFails, Moves
<1>9. QED
  BY <1>8

LEMMA GivingUpMoves ==
  ASSUME AdaptersParameters, AdaptersInv, NEW b \in Batches, RolledBack(b) \/ RollbackFails(b)
  PROVE  \E call, durable : Moves(b, call, durable)
<1> DEFINE call == [batch[b] EXCEPT !.pc = "over", !.on = NoSession]
<1>1. call \in Call /\ CallSound(call, ends[b], applied[b])
  <2>1. batch[b].pc = "rollback" /\ batch[b] \in Call /\ CallSound(batch[b], ends[b], applied[b])
    BY OldCall DEF RolledBack, RollbackFails
  <2>2. call \in Call /\ call.pc = "over" /\ call.answer = batch[b].answer
    BY <2>1 DEF Call
  <2>3. FailedAs(call.answer) /\ Leaves(call, ends[b], applied[b])
    BY <2>1, <2>2 DEF CallSound, Leaves
  <2>4. QED
    BY <2>1, <2>2, <2>3 DEF CallSound
<1>2. batch' = [batch EXCEPT ![b] = call]
  BY DEF RolledBack, RollbackFails
<1>3. GivesBack(b, call)
  BY OldCall DEF RolledBack, RollbackFails, GivesBack, Released, Destroyed, InCall, Call
<1>4. Moves(b, call, applied[b])
  BY <1>1, <1>2, <1>3, OldCall DEF RolledBack, RollbackFails, Moves
<1>5. QED
  BY <1>4

LEMMA LibsqlBatchMoves ==
  ASSUME AdaptersParameters, AdaptersInv, NEW b \in Batches, LibsqlBatch(b)
  PROVE  \E call, durable : Moves(b, call, durable)
<1>1. /\ applied[b] = {} /\ batch[b].pc = "idle" /\ ends[b] = {} /\ ~Commits
      /\ 1..Size \in SUBSET (1..Size) /\ AfterCommit(Size, ends[b], Commits) = 1..Size
  <2>1. batch[b].pc = "idle" /\ ~Commits /\ driver \notin Pooled
    BY DEF LibsqlBatch, Pooled, Commits
  <2>2. ends[b] = {} /\ applied[b] = Standing(batch[b].at, ends[b], Commits)
    BY <2>1, OldCall DEF CallSound
  <2>3. applied[b] = {}
    BY <2>2, OldCall, StandingIs
  <2>4. AfterCommit(Size, ends[b], Commits) = 1..Size
    BY <2>2 DEF AfterCommit
  <2>5. QED
    BY <2>1, <2>2, <2>3, <2>4
<1>2. CASE /\ applied' = [applied EXCEPT ![b] = 1..Size]
           /\ batch' = [batch EXCEPT ![b].pc = "over", ![b].at = Size, ![b].answer = Says("ok")]
  <2> DEFINE call == [batch[b] EXCEPT !.pc = "over", !.at = Size, !.answer = Says("ok")]
  <2>1. call \in Call /\ call.answer = Says("ok") /\ call.pc = "over"
    <3>1. Size \in 0..Size
      BY DEF AdaptersParameters
    <3>2. batch[b] \in Call /\ Says("ok") \in CallAnswer
      BY OldCall, SaysIs
    <3>3. QED
      BY <3>1, <3>2 DEF Call
  <2>2. CallSound(call, ends[b], 1..Size)
    BY <1>1, <2>1, OkIsSound
  <2>3. batch' = [batch EXCEPT ![b] = call]
    BY <1>2
  <2>4. Keeps(b, call)
    BY <1>1, OldCall DEF LibsqlBatch, Keeps, InCall, Call, Session
  <2>5. Moves(b, call, 1..Size)
    BY <1>2, <2>1, <2>2, <2>3, <2>4 DEF LibsqlBatch, Moves
  <2>6. QED
    BY <2>5
<1>3. CASE \E f \in Failures :
             /\ applied' \in {applied} \cup (IF f \in Unheard THEN {[applied EXCEPT ![b] = 1..Size]} ELSE {})
             /\ batch' = [batch EXCEPT ![b].pc = "over", ![b].answer = Failed(Category(driver, f), f)]
  <2>1. PICK f \in Failures :
          /\ applied' \in {applied} \cup (IF f \in Unheard THEN {[applied EXCEPT ![b] = 1..Size]} ELSE {})
          /\ batch' = [batch EXCEPT ![b].pc = "over", ![b].answer = Failed(Category(driver, f), f)]
    BY <1>3
  <2> DEFINE call == [batch[b] EXCEPT !.pc = "over", !.answer = Failed(Category(driver, f), f)]
  <2>2. FailedAs(Failed(Category(driver, f), f))
    BY DEF FailedAs
  <2>3. call \in Call
    BY <2>2, OldCall, FailedIs, ZenonT(40) DEF Call
  <2>4. PICK durable \in {{}, 1..Size} :
          applied' = [applied EXCEPT ![b] = durable] /\ (f = "engine" => durable = {})
    BY <1>1, <2>1, OldCall DEF Unheard
  <2>5. CallSound(call, ends[b], durable)
    <3>1. call.answer = Failed(Category(driver, f), f) /\ call.pc = "over"
      BY OldCall DEF Call
    <3>2. durable \in SUBSET (1..Size)
      BY <1>1, <2>4
    <3> HIDE DEF call
    <3>3. QED
      BY <1>1, <2>3, <2>4, <3>1, <3>2, FailureIsSound
  <2>6. batch' = [batch EXCEPT ![b] = call]
    BY <2>1
  <2>7. Keeps(b, call)
    BY <1>1, OldCall DEF LibsqlBatch, Keeps, InCall, Call, Session
  <2>8. Moves(b, call, durable)
    BY <2>3, <2>4, <2>5, <2>6, <2>7 DEF LibsqlBatch, Moves
  <2>9. QED
    BY <2>8
<1>4. QED
  BY <1>2, <1>3 DEF LibsqlBatch

\* A step of a batch moves one call and at most its own session.
LEMMA BatchMoves ==
  ASSUME AdaptersParameters, AdaptersInv, NEW b \in Batches, BatchStep(b)
  PROVE  \E call, durable : Moves(b, call, durable)
  BY AcquireMoves, AcquireFailsMoves, BeginMoves, StatementMoves, CommitMoves, RunFailsMoves,
     GivingUpMoves, LibsqlBatchMoves DEF BatchStep

\* Whatever moves, the calls beside a batch's are as they were.
LEMMA TheRestStands ==
  ASSUME AdaptersInv, UNCHANGED <<driver, edit, table, desc>>
  PROVE  WriteInProgress' /\ OneRowOrAnError' /\ DescribeInProgress' /\ DescribedAtOnce'
  BY DEF AdaptersInv, edit, desc, WriteInProgress, OneRowOrAnError, DescribeInProgress, DescribedAtOnce,
         FailedAs, LaidRight

LEMMA BatchesStand ==
  ASSUME AdaptersInv, UNCHANGED <<driver, batch, ends, applied>>
  PROVE  BatchesInProgress'
  BY DEF AdaptersInv, BatchesInProgress, CallSound, Leaves, Commits, FailedAs

LEMMA SessionsStand ==
  ASSUME AdaptersInv, UNCHANGED txn
  PROVE  SessionsAreHeld'
  BY DEF AdaptersInv, txn, SessionsAreHeld

\* A move keeps a session out to one call at most, and a call in progress.
LEMMA MoveTypes ==
  ASSUME AdaptersParameters, AdaptersInv, NEW b \in Batches, NEW call, NEW durable, Moves(b, call, durable)
  PROVE  /\ batch \in [Batches -> Call] /\ applied \in [Batches -> SUBSET (1..Size)]
         /\ batch' \in [Batches -> Call] /\ applied' \in [Batches -> SUBSET (1..Size)]
         /\ session' \in [Sessions -> Session]
         /\ batch'[b] = call /\ applied'[b] = durable
         /\ \A c \in Batches \ {b} : batch'[c] = batch[c] /\ applied'[c] = applied[c]
<1>1. batch \in [Batches -> Call] /\ applied \in [Batches -> SUBSET (1..Size)] /\ session \in [Sessions -> Session]
  BY DEF AdaptersInv, AdaptersTypeOK, Call, Session
<1>2. durable \in SUBSET (1..Size)
  BY DEF Moves, CallSound, AdaptersParameters
<1>3. session' \in [Sessions -> Session]
  <2>1. CASE Keeps(b, call)
    BY <2>1 DEF Keeps
  <2>2. CASE Takes(b, call)
    BY <2>2, <1>1 DEF Takes, Session
  <2>3. CASE GivesBack(b, call)
    BY <2>3, <1>1 DEF GivesBack, Session
  <2>4. QED
    BY <2>1, <2>2, <2>3 DEF Moves
<1>4. QED
  BY <1>1, <1>2, <1>3 DEF Moves

LEMMA MoveHolds ==
  ASSUME AdaptersParameters, AdaptersInv, NEW b \in Batches, NEW call, NEW durable, Moves(b, call, durable)
  PROVE  SessionsAreHeld'
<1>1. /\ call \in Call /\ batch'[b] = call
      /\ \A c \in Batches \ {b} : batch'[c] = batch[c]
      /\ session \in [Sessions -> Session] /\ session' \in [Sessions -> Session]
      /\ batch \in [Batches -> Call]
  BY MoveTypes, OldCall DEF Moves
<1>2. /\ \A c \in Batches : /\ batch[c].pc \in InCall <=> batch[c].on \in Sessions
                            /\ batch[c].on \in Sessions => session[batch[c].on].state = "held"
      /\ \A c, d \in Batches : batch[c].on \in Sessions /\ batch[c].on = batch[d].on => c = d
      /\ \A s \in Sessions : IF session[s].state = "held" THEN \E c \in Batches : batch[c].on = s
                                                          ELSE session[s].open # "batch"
  BY DEF AdaptersInv, SessionsAreHeld
<1>3. NoSession \notin Sessions
  BY DEF AdaptersParameters
<1>4. CASE Keeps(b, call)
  <2>1. /\ \A c \in Batches : batch'[c].on = batch[c].on
        /\ \A c \in Batches : batch'[c].pc \in InCall <=> batch[c].pc \in InCall
        /\ \A s \in Sessions : session'[s].state = session[s].state
        /\ \A s \in Sessions : session'[s].state = "free" => session'[s].open # "batch"
    BY <1>1, <1>4 DEF Keeps
  <2>2. \A s \in Sessions : session'[s].state \in {"free", "held"}
    BY <1>1 DEF Session
  <2>3. QED
    BY <1>2, <2>1, <2>2 DEF SessionsAreHeld
<1>5. CASE Takes(b, call)
  <2>1. /\ call.on \in Sessions /\ call.pc \in InCall /\ session[call.on].state = "free"
        /\ session'[call.on].state = "held"
        /\ \A s \in Sessions \ {call.on} : session'[s] = session[s]
    BY <1>1, <1>5 DEF Takes, Session
  <2>2. \A c \in Batches \ {b} : batch[c].on # call.on
    BY <1>2, <2>1
  <2>3. \A c \in Batches : /\ batch'[c].pc \in InCall <=> batch'[c].on \in Sessions
                           /\ batch'[c].on \in Sessions => session'[batch'[c].on].state = "held"
    BY <1>1, <1>2, <2>1, <2>2
  <2>4. \A c, d \in Batches : batch'[c].on \in Sessions /\ batch'[c].on = batch'[d].on => c = d
    BY <1>1, <1>2, <2>2
  <2>5. ASSUME NEW s \in Sessions, session'[s].state = "held"
        PROVE  \E c \in Batches : batch'[c].on = s
    <3>1. CASE s = call.on
      BY <3>1, <1>1
    <3>2. CASE s # call.on
      <4>1. PICK c \in Batches : batch[c].on = s
        BY <3>2, <2>5, <2>1, <1>2
      <4>2. c # b
        BY <4>1, <1>5 DEF Takes
      <4>3. QED
        BY <4>1, <4>2, <1>1
    <3>3. QED
      BY <3>1, <3>2
  <2>6. \A s \in Sessions : session'[s].state # "held" => session'[s].open # "batch"
    BY <1>2, <2>1
  <2>7. QED
    BY <2>3, <2>4, <2>5, <2>6 DEF SessionsAreHeld
<1>6. CASE GivesBack(b, call)
  <2>1. /\ batch[b].on \in Sessions /\ call.on = NoSession /\ call.pc \notin InCall
        /\ session'[batch[b].on] = [state |-> "free", open |-> "nothing"]
        /\ \A s \in Sessions \ {batch[b].on} : session'[s] = session[s]
    BY <1>1, <1>6 DEF GivesBack
  <2>2. \A c \in Batches \ {b} : batch[c].on # batch[b].on
    BY <1>2, <2>1
  <2>3. \A c \in Batches : /\ batch'[c].pc \in InCall <=> batch'[c].on \in Sessions
                           /\ batch'[c].on \in Sessions => session'[batch'[c].on].state = "held"
    BY <1>1, <1>2, <1>3, <2>1, <2>2
  <2>4. \A c, d \in Batches : batch'[c].on \in Sessions /\ batch'[c].on = batch'[d].on => c = d
    BY <1>1, <1>2, <1>3, <2>1
  <2>5. ASSUME NEW s \in Sessions, session'[s].state = "held"
        PROVE  \E c \in Batches : batch'[c].on = s
    <3>1. s # batch[b].on
      BY <2>5, <2>1
    <3>2. PICK c \in Batches : batch[c].on = s
      BY <3>1, <2>5, <2>1, <1>2
    <3>3. QED
      BY <3>1, <3>2, <1>1
  <2>6. \A s \in Sessions : session'[s].state # "held" => session'[s].open # "batch"
    BY <1>2, <2>1
  <2>7. QED
    BY <2>3, <2>4, <2>5, <2>6 DEF SessionsAreHeld
<1>7. QED
  BY <1>4, <1>5, <1>6 DEF Moves

LEMMA MoveKeeps ==
  ASSUME AdaptersParameters, AdaptersInv, NEW b \in Batches, NEW call, NEW durable, Moves(b, call, durable)
  PROVE  AdaptersInv'
<1>1. UNCHANGED <<scene, driver, ends, edit, table, desc>>
  BY DEF Moves
<1>2. AdaptersTypeOK'
  BY <1>1, MoveTypes DEF AdaptersInv, AdaptersTypeOK, Call, Session, edit, desc
<1>3. SessionsAreHeld'
  BY MoveHolds
<1>4. BatchesInProgress'
  <2>1. \A c \in Batches : CallSound(batch'[c], ends[c], applied'[c])
    BY MoveTypes DEF Moves, AdaptersInv, BatchesInProgress
  <2>2. QED
    BY <1>1, <2>1 DEF BatchesInProgress, CallSound, Leaves, Commits, FailedAs
<1>5. QED
  BY <1>1, <1>2, <1>3, <1>4, TheRestStands DEF AdaptersInv

\* What a typed BEGIN leaves open is nobody's batch, and so it is when the pool
\* drops the session that has it.
LEMMA SessionStep ==
  ASSUME AdaptersParameters, AdaptersInv, NEW s \in Sessions, TypedBegin(s) \/ IdleBreaks(s)
  PROVE  AdaptersInv'
<1>1. PICK open \in {"typed", "nothing"} :
        /\ session' = [session EXCEPT ![s].open = open]
        /\ UNCHANGED <<scene, driver, batch, ends, applied, edit, table, desc>>
  BY DEF TypedBegin, IdleBreaks
<1>2. session \in [Sessions -> Session]
  BY DEF AdaptersInv, AdaptersTypeOK, Session
<1>3. /\ session' \in [Sessions -> Session]
      /\ \A t \in Sessions : session'[t].state = session[t].state
      /\ \A t \in Sessions : session[t].open # "batch" => session'[t].open # "batch"
  BY <1>1, <1>2 DEF Session
<1>4. AdaptersTypeOK'
  BY <1>1, <1>3 DEF AdaptersInv, AdaptersTypeOK, Session, edit, desc
<1>5. SessionsAreHeld'
  BY <1>1, <1>3 DEF AdaptersInv, SessionsAreHeld
<1>6. QED
  BY <1>1, <1>4, <1>5, TheRestStands, BatchesStand DEF AdaptersInv

-----------------------------------------------------------------------------
(***************************************************************************)
(* The row.                                                                *)
(***************************************************************************)
\* Whatever moves, what is said of a table is as it was.
LEMMA TheTableStands ==
  ASSUME AdaptersInv, UNCHANGED <<driver, table, desc>>
  PROVE  DescribeInProgress' /\ DescribedAtOnce'
  BY DEF AdaptersInv, desc, DescribeInProgress, DescribedAtOnce, LaidRight

LEMMA TheRowStands ==
  ASSUME AdaptersInv, UNCHANGED <<driver, edit>>
  PROVE  WriteInProgress' /\ OneRowOrAnError'
  BY DEF AdaptersInv, edit, WriteInProgress, OneRowOrAnError, FailedAs

\* An answer in a word, with what has become of the row, is the truth.
LEMMA RowIsTold ==
  ASSUME AdaptersParameters, AdaptersInv, driver' = driver,
         \/ /\ write'.answer = Says("query") /\ row'.changed = 0
         \/ /\ write'.answer = Says("ok") /\ write'.hit = 1 /\ (write'.lost \/ row'.changed = 1)
         \/ /\ write'.answer = Says("conflict") /\ (write'.hit = 0 => row'.changed = 0)
         \/ /\ FailedAs(write'.answer) /\ write'.hit = 0
  PROVE  WriteInProgress' /\ OneRowOrAnError'
<1>1. driver \in Drivers
  BY DEF AdaptersInv, AdaptersTypeOK
<1>2. FailedAs(write.answer)' <=> FailedAs(write'.answer)
  BY DEF FailedAs
<1>3. CASE FailedAs(write'.answer) /\ write'.hit = 0
  <2>1. /\ write'.answer \notin {Unanswered, Says("ok"), Says("conflict"), Says("query")}
        /\ write'.answer.says # "ok"
    BY <1>1, <1>3, FailedIs
  <2>2. QED
    BY <1>2, <1>3, <2>1 DEF WriteInProgress, OneRowOrAnError
<1>4. CASE ~FailedAs(write'.answer)
  BY <1>2, <1>4, SaysIs DEF WriteInProgress, OneRowOrAnError, Unanswered
<1>5. CASE FailedAs(write'.answer) /\ write'.hit # 0
  BY <1>1, <1>5, FailedIs
<1>6. QED
  BY <1>3, <1>4, <1>5

\* Nothing has been done for a write that has no answer.
LEMMA Unwritten ==
  ASSUME AdaptersInv, write.answer = Unanswered
  PROVE  /\ driver \in Drivers /\ row.changed = 0 /\ write.hit = 0
         /\ row \in [matching: 0..2, changed: 0..2]
         /\ write \in [answer: CallAnswer, hit: 0..2, lost: BOOLEAN]
  BY DEF AdaptersInv, AdaptersTypeOK, WriteInProgress

\* A step that concerns the row alone.
LEMMA RowOnly ==
  ASSUME AdaptersInv, UNCHANGED <<scene, driver, txn, table, desc>>,
         row' \in [matching: 0..2, changed: 0..2], write' \in [answer: CallAnswer, hit: 0..2, lost: BOOLEAN],
         WriteInProgress' /\ OneRowOrAnError'
  PROVE  AdaptersInv'
<1>1. AdaptersTypeOK'
  BY DEF AdaptersInv, AdaptersTypeOK, txn, desc
<1>2. SessionsAreHeld' /\ BatchesInProgress'
  BY SessionsStand, BatchesStand DEF txn
<1>3. QED
  BY <1>1, <1>2, TheTableStands DEF AdaptersInv

LEMMA RowStep ==
  ASSUME AdaptersParameters, AdaptersInv, PlanRefused \/ RowWritten \/ RowFails \/ OthersWrite
  PROVE  AdaptersInv'
<1>1. CASE PlanRefused
  <2>1. write' = [write EXCEPT !.answer = Says("query")] /\ row' = row
    BY <1>1 DEF PlanRefused
  <2>2. row'.changed = 0 /\ write'.answer = Says("query")
    BY <1>1, <2>1, Unwritten DEF PlanRefused
  <2>3. WriteInProgress' /\ OneRowOrAnError'
    BY <1>1, <2>2, RowIsTold DEF PlanRefused
  <2>4. write' \in [answer: CallAnswer, hit: 0..2, lost: BOOLEAN] /\ row' \in [matching: 0..2, changed: 0..2]
    BY <1>1, <2>1, Unwritten, SaysIs DEF PlanRefused
  <2>5. QED
    BY <1>1, <2>3, <2>4, RowOnly DEF PlanRefused
<1>2. CASE RowWritten
  <2>1. PICK lost \in BOOLEAN :
          /\ row' = [row EXCEPT !.changed = IF lost THEN @ ELSE row.matching]
          /\ write' = [answer |-> Gate(row.matching), hit |-> row.matching, lost |-> lost]
    BY <1>2 DEF RowWritten
  <2>2. /\ row'.matching = row.matching /\ row.matching \in 0..2
        /\ row'.changed = IF lost THEN 0 ELSE row.matching
        /\ row' \in [matching: 0..2, changed: 0..2]
    BY <1>2, <2>1, Unwritten DEF RowWritten
  <2>3. WriteInProgress' /\ OneRowOrAnError'
    <3>1. CASE row.matching = 1
      <4>1. write'.answer = Says("ok") /\ write'.hit = 1 /\ (write'.lost \/ row'.changed = 1)
        BY <2>1, <2>2, <3>1 DEF Gate
      <4>2. QED
        BY <1>2, <4>1, RowIsTold DEF RowWritten
    <3>2. CASE row.matching # 1
      <4>1. write'.answer = Says("conflict") /\ (write'.hit = 0 => row'.changed = 0)
        BY <2>1, <2>2, <3>2 DEF Gate
      <4>2. QED
        BY <1>2, <4>1, RowIsTold DEF RowWritten
    <3>3. QED
      BY <3>1, <3>2
  <2>4. write' \in [answer: CallAnswer, hit: 0..2, lost: BOOLEAN]
    BY <2>1, <2>2, SaysIs DEF Gate
  <2>5. QED
    BY <1>2, <2>2, <2>3, <2>4, RowOnly DEF RowWritten
<1>3. CASE RowFails
  <2>1. PICK f \in Failures :
          /\ write' = [write EXCEPT !.answer = Failed(Category(driver, f), f)]
          /\ row' \in {row} \cup (IF f \in Unheard THEN {[row EXCEPT !.changed = row.matching]} ELSE {})
    BY <1>3 DEF RowFails
  <2>2. FailedAs(Failed(Category(driver, f), f))
    BY DEF FailedAs
  <2>3. FailedAs(write'.answer) /\ write'.hit = 0 /\ write' \in [answer: CallAnswer, hit: 0..2, lost: BOOLEAN]
    BY <1>3, <2>1, <2>2, Unwritten, FailedIs DEF RowFails
  <2>4. row' \in [matching: 0..2, changed: 0..2]
    BY <1>3, <2>1, Unwritten DEF RowFails
  <2>5. WriteInProgress' /\ OneRowOrAnError'
    BY <1>3, <2>3, RowIsTold DEF RowFails
  <2>6. QED
    BY <1>3, <2>3, <2>4, <2>5, RowOnly DEF RowFails
<1>4. CASE OthersWrite
  <2>1. /\ write' = write /\ driver' = driver /\ row'.changed = row.changed
        /\ row' \in [matching: 0..2, changed: 0..2]
    BY <1>4, Unwritten DEF OthersWrite
  <2>2. WriteInProgress' /\ OneRowOrAnError'
    BY <2>1 DEF AdaptersInv, WriteInProgress, OneRowOrAnError, FailedAs
  <2>3. write' \in [answer: CallAnswer, hit: 0..2, lost: BOOLEAN]
    BY <1>4, <2>1, Unwritten DEF OthersWrite
  <2>4. QED
    BY <1>4, <2>1, <2>2, <2>3, RowOnly DEF OthersWrite
<1>5. QED
  BY <1>1, <1>2, <1>3, <1>4

-----------------------------------------------------------------------------
(***************************************************************************)
(* The table.                                                              *)
(***************************************************************************)
LEMMA TuplesAre ==
  ASSUME NEW S, NEW x \in S, NEW y \in S, NEW z \in S
  PROVE  <<x>> \in Seq(S) /\ <<x, y>> \in Seq(S) /\ <<x, y, z>> \in Seq(S)
  OBVIOUS

\* A table's names are names, and one that is dropped has no column.
LEMMA TableIs ==
  /\ \A t \in Shapes \cup {Dropped} : t.columns \in Seq(Names) /\ t.key \in Seq(Names)
  /\ \A t \in Shapes : t.columns # <<>> /\ [columns |-> t.columns, key |-> t.key] = t
  /\ Dropped.columns = <<>>
<1>1. \A t \in Shapes : /\ t.columns \in Seq(Names) /\ t.key \in Seq(Names)
                        /\ t.columns # <<>> /\ [columns |-> t.columns, key |-> t.key] = t
  <2> DEFINE one == [columns |-> <<"a", "b", "c">>, key |-> <<"b", "a">>]
             two == [columns |-> <<"c", "d">>, key |-> <<"d">>]
  <2>1. <<"a", "b", "c">> \in Seq(Names) /\ <<"b", "a">> \in Seq(Names)
    BY TuplesAre DEF Names
  <2>2. <<"c", "d">> \in Seq(Names) /\ <<"d">> \in Seq(Names)
    BY TuplesAre DEF Names
  <2>3. <<"a", "b", "c">> # <<>> /\ <<"c", "d">> # <<>>
    OBVIOUS
  <2>4. one.columns = <<"a", "b", "c">> /\ one.key = <<"b", "a">>
    OBVIOUS
  <2>5. two.columns = <<"c", "d">> /\ two.key = <<"d">>
    OBVIOUS
  <2>6. ASSUME NEW t, t = one \/ t = two
        PROVE  [columns |-> t.columns, key |-> t.key] = t
    BY <2>4, <2>5, <2>6
  <2>7. \A t \in Shapes : t = one \/ t = two
    BY DEF Shapes
  <2> HIDE DEF one, two
  <2>8. QED
    BY <2>1, <2>2, <2>3, <2>4, <2>5, <2>6, <2>7
<1>2. Dropped.columns = <<>> /\ Dropped.key = <<>>
  BY DEF Dropped
<1>3. <<>> \in Seq(Names)
  OBVIOUS
<1>4. QED
  BY <1>1, <1>2, <1>3

Description == [pc: {"idle", "key", "over"}, columns: Seq(Names), key: Seq(Names), answer: CallAnswer]

\* SQL the caller did not write does not change where a failure is laid.
LEMMA IntrospectionIs ==
  ASSUME AdaptersParameters, AdaptersInv, NEW f \in Failures, NEW call
  PROVE  /\ Failed(IntrospectionCategory(driver, call, f), f) \in CallAnswer
         /\ IntrospectionCategory(driver, call, f) \in {"query", "schema", "connection"}
         /\ LaidRight(Failed(IntrospectionCategory(driver, call, f), f))
<1>1. driver \in Drivers
  BY DEF AdaptersInv, AdaptersTypeOK
<1>2. /\ IntrospectionCategory(driver, call, f) \in {"query", "schema", "connection"}
      /\ f = "engine" => IntrospectionCategory(driver, call, f) # "connection"
      /\ f \in Surely(driver) => IntrospectionCategory(driver, call, f) = "connection"
  BY <1>1, CategoryOf DEF IntrospectionCategory
<1>3. QED
  BY <1>2 DEF Failed, CallAnswer, Categories, LaidRight

\* A step that concerns the table and its description alone.
LEMMA TableOnly ==
  ASSUME AdaptersInv, UNCHANGED <<scene, driver, txn, edit>>,
         table' \in Shapes \cup {Dropped}, describe' \in Description, altered' \in BOOLEAN,
         DescribeInProgress' /\ DescribedAtOnce'
  PROVE  AdaptersInv'
<1>1. AdaptersTypeOK'
  BY DEF AdaptersInv, AdaptersTypeOK, txn, edit, Description
<1>2. SessionsAreHeld' /\ BatchesInProgress'
  BY SessionsStand, BatchesStand DEF txn
<1>3. QED
  BY <1>1, <1>2, TheRowStands DEF AdaptersInv

LEMMA OldDescription ==
  ASSUME AdaptersInv
  PROVE  /\ describe \in Description /\ table \in Shapes \cup {Dropped} /\ altered \in BOOLEAN
         /\ DescribeInProgress /\ DescribedAtOnce
  BY DEF AdaptersInv, AdaptersTypeOK, Description

\* An own word about a table blames nobody.
LEMMA OwnWordOfATable == ASSUME describe'.answer.why = "own" PROVE LaidRight(describe.answer)'
  BY DEF LaidRight, Surely, Failures

\* A description over, with an answer that is not ok, says nothing of a table.
LEMMA NotDescribed ==
  ASSUME describe'.pc = "over", describe'.answer.says # "ok",
         LaidRight(describe.answer)'
  PROVE  DescribeInProgress' /\ DescribedAtOnce'
  BY DEF DescribeInProgress, DescribedAtOnce

LEMMA NoSuchTable ==
  ASSUME AdaptersParameters, AdaptersInv, describe' = [describe EXCEPT !.pc = "over", !.answer = Says("query")]
  PROVE  describe' \in Description /\ DescribeInProgress' /\ DescribedAtOnce'
<1>1. describe'.pc = "over" /\ describe'.answer = Says("query") /\ describe' \in Description
  BY OldDescription, SaysIs DEF Description
<1>2. LaidRight(describe.answer)'
  BY <1>1, SaysIs, OwnWordOfATable
<1>3. QED
  BY <1>1, <1>2, SaysIs, NotDescribed

LEMMA DescribeStep ==
  ASSUME AdaptersParameters, PragmaKeepsTheKey, AdaptersInv, Describes
  PROVE  AdaptersInv'
<1>1. CASE OthersAlter
  <2>1. /\ describe' = describe /\ driver' = driver /\ table' \in Shapes \cup {Dropped}
        /\ altered' = (altered \/ describe.pc = "key") /\ describe.pc # "over"
    BY <1>1 DEF OthersAlter
  <2>2. describe.answer = Unanswered
    BY <2>1, OldDescription DEF DescribeInProgress
  <2>3. DescribeInProgress' /\ DescribedAtOnce'
    BY <2>1, <2>2, OldDescription, SaysIs DEF DescribeInProgress, DescribedAtOnce, Unanswered, LaidRight
  <2>4. QED
    BY <1>1, <2>1, <2>3, OldDescription, TableOnly DEF OthersAlter
<1>2. CASE DescribeColumns
  <2>1. CASE table.columns = <<>>
    BY <1>2, <2>1, NoSuchTable, OldDescription, TableOnly DEF DescribeColumns
  <2>2. CASE table.columns # <<>>
    <3>1. /\ describe' = [describe EXCEPT !.pc = "key", !.columns = table.columns]
          /\ driver \in Pooled /\ describe.pc = "idle" /\ UNCHANGED <<driver, table, altered>>
      BY <1>2, <2>2 DEF DescribeColumns
    <3>2. table \in Shapes
      BY <2>2, OldDescription, TableIs
    <3>3. /\ describe'.pc = "key" /\ describe'.columns = table.columns
          /\ describe'.answer = describe.answer /\ describe' \in Description
      BY <3>1, OldDescription, TableIs DEF Description
    <3>4. describe.answer = Unanswered
      BY <3>1, OldDescription DEF DescribeInProgress
    <3>5. DescribeInProgress' /\ DescribedAtOnce'
      BY <3>1, <3>2, <3>3, <3>4, OldDescription, SaysIs
         DEF DescribeInProgress, DescribedAtOnce, Unanswered, LaidRight
    <3>6. QED
      BY <1>2, <3>3, <3>5, OldDescription, TableOnly DEF DescribeColumns
  <2>3. QED
    BY <2>1, <2>2
<1>3. CASE DescribeKey
  <2>1. /\ describe' = [describe EXCEPT !.pc = "over", !.key = table.key, !.answer = Says("ok")]
        /\ describe.pc = "key" /\ UNCHANGED <<driver, table, altered>>
    BY <1>3 DEF DescribeKey
  <2>2. driver \in Pooled /\ (altered \/ (table \in Shapes /\ describe.columns = table.columns))
    BY <2>1, OldDescription DEF DescribeInProgress
  <2>3. /\ describe'.pc = "over" /\ describe'.columns = describe.columns /\ describe'.key = table.key
        /\ describe'.answer = Says("ok") /\ describe' \in Description
    BY <2>1, OldDescription, TableIs, SaysIs DEF Description
  <2>4. DescribeInProgress'
    BY <2>3, SaysIs, OwnWordOfATable DEF DescribeInProgress
  <2>5. DescribedAtOnce'
    BY <2>1, <2>2, <2>3, TableIs DEF DescribedAtOnce
  <2>6. QED
    BY <1>3, <2>3, <2>4, <2>5, OldDescription, TableOnly DEF DescribeKey
<1>4. CASE DescribePragma
  <2>1. CASE table.columns = <<>>
    BY <1>4, <2>1, NoSuchTable, OldDescription, TableOnly DEF DescribePragma
  <2>2. CASE table.columns # <<>>
    <3>1. /\ describe' = [pc |-> "over", columns |-> table.columns, key |-> KeyFromPragma(Pragma(table)),
                          answer |-> Says("ok")]
          /\ UNCHANGED <<driver, table, altered>>
      BY <1>4, <2>2 DEF DescribePragma
    <3>2. table \in Shapes
      BY <2>2, OldDescription, TableIs
    <3>3. KeyFromPragma(Pragma(table)) = table.key
      BY <3>2 DEF PragmaKeepsTheKey
    <3>4. /\ describe'.pc = "over" /\ describe'.columns = table.columns /\ describe'.key = table.key
          /\ describe'.answer = Says("ok") /\ describe' \in Description
      BY <3>1, <3>2, <3>3, TableIs, SaysIs DEF Description
    <3>5. DescribeInProgress' /\ DescribedAtOnce'
      BY <3>2, <3>4, TableIs, SaysIs, OwnWordOfATable DEF DescribeInProgress, DescribedAtOnce
    <3>6. QED
      BY <1>4, <3>4, <3>5, OldDescription, TableOnly DEF DescribePragma
  <2>3. QED
    BY <2>1, <2>2
<1>5. CASE DescribeFails
  <2>1. PICK f \in Failures :
          describe' = [describe EXCEPT !.pc = "over",
                         !.answer = Failed(IntrospectionCategory(driver, "describeTable", f), f)]
    BY <1>5 DEF DescribeFails
  <2>2. /\ describe'.pc = "over" /\ describe' \in Description
        /\ describe'.answer = Failed(IntrospectionCategory(driver, "describeTable", f), f)
    BY <2>1, OldDescription, IntrospectionIs DEF Description
  <2>3. describe'.answer.says # "ok" /\ LaidRight(describe.answer)'
    BY <1>5, <2>2, IntrospectionIs DEF Failed, LaidRight, DescribeFails
  <2>4. QED
    BY <1>5, <2>2, <2>3, NotDescribed, OldDescription, TableOnly DEF DescribeFails
<1>6. QED
  BY <1>1, <1>2, <1>3, <1>4, <1>5 DEF Describes

-----------------------------------------------------------------------------
(***************************************************************************)
(* The theorems.                                                           *)
(***************************************************************************)
LEMMA AdaptersBegin ==
  ASSUME AdaptersParameters, AdaptersInit
  PROVE  AdaptersInv
<1>1. AdaptersTypeOK
  <2>1. 0 \in 0..Size /\ {} \in SUBSET (1..Size) /\ <<>> \in Seq(Names)
    BY DEF AdaptersParameters
  <2>2. /\ scene \in {"writes", "describes"} /\ driver \in Drivers
        /\ session \in [Sessions -> [state: {"free", "held"}, open: {"nothing", "typed", "batch"}]]
        /\ batch \in [Batches -> Call] /\ applied \in [Batches -> SUBSET (1..Size)]
        /\ ends \in [Batches -> SUBSET (1..Size)]
    BY <2>1, SaysIs DEF AdaptersInit, Call
  <2>3. row \in [matching: 0..2, changed: 0..2] /\ write \in [answer: CallAnswer, hit: 0..2, lost: BOOLEAN]
    BY SaysIs DEF AdaptersInit
  <2>4. table \in Shapes \cup {Dropped} /\ describe \in Description /\ altered \in BOOLEAN
    BY <2>1, SaysIs DEF AdaptersInit, Description
  <2>5. QED
    BY <2>2, <2>3, <2>4 DEF AdaptersTypeOK, Call, Description
<1>2. SessionsAreHeld
  BY DEF AdaptersInit, SessionsAreHeld, InCall, AdaptersParameters
<1>3. BatchesInProgress
  <2> SUFFICES ASSUME NEW b \in Batches PROVE CallSound(batch[b], ends[b], applied[b])
    BY DEF BatchesInProgress
  <2>1. /\ batch[b].pc = "idle" /\ batch[b].at = 0 /\ batch[b].answer = Unanswered /\ applied[b] = {}
        /\ driver \notin Pooled => ends[b] = {}
    BY DEF AdaptersInit
  <2>2. 0 \in 0..Size /\ ends[b] \in SUBSET (1..Size) /\ Size \in Nat /\ Commits \in BOOLEAN
    BY <1>1 DEF AdaptersTypeOK, AdaptersParameters, Commits
  <2>3. Standing(0, ends[b], Commits) = {} /\ applied[b] = 1..0
    BY <2>1, <2>2, StandingIs
  <2>4. Leaves(batch[b], ends[b], applied[b])
    BY <2>1, <2>2, <2>3, SaysIs DEF Leaves, Unanswered
  <2>5. QED
    BY <2>1, <2>2, <2>3, <2>4 DEF CallSound
<1>4. WriteInProgress /\ OneRowOrAnError
  BY SaysIs DEF AdaptersInit, WriteInProgress, OneRowOrAnError, Unanswered
<1>5. DescribeInProgress /\ DescribedAtOnce
  BY SaysIs, OwnIsLaidRight DEF AdaptersInit, DescribeInProgress, DescribedAtOnce, Unanswered
<1>6. QED
  BY <1>1, <1>2, <1>3, <1>4, <1>5 DEF AdaptersInv

LEMMA AdaptersStep ==
  ASSUME AdaptersParameters, PragmaKeepsTheKey, AdaptersInv, [AdaptersNext]_adapterVars
  PROVE  AdaptersInv'
<1>1. CASE UNCHANGED adapterVars
  <2>1. AdaptersTypeOK'
    BY <1>1 DEF AdaptersInv, AdaptersTypeOK, adapterVars
  <2>2. QED
    BY <1>1, <2>1, TheRestStands, BatchesStand, SessionsStand DEF AdaptersInv, adapterVars, txn, edit, desc
<1>2. CASE \E b \in Batches : BatchStep(b)
  BY <1>2, BatchMoves, MoveKeeps
<1>3. CASE \E s \in Sessions : TypedBegin(s) \/ IdleBreaks(s)
  BY <1>3, SessionStep
<1>4. CASE PlanRefused \/ RowWritten \/ RowFails \/ OthersWrite
  BY <1>4, RowStep
<1>5. CASE Describes
  BY <1>5, DescribeStep
<1>6. QED
  BY <1>1, <1>2, <1>3, <1>4, <1>5 DEF AdaptersNext, Writes

\* AdaptersInv is inductive.  PragmaKeepsTheKey speaks of constants only.
THEOREM AdaptersInvariant ==
  ASSUME AdaptersParameters, PragmaKeepsTheKey
  PROVE  AdaptersSpec => []AdaptersInv
<1>1. AdaptersInit => AdaptersInv
  BY AdaptersBegin
<1>2. AdaptersInv /\ [AdaptersNext]_adapterVars => AdaptersInv'
  BY AdaptersStep
<1>3. QED
  BY <1>1, <1>2, PTL DEF AdaptersSpec

\* However many batches share however few sessions, and whatever fails: no
\* session returns to the pool with a batch's transaction in it, and none is out
\* to two calls; a batch whose statements leave its transaction alone is in the
\* database whole or not at all, as its answer says; one that MySQL commits at a
\* statement of its own is a prefix of itself, and whole if it says so
\* (executeInTransaction of the pooled drivers, client.batch of libsql).
THEOREM BatchTheorem ==
  ASSUME AdaptersParameters, PragmaKeepsTheKey
  PROVE  AdaptersSpec => []BatchesAreWhole
<1>1. AdaptersInv => BatchesAreWhole
  <2> SUFFICES ASSUME AdaptersInv PROVE BatchesAreWhole
    OBVIOUS
  <2>1. BatchIsWhole
    <3>1. ASSUME NEW b \in Batches, batch[b].answer.says = "ok"
          PROVE  batch[b].answer = Says("ok")
      <4>1. /\ CallSound(batch[b], ends[b], applied[b])
            /\ batch[b].pc \in {"idle", "begin", "run", "rollback", "over"} /\ driver \in Drivers
        BY DEF AdaptersInv, AdaptersTypeOK, BatchesInProgress
      <4>2. ~FailedAs(batch[b].answer)
        BY <3>1, <4>1, FailedIs
      <4>3. QED
        BY <3>1, <4>1, <4>2, SaysIs DEF CallSound, Unanswered
    <3>2. \A b \in Batches : Leaves(batch[b], ends[b], applied[b])
      BY DEF AdaptersInv, BatchesInProgress, CallSound
    <3>3. QED
      BY <3>1, <3>2 DEF BatchIsWhole, Leaves
  <2>2. PoolIsClean
    <3>1. ASSUME NEW s \in Sessions, session[s].state = "held"
          PROVE  Cardinality({b \in Batches : batch[b].on = s}) = 1
      <4>1. PICK b \in Batches : batch[b].on = s
        BY <3>1 DEF AdaptersInv, SessionsAreHeld
      <4>2. {c \in Batches : batch[c].on = s} = {b}
        BY <4>1 DEF AdaptersInv, SessionsAreHeld
      <4>3. QED
        BY <4>2, FS_Singleton
    <3>2. QED
      BY <3>1 DEF PoolIsClean, AdaptersInv, SessionsAreHeld
  <2>3. QED
    BY <2>1, <2>2 DEF BatchesAreWhole, AdaptersInv
<1>2. QED
  BY <1>1, AdaptersInvariant, PTL

\* What a caller is told is so: a row written is the one row, a table described
\* is one the database had, and a failure is laid where the driver can tell it
\* belongs (UpdateRow, describeTable and translateError).
THEOREM AnswerTheorem ==
  ASSUME AdaptersParameters, PragmaKeepsTheKey
  PROVE  AdaptersSpec => []AnswersAreTrue
<1>1. AdaptersInv => AnswersAreTrue
  <2> SUFFICES ASSUME AdaptersInv PROVE AnswersAreTrue
    OBVIOUS
  <2>1. driver \in Drivers
    BY DEF AdaptersInv, AdaptersTypeOK
  <2>2. LaidRight(write.answer)
    BY <2>1, FailedIs, SaysIs, OwnIsLaidRight DEF AdaptersInv, WriteInProgress, Unanswered
  <2>3. LaidRight(describe.answer)
    BY DEF AdaptersInv, DescribeInProgress
  <2>4. ASSUME NEW b \in Batches
        PROVE  LaidRight(batch[b].answer)
    <3>1. /\ CallSound(batch[b], ends[b], applied[b])
          /\ batch[b].pc \in {"idle", "begin", "run", "rollback", "over"}
      BY DEF AdaptersInv, AdaptersTypeOK, BatchesInProgress
    <3>2. FailedAs(batch[b].answer) \/ batch[b].answer \in {Unanswered, Says("ok")}
      BY <3>1 DEF CallSound
    <3>3. QED
      BY <2>1, <3>2, FailedIs, SaysIs, OwnIsLaidRight DEF Unanswered
  <2>5. FailureIsLaidRight
    BY <2>2, <2>3, <2>4 DEF FailureIsLaidRight, Answers
  <2>6. QED
    BY <2>5 DEF AnswersAreTrue, AdaptersInv
<1>2. QED
  BY <1>1, AdaptersInvariant, PTL
=============================================================================
