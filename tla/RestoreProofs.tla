---------------------------- MODULE RestoreProofs ----------------------------
(***************************************************************************)
(* Proofs about Restore, for any scripts, any of the engines, any number   *)
(* of plans and runs, and patient and hasty users alike.                   *)
(***************************************************************************)
EXTENDS Restore, FiniteSetTheorems, TLAPS

(***************************************************************************)
(* Places and counts.                                                      *)
(***************************************************************************)
\* A script has so many statements to run.
LEMMA SizeIsNat == ASSUME NEW s \in Scripts PROVE Size(s) \in Nat
<1>1. Statements[s] \in Seq(Kind)
  BY RestoreAssumption
<1>2. IsFiniteSet(1..Len(Statements[s]))
  BY <1>1, FS_Interval
<1>3. Runnable(s) \subseteq 1..Len(Statements[s])
  BY <1>1 DEF Runnable
<1>4. QED
  BY <1>2, <1>3, FS_Subset, FS_CardinalityType DEF Size

\* How many statements have landed when those before the next may have.
LEMMA LandedCounts ==
  ASSUME NEW n \in Nat, NEW landed, landed \subseteq 1..n
  PROVE  /\ IsFiniteSet(landed) /\ Cardinality(landed) \in Nat /\ Cardinality(landed) <= n
         /\ Cardinality(landed \cup {n + 1}) = Cardinality(landed) + 1
<1>1. IsFiniteSet(1..n) /\ Cardinality(1..n) = n
  BY FS_Interval
<1>2. IsFiniteSet(landed) /\ Cardinality(landed) <= n
  BY <1>1, FS_Subset
<1>3. n + 1 \notin landed
  OBVIOUS
<1>4. QED
  BY <1>2, <1>3, FS_AddElement, FS_CardinalityType

\* What a batch leaves are its statements, whole where none ends its transaction.
LEMMA StandingBounds ==
  ASSUME NEW s, NEW done
  PROVE  /\ Standing(done, Ends(s), Commits) \subseteq 1..done
         /\ Ends(s) = {} => Standing(done, Ends(s), Commits) = {}
  BY DEF Standing

LEMMA ClosedBounds ==
  ASSUME NEW s
  PROVE  /\ AfterCommit(Size(s), Ends(s), Commits) \subseteq 1..Size(s)
         /\ Ends(s) = {} => AfterCommit(Size(s), Ends(s), Commits) = 1..Size(s)
  BY StandingBounds DEF AfterCommit

\* A place is one of the script's.
LEMMA PlacesBound ==
  ASSUME NEW s \in Scripts, NEW kinds, NEW m \in Places(s, kinds)
  PROVE  m \in Nat /\ m <= Size(s)
<1>1. IsFiniteSet(Runnable(s))
  <2>1. Statements[s] \in Seq(Kind)
    BY RestoreAssumption
  <2>2. IsFiniteSet(1..Len(Statements[s])) /\ Runnable(s) \subseteq 1..Len(Statements[s])
    BY <2>1, FS_Interval DEF Runnable
  <2>3. QED
    BY <2>2, FS_Subset
<1>2. PICK i : m = Cardinality({j \in Runnable(s) : j <= i})
  BY DEF Places, Place
<1>3. {j \in Runnable(s) : j <= i} \subseteq Runnable(s)
  OBVIOUS
<1>4. QED
  BY <1>1, <1>2, <1>3, FS_Subset, FS_CardinalityType DEF Size

\* A batch that is through is there, unless it has dropped itself.
LEMMA ClosedIsWhole ==
  ASSUME NEW s \in Scripts, ~DropsItself(s)
  PROVE  AfterCommit(Size(s), Ends(s), Commits) = 1..Size(s)
<1>1. CASE Ends(s) = {}
  BY <1>1, ClosedBounds
<1>2. CASE Ends(s) # {}
  <2>1. Commits
    BY <1>2 DEF DropsItself
  <2>2. PICK i \in Places(s, {"ddl", "lock"}) : i \in Ends(s)
    BY <1>2, <2>1 DEF Ends, Commits
  <2>3. i <= Size(s)
    BY <2>2, PlacesBound
  <2>4. AfterCommit(Size(s), Ends(s), Commits) = {m \in 1..Size(s) : TRUE}
    BY <1>2, <2>1, <2>2, <2>3, Zenon DEF AfterCommit, Standing
  <2>5. QED
    BY <2>4
<1>3. QED
  BY <1>1, <1>2

LEMMA LeftBounds ==
  ASSUME NEW run, NEW s, NEW done \in Nat, Size(s) \in Nat, done <= Size(s),
         NEW landed \in Left(done, Size(s), Ends(s), Commits, ~Known(run))
  PROVE  landed \subseteq 1..Size(s) /\ (Ends(s) = {} => landed \in {{}, 1..Size(s)})
<1>1. 1..done \subseteq 1..Size(s)
  OBVIOUS
<1>2. CASE landed = Standing(done, Ends(s), Commits)
  BY <1>1, <1>2, StandingBounds
<1>3. CASE landed = 1..done /\ Ends(s) # {}
  BY <1>1, <1>3
<1>4. CASE landed = AfterNext(done, Size(s), Ends(s), Commits)
  <2>1. CASE done = Size(s)
    BY <1>4, <2>1, ClosedBounds DEF AfterNext
  <2>2. CASE done # Size(s)
    <3>1. landed = Standing(done + 1, Ends(s), Commits)
      BY <1>4, <2>2 DEF AfterNext
    <3>2. 1..(done + 1) \subseteq 1..Size(s)
      BY <2>2
    <3>3. QED
      BY <3>1, <3>2, StandingBounds
  <2>3. QED
    BY <2>1, <2>2
<1>5. QED
  BY <1>2, <1>3, <1>4 DEF Left

LEMMA Counts == Cardinality({}) = 0 /\ \A n \in Nat : Cardinality(1..n) = n
  BY FS_EmptySet, FS_Interval

\* A run's fields.
LEMMA RunFields ==
  ASSUME NEW run \in Run
  PROVE  /\ run.script \in Scripts /\ run.confirmed \in BOOLEAN /\ run.onError \in {"stop", "continue"}
         /\ run.client \in {"waiting", "aborting", "gone", "answered"}
         /\ run.server \in {"preparing", "batch", "loop", "executing", "done", "failed"}
         /\ run.aborted \in BOOLEAN /\ run.cancelled \in BOOLEAN
         /\ run.next \in Nat /\ run.statementsRun \in Nat /\ run.failures \in Nat
         /\ run.informed \in BOOLEAN /\ run.found \in BOOLEAN /\ run.early \in BOOLEAN
         /\ run.before \in Nat
  BY DEF Run

\* What a run is in every state, and what a step of the server may make of it.
Typed(run) ==
  /\ run \in Run
  /\ run.landed \subseteq 1..Size(run.script) /\ run.next <= Size(run.script) + 1

Follows(r, run) ==
  /\ Typed(run) /\ Sound(run)
  /\ run.script = runs[r].script /\ run.client = runs[r].client
  /\ run.informed = runs[r].informed /\ run.found = runs[r].found
  /\ runs[r].server \notin {"done", "failed"}

-----------------------------------------------------------------------------
(***************************************************************************)
(* The server's steps, each on the run it is about.                        *)
(***************************************************************************)
\* Where a step of the server starts from.
LEMMA OldRun ==
  ASSUME RestoreInv, NEW r \in DOMAIN runs
  PROVE  LET old == runs[r] IN
         /\ Typed(old) /\ Sound(old) /\ (old.found => tables) /\ engine \in Engine
         /\ Size(old.script) \in Nat /\ Cardinality(old.landed) \in Nat
         /\ old.next \in Nat /\ old.statementsRun \in Nat /\ old.failures \in Nat
         /\ old.next - 1 \in Nat /\ (old.next - 1) + 1 = old.next
<1>1. Typed(runs[r]) /\ Sound(runs[r]) /\ (runs[r].found => tables) /\ engine \in Engine
  BY RestoreAssumption DEF RestoreInv, TypeOK, RunsInv, Typed
<1>2. /\ runs[r].script \in Scripts /\ runs[r].next \in Nat /\ runs[r].next >= 1
      /\ runs[r].statementsRun \in Nat /\ runs[r].failures \in Nat
  BY <1>1 DEF Typed, Run, Sound, Starts
<1>3. runs[r].next - 1 \in Nat /\ (runs[r].next - 1) + 1 = runs[r].next
  BY <1>2
<1>4. Size(runs[r].script) \in Nat /\ Cardinality(runs[r].landed) \in Nat
  BY <1>1, <1>2, SizeIsNat, LandedCounts DEF Typed
<1>5. QED
  BY <1>1, <1>2, <1>3, <1>4

\* A gate passed, the run takes the path its engine has.
LEMMA PrepareSound ==
  ASSUME RestoreInv, NEW r \in DOMAIN runs, Prepare(r)
  PROVE  \E run : Follows(r, run) /\ Becomes(r, run)
<1> DEFINE old == runs[r]
<1>1. /\ Typed(old) /\ Sound(old) /\ (old.found => tables) /\ engine \in Engine
      /\ Size(old.script) \in Nat /\ Cardinality(old.landed) \in Nat
      /\ old.next \in Nat /\ old.statementsRun \in Nat /\ old.failures \in Nat
      /\ old.next - 1 \in Nat /\ (old.next - 1) + 1 = old.next
  BY OldRun
<1>2. PICK run : /\ Becomes(r, run)
                 /\ \/ engine = "statement" /\ run = [old EXCEPT !.server = "loop"]
                    \/ /\ engine # "statement" /\ old.aborted
                       /\ run = [old EXCEPT !.server = "done", !.cancelled = TRUE]
                    \/ /\ engine # "statement" /\ ~old.aborted
                       /\ run = [old EXCEPT !.server = "batch"]
  BY DEF Prepare
<1>3. old.server = "preparing" /\ engine # "none" /\ (old.found => old.confirmed)
  BY <1>1 DEF Prepare
<1> HIDE DEF old
<1>4. /\ run.script = old.script /\ run.confirmed = old.confirmed
      /\ run.onError = old.onError /\ run.client = old.client
      /\ run.aborted = old.aborted /\ run.next = old.next
      /\ run.statementsRun = old.statementsRun /\ run.failures = old.failures
      /\ run.landed = old.landed /\ run.informed = old.informed /\ run.found = old.found
      /\ run.early = old.early /\ run.before = old.before
      /\ (engine = "statement" /\ run.server = "loop" /\ run.cancelled = old.cancelled)
         \/ (engine # "statement" /\ old.aborted /\ run.server = "done" /\ run.cancelled)
         \/ (/\ engine # "statement" /\ ~old.aborted
             /\ run.server = "batch" /\ run.cancelled = old.cancelled)
      /\ run.cancelled \in BOOLEAN
  BY <1>1, <1>2, ZenonT(40) DEF Typed, Run
<1>5. /\ run.next \in Nat /\ run.next >= 1 /\ run.statementsRun \in Nat /\ run.failures \in Nat
  BY <1>1, <1>4 DEF Sound, Starts
<1>6. Typed(run)
  <2>1. run.landed \subseteq 1..Size(old.script) /\ run.next <= Size(old.script) + 1
    BY <1>1, <1>3, <1>4, <1>5, SMTT(30) DEF Typed, Run, Sound, Starts, Looped
  <2>2. run.landed \in SUBSET (Nat \ {0})
    BY <1>1, <2>1
  <2>3. old \in Run
    BY <1>1 DEF Typed
  <2>4. run \in Run
    BY <1>1, <1>2, <1>3, <1>4, <1>5, <2>2, <2>3 DEF Run
  <2>5. QED
    BY <1>4, <2>1, <2>4 DEF Typed
<1>7. Starts(run)
  BY <1>1, <1>3, <1>4, <1>5 DEF Typed, Run, Sound, Starts, Looped, Engine
<1>8. Gated(run) /\ HungUp(run)
  BY <1>1, <1>3, <1>4, <1>5 DEF Typed, Run, Sound, Starts, Gated, HungUp
<1>9. Batched(run)
  BY <1>1, <1>3, <1>4, <1>5 DEF Typed, Run, Sound, Starts, Batched, HungUp
<1>10. Looped(run)
  BY <1>1, <1>3, <1>4, <1>5 DEF Typed, Run, Sound, Starts, HungUp, Looped
<1>11. QED
  BY <1>2, <1>3, <1>4, <1>6, <1>7, <1>8, <1>9, <1>10 DEF Follows, Sound, old

\* A hangup is heard, with so much landed.
LEMMA HearSound ==
  ASSUME RestoreInv, NEW r \in DOMAIN runs, HearHangup(r)
  PROVE  \E run : Follows(r, run) /\ Becomes(r, run)
<1> DEFINE old == runs[r]
<1>1. /\ Typed(old) /\ Sound(old) /\ (old.found => tables) /\ engine \in Engine
      /\ Size(old.script) \in Nat /\ Cardinality(old.landed) \in Nat
      /\ old.next \in Nat /\ old.statementsRun \in Nat /\ old.failures \in Nat
      /\ old.next - 1 \in Nat /\ (old.next - 1) + 1 = old.next
  BY OldRun
<1>2. PICK run : /\ Becomes(r, run)
                 /\ run = [old EXCEPT !.aborted = TRUE, !.early = old.server = "preparing",
                                      !.before = Cardinality(old.landed)]
  BY DEF HearHangup
<1>3. /\ old.server \notin {"done", "failed"} /\ ~old.aborted
      /\ old.client \in {"aborting", "gone"}
  BY <1>1 DEF HearHangup
<1> HIDE DEF old
<1>4. /\ run.script = old.script /\ run.confirmed = old.confirmed
      /\ run.onError = old.onError /\ run.client = old.client /\ run.server = old.server
      /\ run.cancelled = old.cancelled /\ run.next = old.next
      /\ run.statementsRun = old.statementsRun /\ run.failures = old.failures
      /\ run.landed = old.landed /\ run.informed = old.informed /\ run.found = old.found
      /\ run.aborted = TRUE
      /\ run.early = (old.server = "preparing")
      /\ run.before = Cardinality(old.landed)
  BY <1>1, <1>2 DEF Typed, Run
<1>5. /\ run.next \in Nat /\ run.next >= 1 /\ run.statementsRun \in Nat /\ run.failures \in Nat
  BY <1>1, <1>4 DEF Sound, Starts
<1>6. Typed(run)
  <2>1. run.landed \subseteq 1..Size(old.script) /\ run.next <= Size(old.script) + 1
    BY <1>1, <1>3, <1>4, <1>5 DEF Typed, Run, Sound, Starts, Looped
  <2>2. run.landed \in SUBSET (Nat \ {0})
    BY <1>1, <2>1
  <2>3. old \in Run
    BY <1>1 DEF Typed
  <2>4. run \in Run
    <3>1. Cardinality(old.landed) \in Nat /\ (old.server = "preparing") \in BOOLEAN
      BY <1>1
    <3>2. QED
      BY <1>2, <2>3, <3>1, ZenonT(60) DEF Run
  <2>5. QED
    BY <1>4, <2>1, <2>4 DEF Typed
<1>7. Starts(run)
  BY <1>1, <1>3, <1>4, <1>5 DEF Typed, Run, Sound, Starts, Looped, Engine
<1>8. Gated(run) /\ HungUp(run)
  BY <1>1, <1>3, <1>4, <1>5 DEF Typed, Run, Sound, Starts, Gated, HungUp
<1>9. Batched(run)
  BY <1>1, <1>3, <1>4, <1>5 DEF Typed, Run, Sound, Starts, Batched, HungUp
<1>10. Looped(run)
  BY <1>1, <1>3, <1>4, <1>5 DEF Typed, Run, Sound, Starts, HungUp, Looped
<1>11. QED
  BY <1>2, <1>3, <1>4, <1>6, <1>7, <1>8, <1>9, <1>10 DEF Follows, Sound, old

\* A gate is shut.
LEMMA RefuseSound ==
  ASSUME RestoreInv, NEW r \in DOMAIN runs, Refuse(r)
  PROVE  \E run : Follows(r, run) /\ Becomes(r, run)
<1> DEFINE old == runs[r]
<1>1. /\ Typed(old) /\ Sound(old) /\ (old.found => tables) /\ engine \in Engine
      /\ Size(old.script) \in Nat /\ Cardinality(old.landed) \in Nat
      /\ old.next \in Nat /\ old.statementsRun \in Nat /\ old.failures \in Nat
      /\ old.next - 1 \in Nat /\ (old.next - 1) + 1 = old.next
  BY OldRun
<1>2. PICK run : /\ Becomes(r, run)
                 /\ run = [old EXCEPT !.server = "failed"]
  BY DEF Refuse
<1>3. old.server = "preparing"
  BY <1>1 DEF Refuse
<1> HIDE DEF old
<1>4. /\ run.script = old.script /\ run.confirmed = old.confirmed
      /\ run.onError = old.onError /\ run.client = old.client
      /\ run.aborted = old.aborted /\ run.cancelled = old.cancelled
      /\ run.next = old.next /\ run.statementsRun = old.statementsRun
      /\ run.failures = old.failures /\ run.landed = old.landed
      /\ run.informed = old.informed /\ run.found = old.found /\ run.early = old.early
      /\ run.before = old.before
      /\ run.server = "failed"
  BY <1>1, <1>2 DEF Typed, Run
<1>5. /\ run.next \in Nat /\ run.next >= 1 /\ run.statementsRun \in Nat /\ run.failures \in Nat
  BY <1>1, <1>4 DEF Sound, Starts
<1>6. Typed(run)
  <2>1. run.landed \subseteq 1..Size(old.script) /\ run.next <= Size(old.script) + 1
    BY <1>1, <1>3, <1>4, <1>5 DEF Typed, Run, Sound, Starts, Looped
  <2>2. run.landed \in SUBSET (Nat \ {0})
    BY <1>1, <2>1
  <2>3. old \in Run
    BY <1>1 DEF Typed
  <2>4. run \in Run
    BY <1>1, <1>2, <1>3, <1>4, <1>5, <2>2, <2>3 DEF Run
  <2>5. QED
    BY <1>4, <2>1, <2>4 DEF Typed
<1>7. Starts(run)
  BY <1>1, <1>3, <1>4, <1>5 DEF Typed, Run, Sound, Starts, Looped, Engine
<1>8. Gated(run) /\ HungUp(run)
  BY <1>1, <1>3, <1>4, <1>5 DEF Typed, Run, Sound, Starts, Gated, HungUp
<1>9. Batched(run)
  BY <1>1, <1>3, <1>4, <1>5 DEF Typed, Run, Sound, Starts, Batched, HungUp
<1>10. Looped(run)
  BY <1>1, <1>3, <1>4, <1>5 DEF Typed, Run, Sound, Starts, HungUp, Looped
<1>11. QED
  BY <1>2, <1>3, <1>4, <1>6, <1>7, <1>8, <1>9, <1>10 DEF Follows, Sound, old

\* The next statement of a batch goes through.
LEMMA BatchStepSound ==
  ASSUME RestoreInv, NEW r \in DOMAIN runs, BatchStep(r)
  PROVE  \E run : Follows(r, run) /\ Becomes(r, run)
<1> DEFINE old == runs[r]
<1>1. /\ Typed(old) /\ Sound(old) /\ (old.found => tables) /\ engine \in Engine
      /\ Size(old.script) \in Nat /\ Cardinality(old.landed) \in Nat
      /\ old.next \in Nat /\ old.statementsRun \in Nat /\ old.failures \in Nat
      /\ old.next - 1 \in Nat /\ (old.next - 1) + 1 = old.next
  BY OldRun
<1>2. PICK run : /\ Becomes(r, run)
                 /\ run = [old EXCEPT !.landed = Standing(old.next, Ends(old.script), Commits),
                                      !.next = @ + 1]
  BY DEF BatchStep
<1>3. old.server = "batch" /\ old.next <= Size(old.script)
  BY <1>1 DEF BatchStep
<1> HIDE DEF old
<1>4. /\ run.script = old.script /\ run.confirmed = old.confirmed
      /\ run.onError = old.onError /\ run.client = old.client /\ run.server = old.server
      /\ run.aborted = old.aborted /\ run.cancelled = old.cancelled
      /\ run.statementsRun = old.statementsRun /\ run.failures = old.failures
      /\ run.informed = old.informed /\ run.found = old.found /\ run.early = old.early
      /\ run.before = old.before
      /\ run.landed = Standing(old.next, Ends(old.script), Commits)
      /\ run.next = old.next + 1
  BY <1>1, <1>2 DEF Typed, Run
<1>5. /\ run.next \in Nat /\ run.next >= 1 /\ run.statementsRun \in Nat /\ run.failures \in Nat
      /\ run.next - 1 = old.next
  BY <1>1, <1>4 DEF Sound, Starts
<1>6. Typed(run)
  <2>1. run.landed \subseteq 1..Size(old.script) /\ run.next <= Size(old.script) + 1
    <3>1. /\ old.landed \subseteq 1..Size(old.script) /\ Size(old.script) \in Nat
          /\ old.next <= Size(old.script) /\ old.next \in Nat
      BY <1>1, <1>3, <1>5 DEF Typed, Run, Sound, Starts, Looped
    <3>2. run.landed \subseteq 1..old.next
      BY <1>4, StandingBounds
    <3>3. QED
      BY <1>4, <3>1, <3>2
  <2>2. run.landed \in SUBSET (Nat \ {0})
    BY <1>1, <2>1
  <2>3. old \in Run
    BY <1>1 DEF Typed
  <2>4. run \in Run
    BY <1>1, <1>2, <1>3, <1>4, <1>5, <2>2, <2>3 DEF Run
  <2>5. QED
    BY <1>4, <2>1, <2>4 DEF Typed
<1>7. Starts(run)
  <2>1. run.landed \subseteq 1..(run.next - 1)
    BY <1>4, <1>5, StandingBounds
  <2>2. QED
    BY <1>1, <1>3, <1>4, <1>5, <2>1 DEF Sound, Starts, Engine
<1>8. Gated(run) /\ HungUp(run)
  BY <1>1, <1>3, <1>4, <1>5 DEF Typed, Run, Sound, Starts, Gated, HungUp
<1>9. Batched(run)
  BY <1>1, <1>3, <1>4, <1>5 DEF Typed, Run, Sound, Starts, Batched, HungUp
<1>10. Looped(run)
  BY <1>1, <1>3, <1>4, <1>5 DEF Typed, Run, Sound, Starts, HungUp, Looped
<1>11. QED
  BY <1>2, <1>3, <1>4, <1>6, <1>7, <1>8, <1>9, <1>10 DEF Follows, Sound, old

\* A batch commits.
LEMMA BatchCommitsSound ==
  ASSUME RestoreInv, NEW r \in DOMAIN runs, BatchCommits(r)
  PROVE  \E run : Follows(r, run) /\ Becomes(r, run)
<1> DEFINE old == runs[r]
<1>1. /\ Typed(old) /\ Sound(old) /\ (old.found => tables) /\ engine \in Engine
      /\ Size(old.script) \in Nat /\ Cardinality(old.landed) \in Nat
      /\ old.next \in Nat /\ old.statementsRun \in Nat /\ old.failures \in Nat
      /\ old.next - 1 \in Nat /\ (old.next - 1) + 1 = old.next
  BY OldRun
<1>2. PICK run : /\ Becomes(r, run)
                 /\ run = [old EXCEPT !.server = "done",
                                      !.landed = AfterCommit(Size(old.script), Ends(old.script), Commits),
                                      !.statementsRun = Size(old.script)]
  BY DEF BatchCommits
<1>3. old.server = "batch" /\ old.next > Size(old.script) 
  BY <1>1 DEF BatchCommits
<1> HIDE DEF old
<1>4. /\ run.script = old.script /\ run.confirmed = old.confirmed
      /\ run.onError = old.onError /\ run.client = old.client
      /\ run.aborted = old.aborted /\ run.cancelled = old.cancelled
      /\ run.next = old.next /\ run.failures = old.failures
      /\ run.informed = old.informed /\ run.found = old.found /\ run.early = old.early
      /\ run.before = old.before
      /\ run.server = "done"
      /\ run.landed = AfterCommit(Size(old.script), Ends(old.script), Commits)
      /\ run.statementsRun = Size(old.script)
  BY <1>1, <1>2 DEF Typed, Run
<1>5. /\ run.next \in Nat /\ run.next >= 1 /\ run.statementsRun \in Nat /\ run.failures \in Nat
      /\ run.next - 1 = Size(old.script)
  BY <1>1, <1>3, <1>4 DEF Typed, Sound, Starts
<1>6. Typed(run)
  <2>1. run.landed \subseteq 1..Size(old.script) /\ run.next <= Size(old.script) + 1
    BY <1>1, <1>4, <1>5, ClosedBounds
  <2>2. run.landed \in SUBSET (Nat \ {0})
    BY <1>1, <2>1
  <2>3. old \in Run
    BY <1>1 DEF Typed
  <2>4. run \in Run
    BY <1>1, <1>2, <1>3, <1>4, <1>5, <2>2, <2>3 DEF Run
  <2>5. QED
    BY <1>4, <2>1, <2>4 DEF Typed
<1>7. Starts(run)
  <2>1. run.landed \subseteq 1..(run.next - 1)
    BY <1>4, <1>5, ClosedBounds
  <2>2. QED
    BY <1>1, <1>3, <1>4, <1>5, <2>1 DEF Sound, Starts, Engine
<1>8. Gated(run) /\ HungUp(run)
  BY <1>1, <1>3, <1>4, <1>5 DEF Typed, Run, Sound, Starts, Gated, HungUp
<1>9. Batched(run)
  BY <1>1, <1>3, <1>4, <1>5 DEF Typed, Run, Sound, Starts, Batched, HungUp
<1>10. Looped(run)
  BY <1>1, <1>3, <1>4, <1>5 DEF Typed, Run, Sound, Starts, HungUp, Looped
<1>11. QED
  BY <1>2, <1>3, <1>4, <1>6, <1>7, <1>8, <1>9, <1>10 DEF Follows, Sound, old

\* A batch fails, before its COMMIT or around it.
LEMMA BatchFailsSound ==
  ASSUME RestoreInv, NEW r \in DOMAIN runs, BatchFails(r)
  PROVE  \E run : Follows(r, run) /\ Becomes(r, run)
<1> DEFINE old == runs[r]
<1>1. /\ Typed(old) /\ Sound(old) /\ (old.found => tables) /\ engine \in Engine
      /\ Size(old.script) \in Nat /\ Cardinality(old.landed) \in Nat
      /\ old.next \in Nat /\ old.statementsRun \in Nat /\ old.failures \in Nat
      /\ old.next - 1 \in Nat /\ (old.next - 1) + 1 = old.next
  BY OldRun
<1>2. PICK run : /\ Becomes(r, run)
                 /\ \E landed \in Left(old.next - 1, Size(old.script), Ends(old.script), Commits,
                                      ~Known(old)) :
                      run = [old EXCEPT !.server = "failed", !.landed = landed]
  BY DEF BatchFails
<1>3. old.server = "batch" 
  BY <1>1 DEF BatchFails
<1> HIDE DEF old
<1>4. /\ run.script = old.script /\ run.confirmed = old.confirmed
      /\ run.onError = old.onError /\ run.client = old.client
      /\ run.aborted = old.aborted /\ run.cancelled = old.cancelled
      /\ run.next = old.next /\ run.statementsRun = old.statementsRun
      /\ run.failures = old.failures /\ run.informed = old.informed
      /\ run.found = old.found /\ run.early = old.early /\ run.before = old.before
      /\ run.server = "failed"
      /\ run.landed \in Left(old.next - 1, Size(old.script), Ends(old.script), Commits, ~Known(old))
  BY <1>1, <1>2 DEF Typed, Run
<1>5. /\ run.next \in Nat /\ run.next >= 1 /\ run.statementsRun \in Nat /\ run.failures \in Nat
  BY <1>1, <1>4 DEF Sound, Starts
<1>6. Typed(run)
  <2>1. run.landed \subseteq 1..Size(old.script) /\ run.next <= Size(old.script) + 1
    <3>1. old.next - 1 <= Size(old.script)
      BY <1>1 DEF Typed
    <3>2. QED
      BY <1>1, <1>4, <3>1, LeftBounds DEF Typed
  <2>2. run.landed \in SUBSET (Nat \ {0})
    BY <1>1, <2>1
  <2>3. old \in Run
    BY <1>1 DEF Typed
  <2>4. run \in Run
    BY <1>1, <1>2, <1>3, <1>4, <1>5, <2>2, <2>3 DEF Run
  <2>5. QED
    BY <1>4, <2>1, <2>4 DEF Typed
<1>7. Starts(run)
  BY <1>1, <1>3, <1>4, <1>5 DEF Typed, Run, Sound, Starts, Looped, Engine
<1>8. Gated(run) /\ HungUp(run)
  BY <1>1, <1>3, <1>4, <1>5 DEF Typed, Run, Sound, Starts, Gated, HungUp
<1>9. Batched(run)
  <2>1. old.next - 1 <= Size(old.script)
    BY <1>1 DEF Typed
  <2>2. Ends(old.script) = {} => run.landed \in {{}, 1..Size(old.script)}
    <3>1. /\ run.landed \subseteq 1..Size(old.script)
          /\ Ends(old.script) = {} => run.landed \in {{}, 1..Size(old.script)}
      BY <1>1, <1>4, <2>1, LeftBounds DEF Typed
    <3>2. QED
      BY <3>1
  <2>3. run.script = old.script /\ run.failures = old.failures /\ run.server = "failed"
    BY <1>4
  <2>4. engine # "statement" => run.failures = 0
    BY <1>1, <2>3 DEF Sound, Batched
  <2>5. QED
    BY <2>2, <2>3, <2>4 DEF Batched
<1>10. Looped(run)
  BY <1>1, <1>3, <1>4, <1>5 DEF Typed, Run, Sound, Starts, HungUp, Looped
<1>11. QED
  BY <1>2, <1>3, <1>4, <1>6, <1>7, <1>8, <1>9, <1>10 DEF Follows, Sound, old

\* The top of the loop.
LEMMA LoopSound ==
  ASSUME RestoreInv, NEW r \in DOMAIN runs, Loop(r)
  PROVE  \E run : Follows(r, run) /\ Becomes(r, run)
<1> DEFINE old == runs[r]
<1>1. /\ Typed(old) /\ Sound(old) /\ (old.found => tables) /\ engine \in Engine
      /\ Size(old.script) \in Nat /\ Cardinality(old.landed) \in Nat
      /\ old.next \in Nat /\ old.statementsRun \in Nat /\ old.failures \in Nat
      /\ old.next - 1 \in Nat /\ (old.next - 1) + 1 = old.next
  BY OldRun
<1>2. PICK run : /\ Becomes(r, run)
                 /\ \/ /\ old.next > Size(old.script)
                       /\ run = [old EXCEPT !.server = "done"]
                    \/ /\ old.next <= Size(old.script) /\ old.aborted
                       /\ run = [old EXCEPT !.server = "done", !.cancelled = TRUE]
                    \/ /\ old.next <= Size(old.script) /\ ~old.aborted
                       /\ run = [old EXCEPT !.server = "executing"]
  BY <1>1, RunFields DEF Loop
<1>3. old.server = "loop" 
  BY <1>1 DEF Loop
<1> HIDE DEF old
<1>4. /\ run.script = old.script /\ run.confirmed = old.confirmed
      /\ run.onError = old.onError /\ run.client = old.client
      /\ run.aborted = old.aborted /\ run.next = old.next
      /\ run.statementsRun = old.statementsRun /\ run.failures = old.failures
      /\ run.landed = old.landed /\ run.informed = old.informed /\ run.found = old.found
      /\ run.early = old.early /\ run.before = old.before
      /\ (old.next > Size(old.script) /\ run.server = "done" /\ run.cancelled = old.cancelled)
         \/ (old.aborted /\ run.server = "done" /\ run.cancelled)
         \/ (/\ old.next <= Size(old.script) /\ ~old.aborted
             /\ run.server = "executing" /\ run.cancelled = old.cancelled)
      /\ run.cancelled \in BOOLEAN
  BY <1>1, <1>2, ZenonT(40) DEF Typed, Run
<1>5. /\ run.next \in Nat /\ run.next >= 1 /\ run.statementsRun \in Nat /\ run.failures \in Nat
  BY <1>1, <1>4 DEF Sound, Starts
<1>6. Typed(run)
  <2>1. run.landed \subseteq 1..Size(old.script) /\ run.next <= Size(old.script) + 1
    BY <1>1, <1>3, <1>4, <1>5 DEF Typed, Run, Sound, Starts, Looped
  <2>2. run.landed \in SUBSET (Nat \ {0})
    BY <1>1, <2>1
  <2>3. old \in Run
    BY <1>1 DEF Typed
  <2>4. run \in Run
    BY <1>1, <1>2, <1>3, <1>4, <1>5, <2>2, <2>3 DEF Run
  <2>5. QED
    BY <1>4, <2>1, <2>4 DEF Typed
<1>7. Starts(run)
  BY <1>1, <1>3, <1>4, <1>5 DEF Typed, Run, Sound, Starts, Looped, Engine
<1>8. Gated(run) /\ HungUp(run)
  BY <1>1, <1>3, <1>4, <1>5 DEF Typed, Run, Sound, Starts, Gated, HungUp
<1>9. Batched(run)
  BY <1>1, <1>3, <1>4, <1>5 DEF Typed, Run, Sound, Starts, Batched, HungUp
<1>10. Looped(run)
  BY <1>1, <1>3, <1>4, <1>5 DEF Typed, Run, Sound, Starts, HungUp, Looped
<1>11. QED
  BY <1>2, <1>3, <1>4, <1>6, <1>7, <1>8, <1>9, <1>10 DEF Follows, Sound, old

\* A statement has run.
LEMMA RunsSound ==
  ASSUME RestoreInv, NEW r \in DOMAIN runs, StatementRuns(r)
  PROVE  \E run : Follows(r, run) /\ Becomes(r, run)
<1> DEFINE old == runs[r]
<1>1. /\ Typed(old) /\ Sound(old) /\ (old.found => tables) /\ engine \in Engine
      /\ Size(old.script) \in Nat /\ Cardinality(old.landed) \in Nat
      /\ old.next \in Nat /\ old.statementsRun \in Nat /\ old.failures \in Nat
      /\ old.next - 1 \in Nat /\ (old.next - 1) + 1 = old.next
  BY OldRun
<1>2. PICK run : /\ Becomes(r, run)
                 /\ run = [old EXCEPT !.server = "loop", !.next = @ + 1,
                                      !.statementsRun = @ + 1, !.landed = @ \cup {old.next}]
  BY DEF StatementRuns
<1>3. old.server = "executing"
  BY <1>1 DEF StatementRuns
<1> HIDE DEF old
<1>4. /\ run.script = old.script /\ run.confirmed = old.confirmed
      /\ run.onError = old.onError /\ run.client = old.client
      /\ run.aborted = old.aborted /\ run.cancelled = old.cancelled
      /\ run.failures = old.failures /\ run.informed = old.informed
      /\ run.found = old.found /\ run.early = old.early /\ run.before = old.before
      /\ run.server = "loop"
      /\ run.next = old.next + 1
      /\ run.statementsRun = old.statementsRun + 1
      /\ run.landed = old.landed \cup {old.next}
  BY <1>1, <1>2 DEF Typed, Run
<1>5. /\ run.next \in Nat /\ run.next >= 1 /\ run.statementsRun \in Nat /\ run.failures \in Nat
      /\ run.next - 1 = old.next
  BY <1>1, <1>4 DEF Sound, Starts
<1>6. /\ engine = "statement" /\ old.next <= Size(old.script)
      /\ old.landed \subseteq 1..old.next /\ old.landed \cup {old.next} \subseteq 1..old.next
      /\ old.failures = 0 => old.landed = 1..(old.next - 1)
                             /\ old.landed \cup {old.next} = 1..old.next
      /\ Cardinality(old.landed) \in Nat
      /\ Cardinality(old.landed \cup {old.next}) = Cardinality(old.landed) + 1
  <2>1. engine = "statement" /\ old.next <= Size(old.script)
    BY <1>1, <1>3 DEF Sound, Starts, Looped
  <2>2. old.landed \subseteq 1..(old.next - 1) /\ old.next >= 1
    BY <1>1, <1>3 DEF Sound, Starts
  <2>3. old.failures = 0 => old.landed = 1..(old.next - 1)
    BY <1>1, <2>1 DEF Sound, Looped
  <2>4. (1..(old.next - 1)) \cup {old.next} = 1..old.next
    BY <1>1, <2>2
  <2>5. QED
    BY <1>1, <2>1, <2>2, <2>3, <2>4, LandedCounts
<1>7. Typed(run)
  <2>1. run.landed \subseteq 1..Size(old.script) /\ run.next <= Size(old.script) + 1
    BY <1>1, <1>4, <1>6, SMTT(30)
  <2>2. run.landed \in SUBSET (Nat \ {0})
    BY <1>1, <2>1
  <2>3. old \in Run
    BY <1>1 DEF Typed
  <2>4. run \in Run
    BY <1>1, <1>2, <1>3, <1>4, <1>5, <2>2, <2>3 DEF Run
  <2>5. QED
    BY <1>4, <2>1, <2>4 DEF Typed
<1>8. Starts(run)
  BY <1>1, <1>3, <1>4, <1>5, <1>6 DEF Typed, Run, Sound, Starts, Looped, Engine
<1>9. Gated(run) /\ HungUp(run)
  BY <1>1, <1>3, <1>4, <1>5, <1>6 DEF Typed, Run, Sound, Starts, Gated, HungUp
<1>10. Batched(run)
  BY <1>1, <1>3, <1>4, <1>5, <1>6 DEF Typed, Run, Sound, Starts, Batched, HungUp
<1>11. Looped(run)
  <2>1. /\ old.statementsRun + old.failures = old.next - 1
        /\ old.statementsRun <= Cardinality(old.landed)
        /\ old.onError = "stop" => old.failures = 0
        /\ old.aborted => Cardinality(old.landed) <= old.before
        /\ old.before \in Nat
    BY <1>1, <1>3, <1>6 DEF Typed, Run, Sound, Looped
  <2>2. Cardinality(run.landed) = Cardinality(old.landed) + 1
    BY <1>4, <1>6
  <2>3. run.statementsRun + run.failures = run.next - 1
    <3>1. run.statementsRun + run.failures = (old.statementsRun + old.failures) + 1
      BY <1>1, <1>4
    <3>2. QED
      BY <1>1, <1>5, <2>1, <3>1
  <2>4. run.statementsRun <= Cardinality(run.landed)
    BY <1>1, <1>4, <1>6, <2>1, <2>2
  <2>5. old.failures = 0 => old.statementsRun = old.next - 1 /\ old.statementsRun + 1 = old.next
    BY <1>1, <2>1
  <2>6. run.failures = 0 => run.landed = 1..(run.next - 1)
    BY <1>1, <1>4, <1>6, <1>5
  <2>7. run.onError = "stop" =>
          \/ run.failures = 0
          \/ run.failures = 1 /\ run.server = "done"
             /\ run.landed \in {1..run.statementsRun, 1..(run.statementsRun + 1)}
    BY <1>1, <1>4, <1>6, <1>5, <2>1, <2>5
  <2>8. run.server = "done" /\ ~run.cancelled => run.failures > 0
    BY <1>1, <1>4
  <2>9. run.aborted => Cardinality(run.landed) <= run.before + 1
    BY <1>4, <1>6, <2>1, <2>2
  <2>10. QED
    BY <1>4, <2>4, <2>6, <2>7, <2>8, <2>9, <2>3 DEF Looped
<1>12. QED
  BY <1>2, <1>3, <1>4, <1>7, <1>8, <1>9, <1>10, <1>11 DEF Follows, Sound, old

\* A statement has failed, or its answer was lost.
LEMMA FailsSound ==
  ASSUME RestoreInv, NEW r \in DOMAIN runs, StatementFails(r)
  PROVE  \E run : Follows(r, run) /\ Becomes(r, run)
<1> DEFINE old == runs[r]
<1>1. /\ Typed(old) /\ Sound(old) /\ (old.found => tables) /\ engine \in Engine
      /\ Size(old.script) \in Nat /\ Cardinality(old.landed) \in Nat
      /\ old.next \in Nat /\ old.statementsRun \in Nat /\ old.failures \in Nat
      /\ old.next - 1 \in Nat /\ (old.next - 1) + 1 = old.next
  BY OldRun
<1>2. PICK run : /\ Becomes(r, run)
                 /\ \E landed \in {old.landed, old.landed \cup {old.next}} :
                      run = [old EXCEPT !.server = IF old.onError = "stop" THEN "done" ELSE "loop",
                                        !.next = @ + 1, !.failures = @ + 1, !.landed = landed]
  BY DEF StatementFails
<1>3. old.server = "executing"
  BY <1>1 DEF StatementFails
<1> HIDE DEF old
<1>4. /\ run.script = old.script /\ run.confirmed = old.confirmed
      /\ run.onError = old.onError /\ run.client = old.client
      /\ run.aborted = old.aborted /\ run.cancelled = old.cancelled
      /\ run.statementsRun = old.statementsRun /\ run.informed = old.informed
      /\ run.found = old.found /\ run.early = old.early /\ run.before = old.before
      /\ run.server = (IF old.onError = "stop" THEN "done" ELSE "loop")
      /\ run.next = old.next + 1
      /\ run.failures = old.failures + 1
      /\ run.landed \in {old.landed, old.landed \cup {old.next}}
  BY <1>1, <1>2 DEF Typed, Run
<1>5. /\ run.next \in Nat /\ run.next >= 1 /\ run.statementsRun \in Nat /\ run.failures \in Nat
      /\ run.next - 1 = old.next
  BY <1>1, <1>4 DEF Sound, Starts
<1>6. /\ engine = "statement" /\ old.next <= Size(old.script)
      /\ old.landed \subseteq 1..old.next /\ old.landed \cup {old.next} \subseteq 1..old.next
      /\ old.failures = 0 => old.landed = 1..(old.next - 1)
                             /\ old.landed \cup {old.next} = 1..old.next
      /\ Cardinality(old.landed) \in Nat
      /\ Cardinality(old.landed \cup {old.next}) = Cardinality(old.landed) + 1
  <2>1. engine = "statement" /\ old.next <= Size(old.script)
    BY <1>1, <1>3 DEF Sound, Starts, Looped
  <2>2. old.landed \subseteq 1..(old.next - 1) /\ old.next >= 1
    BY <1>1, <1>3 DEF Sound, Starts
  <2>3. old.failures = 0 => old.landed = 1..(old.next - 1)
    BY <1>1, <2>1 DEF Sound, Looped
  <2>4. (1..(old.next - 1)) \cup {old.next} = 1..old.next
    BY <1>1, <2>2
  <2>5. QED
    BY <1>1, <2>1, <2>2, <2>3, <2>4, LandedCounts
<1>7. Typed(run)
  <2>1. run.landed \subseteq 1..Size(old.script) /\ run.next <= Size(old.script) + 1
    BY <1>1, <1>4, <1>6, SMTT(30)
  <2>2. run.landed \in SUBSET (Nat \ {0})
    BY <1>1, <2>1
  <2>3. old \in Run
    BY <1>1 DEF Typed
  <2>4. run \in Run
    BY <1>1, <1>2, <1>3, <1>4, <1>5, <2>2, <2>3 DEF Run
  <2>5. QED
    BY <1>4, <2>1, <2>4 DEF Typed
<1>8. Starts(run)
  BY <1>1, <1>3, <1>4, <1>5, <1>6 DEF Typed, Run, Sound, Starts, Looped, Engine
<1>9. Gated(run) /\ HungUp(run)
  BY <1>1, <1>3, <1>4, <1>5, <1>6 DEF Typed, Run, Sound, Starts, Gated, HungUp
<1>10. Batched(run)
  BY <1>1, <1>3, <1>4, <1>5, <1>6 DEF Typed, Run, Sound, Starts, Batched, HungUp
<1>11. Looped(run)
  <2>1. /\ old.statementsRun + old.failures = old.next - 1
        /\ old.statementsRun <= Cardinality(old.landed)
        /\ old.onError = "stop" => old.failures = 0
        /\ old.aborted => Cardinality(old.landed) <= old.before
        /\ old.before \in Nat
    BY <1>1, <1>3, <1>6 DEF Typed, Run, Sound, Looped
  <2>2. Cardinality(run.landed) \in {Cardinality(old.landed), Cardinality(old.landed) + 1}
    BY <1>4, <1>6
  <2>3. run.statementsRun + run.failures = run.next - 1
    <3>1. run.statementsRun + run.failures = (old.statementsRun + old.failures) + 1
      BY <1>1, <1>4
    <3>2. QED
      BY <1>1, <1>5, <2>1, <3>1
  <2>4. run.statementsRun <= Cardinality(run.landed)
    BY <1>1, <1>4, <1>6, <2>1, <2>2
  <2>5. old.failures = 0 => old.statementsRun = old.next - 1 /\ old.statementsRun + 1 = old.next
    BY <1>1, <2>1
  <2>6. run.failures = 0 => run.landed = 1..(run.next - 1)
    BY <1>1, <1>4, <1>6, <1>5
  <2>7. run.onError = "stop" =>
          \/ run.failures = 0
          \/ run.failures = 1 /\ run.server = "done"
             /\ run.landed \in {1..run.statementsRun, 1..(run.statementsRun + 1)}
    <3>1. SUFFICES ASSUME run.onError = "stop"
                   PROVE  run.failures = 1 /\ run.server = "done"
                          /\ run.landed \in {1..run.statementsRun, 1..(run.statementsRun + 1)}
      OBVIOUS
    <3>2. old.onError = "stop" /\ old.failures = 0
      BY <1>4, <2>1, <3>1
    <3>3. run.failures = 1 /\ run.server = "done"
      BY <1>4, <3>2
    <3>4. old.landed = 1..run.statementsRun
      BY <1>4, <1>6, <2>5, <3>2
    <3>5. old.landed \cup {old.next} = 1..(run.statementsRun + 1)
      BY <1>4, <1>6, <2>5, <3>2
    <3>6. QED
      BY <1>4, <3>3, <3>4, <3>5
  <2>8. run.server = "done" /\ ~run.cancelled => run.failures > 0
    BY <1>1, <1>4
  <2>9. run.aborted => Cardinality(run.landed) <= run.before + 1
    BY <1>4, <1>6, <2>1, <2>2
  <2>10. QED
    BY <1>4, <2>4, <2>6, <2>7, <2>8, <2>9, <2>3 DEF Looped
<1>12. QED
  BY <1>2, <1>3, <1>4, <1>7, <1>8, <1>9, <1>10, <1>11 DEF Follows, Sound, old

-----------------------------------------------------------------------------
(***************************************************************************)
(* One run changes.                                                        *)
(***************************************************************************)
\* The engine never changes, and Sound asks nothing else of the state.
LEMMA SameEngine == ASSUME engine' = engine, NEW run, Sound(run) PROVE Sound(run)'
<1>1. (Commits <=> Commits') /\ Ends(run.script)' = Ends(run.script)
  BY DEF Commits, Ends
<1>2. Batched(run)'
  BY <1>1 DEF Sound, Batched, AfterCommit, Standing
<1>3. QED
  BY <1>2 DEF Sound, Starts, Gated, Looped, HungUp

LEMMA RunChanges ==
  ASSUME RestoreInv, NEW r \in DOMAIN runs, NEW run, Typed(run), Sound(run), run.found => tables',
         tables => tables', engine' = engine, runs' = [runs EXCEPT ![r] = run]
  PROVE  /\ \A q \in DOMAIN runs : runs'[q] = IF q = r THEN run ELSE runs[q]
         /\ runs' \in Seq(Run) /\ Len(runs') = Len(runs) /\ DOMAIN runs' = DOMAIN runs
         /\ \A q \in DOMAIN runs : Typed(runs'[q])
         /\ RunsInv'
<1>1. runs \in Seq(Run) /\ \A q \in DOMAIN runs : Typed(runs[q]) /\ Sound(runs[q])
  BY OldRun DEF RestoreInv, TypeOK
<1>2. run \in Run
  BY DEF Typed
<1>3. \A q \in DOMAIN runs : runs'[q] = IF q = r THEN run ELSE runs[q]
  BY <1>1
<1>4. runs' \in Seq(Run) /\ Len(runs') = Len(runs) /\ DOMAIN runs' = DOMAIN runs
  BY <1>1, <1>2
<1>5. \A q \in DOMAIN runs : Typed(runs'[q]) /\ Sound(runs'[q])
  BY <1>1, <1>3
<1>6. \A q \in DOMAIN runs : runs'[q].found => tables'
  BY <1>3 DEF RestoreInv, RunsInv
<1>7. RunsInv'
  BY <1>4, <1>5, <1>6, SameEngine DEF RunsInv
<1>8. QED
  BY <1>3, <1>4, <1>5, <1>7

\* The panel's request for run r is at another point.
LEMMA ClientChanges ==
  ASSUME RestoreInv, NEW r \in DOMAIN runs, NEW client \in {"waiting", "aborting", "gone", "answered"},
         runs[r].aborted => client \in {"aborting", "gone"},
         tables' = tables, engine' = engine, runs' = [runs EXCEPT ![r].client = client]
  PROVE  LET run == [runs[r] EXCEPT !.client = client] IN
         /\ \A q \in DOMAIN runs : runs'[q] = IF q = r THEN run ELSE runs[q]
         /\ runs' \in Seq(Run) /\ Len(runs') = Len(runs) /\ DOMAIN runs' = DOMAIN runs
         /\ \A q \in DOMAIN runs : Typed(runs'[q])
         /\ RunsInv'
         /\ run.client = client /\ run.server = runs[r].server /\ run.informed = runs[r].informed
<1> DEFINE old == runs[r]
           run == [old EXCEPT !.client = client]
<1>1. Typed(old) /\ Sound(old) /\ (old.found => tables)
  BY OldRun
<1>2. runs' = [runs EXCEPT ![r] = run]
  BY DEF RestoreInv, TypeOK
<1>3. /\ run.script = old.script /\ run.confirmed = old.confirmed /\ run.onError = old.onError
      /\ run.client = client /\ run.server = old.server
      /\ run.aborted = old.aborted /\ run.cancelled = old.cancelled /\ run.next = old.next
      /\ run.statementsRun = old.statementsRun /\ run.failures = old.failures
      /\ run.landed = old.landed /\ run.informed = old.informed /\ run.found = old.found
      /\ run.early = old.early /\ run.before = old.before
  BY <1>1 DEF Typed, Run
<1>4. run \in Run
  BY <1>1 DEF Typed, Run
<1>5. old.aborted => client \in {"aborting", "gone"}
  OBVIOUS
<1> HIDE DEF run, old
<1>6. Typed(run)
  BY <1>1, <1>3, <1>4 DEF Typed
<1>7. Starts(run) /\ Gated(run) /\ Batched(run) /\ Looped(run)
  BY <1>1, <1>3 DEF Sound, Starts, Gated, Batched, Looped
<1>8. HungUp(run)
  BY <1>1, <1>3, <1>5 DEF Sound, HungUp
<1>9. Sound(run)
  BY <1>7, <1>8 DEF Sound
<1>10. run.found => tables'
  BY <1>1, <1>3
<1>11. /\ \A q \in DOMAIN runs : runs'[q] = IF q = r THEN run ELSE runs[q]
       /\ runs' \in Seq(Run) /\ Len(runs') = Len(runs) /\ DOMAIN runs' = DOMAIN runs
       /\ \A q \in DOMAIN runs : Typed(runs'[q])
       /\ RunsInv'
  BY <1>2, <1>6, <1>9, <1>10, RunChanges
<1>12. QED
  BY <1>3, <1>11 DEF run, old

\* The outcome on screen is one of another run, or of this one that has ended.
LEMMA OutcomeStays ==
  ASSUME RestoreInv, outcome' = outcome, DOMAIN runs' = DOMAIN runs,
         \A q \in DOMAIN runs : /\ runs[q].client = "answered" => runs'[q].client = "answered"
                                /\ runs[q].server = "done" => runs'[q].server = "done"
  PROVE  OutcomeInv'
  BY DEF RestoreInv, OutcomeInv

\* A step of the server, or a hangup it hears, keeps all of it.
LEMMA ServerStep ==
  ASSUME RestoreInv, NEW r \in DOMAIN runs, HearHangup(r) \/ Server(r)
  PROVE  RestoreInv' /\ (PatientInv => PatientInv')
<1>1. PICK run : Follows(r, run) /\ Becomes(r, run)
  BY PrepareSound, HearSound, RefuseSound, BatchStepSound, BatchCommitsSound, BatchFailsSound,
     LoopSound, RunsSound, FailsSound DEF Server
<1>2. /\ engine' = engine /\ patient' = patient
      /\ UNCHANGED panel /\ runs' = [runs EXCEPT ![r] = run]
      /\ tables => tables'
  BY <1>1 DEF Becomes, world
<1>3. tables' \in BOOLEAN
  BY <1>1 DEF Becomes
<1>4. run.found => tables'
  BY <1>1, <1>2, OldRun DEF Follows
<1>5. /\ \A q \in DOMAIN runs : runs'[q] = IF q = r THEN run ELSE runs[q]
      /\ runs' \in Seq(Run) /\ Len(runs') = Len(runs) /\ DOMAIN runs' = DOMAIN runs
      /\ \A q \in DOMAIN runs : Typed(runs'[q])
      /\ RunsInv'
  BY <1>1, <1>2, <1>4, RunChanges DEF Follows
<1>6. \A q \in DOMAIN runs : /\ runs'[q].client = runs[q].client
                             /\ runs'[q].informed = runs[q].informed
                             /\ runs[q].server = "done" => runs'[q].server = "done"
  BY <1>1, <1>5 DEF Follows
<1>7. TypeOK'
  BY <1>2, <1>3, <1>5 DEF RestoreInv, TypeOK, panel, Typed
<1>8. PlansAreBounded'
  BY <1>2 DEF RestoreInv, PlansAreBounded, panel
<1>9. OutcomeInv'
  BY <1>2, <1>5, <1>6, OutcomeStays DEF panel
<1>10. PatientInv => PatientInv'
  BY <1>2, <1>5, <1>6 DEF PatientInv, OneFileAtATime, OneRunAtATime, RunIsWhatWasAgreed, panel
<1>11. QED
  BY <1>5, <1>7, <1>8, <1>9, <1>10 DEF RestoreInv

-----------------------------------------------------------------------------
(***************************************************************************)
(* The panel's steps.                                                      *)
(***************************************************************************)
\* What stays sound when no run changes.
LEMMA RunsStay ==
  ASSUME RestoreInv, UNCHANGED <<engine, runs>>, tables => tables'
  PROVE  RunsInv'
  BY SameEngine DEF RestoreInv, RunsInv

LEMMA ChooseFileStep ==
  ASSUME RestoreInv, NEW s \in Scripts, ChooseFile(s)
  PROVE  RestoreInv' /\ (PatientInv => PatientInv')
<1>1. /\ UNCHANGED <<engine, patient, tables, plans, planned, state, script, plan, confirmed,
                     outcome, inFlight, ticked, runs>>
      /\ reading' = reading \cup {s} /\ planned + Cardinality(reading) < MaxPlans
      /\ state # "running" /\ (patient => reading = {} /\ plans = {})
  BY DEF ChooseFile, world
<1>2. TypeOK'
  BY <1>1 DEF RestoreInv, TypeOK
<1>3. PlansAreBounded'
  <2>1. IsFiniteSet(reading) /\ planned \in Nat /\ Cardinality(reading) \in Nat
    BY FS_CardinalityType, RestoreAssumption DEF RestoreInv, PlansAreBounded, TypeOK
  <2>2. IsFiniteSet(reading') /\ Cardinality(reading') <= Cardinality(reading) + 1
    <3>1. /\ IsFiniteSet(reading \cup {s})
          /\ Cardinality(reading \cup {s}) \in {Cardinality(reading), Cardinality(reading) + 1}
      BY <2>1, FS_AddElement
    <3>2. QED
      BY <1>1, <2>1, <3>1
  <2>3. Cardinality(reading') \in Nat
    BY <2>2, FS_CardinalityType
  <2>4. QED
    BY <1>1, <2>1, <2>2, <2>3, RestoreAssumption DEF PlansAreBounded
<1>4. RunsInv' /\ OutcomeInv'
  BY <1>1, RunsStay DEF RestoreInv, OutcomeInv
<1>5. PatientInv => PatientInv'
  BY <1>1 DEF PatientInv, OneFileAtATime, OneRunAtATime, RunIsWhatWasAgreed
<1>6. QED
  BY <1>2, <1>3, <1>4, <1>5 DEF RestoreInv

LEMMA PreflightStep ==
  ASSUME RestoreInv, NEW s \in Scripts, Preflight(s)
  PROVE  RestoreInv' /\ (PatientInv => PatientInv')
<1>1. /\ UNCHANGED <<engine, patient, tables, inFlight, ticked, runs>>
      /\ s \in reading /\ reading' = reading \ {s}
      /\ script' = s /\ plan' = None /\ outcome' = None /\ confirmed' = FALSE
      /\ state' = "planning" /\ planned' = planned + 1
      /\ plans' = plans \cup {[id |-> planned + 1, script |-> s]}
  BY DEF Preflight, world
<1>2. /\ planned \in Nat /\ planned' \in 1..MaxPlans /\ IsFiniteSet(reading')
      /\ planned' + Cardinality(reading') <= MaxPlans
  <2>1. /\ IsFiniteSet(reading) /\ planned \in Nat
        /\ Cardinality(reading) \in Nat /\ planned + Cardinality(reading) <= MaxPlans
    BY FS_CardinalityType, RestoreAssumption DEF RestoreInv, PlansAreBounded, TypeOK
  <2>2. IsFiniteSet(reading') /\ Cardinality(reading') = Cardinality(reading) - 1
    BY <1>1, <2>1, FS_RemoveElement
  <2>3. Cardinality(reading') \in Nat
    BY <2>2, FS_CardinalityType
  <2>4. QED
    BY <1>1, <2>1, <2>2, <2>3, RestoreAssumption
<1>3. TypeOK'
  <2>1. [id |-> planned + 1, script |-> s] \in [id: 1..MaxPlans, script: Scripts]
    BY <1>1, <1>2
  <2>2. plans' \in SUBSET [id: 1..MaxPlans, script: Scripts]
    BY <1>1, <2>1 DEF RestoreInv, TypeOK
  <2>3. planned' \in 0..MaxPlans /\ reading' \in SUBSET Scripts
    BY <1>1, <1>2 DEF RestoreInv, TypeOK
  <2>4. QED
    BY <1>1, <2>2, <2>3 DEF RestoreInv, TypeOK
<1>4. RunsInv' /\ OutcomeInv' /\ PlansAreBounded'
  BY <1>1, <1>2, RunsStay DEF OutcomeInv, PlansAreBounded
<1>5. PatientInv => PatientInv'
  <2>1. SUFFICES ASSUME PatientInv, patient PROVE PatientInv'
    BY <1>1 DEF PatientInv
  <2>2. OneFileAtATime /\ OneRunAtATime /\ RunIsWhatWasAgreed
    BY <2>1 DEF PatientInv
  <2>3. plans = {} /\ state # "running"
    BY <1>1, <2>2 DEF OneFileAtATime
  <2>4. plans' = {[id |-> planned + 1, script |-> s]}
    BY <1>1, <2>3
  <2>5. OneFileAtATime'
    <3>1. reading' = {}
      BY <1>1, <2>2 DEF OneFileAtATime
    <3>2. QED
      BY <1>1, <2>4, <3>1 DEF OneFileAtATime
  <2>6. QED
    BY <1>1, <2>2, <2>3, <2>5 DEF PatientInv, OneRunAtATime, RunIsWhatWasAgreed
<1>6. QED
  BY <1>3, <1>4, <1>5 DEF RestoreInv

LEMMA PlanStep ==
  ASSUME RestoreInv, NEW p \in plans, PlanAnswered(p) \/ PlanFailed(p)
  PROVE  RestoreInv' /\ (PatientInv => PatientInv')
<1>1. /\ UNCHANGED <<engine, patient, tables, reading, planned, script, confirmed, outcome,
                     inFlight, ticked, runs>>
      /\ plans' = plans \ {p} /\ state' \in {"ready", "failed"}
      /\ plan' \in {plan, [id |-> p.id, script |-> p.script, empty |-> ~tables]}
  BY DEF PlanAnswered, PlanFailed, world
<1>2. p.id \in 1..MaxPlans /\ p.script \in Scripts
  BY DEF RestoreInv, TypeOK
<1>3. TypeOK'
  <2>1. [id |-> p.id, script |-> p.script, empty |-> ~tables] \in Plan
    BY <1>2 DEF Plan
  <2>2. QED
    BY <1>1, <2>1 DEF RestoreInv, TypeOK
<1>4. RunsInv' /\ OutcomeInv' /\ PlansAreBounded'
  BY <1>1, RunsStay DEF RestoreInv, OutcomeInv, PlansAreBounded
<1>5. PatientInv => PatientInv'
  <2>1. SUFFICES ASSUME PatientInv, patient PROVE PatientInv'
    BY <1>1 DEF PatientInv
  <2>2. OneFileAtATime /\ OneRunAtATime /\ RunIsWhatWasAgreed
    BY <2>1 DEF PatientInv
  <2>3. p.id = planned /\ p.script = script /\ state = "planning" /\ reading = {}
    BY <2>2 DEF OneFileAtATime
  <2>4. plans' = {}
    <3>1. \A q \in plans : q = p
      BY <2>2, <2>3 DEF OneFileAtATime, RestoreInv, TypeOK
    <3>2. QED
      BY <1>1, <3>1
  <2>5. plan' # None => plan'.id = planned /\ plan'.script = script
    BY <1>1, <2>2, <2>3 DEF OneFileAtATime
  <2>6. OneFileAtATime'
    BY <1>1, <2>2, <2>3, <2>4, <2>5 DEF OneFileAtATime
  <2>7. OneRunAtATime' /\ RunIsWhatWasAgreed'
    BY <1>1, <2>2, <2>3 DEF OneRunAtATime, RunIsWhatWasAgreed
  <2>8. QED
    BY <2>6, <2>7 DEF PatientInv
<1>6. QED
  BY <1>3, <1>4, <1>5 DEF RestoreInv

LEMMA TickStep ==
  ASSUME RestoreInv, Tick
  PROVE  RestoreInv' /\ (PatientInv => PatientInv')
<1>1. /\ UNCHANGED <<engine, patient, tables, reading, plans, planned, state, script, plan,
                     outcome, inFlight, runs>>
      /\ confirmed' \in BOOLEAN /\ ticked' = plan.id /\ plan # None
  BY DEF Tick, world
<1>2. plan.id \in 0..MaxPlans
  BY <1>1, RestoreAssumption DEF RestoreInv, TypeOK, Plan
<1>3. TypeOK'
  BY <1>1, <1>2 DEF RestoreInv, TypeOK
<1>4. RunsInv' /\ OutcomeInv' /\ PlansAreBounded'
  BY <1>1, RunsStay DEF RestoreInv, OutcomeInv, PlansAreBounded
<1>5. PatientInv => PatientInv'
  BY <1>1 DEF PatientInv, OneFileAtATime, OneRunAtATime, RunIsWhatWasAgreed
<1>6. QED
  BY <1>3, <1>4, <1>5 DEF RestoreInv

\* A run that has just been posted has done nothing yet.
LEMMA RunScriptStep ==
  ASSUME RestoreInv, RunScript
  PROVE  RestoreInv' /\ (PatientInv => PatientInv')
<1>1. PICK onError \in {"stop", "continue"} : runs' = Post(onError)
  BY DEF RunScript
<1> DEFINE new == [script |-> script, confirmed |-> confirmed, onError |-> onError,
                   client |-> "waiting", server |-> "preparing",
                   aborted |-> FALSE, cancelled |-> FALSE,
                   next |-> 1, statementsRun |-> 0, failures |-> 0, landed |-> {},
                   informed |-> plan.script = script /\ (confirmed => ticked = plan.id),
                   found |-> tables, early |-> FALSE, before |-> 0]
<1>2. /\ UNCHANGED <<engine, patient, tables, reading, plans, planned, script, plan, confirmed,
                     ticked>>
      /\ runs' = Append(runs, new) /\ Len(runs) + 1 <= MaxRuns
      /\ state = "ready" /\ state' = "running" /\ outcome' = None
      /\ inFlight' = Len(runs) + 1 /\ script \in Scripts
      /\ plan # None /\ (patient => reading = {})
  BY <1>1, RestoreAssumption DEF RunScript, world, CanRun, MayRun, Post, RestoreInv, TypeOK
<1>3. /\ new.script \in Scripts /\ new.next = 1 /\ new.landed = {} /\ new.server = "preparing"
      /\ new.statementsRun = 0 /\ new.failures = 0 /\ new.found = tables /\ ~new.cancelled
      /\ ~new.aborted /\ ~new.early /\ new.client = "waiting"
      /\ new.informed = (plan.script = script /\ (confirmed => ticked = plan.id))
  BY <1>2
<1>4. new \in Run
  BY <1>2 DEF Run, RestoreInv, TypeOK
<1> HIDE DEF new
<1>5. Typed(new)
  <2>1. Size(new.script) \in Nat
    BY <1>3, SizeIsNat
  <2>2. QED
    BY <1>3, <1>4, <2>1 DEF Typed
<1>6. Sound(new)
  <2>1. 1..(1 - 1) = {} /\ Cardinality({}) = 0
    BY FS_EmptySet
  <2>2. Starts(new) /\ Gated(new)
    BY <1>3, <2>1 DEF Starts, Gated
  <2>3. Batched(new)
    BY <1>3 DEF Batched
  <2>4. Looped(new)
    BY <1>3, <2>1 DEF Looped
  <2>5. HungUp(new)
    BY <1>3 DEF HungUp
  <2>6. QED
    BY <2>2, <2>3, <2>4, <2>5 DEF Sound
<1>7. runs \in Seq(Run) /\ \A q \in DOMAIN runs : Typed(runs[q]) /\ Sound(runs[q])
                                                  /\ (runs[q].found => tables)
  BY OldRun DEF RestoreInv, TypeOK
<1>8. /\ runs' \in Seq(Run) /\ Len(runs') = Len(runs) + 1
      /\ DOMAIN runs' = DOMAIN runs \cup {Len(runs) + 1}
      /\ runs'[Len(runs) + 1] = new
      /\ \A q \in DOMAIN runs : runs'[q] = runs[q] /\ q # Len(runs) + 1
  BY <1>2, <1>4, <1>7
<1>9. TypeOK'
  <2>1. \A q \in DOMAIN runs' : Typed(runs'[q])
    BY <1>5, <1>7, <1>8
  <2>2. inFlight' \in 1..MaxRuns
    BY <1>2, <1>7, RestoreAssumption
  <2>3. QED
    BY <1>2, <1>8, <2>1, <2>2 DEF RestoreInv, TypeOK, Typed
<1>10. RunsInv'
  <2>1. \A q \in DOMAIN runs' : Sound(runs'[q]) /\ (runs'[q].found => tables')
    BY <1>2, <1>3, <1>6, <1>7, <1>8
  <2>2. QED
    BY <1>2, <2>1, SameEngine DEF RunsInv
<1>11. OutcomeInv' /\ PlansAreBounded'
  BY <1>2 DEF RestoreInv, OutcomeInv, PlansAreBounded
<1>12. PatientInv => PatientInv'
  <2>1. SUFFICES ASSUME PatientInv, patient PROVE PatientInv'
    BY <1>2 DEF PatientInv
  <2>2. OneFileAtATime /\ OneRunAtATime /\ RunIsWhatWasAgreed
    BY <2>1 DEF PatientInv
  <2>3. OneFileAtATime'
    BY <1>2, <2>1, <2>2 DEF OneFileAtATime
  <2>4. new.informed
    BY <1>2, <1>3, <2>2 DEF OneFileAtATime
  <2>5. RunIsWhatWasAgreed'
    BY <1>8, <2>2, <2>4 DEF RunIsWhatWasAgreed
  <2>6. \A q \in DOMAIN runs : runs[q].client \notin {"waiting", "aborting"}
    BY <1>2, <1>7, <2>2, RestoreAssumption DEF OneRunAtATime
  <2>7. inFlight' # None
    BY <1>2, <1>7, RestoreAssumption
  <2>8. OneRunAtATime'
    BY <1>2, <1>8, <2>6, <2>7 DEF OneRunAtATime
  <2>9. QED
    BY <2>3, <2>5, <2>8 DEF PatientInv
<1>13. QED
  BY <1>9, <1>10, <1>11, <1>12 DEF RestoreInv

\* A run in flight can be made to abort.
LEMMA CancelStep ==
  ASSUME RestoreInv, Cancel
  PROVE  RestoreInv' /\ (PatientInv => PatientInv')
<1>1. /\ UNCHANGED <<engine, patient, tables, panel>> /\ inFlight # None
      /\ runs[inFlight].client = "waiting"
      /\ runs' = [runs EXCEPT ![inFlight].client = "aborting"]
  BY DEF Cancel, world
<1>2. CASE inFlight \in DOMAIN runs
  <2>1. /\ \A q \in DOMAIN runs : runs'[q] = IF q = inFlight
                                             THEN [runs[inFlight] EXCEPT !.client = "aborting"]
                                             ELSE runs[q]
        /\ runs' \in Seq(Run) /\ Len(runs') = Len(runs) /\ DOMAIN runs' = DOMAIN runs
        /\ \A q \in DOMAIN runs : Typed(runs'[q])
        /\ RunsInv'
    BY <1>1, <1>2, ClientChanges
  <2>2. /\ [runs[inFlight] EXCEPT !.client = "aborting"].client = "aborting"
        /\ [runs[inFlight] EXCEPT !.client = "aborting"].server = runs[inFlight].server
        /\ [runs[inFlight] EXCEPT !.client = "aborting"].informed = runs[inFlight].informed
    BY <1>1, <1>2, ClientChanges
  <2>3. TypeOK'
    BY <1>1, <2>1 DEF RestoreInv, TypeOK, panel, Typed
  <2>4. OutcomeInv'
    BY <1>1, <2>1, <2>2, OutcomeStays DEF panel
  <2>5. PlansAreBounded'
    BY <1>1 DEF RestoreInv, PlansAreBounded, panel
  <2>6. PatientInv => PatientInv'
    BY <1>1, <1>2, <2>1, <2>2
       DEF PatientInv, OneFileAtATime, OneRunAtATime, RunIsWhatWasAgreed, panel
  <2>7. QED
    BY <2>1, <2>3, <2>4, <2>5, <2>6 DEF RestoreInv
<1>3. CASE inFlight \notin DOMAIN runs
  <2>1. runs' = runs
    BY <1>1, <1>3 DEF RestoreInv, TypeOK
  <2>2. RestoreInv'
    BY <1>1, <2>1, RunsStay, ZenonT(40) DEF RestoreInv, TypeOK, OutcomeInv, PlansAreBounded, panel
  <2>3. PatientInv => PatientInv'
    BY <1>1, <2>1 DEF PatientInv, OneFileAtATime, OneRunAtATime, RunIsWhatWasAgreed, panel
  <2>4. QED
    BY <2>2, <2>3
<1>4. QED
  BY <1>2, <1>3

\* However a run ends, Cancel has nothing left to reach.
LEMMA LeaveStep ==
  ASSUME RestoreInv, NEW r \in DOMAIN runs, Aborted(r) \/ Answered(r) \/ Lost(r)
  PROVE  RestoreInv' /\ (PatientInv => PatientInv')
<1>1. PICK client \in {"gone", "answered"}, how \in {"cancelled", "done", "failed"} :
        /\ \/ Leave(r, client, how, outcome)
           \/ Leave(r, client, how, r) /\ client = "answered" /\ runs[r].server = "done"
        /\ runs[r].client \in {"waiting", "aborting"}
        /\ client = "answered" => runs[r].client = "waiting"
  BY DEF Aborted, Answered, Lost
<1> DEFINE run == [runs[r] EXCEPT !.client = client]
<1>2. /\ UNCHANGED <<engine, patient, tables, reading, plans, planned, script, plan, confirmed,
                     ticked>>
      /\ runs' = [runs EXCEPT ![r].client = client]
      /\ state' = how /\ inFlight' = None
      /\ outcome' = outcome \/ (outcome' = r /\ client = "answered" /\ runs[r].server = "done")
  BY <1>1 DEF Leave, world
<1>3. runs[r].aborted => client \in {"aborting", "gone"}
  BY <1>1, OldRun DEF Sound, HungUp
<1>4. /\ \A q \in DOMAIN runs : runs'[q] = IF q = r THEN run ELSE runs[q]
      /\ runs' \in Seq(Run) /\ Len(runs') = Len(runs) /\ DOMAIN runs' = DOMAIN runs
      /\ \A q \in DOMAIN runs : Typed(runs'[q])
      /\ RunsInv'
      /\ run.client = client /\ run.server = runs[r].server /\ run.informed = runs[r].informed
  <2>1. client \in {"waiting", "aborting", "gone", "answered"}
    OBVIOUS
  <2>2. tables' = tables /\ engine' = engine
    BY <1>2
  <2>3. QED
    BY <1>2, <1>3, <2>1, <2>2, ClientChanges
<1> HIDE DEF run
<1>5. TypeOK'
  <2>1. r \in 1..MaxRuns
    BY RestoreAssumption DEF RestoreInv, TypeOK
  <2>2. QED
    BY <1>2, <1>4, <2>1 DEF RestoreInv, TypeOK, Typed
<1>6. OutcomeInv'
  <2>1. CASE outcome' = outcome
    BY <1>1, <1>4, <2>1, OutcomeStays
  <2>2. CASE outcome' = r /\ client = "answered" /\ runs[r].server = "done"
    BY <1>4, <2>2 DEF OutcomeInv
  <2>3. QED
    BY <1>2, <2>1, <2>2
<1>7. PlansAreBounded'
  BY <1>2 DEF RestoreInv, PlansAreBounded
<1>8. PatientInv => PatientInv'
  <2>1. SUFFICES ASSUME PatientInv, patient PROVE PatientInv'
    BY <1>2 DEF PatientInv
  <2>2. OneFileAtATime /\ OneRunAtATime /\ RunIsWhatWasAgreed
    BY <2>1 DEF PatientInv
  <2>3. inFlight = r /\ state = "running"
    BY <1>1, <2>2, RestoreAssumption DEF OneRunAtATime, RestoreInv, TypeOK
  <2>4. OneFileAtATime'
    BY <1>2, <2>2, <2>3 DEF OneFileAtATime
  <2>5. RunIsWhatWasAgreed'
    BY <1>4, <2>2 DEF RunIsWhatWasAgreed
  <2>6. \A q \in DOMAIN runs' : runs'[q].client \notin {"waiting", "aborting"}
    BY <1>1, <1>4, <2>2, <2>3 DEF OneRunAtATime
  <2>7. OneRunAtATime'
    BY <1>1, <1>2, <2>6 DEF OneRunAtATime
  <2>8. QED
    BY <2>4, <2>5, <2>7 DEF PatientInv
<1>9. QED
  BY <1>4, <1>5, <1>6, <1>7, <1>8 DEF RestoreInv

\* Somebody else's table, or nothing at all.
LEMMA OtherStep ==
  ASSUME RestoreInv, OtherCreates \/ UNCHANGED vars
  PROVE  RestoreInv' /\ (PatientInv => PatientInv')
<1>1. UNCHANGED <<world, panel, runs>> /\ tables' \in BOOLEAN /\ (tables => tables')
  BY DEF OtherCreates, vars, world, panel, RestoreInv, TypeOK
<1>2. RunsInv'
  BY <1>1, RunsStay DEF world
<1>3. TypeOK' /\ OutcomeInv' /\ PlansAreBounded'
  BY <1>1 DEF RestoreInv, TypeOK, OutcomeInv, PlansAreBounded, world, panel
<1>4. PatientInv => PatientInv'
  BY <1>1 DEF PatientInv, OneFileAtATime, OneRunAtATime, RunIsWhatWasAgreed, world, panel
<1>5. QED
  BY <1>2, <1>3, <1>4 DEF RestoreInv

-----------------------------------------------------------------------------
(***************************************************************************)
(* Theorems.                                                               *)
(***************************************************************************)
LEMMA InitRestore == Init => RestoreInv /\ PatientInv
<1> SUFFICES ASSUME Init PROVE RestoreInv /\ PatientInv
  OBVIOUS
<1>1. 0 \in 0..MaxPlans /\ IsFiniteSet({}) /\ Cardinality({}) = 0 /\ 0 + 0 <= MaxPlans
  BY RestoreAssumption, FS_EmptySet
<1>2. runs \in Seq(Run) /\ Len(runs) <= MaxRuns /\ DOMAIN runs = {}
  BY RestoreAssumption DEF Init
<1>3. TypeOK
  BY <1>1, <1>2 DEF Init, TypeOK
<1>4. PlansAreBounded /\ RunsInv /\ OutcomeInv
  BY <1>1, <1>2 DEF Init, PlansAreBounded, RunsInv, OutcomeInv
<1>5. PatientInv
  BY <1>2 DEF Init, PatientInv, OneFileAtATime, OneRunAtATime, RunIsWhatWasAgreed
<1>6. QED
  BY <1>3, <1>4, <1>5 DEF RestoreInv

LEMMA RestoreStep == RestoreInv /\ [Next]_vars => RestoreInv' /\ (PatientInv => PatientInv')
  BY ChooseFileStep, PreflightStep, PlanStep, TickStep, RunScriptStep, CancelStep, LeaveStep,
     ServerStep, OtherStep DEF Next

\* What each run has done is where its counts, its engine and the hangups it
\* has heard say it is (the inductive invariant).
THEOREM RestoreInvariant == Spec => [](RestoreInv /\ PatientInv)
  BY InitRestore, RestoreStep, PTL DEF Spec

LEMMA ReportFollows == RestoreInv => ReportIsTrue
<1> SUFFICES ASSUME RestoreInv PROVE ReportIsTrue
  OBVIOUS
<1>1. AllOrNothing
  <2>1. SUFFICES ASSUME NEW r \in DOMAIN runs, Over(r),
                        engine \in {"transaction", "implicit"}, Ends(runs[r].script) = {}
                 PROVE  runs[r].landed \in {{}, Whole(r)}
    BY DEF AllOrNothing, AtOnce
  <2>2. Batched(runs[r]) /\ runs[r].server \in {"done", "failed"}
    BY <2>1, OldRun DEF Sound, Over
  <2>3. QED
    BY <2>1, <2>2, ClosedBounds DEF Batched, Whole
<1>2. StopLeavesAPrefix
  <2>1. SUFFICES ASSUME NEW r \in DOMAIN runs, engine = "statement", runs[r].onError = "stop"
                 PROVE  \/ runs[r].landed = 1..runs[r].statementsRun
                        \/ /\ runs[r].failures = 1
                           /\ runs[r].landed = 1..(runs[r].statementsRun + 1)
    BY DEF StopLeavesAPrefix
  <2>2. Looped(runs[r]) /\ runs[r].next - 1 \in Nat /\ runs[r].statementsRun \in Nat
    BY OldRun DEF Sound
  <2>3. runs[r].failures = 0 => runs[r].landed = 1..runs[r].statementsRun
    BY <2>1, <2>2 DEF Looped
  <2>4. QED
    BY <2>1, <2>2, <2>3 DEF Looped
<1>3. CountsAreTrue
  <2>1. SUFFICES ASSUME outcome # None, ~DropsItself(runs[outcome].script)
                 PROVE  LET run == runs[outcome] IN
                        /\ run.statementsRun <= Cardinality(run.landed)
                        /\ Cardinality(run.landed) <= run.statementsRun + run.failures
                        /\ run.failures = 0 => run.landed = 1..Size(run.script)
    BY DEF CountsAreTrue, Whole
  <2> DEFINE run == runs[outcome]
  <2>2. outcome \in DOMAIN runs /\ run.client = "answered" /\ run.server = "done"
    BY <2>1 DEF RestoreInv, OutcomeInv
  <2>3. /\ Typed(run) /\ Sound(run) /\ Size(run.script) \in Nat /\ Cardinality(run.landed) \in Nat
        /\ run.next \in Nat /\ run.statementsRun \in Nat /\ run.failures \in Nat
        /\ run.next - 1 \in Nat
    BY <2>2, OldRun
  <2> HIDE DEF run
  <2>4. ~run.cancelled /\ run.landed \subseteq 1..(run.next - 1)
    BY <2>2, <2>3 DEF Sound, HungUp, Starts
  <2>5. Cardinality(run.landed) <= run.next - 1
    BY <2>3, <2>4, LandedCounts
  <2>6. CASE engine = "statement"
    <3>1. /\ run.statementsRun <= Cardinality(run.landed)
          /\ Cardinality(run.landed) <= run.statementsRun + run.failures
      BY <2>3, <2>5, <2>6 DEF Sound, Looped
    <3>2. run.failures = 0 => run.next - 1 = Size(run.script)
      BY <2>2, <2>3, <2>4, <2>6 DEF Sound, Looped, Typed
    <3>3. run.failures = 0 => run.landed = 1..Size(run.script)
      BY <2>3, <2>6, <3>2 DEF Sound, Looped
    <3>4. QED
      BY <3>1, <3>3 DEF run
  <2>7. CASE engine # "statement"
    <3>1. /\ run.failures = 0 /\ run.statementsRun = Size(run.script)
          /\ run.landed = AfterCommit(Size(run.script), Ends(run.script), Commits)
      BY <2>2, <2>3, <2>4, <2>7 DEF Sound, Batched
    <3>2. run.script \in Scripts /\ ~DropsItself(run.script)
      BY <2>1, <2>3, RunFields DEF Typed, run
    <3>3. run.landed = 1..Size(run.script)
      BY <3>1, <3>2, ClosedIsWhole
    <3>4. QED
      BY <2>3, <3>1, <3>3, Counts DEF run
  <2>8. QED
    BY <2>6, <2>7
<1>4. HangupStopsTheRestore
  <2>1. SUFFICES ASSUME NEW r \in DOMAIN runs, runs[r].aborted
                 PROVE  /\ runs[r].early => runs[r].landed = {}
                        /\ engine = "statement" =>
                             Cardinality(runs[r].landed) <= runs[r].before + 1
    BY DEF HangupStopsTheRestore
  <2>2. Typed(runs[r]) /\ Sound(runs[r]) /\ Cardinality(runs[r].landed) \in Nat
    BY OldRun
  <2>3. runs[r].before \in Nat
    BY <2>2 DEF Typed, Run
  <2>4. runs[r].early => runs[r].landed = {}
    BY <2>2 DEF Sound, HungUp
  <2>5. engine = "statement" => Cardinality(runs[r].landed) <= runs[r].before + 1
    BY <2>1, <2>2, <2>3 DEF Sound, Looped
  <2>6. QED
    BY <2>4, <2>5
<1>5. QED
  BY <1>1, <1>2, <1>3, <1>4 DEF ReportIsTrue

LEMMA ConsentFollows == RestoreInv /\ PatientInv => ConsentIsKept
  BY OldRun DEF ConsentIsKept, StalePlanIsHarmless, PatientUserAgreed, RunningCanBeCancelled,
                Sound, Gated, PatientInv, OneRunAtATime

\* What the panel reports and what is in the database agree, however the run
\* ended (ReportIsTrue).
THEOREM ReportTheorem == Spec => []ReportIsTrue
  BY RestoreInvariant, ReportFollows, PTL

\* Nothing is overwritten without a yes, and a patient user's yes is to what
\* runs (ConsentIsKept).
THEOREM ConsentTheorem == Spec => []ConsentIsKept
  BY RestoreInvariant, ConsentFollows, PTL
=============================================================================
