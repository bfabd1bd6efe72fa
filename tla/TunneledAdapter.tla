-------------------------- MODULE TunneledAdapter --------------------------
(***************************************************************************)
(* One adapter that reaches its server through an SSH forward: the health  *)
(* check after an idle spell, the rebuild when it fails, reconnect() and   *)
(* close(), as callers interleave with them at every await.                *)
(*                                                                         *)
(* A forward and the pool built over it share a number.  A pool that has   *)
(* been asked to close takes no new query and finishes closing when those  *)
(* it is running have ended; asked again, it answers at once.              *)
(***************************************************************************)
EXTENDS Naturals

CONSTANTS
  Callers,      \* requests that hold the adapter
  Reconnecters, \* those that may call reconnect(); no route of the API does
  MaxForwards   \* bound on the forwards ever opened

ASSUME TunneledAdapterAssumption ==
  /\ MaxForwards \in Nat \ {0}
  /\ Reconnecters \subseteq Callers

Forward == 1..MaxForwards
None    == 0

VARIABLES
  opened,    \* forwards opened so far
  forwards,  \* those up: session and listener
  pools,     \* inner adapters not yet asked to close
  held,      \* the pair `inner` and `tunnel` refer to
  live,
  closed,
  idle,      \* lastUsed lies HEALTH_CHECK_AFTER_IDLE_MS or more in the past
  refresh,   \* how far the run behind the shared promise has got
  closing,   \* how far close() has got with its own teardown
  calls      \* what each caller awaits, and the pair its query runs on

vars == <<opened, forwards, pools, held, live, closed, idle, refresh,
          closing, calls>>

\* `pair` is the pair probed, torn down or being built; `again`: the pool had
\* been asked to close before; `ok`: how the run ended.
Refresh == [step: {"none", "probing", "draining", "dialling", "building",
                   "settled"},
            pair: Forward \cup {None}, again: BOOLEAN, ok: BOOLEAN]
Closing == [step: {"no", "draining", "done"}, pair: Forward \cup {None}]

\* A query is waiting, cleared, running on a pair; a reconnect is outwaiting
\* the refresh in flight, forcing one, then reconnecting.
Call == [phase: {"idle", "waiting", "cleared", "running",
                 "outwaiting", "forcing", "reconnecting"},
         pair: Forward \cup {None}]

At(step, pair, again) ==
  [step |-> step, pair |-> pair, again |-> again, ok |-> FALSE]
Settled(ok) == [step |-> "settled", pair |-> None, again |-> FALSE, ok |-> ok]
NoRefresh   == At("none", None, FALSE)
Ready       == [phase |-> "idle", pair |-> None]

TypeOK ==
  /\ opened \in Forward
  /\ forwards \in SUBSET Forward
  /\ pools \in SUBSET Forward
  /\ held \in Forward
  /\ live \in BOOLEAN /\ closed \in BOOLEAN /\ idle \in BOOLEAN
  /\ refresh \in Refresh
  /\ closing \in Closing
  /\ calls \in [Callers -> Call]

RunsOn(c, f) == calls[c] = [phase |-> "running", pair |-> f]
Busy(f) == \/ \E c \in Callers : RunsOn(c, f)
           \/ refresh.step = "probing" /\ refresh.pair = f

InPhase(c, phase) == calls[c].phase = phase
Enter(c, phase, pair) ==
  calls' = [calls EXCEPT ![c] = [phase |-> phase, pair |-> pair]]

-----------------------------------------------------------------------------
\* openTunneledAdapter() has returned: a failed first open never gets here.
Init ==
  /\ opened = 1
  /\ forwards = {1}
  /\ pools = {1}
  /\ held = 1
  /\ live = TRUE
  /\ closed = FALSE
  /\ idle = FALSE
  /\ refresh = NoRefresh
  /\ closing = [step |-> "no", pair |-> None]
  /\ calls = [c \in Callers |-> Ready]

\* teardown() up to its first await, as the start of rebuild().
MutTeardownCutsFirst ==
  /\ live' = FALSE
  /\ pools' = pools \ {held}
  /\ forwards' = forwards \ {held}
  /\ refresh' = At("draining", held, held \notin pools)

Teardown ==
  /\ live' = FALSE
  /\ pools' = pools \ {held}
  /\ refresh' = At("draining", held, held \notin pools)
  /\ UNCHANGED forwards

\* checkOrRebuild() up to its first await.
Check ==
  \/ ~live /\ Teardown
  \/ /\ live
     /\ refresh' = IF idle THEN At("probing", held, FALSE) ELSE Settled(TRUE)
     /\ UNCHANGED <<live, pools, forwards>>

\* once(): join the refresh in flight, or start this one.
MutOnceAlwaysStarts(Start) == Start

Once(Start) ==
  \/ refresh.step # "none" /\ UNCHANGED <<live, pools, forwards, refresh>>
  \/ refresh.step = "none" /\ Start

-----------------------------------------------------------------------------
(***************************************************************************)
(* Callers.                                                                *)
(***************************************************************************)
\* A closed adapter refuses queries and reconnects, and a second close()
\* returns at once.
Refuse(c) == InPhase(c, "idle") /\ closed /\ UNCHANGED vars

\* The guard on `closed` forgotten.
MutQueryServesClosed(c) ==
  /\ InPhase(c, "idle")
  /\ Enter(c, "waiting", None)
  /\ Once(Check)
  /\ UNCHANGED <<opened, held, closed, idle, closing>>

\* Any of the hooks: each borrows the adapter underneath first.
Query(c) ==
  /\ InPhase(c, "idle") /\ ~closed
  /\ Enter(c, "waiting", None)
  /\ Once(Check)
  /\ UNCHANGED <<opened, held, closed, idle, closing>>

\* borrow() hands over `inner` as it is now; a pool on its way out refuses.
Run(c) ==
  /\ InPhase(c, "cleared")
  /\ \/ held \in pools /\ Enter(c, "running", held) /\ UNCHANGED idle
     \/ held \notin pools /\ Enter(c, "idle", None) /\ idle' = FALSE
  /\ UNCHANGED <<opened, forwards, pools, held, live, closed, refresh, closing>>

\* The driver answers or fails; either way lastUsed is now.
Answer(c) ==
  /\ InPhase(c, "running")
  /\ Enter(c, "idle", None)
  /\ idle' = FALSE
  /\ UNCHANGED <<opened, forwards, pools, held, live, closed, refresh, closing>>

Reconnect(c) ==
  /\ c \in Reconnecters /\ InPhase(c, "idle") /\ ~closed
  /\ Enter(c, IF refresh.step = "none" THEN "forcing" ELSE "outwaiting", None)
  /\ UNCHANGED <<opened, forwards, pools, held, live, closed, idle, refresh,
                 closing>>

Reopen(c) ==
  /\ InPhase(c, "forcing")
  /\ Enter(c, "reconnecting", None)
  /\ Once(Teardown)
  /\ UNCHANGED <<opened, held, closed, idle, closing>>

-----------------------------------------------------------------------------
(***************************************************************************)
(* The refresh in flight.                                                  *)
(***************************************************************************)
ProbeAnswered ==
  /\ refresh.step = "probing" /\ refresh.pair \in forwards
  /\ refresh' = Settled(TRUE)
  /\ UNCHANGED <<opened, forwards, pools, held, live, closed, idle, closing,
                 calls>>

ProbeFailed ==
  /\ refresh.step = "probing"
  /\ Teardown
  /\ UNCHANGED <<opened, held, closed, idle, closing, calls>>

\* The pool has closed, or refused to: the forward goes, a new one is dialled.
Drained ==
  /\ refresh.step = "draining"
  /\ refresh.again \/ ~Busy(refresh.pair)
  /\ forwards' = forwards \ {refresh.pair}
  /\ refresh' = At("dialling", None, FALSE)
  /\ UNCHANGED <<opened, pools, held, live, closed, idle, closing, calls>>

Dialled ==
  /\ refresh.step = "dialling" /\ opened < MaxForwards
  /\ opened' = opened + 1
  /\ forwards' = forwards \cup {opened + 1}
  /\ refresh' = At("building", opened + 1, FALSE)
  /\ UNCHANGED <<pools, held, live, closed, idle, closing, calls>>

DialFailed ==
  /\ refresh.step = "dialling"
  /\ refresh' = Settled(FALSE)
  /\ UNCHANGED <<opened, forwards, pools, held, live, closed, idle, closing,
                 calls>>

Built ==
  /\ refresh.step = "building"
  /\ pools' = pools \cup {refresh.pair}
  /\ held' = refresh.pair
  /\ live' = TRUE
  /\ idle' = FALSE
  /\ refresh' = Settled(TRUE)
  /\ UNCHANGED <<opened, forwards, closed, closing, calls>>

MutBuildFailedLeavesForward ==
  /\ refresh.step = "building"
  /\ refresh' = Settled(FALSE)
  /\ UNCHANGED <<opened, forwards, pools, held, live, closed, idle, closing,
                 calls>>

\* `inner` assigned before the build is known to have worked.
MutBuildFailedDropsInner ==
  /\ refresh.step = "building"
  /\ forwards' = forwards \ {refresh.pair}
  /\ held' = None
  /\ refresh' = Settled(FALSE)
  /\ UNCHANGED <<opened, pools, live, closed, idle, closing, calls>>

BuildFailed ==
  /\ refresh.step = "building"
  /\ forwards' = forwards \ {refresh.pair}
  /\ refresh' = Settled(FALSE)
  /\ UNCHANGED <<opened, pools, held, live, closed, idle, closing, calls>>

Resumed(call, ok) ==
  CASE call.phase = "waiting"      -> IF ok THEN [call EXCEPT !.phase = "cleared"]
                                            ELSE Ready
    [] call.phase = "outwaiting"   -> [call EXCEPT !.phase = "forcing"]
    [] call.phase = "reconnecting" -> Ready
    [] OTHER                       -> call

\* The promise settles: `refresh` is cleared and everyone awaiting it resumes.
MutSettleForgetsFailure ==
  /\ refresh.step = "settled"
  /\ refresh' = NoRefresh
  /\ calls' = IF refresh.ok THEN [c \in Callers |-> Resumed(calls[c], TRUE)]
                            ELSE calls
  /\ UNCHANGED <<opened, forwards, pools, held, live, closed, idle, closing>>

Settle ==
  /\ refresh.step = "settled"
  /\ refresh' = NoRefresh
  /\ calls' = [c \in Callers |-> Resumed(calls[c], refresh.ok)]
  /\ UNCHANGED <<opened, forwards, pools, held, live, closed, idle, closing>>

-----------------------------------------------------------------------------
(***************************************************************************)
(* close(), and time.                                                      *)
(***************************************************************************)
Close ==
  /\ ~closed
  /\ closed' = TRUE
  /\ live' = FALSE
  /\ \/ /\ live
        /\ pools' = pools \ {held}
        /\ closing' = [step |-> "draining", pair |-> held]
     \/ /\ ~live
        /\ closing' = [step |-> "done", pair |-> None]
        /\ UNCHANGED pools
  /\ UNCHANGED <<opened, forwards, held, idle, refresh, calls>>

CloseDrained ==
  /\ closing.step = "draining" /\ ~Busy(closing.pair)
  /\ forwards' = forwards \ {closing.pair}
  /\ closing' = [step |-> "done", pair |-> None]
  /\ UNCHANGED <<opened, pools, held, live, closed, idle, refresh, calls>>

Tick ==
  /\ ~idle
  /\ idle' = TRUE
  /\ UNCHANGED <<opened, forwards, pools, held, live, closed, refresh, closing,
                 calls>>

Refreshing == \/ ProbeAnswered \/ ProbeFailed \/ Drained
              \/ Dialled \/ DialFailed \/ Built \/ BuildFailed \/ Settle

Next ==
  \/ \E c \in Callers : \/ Refuse(c) \/ Query(c) \/ Run(c) \/ Answer(c)
                        \/ Reconnect(c) \/ Reopen(c)
  \/ Refreshing
  \/ Close
  \/ CloseDrained
  \/ Tick

Spec == Init /\ [][Next]_vars

\* Every await ends: a dial has ssh2's handshake timeout, a probe over a dead
\* forward the keepalive, and a driver is taken to answer each query in time.
Fairness ==
  /\ WF_vars(Refreshing)
  /\ WF_vars(CloseDrained)
  /\ \A c \in Callers : WF_vars(Run(c)) /\ WF_vars(Answer(c)) /\ WF_vars(Reopen(c))

FairSpec == Spec /\ Fairness

-----------------------------------------------------------------------------
(***************************************************************************)
(* Properties.                                                             *)
(***************************************************************************)
\* Two callers arriving at a stale connection open one forward, not two:
\* there is never a second forward up beside the first.
OneForward == \A f, g \in forwards : f = g

\* Somebody answers for every forward that is up: the live pair, the rebuild
\* that is tearing it down or building over it, or close().  In particular a
\* rebuild that failed at any step leaves nothing behind.
NoForwardIsLeaked ==
  \A f \in forwards :
    \/ live /\ held = f
    \/ refresh.step \in {"draining", "building"} /\ refresh.pair = f
    \/ closing.step = "draining" /\ closing.pair = f

\* ssh-tunnel.ts: the forward outlives every query.  No rebuild cuts the
\* forward under a query another caller still has running.
ForwardOutlivesQueries ==
  ~closed => \A c \in Callers, f \in Forward : RunsOn(c, f) => f \in forwards

\* A closed adapter is refused rather than reopened: no forward is dialled
\* for it any more.
ClosedNeverDials == [][closed => opened' = opened]_vars

\* close() with no refresh and no reconnect under way is final: everything
\* it held goes down and stays down.
Quiet == refresh.step = "none" /\ \A c \in Callers : ~InPhase(c, "forcing")
QuietCloseIsFinal == (closed /\ ~live /\ Quiet) ~> [](forwards = {})

\* Every caller is answered, however the checks, rebuilds, reconnects and the
\* close it meets turn out.
EveryCallIsAnswered ==
  \A c \in Callers : ~InPhase(c, "idle") ~> InPhase(c, "idle")

-----------------------------------------------------------------------------
(***************************************************************************)
(* The inductive invariant behind the safety properties.                   *)
(***************************************************************************)
\* At most the pair held is up, or during a rebuild the one being built.
PairIsHeld ==
  /\ pools = IF live THEN {held} ELSE {}
  /\ live => held \in forwards
  /\ refresh.step # "building" => forwards \subseteq {held}
  /\ held <= opened

RefreshIsExclusive ==
  /\ refresh.step \in {"probing", "draining"} => refresh.pair = held
  /\ refresh.step \in {"draining", "dialling", "building"} => ~live
  /\ refresh.step = "dialling" => forwards = {}
  /\ refresh.step = "building" =>
       refresh.pair = opened /\ held < opened /\ forwards = {opened}
  /\ refresh.step = "draining" /\ refresh.again /\ ~closed => forwards = {}

CloseIsForHeld ==
  /\ closing.step # "no" => closed
  /\ closing.step = "draining" =>
       closing.pair <= held /\ (live => closing.pair < held)

\* No query runs over a pair still being built.
QueriesAreAdmitted == \A c \in Callers, f \in Forward : RunsOn(c, f) => f <= held

TunnelInv ==
  /\ TypeOK
  /\ PairIsHeld
  /\ RefreshIsExclusive
  /\ CloseIsForHeld
  /\ NoForwardIsLeaked
  /\ ForwardOutlivesQueries
  /\ QueriesAreAdmitted

=============================================================================
