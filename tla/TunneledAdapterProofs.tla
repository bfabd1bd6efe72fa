----------------------- MODULE TunneledAdapterProofs -----------------------
(***************************************************************************)
(* TunnelInv is an invariant of TunneledAdapter for every number of        *)
(* callers and of forwards, and with it what the adapter promises about    *)
(* its forwards.                                                           *)
(***************************************************************************)
EXTENDS TunneledAdapter, TLAPS

USE DEF Forward, None

\* What the values a step writes look like.
LEMMA RefreshFields ==
  /\ \A step, pair, again :
       /\ At(step, pair, again).step = step
       /\ At(step, pair, again).pair = pair
       /\ At(step, pair, again).again = again
  /\ \A ok : Settled(ok).step = "settled"
  /\ NoRefresh.step = "none"
  /\ \A step \in {"none", "probing", "draining", "dialling", "building"},
        pair \in Forward \cup {None}, again \in BOOLEAN :
       At(step, pair, again) \in Refresh
  /\ \A ok \in BOOLEAN : Settled(ok) \in Refresh
  /\ NoRefresh \in Refresh
BY DEF At, Settled, NoRefresh, Refresh

\* A new adapter satisfies the invariant.
LEMMA TunnelInit == Init => TunnelInv
<1> SUFFICES ASSUME Init PROVE TunnelInv
  OBVIOUS
<1>1. TypeOK
  <2>1. 1 \in Forward
    BY TunneledAdapterAssumption
  <2>2. calls \in [Callers -> Call]
    BY DEF Init, Call, Ready
  <2>3. closing \in Closing
    BY DEF Init, Closing
  <2> QED
    BY <2>1, <2>2, <2>3, RefreshFields DEF Init, TypeOK
<1>2. PairIsHeld /\ RefreshIsExclusive /\ CloseIsForHeld
  BY RefreshFields DEF Init, PairIsHeld, RefreshIsExclusive, CloseIsForHeld
<1>3. NoForwardIsLeaked
  BY DEF Init, NoForwardIsLeaked
<1>4. ForwardOutlivesQueries
  BY DEF Init, ForwardOutlivesQueries, RunsOn, Ready
<1>5. QueriesAreAdmitted
  BY DEF Init, QueriesAreAdmitted, RunsOn, Ready
<1> QED
  BY <1>1, <1>2, <1>3, <1>4, <1>5 DEF TunnelInv

-----------------------------------------------------------------------------
(***************************************************************************)
(* What a step leaves to show once it is known not to start a query.       *)
(***************************************************************************)
\* The state of the adapter apart from its callers.
Body == PairIsHeld /\ RefreshIsExclusive /\ CloseIsForHeld /\ NoForwardIsLeaked

\* A rebuild that starts tears down the pair held, or what is left of it.
LEMMA TeardownKeeps ==
  ASSUME TunnelInv, Teardown, refresh.step \in {"none", "probing"},
         UNCHANGED <<opened, held, closed, closing>>
  PROVE  Body'
<1> USE DEF TunnelInv, Teardown, TypeOK
<1>1. refresh'.step = "draining" /\ refresh'.pair = held
      /\ refresh'.again = (held \notin pools)
  BY RefreshFields
<1>2. PairIsHeld'
  BY <1>1 DEF PairIsHeld
<1>3. CloseIsForHeld'
  BY <1>1 DEF CloseIsForHeld, PairIsHeld
<1>4. NoForwardIsLeaked'
  BY <1>1 DEF NoForwardIsLeaked, PairIsHeld
<1>5. ~closed /\ held \notin pools => forwards = {}
  BY DEF PairIsHeld, NoForwardIsLeaked, CloseIsForHeld
<1>6. RefreshIsExclusive'
  BY <1>1, <1>5 DEF RefreshIsExclusive
<1> QED
  BY <1>2, <1>3, <1>4, <1>6 DEF Body

\* A step that leaves the pair alone and the refresh idle, settled or probing
\* the pair held changes nothing the invariant says of the adapter.
LEMMA QuietKeeps ==
  ASSUME TunnelInv,
         UNCHANGED <<opened, forwards, pools, held, live, closed, closing>>,
         refresh.step \in {"none", "probing", "dialling", "settled"},
         \/ refresh'.step \in {"none", "settled"}
         \/ refresh'.step = "probing" /\ refresh'.pair = held
  PROVE  Body'
<1> USE DEF TunnelInv
<1>1. PairIsHeld' /\ CloseIsForHeld'
  BY DEF PairIsHeld, CloseIsForHeld
<1>2. RefreshIsExclusive'
  BY DEF RefreshIsExclusive
<1>3. NoForwardIsLeaked'
  BY DEF NoForwardIsLeaked
<1> QED
  BY <1>1, <1>2, <1>3 DEF Body

\* Nothing changes but the callers.
LEMMA StillKeeps ==
  ASSUME TunnelInv,
         UNCHANGED <<opened, forwards, pools, held, live, closed, refresh, closing>>
  PROVE  Body'
BY DEF TunnelInv, Body, PairIsHeld, RefreshIsExclusive, CloseIsForHeld,
       NoForwardIsLeaked

\* Whatever a caller starts or joins through once().
Joined  == refresh.step # "none" /\ UNCHANGED <<live, pools, forwards, refresh>>
Started == refresh.step = "none" /\ (Check \/ Teardown)

\* once(), joining or starting, keeps what the invariant says of the adapter.
LEMMA OnceKeeps ==
  ASSUME TunnelInv, Joined \/ Started,
         UNCHANGED <<opened, held, closed, closing>>
  PROVE  Body' /\ forwards' = forwards
<1>1. CASE refresh.step # "none" /\ UNCHANGED <<live, pools, forwards, refresh>>
  BY <1>1, StillKeeps
<1>2. CASE refresh.step = "none" /\ Teardown
  BY <1>2, TeardownKeeps DEF Teardown
<1>3. CASE /\ refresh.step = "none"
           /\ refresh' = IF idle THEN At("probing", held, FALSE) ELSE Settled(TRUE)
           /\ UNCHANGED <<live, pools, forwards>>
  <2>1. idle \/ ~idle
    OBVIOUS
  <2>2. CASE idle
    <3>1. refresh'.step = "probing" /\ refresh'.pair = held
      BY <1>3, <2>2 DEF At
    <3> QED
      BY <1>3, <3>1, QuietKeeps
  <2>3. CASE ~idle
    BY <1>3, <2>3, QuietKeeps, RefreshFields
  <2> QED
    BY <2>1, <2>2, <2>3
<1> QED
  BY <1>1, <1>2, <1>3 DEF Joined, Started, Check

-----------------------------------------------------------------------------
(***************************************************************************)
(* Types.                                                                  *)
(***************************************************************************)
\* A caller enters a phase, with the pair it concerns.
LEMMA EnterTypes ==
  ASSUME calls \in [Callers -> Call], NEW c \in Callers,
         NEW phase \in {"idle", "waiting", "cleared", "running",
                        "outwaiting", "forcing", "reconnecting"},
         NEW pair \in Forward \cup {None},
         calls' = [calls EXCEPT ![c] = [phase |-> phase, pair |-> pair]]
  PROVE  calls' \in [Callers -> Call]
BY DEF Call

\* once() leaves a refresh of the right type.
LEMMA OnceTypes ==
  ASSUME TypeOK, Joined \/ Started
  PROVE  /\ refresh' \in Refresh /\ live' \in BOOLEAN
         /\ pools' \in SUBSET Forward /\ forwards' = forwards
<1> USE DEF TypeOK
<1>1. CASE refresh.step # "none" /\ UNCHANGED <<live, pools, forwards, refresh>>
  BY <1>1
<1>2. CASE Teardown
  <2>1. (held \notin pools) \in BOOLEAN
    OBVIOUS
  <2> QED
    BY <1>2, <2>1, RefreshFields DEF Teardown
<1>3. CASE /\ refresh' = IF idle THEN At("probing", held, FALSE) ELSE Settled(TRUE)
           /\ UNCHANGED <<live, pools, forwards>>
  BY <1>3, RefreshFields
<1> QED
  BY <1>1, <1>2, <1>3 DEF Joined, Started, Check

\* Every step preserves the types.
LEMMA TunnelType == TunnelInv /\ [Next]_vars => TypeOK'
<1> SUFFICES ASSUME TunnelInv, [Next]_vars PROVE TypeOK'
  OBVIOUS
<1>0. TypeOK
  BY DEF TunnelInv
<1> USE <1>0 DEF TypeOK
<1>1. ASSUME NEW c \in Callers, Query(c) PROVE TypeOK'
  <2>1. Joined \/ Started
    BY <1>1 DEF Query, Once, Joined, Started
  <2>2. calls' \in [Callers -> Call]
    BY <1>1, EnterTypes DEF Query, Enter
  <2> QED
    BY <1>1, <2>1, <2>2, OnceTypes DEF Query
<1>2. ASSUME NEW c \in Callers, Run(c) PROVE TypeOK'
  <2>1. CASE Enter(c, "running", held) /\ UNCHANGED idle
    BY <1>2, <2>1, EnterTypes DEF Run, Enter
  <2>2. CASE Enter(c, "idle", None) /\ idle' = FALSE
    BY <1>2, <2>2, EnterTypes DEF Run, Enter
  <2> QED
    BY <1>2, <2>1, <2>2 DEF Run
<1>3. ASSUME NEW c \in Callers, Answer(c) PROVE TypeOK'
  BY <1>3, EnterTypes DEF Answer, Enter
<1>4. ASSUME NEW c \in Callers, Reconnect(c) PROVE TypeOK'
  BY <1>4, EnterTypes DEF Reconnect, Enter
<1>5. ASSUME NEW c \in Callers, Reopen(c) PROVE TypeOK'
  <2>1. calls[c].pair \in Forward \cup {None}
    BY DEF Call
  <2>2. calls' \in [Callers -> Call]
    BY <1>5, <2>1, EnterTypes DEF Reopen, Enter
  <2>3. Joined \/ Started
    BY <1>5 DEF Reopen, Once, Joined, Started
  <2> QED
    BY <1>5, <2>2, <2>3, OnceTypes DEF Reopen
<1>6. CASE ProbeAnswered
  BY <1>6, RefreshFields DEF ProbeAnswered
<1>7. CASE ProbeFailed
  <2>1. (held \notin pools) \in BOOLEAN
    OBVIOUS
  <2> QED
    BY <1>7, <2>1, RefreshFields DEF ProbeFailed, Teardown
<1>8. CASE Drained
  BY <1>8, RefreshFields DEF Drained
<1>9. CASE Dialled
  <2>1. opened + 1 \in Forward
    BY <1>9, TunneledAdapterAssumption DEF Dialled
  <2> QED
    BY <1>9, <2>1, RefreshFields DEF Dialled
<1>10. CASE DialFailed
  BY <1>10, RefreshFields DEF DialFailed
<1>11. CASE Built
  <2>1. refresh.pair \in Forward
    BY <1>11 DEF Built, TunnelInv, RefreshIsExclusive
  <2> QED
    BY <1>11, <2>1, RefreshFields DEF Built
<1>12. CASE BuildFailed
  BY <1>12, RefreshFields DEF BuildFailed
<1>13. CASE Settle
  <2>1. ASSUME NEW c \in Callers PROVE Resumed(calls[c], refresh.ok) \in Call
    BY DEF Resumed, Call, Ready
  <2> QED
    BY <1>13, <2>1, RefreshFields DEF Settle
<1>14. CASE Close
  <2>1. closing' \in Closing
    BY <1>14 DEF Close, Closing
  <2>2. pools' \in SUBSET Forward
    BY <1>14 DEF Close
  <2> QED
    BY <1>14, <2>1, <2>2 DEF Close
<1>15. CASE CloseDrained
  BY <1>15 DEF CloseDrained, Closing
<1>16. CASE Tick
  BY <1>16 DEF Tick
<1>17. CASE UNCHANGED vars
  BY <1>17 DEF vars
<1>18. ASSUME NEW c \in Callers, Refuse(c) PROVE TypeOK'
  BY <1>17, <1>18 DEF Refuse
<1>19. CASE Refreshing
  BY <1>19, <1>6, <1>7, <1>8, <1>9, <1>10, <1>11, <1>12, <1>13 DEF Refreshing
<1> QED
  BY <1>1, <1>2, <1>3, <1>4, <1>5, <1>14, <1>15, <1>16, <1>17, <1>18, <1>19
     DEF Next

-----------------------------------------------------------------------------
(***************************************************************************)
(* The adapter itself.                                                     *)
(***************************************************************************)
\* Every step preserves what the invariant says of the adapter.
LEMMA BodyStep == TunnelInv /\ [Next]_vars => Body'
<1> SUFFICES ASSUME TunnelInv, [Next]_vars PROVE Body'
  OBVIOUS
<1>0. TypeOK /\ PairIsHeld /\ RefreshIsExclusive /\ CloseIsForHeld /\ NoForwardIsLeaked
  BY DEF TunnelInv
<1>1. ASSUME NEW c \in Callers, Query(c) PROVE Body'
  <2>1. Joined \/ Started
    BY <1>1 DEF Query, Once, Joined, Started
  <2> QED
    BY <1>1, <2>1, OnceKeeps DEF Query
<1>2. ASSUME NEW c \in Callers, Run(c) PROVE Body'
  BY <1>2, StillKeeps DEF Run
<1>3. ASSUME NEW c \in Callers, Answer(c) PROVE Body'
  BY <1>3, StillKeeps DEF Answer
<1>4. ASSUME NEW c \in Callers, Reconnect(c) PROVE Body'
  BY <1>4, StillKeeps DEF Reconnect
<1>5. ASSUME NEW c \in Callers, Reopen(c) PROVE Body'
  <2>1. Joined \/ Started
    BY <1>5 DEF Reopen, Once, Joined, Started
  <2> QED
    BY <1>5, <2>1, OnceKeeps DEF Reopen
<1>6. CASE ProbeAnswered
  BY <1>6, QuietKeeps, RefreshFields DEF ProbeAnswered
<1>7. CASE ProbeFailed
  BY <1>7, TeardownKeeps DEF ProbeFailed
<1>8. CASE Drained
  <2>1. forwards' = {}
    BY <1>8, <1>0 DEF Drained, PairIsHeld, RefreshIsExclusive
  <2>2. refresh'.step = "dialling"
    BY <1>8 DEF Drained, At
  <2> QED
    BY <1>8, <1>0, <2>1, <2>2
       DEF Drained, Body, PairIsHeld, RefreshIsExclusive, CloseIsForHeld,
           NoForwardIsLeaked
<1>9. CASE Dialled
  <2>1. refresh'.step = "building" /\ refresh'.pair = opened + 1
    BY <1>9 DEF Dialled, At
  <2>2. forwards' = {opened + 1} /\ ~live
    BY <1>9, <1>0 DEF Dialled, RefreshIsExclusive
  <2>3. opened \in Nat /\ held \in Nat /\ held <= opened
    BY <1>0, TunneledAdapterAssumption DEF TypeOK, PairIsHeld
  <2>8. /\ opened' = opened + 1 /\ held' = held /\ live' = live
        /\ pools' = pools
    BY <1>9 DEF Dialled
  <2>9. held < opened + 1 /\ held <= opened + 1
    BY <2>3
  <2>4. PairIsHeld'
    BY <1>0, <2>1, <2>2, <2>8, <2>9 DEF PairIsHeld
  <2>5. RefreshIsExclusive'
    BY <2>1, <2>2, <2>8, <2>9 DEF RefreshIsExclusive
  <2>6. NoForwardIsLeaked'
    BY <1>9, <2>1, <2>2 DEF NoForwardIsLeaked
  <2>7. CloseIsForHeld'
    BY <1>9, <1>0 DEF Dialled, CloseIsForHeld
  <2> QED
    BY <2>4, <2>5, <2>6, <2>7 DEF Body
<1>10. CASE DialFailed
  BY <1>10, QuietKeeps, RefreshFields DEF DialFailed
<1>11. CASE Built
  <2>1. refresh'.step = "settled"
    BY <1>11 DEF Built, Settled
  <2>2. refresh.pair = opened /\ held < opened /\ forwards = {opened} /\ ~live
    BY <1>11, <1>0 DEF Built, RefreshIsExclusive
  <2>3. PairIsHeld'
    <3>1. /\ pools' = {opened} /\ held' = opened /\ live' = TRUE
          /\ forwards' = {opened} /\ opened' = opened
      BY <1>11, <1>0, <2>2 DEF Built, PairIsHeld
    <3>2. opened \in Nat
      BY <1>0, TunneledAdapterAssumption DEF TypeOK
    <3> QED
      BY <3>1, <3>2 DEF PairIsHeld
  <2>4. RefreshIsExclusive'
    BY <2>1 DEF RefreshIsExclusive
  <2>6. NoForwardIsLeaked'
    BY <1>11, <2>2 DEF Built, NoForwardIsLeaked
  <2>5. CloseIsForHeld'
    BY <1>11, <1>0, <2>2 DEF Built, TypeOK, Closing, CloseIsForHeld
  <2> QED
    BY <2>3, <2>4, <2>5, <2>6 DEF Body
<1>12. CASE BuildFailed
  <2>1. refresh'.step = "settled"
    BY <1>12 DEF BuildFailed, Settled
  <2>2. forwards' = {} /\ ~live
    BY <1>12, <1>0 DEF BuildFailed, RefreshIsExclusive
  <2> QED
    BY <1>12, <1>0, <2>1, <2>2
       DEF BuildFailed, Body, PairIsHeld, RefreshIsExclusive, CloseIsForHeld,
           NoForwardIsLeaked
<1>13. CASE Settle
  BY <1>13, QuietKeeps, RefreshFields DEF Settle
<1>14. CASE Close
  <2>1. CASE live
    <3>1. /\ pools' = {} /\ live' = FALSE /\ closing'.step = "draining"
          /\ closing'.pair = held
      BY <1>14, <1>0, <2>1 DEF Close, PairIsHeld
    <3> QED
      BY <1>14, <1>0, <2>1, <3>1
         DEF Close, TypeOK, Body, PairIsHeld, RefreshIsExclusive,
             CloseIsForHeld, NoForwardIsLeaked
  <2>2. CASE ~live
    <3>1. closing'.step = "done" /\ pools' = pools /\ closing.step = "no"
      BY <1>14, <1>0, <2>2 DEF Close, TypeOK, Closing, CloseIsForHeld
    <3> QED
      BY <1>14, <1>0, <2>2, <3>1
         DEF Close, Body, PairIsHeld, RefreshIsExclusive, CloseIsForHeld,
             NoForwardIsLeaked
  <2> QED
    BY <2>1, <2>2
<1>15. CASE CloseDrained
  <2>0. closing.pair \in Nat /\ held \in Nat /\ opened \in Nat
    BY <1>0, TunneledAdapterAssumption DEF TypeOK, Closing
  <2>1. /\ closing.pair <= held /\ (live => held # closing.pair)
        /\ (held < opened => opened # closing.pair)
    BY <1>15, <1>0, <2>0 DEF CloseDrained, CloseIsForHeld
  <2>2. closing'.step = "done" /\ closed
    BY <1>15, <1>0 DEF CloseDrained, CloseIsForHeld
  <2>3. PairIsHeld'
    BY <1>15, <1>0, <2>1 DEF CloseDrained, TypeOK, PairIsHeld
  <2>4. RefreshIsExclusive'
    BY <1>15, <1>0, <2>1, <2>2 DEF CloseDrained, TypeOK, RefreshIsExclusive
  <2>5. NoForwardIsLeaked' /\ CloseIsForHeld'
    BY <1>15, <1>0, <2>2 DEF CloseDrained, NoForwardIsLeaked, CloseIsForHeld
  <2> QED
    BY <2>3, <2>4, <2>5 DEF Body
<1>16. CASE Tick
  BY <1>16, StillKeeps DEF Tick
<1>17. CASE UNCHANGED vars
  BY <1>17, StillKeeps DEF vars
<1>18. ASSUME NEW c \in Callers, Refuse(c) PROVE Body'
  BY <1>17, <1>18 DEF Refuse
<1>19. CASE Refreshing
  BY <1>19, <1>6, <1>7, <1>8, <1>9, <1>10, <1>11, <1>12, <1>13 DEF Refreshing
<1> QED
  BY <1>1, <1>2, <1>3, <1>4, <1>5, <1>14, <1>15, <1>16, <1>17, <1>18, <1>19
     DEF Next

-----------------------------------------------------------------------------
(***************************************************************************)
(* The queries running over it.                                            *)
(***************************************************************************)
\* A caller that enters a phase, running or not, leaves the others alone.
LEMMA EnterRuns ==
  ASSUME TypeOK, NEW c \in Callers, NEW phase, NEW pair,
         calls' = [calls EXCEPT ![c] = [phase |-> phase, pair |-> pair]],
         NEW d \in Callers, NEW call, calls'[d] = call
  PROVE  calls[d] = call \/ call = [phase |-> phase, pair |-> pair]
BY DEF TypeOK

\* A query starts only over the pair held, while its pool is open.
LEMMA QueriesStart ==
  ASSUME TunnelInv, [Next]_vars, NEW d \in Callers, NEW f \in Forward,
         RunsOn(d, f)'
  PROVE  \/ RunsOn(d, f)
         \/ f = held /\ f \in forwards /\ held' = held /\ forwards' = forwards
<1>0. TypeOK /\ PairIsHeld
  BY DEF TunnelInv
<1> DEFINE Running == [phase |-> "running", pair |-> f]
<1>a. calls'[d] = Running
  BY DEF RunsOn
<1>b. calls[d] = Running => RunsOn(d, f)
  BY DEF RunsOn
<1>c. \A phase, pair : Running = [phase |-> phase, pair |-> pair]
                        => phase = "running" /\ pair = f
  OBVIOUS
<1>1. ASSUME NEW c \in Callers, Query(c) PROVE RunsOn(d, f)
  BY <1>1, <1>0, <1>a, <1>b, <1>c, EnterRuns DEF Query, Enter
<1>2. ASSUME NEW c \in Callers, Run(c)
      PROVE  \/ RunsOn(d, f)
             \/ f = held /\ f \in forwards /\ held' = held /\ forwards' = forwards
  <2>1. CASE held \in pools /\ Enter(c, "running", held)
    <3>1. held \in forwards
      BY <1>0, <2>1 DEF PairIsHeld
    <3> QED
      BY <1>2, <1>0, <2>1, <3>1, <1>a, <1>b, <1>c, EnterRuns DEF Run, Enter
  <2>2. CASE Enter(c, "idle", None)
    BY <1>0, <2>2, <1>a, <1>b, <1>c, EnterRuns DEF Enter
  <2> QED
    BY <1>2, <2>1, <2>2 DEF Run
<1>3. ASSUME NEW c \in Callers, Answer(c) PROVE RunsOn(d, f)
  BY <1>3, <1>0, <1>a, <1>b, <1>c, EnterRuns DEF Answer, Enter
<1>4. ASSUME NEW c \in Callers, Reconnect(c) PROVE RunsOn(d, f)
  BY <1>4, <1>0, <1>a, <1>b, <1>c, EnterRuns DEF Reconnect, Enter
<1>5. ASSUME NEW c \in Callers, Reopen(c) PROVE RunsOn(d, f)
  BY <1>5, <1>0, <1>a, <1>b, <1>c, EnterRuns DEF Reopen, Enter
<1>6. CASE Settle
  BY <1>6, <1>0 DEF Settle, Resumed, RunsOn, TypeOK, Call, Ready
<1>7. CASE UNCHANGED calls
  BY <1>7 DEF RunsOn
<1>8. CASE Refreshing /\ ~Settle
  BY <1>7, <1>8 DEF Refreshing, ProbeAnswered, ProbeFailed, Drained, Dialled,
                    DialFailed, Built, BuildFailed
<1>9. CASE Close \/ CloseDrained \/ Tick \/ UNCHANGED vars
  BY <1>7, <1>9 DEF Close, CloseDrained, Tick, vars
<1>10. ASSUME NEW c \in Callers, Refuse(c) PROVE RunsOn(d, f)
  <2>1. UNCHANGED calls
    BY <1>10 DEF Refuse, vars
  <2> QED
    BY <1>a, <1>b, <2>1
<1> QED
  BY <1>1, <1>2, <1>3, <1>4, <1>5, <1>6, <1>8, <1>9, <1>10 DEF Next

\* Until close() a forward is cut only when no query runs over it.
LEMMA OnlyUnusedIsCut ==
  ASSUME TunnelInv, [Next]_vars, ~closed', NEW f \in forwards, f \notin forwards'
  PROVE  \A d \in Callers : ~RunsOn(d, f)
<1>0. RefreshIsExclusive /\ CloseIsForHeld /\ QueriesAreAdmitted /\ TypeOK
  BY DEF TunnelInv
<1>1. ASSUME NEW c \in Callers, Query(c) PROVE FALSE
  <2>1. Joined \/ Started
    BY <1>1 DEF Query, Once, Joined, Started
  <2> QED
    BY <1>1, <2>1, OnceKeeps DEF Query
<1>2. ASSUME NEW c \in Callers, Reopen(c) PROVE FALSE
  <2>1. Joined \/ Started
    BY <1>2 DEF Reopen, Once, Joined, Started
  <2> QED
    BY <1>2, <2>1, OnceKeeps DEF Reopen
<1>3. ASSUME NEW c \in Callers, Run(c) \/ Answer(c) \/ Reconnect(c) \/ Refuse(c)
      PROVE  FALSE
  BY <1>3 DEF Run, Answer, Reconnect, Refuse, vars
<1>4. CASE Drained
  <2>1. ~closed /\ ~refresh.again /\ f = refresh.pair
    BY <1>4, <1>0 DEF Drained, RefreshIsExclusive
  <2> QED
    BY <1>4, <2>1 DEF Drained, Busy
<1>5. CASE BuildFailed
  <2>1. f = opened /\ held < opened /\ f \in Forward /\ held \in Forward
    BY <1>5, <1>0 DEF BuildFailed, RefreshIsExclusive, TypeOK
  <2>2. ~(f <= held)
    BY <2>1, TunneledAdapterAssumption
  <2> QED
    BY <1>0, <2>1, <2>2 DEF QueriesAreAdmitted
<1>6. CASE Refreshing /\ ~Drained /\ ~BuildFailed
  BY <1>6 DEF Refreshing, ProbeAnswered, ProbeFailed, Teardown, Dialled,
              DialFailed, Built, Settle
<1>7. CASE Close \/ CloseDrained \/ Tick \/ UNCHANGED vars
  BY <1>7, <1>0 DEF Close, CloseDrained, Tick, vars, CloseIsForHeld
<1> QED
  BY <1>1, <1>2, <1>3, <1>4, <1>5, <1>6, <1>7 DEF Next

\* A rebuild only ever moves on to a later pair, and closed is for good.
LEMMA HeldGrows ==
  ASSUME TunnelInv, [Next]_vars
  PROVE  held \in Nat /\ held' \in Nat /\ held <= held' /\ (closed => closed')
<1>0. RefreshIsExclusive /\ TypeOK
  BY DEF TunnelInv
<1>1. held \in Nat
  BY <1>0, TunneledAdapterAssumption DEF TypeOK
<1>2. CASE Built
  <2>1. held' = opened /\ held < opened /\ opened \in Nat
    BY <1>2, <1>0, TunneledAdapterAssumption DEF Built, RefreshIsExclusive, TypeOK
  <2> QED
    BY <1>1, <1>2, <2>1 DEF Built
<1>3. CASE held' = held /\ (closed => closed')
  BY <1>1, <1>3
<1>4. ASSUME NEW c \in Callers,
             \/ Query(c) \/ Run(c) \/ Answer(c) \/ Reconnect(c) \/ Reopen(c)
             \/ Refuse(c)
      PROVE  held' = held /\ (closed => closed')
  BY <1>4 DEF Query, Run, Answer, Reconnect, Reopen, Refuse, vars
<1>5. CASE Refreshing /\ ~Built
  <2>1. held' = held /\ closed' = closed
    BY <1>5 DEF Refreshing, ProbeAnswered, ProbeFailed, Drained, Dialled,
                DialFailed, BuildFailed, Settle
  <2> QED
    BY <1>3, <2>1
<1>6. CASE Close \/ CloseDrained \/ Tick \/ UNCHANGED vars
  BY <1>3, <1>6 DEF Close, CloseDrained, Tick, vars
<1> QED
  BY <1>2, <1>3, <1>4, <1>5, <1>6 DEF Next

\* Every step leaves each running query its forward, until close().
LEMMA QueryStep ==
  TunnelInv /\ [Next]_vars => (ForwardOutlivesQueries /\ QueriesAreAdmitted)'
<1> SUFFICES ASSUME TunnelInv, [Next]_vars, NEW d \in Callers, NEW f \in Forward,
                    RunsOn(d, f)'
             PROVE  f <= held' /\ (~closed' => f \in forwards')
  BY DEF ForwardOutlivesQueries, QueriesAreAdmitted
<1>1. \/ RunsOn(d, f)
      \/ f = held /\ f \in forwards /\ held' = held /\ forwards' = forwards
  BY QueriesStart
<1>2. held \in Nat /\ held' \in Nat /\ held <= held' /\ (closed => closed')
  BY HeldGrows
<1>3. f \in Nat
  BY TunneledAdapterAssumption
<1>4. f <= held
  BY <1>1, <1>2 DEF TunnelInv, QueriesAreAdmitted
<1>5. ~closed' => f \in forwards
  BY <1>1, <1>2 DEF TunnelInv, ForwardOutlivesQueries
<1>6. ~closed' => f \in forwards'
  BY <1>1, <1>5, OnlyUnusedIsCut
<1> QED
  BY <1>2, <1>3, <1>4, <1>6

-----------------------------------------------------------------------------
\* TunnelInv holds of every reachable state, whatever the number of callers.
THEOREM TunnelInvariant == Spec => []TunnelInv
<1>1. Init => TunnelInv
  BY TunnelInit
<1>2. TunnelInv /\ [Next]_vars => TunnelInv'
  <2>1. Body' => (PairIsHeld /\ RefreshIsExclusive /\ CloseIsForHeld
                  /\ NoForwardIsLeaked)'
    BY DEF Body
  <2> QED
    BY <2>1, TunnelType, BodyStep, QueryStep DEF TunnelInv
<1> QED
  BY <1>1, <1>2, PTL DEF Spec

\* Type correctness of the adapter.
THEOREM TunnelTypes == Spec => []TypeOK
<1>1. TunnelInv => TypeOK
  BY DEF TunnelInv
<1> QED
  BY <1>1, TunnelInvariant, PTL

\* Two callers never open two forwards, in any interleaving of any number of
\* callers, reconnects and closes.
THEOREM OneForwardTheorem == Spec => []OneForward
<1>1. TunnelInv => OneForward
  BY DEF TunnelInv, PairIsHeld, RefreshIsExclusive, OneForward
<1> QED
  BY <1>1, TunnelInvariant, PTL

\* Every forward that is up is somebody's to take down.
THEOREM NoLeakTheorem == Spec => []NoForwardIsLeaked
<1>1. TunnelInv => NoForwardIsLeaked
  BY DEF TunnelInv
<1> QED
  BY <1>1, TunnelInvariant, PTL

\* Until the adapter is closed no query loses the forward it runs over.
THEOREM ForwardTheorem == Spec => []ForwardOutlivesQueries
<1>1. TunnelInv => ForwardOutlivesQueries
  BY DEF TunnelInv
<1> QED
  BY <1>1, TunnelInvariant, PTL

-----------------------------------------------------------------------------
\* A close() that met no refresh and no reconnect (QuietCloseIsFinal).
QuietlyClosed == closed /\ ~live /\ Quiet

\* A closed adapter admits nobody, so nothing starts a rebuild again and a
\* forward can only go.
LEMMA QuietStaysQuiet ==
  ASSUME TypeOK, [Next]_vars, QuietlyClosed
  PROVE  QuietlyClosed' /\ opened' = opened /\ forwards' \subseteq forwards
<1> USE DEF QuietlyClosed, Quiet
<1>0. closed \in BOOLEAN /\ live \in BOOLEAN
  BY DEF TypeOK
<1>1. ~Refreshing
  BY DEF Refreshing, ProbeAnswered, ProbeFailed, Drained, Dialled, DialFailed, Built,
         BuildFailed, Settle
<1>2. ~Close /\ \A c \in Callers : ~Query(c) /\ ~Reconnect(c) /\ ~Reopen(c)
  BY DEF Close, Query, Reconnect, Reopen
<1>3. \/ \E c \in Callers : Run(c) \/ Answer(c)
      \/ CloseDrained \/ Tick \/ UNCHANGED vars
  BY <1>1, <1>2 DEF Next, Refuse
<1>4. UNCHANGED <<closed, live, refresh, opened>> /\ forwards' \subseteq forwards
  BY <1>3 DEF Run, Answer, CloseDrained, Tick, vars
<1>5. ASSUME NEW d \in Callers, InPhase(d, "forcing")'
      PROVE  InPhase(d, "forcing")
  <2>1. ASSUME NEW c \in Callers, Run(c) \/ Answer(c)
        PROVE  InPhase(d, "forcing")
    <3>1. PICK pair : Enter(c, "running", pair) \/ Enter(c, "idle", pair)
      BY <2>1 DEF Run, Answer
    <3>2. c = d => calls'[d].phase \in {"running", "idle"}
      BY <3>1 DEF Enter, TypeOK
    <3>3. c # d => calls'[d] = calls[d]
      BY <3>1 DEF Enter, TypeOK
    <3> QED
      BY <1>5, <3>2, <3>3 DEF InPhase
  <2>2. CASE CloseDrained \/ Tick \/ UNCHANGED vars
    BY <1>5, <2>2 DEF CloseDrained, Tick, vars, InPhase
  <2> QED
    BY <1>3, <2>1, <2>2
<1>6. closed' /\ ~live'
  BY <1>0, <1>4
<1>7. Quiet'
  BY <1>4, <1>5
<1> QED
  BY <1>4, <1>6, <1>7

\* What QuietCloseIsFinal promises apart from the waiting: after a quiet close no
\* forward is ever dialled again, and one that is still up is the one close() is
\* draining, which CloseDrained takes down.
THEOREM QuietCloseTheorem ==
  Spec => /\ [](QuietlyClosed => \A f \in forwards :
                                   closing.step = "draining" /\ closing.pair = f)
          /\ [][QuietlyClosed =>
                  QuietlyClosed' /\ opened' = opened /\ forwards' \subseteq forwards]_vars
<1>1. TunnelInv => (QuietlyClosed => \A f \in forwards :
                                       closing.step = "draining" /\ closing.pair = f)
  BY DEF TunnelInv, QuietlyClosed, Quiet, NoForwardIsLeaked
<1>2. TunnelInv /\ [Next]_vars =>
        [QuietlyClosed =>
           QuietlyClosed' /\ opened' = opened /\ forwards' \subseteq forwards]_vars
  BY QuietStaysQuiet DEF TunnelInv
<1> QED
  BY <1>1, <1>2, TunnelInvariant, PTL DEF Spec

=============================================================================
