--------------------------- MODULE SchemaSidebar ---------------------------
(***************************************************************************)
(* What the SQL page learns of a schema: the sidebar's table listing and   *)
(* its lazily loaded columns (useSchemaBrowser.ts, SchemaBrowser.vue), and *)
(* the fan-out of describes a Suggest runs (useTableDescriptions.ts).      *)
(* Other clients create and drop tables meanwhile; every request may fail; *)
(* the connection list, which names the driver, may land late or never.    *)
(*                                                                         *)
(* The awaits are the steps: a handler runs from one await to the next     *)
(* without interruption.  Columns are reduced to the route they came by.   *)
(***************************************************************************)
EXTENDS Integers, Sequences, FiniteSets

CONSTANTS
  SideTables,  \* the tables there may be, numbers, listed in that order
  Pool,        \* MAX_CONCURRENT_DESCRIBES
  MaxChanges,  \* bound: tables created or dropped by others
  Unknown      \* the driver before the connection list has landed

ASSUME SidebarAssumption ==
  /\ SideTables \in SUBSET Int /\ IsFiniteSet(SideTables)
  /\ Pool \in Nat \ {0} /\ MaxChanges \in Nat

VARIABLES
  engine,      \* the connection: its driver, and can it describe a table
  there,       \* the tables of the database
  changes,     \* how often that changed
  driver,      \* the driver as the page knows it
  list,        \* state and tables of useSchemaBrowser
  probe,       \* describeProbe: "none", "asked", "yes" or "no"
  entry,       \* columnCache: of each table [state, via]
  sent,        \* the statement built last: [known, dialect]
  offered,     \* `supported`: "asked", or the answer of the panel's own probe
  fan          \* the latest describeAll

sidebarVars == <<engine, there, changes, driver, list, probe, entry, sent,
                 offered, fan>>

Drivers == {"postgres", "mysql"}
Routes == {"describe", "shallow"}

Fan == [asked : UNION {[1..n -> SideTables] : n \in 0..Cardinality(SideTables)},
        next : Nat, at : [1..Pool -> Nat], slots : SUBSET Nat, failed : Nat]

SidebarTypeOK ==
  /\ engine \in [driver : Drivers, describes : BOOLEAN]
  /\ there \subseteq SideTables /\ changes \in 0..MaxChanges
  /\ driver \in {Unknown, engine.driver}
  /\ list \in [state : {"idle", "loading", "error"}, tables : SUBSET SideTables]
  /\ probe \in {"none", "asked", "yes", "no"}
  /\ entry \in [SideTables -> [state : {"idle", "loading", "loaded", "error"},
                           via : {"none", "probe"} \cup Routes]]
  /\ sent \in [known : BOOLEAN, dialect : {"ansi", "mysql"}]
  /\ offered \in {"asked", "yes", "no"}
  /\ fan \in Fan

(***************************************************************************)
(* dialectFor: MySQL quotes with backticks, anything else (and a driver    *)
(* not yet known) with the ANSI quote.  The dialect is asked for each time *)
(* a statement is built.                                                   *)
(***************************************************************************)
DialectOf(d) == IF d = "mysql" THEN "mysql" ELSE "ansi"

CurrentDialect == DialectOf(driver)

Built == [known |-> driver # Unknown, dialect |-> CurrentDialect]

NoFan == [asked |-> <<>>, next |-> 1, at |-> [w \in 1..Pool |-> 0],
          slots |-> {}, failed |-> 0]

(* onMounted of both composables: the listing and the panel's probe are out. *)
SidebarInit ==
  /\ engine \in [driver : Drivers, describes : BOOLEAN]
  /\ there \in SUBSET SideTables
  /\ changes = 0
  /\ driver = Unknown
  /\ list = [state |-> "loading", tables |-> {}]
  /\ probe = "none"
  /\ entry = [t \in SideTables |-> [state |-> "idle", via |-> "none"]]
  /\ sent = [known |-> FALSE, dialect |-> "ansi"]
  /\ offered = "asked"
  /\ fan = NoFan

----------------------------------------------------------------------------
(* The world outside the page. *)

TableComesOrGoes(t) ==
  /\ changes < MaxChanges
  /\ changes' = changes + 1
  /\ there' = IF t \in there THEN there \ {t} ELSE there \cup {t}
  /\ UNCHANGED <<engine, driver, list, probe, entry, sent, offered, fan>>

ConnectionListLands ==
  /\ driver = Unknown
  /\ driver' = engine.driver
  /\ UNCHANGED <<engine, there, changes, list, probe, entry, sent, offered, fan>>

----------------------------------------------------------------------------
(* refresh(): the button is disabled while a listing is out, so there is   *)
(* never a second one.  A failed listing keeps the tables it had.          *)

Refresh ==
  /\ list.state # "loading"
  /\ list' = [list EXCEPT !.state = "loading"]
  /\ UNCHANGED <<engine, there, changes, driver, probe, entry, sent, offered, fan>>

Listed ==
  /\ list.state = "loading"
  /\ list' \in {[state |-> "idle", tables |-> there],
                [list EXCEPT !.state = "error"]}
  /\ UNCHANGED <<engine, there, changes, driver, probe, entry, sent, offered, fan>>

----------------------------------------------------------------------------
(* onToggleTable and loadColumns. *)

\* A slip: the answer is remembered and not its promise, so a table opened
\* while the probe is out sends one of its own.
MutProbed == IF probe = "yes" THEN "yes" ELSE "asked"

(* supportsDescribe is memoised as the promise, so a probe under way is    *)
(* shared.                                                                 *)
Probed == IF probe = "none" THEN "asked" ELSE probe

Toggle(t) ==
  /\ t \in list.tables
  /\ entry[t].state \in {"idle", "error"}
  /\ entry' = [entry EXCEPT ![t] = [state |-> "loading", via |-> "probe"]]
  /\ probe' = Probed
  /\ UNCHANGED <<engine, there, changes, driver, list, sent, offered, fan>>

(* A probe that fails counts as a "no". *)
ProbeAnswers ==
  /\ probe = "asked"
  /\ probe' \in {"no"} \cup (IF engine.describes THEN {"yes"} ELSE {})
  /\ UNCHANGED <<engine, there, changes, driver, list, entry, sent, offered, fan>>

Send(t) ==
  /\ entry[t].via = "probe"
  /\ \/ /\ probe = "yes"
        /\ entry' = [entry EXCEPT ![t].via = "describe"]
        /\ sent' = sent
     \/ /\ probe = "no"
        /\ entry' = [entry EXCEPT ![t].via = "shallow"]
        /\ sent' = Built
  /\ UNCHANGED <<engine, there, changes, driver, list, probe, offered, fan>>

(* Without a describe the columns come from SELECT ... LIMIT 0, which      *)
(* fails when the name is quoted for another engine; there is no fallback. *)
Answered(t) ==
  /\ entry[t].state = "loading" /\ entry[t].via \in Routes
  /\ \/ /\ t \in there
        /\ entry' = [entry EXCEPT ![t].state = "loaded"]
     \/ entry' = [entry EXCEPT ![t] = [state |-> "error", via |-> "none"]]
  /\ UNCHANGED <<engine, there, changes, driver, list, probe, sent, offered, fan>>

(* onBrowseTable, onInsertTable, onInsertColumn: the text handed to the    *)
(* editor is quoted in the dialect of the moment.                          *)
HandToEditor(t) ==
  /\ t \in list.tables
  /\ sent' = Built
  /\ UNCHANGED <<engine, there, changes, driver, list, probe, entry, offered, fan>>

----------------------------------------------------------------------------
(* The panel's column detail. *)

OfferAnswers ==
  /\ offered = "asked"
  /\ offered' \in {"no"} \cup (IF engine.describes THEN {"yes"} ELSE {})
  /\ UNCHANGED <<engine, there, changes, driver, list, probe, entry, sent, fan>>

FanUnderWay == \E w \in 1..Pool : fan.at[w] # 0

(* The tables in the order they are listed in. *)
InOrder(tables) ==
  {s \in [1..Cardinality(tables) -> tables] : \A i, j \in DOMAIN s : i < j => s[i] < s[j]}

(* aiTables: the page hands the panel a list only when it has come back. *)
AiTables == IF list.state = "idle" THEN list.tables ELSE {}

(* describeAll: each worker takes an index before its first await. *)
DescribeAll ==
  /\ offered = "yes" /\ ~FanUnderWay /\ AiTables # {}
  /\ \E tables \in InOrder(AiTables) :
       LET n == Len(tables)
           k == IF n < Pool THEN n ELSE Pool
       IN  fan' = [NoFan EXCEPT !.asked = tables, !.next = k + 1,
                                !.at = [w \in 1..Pool |-> IF w <= k THEN w ELSE 0]]
  /\ UNCHANGED <<engine, there, changes, driver, list, probe, entry, sent, offered>>

(* A worker whose table has been answered takes the next index; past the   *)
(* end it returns.                                                         *)
TakesNext(f, w) ==
  IF f.next <= Len(f.asked) THEN [f EXCEPT !.at[w] = f.next, !.next = @ + 1]
  ELSE [f EXCEPT !.at[w] = 0]

\* A slip: a failed describe is asked for again.
MutAfterDescribeFails(f, w) == f

(* One describe that fails is counted, and its worker goes on. *)
AfterDescribeFails(f, w) == TakesNext([f EXCEPT !.failed = @ + 1], w)

TableDescribed(w) ==
  /\ fan.at[w] # 0
  /\ fan' = TakesNext([fan EXCEPT !.slots = @ \cup {fan.at[w]}], w)
  /\ fan.asked[fan.at[w]] \in there
  /\ UNCHANGED <<engine, there, changes, driver, list, probe, entry, sent, offered>>

TableDescribeFails(w) ==
  /\ fan.at[w] # 0
  /\ fan' = AfterDescribeFails(fan, w)
  /\ UNCHANGED <<engine, there, changes, driver, list, probe, entry, sent, offered>>

----------------------------------------------------------------------------
Listing == Refresh \/ Listed \/ \E t \in SideTables : TableComesOrGoes(t)

Columns == \/ ConnectionListLands \/ ProbeAnswers
           \/ \E t \in SideTables : Toggle(t) \/ Send(t) \/ Answered(t) \/ HandToEditor(t)

Describing == \/ OfferAnswers \/ DescribeAll
              \/ \E w \in 1..Pool : TableDescribed(w) \/ TableDescribeFails(w)

SidebarNext == Listing \/ Columns \/ Describing

SidebarSpec == SidebarInit /\ [][SidebarNext]_sidebarVars

(* Every describe the browser sent is answered, or fails. *)
FanAnswers(w) == TableDescribed(w) \/ TableDescribeFails(w)

FanFairness == \A w \in 1..Pool : WF_sidebarVars(FanAnswers(w))

FairSidebarSpec == SidebarSpec /\ FanFairness

----------------------------------------------------------------------------
(* However many tables are opened at once, the session settles on one      *)
(* route: their columns all come from the describe, or all from LIMIT 0    *)
(* (useSchemaBrowser.ts:137-151).                                          *)
OneRoute ==
  \A t, u \in SideTables :
     entry[t].via \in Routes /\ entry[u].via \in Routes => entry[t].via = entry[u].via

(* Once the page knows the driver, what the sidebar builds is quoted for   *)
(* it, although the sidebar was mounted before                             *)
(* (useSchemaBrowser.ts:90-97,112-117).                                    *)
QuotedOnceKnown == sent.known => sent.dialect = DialectOf(engine.driver)

(* The fan-out keeps to its ceiling, asks for no table twice, and at its   *)
(* end every table either has its description, in the order listed, or is  *)
(* counted as failed (useTableDescriptions.ts:71-107).                     *)
FanOutIsComplete ==
  LET busy == {w \in 1..Pool : fan.at[w] # 0}
  IN  /\ \A i, j \in DOMAIN fan.asked : fan.asked[i] = fan.asked[j] => i = j
      /\ \A v, w \in busy : v # w => fan.at[v] # fan.at[w]
      /\ \A w \in busy : fan.at[w] \notin fan.slots /\ fan.at[w] < fan.next
      /\ fan.failed + Cardinality(fan.slots) + Cardinality(busy) = fan.next - 1
      /\ busy = {} => fan.failed + Cardinality(fan.slots) = Len(fan.asked)

(* Columns come by one route, quoted for the engine once it is known, and  *)
(* a fan-out accounts for every table (useSchemaBrowser.ts:90-172,         *)
(* useTableDescriptions.ts:71-107).                                        *)
SchemaIsTold == OneRoute /\ QuotedOnceKnown /\ FanOutIsComplete

(* A Suggest is not held up by a table that cannot be described: the       *)
(* fan-out ends (useTableDescriptions.ts:72-74).                           *)
FanOutEnds == FanUnderWay ~> ~FanUnderWay
----------------------------------------------------------------------------
(* What the columns and the fan-out keep to between the awaits. *)

Busy(f) == {w \in 1..Pool : f.at[w] # 0}

RouteFollowsProbe ==
  \A t \in SideTables : /\ entry[t].via = "describe" => probe = "yes"
                        /\ entry[t].via = "shallow" => probe = "no"

(* Each index taken is a worker's, a description's or a failure's; a       *)
(* worker rests only when none is left.                                    *)
Accounted(f) ==
  /\ \A i, j \in DOMAIN f.asked : f.asked[i] = f.asked[j] => i = j
  /\ f.next \in 1..Len(f.asked) + 1
  /\ f.slots \subseteq 1..f.next - 1
  /\ \A w \in Busy(f) : f.at[w] \in (1..f.next - 1) \ f.slots
  /\ \A v, w \in Busy(f) : f.at[v] = f.at[w] => v = w
  /\ f.failed + Cardinality(f.slots) + Cardinality(Busy(f)) = f.next - 1
  /\ Busy(f) # 1..Pool => f.next = Len(f.asked) + 1

SidebarInv ==
  SidebarTypeOK /\ RouteFollowsProbe /\ QuotedOnceKnown /\ Accounted(fan)
=============================================================================
