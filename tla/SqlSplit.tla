------------------------------ MODULE SqlSplit ------------------------------
(***************************************************************************)
(* What a restore makes of a script's text: splitStatements() and the      *)
(* classification by leading keyword (domain/restore/split.ts, plan.ts).   *)
(*                                                                         *)
(* A text is a sequence of characters; a keyword is one of them, a letter. *)
(***************************************************************************)
EXTENDS Naturals, SequencesExt

\* Those the classification knows, one of each kind, and ABORT, which it does not.
Keywords == {"CREATE", "INSERT", "LOCK", "BEGIN"}
Letters  == Keywords \cup {"e", "t", "ABORT"}
Blank    == {" ", "\n"}

TagStart(c)  == c \in Letters
IdentChar(c) == c \in Letters \cup {"1"}

LOCAL At(sql, i) == IF i \in DOMAIN sql THEN sql[i] ELSE ""
LOCAL Two(sql, i, a, b) == At(sql, i) = a /\ At(sql, i + 1) = b

Trim(sql) ==
  LET solid == {i \in DOMAIN sql : sql[i] \notin Blank}
  IN  IF solid = {} THEN <<>> ELSE SubSeq(sql, Min(solid), Max(solid))

-----------------------------------------------------------------------------
(***************************************************************************)
(* Each skips one piece of the text, from its opener, and gives the place  *)
(* behind it: the end of the text if it is never closed.                   *)
(***************************************************************************)
PastLine(sql, open) ==
  Min({i \in open..Len(sql) : sql[i] = "\n"} \cup {Len(sql) + 1})

\* skipSingleQuoted() and skipDelimited(): a doubled delimiter stays inside.
PastQuoted(sql, open, delim, escapes) ==
  LET past[i \in Nat] ==
        IF i > Len(sql) THEN Len(sql) + 1
        ELSE IF escapes /\ sql[i] = "\\" /\ i < Len(sql) THEN past[i + 2]
        ELSE IF Two(sql, i, delim, delim) THEN past[i + 2]
        ELSE IF sql[i] = delim THEN i + 1
        ELSE past[i + 1]
  IN  past[open + 1]

MutPastComment(sql, open) ==
  LET closers == {i \in (open + 2)..Len(sql) : Two(sql, i, "*", "/")}
  IN  IF closers = {} THEN Len(sql) + 1 ELSE Min(closers) + 2

\* skipBlockComment(): they nest.
PastComment(sql, open) ==
  LET past[i \in Nat, depth \in Nat] ==
        IF i > Len(sql) THEN Len(sql) + 1
        ELSE IF Two(sql, i, "/", "*") THEN past[i + 2, depth + 1]
        ELSE IF Two(sql, i, "*", "/")
             THEN IF depth = 1 THEN i + 2 ELSE past[i + 2, depth - 1]
        ELSE past[i + 1, depth]
  IN  past[open + 2, 1]

\* The place of the `$` that may close a tag opened at `dollar`.
TagEnd(sql, dollar) ==
  IF TagStart(At(sql, dollar + 1))
  THEN Min({i \in (dollar + 2)..(Len(sql) + 1) : ~IdentChar(At(sql, i))})
  ELSE dollar + 1

\* tryOpenDollarQuote() and findDollarClose(): one that is not closed by a
\* second `$` is a character like others.
PastDollar(sql, dollar) ==
  LET tag   == TagEnd(sql, dollar)
      delim == SubSeq(sql, dollar, tag)
      found == {i \in (tag + 1)..(Len(sql) - Len(delim) + 1) :
                  SubSeq(sql, i, i + Len(delim) - 1) = delim}
  IN  IF At(sql, tag) # "$" THEN dollar + 1
      ELSE IF found = {} THEN Len(sql) + 1
      ELSE Min(found) + Len(delim)

\* isEscapeStringOpener(): an E that is not the end of a longer word.
IsEscapeString(sql, quote) ==
  At(sql, quote - 1) = "e" /\ ~IdentChar(At(sql, quote - 2))

\* The place behind the piece at i, for any i that is no `;`.
PieceEnd(sql, i) ==
  CASE Two(sql, i, "-", "-")     -> PastLine(sql, i + 2)
    [] Two(sql, i, "/", "*")     -> PastComment(sql, i)
    [] sql[i] = "'"              -> PastQuoted(sql, i, "'", IsEscapeString(sql, i))
    [] sql[i] \in {"\"", "backtick"}    -> PastQuoted(sql, i, sql[i], FALSE)
    [] sql[i] = "$"              -> PastDollar(sql, i)
    [] OTHER                     -> i + 1

\* Comments and whitespace make no statement.
IsContent(sql, i) ==
  ~Two(sql, i, "-", "-") /\ ~Two(sql, i, "/", "*") /\ sql[i] \notin Blank

SplitStatements(sql) ==
  LET Segment(start, end, hasContent) ==
        IF hasContent THEN <<Trim(SubSeq(sql, start, end))>> ELSE <<>>
      scan[i \in Nat, start \in Nat, hasContent \in BOOLEAN] ==
        IF i > Len(sql) THEN Segment(start, Len(sql), hasContent)
        ELSE IF sql[i] = ";"
             THEN Segment(start, i - 1, hasContent) \o scan[i + 1, i + 1, FALSE]
        ELSE scan[PieceEnd(sql, i), start, hasContent \/ IsContent(sql, i)]
  IN  scan[1, 1, FALSE]

-----------------------------------------------------------------------------
\* leadingKeyword(), behind whitespace and comments; "" for none.
LeadingKeyword(sql) ==
  LET start[i \in Nat] ==
        IF i > Len(sql) THEN i
        ELSE IF IsContent(sql, i) THEN i ELSE start[PieceEnd(sql, i)]
      i == start[1]
  IN  IF At(sql, i) \in Letters /\ At(sql, i + 1) \notin Letters THEN At(sql, i) ELSE ""

\* classifyOne().
KindOf(sql) ==
  LET keyword == LeadingKeyword(sql)
  IN  CASE keyword = "BEGIN"  -> "transaction_control"
        [] keyword = "INSERT" -> "data"
        [] keyword = "CREATE" -> "ddl"
        [] keyword = "LOCK"   -> "other"
        [] OTHER              -> "unparsed"

ClassifyScript(sql) ==
  LET statements == SplitStatements(sql)
  IN  [i \in DOMAIN statements |-> [sql |-> statements[i], kind |-> KindOf(statements[i])]]

\* The runner owns the transaction boundary.
RunnableStatements(statements) ==
  SelectSeq(statements, LAMBDA s : s.kind # "transaction_control")

SummarizeStatements(statements) ==
  LET Number(kinds) == Len(SelectSeq(statements, LAMBDA s : s.kind \in kinds))
  IN  [runnable |-> Number({"ddl", "data", "other", "unparsed"}), ddl |-> Number({"ddl"}),
       data |-> Number({"data"}), other |-> Number({"other"}), unparsed |-> Number({"unparsed"})]

=============================================================================
