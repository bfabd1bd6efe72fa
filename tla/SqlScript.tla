------------------------------ MODULE SqlScript ------------------------------
(***************************************************************************)
(* A script being written, by pg_dump, sqlite3 .dump, a dump of ours or by *)
(* hand, piece by piece: what SqlSplit must find again in its text.        *)
(***************************************************************************)
EXTENDS SqlSplit

CONSTANTS MaxPieces, MaxEnds  \* bounds on the pieces and the `;` of a script

VARIABLES
  text,
  written,   \* the statements ended so far: their text and their first word
  current,   \* the text since
  lead,      \* the first word of it; "none" once something else came first
  pieces, ends

scriptVars == <<text, written, current, lead, pieces, ends>>

ScriptInit ==
  /\ text = <<>>
  /\ written = <<>>
  /\ current = <<>>
  /\ lead = ""
  /\ pieces = 0 /\ ends = 0

ScriptTypeOK ==
  /\ text \in Seq(STRING) /\ current \in Seq(STRING)
  /\ written \in Seq([text : Seq(STRING), lead : Keywords \cup {"t", "none"}])
  /\ lead \in Keywords \cup {"", "t", "none"}
  /\ pieces \in 0..MaxPieces /\ ends \in 0..MaxEnds

-----------------------------------------------------------------------------
\* The pieces, each with the word it is, if it is one, or "none"; a comment
\* is neither.
Doubled(body, delim) ==
  FlattenSeq([i \in DOMAIN body |-> IF body[i] = delim THEN <<delim, delim>> ELSE <<body[i]>>])

Escaped(body) ==
  FlattenSeq([i \in DOMAIN body |-> IF body[i] \in {"'", "\\"} THEN <<"\\", body[i]>>
                                    ELSE <<body[i]>>])

MutLiteral(body) == <<"'">> \o body \o <<"'", " ">>

\* quoteLiteral(): a backslash is an ordinary character, except to MySQL.
Literal(body)       == <<"'">> \o Doubled(body, "'") \o <<"'", " ">>
MySqlLiteral(body)  == Literal(Doubled(body, "\\"))
EscapeString(body)  == <<"e", "'">> \o Escaped(body) \o <<"'", " ">>
Identifier(body, d) == <<d>> \o Doubled(body, d) \o <<d, " ">>
DollarQuoted(tag, body) == <<"$">> \o tag \o <<"$">> \o body \o <<"$">> \o tag \o <<"$", " ">>

Solid ==
  {Literal(b) : b \in {<<";">>, <<"'", ";">>, <<"\\">>}}
  \cup {MySqlLiteral(<<"\\", "'", ";">>)}
  \cup {EscapeString(b) : b \in {<<"'", ";">>, <<"\\">>}}
  \cup {<<"t">> \o EscapeString(<<>>), <<"t", "e">> \o Literal(<<"\\">>)}
  \cup {Identifier(<<";", d>>, d) : d \in {"\"", "backtick"}}
  \cup {DollarQuoted(<<>>, b) : b \in {<<"'", ";">>, <<"$", "t", ";">>}}
  \cup {DollarQuoted(<<"t">>, b) : b \in {<<"BEGIN", ";">>, <<"$", "$", ";">>}}
  \cup {<<"$", "1", " ">>, <<"-", " ">>, <<"/", " ">>}

Comments ==
  {<<"-", "-", ";", "'", "\n">>, <<"/", "*", ";", "'", "*", "/">>,
   <<"/", "*", "/", "*", "*", "/", ";", "*", "/">>}

Add(chars, first) ==
  /\ pieces < MaxPieces
  /\ pieces' = pieces + 1
  /\ text' = text \o chars
  /\ current' = current \o chars
  /\ lead' = IF lead = "" THEN first ELSE lead
  /\ UNCHANGED <<written, ends>>

WriteWord    == \E w \in Keywords \cup {"t"} : Add(<<w, " ">>, w)
WriteSolid   == \E s \in Solid : Add(s, "none")
WriteComment == \E c \in Comments : Add(c, "")

Sentences == IF lead = "" THEN written
              ELSE Append(written, [text |-> Trim(current), lead |-> lead])

EndStatement ==
  /\ ends < MaxEnds
  /\ ends' = ends + 1
  /\ text' = Append(text, ";")
  /\ written' = Sentences
  /\ current' = <<>>
  /\ lead' = ""
  /\ UNCHANGED pieces

ScriptNext == WriteWord \/ WriteSolid \/ WriteComment \/ EndStatement

ScriptSpec == ScriptInit /\ [][ScriptNext]_scriptVars

-----------------------------------------------------------------------------
\* However a script is written, a restore finds its statements, each whole and
\* no `;` of a string, a name, a body or a comment taken for an end; and what
\* it strips is the script's own transaction control, never a BEGIN inside a
\* body or behind another word (split.ts:53-93, plan.ts:100-180).
ScriptIsRead ==
  LET read == ClassifyScript(text)
      Is(kind) == [i \in DOMAIN Sentences |-> Sentences[i].lead = kind]
      own  == SelectSeq(Sentences, LAMBDA s : s.lead # "BEGIN")
      run  == RunnableStatements(read)
      sum  == SummarizeStatements(read)
  IN  /\ [i \in DOMAIN read |-> read[i].sql] = [i \in DOMAIN Sentences |-> Sentences[i].text]
      /\ [i \in DOMAIN run |-> run[i].sql] = [i \in DOMAIN own |-> own[i].text]
      /\ sum.runnable = Len(own)
      /\ sum.ddl = Len(SelectSeq(own, LAMBDA s : s.lead = "CREATE"))
      /\ sum.data = Len(SelectSeq(own, LAMBDA s : s.lead = "INSERT"))
=============================================================================
