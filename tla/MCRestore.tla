----------------------------- MODULE MCRestore -----------------------------
(***************************************************************************)
(* Small instances of Restore for TLC: a script with its own transaction,  *)
(* schema and data, one of data only, and one with statements that end the *)
(* transaction they are run in, MySQL's or Postgres's.                     *)
(***************************************************************************)
EXTENDS Restore, TLC

CONSTANTS dump, rows, odd

Contents == [s \in Scripts |-> CASE s = dump -> <<"control", "ddl", "data">>
                                 [] s = rows -> <<"data">>
                                 [] s = odd  -> <<"lock", "abort", "data">>]

Split == INSTANCE SqlSplit

Texts ==
  dump :> <<"-", "-", ";", "\n", "BEGIN", ";", "CREATE", " ", "t", ";",
            "INSERT", "'", "'", "'", ";", "'", ";", " ">>
  @@ rows :> <<"INSERT", "$", "$", ";", "$", "$">>
  @@ odd  :> <<"LOCK", " ", "t", ";", "ABORT", ";", "INSERT">>

\* LOCK is labelled "other", ABORT "unparsed".
Label(kind) == CASE kind = "transaction_control" -> "control"
                 [] kind = "ddl"                 -> "ddl"
                 [] kind = "data"                -> "data"
                 [] kind = "other"               -> "lock"
                 [] kind = "unparsed"            -> "abort"

(* The contents are what SqlSplit makes of their texts. *)
ASSUME ContentsAreSplit ==
  \A s \in Scripts :
    LET read == Split!ClassifyScript(Texts[s])
    IN  Contents[s] = [i \in DOMAIN read |-> Label(read[i].kind)]
=============================================================================
