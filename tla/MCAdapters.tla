----------------------------- MODULE MCAdapters -----------------------------
(* Small instances of Adapters for TLC. *)
EXTENDS Adapters

\* What the proofs about Adapters ask of the constants.
ASSUME AdaptersAssumption == AdaptersParameters /\ PragmaKeepsTheKey

\* Of the batches in flight one may hold statements that end its transaction:
\* a batch's transaction concerns no session but its own.  Nothing of it
\* matters while a table is described.
OneEndsItsTransaction ==
  \E b \in Batches : \A c \in Batches : c # b \/ scene = "describes" => ends[c] = {}

\* Bounds: two of the calls are made, two batches or one beside the row's
\* write, and one of them at most fails in a way that only its name tells from
\* a socket's error.
Called == {b \in Batches : batch[b].pc # "idle"}
TwoCalls == Cardinality(Called) <= IF write.answer = Unanswered /\ row.matching = 1 THEN 2 ELSE 1

Odd(answer) == answer.why \in {"oddSocket", "driver", "codeless"}
OddFailuresAreFew ==
  /\ \A b, c \in Called : b # c => ~(Odd(batch[b].answer) /\ Odd(batch[c].answer))
  /\ \A b \in Called : Odd(batch[b].answer) => ~Odd(write.answer)

MCAdaptersNext == AdaptersNext /\ (TwoCalls /\ OddFailuresAreFew)'
=============================================================================
