----------------------------- MODULE Confidence -----------------------------
(***************************************************************************)
(* finetune/analyze_confidence.py: could the robot ask back instead of     *)
(* driving when the model is not sure?  A threshold for the confidence is  *)
(* taken from the right answers of the validation set; what it would have  *)
(* done to the test set is then printed, which is left out here.           *)
(* Confidences, the least probability among the numbers of an answer, are  *)
(* natural numbers: only their order matters.                              *)
(***************************************************************************)
EXTENDS Integers, Sequences, FiniteSets

CONSTANTS
  Conf,      \* confidences
  Quantile,  \* shares of right answers that may be lost, in percent (1 and 5)
  MaxValid   \* rows of the validation set

ASSUME ConfAssumption == /\ Conf \subseteq Nat
                         /\ Quantile \subseteq 0..100
                         /\ MaxValid \in Nat

VARIABLE
  valid   \* the rows of the validation set

reportVars == <<valid>>

\* What of a row is looked at; the validation set holds refusals too.
ValidRow == [conf : Conf, exact : BOOLEAN, refusal : BOOLEAN]

IsRightDrive(r) == r.exact /\ ~r.refusal

\* ok_valid: the confidences of the rows that are right, each at its row.
RightDrives == [i \in {j \in DOMAIN valid : IsRightDrive(valid[j])} |-> valid[i].conf]

Count(xs) == Cardinality(DOMAIN xs)
Below(xs, x) == {i \in DOMAIN xs : xs[i] < x}
UpTo(xs, x) == {i \in DOMAIN xs : xs[i] <= x}

\* Bug: rounded up, not down.
RankUp(n, q) == (q * (n - 1) + 99) \div 100

Rank(n, q) == (q * (n - 1)) \div 100

\* quantile: the element at this rank, from 0, when xs is sorted.
At(xs, q) ==
  CHOOSE x \in {xs[i] : i \in DOMAIN xs} :
    /\ Cardinality(Below(xs, x)) <= Rank(Count(xs), q)
    /\ Cardinality(UpTo(xs, x)) > Rank(Count(xs), q)

-----------------------------------------------------------------------------
ReportInit == valid = <<>>

\* The rows have been written by evaluate.py or eval_gguf.py.
LoadValid(r) ==
  /\ Len(valid) < MaxValid
  /\ valid' = Append(valid, r)

ReportNext == \E r \in ValidRow : LoadValid(r)

-----------------------------------------------------------------------------
(* Properties.                                                             *)

\* The threshold lets through the share of right answers it is named for: at
\* most q percent of them lie below it (analyze_confidence.py:12, 82-83).
ThresholdLetsThrough ==
  DOMAIN RightDrives # {} =>
    \A q \in Quantile :
      100 * Cardinality(Below(RightDrives, At(RightDrives, q))) <= q * Count(RightDrives)
=============================================================================
