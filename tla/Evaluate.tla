------------------------------ MODULE Evaluate ------------------------------
(***************************************************************************)
(* finetune/evaluate.py (and eval_gguf.py, which uses its score): how the  *)
(* answers of the model are scored against the right ones, row by row;     *)
(* beside it the two things a score speaks about: the check infer.py makes *)
(* of the same answers before the robot is told, and report_reject.py,     *)
(* which scores again what has a stop word.                                *)
(*                                                                         *)
(* An answer is the first {...} of the text, if it is JSON; a value of it  *)
(* is a number (speeds in hundredths, durations in hundredths of a         *)
(* second), one of JSON's numbers that are none, something else, or not    *)
(* there.                                                                  *)
(***************************************************************************)
EXTENDS Integers, FiniteSets

CONSTANTS
  Speeds,       \* numbers the model may give for a speed
  Times,        \* numbers the model may give for a duration
  Tol,          \* tol of score
  MaxDuration,  \* MAX_DURATION of infer.py
  Gold,         \* right answers in the test set, Refusal among them
  Refusal,      \* {"reject": true}
  Rows          \* rows of the test set

ASSUME ScoreAssumption == Tol \in Nat /\ MaxDuration \in Nat /\ Rows \in Nat \ {0}
ASSUME RefusalAssumption == Refusal \in Gold
ASSUME NumberAssumption == Speeds \subseteq Int /\ Times \subseteq Int

VARIABLES
  row,     \* rows scored
  totals,  \* how many of them got each metric
  last     \* the last of them: the right answer and the model's

scoreVars == <<row, totals, last>>

Key == {"linear", "angular", "duration"}
Metric == {"parse", "schema", "sign", "exact", "reject", "moves"}

Number(v) == [is |-> "number", v |-> v]
Odd == {[is |-> k, v |-> 0] : k \in {"nan", "inf", "-inf", "text", "absent"}}
Object == {[json |-> TRUE, reject |-> r, linear |-> l, angular |-> a, duration |-> d] :
             r \in BOOLEAN,
             l \in {Number(v) : v \in Speeds} \cup Odd,
             a \in {Number(v) : v \in Speeds} \cup Odd,
             d \in {Number(v) : v \in Times} \cup Odd}
NoJson == [json |-> FALSE]   \* nothing found, or nothing that parses

\* gen_data.py writes the right answers: each value is none or well beyond the
\* tolerance (speeds of 0.15 and more, seconds).
ASSUME GoldAssumption ==
  \A g \in Gold \ {Refusal}, k \in Key :
    /\ g[k].is = "number" /\ g[k].v \in Int
    /\ g[k].v = 0 \/ g[k].v \notin -Tol..Tol
Answer == Object \cup {NoJson}

-----------------------------------------------------------------------------
(* evaluate.py: score.  To Python, NaN and Infinity are floats: numbers.   *)

IsCommand(p) == p.json /\ \A k \in Key : p[k].is \in {"number", "nan", "inf", "-inf"}

IsReject(p) == p.json /\ p.reject

\* No comparison holds of NaN; Infinity is larger than any number.
Positive(x) == x.is = "inf" \/ (x.is = "number" /\ x.v > 0)
Negative(x) == x.is = "-inf" \/ (x.is = "number" /\ x.v < 0)
NotZero(x) == Positive(x) \/ Negative(x)

Moves(p) == /\ IsCommand(p)
            /\ Positive(p.duration)
            /\ NotZero(p.linear) \/ NotZero(p.angular)

\* Bug: backwards is as good as forwards.
NearUnsigned(x, y) ==
  x.is = "number" /\ (x.v - y.v \in -Tol..Tol \/ x.v + y.v \in -Tol..Tol)

Near(x, y) == x.is = "number" /\ x.v - y.v \in -Tol..Tol

SameSign(x, y) ==
  (Positive(x) <=> Positive(y)) /\ (Negative(x) <=> Negative(y))

\* The metrics an answer gets.
Score(p, gold) ==
  {m \in Metric :
     CASE m = "reject" -> IsReject(p)
       [] m = "moves"  -> Moves(p)
       [] m = "parse"  -> p.json
       [] m = "exact" /\ gold = Refusal -> IsReject(p)
       [] m \in {"schema", "sign"} /\ gold = Refusal -> FALSE
       [] m = "schema" /\ gold # Refusal -> IsCommand(p)
       [] m = "sign" /\ gold # Refusal ->
            IsCommand(p) /\ \A k \in {"linear", "angular"} : SameSign(p[k], gold[k])
       [] m = "exact" /\ gold # Refusal ->
            IsCommand(p) /\ \A k \in Key : Near(p[k], gold[k])}

-----------------------------------------------------------------------------
(* infer.py: what reaches the bridge, and cmd_vel_bridge.py: what drives.  *)

Passes(p) ==
  /\ p.json /\ ~p.reject
  /\ \A k \in Key : p[k].is = "number"
  /\ p.duration.v \in 0..MaxDuration

\* Bridge.set, when nothing is in the way.
Drives(p) == p.duration.v > 0 /\ (p.linear.v # 0 \/ p.angular.v # 0)

-----------------------------------------------------------------------------
(* report_reject.py: the score of a row whose sentence has a stop word, as  *)
(* if the stop had been sent.                                              *)

Stop == [json |-> TRUE, reject |-> FALSE, linear |-> Number(0),
         angular |-> Number(0), duration |-> Number(0)]

IsStop(gold) == gold # Refusal /\ gold.linear.v = 0 /\ gold.angular.v = 0

WithStopRule(gold) ==
  {m \in {"sign", "exact"} : IsStop(gold) /\ (m = "exact" => gold.duration.v = 0)}

-----------------------------------------------------------------------------
(* main: the rows, in batches of 16 that only the model sees.              *)

ScoreInit ==
  /\ row = 0
  /\ totals = [m \in Metric |-> 0]
  /\ last = [gold |-> Refusal, pred |-> NoJson]

Measure(gold, pred) ==
  /\ row < Rows
  /\ row' = row + 1
  /\ last' = [gold |-> gold, pred |-> pred]
  /\ totals' = [m \in Metric |->
                  totals[m] + IF m \in Score(pred, gold) THEN 1 ELSE 0]

ScoreNext == \E gold \in Gold, pred \in Answer : Measure(gold, pred)

-----------------------------------------------------------------------------
(* Properties.                                                             *)

\* What infer.py lets through moves the robot if and only if the score says
\* that it moves (evaluate.py:68).
MovesMeansDrives ==
  Passes(last.pred) => (Drives(last.pred) <=> Moves(last.pred))

\* Over all rows, no answer is exact that drives the wrong way: an exact answer
\* to a command fits the schema, and each of its speeds has the right sign, or
\* is within the tolerance of a right answer of zero (finetune/README.md:71-80).
ExactIsNoWrongWay ==
  LET gold == last.gold  p == last.pred IN
  "exact" \in Score(p, gold) /\ gold # Refusal =>
    /\ {"parse", "schema"} \subseteq Score(p, gold)
    /\ \A k \in {"linear", "angular"} :
         SameSign(p[k], gold[k]) \/ (gold[k].v = 0 /\ p[k].v \in -Tol..Tol)

\* What report_reject.py gives a row with a stop word is what score gives the
\* stop that infer.py sends for it (report_reject.py:5, 30).
StopRuleScoresTheStop ==
  WithStopRule(last.gold) = Score(Stop, last.gold) \cap {"sign", "exact", "reject", "moves"}

\* The metrics tell what the robot will do: of motion, of direction, and of the
\* stop that infer.py puts in the place of the model's answer.
ScoreTellsTheDrive ==
  /\ MovesMeansDrives
  /\ ExactIsNoWrongWay
  /\ StopRuleScoresTheStop
=============================================================================
