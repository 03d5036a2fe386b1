------------------------------ MODULE GenData -------------------------------
(***************************************************************************)
(* finetune/gen_data.py: the sentences the model is trained, validated and *)
(* tested on, drawn at random from small tables of phrases, with the       *)
(* command each one means.  The test set alone also uses the words held    *)
(* out of training: its first half has none of them, its second half has   *)
(* one in each sentence.                                                   *)
(*                                                                         *)
(* A phrase is a sequence of words, and a sentence the phrases in a row,   *)
(* which is what gen_data.py makes of its spaces; the words are glosses of *)
(* the Korean ones.  Speeds are in hundredths, durations in seconds;       *)
(* random is free to pick anything.                                        *)
(***************************************************************************)
EXTENDS Integers, Sequences, FiniteSets

CONSTANTS
  Phrases,      \* the tables: Phrases[t].train, .rich and .holdout
  Pace,         \* the value of a speed phrase
  Seconds,      \* the duration a phrase like "for 2 s" names
  HoldoutWord,  \* HOLDOUT_WORDS
  Tries,        \* draws for a row asked for (400 in the code)
  Offtopic,     \* TRAIN and TEST of offtopic.py: sentences that are no command
  Args          \* what the program may be called with: --rich, --reject and the
                \* sizes --train, --valid and --test

Split == {"train", "valid", "test"}
Table == {"SPEED", "FWD", "BWD", "LEFT", "RIGHT", "LEFT_V", "RIGHT_V",
          "STOP", "TAIL"}

HasHoldout(text) == \E i \in DOMAIN text : text[i] \in HoldoutWord

\* offtopic.py: pool.
Pool(s) == IF s = "train" THEN Offtopic.train ELSE Offtopic.test

\* What offtopic.py says of its lists, by hand (offtopic.py:11): no sentence of
\* the training list is in the test list.
ASSUME OfftopicAssumption ==
  /\ IsFiniteSet(Offtopic.train)
  /\ Offtopic.train \cap Offtopic.test = {}

\* The words every sentence may have, whatever the tables say.
Plain == DOMAIN Seconds \cup {"turn", "while going", "bear"}

\* The tables are as HOLDOUT_WORDS has them.
ASSUME TableAssumption ==
  /\ \A t \in Table :
       /\ Phrases[t].train \cup Phrases[t].rich \cup Phrases[t].holdout \subseteq Seq(STRING)
       /\ \A p \in Phrases[t].train \cup Phrases[t].rich : ~HasHoldout(p)
       /\ \A p \in Phrases[t].holdout : HasHoldout(p)
  /\ Plain \subseteq STRING \ HoldoutWord
ASSUME ArgsAssumption ==
  /\ Tries \in Nat \ {0}
  /\ \A a \in Args : /\ a.rich \in BOOLEAN /\ a.reject \in Nat
                     /\ a.size \in [Split -> Nat \ {0}]

VARIABLES
  args,     \* what it was called with
  split,    \* the split being made, then "done", or "failed"
  rows,     \* the driving sentences of each split, in order
  rejects,  \* the sentences that are no command added to a split
  guard,    \* draws made for this split
  all,      \* made["_all"]: the sentences of the splits already made
  aside     \* test_offtopic.jsonl: the sentences the refusals are tested on

genVars == <<args, split, rows, rejects, guard, all, aside>>

Size == args.size

Texts(s) == {s[i].text : i \in DOMAIN s}

-----------------------------------------------------------------------------
(* make_sample.                                                            *)

\* Bug: words held out of training may turn up in validation.
PickAnywhere(t, s) ==
  IF s # "train" THEN Phrases[t].train \cup Phrases[t].holdout
  ELSE IF args.rich THEN Phrases[t].rich ELSE Phrases[t].train

Pick(t, s) ==
  CASE s = "test" -> Phrases[t].train \cup Phrases[t].holdout
    [] s # "test" /\ args.rich -> Phrases[t].rich
    [] OTHER -> Phrases[t].train

\* The empty phrase: no duration is named, and three seconds are meant.
Span == {<<>>} \cup {<<w>> : w \in DOMAIN Seconds}
Lasts(d) == IF d = <<>> THEN 3 ELSE Seconds[d[1]]

Row(text, linear, angular, duration) ==
  [text |-> text, linear |-> linear, angular |-> angular, duration |-> duration]

Stops(s) == {Row(w, 0, 0, 0) : w \in Pick("STOP", s)}

Straight(s) ==
  {Row(d \o w \o v \o t, Pace[v], 0, Lasts(d)) :
     d \in Span, w \in Pick("FWD", s), v \in Pick("SPEED", s), t \in Pick("TAIL", s)}
  \cup
  {Row(d \o w \o v \o t, -Pace[v], 0, Lasts(d)) :
     d \in Span, w \in Pick("BWD", s), v \in Pick("SPEED", s), t \in Pick("TAIL", s)}

Sides == {[dir |-> "LEFT", verb |-> "LEFT_V", sign |-> 1],
          [dir |-> "RIGHT", verb |-> "RIGHT_V", sign |-> -1]}

Turns(s) == UNION {
  {Row(d \o w \o v \o <<"turn">>, 0, x.sign * ((Pace[v] * 12) \div 5), Lasts(d)) :
     d \in Span, w \in Pick(x.dir, s), v \in Pick("SPEED", s)}
  \cup
  {Row(d \o v \o w, 0, x.sign * ((Pace[v] * 12) \div 5), Lasts(d)) :
     d \in Span, w \in Pick(x.verb, s), v \in Pick("SPEED", s)} : x \in Sides}

Arcs(s) == UNION {
  {Row(d \o f \o v \o <<"while going">> \o w \o <<"bear">>,
       Pace[v], x.sign * ((Pace[v] * 8) \div 5), Lasts(d)) :
     d \in Span, f \in Pick("FWD", s), v \in Pick("SPEED", s),
     w \in Pick(x.dir, s)} : x \in Sides}

Sample(s) == Stops(s) \cup Straight(s) \cup Turns(s) \cup Arcs(s)

-----------------------------------------------------------------------------
(* main.                                                                   *)

GenInit ==
  /\ args \in Args
  /\ split = "train"
  /\ rows = [s \in Split |-> <<>>]
  /\ rejects = [s \in Split |-> {}]
  /\ guard = 0
  /\ all = {}
  /\ aside = {}

Wanting == /\ split \in Split
           /\ Len(rows[split]) < Size[split]
           /\ guard < Tries * Size[split]

\* A row of the test set with an index in the second half must be new.
Fits(x) ==
  split = "test" =>
    (HasHoldout(x.text) <=> Len(rows[split]) >= Size[split] \div 2)

Fresh(x) == x.text \notin Texts(rows[split]) /\ x.text \notin all

Keep(x) ==
  /\ Wanting
  /\ Fresh(x) /\ Fits(x)
  /\ guard' = guard + 1
  /\ rows' = [rows EXCEPT ![split] = Append(@, x)]
  /\ UNCHANGED <<args, split, rejects, all, aside>>

\* A sentence that is there already, or belongs in the other half.
Skip(x) ==
  /\ Wanting
  /\ ~(Fresh(x) /\ Fits(x))
  /\ guard' = guard + 1
  /\ UNCHANGED <<args, split, rows, rejects, all, aside>>

Smaller(a, b) == IF a < b THEN a ELSE b
Larger(a, b) == IF a > b THEN a ELSE b

\* How many sentences that are no command a split gets.
RejectCount(s) ==
  CASE args.reject = 0 \/ s = "test" -> 0
    [] s = "train" /\ args.reject > 0 -> Smaller(args.reject, Cardinality(Pool("train")))
    [] s = "valid" /\ args.reject > 0 -> Larger(1, args.reject \div 16)

After == [train |-> "valid", valid |-> "test", test |-> "done"]

\* Bug: what was made is forgotten when the next split begins.
FinishForgetting ==
  /\ split \in Split /\ ~Wanting
  /\ RejectCount(split) <= Cardinality(Pool("train"))
  /\ \E R \in SUBSET Pool("train") :
       /\ Cardinality(R) = RejectCount(split)
       /\ rejects' = [rejects EXCEPT ![split] = R]
  /\ all' = Texts(rows[split])
  /\ guard' = 0
  /\ split' = After[split]
  /\ UNCHANGED <<args, rows, aside>>

\* Enough rows, or too many draws: the file is written as it is.
Finish ==
  /\ split \in Split /\ ~Wanting
  /\ RejectCount(split) <= Cardinality(Pool("train"))
  /\ \E R \in SUBSET Pool("train") :
       /\ Cardinality(R) = RejectCount(split)
       /\ rejects' = [rejects EXCEPT ![split] = R]
  /\ all' = all \cup Texts(rows[split])
  /\ guard' = 0
  /\ split' = After[split]
  /\ UNCHANGED <<args, rows, aside>>

\* rng.sample raises when it is asked for more sentences than there are.
TooFew ==
  /\ split \in Split /\ ~Wanting
  /\ RejectCount(split) > Cardinality(Pool("train"))
  /\ split' = "failed"
  /\ UNCHANGED <<args, rows, rejects, guard, all, aside>>

\* With --reject, the refusals are tested on a list of their own.
WriteOfftopic ==
  /\ split = "done" /\ aside = {}
  /\ args.reject # 0
  /\ aside' = Pool("test")
  /\ UNCHANGED <<args, split, rows, rejects, guard, all>>

GenNext == \/ \E x \in IF split \in Split THEN Sample(split) ELSE {} : Keep(x) \/ Skip(x)
           \/ Finish
           \/ TooFew
           \/ WriteOfftopic

-----------------------------------------------------------------------------
(* Properties.                                                             *)

\* No driving sentence is in two splits or twice in one, and no sentence that is
\* to be refused in the test was refused in training or validation: what the
\* model is tested on it was not trained on (gen_data.py:164, 189).
NoSentenceTwice ==
  /\ \A s, t \in Split : \A i \in DOMAIN rows[s], j \in DOMAIN rows[t] :
       rows[s][i].text = rows[t][j].text => s = t /\ i = j
  /\ \A s \in Split : rejects[s] \cap aside = {}

\* Held-out words are in the second half of the test set, in every sentence of
\* it, and nowhere else (gen_data.py:17, 159); so are the two halves of the
\* results, 75 sentences each, when the test set is complete
\* (finetune/README.md:38-39).
HoldoutInItsHalf ==
  \A s \in Split : \A i \in DOMAIN rows[s] :
    HasHoldout(rows[s][i].text) <=> s = "test" /\ i > Size[s] \div 2
=============================================================================
