--------------------------- MODULE FinetuneProofs ---------------------------
(***************************************************************************)
(* Theorems about the scripts of finetune/.  About Training, for every     *)
(* number of seeds and steps and every size of the memory, which may do    *)
(* what it likes; about GenData, for all tables that keep the words held   *)
(* out apart; about Evaluate and Confidence, for all answers and all       *)
(* confidences.                                                            *)
(***************************************************************************)
EXTENDS Finetune, FiniteSetTheorems, TLAPS

(* The guard.  Asleep, memory has been low for no longer than it sleeps, as *)
(* it was not low at the last look, or another container had it; in docker *)
(* ps for the sleep before it longer, in docker stop for both.             *)

WatchType ==
  /\ avail \in 0..Free
  /\ watch \in {"sleep", "ps", "stop", "gone"}
  /\ since \in Nat /\ low \in Nat

Asleep == since <= Poll /\ low <= since
Asking == since <= Listing /\ low <= Poll + since
Stopping == since <= Grace /\ low <= Poll + Listing + since

WatchInv ==
  /\ WatchType
  /\ place \in InContainer =>
       /\ avail >= LowMemory => low = 0
       /\ watch = "sleep" => Asleep
       /\ watch = "ps" => Asking
       /\ watch = "stop" => Stopping

LEMMA GuardTimes == /\ Poll \in Nat /\ Listing \in Nat /\ Grace \in Nat
               /\ Free \in Nat /\ LowMemory \in 0..Free
BY TrainingAssumption DEF TrainingAssumption

\* A container that ends leaves the next one all there is, and the guard where it is,
\* asleep, or gone.
LEMMA LeaveKeeps ==
  ASSUME WatchInv, place \in InContainer, NEW p, Leave(p)
  PROVE  WatchInv'
<1>1. /\ avail' = Free /\ low' = 0 /\ watch' \in Missed
      /\ since' = IF watch' = watch THEN since ELSE 0
  BY DEF Leave
<1>2. watch' = watch \/ watch' = "sleep" \/ watch' = "gone"
  BY <1>1 DEF Missed
<1>3. WatchType'
  BY <1>1, <1>2, GuardTimes DEF WatchInv, WatchType
<1>4. CASE watch' = watch
  BY <1>1, <1>3, <1>4, GuardTimes DEF WatchInv, WatchType, Asleep, Asking, Stopping
<1>5. CASE watch' # watch
  BY <1>1, <1>2, <1>3, <1>5, GuardTimes DEF WatchInv, Asleep
<1>6. QED
  BY <1>4, <1>5

LEMMA OnwardKeeps == ASSUME WatchInv, place \in Test, Onward PROVE WatchInv'
<1>1. place \in InContainer
  BY DEF InContainer
<1>2. Leave("test_offtopic") \/ Leave("load") \/ Leave("over")
  BY DEF Onward
<1>3. QED
  BY <1>1, <1>2, LeaveKeeps

LEMMA CutKeeps == ASSUME WatchInv, place \in InContainer, Cut PROVE WatchInv'
BY LeaveKeeps, OnwardKeeps DEF Cut

LEMMA WatchInit == TrainInit => WatchInv
BY GuardTimes DEF TrainInit, WatchInv, WatchType, Asleep

\* A second adds one to both counts at most.
LEMMA SecondKeeps == ASSUME WatchInv, Second PROVE WatchInv'
<1>1. /\ place' = place /\ watch' = watch /\ place \in InContainer
      /\ watch = "gone" \/ since < Stay
      /\ since' = IF watch = "gone" THEN since ELSE since + 1
      /\ avail' \in 0..Free
      /\ avail' >= LowMemory => low' = 0
      /\ low' = 0 \/ low' = low + 1 \/ low' = low
  BY DEF Second, experiment
<1>2. WatchType'
  BY <1>1 DEF WatchInv, WatchType
<1>3. CASE watch = "sleep"
  BY <1>1, <1>2, <1>3, GuardTimes DEF WatchInv, WatchType, Asleep, Stay
<1>4. CASE watch = "ps"
  BY <1>1, <1>2, <1>4, GuardTimes DEF WatchInv, WatchType, Asking, Stay
<1>5. CASE watch = "stop"
  BY <1>1, <1>2, <1>5, GuardTimes DEF WatchInv, WatchType, Stopping, Stay
<1>6. CASE watch = "gone"
  BY <1>1, <1>2, <1>6 DEF WatchInv
<1>7. QED
  BY <1>3, <1>4, <1>5, <1>6 DEF WatchInv, WatchType

\* The guard wakes: if memory is not low, it has not been, and the count starts anew.
LEMMA LookKeeps == ASSUME WatchInv, Look PROVE WatchInv'
<1>1. /\ place' = place /\ place \in InContainer /\ avail' = avail /\ low' = low
      /\ watch' = IF Low THEN "ps" ELSE "sleep"
      /\ since' = 0 /\ since = Poll /\ low <= Poll
  BY DEF Look, experiment, WatchInv, Asleep
<1>2. CASE Low
  BY <1>1, <1>2, GuardTimes DEF WatchInv, WatchType, Asking
<1>3. CASE ~Low
  <2>1. low = 0
    BY <1>1, <1>3, GuardTimes DEF Low, WatchInv, WatchType
  <2>2. QED
    BY <1>1, <1>3, <2>1, GuardTimes DEF WatchInv, WatchType, Asleep
<1>4. QED
  BY <1>2, <1>3

LEMMA ListedKeeps == ASSUME WatchInv, Listed PROVE WatchInv'
BY GuardTimes DEF Listed, experiment, WatchInv, WatchType, Asking, Stopping

\* What does not leave the container leaves the guard alone.
LEMMA RestKeeps ==
  ASSUME WatchInv, UNCHANGED watching, place' \in InContainer => place \in InContainer
  PROVE  WatchInv'
BY DEF WatchInv, WatchType, watching, Asleep, Asking, Stopping

LEMMA WatchNext == ASSUME WatchInv, [TrainNext]_trainVars PROVE WatchInv'
<1>1. CASE Load
  BY <1>1, RestKeeps DEF Load, InContainer
<1>2. CASE TrainStep
  BY <1>2, RestKeeps DEF TrainStep, InContainer
<1>3. CASE MemLog
  BY <1>3, RestKeeps DEF MemLog, InContainer
<1>4. CASE Trained
  BY <1>4, RestKeeps DEF Trained, InContainer
<1>5. CASE Save
  BY <1>5, LeaveKeeps DEF Save, InContainer
<1>6. CASE ScoreSeed
  BY <1>6, OnwardKeeps DEF ScoreSeed
<1>7. CASE Fails
  BY <1>7, CutKeeps DEF Fails
<1>8. CASE PowerCut
  BY <1>8, RestKeeps DEF PowerCut, InContainer, Test
<1>9. CASE RunAgain
  BY <1>9, GuardTimes DEF RunAgain, WatchInv, WatchType, Asleep
<1>10. CASE Second
  BY <1>10, SecondKeeps
<1>11. CASE Look
  BY <1>11, LookKeeps
<1>12. CASE Listed
  BY <1>12, ListedKeeps
<1>13. CASE DockerStops
  BY <1>13, CutKeeps DEF DockerStops
<1>14. CASE UNCHANGED trainVars
  BY <1>14, RestKeeps DEF trainVars
<1>15. QED
  BY <1>1, <1>2, <1>3, <1>4, <1>5, <1>6, <1>7, <1>8, <1>9, <1>10, <1>11, <1>12, <1>13, <1>14
     DEF TrainNext

LEMMA WatchSuffices == WatchInv => LowIsShort
BY GuardTimes DEF WatchInv, WatchType, Asleep, Asking, Stopping, LowIsShort, LowBound

\* Whatever the memory does, and whenever containers end by themselves or the power
\* goes: while the guard lives, memory is low for a sleep, a docker ps and a grace at
\* most before the container that uses it is gone (run_1p5b.sh:16-27).
THEOREM GuardIsInTime == TrainSpec => []LowIsShort
<1>1. WatchInv /\ [TrainNext]_trainVars => WatchInv'
  BY WatchNext
<1>2. QED
  BY WatchInit, <1>1, WatchSuffices, PTL DEF TrainSpec

-----------------------------------------------------------------------------
(* The trace: while the next step is trained, all before it are on the disk. *)

TraceInv ==
  /\ step \in Nat /\ logged \in Nat
  /\ step - logged \in {0, 1}
  /\ place = "train" => step = logged

LEMMA TraceNext == ASSUME TraceInv, [TrainNext]_trainVars PROVE TraceInv'
<1> USE DEF TraceInv
<1>1. CASE Load
  BY <1>1 DEF Load
<1>2. CASE TrainStep
  <2>1. Steps \in Nat
    BY TrainingAssumption DEF TrainingAssumption
  <2>2. QED
    BY <1>2, <2>1 DEF TrainStep
<1>3. CASE MemLog
  BY <1>3 DEF MemLog
<1>4. CASE Trained
  BY <1>4 DEF Trained, experiment
<1>5. CASE Save
  BY <1>5 DEF Save, Leave
<1>6. CASE ScoreSeed
  BY <1>6 DEF ScoreSeed, Onward, Leave
<1>7. CASE Fails \/ DockerStops
  BY <1>7 DEF Fails, DockerStops, Cut, Onward, Leave
<1>8. CASE PowerCut
  BY <1>8 DEF PowerCut
<1>9. CASE RunAgain
  BY <1>9 DEF RunAgain
<1>10. CASE Second \/ Look \/ Listed \/ UNCHANGED trainVars
  BY <1>10 DEF Second, Look, Listed, trainVars, experiment
<1>11. QED
  BY <1>1, <1>2, <1>3, <1>4, <1>5, <1>6, <1>7, <1>8, <1>9, <1>10 DEF TrainNext

\* Whenever the board goes down, only the row of the last step can be missing
\* from the trace (train_lora.py:21, 45-47).
THEOREM TraceIsThere == TrainSpec => []TraceSurvives
<1>1. TrainInit => TraceInv
  BY DEF TrainInit, TraceInv
<1>2. TraceInv /\ [TrainNext]_trainVars => TraceInv'
  BY TraceNext
<1>3. TraceInv => TraceSurvives
  BY DEF TraceInv, TraceSurvives
<1>4. QED
  BY <1>1, <1>2, <1>3, PTL DEF TrainSpec

-----------------------------------------------------------------------------
(* The results: in the first run there is no adapter of a seed but a new    *)
(* one, and none at all before its training is saved.                      *)

Unsaved(s) == seed < s \/ (seed = s /\ place \notin Test \cup {"over", "down"})

AdapterInv ==
  /\ runs \in Nat /\ runs >= 1 /\ seed \in Nat
  /\ runs = 1 =>
       \A s \in Seed : /\ adapter[s] \in {"none", "new"}
                       /\ Unsaved(s) => adapter[s] = "none"
                       /\ results[s] # "other"
  /\ adapter = [s \in Seed |-> adapter[s]]
  /\ results = [s \in Seed |-> results[s]]

\* What an end of a container in the first run may leave.
LEMMA HalvesKeep ==
  ASSUME AdapterInv, NEW a \in Halves
  PROVE  /\ a = [s \in Seed |-> a[s]]
         /\ \A s \in Seed : s # seed \/ place # "save" => a[s] = adapter[s]
         /\ runs = 1 => \A s \in Seed : a[s] \in {"none", "new"}
<1> USE DEF AdapterInv, Unsaved
<1>1. CASE a = adapter
  BY <1>1
<1>2. CASE place = "save" /\ a = [adapter EXCEPT ![seed] = "new"]
  BY <1>2
<1>3. CASE place = "save" /\ adapter[seed] # "none" /\ a = [adapter EXCEPT ![seed] = "torn"]
  <2>1. runs = 1 /\ seed \in Seed => adapter[seed] = "none"
    BY <1>3 DEF Test
  <2>2. QED
    BY <1>3, <2>1
<1>4. QED
  BY <1>1, <1>2, <1>3 DEF Halves

LEMMA AdapterNext == ASSUME AdapterInv, [TrainNext]_trainVars PROVE AdapterInv'
<1> USE DEF AdapterInv, Unsaved
<1>0. \A s \in Seed : s \in Nat
  BY DEF Seed
<1>1. CASE Load \/ TrainStep \/ MemLog \/ Trained
  BY <1>1 DEF Load, TrainStep, MemLog, Trained, experiment, Test
<1>2. CASE Save
  BY <1>2 DEF Save, Leave, Test
<1>3. CASE ScoreSeed
  <2>1. /\ runs' = runs /\ adapter' = adapter
        /\ results' = [s \in Seed |-> results'[s]]
        /\ runs = 1 => \A s \in Seed : results'[s] # "other"
    BY <1>3 DEF ScoreSeed, Scored
  <2>2. \/ seed' = seed /\ place' \in {"over", "test_offtopic"}
        \/ seed' = seed + 1 /\ place' = "load"
    BY <1>3 DEF ScoreSeed, Onward, Leave
  <2>3. QED
    BY <1>0, <2>1, <2>2 DEF Test
<1>4. CASE Fails \/ DockerStops
  <2>1. adapter' \in Halves
    BY <1>4 DEF Fails, DockerStops, Cut
  <2>2. /\ adapter' = [s \in Seed |-> adapter'[s]]
        /\ \A s \in Seed : s # seed \/ place # "save" => adapter'[s] = adapter[s]
        /\ runs = 1 => \A s \in Seed : adapter'[s] \in {"none", "new"}
    BY <2>1, HalvesKeep
  <2>3. /\ runs' = runs /\ results' = results /\ place \in InContainer
        /\ \/ seed' = seed /\ place' \in {"over", "test"}
           \/ place \in Test /\ seed' = seed /\ place' \in {"over", "test_offtopic"}
           \/ place \in Test /\ seed' = seed + 1 /\ place' = "load"
    BY <1>4 DEF Fails, DockerStops, Cut, Onward, Leave, InContainer
  <2>4. QED
    BY <1>0, <2>2, <2>3 DEF Test
<1>5. CASE PowerCut
  <2>1. /\ adapter' = [s \in Seed |-> adapter'[s]]
        /\ \A s \in Seed : s # seed \/ place # "save" => adapter'[s] = adapter[s]
        /\ runs = 1 => \A s \in Seed : adapter'[s] \in {"none", "new"}
    BY <1>5, HalvesKeep DEF PowerCut
  <2>2. QED
    BY <1>5, <2>1 DEF PowerCut, Test
<1>6. CASE RunAgain
  BY <1>6 DEF RunAgain
<1>7. CASE Second \/ Look \/ Listed \/ UNCHANGED trainVars
  BY <1>7 DEF Second, Look, Listed, trainVars, experiment
<1>8. QED
  BY <1>1, <1>2, <1>3, <1>4, <1>5, <1>6, <1>7 DEF TrainNext

\* In a clean directory no seed is scored with an adapter it did not train,
\* whatever fails and whatever the pipes hide (run_1p5b.sh:35-42).
THEOREM ResultsAreTrue == TrainSpec => []ScoredIsTrained
<1>1. TrainInit => AdapterInv
  BY DEF TrainInit, AdapterInv
<1>2. AdapterInv /\ [TrainNext]_trainVars => AdapterInv'
  BY AdapterNext
<1>3. AdapterInv => ScoredIsTrained
  BY DEF AdapterInv, ScoredIsTrained
<1>4. QED
  BY <1>1, <1>2, <1>3, PTL DEF TrainSpec
-----------------------------------------------------------------------------
(* The scripts run one at a time, each on variables of its own.            *)

LEMMA Parts ==
  ASSUME [Next]_finetuneVars
  PROVE  /\ [TrainNext]_trainVars /\ [GenNext]_genVars
         /\ [ScoreNext]_scoreVars /\ [ReportNext]_reportVars
  BY DEF Next, Generate, Train, Grade, Report, finetuneVars

LEMMA TrainsAlike == Spec => TrainSpec
<1>1. Init => TrainInit
  BY DEF Init
<1>2. [Next]_finetuneVars => [TrainNext]_trainVars
  BY Parts
<1> QED
  BY <1>1, <1>2, PTL DEF Spec, TrainSpec

-----------------------------------------------------------------------------
(* GenData: the words.                                                     *)

\* Sentences, and phrases, that have no word held out.
Open == {p \in Seq(STRING) : ~HasHoldout(p)}

LEMMA OpenJoins ==
  ASSUME NEW a \in Open, NEW b \in Open
  PROVE  a \o b \in Open
<1>1. a \in Seq(STRING) /\ b \in Seq(STRING) /\ a \o b \in Seq(STRING)
  BY DEF Open
<1>2. ASSUME NEW i \in 1..Len(a \o b) PROVE (a \o b)[i] \notin HoldoutWord
  <2>1. \A j \in 1..Len(a) : a[j] \notin HoldoutWord
    BY <1>1 DEF Open, HasHoldout
  <2>2. \A j \in 1..Len(b) : b[j] \notin HoldoutWord
    BY <1>1 DEF Open, HasHoldout
  <2>3. CASE i <= Len(a)
    BY <1>1, <2>1, <2>3
  <2>4. CASE i > Len(a)
    <3>1. i - Len(a) \in 1..Len(b) /\ (a \o b)[i] = b[i - Len(a)]
      BY <1>1, <2>4
    <3> QED
      BY <2>2, <3>1
  <2> QED
    BY <1>1, <2>3, <2>4
<1>3. \A i \in DOMAIN (a \o b) : (a \o b)[i] \notin HoldoutWord
  BY <1>1, <1>2
<1> QED
  BY <1>1, <1>3 DEF Open, HasHoldout

\* A word that every sentence may have, and the duration with one.
LEMMA PlainIsOpen == \A w \in Plain : <<w>> \in Open
  BY TableAssumption DEF Open, HasHoldout

LEMMA SpanIsOpen == Span \subseteq Open
<1>1. <<>> \in Open
  BY DEF Open, HasHoldout
<1>2. \A w \in DOMAIN Seconds : <<w>> \in Open
  BY PlainIsOpen DEF Plain
<1> QED
  BY <1>1, <1>2 DEF Span

\* Outside the test set no phrase is picked that has a word held out.
LEMMA PickIsOpen ==
  ASSUME NEW t \in Table, NEW s \in Split, s # "test"
  PROVE  Pick(t, s) \subseteq Open
<1>1. Phrases[t].train \subseteq Open /\ Phrases[t].rich \subseteq Open
  BY TableAssumption DEF Open
<1> QED
  BY <1>1 DEF Pick

\* Hence no sentence is made with one.
LEMMA SampleIsOpen ==
  ASSUME NEW s \in Split, s # "test", NEW x \in Sample(s)
  PROVE  ~HasHoldout(x.text)
<1> SUFFICES x.text \in Open
  BY DEF Open
<1>0. /\ {"SPEED", "FWD", "BWD", "STOP", "TAIL"} \subseteq Table
      /\ \A y \in Sides : y.dir \in Table /\ y.verb \in Table
  BY DEF Table, Sides
<1>1. \A t \in Table : Pick(t, s) \subseteq Open
  BY PickIsOpen
<1>2. \A text \in Open : \A l, a, d : Row(text, l, a, d).text \in Open
  BY DEF Row
<1>3. <<"turn">> \in Open /\ <<"while going">> \in Open /\ <<"bear">> \in Open
  BY PlainIsOpen DEF Plain
<1>4. CASE x \in Stops(s)
  <2>1. PICK w \in Pick("STOP", s) : x = Row(w, 0, 0, 0)
    BY <1>4 DEF Stops
  <2> QED
    BY <1>0, <1>1, <2>1 DEF Row
<1>5. CASE x \in Straight(s)
  <2>1. \A d \in Span, w \in Pick("FWD", s) \cup Pick("BWD", s), v \in Pick("SPEED", s),
           t \in Pick("TAIL", s) : d \o w \o v \o t \in Open
    BY <1>0, <1>1, SpanIsOpen, OpenJoins
  <2> QED
    BY <1>2, <1>5, <2>1 DEF Straight
<1>6. CASE x \in Turns(s)
  <2>1. \A y \in Sides : \A d \in Span, v \in Pick("SPEED", s), w \in Pick(y.dir, s) :
          d \o w \o v \o <<"turn">> \in Open
    BY <1>0, <1>1, <1>3, SpanIsOpen, OpenJoins
  <2>2. \A y \in Sides : \A d \in Span, v \in Pick("SPEED", s), w \in Pick(y.verb, s) :
          d \o v \o w \in Open
    BY <1>0, <1>1, SpanIsOpen, OpenJoins
  <2> QED
    BY <1>2, <1>6, <2>1, <2>2 DEF Turns
<1>7. CASE x \in Arcs(s)
  <2>1. \A y \in Sides : \A d \in Span, f \in Pick("FWD", s), v \in Pick("SPEED", s),
           w \in Pick(y.dir, s) :
          d \o f \o v \o <<"while going">> \o w \o <<"bear">> \in Open
    BY <1>0, <1>1, <1>3, SpanIsOpen, OpenJoins
  <2> DEFINE g == <<"while going">>
             b == <<"bear">>
             Side(y) == {Row(d \o f \o v \o g \o w \o b,
                             Pace[v], y.sign * ((Pace[v] * 8) \div 5), Lasts(d)) :
                           d \in Span, f \in Pick("FWD", s), v \in Pick("SPEED", s),
                           w \in Pick(y.dir, s)}
  <2>2. PICK y \in Sides : x \in Side(y)
    <3>1. Arcs(s) = UNION {Side(y) : y \in Sides}
      BY DEF Arcs
    <3> HIDE DEF Side
    <3> QED
      BY <1>7, <3>1
  <2>3. PICK d \in Span, f \in Pick("FWD", s), v \in Pick("SPEED", s), w \in Pick(y.dir, s) :
          x = Row(d \o f \o v \o g \o w \o b,
                  Pace[v], y.sign * ((Pace[v] * 8) \div 5), Lasts(d))
    <3> HIDE DEF g, b
    <3> QED
      BY <2>2
  <2> QED
    BY <1>2, <2>1, <2>3
<1> QED
  BY <1>4, <1>5, <1>6, <1>7 DEF Sample

-----------------------------------------------------------------------------
(* GenData: the sentences.                                                 *)

AnyRow == UNION {Sample(s) : s \in Split}

GenType ==
  /\ args \in Args
  /\ split \in Split \cup {"done", "failed"}
  /\ rows \in [Split -> Seq(AnyRow)]

\* What a new sentence is compared with is all there is.
Unmade == /\ split = "train" => rows["valid"] = <<>>
          /\ split \in {"train", "valid"} => rows["test"] = <<>>
Made == /\ split \in {"valid", "test"} => Texts(rows["train"]) \subseteq all
        /\ split = "test" => Texts(rows["valid"]) \subseteq all

Distinct ==
  \A s, t \in Split : \A i \in 1..Len(rows[s]), j \in 1..Len(rows[t]) :
    rows[s][i].text = rows[t][j].text => s = t /\ i = j

Apart == /\ rejects \in [Split -> SUBSET Offtopic.train]
         /\ aside \subseteq Offtopic.test

DataInv == GenType /\ Unmade /\ Made /\ Distinct /\ Apart

\* What may be drawn depends on what the program was called with, and on no more.
LEMMA SameRows == ASSUME UNCHANGED args PROVE AnyRow' = AnyRow
  BY DEF AnyRow, Sample, Stops, Straight, Turns, Arcs, Pick, Row

\* Where the rows of a split are after one is kept, and what they are.
LEMMA KeptRows ==
  ASSUME GenType, split \in Split, NEW x \in Sample(split), Keep(x)
  PROVE  /\ rows' \in [Split -> Seq(AnyRow)]
         /\ \A s \in Split : s # split => rows'[s] = rows[s]
         /\ Len(rows[split]) \in Nat /\ Len(rows'[split]) = Len(rows[split]) + 1
         /\ \A i \in 1..Len(rows[split]) : rows'[split][i] = rows[split][i]
         /\ rows'[split][Len(rows[split]) + 1] = x
<1>1. rows' = [rows EXCEPT ![split] = Append(@, x)]
  BY DEF Keep
<1>2. rows[split] \in Seq(AnyRow) /\ x \in AnyRow
  BY DEF GenType, AnyRow
<1>3. rows'[split] = Append(rows[split], x) /\ \A s \in Split : s # split => rows'[s] = rows[s]
  BY <1>1 DEF GenType
<1>4. rows' \in [Split -> Seq(AnyRow)]
  BY <1>1, <1>2 DEF GenType
<1> QED
  BY <1>2, <1>3, <1>4

\* Steps that make no row.
LEMMA SameData ==
  ASSUME DataInv, UNCHANGED <<args, rows, rejects, all>>, split' \in {split, "failed"},
         aside' \subseteq Offtopic.test
  PROVE  DataInv'
<1>1. GenType'
  BY SameRows DEF DataInv, GenType
<1>2. Unmade' /\ Made' /\ Distinct' /\ Apart'
  BY DEF DataInv, Unmade, Made, Distinct, Apart, Texts
<1> QED
  BY <1>1, <1>2 DEF DataInv

\* Its sentence is none of those that were there.
LEMMA KeptIsNew ==
  ASSUME GenType, Unmade, Made, split \in Split, NEW x \in Sample(split), Keep(x),
         NEW s \in Split, NEW i \in 1..Len(rows[s])
  PROVE  rows[s][i].text # x.text
<1>1. x.text \notin Texts(rows[split]) /\ x.text \notin all
  BY DEF Keep, Fresh
<1>2. rows[s] \in Seq(AnyRow) /\ rows[s][i].text \in Texts(rows[s])
  BY DEF GenType, Texts
<1>3. rows[s] # <<>>
  BY <1>2
<1>4. s = split \/ Texts(rows[s]) \subseteq all
  BY <1>3 DEF Unmade, Made, Split
<1> QED
  BY <1>1, <1>2, <1>4

LEMMA KeepData ==
  ASSUME DataInv, split \in Split, NEW x \in Sample(split), Keep(x)
  PROVE  DataInv'
<1> USE DEF DataInv
<1> DEFINE n == Len(rows[split])
<1>1. UNCHANGED <<args, split, rejects, all, aside>>
  BY DEF Keep
<1>2. GenType'
  BY <1>1, KeptRows, SameRows DEF GenType
<1>3. Unmade' /\ Made'
  BY <1>1, KeptRows DEF Unmade, Made, Split
<1>4. Distinct'
  <2>1. SUFFICES ASSUME NEW s \in Split, NEW t \in Split,
                        NEW i \in 1..Len(rows'[s]), NEW j \in 1..Len(rows'[t]),
                        rows'[s][i].text = rows'[t][j].text
                 PROVE  s = t /\ i = j
    BY DEF Distinct
  <2>2. /\ (s = split /\ i = n + 1) \/ i \in 1..Len(rows[s])
        /\ (t = split /\ j = n + 1) \/ j \in 1..Len(rows[t])
    BY KeptRows
  <2>3. CASE i \in 1..Len(rows[s]) /\ j \in 1..Len(rows[t])
    <3>1. rows'[s][i] = rows[s][i] /\ rows'[t][j] = rows[t][j]
      BY <2>3, KeptRows
    <3> QED
      BY <2>1, <2>3, <3>1 DEF Distinct
  <2>4. CASE s = split /\ i = n + 1 /\ j \in 1..Len(rows[t])
    <3>1. rows'[s][i] = x /\ rows'[t][j] = rows[t][j]
      BY <2>4, KeptRows
    <3> QED
      BY <2>1, <2>4, <3>1, KeptIsNew
  <2>5. CASE t = split /\ j = n + 1 /\ i \in 1..Len(rows[s])
    <3>1. rows'[t][j] = x /\ rows'[s][i] = rows[s][i]
      BY <2>5, KeptRows
    <3> QED
      BY <2>1, <2>5, <3>1, KeptIsNew
  <2> QED
    BY <2>2, <2>3, <2>4, <2>5
<1>5. Apart'
  BY <1>1 DEF Apart
<1> QED
  BY <1>2, <1>3, <1>4, <1>5

LEMMA FinishData == ASSUME DataInv, Finish PROVE DataInv'
<1> USE DEF DataInv
<1>1. /\ UNCHANGED <<args, rows, aside>> /\ split \in Split /\ split' = After[split]
      /\ all' = all \cup Texts(rows[split])
  BY DEF Finish
<1>2. \/ split = "train" /\ split' = "valid"
      \/ split = "valid" /\ split' = "test"
      \/ split = "test" /\ split' = "done"
  BY <1>1 DEF Split, After
<1>3. GenType'
  BY <1>1, <1>2, SameRows DEF GenType, Split
<1>4. Unmade' /\ Made'
  BY <1>1, <1>2 DEF Unmade, Made
<1>5. Distinct'
  BY <1>1 DEF Distinct
<1>6. Apart'
  <2>1. PICK R \in SUBSET Offtopic.train : rejects' = [rejects EXCEPT ![split] = R]
    BY DEF Finish, Pool
  <2> QED
    BY <1>1, <2>1 DEF Apart
<1> QED
  BY <1>3, <1>4, <1>5, <1>6

LEMMA NextData == ASSUME DataInv, [GenNext]_genVars PROVE DataInv'
<1>1. ASSUME split \in Split, NEW x \in Sample(split), Keep(x) PROVE DataInv'
  BY <1>1, KeepData
<1>2. ASSUME split \in Split, NEW x \in Sample(split), Skip(x) PROVE DataInv'
  BY <1>2, SameData DEF Skip, DataInv, Apart
<1>3. CASE Finish
  BY <1>3, FinishData
<1>4. CASE TooFew
  <2>1. UNCHANGED <<args, rows, rejects, all, aside>> /\ split' = "failed"
    BY <1>4 DEF TooFew
  <2> QED
    BY <2>1, SameData DEF DataInv, Apart
<1>5. CASE WriteOfftopic
  <2>1. UNCHANGED <<args, split, rows, rejects, all>> /\ aside' = Offtopic.test
    BY <1>5 DEF WriteOfftopic, Pool
  <2> QED
    BY <2>1, SameData DEF DataInv, Apart
<1>6. CASE UNCHANGED genVars
  BY <1>6, SameData DEF genVars, DataInv, Apart
<1> QED
  BY <1>1, <1>2, <1>3, <1>4, <1>5, <1>6 DEF GenNext

LEMMA InitData == GenInit => DataInv
<1> SUFFICES ASSUME GenInit PROVE DataInv
  OBVIOUS
<1>1. rows = [s \in Split |-> <<>>] /\ rejects = [s \in Split |-> {}] /\ aside = {}
      /\ args \in Args /\ split = "train"
  BY DEF GenInit
<1>2. \A s \in Split : rows[s] = <<>> /\ rows[s] \in Seq(AnyRow)
  BY <1>1
<1>3. "valid" \in Split /\ "test" \in Split /\ "train" \in Split
  BY DEF Split
<1> QED
  BY <1>1, <1>2, <1>3 DEF DataInv, GenType, Unmade, Made, Distinct, Apart

\* Whatever is drawn, no driving sentence is made twice, and none of those the
\* refusals are tested on was refused in training or validation.
THEOREM TestIsUnseen == Spec => []NoSentenceTwice
<1>1. Init => DataInv
  BY InitData DEF Init
<1>2. DataInv /\ [Next]_finetuneVars => DataInv'
  BY Parts, NextData
<1>3. DataInv => NoSentenceTwice
  <2> SUFFICES ASSUME DataInv PROVE NoSentenceTwice
    OBVIOUS
  <2>1. \A s \in Split : rows[s] \in Seq(AnyRow) /\ DOMAIN rows[s] = 1..Len(rows[s])
    BY DEF DataInv, GenType
  <2>2. \A s \in Split : rejects[s] \cap aside = {}
    BY OfftopicAssumption DEF DataInv, Apart
  <2> QED
    BY <2>1, <2>2 DEF NoSentenceTwice, DataInv, Distinct
<1> QED
  BY <1>1, <1>2, <1>3, PTL DEF Spec

-----------------------------------------------------------------------------
(* GenData: the words held out.                                            *)

HeldOut ==
  \A s \in Split : \A i \in 1..Len(rows[s]) :
    HasHoldout(rows[s][i].text) <=> s = "test" /\ i > Size[s] \div 2

LEMMA KeepHalves ==
  ASSUME GenType, HeldOut, split \in Split, NEW x \in Sample(split), Keep(x)
  PROVE  HeldOut'
<1> DEFINE n == Len(rows[split])
<1>1. Size' = Size
  BY DEF Keep, Size
<1>2. n \in Nat /\ Size[split] \div 2 \in Int
  <2>1. Size[split] \in Nat
    BY ArgsAssumption DEF GenType, Size
  <2> QED
    BY <2>1, KeptRows
<1>3. HasHoldout(x.text) <=> split = "test" /\ n + 1 > Size[split] \div 2
  <2>1. CASE split = "test"
    <3>1. HasHoldout(x.text) <=> n >= Size[split] \div 2
      BY <2>1 DEF Keep, Fits
    <3> QED
      BY <1>2, <2>1, <3>1
  <2>2. CASE split # "test"
    BY <2>2, SampleIsOpen
  <2> QED
    BY <2>1, <2>2
<1>4. SUFFICES ASSUME NEW s \in Split, NEW i \in 1..Len(rows'[s])
               PROVE  HasHoldout(rows'[s][i].text) <=> s = "test" /\ i > Size[s] \div 2
  BY <1>1 DEF HeldOut, HasHoldout
<1>5. (s = split /\ i = n + 1) \/ i \in 1..Len(rows[s])
  BY KeptRows
<1>6. CASE s = split /\ i = n + 1
  <2>1. rows'[s][i] = x
    BY <1>6, KeptRows
  <2> QED
    BY <1>3, <1>6, <2>1
<1>7. CASE i \in 1..Len(rows[s])
  <2>1. rows'[s][i] = rows[s][i]
    BY <1>7, KeptRows
  <2> QED
    BY <1>7, <2>1 DEF HeldOut
<1> QED
  BY <1>5, <1>6, <1>7

LEMMA NextHeldOut == ASSUME GenType, HeldOut, [GenNext]_genVars PROVE HeldOut'
<1>1. ASSUME split \in Split, NEW x \in Sample(split), Keep(x) PROVE HeldOut'
  BY <1>1, KeepHalves
<1>2. CASE UNCHANGED <<args, rows>>
  BY <1>2 DEF HeldOut, HasHoldout, Size
<1>3. ASSUME split \in Split, NEW x \in Sample(split), Skip(x) PROVE UNCHANGED <<args, rows>>
  BY <1>3 DEF Skip
<1>4. Finish \/ TooFew \/ WriteOfftopic \/ UNCHANGED genVars => UNCHANGED <<args, rows>>
  BY DEF Finish, TooFew, WriteOfftopic, genVars
<1> QED
  BY <1>1, <1>2, <1>3, <1>4 DEF GenNext

\* Whatever is drawn, and however many rows each split is to have, the words
\* held out are in every sentence of the test set's second half and nowhere else.
THEOREM HoldoutIsHeldOut == Spec => []HoldoutInItsHalf
<1>1. Init => DataInv /\ HeldOut
  <2> SUFFICES ASSUME Init PROVE DataInv /\ HeldOut
    OBVIOUS
  <2>1. \A s \in Split : rows[s] = <<>>
    BY DEF Init, GenInit
  <2> QED
    BY <2>1, InitData DEF Init, HeldOut
<1>2. (DataInv /\ HeldOut) /\ [Next]_finetuneVars => (DataInv /\ HeldOut)'
  BY Parts, NextData, NextHeldOut DEF DataInv
<1>3. DataInv /\ HeldOut => HoldoutInItsHalf
  <2>1. DataInv => \A s \in Split : DOMAIN rows[s] = 1..Len(rows[s])
    BY DEF DataInv, GenType
  <2> QED
    BY <2>1 DEF HoldoutInItsHalf, HeldOut
<1> QED
  BY <1>1, <1>2, <1>3, PTL DEF Spec

-----------------------------------------------------------------------------
(* Evaluate: what a score says of the motion.                              *)

Graded == last.gold \in Gold /\ last.pred \in Answer

\* An answer that is an object, and its values.
LEMMA AnswerFields ==
  ASSUME NEW p \in Answer, p.json
  PROVE  /\ p \in Object /\ p.reject \in BOOLEAN
         /\ \A k \in Key : p[k].is \in {"number", "nan", "inf", "-inf", "text", "absent"}
                           /\ p[k].v \in Int
<1>1. p \in Object
  BY DEF Answer, NoJson
<1>2. ASSUME NEW V \in {Speeds, Times}, NEW x \in {Number(v) : v \in V} \cup Odd
      PROVE  x.is \in {"number", "nan", "inf", "-inf", "text", "absent"} /\ x.v \in Int
  BY <1>2, NumberAssumption DEF Number, Odd
<1>3. /\ p.reject \in BOOLEAN
      /\ p.linear \in {Number(v) : v \in Speeds} \cup Odd
      /\ p.angular \in {Number(v) : v \in Speeds} \cup Odd
      /\ p.duration \in {Number(v) : v \in Times} \cup Odd
  <2>1. PICK r \in BOOLEAN, l \in {Number(v) : v \in Speeds} \cup Odd,
             a \in {Number(v) : v \in Speeds} \cup Odd, d \in {Number(v) : v \in Times} \cup Odd :
          p = [json |-> TRUE, reject |-> r, linear |-> l, angular |-> a, duration |-> d]
    BY <1>1 DEF Object
  <2> QED
    BY <2>1
<1> QED
  BY <1>1, <1>2, <1>3 DEF Key

\* The score finds a motion in what passes when the bridge does.
LEMMA MovesAsDriven ==
  ASSUME NEW p \in Answer, Passes(p)
  PROVE  Drives(p) <=> Moves(p)
<1>1. /\ p.json /\ \A k \in Key : p[k].is = "number" /\ p[k].v \in Int
      /\ p["linear"] = p.linear /\ p["angular"] = p.angular /\ p["duration"] = p.duration
      /\ "linear" \in Key /\ "angular" \in Key /\ "duration" \in Key
  BY AnswerFields DEF Passes, Key
<1>2. IsCommand(p)
  BY <1>1 DEF IsCommand
<1>3. ASSUME NEW k \in Key PROVE /\ Positive(p[k]) <=> p[k].v > 0
                                 /\ NotZero(p[k]) <=> p[k].v # 0
  BY <1>1, <1>3 DEF Positive, Negative, NotZero
<1> QED
  BY <1>1, <1>2, <1>3 DEF Drives, Moves

\* A right answer is near a value only if that value has its sign, or it is zero.
LEMMA NearHasTheSign ==
  ASSUME NEW p \in Answer, p.json, NEW gold \in Gold \ {Refusal}, NEW k \in Key,
         Near(p[k], gold[k])
  PROVE  SameSign(p[k], gold[k]) \/ (gold[k].v = 0 /\ p[k].v \in -Tol..Tol)
<1> DEFINE x == p[k].v
           g == gold[k].v
<1>1. /\ p[k].is = "number" /\ gold[k].is = "number" /\ x \in Int /\ g \in Int
      /\ x - g \in -Tol..Tol /\ (g = 0 \/ g \notin -Tol..Tol) /\ Tol \in Nat
  BY AnswerFields, GoldAssumption, ScoreAssumption DEF Near
<1>2. (Positive(p[k]) <=> x > 0) /\ (Negative(p[k]) <=> x < 0)
  BY <1>1 DEF Positive, Negative
<1>3. (Positive(gold[k]) <=> g > 0) /\ (Negative(gold[k]) <=> g < 0)
  BY <1>1 DEF Positive, Negative
<1> HIDE DEF x, g
<1>4. CASE g = 0
  BY <1>1, <1>4 DEF x, g
<1>5. CASE g # 0
  <2>1. (x > 0 <=> g > 0) /\ (x < 0 <=> g < 0)
    BY <1>1, <1>5
  <2> QED
    BY <1>2, <1>3, <2>1 DEF SameSign
<1> QED
  BY <1>4, <1>5

LEMMA ExactGoesRight ==
  ASSUME NEW p \in Answer, NEW gold \in Gold \ {Refusal}, "exact" \in Score(p, gold)
  PROVE  /\ {"parse", "schema"} \subseteq Score(p, gold)
         /\ \A k \in {"linear", "angular"} :
              SameSign(p[k], gold[k]) \/ (gold[k].v = 0 /\ p[k].v \in -Tol..Tol)
<1>1. IsCommand(p) /\ \A k \in Key : Near(p[k], gold[k])
  BY DEF Score, Metric
<1>2. p.json
  BY <1>1 DEF IsCommand
<1>3. {"parse", "schema"} \subseteq Score(p, gold)
  BY <1>1, <1>2 DEF Score, Metric
<1>4. \A k \in {"linear", "angular"} : k \in Key
  BY DEF Key
<1> QED
  BY <1>1, <1>2, <1>3, <1>4, NearHasTheSign

\* The stop, scored.
LEMMA StopFields ==
  /\ IsCommand(Stop) /\ ~IsReject(Stop) /\ ~Moves(Stop)
  /\ \A k \in Key : /\ Stop[k].is = "number" /\ Stop[k].v = 0
                    /\ ~Positive(Stop[k]) /\ ~Negative(Stop[k])
<1>1. \A k \in Key : Stop[k] = Number(0)
  BY DEF Stop, Key
<1>2. ~Positive(Number(0)) /\ ~Negative(Number(0)) /\ Number(0).is = "number" /\ Number(0).v = 0
  BY DEF Positive, Negative, Number
<1>3. Stop.json /\ ~Stop.reject /\ Stop.duration = Number(0)
  BY DEF Stop
<1> QED
  BY <1>1, <1>2, <1>3 DEF IsCommand, IsReject, Moves

LEMMA StopScore ==
  ASSUME NEW gold \in Gold
  PROVE  WithStopRule(gold) = Score(Stop, gold) \cap {"sign", "exact", "reject", "moves"}
<1>1. CASE gold = Refusal
  <2>1. ~IsStop(gold)
    BY <1>1 DEF IsStop
  <2>2. "sign" \notin Score(Stop, gold)
    BY <1>1 DEF Score
  <2>3. "exact" \notin Score(Stop, gold) /\ "reject" \notin Score(Stop, gold)
        /\ "moves" \notin Score(Stop, gold)
    BY <1>1, StopFields DEF Score
  <2> QED
    BY <2>1, <2>2, <2>3 DEF WithStopRule
<1>2. CASE gold # Refusal
  <2>1. \A k \in Key : /\ gold[k].is = "number" /\ gold[k].v \in Int
                       /\ gold[k].v = 0 \/ gold[k].v \notin -Tol..Tol
    BY <1>2, GoldAssumption
  <2>2. /\ "linear" \in Key /\ "angular" \in Key /\ Key = {"linear", "angular", "duration"}
        /\ gold["linear"] = gold.linear /\ gold["angular"] = gold.angular
        /\ gold["duration"] = gold.duration
    BY DEF Key
  <2>3. ASSUME NEW k \in Key
        PROVE  /\ SameSign(Stop[k], gold[k]) <=> gold[k].v = 0
               /\ Near(Stop[k], gold[k]) <=> gold[k].v = 0
    <3>1. Tol \in Nat /\ Stop[k].v = 0 /\ Stop[k].is = "number"
      BY StopFields, ScoreAssumption
    <3>2. ASSUME NEW g \in Int, g = 0 \/ g \notin -Tol..Tol PROVE 0 - g \in -Tol..Tol <=> g = 0
      BY <3>1, <3>2
    <3>3. Near(Stop[k], gold[k]) <=> gold[k].v = 0
      BY <2>1, <3>1, <3>2 DEF Near
    <3>4. SameSign(Stop[k], gold[k]) <=> gold[k].v = 0
      BY <2>1, StopFields DEF SameSign, Positive, Negative
    <3> QED
      BY <3>3, <3>4
  <2>4. "sign" \in Score(Stop, gold) <=> IsStop(gold)
    BY <1>2, <2>2, <2>3, StopFields DEF Score, Metric, IsStop
  <2>5. "exact" \in Score(Stop, gold) <=> IsStop(gold) /\ gold.duration.v = 0
    BY <1>2, <2>2, <2>3, StopFields DEF Score, Metric, IsStop
  <2>6. "reject" \notin Score(Stop, gold) /\ "moves" \notin Score(Stop, gold)
    BY StopFields DEF Score, Metric
  <2> QED
    BY <2>4, <2>5, <2>6 DEF WithStopRule
<1> QED
  BY <1>1, <1>2

\* For every answer a model may give and every right answer the data may hold,
\* the metrics say what the robot would do.
THEOREM ScoreIsTrue == Spec => []ScoreTellsTheDrive
<1>1. Init => Graded
  BY RefusalAssumption DEF Init, ScoreInit, Graded, Answer
<1>2. Graded /\ [Next]_finetuneVars => Graded'
  <2> SUFFICES ASSUME Graded, [ScoreNext]_scoreVars PROVE Graded'
    BY Parts
  <2>1. CASE ScoreNext
    BY <2>1 DEF ScoreNext, Measure, Graded
  <2>2. CASE UNCHANGED scoreVars
    BY <2>2 DEF scoreVars, Graded
  <2> QED
    BY <2>1, <2>2
<1>3. Graded => ScoreTellsTheDrive
  BY MovesAsDriven, ExactGoesRight, StopScore
     DEF Graded, ScoreTellsTheDrive, MovesMeansDrives, ExactIsNoWrongWay, StopRuleScoresTheStop
<1> QED
  BY <1>1, <1>2, <1>3, PTL DEF Spec

-----------------------------------------------------------------------------
(* Confidence: the element at a rank.  That there is one is shown by taking *)
(* the least number that enough confidences do not exceed.                 *)

Less == {ss \in Nat \X Nat : ss[1] < ss[2]}

LEMMA LessIsWellFounded == IsWellFoundedOn(Less, Nat)
  BY NatLessThanWellFounded DEF OpToRel, Less

LEMMA Least ==
  ASSUME NEW T \in SUBSET Nat, T # {}
  PROVE  \E m \in T : \A k \in T : m <= k
<1>1. PICK m \in T : \A k \in T : ~(<<k, m>> \in Less)
  BY LessIsWellFounded, WFMin
<1>2. \A k \in T : ~(k < m)
  BY <1>1 DEF Less
<1> QED
  BY <1>2

\* Finitely many numbers have a bound.
LEMMA Bounded ==
  ASSUME NEW n \in Nat, NEW I \in SUBSET (1..n), NEW xs \in [I -> Nat]
  PROVE  \E b \in Nat : \A i \in I : xs[i] <= b
<1> DEFINE Has(k) == \E b \in Nat : \A i \in I : i <= k => xs[i] <= b
           T == {k \in 0..n : ~Has(k)}
<1>1. CASE T = {}
  <2>1. n \in 0..n
    OBVIOUS
  <2>2. Has(n)
    <3> HIDE DEF Has
    <3> QED
      BY <1>1, <2>1
  <2>3. PICK b \in Nat : \A i \in I : i <= n => xs[i] <= b
    BY <2>2
  <2>4. \A i \in I : i <= n
    OBVIOUS
  <2> QED
    BY <2>3, <2>4
<1>2. CASE T # {}
  <2>0. T \in SUBSET Nat
    <3> HIDE DEF Has
    <3> QED
      OBVIOUS
  <2>1. PICK m \in T : \A k \in T : m <= k
    <3> HIDE DEF T
    <3> QED
      BY <1>2, <2>0, Least
  <2>2. m \in Nat /\ m <= n /\ ~Has(m)
    <3> HIDE DEF Has
    <3> QED
      BY <2>1
  <2>3. m # 0
    <3>1. \A i \in I : ~(i <= 0)
      OBVIOUS
    <3>2. Has(0)
      BY <3>1
    <3> QED
      BY <2>2, <3>2
  <2>4. Has(m - 1)
    <3> HIDE DEF Has
    <3>1. m - 1 \in 0..n /\ ~(m <= m - 1)
      BY <2>2, <2>3
    <3> QED
      BY <2>1, <3>1
  <2>5. PICK b \in Nat : \A i \in I : i <= m - 1 => xs[i] <= b
    BY <2>4
  <2>6. CASE m \notin I
    <3>1. \A i \in I : i <= m => xs[i] <= b
      BY <2>2, <2>5, <2>6
    <3> QED
      BY <2>2, <3>1
  <2>7. CASE m \in I
    <3>1. xs[m] \in Nat
      BY <2>7
    <3>2. \A i \in I : i <= m => xs[i] <= b + xs[m]
      BY <2>2, <2>5, <3>1
    <3> QED
      BY <2>2, <3>1, <3>2
  <2> QED
    BY <2>6, <2>7
<1> QED
  BY <1>1, <1>2

LEMMA AtRank ==
  ASSUME NEW n \in Nat, NEW I \in SUBSET (1..n), NEW xs \in [I -> Nat],
         NEW r \in Nat, r < Count(xs)
  PROVE  \E x \in {xs[i] : i \in DOMAIN xs} :
           Cardinality(Below(xs, x)) <= r /\ Cardinality(UpTo(xs, x)) > r
<1>0. IsFiniteSet(I)
  <2>1. 1 \in Int /\ n \in Int
    OBVIOUS
  <2>2. IsFiniteSet(1..n)
    BY <2>1, FS_Interval
  <2> QED
    BY <2>2, FS_Subset
<1>9. DOMAIN xs = I /\ \A i \in I : xs[i] \in Nat
  OBVIOUS
<1>1. \A x : /\ Below(xs, x) \subseteq I /\ UpTo(xs, x) \subseteq I
             /\ Cardinality(Below(xs, x)) \in Nat /\ Cardinality(UpTo(xs, x)) \in Nat
  <2>1. ASSUME NEW x PROVE Below(xs, x) \in SUBSET I /\ UpTo(xs, x) \in SUBSET I
    BY DEF Below, UpTo
  <2> QED
    BY <1>0, <2>1, FS_Subset, FS_CardinalityType
<1> DEFINE T == {x \in Nat : Cardinality(UpTo(xs, x)) > r}
<1>2. PICK b \in Nat : \A i \in I : xs[i] <= b
  BY Bounded
<1>3. b \in T
  <2>1. UpTo(xs, b) = I /\ DOMAIN xs = I
    BY <1>2 DEF UpTo
  <2> QED
    BY <2>1 DEF Count
<1>4. PICK m \in T : \A k \in T : m <= k
  BY <1>3, Least
<1>5. Cardinality(UpTo(xs, m)) > r /\ m \in Nat
  BY <1>4
<1>6. Cardinality(Below(xs, m)) <= r
  <2>1. CASE m = 0
    <3>1. \A i \in I : ~(xs[i] < 0)
      BY <1>9
    <3>2. Below(xs, m) = {}
      BY <1>9, <2>1, <3>1 DEF Below
    <3> QED
      BY <3>2, FS_EmptySet
  <2>2. CASE m # 0
    <3>1. m - 1 \in Nat /\ m - 1 \notin T
      BY <1>4, <2>2
    <3>2. Below(xs, m) = UpTo(xs, m - 1)
      <4>1. \A i \in I : xs[i] < m <=> xs[i] <= m - 1
        BY <1>9, <1>5
      <4> QED
        BY <1>9, <4>1 DEF Below, UpTo
    <3> QED
      BY <1>1, <3>1, <3>2
  <2> QED
    BY <2>1, <2>2
<1>7. PICK i \in I : xs[i] = m
  <2>1. Below(xs, m) # UpTo(xs, m)
    BY <1>1, <1>5, <1>6
  <2>2. \A i \in I : xs[i] # m => (xs[i] < m <=> xs[i] <= m)
    BY <1>9, <1>5
  <2> QED
    BY <1>9, <2>1, <2>2 DEF Below, UpTo
<1> QED
  BY <1>9, <1>5, <1>6, <1>7

\* A rank is one of n, and q percent of them at most are before it.
LEMMA RankInRange ==
  ASSUME NEW n \in Nat \ {0}, NEW q \in 0..100
  PROVE  Rank(n, q) \in 0..(n - 1) /\ 100 * Rank(n, q) <= q * n
<1> DEFINE p == q * (n - 1)
<1>1. p \in Nat /\ p <= 100 * (n - 1) /\ p <= q * n
  <2>1. n - 1 \in Nat /\ q \in Nat /\ q <= 100 /\ n - 1 <= n
    OBVIOUS
  <2>2. q * (n - 1) \in Nat /\ q * (n - 1) <= 100 * (n - 1)
    BY <2>1
  <2>3. q * (n - 1) <= q * n
    BY <2>1
  <2> QED
    BY <2>2, <2>3
<1> HIDE DEF p
<1>2. p \div 100 \in Nat /\ 100 * (p \div 100) <= p
  BY <1>1
<1>3. p \div 100 <= n - 1
  BY <1>1, <1>2
<1>4. Rank(n, q) = p \div 100
  BY DEF Rank, p
<1> QED
  BY <1>1, <1>2, <1>3, <1>4

Loaded == valid \in Seq(ValidRow)

LEMMA ThresholdAtRank ==
  ASSUME valid \in Seq(ValidRow)
  PROVE  ThresholdLetsThrough
<1> DEFINE xs == RightDrives
           I == DOMAIN RightDrives
           n == Count(RightDrives)
<1>1. /\ Len(valid) \in Nat /\ I \in SUBSET (1..Len(valid)) /\ xs \in [I -> Nat]
  <2>1. I = {j \in 1..Len(valid) : IsRightDrive(valid[j])}
    BY DEF RightDrives
  <2>2. ASSUME NEW i \in I PROVE xs[i] \in Nat
    <3>1. valid[i] \in ValidRow /\ xs[i] = valid[i].conf
      BY <2>1, <2>2 DEF RightDrives
    <3> QED
      BY <3>1, ConfAssumption DEF ValidRow
  <2>3. xs = [i \in I |-> xs[i]]
    BY DEF RightDrives
  <2> QED
    BY <2>1, <2>2, <2>3
<1>0. IsFiniteSet(1..Len(valid))
  <2>1. 1 \in Int /\ Len(valid) \in Int
    BY <1>1
  <2> QED
    BY <2>1, FS_Interval
<1>2. SUFFICES ASSUME I # {}, NEW q \in Quantile
               PROVE  100 * Cardinality(Below(xs, At(xs, q))) <= q * n
  BY DEF ThresholdLetsThrough
<1>3. n \in Nat \ {0}
  <2>1. IsFiniteSet(I)
    BY <1>0, <1>1, FS_Subset
  <2>2. Cardinality(I) \in Nat /\ Cardinality(I) # 0
    BY <1>2, <2>1, FS_CardinalityType, FS_EmptySet
  <2> QED
    BY <2>2 DEF Count
<1>4. q \in 0..100 /\ Rank(n, q) \in 0..(n - 1) /\ 100 * Rank(n, q) <= q * n
  BY <1>3, ConfAssumption, RankInRange
<1> DEFINE r == Rank(n, q)
<1> HIDE DEF xs
<1>5. r \in Nat /\ r < Count(xs)
  BY <1>3, <1>4 DEF xs
<1>6. \E x \in {xs[i] : i \in DOMAIN xs} :
        Cardinality(Below(xs, x)) <= r /\ Cardinality(UpTo(xs, x)) > r
  <2> HIDE DEF r, I
  <2> QED
    BY <1>1, <1>5, AtRank
<1>7. Cardinality(Below(xs, At(xs, q))) <= r
  BY <1>6 DEF At, xs
<1>8. Cardinality(Below(xs, At(xs, q))) \in Nat
  <2>1. Below(xs, At(xs, q)) \in SUBSET (1..Len(valid))
    BY <1>1 DEF Below, xs
  <2> QED
    BY <1>0, <2>1, FS_Subset, FS_CardinalityType
<1> QED
  BY <1>3, <1>4, <1>5, <1>7, <1>8

\* However many rows were right, and however sure of them the model was, the
\* threshold for q percent loses q percent of them at most.
THEOREM ThresholdIsFair == Spec => []ThresholdLetsThrough
<1>1. Init => Loaded
  BY DEF Init, ReportInit, Loaded
<1>2. Loaded /\ [Next]_finetuneVars => Loaded'
  <2> SUFFICES ASSUME Loaded, [ReportNext]_reportVars
               PROVE  Loaded'
    BY Parts
  <2> QED
    BY DEF ReportNext, LoadValid, reportVars, Loaded
<1>3. Loaded => ThresholdLetsThrough
  BY ThresholdAtRank DEF Loaded
<1> QED
  BY <1>1, <1>2, <1>3, PTL DEF Spec

=============================================================================
