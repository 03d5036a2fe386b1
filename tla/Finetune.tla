------------------------------ MODULE Finetune ------------------------------
(***************************************************************************)
(* The scripts of finetune/, each a process of its own that a shell starts *)
(* when the one before has ended (run_*.sh), on whatever files lie there:  *)
(* making the data sets (GenData), training for several seeds (Training),  *)
(* scoring the answers of a model (Evaluate), reporting on its confidence  *)
(* (Confidence).                                                           *)
(***************************************************************************)
EXTENDS GenData, Evaluate, Confidence, Training

VARIABLE script

Script == {"gen_data", "run_1p5b", "evaluate", "analyze_confidence"}
finetuneVars == <<script, genVars, trainVars, scoreVars, reportVars>>

\* One of them has just been started.
Init ==
  /\ script \in Script
  /\ GenInit
  /\ TrainInit
  /\ ScoreInit
  /\ ReportInit
  /\ script # "gen_data" => args = CHOOSE a \in Args : TRUE

Generate ==
  /\ script = "gen_data"
  /\ GenNext
  /\ UNCHANGED <<script, trainVars, scoreVars, reportVars>>

Train ==
  /\ script = "run_1p5b"
  /\ TrainNext
  /\ UNCHANGED <<script, genVars, scoreVars, reportVars>>

Grade ==
  /\ script = "evaluate"
  /\ ScoreNext
  /\ UNCHANGED <<script, genVars, trainVars, reportVars>>

Report ==
  /\ script = "analyze_confidence"
  /\ ReportNext
  /\ UNCHANGED <<script, genVars, trainVars, scoreVars>>

Next == Generate \/ Train \/ Grade \/ Report

Spec == Init /\ [][Next]_finetuneVars
=============================================================================
