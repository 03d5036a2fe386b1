------------------------------ MODULE Training ------------------------------
(***************************************************************************)
(* finetune/run_1p5b.sh, which trains and scores the model once for each   *)
(* seed, in one container after another, beside its memory guard, a loop   *)
(* that looks at MemAvailable and stops the containers; and train_lora.py  *)
(* in the container, with the trace of its memory that is to survive the   *)
(* death of the board.                                                     *)
(*                                                                         *)
(* The GPU shares the memory of the system, which dies when little is left *)
(* (it did at 170 MB, finetune/README.md:285).  How fast it goes nothing   *)
(* bounds (train_lora.py:106 caps how much): here it may be anything at    *)
(* any moment.                                                             *)
(* A unit of time is a second.  A container may fail and the power may go  *)
(* at any moment, and the script be run again in the same directory.       *)
(***************************************************************************)
EXTENDS Integers

CONSTANTS
  Seeds,         \* runs of the training, 1 to this
  Steps,         \* steps of the optimizer in each
  Free,          \* memory available when no container runs
  LowMemory,     \* below this the guard stops the containers (300 MB)
  Poll,          \* sleep of the guard
  Listing,       \* the most docker ps takes (docker's, not the code's)
  Grace,         \* docker stop -t
  MaxRuns        \* bound of the model: times the script is run

ASSUME TrainingAssumption ==
  /\ Seeds \in Nat \ {0} /\ Steps \in Nat \ {0} /\ MaxRuns \in Nat \ {0}
  /\ Free \in Nat /\ LowMemory \in 0..Free
  /\ Poll \in Nat \ {0} /\ Listing \in Nat /\ Grace \in Nat

VARIABLES
  runs,     \* times the script was started
  seed,     \* the seed under way
  place,    \* what is going on, see Places
  step,     \* state.global_step
  logged,   \* rows of memlog_*.csv on the disk
  adapter,  \* the directory of each seed: "none", "older" (left by an earlier run),
            \* "torn" (half of it written over), "new"
  results,  \* what the results of each seed were made with: "none", "trained" (the
            \* adapter the same run trained), "other"
  avail,    \* MemAvailable
  watch,    \* the guard: "sleep", "ps" (asks which containers run), "stop" (in docker
            \* stop), "gone"
  since,    \* seconds it has been there
  low       \* history: seconds in succession at whose end memory was low, in one
            \* container, as far as TooLong

experiment == <<runs, seed, step, logged, adapter, results>>
watching == <<avail, watch, since, low>>
trainVars == <<experiment, place, watching>>

\* train_lora.py loads, trains, has done a step and not logged it, saves;
\* evaluate.py scores on either test set; the script has ended; the board is off.
Test == {"test", "test_offtopic"}
InContainer == {"load", "train", "row", "save"} \cup Test
Places == InContainer \cup {"over", "down"}

Seed == 1..Seeds

\* A sleep that has just begun, docker ps, and the grace; and a second more.
LowBound == Poll + Listing + Grace
TooLong == LowBound + 1

-----------------------------------------------------------------------------
TrainInit ==
  /\ runs = 1
  /\ seed = 1
  /\ place = "load"
  /\ step = 0 /\ logged = 0
  /\ adapter = [s \in Seed |-> "none"]
  /\ results = [s \in Seed |-> "none"]
  /\ avail = Free
  /\ watch = "sleep" /\ since = 0
  /\ low = 0

\* What the end of a container is to the guard.  docker stop has what it waits for.
\* docker ps sees the next container, or none, or saw this one: then docker stop
\* finds it gone and fails, and set -e (line 8) ends the guard, without a word.
Missed ==
  CASE watch = "stop" -> {"sleep"}
    [] watch = "ps"   -> {"ps", "sleep", "gone"}
    [] OTHER          -> {watch}

\* A container ends; the next has all the memory there is.
Leave(p) ==
  /\ place' = p
  /\ avail' = Free /\ low' = 0
  /\ watch' \in Missed
  /\ since' = IF watch' = watch THEN since ELSE 0

-----------------------------------------------------------------------------
(* train_lora.py.                                                          *)

\* The model is there, "학습 파라미터" printed, the trace opened anew.
Load ==
  /\ place = "load"
  /\ place' = "train"
  /\ step' = 0 /\ logged' = 0
  /\ UNCHANGED <<runs, seed, adapter, results, watching>>

TrainStep ==
  /\ place = "train" /\ step < Steps
  /\ step' = step + 1
  /\ place' = "row"
  /\ UNCHANGED <<runs, seed, logged, adapter, results, watching>>

\* Bug: the row is left to the system to write when it likes.
MemLogUnsynced ==
  /\ place = "row"
  /\ logged' \in {logged, step}
  /\ place' = "train"
  /\ UNCHANGED <<runs, seed, step, adapter, results, watching>>

\* MemLog.on_step_end: write, flush, fsync.
MemLog ==
  /\ place = "row"
  /\ logged' = step
  /\ place' = "train"
  /\ UNCHANGED <<runs, seed, step, adapter, results, watching>>

Trained ==
  /\ place = "train" /\ step = Steps
  /\ place' = "save"
  /\ UNCHANGED <<experiment, watching>>

Save ==
  /\ place = "save"
  /\ adapter' = [adapter EXCEPT ![seed] = "new"]
  /\ Leave("test")
  /\ UNCHANGED <<runs, seed, step, logged, results>>

-----------------------------------------------------------------------------
(* evaluate.py, and the script.                                            *)

\* The other test set, the next seed, or the rest, which only compares.
Onward ==
  CASE place = "test" -> UNCHANGED seed /\ Leave("test_offtopic")
    [] place = "test_offtopic" /\ seed < Seeds -> seed' = seed + 1 /\ Leave("load")
    [] OTHER -> UNCHANGED seed /\ Leave("over")

Scored == [results EXCEPT ![seed] = IF adapter[seed] = "new" THEN "trained" ELSE "other"]

\* Bug: without an adapter the model is scored as it is.
ScoreAnything ==
  /\ place \in Test
  /\ results' = Scored
  /\ Onward
  /\ UNCHANGED <<runs, step, logged, adapter>>

\* The adapter is whatever lies in the directory of that name.
ScoreSeed ==
  /\ place \in Test /\ adapter[seed] # "none"
  /\ results' = Scored
  /\ Onward
  /\ UNCHANGED <<runs, step, logged, adapter>>

\* What the end of a container leaves of an adapter it was writing: one of before
\* half written over, or a whole one; a directory without the configuration, which
\* is written last, is none.
Halves ==
  {adapter} \cup
    IF place # "save" THEN {}
    ELSE {[adapter EXCEPT ![seed] = "new"]} \cup
         (IF adapter[seed] # "none" THEN {[adapter EXCEPT ![seed] = "torn"]} ELSE {})

\* A container that does not come to its end.  The status of the pipe it is in is
\* that of grep: if that has seen one of its words, the script goes on as if nothing
\* had happened.  train_lora.py prints one before it trains, and any "Error" is one.
\* evaluate.py prints its words at the end, before it writes the results.
Cut ==
  /\ adapter' \in Halves
  /\ \/ UNCHANGED seed /\ Leave("over")
     \/ place \in Test /\ Onward
     \/ place \notin Test /\ UNCHANGED seed /\ Leave("test")
  /\ UNCHANGED <<runs, step, logged, results>>

\* It fails: out of memory on the GPU, no adapter there to be scored.
Fails == place \in InContainer /\ Cut

\* The board is reset, or its power goes.
PowerCut ==
  /\ place # "down"
  /\ place' = "down"
  /\ adapter' \in Halves
  /\ UNCHANGED <<runs, seed, step, logged, results, watching>>

\* The script is run again, where the adapters of the run before are.
RunAgain ==
  /\ place \in {"over", "down"} /\ runs < MaxRuns
  /\ runs' = runs + 1
  /\ seed' = 1
  /\ place' = "load"
  /\ adapter' = [s \in Seed |-> IF adapter[s] = "new" THEN "older" ELSE adapter[s]]
  /\ avail' = Free /\ watch' = "sleep" /\ since' = 0 /\ low' = 0
  /\ UNCHANGED <<step, logged, results>>

-----------------------------------------------------------------------------
(* The memory, and the guard.                                              *)

\* How long it stays where it is.
Stay ==
  CASE watch = "sleep" -> Poll
    [] watch = "ps"    -> Listing
    [] watch = "stop"  -> Grace
    [] OTHER           -> 0

Second ==
  /\ place \in InContainer
  /\ watch = "gone" \/ since < Stay
  /\ since' = IF watch = "gone" THEN since ELSE since + 1
  /\ avail' \in 0..Free
  /\ low' = IF avail' >= LowMemory THEN 0 ELSE IF low < TooLong THEN low + 1 ELSE low
  /\ UNCHANGED <<experiment, place, watch>>

\* Bug: what is used is compared, not what is available.
LowUsed == Free - avail < LowMemory

Low == avail < LowMemory

\* It wakes up and looks, and asks docker for the containers if memory is low.
Look ==
  /\ place \in InContainer
  /\ watch = "sleep" /\ since = Poll
  /\ watch' = IF Low THEN "ps" ELSE "sleep"
  /\ since' = 0
  /\ UNCHANGED <<experiment, place, avail, low>>

\* docker ps names the container that runs now, whatever memory it has, and docker
\* stop is asked to stop it.
Listed ==
  /\ place \in InContainer
  /\ watch = "ps"
  /\ watch' = "stop" /\ since' = 0
  /\ UNCHANGED <<experiment, place, avail, low>>

\* docker stop: the container ends, killed at the latest when the grace is over.
DockerStops ==
  /\ place \in InContainer
  /\ watch = "stop"
  /\ Cut

TrainNext ==
  \/ Load
  \/ TrainStep
  \/ MemLog
  \/ Trained
  \/ Save
  \/ ScoreSeed
  \/ Fails
  \/ PowerCut
  \/ RunAgain
  \/ Second
  \/ Look
  \/ Listed
  \/ DockerStops

TrainSpec == TrainInit /\ [][TrainNext]_trainVars

-----------------------------------------------------------------------------
(* Properties.                                                             *)

\* For as long as the guard lives, memory is never low for longer than it takes to
\* wake, to ask docker for the containers and to have them stopped, whatever memory
\* does meanwhile and however the containers follow one another: the board has to
\* last through LowBound seconds below the limit and no more (run_1p5b.sh:16, "stop
\* the container before that").
LowIsShort == place \in InContainer /\ watch # "gone" => low <= LowBound

\* Whenever the board goes down, the trace of the training under way is on the
\* disk but for the row of the last step (train_lora.py:21, "fsync'd so it
\* survives an OOM kill or reset").
TraceSurvives == place = "down" => step - logged \in {0, 1}

\* In a clean directory what is reported for a seed was scored with the adapter
\* that was trained for it, though the script goes on after a training that was
\* stopped: no pipe of it reports a failure (run_1p5b.sh:35-42).  In a second run
\* an adapter of the first may be scored instead.
ScoredIsTrained == runs = 1 => \A s \in Seed : results[s] # "other"
=============================================================================
