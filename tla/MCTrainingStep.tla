--------------------------- MODULE MCTrainingStep ---------------------------
(***************************************************************************)
(* Instances of TrainingStep for TLC: two runs on one commit, one of which *)
(* may be cancelled, two workers, and trainers that may give a link twice. *)
(***************************************************************************)
EXTENDS TrainingStep

CONSTANTS t1, t2, w1, w2, c1, a1, a2, y1

\* Both runs train on one commit.
OneCommit == [t \in Runs |-> c1]

\* The MLflow run id, twice; the experiment id is a field as good as it.
RunIdTwice == <<[field |-> "run_id", value |-> "l1"], [field |-> "run_id", value |-> "l2"]>>

=============================================================================
