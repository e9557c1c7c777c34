---------------------------- MODULE TrainingStep -----------------------------
(***************************************************************************)
(* Training on a commit: step.export_yolo, then step.train.  The export    *)
(* packs what the commit pins into an archive that depends on nothing      *)
(* else.  A training worker takes one run at a time, fetches the archive,  *)
(* clones the trainer's repository, builds an environment for it, and      *)
(* starts it as a process of its own.  While the trainer runs, the step    *)
(* follows its output: a marker line, which gives a link to MLflow, is     *)
(* written to the run's row and committed at once.  When the trainer has   *)
(* ended well the step uploads the weights and registers blob and model    *)
(* version in the transaction that makes the run succeed.  Trainers may    *)
(* hang, end badly, or end without results; workers may die; users may     *)
(* cancel.  Two trainers may yield the same weights.  The engine's own     *)
(* races are those of RunEngine: here the end of a step and the advance    *)
(* that follows are one, and the advance may reuse what an equal step gave *)
(***************************************************************************)
EXTENDS Naturals, Sequences, FiniteSets

CONSTANTS
  Runs,      \* bound: runs of train_commit
  Commits,   \* dataset commits, and the hashes of their archives
  Cancels,   \* runs that a client may ask to cancel
  CommitOf,  \* CommitOf[t]: the commit that t trains on
  Asks,      \* what is asked: repository, branch, entry point, container, parameters
  Workers,   \* replicas of worker-training
  Weights,   \* contents of weights archives, and their hashes
  Fields,    \* fields of a row's metrics that a marker may set: the run, the experiment
  Links,     \* their values
  Markers,   \* what a trainer says, in this order: a field and its value
  None,      \* no value
  MaxFaults  \* bound: deaths of workers, calls and reads that raise

ASSUME TrainingAssumption ==
  /\ None \notin Workers \cup Weights \cup Asks \cup Links
  /\ Commits \cap Weights = {}
  /\ CommitOf \in [Runs -> Commits]
  /\ Cancels \subseteq Runs
  /\ Markers \in Seq([field : Fields, value : Links])
  /\ MaxFaults \in Nat

VARIABLES
  export,   \* export[t]: the export step of run t
  row,      \* row[t]: the row of its train step
  asked,    \* runs whose row a request to cancel has read, and not yet written
  step,     \* step[t]: the step of run t in its worker
  proc,     \* proc[t]: the trainer's process
  object,   \* hashes that have their bytes in the store
  blobs,    \* hashes in table blobs
  models,   \* table model_versions
  faults    \* counts the faults, bounded by MaxFaults

vars == <<export, row, asked, step, proc, object, blobs, models, faults>>

\* A model version.
Model == [run : Runs, weights : Weights]

\* What the markers have set.
Metrics == [Fields -> Links \cup {None}]
NoMetrics == [f \in Fields |-> None]

\* ask: the step's configuration.  metrics: those fields of runs.metrics.  output: the
\* model in runs.output_refs.
Row == [ask : Asks \cup {None},
        status : {"none", "pending", "running", "succeeded", "failed", "cancelled"},
        metrics : Metrics, output : Model \cup {None}]
NoRow == [ask |-> None, status |-> "none", metrics |-> NoMetrics, output |-> None]

\* read: how many markers the step has read of the pipe.  live: what they set.  weights:
\* the blob this session has inserted and not committed.  dead: the worker died.
Pc   == {"idle", "prepare", "follow", "exited", "uploaded", "registered", "ended", "dead"}
Step == [pc : Pc, worker : Workers \cup {None}, read : 0..Len(Markers), live : Metrics,
         weights : Weights \cup {None}]
NoStep == [pc |-> "idle", worker |-> None, read |-> 0, live |-> NoMetrics, weights |-> None]

\* said: how many markers it has printed into the pipe.  yield: the weights it leaves.
Process == [pc : {"none", "running", "good", "bad", "killed"}, said : 0..Len(Markers),
            yield : Weights \cup {None}]
NoProcess == [pc |-> "none", said |-> 0, yield |-> None]

TypeOK ==
  /\ export \in [Runs -> {"none", "queued", "saved", "done", "failed"}]
  /\ row \in [Runs -> Row]
  /\ asked \subseteq Runs
  /\ step \in [Runs -> Step]
  /\ proc \in [Runs -> Process]
  /\ object \subseteq Weights \cup Commits /\ blobs \subseteq object
  /\ models \subseteq Model
  /\ faults \in Nat

Init ==
  /\ export = [t \in Runs |-> "none"]
  /\ row = [t \in Runs |-> NoRow]
  /\ asked = {}
  /\ step = [t \in Runs |-> NoStep]
  /\ proc = [t \in Runs |-> NoProcess]
  /\ object = {} /\ blobs = {} /\ models = {}
  /\ faults = 0

-----------------------------------------------------------------------------

At(t, pc)  == step[t].pc = pc
Goto(t, pc) == step' = [step EXCEPT ![t].pc = pc]
Over(t)    == step[t].pc \in {"ended", "dead"}
Busy(w)    == \E t \in Runs : step[t].worker = w /\ ~Over(t)
Fault      == faults < MaxFaults /\ faults' = faults + 1
Ended(t)   == proc[t].pc \in {"good", "bad"}

\* Wrong: the failure is written in the session that is rolled back.
RaisesQuietly(t) ==
  /\ step' = [step EXCEPT ![t].pc = "ended", ![t].weights = None]
  /\ UNCHANGED row

\* The step raises: what its session holds is rolled back, the directory is removed,
\* and the run is failed in a transaction of its own.
Raises(t) ==
  /\ step' = [step EXCEPT ![t].pc = "ended", ![t].weights = None]
  /\ row' = [row EXCEPT ![t].status = "failed"]

\* What the idempotency keys of train steps compare: the commit, its archive, the request.
Alike(t, u) == CommitOf[t] = CommitOf[u] /\ row[t].ask = row[u].ask

\* Train steps whose output is taken for that of t, which asks for a.
Priors(t, a) == {u \in Runs : /\ row[u].status = "succeeded"
                              /\ CommitOf[t] = CommitOf[u] /\ row[u].ask = a}

\* The row of the train step, which the advance inserts after the export.
Created(t, a) ==
  IF Priors(t, a) = {} THEN {[NoRow EXCEPT !.ask = a, !.status = "pending"]}
  ELSE {[NoRow EXCEPT !.ask = a, !.status = "succeeded", !.output = row[u].output] :
          u \in Priors(t, a)}

\* "Train this commit": a run of its own, whose definition is in its configuration.
\* The archive of an earlier export of the commit is used again.
TrainCommit(t, a) ==
  /\ export[t] = "none"
  /\ IF \E u \in Runs : export[u] = "done" /\ CommitOf[u] = CommitOf[t]
     THEN /\ export' = [export EXCEPT ![t] = "done"]
          /\ \E r \in Created(t, a) : row' = [row EXCEPT ![t] = r]
     ELSE /\ export' = [export EXCEPT ![t] = "queued"]
          /\ row' = [row EXCEPT ![t].ask = a]
  /\ UNCHANGED <<asked, step, proc, object, blobs, models, faults>>

\* The archive is put before its row is inserted.
SaveArchive(t) ==
  /\ export[t] = "queued"
  /\ object' = object \cup {CommitOf[t]}
  /\ export' = [export EXCEPT ![t] = "saved"]
  /\ UNCHANGED <<asked, row, step, proc, blobs, models, faults>>

\* The export succeeds with the insert, and the run goes on to its train step.
Exported(t) ==
  /\ export[t] = "saved"
  /\ blobs' = blobs \cup {CommitOf[t]}
  /\ export' = [export EXCEPT ![t] = "done"]
  /\ \E r \in Created(t, row[t].ask) : row' = [row EXCEPT ![t] = r]
  /\ UNCHANGED <<asked, step, proc, object, models, faults>>

\* No such commit, no classes, an image that cannot be read.
ExportFails(t) ==
  /\ export[t] \in {"queued", "saved"}
  /\ Fault
  /\ export' = [export EXCEPT ![t] = "failed"]
  /\ UNCHANGED <<asked, row, step, proc, object, blobs, models>>

\* The worker claims the run, which is committed as 'running'.
Begin(t, w) ==
  /\ row[t].status = "pending"
  /\ At(t, "idle") /\ ~Busy(w)
  /\ row' = [row EXCEPT ![t].status = "running"]
  /\ step' = [step EXCEPT ![t].pc = "prepare", ![t].worker = w]
  /\ UNCHANGED <<asked, export, proc, object, blobs, models, faults>>

\* No such container, a clone, an environment or a requirement that fails or
\* takes too long, an entry point outside of the repository.
PrepareFails(t) ==
  /\ At(t, "prepare")
  /\ Fault
  /\ Raises(t)
  /\ UNCHANGED <<asked, export, proc, object, blobs, models>>

Spawn(t) ==
  /\ At(t, "prepare")
  /\ CommitOf[t] \in object
  /\ Goto(t, "follow")
  /\ proc' = [proc EXCEPT ![t].pc = "running"]
  /\ UNCHANGED <<asked, export, row, object, blobs, models, faults>>

-----------------------------------------------------------------------------
(* The trainer.                                                              *)

Say(t) ==
  /\ proc[t].pc = "running" /\ proc[t].said < Len(Markers)
  /\ proc' = [proc EXCEPT ![t].said = @ + 1]
  /\ UNCHANGED <<asked, export, row, step, object, blobs, models, faults>>

\* With weights and metrics, or without.
Exit(t) ==
  /\ proc[t].pc = "running"
  /\ \E pc \in {"good", "bad"}, y \in Weights \cup {None} :
       /\ pc = "bad" => y = None
       /\ proc' = [proc EXCEPT ![t].pc = pc, ![t].yield = y]
  /\ UNCHANGED <<asked, export, row, step, object, blobs, models, faults>>

-----------------------------------------------------------------------------
(* Following it.                                                             *)

\* What is in `new' replaces what was in `old'.
Merge(old, new) == [f \in Fields |-> IF new[f] # None THEN new[f] ELSE old[f]]

\* The next marker is read and sets its field, again if it was set; all that is set so
\* far is merged into the row and committed.
OnMarker(t) ==
  /\ At(t, "follow") /\ step[t].read < proc[t].said
  /\ LET n == step[t].read + 1
         live == [step[t].live EXCEPT ![Markers[n].field] = Markers[n].value]
     IN  /\ step' = [step EXCEPT ![t].read = n, ![t].live = live]
         /\ row' = [row EXCEPT ![t].metrics = Merge(@, live)]
  /\ UNCHANGED <<export, asked, proc, object, blobs, models, faults>>

\* The commit of a marker raises, or a line is longer than the reader takes: only a
\* timeout makes the step kill the trainer.
FollowFails(t) ==
  /\ At(t, "follow")
  /\ Fault
  /\ Raises(t)
  /\ UNCHANGED <<asked, export, proc, object, blobs, models>>

\* The trainer, or its output, takes longer than TRAINING_TIMEOUT.
TimeOut(t) ==
  /\ At(t, "follow")
  /\ Raises(t)
  /\ proc' = [proc EXCEPT ![t].pc = IF Ended(t) THEN @ ELSE "killed"]
  /\ UNCHANGED <<asked, export, object, blobs, models, faults>>

\* Wrong: the end of the process is enough, what it said last may be unread.
FollowedEarly(t) ==
  /\ At(t, "follow") /\ Ended(t)
  /\ IF proc[t].pc = "bad" THEN Raises(t) ELSE Goto(t, "exited") /\ UNCHANGED row
  /\ UNCHANGED <<asked, export, proc, object, blobs, models, faults>>

\* All output is read, then the process has ended; a bad end raises.
Followed(t) ==
  /\ At(t, "follow") /\ Ended(t) /\ step[t].read = proc[t].said
  /\ IF proc[t].pc = "bad" THEN Raises(t) ELSE Goto(t, "exited") /\ UNCHANGED row
  /\ UNCHANGED <<asked, export, proc, object, blobs, models, faults>>

-----------------------------------------------------------------------------
(* The results.                                                              *)

NoResults(t) ==
  /\ At(t, "exited") /\ proc[t].yield = None
  /\ Raises(t)
  /\ UNCHANGED <<asked, export, proc, object, blobs, models, faults>>

\* The bytes are put before the row is inserted, and not taken back.
Upload(t) ==
  /\ At(t, "exited") /\ proc[t].yield # None
  /\ object' = object \cup {proc[t].yield}
  /\ Goto(t, "uploaded")
  /\ UNCHANGED <<asked, export, row, proc, blobs, models, faults>>

\* The insert waits for another session that has inserted the same hash.
Register(t) ==
  /\ At(t, "uploaded")
  /\ \A u \in Runs : step[u].weights # proc[t].yield
  /\ step' = [step EXCEPT ![t].pc = "registered", ![t].weights = proc[t].yield]
  /\ UNCHANGED <<asked, export, row, proc, object, blobs, models, faults>>

CollectFails(t) ==
  /\ step[t].pc \in {"exited", "uploaded", "registered"}
  /\ Fault
  /\ Raises(t)
  /\ UNCHANGED <<asked, export, proc, object, blobs, models>>

\* Blob, model version and the success of the run are one transaction.  The row's
\* status is not looked at again.
Succeed(t) ==
  /\ At(t, "registered")
  /\ LET model == [run |-> t, weights |-> step[t].weights] IN
     /\ models' = models \cup {model}
     /\ row' = [row EXCEPT ![t].status = "succeeded", ![t].output = model]
  /\ blobs' = blobs \cup {step[t].weights}
  /\ step' = [step EXCEPT ![t].pc = "ended", ![t].weights = None]
  /\ UNCHANGED <<asked, export, proc, object, faults>>

\* cancel_run reads the row, of a run that is not over, ...
CancelRead(t) ==
  /\ t \in Cancels
  /\ row[t].status \in {"pending", "running"}
  /\ asked' = asked \cup {t}
  /\ UNCHANGED <<export, row, step, proc, object, blobs, models, faults>>

\* ... and writes it later, without a lock and whatever it has become.  The worker is not
\* told.
CancelWrite(t) ==
  /\ t \in asked
  /\ asked' = asked \ {t}
  /\ row' = [row EXCEPT ![t].status = "cancelled"]
  /\ UNCHANGED <<export, step, proc, object, blobs, models, faults>>

\* The worker is killed, its trainer is not; it comes back and forgets the run.
Die(t) ==
  /\ ~Over(t) /\ ~At(t, "idle")
  /\ Fault
  /\ step' = [step EXCEPT ![t].pc = "dead", ![t].weights = None]
  /\ UNCHANGED <<asked, export, row, proc, object, blobs, models>>

Goes(t) == \/ SaveArchive(t) \/ Exported(t) \/ Spawn(t) \/ OnMarker(t) \/ Followed(t) \/ NoResults(t) \/ Upload(t)
           \/ Register(t) \/ Succeed(t)

Next == \E t \in Runs :
  \/ \E w \in Workers : Begin(t, w)
  \/ \E a \in Asks : TrainCommit(t, a)
  \/ ExportFails(t)
  \/ Goes(t) \/ Say(t) \/ Exit(t) \/ TimeOut(t) \/ CancelRead(t) \/ CancelWrite(t)
  \/ PrepareFails(t) \/ FollowFails(t) \/ CollectFails(t) \/ Die(t)

\* The step goes on and its clock does; a trainer owes nothing.
Fairness == \A t \in Runs :
  /\ WF_vars(Goes(t))
  /\ WF_vars(TimeOut(t))
  /\ WF_vars(\E w \in Workers : Begin(t, w))

Spec     == Init /\ [][Next]_vars
FairSpec == Spec /\ Fairness

-----------------------------------------------------------------------------

\* Every model version is what its own trainer left when it ended well, with the archive
\* in table and store, and the output of its run, which has succeeded unless a request to
\* cancel wrote over that.  A run that has succeeded has such an output: its own, or one
\* that was trained for the same request on the same commit.
ModelsAreEarned ==
  /\ \A m \in models :
       /\ proc[m.run].pc = "good" /\ proc[m.run].yield = m.weights
       /\ m.weights \in blobs \cap object
       /\ row[m.run].status \in {"succeeded", "cancelled"} /\ row[m.run].output = m
  /\ \A t \in Runs : row[t].status = "succeeded" =>
       row[t].output \in models /\ Alike(t, row[t].output.run)

\* A worker runs one trainer at a time: what runs beyond that has outlived its step, and
\* each such trainer stands for a fault (a dead worker, a failed follow).
TrainersFitWorkers ==
  LET orphans == {t \in Runs : proc[t].pc = "running" /\ Over(t)} IN
  /\ Cardinality(orphans) <= faults
  /\ \A t, u \in Runs : /\ proc[t].pc = "running" /\ proc[u].pc = "running"
                        /\ step[t].worker = step[u].worker
                        => t = u \/ {t, u} \cap orphans # {}

\* After n markers a field is what the last marker of it said.
ShowsLast(metrics, n) == \A f \in Fields :
  \/ metrics[f] = None /\ \A i \in 1..n : Markers[i].field # f
  \/ \E i \in 1..n : /\ Markers[i].field = f /\ Markers[i].value = metrics[f]
                     /\ \A j \in (i + 1)..n : Markers[j].field # f

\* A run that has trained and succeeded shows, in each field, the last link that its
\* trainer ever printed.
LinksAreComplete == \A t \in Runs :
  row[t].status = "succeeded" /\ proc[t].pc # "none" => ShowsLast(row[t].metrics, proc[t].said)

\* Types, models, trainers and links (TrainStep.run).
TrainingIsSound ==
  TypeOK /\ ModelsAreEarned /\ TrainersFitWorkers /\ LinksAreComplete

\* A run that is under way ends, however its trainer behaves, unless its worker dies.
TrainsEnd == \A t \in Runs :
  row[t].status = "running" ~> (row[t].status # "running" \/ At(t, "dead"))

=============================================================================
