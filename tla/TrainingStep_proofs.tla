-------------------------- MODULE TrainingStep_proofs --------------------------
(***************************************************************************)
(* Theorems about TrainingStep, for any runs, commits, requests, workers   *)
(* and markers, however many workers die and trainers hang.                *)
(***************************************************************************)
EXTENDS TrainingStep, FiniteSetTheorems, TLAPS

\* The step of t is at work.
Active(t) == step[t].pc \in Pc \ {"idle", "ended", "dead"}

Orphans == {t \in Runs : proc[t].pc = "running" /\ Over(t)}

\* The row goes with the step: a row that has not begun has no step, and one that has
\* ended has none at work, except that users may cancel it, at any time once it is there.
\* The row shows what the step has seen.
RowSound(t) ==
  /\ export[t] = "saved" => CommitOf[t] \in object
  /\ row[t].status = "none" <=> export[t] # "done"
  /\ t \in asked => row[t].status # "none"
  /\ row[t].status \in {"none", "pending"} => At(t, "idle")
  /\ At(t, "idle") => /\ row[t].status \in {"none", "pending", "succeeded", "cancelled"}
                      /\ row[t].metrics = NoMetrics /\ step[t] = NoStep /\ proc[t] = NoProcess
  /\ Active(t) => row[t].status \in {"running", "cancelled"} /\ row[t].metrics = step[t].live
  /\ At(t, "dead") => row[t].status \in {"running", "cancelled"}
  /\ At(t, "ended") => row[t].status \in {"failed", "succeeded", "cancelled"}

\* The trainer goes with the step: what is read shows what was printed so far, it has
\* ended well before its results are looked at, and it is over when the run succeeds.
TrainerSound(t) ==
  /\ At(t, "prepare") => proc[t] = NoProcess /\ step[t].read = 0
  /\ At(t, "follow") => /\ proc[t].pc \in {"running", "good", "bad"}
                        /\ step[t].read <= proc[t].said
  /\ Active(t) => ShowsLast(step[t].live, step[t].read)
  /\ step[t].pc \in {"exited", "uploaded", "registered"} =>
       proc[t].pc = "good" /\ step[t].read = proc[t].said
  /\ step[t].pc \in {"uploaded", "registered"} => proc[t].yield \in Weights \cap object
  /\ At(t, "registered") => step[t].weights = proc[t].yield
  /\ row[t].status = "succeeded" =>
       \/ proc[t].pc = "none"
       \/ proc[t].pc = "good" /\ ShowsLast(row[t].metrics, proc[t].said)

RunSound(t) == RowSound(t) /\ TrainerSound(t)

\* A worker takes one run at a time.
OneRunAtATime == \A t, u \in Runs :
  Active(t) /\ Active(u) /\ step[t].worker = step[u].worker => t = u

\* Only a step that has ended has left a model.
ModelsAreOver == \A m \in models : At(m.run, "ended")

\* A trainer that has outlived its step stands for a fault.
OrphansAreFaults == IsFiniteSet(Orphans) /\ Cardinality(Orphans) <= faults

IInv ==
  /\ TypeOK
  /\ \A t \in Runs : RunSound(t)
  /\ OneRunAtATime
  /\ OrphansAreFaults
  /\ ModelsAreOver
  /\ ModelsAreEarned

-----------------------------------------------------------------------------

LEMMA InitInv == Init => IInv
<1> SUFFICES ASSUME Init PROVE IInv
  OBVIOUS
<1> USE DEF Init
<1>1. TypeOK
  <2>1. Len(Markers) \in Nat /\ NoMetrics \in Metrics
    BY TrainingAssumption DEF NoMetrics, Metrics
  <2>2. NoProcess \in Process /\ NoStep \in Step /\ NoRow \in Row
    BY <2>1 DEF NoProcess, Process, NoStep, Step, Pc, NoRow, Row
  <2> QED BY <2>2 DEF TypeOK
<1>2. ASSUME NEW t \in Runs PROVE RunSound(t)
  <2>1. RowSound(t)
    BY DEF RowSound, NoRow, NoStep, NoProcess, At, Active
  <2>2. TrainerSound(t)
    BY DEF TrainerSound, NoRow, NoStep, NoProcess, At, Active
  <2> QED BY <2>1, <2>2 DEF RunSound
<1>3. Orphans = {}
  BY DEF Orphans, NoProcess
<1>4. OneRunAtATime /\ ModelsAreOver /\ ModelsAreEarned
  BY DEF OneRunAtATime, Active, NoStep, ModelsAreOver, ModelsAreEarned, NoRow
<1> QED BY <1>1, <1>2, <1>3, <1>4, FS_EmptySet DEF IInv, OrphansAreFaults

-----------------------------------------------------------------------------
(* The links.                                                                *)

\* Before the first marker nothing is shown.
LEMMA NothingToShow == ShowsLast(NoMetrics, 0)
<1>1. \A i \in 1..0 : FALSE
  OBVIOUS
<1> QED BY <1>1 DEF ShowsLast, NoMetrics

\* A marker is typed.
LEMMA MarkerType ==
  ASSUME NEW n \in 1..Len(Markers)
  PROVE  Markers[n].field \in Fields /\ Markers[n].value \in Links
<1> DEFINE Marker == [field : Fields, value : Links]
<1>1. Markers \in Seq(Marker)
  BY TrainingAssumption
<1> HIDE DEF Marker
<1>2. Markers[n] \in Marker
  BY <1>1
<1> QED BY <1>2 DEF Marker

\* One marker more is shown when it has set its field.
LEMMA ShowsNext ==
  ASSUME NEW n \in Nat, NEW live \in Metrics, n + 1 \in 1..Len(Markers), ShowsLast(live, n)
  PROVE  ShowsLast([live EXCEPT ![Markers[n + 1].field] = Markers[n + 1].value], n + 1)
<1> DEFINE m == Markers[n + 1]
           new == [live EXCEPT ![m.field] = m.value]
<1>1. m.field \in Fields /\ m.value \in Links
  BY MarkerType
<1> SUFFICES ASSUME NEW f \in Fields
             PROVE  \/ new[f] = None /\ \A i \in 1..(n + 1) : Markers[i].field # f
                    \/ \E i \in 1..(n + 1) :
                         /\ Markers[i].field = f /\ Markers[i].value = new[f]
                         /\ \A j \in (i + 1)..(n + 1) : Markers[j].field # f
  BY DEF ShowsLast
<1>2. CASE m.field = f
  <2>1. new[f] = m.value
    BY <1>1, <1>2 DEF Metrics
  <2>2. n + 1 \in 1..(n + 1) /\ \A j \in (n + 1 + 1)..(n + 1) : FALSE
    OBVIOUS
  <2> QED BY <1>2, <2>1, <2>2
<1>3. CASE m.field # f
  <2>1. new[f] = live[f]
    BY <1>1, <1>3 DEF Metrics
  <2>2. CASE live[f] = None /\ \A i \in 1..n : Markers[i].field # f
    <3>1. \A i \in 1..(n + 1) : i \in 1..n \/ i = n + 1
      OBVIOUS
    <3> QED BY <1>3, <2>1, <2>2, <3>1
  <2>3. CASE \E i \in 1..n : /\ Markers[i].field = f /\ Markers[i].value = live[f]
                            /\ \A j \in (i + 1)..n : Markers[j].field # f
    <3>1. PICK i \in 1..n : /\ Markers[i].field = f /\ Markers[i].value = live[f]
                           /\ \A j \in (i + 1)..n : Markers[j].field # f
      BY <2>3
    <3>2. i \in 1..(n + 1) /\ \A j \in (i + 1)..(n + 1) : j \in (i + 1)..n \/ j = n + 1
      OBVIOUS
    <3> QED BY <1>3, <2>1, <3>1, <3>2
  <2> QED BY <2>2, <2>3 DEF ShowsLast
<1> QED BY <1>2, <1>3

-----------------------------------------------------------------------------
(* What a step of one run leaves of the others.                              *)

\* Nothing of any other run moves.
Alone(t) == \A u \in Runs \ {t} : /\ export'[u] = export[u] /\ row'[u] = row[u]
                                 /\ step'[u] = step[u] /\ proc'[u] = proc[u]
                                 /\ (u \in asked' <=> u \in asked)

\* What a model of t rests on, if there is one, stays.
ModelStays(t) ==
  \/ ~At(t, "ended") \/ proc[t].pc # "good"
  \/ /\ At(t, "ended")' /\ proc'[t] = proc[t]
     /\ row'[t].ask = row[t].ask /\ row'[t].output = row[t].output
     /\ row[t].status \in {"succeeded", "cancelled"} =>
          row'[t].status \in {"succeeded", "cancelled"}

\* A step of run t keeps the invariant, when it keeps what is said of t itself, begins
\* on a free worker, and pays for an orphan with a fault.
LEMMA OneMoves ==
  ASSUME IInv, NEW t \in Runs, TypeOK', Alone(t), RunSound(t)',
         object \subseteq object', blobs \subseteq blobs', models \subseteq models',
         Active(t)' => \/ Active(t) /\ step'[t].worker = step[t].worker
                       \/ ~Busy(step'[t].worker),
         \/ faults' = faults /\ (t \in Orphans' => t \in Orphans)
         \/ faults' = faults + 1,
         ModelStays(t),
         row[t].status = "succeeded" =>
           row'[t].ask = row[t].ask /\ row'[t].output = row[t].output,
         row[t].status # "succeeded" /\ row'[t].status = "succeeded" =>
           row'[t].output \in models' /\ Alike(t, row[t].output.run)',
         \A m \in models' \ models :
           /\ m.run = t /\ At(t, "ended")' /\ m.weights \in blobs' \cap object'
           /\ proc'[t].pc = "good" /\ proc'[t].yield = m.weights
           /\ row'[t].status = "succeeded" /\ row'[t].output = m
  PROVE  IInv'
<1> USE DEF IInv
<1>1. ASSUME NEW u \in Runs PROVE RunSound(u)'
  <2>1. CASE u = t
    BY <2>1
  <2>2. CASE u # t
    <3>1. RowSound(u)'
      BY <2>2 DEF Alone, RunSound, RowSound, At, Active
    <3>2. TrainerSound(u)'
      BY <2>2 DEF Alone, RunSound, TrainerSound, At, Active
    <3> QED BY <3>1, <3>2 DEF RunSound
  <2> QED BY <2>1, <2>2
<1>2. OneRunAtATime'
  <2> SUFFICES ASSUME NEW u \in Runs, Active(t)', Active(u)', u # t,
                      step'[t].worker = step'[u].worker
               PROVE  FALSE
    BY DEF OneRunAtATime, Alone, Active
  <2>1. Active(u) /\ step'[u] = step[u]
    BY DEF Alone, Active
  <2>2. Active(t) /\ step'[t].worker = step[t].worker
    BY <2>1 DEF Busy, Over, Active
  <2> QED BY <2>1, <2>2 DEF OneRunAtATime
<1>3. OrphansAreFaults'
  <2>1. IsFiniteSet(Orphans) /\ Cardinality(Orphans) <= faults /\ faults \in Nat
    BY DEF OrphansAreFaults, TypeOK
  <2>2. /\ IsFiniteSet(Orphans \cup {t})
        /\ Cardinality(Orphans) \in Nat
        /\ Cardinality(Orphans \cup {t}) \in Nat
        /\ Cardinality(Orphans \cup {t}) <= Cardinality(Orphans) + 1
    <3>1. /\ IsFiniteSet(Orphans \cup {t})
          /\ \/ Cardinality(Orphans \cup {t}) = Cardinality(Orphans)
             \/ Cardinality(Orphans \cup {t}) = Cardinality(Orphans) + 1
      BY <2>1, FS_AddElement
    <3>2. Cardinality(Orphans) \in Nat
      BY <2>1, FS_CardinalityType
    <3> QED BY <3>1, <3>2
  <2>3. Orphans' \subseteq Orphans \cup {t}
    BY DEF Orphans, Alone, Over
  <2>4. CASE faults' = faults + 1
    <3>1. IsFiniteSet(Orphans') /\ Cardinality(Orphans') \in Nat
          /\ Cardinality(Orphans') <= Cardinality(Orphans \cup {t})
      BY <2>2, <2>3, FS_Subset, FS_CardinalityType
    <3> QED BY <2>1, <2>2, <2>4, <3>1 DEF OrphansAreFaults
  <2>5. CASE faults' = faults /\ (t \in Orphans' => t \in Orphans)
    <3>1. Orphans' \subseteq Orphans
      BY <2>3, <2>5
    <3>2. IsFiniteSet(Orphans') /\ Cardinality(Orphans') \in Nat
          /\ Cardinality(Orphans') <= Cardinality(Orphans)
      BY <2>1, <3>1, FS_Subset, FS_CardinalityType
    <3> QED BY <2>1, <2>2, <2>5, <3>2 DEF OrphansAreFaults
  <2> QED BY <2>4, <2>5
<1>4. ASSUME NEW u \in Runs, row[u].status = "succeeded"
      PROVE  row'[u].ask = row[u].ask /\ row'[u].output = row[u].output
  BY <1>4 DEF Alone
<1>5. ASSUME NEW m \in models
      PROVE  /\ m.run \in Runs /\ At(m.run, "ended")' /\ proc'[m.run] = proc[m.run]
             /\ row'[m.run].ask = row[m.run].ask /\ row'[m.run].output = row[m.run].output
             /\ row'[m.run].status \in {"succeeded", "cancelled"}
  <2>1. /\ m.run \in Runs /\ At(m.run, "ended") /\ proc[m.run].pc = "good"
        /\ row[m.run].status \in {"succeeded", "cancelled"}
    BY DEF ModelsAreEarned, ModelsAreOver, TypeOK, Model
  <2>2. CASE m.run = t
    BY <2>1, <2>2 DEF ModelStays
  <2>3. CASE m.run # t
    BY <2>1, <2>3 DEF Alone, At
  <2> QED BY <2>2, <2>3
<1>6. ModelsAreEarned' /\ ModelsAreOver'
  <2>1. ASSUME NEW m \in models'
        PROVE  /\ proc'[m.run].pc = "good" /\ proc'[m.run].yield = m.weights
               /\ m.weights \in blobs' \cap object'
               /\ row'[m.run].status \in {"succeeded", "cancelled"} /\ row'[m.run].output = m
               /\ At(m.run, "ended")'
    <3>1. CASE m \in models
      BY <1>5, <3>1 DEF ModelsAreEarned
    <3>2. CASE m \in models' \ models
      BY <3>2
    <3> QED BY <3>1, <3>2
  <2>2. ASSUME NEW u \in Runs, row'[u].status = "succeeded"
        PROVE  row'[u].output \in models' /\ Alike(u, row[u].output.run)'
    <3>1. CASE row[u].status = "succeeded"
      <4>1. row[u].output \in models /\ Alike(u, row[u].output.run)
        BY <3>1 DEF ModelsAreEarned
      <4> QED BY <1>4, <1>5, <3>1, <4>1 DEF Alike
    <3>2. CASE row[u].status # "succeeded"
      BY <2>2, <3>2 DEF Alone
    <3> QED BY <3>1, <3>2
  <2> QED BY <2>1, <2>2 DEF ModelsAreEarned, ModelsAreOver
<1> QED BY <1>1, <1>2, <1>3, <1>6

-----------------------------------------------------------------------------
(* Before the trainer.                                                       *)

\* The row that the advance creates is new, or takes over what an equal step gave.
LEMMA CreatedRow ==
  ASSUME IInv, NEW t \in Runs, At(t, "idle"), NEW a \in Asks \cup {None}, NEW r \in Created(t, a)
  PROVE  /\ r \in Row /\ r.ask = a /\ r.metrics = NoMetrics
         /\ \/ r.status = "pending"
            \/ /\ r.status = "succeeded" /\ r.output \in models
               /\ r.output.run \in Runs /\ r.output.run # t
               /\ CommitOf[t] = CommitOf[r.output.run] /\ row[r.output.run].ask = a
<1> USE DEF IInv
<1>0. NoMetrics \in Metrics
  BY DEF NoMetrics, Metrics
<1>1. CASE r = [NoRow EXCEPT !.ask = a, !.status = "pending"]
  BY <1>0, <1>1 DEF NoRow, Row
<1>2. ASSUME NEW u \in Priors(t, a),
             r = [NoRow EXCEPT !.ask = a, !.status = "succeeded", !.output = row[u].output]
      PROVE  /\ r \in Row /\ r.ask = a /\ r.metrics = NoMetrics
             /\ r.status = "succeeded" /\ r.output \in models
             /\ r.output.run \in Runs /\ r.output.run # t
             /\ CommitOf[t] = CommitOf[r.output.run] /\ row[r.output.run].ask = a
  <2>1. /\ u \in Runs /\ row[u].status = "succeeded"
        /\ CommitOf[t] = CommitOf[u] /\ row[u].ask = a
    BY DEF Priors
  <2>2. row[u].output \in models /\ Alike(u, row[u].output.run)
    BY <2>1 DEF ModelsAreEarned
  <2>3. row[u].output \in Model /\ row[u].output.run \in Runs
    BY <2>2 DEF TypeOK, Model
  <2>4. r.output = row[u].output /\ r.status = "succeeded" /\ r.ask = a /\ r.metrics = NoMetrics
    BY <1>2 DEF NoRow
  <2>5. r \in Row
    BY <1>0, <1>2, <2>3 DEF NoRow, Row
  <2>6. row[u].output.run # t
    BY <2>2 DEF ModelsAreOver, At
  <2> QED BY <2>1, <2>2, <2>3, <2>4, <2>5, <2>6 DEF Alike
<1>3. r \in {[NoRow EXCEPT !.ask = a, !.status = "pending"]}
      \/ r \in {[NoRow EXCEPT !.ask = a, !.status = "succeeded", !.output = row[u].output] :
                  u \in Priors(t, a)}
  BY DEF Created
<1> QED BY <1>1, <1>2, <1>3

\* A row is created: in the request, or when the export has succeeded.
LEMMA CreateInv ==
  ASSUME IInv, NEW t \in Runs, NEW a \in Asks \cup {None}, NEW r \in Created(t, a),
         export[t] \in {"none", "saved"},
         export' = [export EXCEPT ![t] = "done"],
         row' = [row EXCEPT ![t] = r],
         \/ UNCHANGED blobs
         \/ export[t] = "saved" /\ blobs' = blobs \cup {CommitOf[t]},
         UNCHANGED <<asked, step, proc, object, models, faults>>
  PROVE  IInv'
<1> USE DEF IInv
<1>1. RunSound(t) /\ row[t].status = "none" /\ At(t, "idle")
  BY DEF RunSound, RowSound
<1>2. /\ r \in Row /\ r.ask = a /\ r.metrics = NoMetrics
      /\ \/ r.status = "pending"
         \/ /\ r.status = "succeeded" /\ r.output \in models
            /\ r.output.run \in Runs /\ r.output.run # t
            /\ CommitOf[t] = CommitOf[r.output.run] /\ row[r.output.run].ask = a
  BY <1>1, CreatedRow
<1>3. export'[t] = "done" /\ row'[t] = r /\ Alone(t)
  BY DEF TypeOK, Alone
<1>4. export[t] = "saved" => CommitOf[t] \in object
  BY <1>1 DEF RunSound, RowSound
<1>5. TypeOK'
  BY <1>2, <1>4 DEF TypeOK
<1>6. RowSound(t)'
  BY <1>1, <1>2, <1>3 DEF RunSound, RowSound, At, Active
<1>7. TrainerSound(t)'
  BY <1>1, <1>2, <1>3 DEF RunSound, RowSound, TrainerSound, At, NoProcess, Active
<1>8. row'[t].status = "succeeded" =>
        row'[t].output \in models' /\ Alike(t, row[t].output.run)'
  <2> SUFFICES ASSUME r.status = "succeeded"
               PROVE  r.output \in models /\ Alike(t, row[t].output.run)'
    BY <1>3
  <2>1. row'[r.output.run] = row[r.output.run]
    BY <1>2, <1>3 DEF Alone
  <2> QED BY <1>2, <1>3, <2>1 DEF Alike
<1>9. /\ blobs \subseteq blobs' /\ faults' = faults /\ models' = models /\ object' = object
      /\ ~Active(t)' /\ (t \in Orphans' => t \in Orphans) /\ ModelStays(t)
  BY <1>1 DEF Active, At, Orphans, Over, ModelStays
<1> QED BY <1>1, <1>3, <1>5, <1>6, <1>7, <1>8, <1>9, OneMoves DEF RunSound

LEMMA TrainCommitInv ==
  ASSUME IInv, NEW t \in Runs, NEW a \in Asks, TrainCommit(t, a)
  PROVE  IInv'
<1> USE DEF IInv
<1>1. CASE \E u \in Runs : export[u] = "done" /\ CommitOf[u] = CommitOf[t]
  <2>1. PICK r \in Created(t, a) : row' = [row EXCEPT ![t] = r]
    BY <1>1 DEF TrainCommit
  <2> QED BY <1>1, <2>1, CreateInv DEF TrainCommit
<1>2. CASE ~\E u \in Runs : export[u] = "done" /\ CommitOf[u] = CommitOf[t]
  <2>1. /\ export[t] = "none" /\ export' = [export EXCEPT ![t] = "queued"]
        /\ row' = [row EXCEPT ![t] = [row[t] EXCEPT !.ask = a]]
        /\ UNCHANGED <<asked, step, proc, object, blobs, models, faults>>
    BY <1>2 DEF TrainCommit
  <2>2. row[t] \in Row /\ RunSound(t)
    BY DEF TypeOK
  <2>3. /\ [row[t] EXCEPT !.ask = a] \in Row
        /\ export'[t] = "queued"
        /\ row'[t].status = row[t].status /\ row'[t].metrics = row[t].metrics
        /\ Alone(t)
    BY <2>1, <2>2 DEF TypeOK, Row, Alone
  <2>4. TypeOK'
    BY <2>1, <2>3 DEF TypeOK
  <2>5. row[t].status = "none" /\ At(t, "idle")
    BY <2>1, <2>2 DEF RunSound, RowSound
  <2>6. RowSound(t)'
    BY <2>1, <2>2, <2>3, <2>5 DEF RunSound, RowSound, At, Active
  <2>7. TrainerSound(t)'
    BY <2>1, <2>2, <2>3, <2>5 DEF RunSound, TrainerSound, At, Active
  <2>8. ~Active(t)' /\ (t \in Orphans' => t \in Orphans) /\ ModelStays(t)
    BY <2>1, <2>5 DEF Active, At, Orphans, Over, ModelStays
  <2> QED BY <2>1, <2>3, <2>4, <2>5, <2>6, <2>7, <2>8, OneMoves DEF RunSound
<1> QED BY <1>1, <1>2

\* The export goes on or fails; the row waits for it.
LEMMA ExportInv ==
  ASSUME IInv, NEW t \in Runs, SaveArchive(t) \/ ExportFails(t)
  PROVE  IInv'
<1> USE DEF IInv
<1>1. \/ /\ export' = [export EXCEPT ![t] = "saved"] /\ object' = object \cup {CommitOf[t]}
         /\ faults' = faults
      \/ /\ export' = [export EXCEPT ![t] = "failed"] /\ object' = object
         /\ faults' = faults + 1
  BY DEF SaveArchive, ExportFails, Fault
<1>2. /\ export[t] # "done" /\ CommitOf[t] \in Commits
      /\ UNCHANGED <<asked, row, step, proc, blobs, models>>
  BY TrainingAssumption DEF SaveArchive, ExportFails
<1>3. /\ \/ export'[t] = "saved" /\ CommitOf[t] \in object'
         \/ export'[t] = "failed"
      /\ Alone(t)
  BY <1>1, <1>2 DEF Alone, TypeOK
<1>4. TypeOK'
  BY <1>1, <1>2 DEF TypeOK
<1>5. RowSound(t)'
  BY <1>2, <1>3 DEF RunSound, RowSound, At, Active
<1>6. TrainerSound(t)'
  BY <1>1, <1>2 DEF RunSound, TrainerSound, At, Active
<1>7. ModelStays(t)
  BY <1>2 DEF ModelStays, At
<1> QED BY <1>1, <1>2, <1>3, <1>4, <1>5, <1>6, <1>7, OneMoves DEF RunSound, Active, Orphans, Over

LEMMA BeginInv ==
  ASSUME IInv, NEW t \in Runs, NEW w \in Workers, Begin(t, w)
  PROVE  IInv'
<1> USE DEF IInv
<1> DEFINE s == [step[t] EXCEPT !.pc = "prepare", !.worker = w]
           r == [row[t] EXCEPT !.status = "running"]
<1>1. /\ row[t] \in Row /\ step[t] \in Step /\ RunSound(t)
      /\ row[t].status = "pending" /\ At(t, "idle") /\ ~Busy(w)
      /\ UNCHANGED <<asked, export, proc, object, blobs, models, faults>>
  BY DEF TypeOK, Begin
<1>2. row' = [row EXCEPT ![t] = r] /\ step' = [step EXCEPT ![t] = s]
  BY DEF Begin
<1>3. /\ r \in Row /\ r.status = "running" /\ r.metrics = row[t].metrics
      /\ s \in Step /\ s.pc = "prepare" /\ s.worker = w
      /\ s.live = step[t].live /\ s.read = step[t].read
      /\ row'[t] = r /\ step'[t] = s /\ Alone(t)
  BY <1>1, <1>2 DEF TypeOK, Row, Step, Pc, Alone
<1>4. TypeOK'
  BY <1>1, <1>2, <1>3 DEF TypeOK
<1>5. /\ row[t].metrics = NoMetrics /\ step[t].live = NoMetrics /\ step[t].read = 0
      /\ proc[t] = NoProcess
  BY <1>1 DEF RunSound, RowSound, NoStep
<1> HIDE DEF s, r
<1>6. RowSound(t)'
  BY <1>1, <1>3, <1>5 DEF RunSound, RowSound, At, Active
<1>7. TrainerSound(t)'
  BY <1>1, <1>3, <1>5, NothingToShow DEF RunSound, TrainerSound, At
<1>8. ModelStays(t)
  BY <1>1 DEF ModelStays, At
<1> QED BY <1>1, <1>3, <1>4, <1>6, <1>7, <1>8, OneMoves DEF RunSound, Orphans, Over

-----------------------------------------------------------------------------
(* The step and its trainer.                                                 *)

\* The step raises: whatever its trainer does then is paid for, or it has been killed.
LEMMA RaisesInv ==
  ASSUME IInv, NEW t \in Runs, Active(t), Raises(t),
         UNCHANGED <<asked, export, object, blobs, models>>,
         \/ UNCHANGED proc
         \/ proc' = [proc EXCEPT ![t].pc = "killed"],
         \/ faults' = faults /\ proc'[t].pc # "running"
         \/ faults' = faults + 1
  PROVE  IInv'
<1> USE DEF IInv
<1> DEFINE s == [step[t] EXCEPT !.pc = "ended", !.weights = None]
           r == [row[t] EXCEPT !.status = "failed"]
<1>1. row[t] \in Row /\ step[t] \in Step /\ proc[t] \in Process /\ RunSound(t)
  BY DEF TypeOK
<1>2. row' = [row EXCEPT ![t] = r] /\ step' = [step EXCEPT ![t] = s]
  BY DEF Raises
<1>3. /\ r \in Row /\ r.status = "failed" /\ s \in Step /\ s.pc = "ended"
      /\ row'[t] = r /\ step'[t] = s
  BY <1>1, <1>2 DEF TypeOK, Row, Step, Pc
<1> HIDE DEF s, r
<1>4. proc' \in [Runs -> Process] /\ Alone(t)
  <2>1. [proc[t] EXCEPT !.pc = "killed"] \in Process
    BY <1>1 DEF Process
  <2>2. \/ proc' = proc
        \/ proc' = [proc EXCEPT ![t] = [proc[t] EXCEPT !.pc = "killed"]]
    OBVIOUS
  <2>3. proc' \in [Runs -> Process] /\ \A u \in Runs \ {t} : proc'[u] = proc[u]
    BY <2>1, <2>2 DEF TypeOK
  <2> QED BY <1>2, <2>3 DEF TypeOK, Alone
<1>5. TypeOK'
  <2>1. row' \in [Runs -> Row] /\ step' \in [Runs -> Step]
    BY <1>2, <1>3 DEF TypeOK
  <2> QED BY <1>4, <2>1 DEF TypeOK
<1>6. row[t].status \in {"running", "cancelled"} /\ ModelStays(t)
  BY <1>1 DEF RunSound, RowSound, ModelStays, Active, At
<1>7. RowSound(t)'
  BY <1>1, <1>3, <1>6 DEF RunSound, RowSound, At, Active
<1>8. TrainerSound(t)'
  BY <1>3 DEF TrainerSound, At, Active
<1>9. ~Active(t)' /\ (proc'[t].pc # "running" => t \notin Orphans')
  BY <1>3 DEF Active, Orphans
<1> QED BY <1>3, <1>4, <1>5, <1>6, <1>7, <1>8, <1>9, OneMoves DEF RunSound

LEMMA FailuresInv ==
  ASSUME IInv, NEW t \in Runs,
         \/ PrepareFails(t) \/ FollowFails(t) \/ CollectFails(t) \/ TimeOut(t) \/ NoResults(t)
         \/ Followed(t) /\ proc[t].pc = "bad"
  PROVE  IInv'
<1> USE DEF IInv
<1>1. /\ step[t].pc \in {"prepare", "follow", "exited", "uploaded", "registered"}
      /\ Raises(t) /\ UNCHANGED <<asked, export, object, blobs, models>>
  BY DEF PrepareFails, FollowFails, CollectFails, TimeOut, NoResults, Followed, At
<1>2. Active(t)
  BY <1>1 DEF Active, Pc
<1>3. CASE PrepareFails(t) \/ FollowFails(t) \/ CollectFails(t)
  BY <1>1, <1>2, <1>3, RaisesInv DEF PrepareFails, FollowFails, CollectFails, Fault
<1>4. CASE TimeOut(t)
  <2>1. proc[t] \in Process
    BY DEF TypeOK
  <2>2. CASE Ended(t)
    <3>1. UNCHANGED <<proc, faults>> /\ proc[t].pc # "running"
      BY <1>4, <2>1, <2>2 DEF TimeOut, Ended, TypeOK, Process
    <3> QED BY <1>1, <1>2, <3>1, RaisesInv
  <2>3. CASE ~Ended(t)
    <3>1. proc' = [proc EXCEPT ![t].pc = "killed"] /\ faults' = faults
      BY <1>4, <2>3 DEF TimeOut
    <3>2. proc'[t].pc = "killed"
      BY <2>1, <3>1 DEF TypeOK, Process
    <3> QED BY <1>1, <1>2, <3>1, <3>2, RaisesInv
  <2> QED BY <2>2, <2>3
<1>5. CASE NoResults(t) \/ (Followed(t) /\ proc[t].pc = "bad")
  <2>1. UNCHANGED <<proc, faults>> /\ proc[t].pc # "running"
    BY <1>5 DEF NoResults, Followed, At, RunSound, TrainerSound
  <2> QED BY <1>1, <1>2, <2>1, RaisesInv
<1> QED BY <1>3, <1>4, <1>5

\* The trainer's process starts, prints or ends; the step may go on with it.
LEMMA TrainerMovesInv ==
  ASSUME IInv, NEW t \in Runs, Spawn(t) \/ Say(t) \/ Exit(t)
  PROVE  IInv'
<1> USE DEF IInv
<1>1. /\ row[t] \in Row /\ step[t] \in Step /\ proc[t] \in Process /\ RunSound(t)
      /\ UNCHANGED <<asked, export, row, object, blobs, models, faults>>
  BY DEF TypeOK, Spawn, Say, Exit
<1>2. CASE Spawn(t)
  <2> DEFINE s == [step[t] EXCEPT !.pc = "follow"]
             p == [proc[t] EXCEPT !.pc = "running"]
  <2>1. /\ step' = [step EXCEPT ![t] = s] /\ proc' = [proc EXCEPT ![t] = p]
        /\ At(t, "prepare") /\ proc[t] = NoProcess /\ step[t].read = 0
        /\ Active(t) /\ ShowsLast(step[t].live, 0)
    BY <1>1, <1>2 DEF Spawn, Goto, RunSound, TrainerSound, Active, At, Pc
  <2>2. /\ s \in Step /\ s.pc = "follow" /\ s.worker = step[t].worker
        /\ s.live = step[t].live /\ s.read = 0
        /\ p \in Process /\ p.pc = "running" /\ p.said = 0
        /\ step'[t] = s /\ proc'[t] = p /\ Alone(t)
    <3>1. /\ s \in Step /\ s.pc = "follow" /\ s.worker = step[t].worker
          /\ s.live = step[t].live /\ s.read = 0
      BY <1>1, <2>1 DEF Step, Pc
    <3>2. p \in Process /\ p.pc = "running" /\ p.said = 0
      <4>1. proc[t].said = 0
        BY <2>1 DEF NoProcess
      <4> QED BY <1>1, <4>1 DEF Process
    <3> HIDE DEF s, p
    <3> QED BY <1>1, <2>1, <3>1, <3>2 DEF TypeOK, Alone
  <2> HIDE DEF s, p
  <2>3. TypeOK'
    BY <1>1, <2>1, <2>2 DEF TypeOK
  <2>4. row[t].status \in {"running", "cancelled"} /\ row[t].metrics = step[t].live
    BY <1>1, <2>1 DEF RunSound, RowSound
  <2>5. RowSound(t)'
    BY <1>1, <2>2, <2>4 DEF RunSound, RowSound, At, Active
  <2>6. TrainerSound(t)'
    BY <1>1, <2>1, <2>2, <2>4 DEF TrainerSound, At
  <2>7. ModelStays(t)
    BY <2>1 DEF ModelStays, At
  <2> QED BY <1>1, <2>1, <2>2, <2>3, <2>4, <2>5, <2>6, <2>7, OneMoves DEF RunSound, Orphans, Over
<1>3. CASE Say(t) \/ Exit(t)
  <2>1. PICK p \in Process :
          /\ proc' = [proc EXCEPT ![t] = p]
          /\ proc[t].pc = "running" /\ p.pc \in {"running", "good", "bad"}
          /\ proc[t].said <= p.said
    <3>1. CASE Say(t)
      <4> DEFINE p == [proc[t] EXCEPT !.said = @ + 1]
      <4>1. proc' = [proc EXCEPT ![t] = p] /\ proc[t].pc = "running"
        BY <3>1 DEF Say
      <4>2. proc[t].said \in Nat /\ proc[t].said < Len(Markers) /\ Len(Markers) \in Nat
        BY <1>1, <3>1, TrainingAssumption DEF Say, Process
      <4>3. proc[t].said + 1 \in 0..Len(Markers) /\ proc[t].said <= proc[t].said + 1
        BY <4>2
      <4>4. p \in Process /\ p.said = proc[t].said + 1 /\ p.pc = "running"
        BY <1>1, <4>1, <4>3 DEF Process
      <4> HIDE DEF p
      <4> QED BY <4>1, <4>3, <4>4
    <3>2. CASE Exit(t)
      <4>1. PICK pc \in {"good", "bad"}, y \in Weights \cup {None} :
              proc' = [proc EXCEPT ![t].pc = pc, ![t].yield = y]
        BY <3>2 DEF Exit
      <4> DEFINE p == [proc[t] EXCEPT !.pc = pc, !.yield = y]
      <4>2. proc' = [proc EXCEPT ![t] = p]
        BY <4>1
      <4>3. p \in Process /\ p.pc = pc /\ p.said = proc[t].said
        BY <1>1 DEF Process
      <4>4. proc[t].said <= proc[t].said
        BY <1>1, TrainingAssumption DEF Process
      <4> HIDE DEF p
      <4> QED BY <3>2, <4>2, <4>3, <4>4 DEF Exit
    <3> QED BY <1>3, <3>1, <3>2
  <2>2. step' = step
    BY <1>3 DEF Say, Exit
  <2>3. proc'[t] = p /\ Alone(t)
    BY <1>1, <2>1, <2>2 DEF TypeOK, Alone
  <2>4. TypeOK'
    BY <1>1, <2>1, <2>2 DEF TypeOK
  <2>5. step[t].pc \in {"follow", "ended", "dead"} /\ row[t].status # "succeeded"
    BY <1>1, <2>1 DEF RunSound, RowSound, TrainerSound, At, NoProcess, TypeOK, Step, Pc
  <2>6. RowSound(t)'
    BY <1>1, <2>2, <2>5 DEF RunSound, RowSound, At, Active
  <2>7. TrainerSound(t)'
    <3>1. step[t].read \in Nat /\ proc[t].said \in Nat /\ p.said \in Nat
      BY <1>1, TrainingAssumption DEF Step, Process
    <3> QED BY <1>1, <2>1, <2>2, <2>3, <2>5, <3>1 DEF RunSound, TrainerSound, At, Active
  <2>8. (t \in Orphans' => t \in Orphans) /\ ModelStays(t)
    BY <2>1, <2>2 DEF Orphans, Over, ModelStays
  <2> QED BY <1>1, <2>2, <2>3, <2>4, <2>5, <2>6, <2>7, <2>8, OneMoves DEF RunSound, Active
<1> QED BY <1>2, <1>3

\* A marker sets its field in the step, and in the row in the same transaction.
LEMMA OnMarkerInv ==
  ASSUME IInv, NEW t \in Runs, OnMarker(t)
  PROVE  IInv'
<1> USE DEF IInv
<1> DEFINE n == step[t].read + 1
           live == [step[t].live EXCEPT ![Markers[n].field] = Markers[n].value]
           s == [step[t] EXCEPT !.read = n, !.live = live]
           r == [row[t] EXCEPT !.metrics = Merge(row[t].metrics, live)]
<1>1. /\ row[t] \in Row /\ step[t] \in Step /\ proc[t] \in Process /\ RunSound(t)
      /\ At(t, "follow") /\ step[t].read < proc[t].said
  BY DEF TypeOK, OnMarker
<1>2. /\ row' = [row EXCEPT ![t] = r] /\ step' = [step EXCEPT ![t] = s]
      /\ UNCHANGED <<export, asked, proc, object, blobs, models, faults>>
  BY DEF OnMarker
<1>3. /\ step[t].read \in Nat /\ proc[t].said \in Nat /\ n \in 1..Len(Markers)
      /\ n \in 0..Len(Markers) /\ n <= proc[t].said /\ step[t].live \in Metrics
  BY <1>1, TrainingAssumption DEF Step, Process
<1>4. Active(t) /\ row[t].status \in {"running", "cancelled"} /\ row[t].metrics = step[t].live
  BY <1>1 DEF Active, At, Pc, RunSound, RowSound
<1>5. /\ proc[t].pc \in {"running", "good", "bad"}
      /\ ShowsLast(step[t].live, step[t].read)
  BY <1>1, <1>4 DEF RunSound, TrainerSound
<1>6. ShowsLast(live, n)
  BY <1>3, <1>5, ShowsNext
<1>7. Markers[n].field \in Fields /\ Markers[n].value \in Links
  BY <1>3, MarkerType
<1>8. live \in Metrics
  BY <1>3, <1>7 DEF Metrics
<1>9. Merge(row[t].metrics, live) = live
  <2>1. \A f \in Fields : live[f] = None => row[t].metrics[f] = None
    BY <1>3, <1>4, <1>7, TrainingAssumption DEF Metrics
  <2>2. live = [f \in Fields |-> live[f]]
    BY <1>8 DEF Metrics
  <2> HIDE DEF live
  <2>3. \A f \in Fields : (IF live[f] # None THEN live[f] ELSE row[t].metrics[f]) = live[f]
    BY <2>1
  <2> QED BY <2>2, <2>3 DEF Merge
<1> HIDE DEF live, n
<1>10. r \in Row /\ r.status = row[t].status /\ r.metrics = live
  BY <1>1, <1>8, <1>9 DEF Row
<1>11. /\ s \in Step /\ s.pc = "follow" /\ s.live = live /\ s.read = n
       /\ s.worker = step[t].worker
  BY <1>1, <1>3, <1>8 DEF Step, At
<1> HIDE DEF r, s
<1>12. row'[t] = r /\ step'[t] = s /\ Alone(t)
  BY <1>2 DEF TypeOK, Alone
<1>13. TypeOK'
  BY <1>2, <1>10, <1>11 DEF TypeOK
<1>14. RowSound(t)'
  BY <1>1, <1>2, <1>4, <1>10, <1>11, <1>12 DEF RunSound, RowSound, At, Active
<1>15. TrainerSound(t)'
  BY <1>2, <1>3, <1>4, <1>5, <1>6, <1>10, <1>11, <1>12 DEF TrainerSound, At
<1>16. /\ t \notin Orphans' /\ row[t].status # "succeeded" /\ row'[t].status # "succeeded"
       /\ ModelStays(t)
  BY <1>1, <1>4, <1>10, <1>11, <1>12 DEF Orphans, Over, ModelStays, At
<1> QED BY <1>2, <1>4, <1>11, <1>12, <1>13, <1>14, <1>15, <1>16, OneMoves DEF RunSound

\* The step goes from the end of a trainer to its results, or is gone.
LEMMA StepMovesInv ==
  ASSUME IInv, NEW t \in Runs,
         \/ Followed(t) /\ proc[t].pc # "bad"
         \/ Upload(t) \/ Register(t) \/ Die(t)
  PROVE  IInv'
<1> USE DEF IInv
<1>1. /\ row[t] \in Row /\ step[t] \in Step /\ proc[t] \in Process /\ RunSound(t)
      /\ UNCHANGED <<asked, export, row, proc, blobs, models>>
      /\ object \subseteq object' /\ object' \subseteq object \cup Weights
      /\ Active(t)
  BY DEF TypeOK, Followed, Upload, Register, Die, Over, At, Process, Active, Step, Pc
<1>2. row[t].status \in {"running", "cancelled"} /\ row[t].metrics = step[t].live
  BY <1>1 DEF RunSound, RowSound
<1>3. PICK s \in Step :
        /\ step' = [step EXCEPT ![t] = s] /\ s.worker = step[t].worker
        /\ s.live = step[t].live /\ s.read = step[t].read
        /\ \/ /\ s.pc = "exited" /\ faults' = faults
              /\ proc[t].pc = "good" /\ step[t].read = proc[t].said
           \/ /\ s.pc \in {"uploaded", "registered"} /\ faults' = faults
              /\ step[t].pc \in {"exited", "uploaded"}
              /\ proc[t].yield \in Weights \cap object'
              /\ s.pc = "registered" => s.weights = proc[t].yield
           \/ s.pc = "dead" /\ faults' = faults + 1
  <2>1. CASE Followed(t) /\ proc[t].pc # "bad"
    <3> DEFINE s == [step[t] EXCEPT !.pc = "exited"]
    <3>1. /\ step' = [step EXCEPT ![t] = s] /\ proc[t].pc = "good" /\ faults' = faults
          /\ step[t].read = proc[t].said
      BY <2>1 DEF Followed, Goto, Ended
    <3>2. /\ s \in Step /\ s.pc = "exited" /\ s.worker = step[t].worker
          /\ s.live = step[t].live /\ s.read = step[t].read
      BY <1>1 DEF Step, Pc
    <3> HIDE DEF s
    <3> QED BY <3>1, <3>2
  <2>2. CASE Upload(t)
    <3> DEFINE s == [step[t] EXCEPT !.pc = "uploaded"]
    <3>1. /\ step' = [step EXCEPT ![t] = s] /\ step[t].pc = "exited" /\ faults' = faults
          /\ proc[t].yield \in Weights \cap object'
      BY <1>1, <2>2 DEF Upload, Goto, At, Process
    <3>2. /\ s \in Step /\ s.pc = "uploaded" /\ s.worker = step[t].worker
          /\ s.live = step[t].live /\ s.read = step[t].read
      BY <1>1 DEF Step, Pc
    <3> HIDE DEF s
    <3> QED BY <3>1, <3>2
  <2>3. CASE Register(t)
    <3> DEFINE s == [step[t] EXCEPT !.pc = "registered", !.weights = proc[t].yield]
    <3>1. /\ step' = [step EXCEPT ![t] = s] /\ step[t].pc = "uploaded" /\ faults' = faults
          /\ proc[t].yield \in Weights \cap object'
      BY <1>1, <2>3 DEF Register, At, RunSound, TrainerSound
    <3>2. /\ s \in Step /\ s.pc = "registered" /\ s.worker = step[t].worker
          /\ s.live = step[t].live /\ s.read = step[t].read /\ s.weights = proc[t].yield
      BY <1>1, <3>1 DEF Step, Pc
    <3> HIDE DEF s
    <3> QED BY <3>1, <3>2
  <2>4. CASE Die(t)
    <3> DEFINE s == [step[t] EXCEPT !.pc = "dead", !.weights = None]
    <3>1. step' = [step EXCEPT ![t] = s] /\ faults' = faults + 1
      BY <2>4 DEF Die, Fault
    <3>2. /\ s \in Step /\ s.pc = "dead" /\ s.worker = step[t].worker
          /\ s.live = step[t].live /\ s.read = step[t].read
      BY <1>1 DEF Step, Pc
    <3> HIDE DEF s
    <3> QED BY <3>1, <3>2
  <2> QED BY <2>1, <2>2, <2>3, <2>4
<1>4. step'[t] = s /\ Alone(t)
  BY <1>1, <1>3 DEF TypeOK, Alone
<1>5. faults' \in Nat
  BY <1>3 DEF TypeOK
<1>6. TypeOK'
  BY <1>1, <1>3, <1>5 DEF TypeOK
<1>7. RowSound(t)'
  BY <1>1, <1>2, <1>3, <1>4 DEF RunSound, RowSound, At, Active
<1>8. /\ step[t].pc \in {"exited", "uploaded"} => proc[t].pc = "good" /\ step[t].read = proc[t].said
      /\ ShowsLast(step[t].live, step[t].read)
  BY <1>1 DEF RunSound, TrainerSound
<1>9. TrainerSound(t)'
  BY <1>1, <1>2, <1>3, <1>4, <1>8 DEF TrainerSound, At
<1>10. (faults' = faults => t \notin Orphans') /\ ModelStays(t)
  BY <1>1, <1>3, <1>4, <1>5 DEF Orphans, Over, TypeOK, ModelStays, At, Active
<1> QED BY <1>1, <1>2, <1>3, <1>4, <1>6, <1>7, <1>9, <1>10, OneMoves DEF RunSound

\* The success: a model version, its blob and the row's output at once.
LEMMA SucceedInv ==
  ASSUME IInv, NEW t \in Runs, Succeed(t)
  PROVE  IInv'
<1> USE DEF IInv
<1> DEFINE m == [run |-> t, weights |-> step[t].weights]
           s == [step[t] EXCEPT !.pc = "ended", !.weights = None]
           r == [row[t] EXCEPT !.status = "succeeded", !.output = m]
<1>1. /\ row[t] \in Row /\ step[t] \in Step /\ proc[t] \in Process /\ RunSound(t)
      /\ At(t, "registered")
  BY DEF TypeOK, Succeed
<1>2. /\ row' = [row EXCEPT ![t] = r] /\ step' = [step EXCEPT ![t] = s]
      /\ models' = models \cup {m} /\ blobs' = blobs \cup {step[t].weights}
      /\ UNCHANGED <<asked, export, proc, object, faults>>
  BY DEF Succeed
<1>3. /\ proc[t].pc = "good" /\ ShowsLast(step[t].live, proc[t].said)
      /\ proc[t].yield \in Weights \cap object /\ step[t].weights = proc[t].yield
  BY <1>1 DEF RunSound, TrainerSound, At, Active, Pc
<1>4. row[t].status \in {"running", "cancelled"} /\ row[t].metrics = step[t].live /\ Active(t)
  BY <1>1 DEF RunSound, RowSound, Active, At, Pc
<1>5. m \in Model /\ m.run = t /\ m.weights = proc[t].yield
  BY <1>3 DEF Model
<1> HIDE DEF m
<1>6. r \in Row /\ r.status = "succeeded" /\ r.output = m /\ r.metrics = row[t].metrics
  BY <1>1, <1>5 DEF Row
<1>7. s \in Step /\ s.pc = "ended"
  BY <1>1 DEF Step, Pc
<1> HIDE DEF r, s
<1>8. row'[t] = r /\ step'[t] = s /\ Alone(t)
  BY <1>2 DEF TypeOK, Alone
<1>9. TypeOK'
  BY <1>2, <1>3, <1>5, <1>6, <1>7 DEF TypeOK
<1>10. RowSound(t)'
  BY <1>1, <1>2, <1>4, <1>6, <1>7, <1>8 DEF RunSound, RowSound, At, Active
<1>11. TrainerSound(t)'
  BY <1>2, <1>3, <1>4, <1>6, <1>7, <1>8 DEF TrainerSound, At, Active
<1>12. m \in models' /\ Alike(t, row[t].output.run)'
  BY <1>2, <1>5, <1>6, <1>8 DEF Alike
<1>13. ~Active(t)' /\ t \notin Orphans' /\ At(t, "ended")' /\ ModelStays(t)
  BY <1>1, <1>2, <1>3, <1>7, <1>8 DEF Active, Orphans, At, ModelStays
<1>14. ASSUME NEW n \in models' \ models PROVE n = m
  BY <1>2
<1> QED BY <1>2, <1>3, <1>4, <1>5, <1>6, <1>8, <1>9, <1>10, <1>11, <1>12, <1>13, <1>14, OneMoves
        DEF RunSound

\* A request to cancel reads the row, and cancels it later, whatever it has become.
LEMMA CancelInv ==
  ASSUME IInv, NEW t \in Runs, CancelRead(t) \/ CancelWrite(t)
  PROVE  IInv'
<1> USE DEF IInv
<1>1. row[t] \in Row /\ RunSound(t) /\ UNCHANGED <<export, step, proc, object, blobs, models, faults>>
  BY DEF TypeOK, CancelRead, CancelWrite
<1>2. PICK r \in Row :
        /\ row' = [row EXCEPT ![t] = r]
        /\ r.metrics = row[t].metrics /\ r.ask = row[t].ask /\ r.output = row[t].output
        /\ \/ r.status = row[t].status /\ row[t].status \in {"pending", "running"}
           \/ r.status = "cancelled" /\ t \in asked
  <2>1. CASE CancelRead(t)
    <3>1. row' = [row EXCEPT ![t] = row[t]]
      BY <2>1 DEF CancelRead, TypeOK
    <3> QED BY <1>1, <2>1, <3>1 DEF CancelRead
  <2>2. CASE CancelWrite(t)
    <3> DEFINE r == [row[t] EXCEPT !.status = "cancelled"]
    <3>1. row' = [row EXCEPT ![t] = r] /\ t \in asked
      BY <2>2 DEF CancelWrite
    <3>2. /\ r \in Row /\ r.status = "cancelled" /\ r.metrics = row[t].metrics
          /\ r.ask = row[t].ask /\ r.output = row[t].output
      BY <1>1 DEF Row
    <3> HIDE DEF r
    <3> QED BY <3>1, <3>2
  <2> QED BY <2>1, <2>2
<1>3. asked' \subseteq Runs /\ \A u \in Runs \ {t} : u \in asked' <=> u \in asked
  BY DEF CancelRead, CancelWrite, TypeOK
<1>4. row'[t] = r /\ Alone(t) /\ row[t].status # "none"
  BY <1>1, <1>2, <1>3 DEF TypeOK, Alone, RunSound, RowSound
<1>5. TypeOK'
  BY <1>1, <1>2, <1>3 DEF TypeOK
<1>6. RowSound(t)'
  BY <1>1, <1>2, <1>4 DEF RunSound, RowSound, At, Active
<1>7. TrainerSound(t)'
  BY <1>1, <1>2, <1>4 DEF RunSound, TrainerSound, At, Active
<1>8. ModelStays(t)
  BY <1>1, <1>2, <1>4 DEF ModelStays, At
<1> QED BY <1>1, <1>2, <1>4, <1>5, <1>6, <1>7, <1>8, OneMoves DEF RunSound, Active, Orphans, Over

-----------------------------------------------------------------------------

LEMMA StepInv == ASSUME IInv, [Next]_vars PROVE IInv'
<1>1. CASE UNCHANGED vars
  <2> USE <1>1 DEF vars
  <2>1. TypeOK' /\ ModelsAreEarned' /\ ModelsAreOver'
    BY DEF IInv, TypeOK, ModelsAreEarned, ModelsAreOver, Alike, At
  <2>2. ASSUME NEW t \in Runs PROVE RunSound(t)'
    BY DEF IInv, RunSound, RowSound, TrainerSound, At, Active
  <2>3. OneRunAtATime' /\ OrphansAreFaults'
    BY DEF IInv, OneRunAtATime, OrphansAreFaults, Orphans, Over, Active
  <2> QED BY <2>1, <2>2, <2>3 DEF IInv
<1>2. ASSUME NEW t \in Runs, NEW w \in Workers, Begin(t, w) PROVE IInv'
  BY <1>2, BeginInv
<1>3. ASSUME NEW t \in Runs, NEW a \in Asks, TrainCommit(t, a) PROVE IInv'
  BY <1>3, TrainCommitInv
<1>4. ASSUME NEW t \in Runs, SaveArchive(t) \/ ExportFails(t) PROVE IInv'
  BY <1>4, ExportInv
<1>5. ASSUME NEW t \in Runs, Exported(t) PROVE IInv'
  <2>1. row[t].ask \in Asks \cup {None}
    BY DEF IInv, TypeOK, Row
  <2>2. PICK r \in Created(t, row[t].ask) : row' = [row EXCEPT ![t] = r]
    BY <1>5 DEF Exported
  <2> QED BY <1>5, <2>1, <2>2, CreateInv DEF Exported
<1>6. ASSUME NEW t \in Runs,
             \/ PrepareFails(t) \/ FollowFails(t) \/ CollectFails(t) \/ TimeOut(t) \/ NoResults(t)
             \/ Followed(t)
      PROVE  IInv'
  BY <1>6, FailuresInv, StepMovesInv
<1>7. ASSUME NEW t \in Runs, Spawn(t) \/ Say(t) \/ Exit(t) PROVE IInv'
  BY <1>7, TrainerMovesInv
<1>8. ASSUME NEW t \in Runs, Upload(t) \/ Register(t) \/ Die(t) PROVE IInv'
  BY <1>8, StepMovesInv
<1>9. ASSUME NEW t \in Runs, OnMarker(t) \/ Succeed(t) \/ CancelRead(t) \/ CancelWrite(t)
      PROVE  IInv'
  BY <1>9, OnMarkerInv, SucceedInv, CancelInv
<1> QED BY <1>1, <1>2, <1>3, <1>4, <1>5, <1>6, <1>7, <1>8, <1>9 DEF Next, Goes

\* The inductive invariant holds of every reachable state.
THEOREM Invariance == Spec => []IInv
<1>1. Init => IInv
  BY InitInv
<1>2. IInv /\ [Next]_vars => IInv'
  BY StepInv
<1> QED BY <1>1, <1>2, PTL DEF Spec

\* Every model version is what its own trainer left, although a cancel may write over the
\* success of its run, workers run one trainer each but for orphans that a fault accounts
\* for, and a run that succeeded shows in each field the last link its trainer printed
\* (TrainStep.run, train_commit, cancel_run).
THEOREM ModelsAreSound == Spec => []TrainingIsSound
<1>1. IInv => TrainingIsSound
  <2> SUFFICES ASSUME IInv PROVE TrainingIsSound
    OBVIOUS
  <2> USE DEF IInv
  <2>1. TrainersFitWorkers
    <3>1. ASSUME NEW t \in Runs, NEW u \in Runs, proc[t].pc = "running", proc[u].pc = "running",
                 step[t].worker = step[u].worker, ~Over(t), ~Over(u)
          PROVE  t = u
      <4>1. ASSUME NEW v \in Runs, proc[v].pc = "running", ~Over(v) PROVE Active(v)
        BY <4>1 DEF RunSound, RowSound, Active, Over, At, NoProcess, TypeOK, Step
      <4> QED BY <3>1, <4>1 DEF OneRunAtATime
    <3> QED BY <3>1 DEF TrainersFitWorkers, OrphansAreFaults, Orphans
  <2>2. LinksAreComplete
    BY DEF LinksAreComplete, RunSound, TrainerSound
  <2> QED BY <2>1, <2>2 DEF TrainingIsSound
<1> QED BY <1>1, Invariance, PTL
=============================================================================
