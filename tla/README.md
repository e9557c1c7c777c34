# Verification of CVOps

CVOps turns uploads into versioned datasets: workflows of steps extract frames, label them with models
or with people in CVAT, and commit the result to branches of a dataset. This directory holds TLA+
models of the parts whose correctness depends on the order in which several processes act, TLC
configurations that check them on small instances, and proofs, checked by TLAPS, of what holds for all
instances. Paths below are relative to the repository; `api/` stands for
`src/services/api/src/cvops_api/`.

```
tlc -workers 2 -config MCRunEngineGates.cfg MCRunEngine     # any run of PROJECT.json
tlapm RunEngine_proofs.tla                                  # any *_proofs module
```

## 1. The system

| Component | State | Operations | Talks to |
|---|---|---|---|
| Workflow engine, `api/engine/coordinator.py` | rows of `runs`: a parent per workflow run, a child per step | `advance_workflow`, `process_step`, `enqueue_step` | Postgres; Redis Streams as doorbells |
| Run API, `api/routers/runs.py` | the same rows | create, retry, cancel, resolve a gate, ask for a sync | the engine; the `cvat` stream |
| Consumers: `worker-common`, `worker-preprocessing`, `worker-training`, `worker-cvat` | stream entries, a semaphore, retry counters | claim and run, retry, dead-letter, orphan sweep | the engine |
| Dataset versioning, `api/routers/datasets.py` | `commits`, `commit_samples`, `refs` | two kinds of commit request, create and delete refs, diff, browse | Postgres |
| `step.commit_dataset` | the same tables | commit of a run's revisions under a row lock | the engine |
| Human review: `human_review.py`, `cvat-client`, `worker_cvat/sync.py`, `api/routers/internal.py` | `labeling_jobs`, `annotation_revisions`, the parked child row, the CVAT task | push, park, webhook, pull and import, resume | CVAT; the engine |
| Model deployments: `api/routers/cvat.py`, `model-deployer`, `worker_cvat/deployer.py` | `cvat_deployments`, Nuclio functions | reserve, deploy, release, delete | Nuclio |
| Uploads and ingest: `api/routers/data_sources.py`, `extract_frames.py` | `data_sources`, `blobs`, object store | initiate, confirm, dispatch, extract | storage; the engine |
| Samples and revisions: `api/routers/samples.py`, `core/annotation_import.py`, `auto_label.py` and the steps that ingest | `samples`, `annotation_revisions` | upload, upload with labels, label, annotate, delete | Postgres |
| Dataset import: `api/routers/imports.py`, `import_dataset.py` | a run, its samples and splits | import, review, commit | the engine, storage |
| Training: `train_commit`, `export_yolo.py`, `train.py` | a trainer's process, `model_versions` | export, spawn, follow, register | the engine, storage |
| Split strategies, `split_strategies.py` | none | a split per sample | commits |
| Text and sensor steps, CSV and JSONL exports, Label Studio | inserts of their own | one `run()` each | storage |
| Auth, projects, ontologies, tags, collections, models, registry, audit, viewer, frontend, manifests | one-row state or none | CRUD, reads | Postgres |

How they interact: an API request or a finished step calls `advance_workflow`, which inserts the rows of
the steps that became ready, commits, and rings a doorbell per row on the stream of the step's worker.
A worker claims the row with `FOR UPDATE SKIP LOCKED`, runs the step, commits, and advances again. A
step may park at a gate; a person or the CVAT sync clears it and advances. `commit_dataset` and the
commit requests of the API write to the same branches. There is no lock manager or scheduler beyond
Postgres row locks, one partial or full unique constraint here and there, and the orphan sweep.

What is hard, and where: sessions that act on objects they loaded long before (cancel, resolve,
advance); commits followed by a message that may be lost; doorbells delivered twice or never; crashes
between two transactions; two concurrency protocols (compare-and-swap and row lock) on one branch;
read-then-insert numbering; requests to other services that time out and yet take effect. PROJECT.json
lists each hazard at its line, with the properties that cover it or the reason none does yet.

What makes each component correct:

* engine: a step runs at most once and only after its predecessors; reported success and failure are
  true; frozen inputs and reused outputs are genuine; nothing pending is forgotten, no run is stranded;
* versioning: no lost update, no orphan commit, history only grows, tags stay, samples accumulate;
* review: one import per review, linked and unique revision numbers, every frame handed on and the last of
  a sample winning, nothing drawn is lost, a doorbell is answered, a resumed gate moves its run;
* delivery: however often a doorbell is rung, its row runs at most once; a pending row always has one
  on its way or is swept; a dead letter is earned; a worker that is told to stop drops nothing and ends;
* deployments: a function belongs to the organisation whose live row names it, whatever times out;
* uploads: a registered blob has its bytes, frames are of bytes that were verified, and an upload that is worked
  on comes to an end;
* samples: one sample per content, ids that exist, labels not stacked on others' labels, numbers
  without gaps, although writers race and Postgres breaks their deadlocks;
* imports: the folders' splits and the run's own labels, or those of the import it reuses, arrive in the
  branch, a run that is done is committed, clips stay whole;
* training: a model version is what its own trainer left, a worker runs one trainer, a run ends.

## 2. Modules

| Module | Models | State → code |
|---|---|---|
| `RunEngine` | the engine, run API, claim, doorbells, sweep | `parent`, `child`, `inputs`, `output`: rows of `runs`; `bells`: stream entries; `sess[w]`: the ORM session of a job or request, with the copy of the parent it holds |
| `DagExecution` | what the engine promises, without rows, sessions or locks | `phase`, `verdict` |
| `MCRunEngine` | instances: a diamond with a gate, a fan of three | |
| `RunEngine_proofs` | theorems about `RunEngine`, and that it implements `DagExecution` | |
| `DatasetVersioning` | commits, refs and three kinds of writer of one dataset | `commits`, `refs`: the tables; `txn[w]`: what a transaction read or locked |
| `SerialVersions` | what versioning promises, without transactions, row locks or compared targets | `commits`, `head` |
| `MCDatasetVersioning`, `DatasetVersioning_proofs` | its instances; its theorems, that it implements `SerialVersions`, and the theorems about `ImportPipeline` | |
| `ReviewGate` | one gate: push, webhooks, syncs, manual resolution | `revs`, `job`, `gate`, `next`: rows; `task`, `done`: CVAT; `sync[b]`: a doorbell and then its handler; `request[u]`: a resolve request |
| `MCReviewGate`, `ReviewGate_proofs` | its instances, its theorems | |
| `WorkerDelivery`, `MCWorkerDelivery`, `WorkerDelivery_proofs` | one stream, its group and the workers of one kind | `row`: rows; `stream`, `group`, `retries`, `dead`: Redis; `batch`, `slot`, `asleep`, `mode`: a worker's loop, tasks and backoffs |
| `Doorbells` | what the engine takes of delivery, without stream, batches, permits or retries | `row`, `bells`, `sess` |
| `ModelDeployment`, `MCModelDeployment`, `ModelDeployment_proofs` | function names, reservations, the deployer; that it implements `FunctionOwners` | `rows`: `cvat_deployments`; `fn`: Nuclio; `req[q]`: an API request; `work[q]`: the deployer's thread for it |
| `FunctionOwners` | what the deployment API promises, without rows, requests, timeouts or threads | `owners`, `served`, `asked`, `loose` |
| `UploadIngest`, `MCUploadIngest`, `UploadIngest_proofs` | a video from upload to frames | `src`: `data_sources`; `staged`, `object`: the store; `blobs`; `conf[c]`: a confirm; `run[r]`: an ingest run |
| `SampleStore`, `MCSampleStore`, `SampleStore_proofs` | every writer of samples and revisions | `sample`, `revs`: committed rows; `tx[w]`: an open transaction |
| `ImportPipeline`, `MCImportPipeline` | imports, their review, their commits to one branch and the reuse of both | `job[i]`: a run and its steps' outputs; `source`, `revs`, `log`: rows |
| `TrainingStep`, `MCTrainingStep`, `TrainingStep_proofs` | training on a commit | `export`, `row`: two steps' rows; `step`: the step in its worker; `proc`: the trainer's process; `object`, `blobs`, `models` |

How the modules fit together: each looks closely at one place where processes meet, and takes the others
in a reduced form. `RunEngine` takes delivery as a set of doorbells, which `WorkerDelivery` opens;
`ReviewGate`, `UploadIngest` and `TrainingStep` take a step's end and the advance after it as one, which
`RunEngine` opens. `ImportPipeline` composes three steps over the tables: its import is a transaction of
`SampleStore`, its review a `ReviewGate`, its commit a transaction of `DatasetVersioning`.

Four of the modules have an abstract specification that they implement: `RunEngine` the order of
`DagExecution`, `DatasetVersioning` the serial commits of `SerialVersions`, `ModelDeployment` the ownership of
`FunctionOwners`, `WorkerDelivery` the doorbells of `Doorbells`. The last says what `RunEngine` takes of delivery -- a set of bells, a claim in one step, a session
that alone ends what it claimed -- and leaves out what only the engine and the API do to a row, its cancels,
resolutions and advances; so it stands between the two modules, and `RunEngine` is not itself an instance of it.

Operators marked `Wrong` in a module are mutations: plausible bugs of the operator they precede. No
specification uses them; each property of a passing run is shown to fail when one of them takes its
operator's place (PROJECT.json, `mutants`).

### RunEngine

One action per transaction. `advance_workflow` is one step per outcome (`AdvanceReturns`,
`AdvanceFails`, `AdvanceReleases`) because it holds `FOR UPDATE` on the parent from its first read to
its commit. Other sessions may move child rows meanwhile, but none sees the rows it creates before it
commits, and whoever finishes a step advances again: it is as if it had taken place where it read. A release creates several rows, copies results by idempotency key, and
may end in a refusal: `Copies`, `Reached` and `Verdict` say what the loop of the code leaves behind
without replaying it. Cancel and resolve are two steps, a read and an unlocked write. `seen` is the
parent's status as the session loaded it: `FOR UPDATE` does not refresh an ORM object, and the test at
`coordinator.py:117` is made on that object.

Abstractions: all `Runs` share one definition and params, which is what makes results reusable; the
"most recent" prior result is any prior result; `bells` is a set whose members stand for one or more
copies, so that taking one may leave it; which configurations, types and definitions are refused is
open (`BadSteps`, `AlienSteps`, `BrokenRuns`), and so is which definitions make an advance raise and which
results cannot be written (`MalformedRuns`, `SpoiltSteps`): an exception that nothing catches leaves the rows as
a crash does (`Breaks`), and `crashes[r]` counts both; retry of a child row creates a row that behaves as a
parent; events, metrics and timestamps are left out; so are attempts and backoff, whose only effect
here is a doorbell lost or rung again.

`Dag` maps a row to a phase of `DagExecution`: no row is `blocked`, a pending one `ready`, one that runs or
waits `active`. A client may cancel the row of a step, and what the step then is depends on how far it has come,
which output and claims still show: `done` with an output, `withdrawn` if it was never claimed, and `cut` if
somebody executes it or may resolve it -- a cut step goes on, and completes, fails or parks as any other.

### DatasetVersioning

A writer's transaction is cut where another commit can come between two of its statements: `ReadRef`
or `LockBranch` reads the base, then one of `SwapRef`, `Conflict`, `AdvanceRef`, `OpenBranch` writes and
commits, or `RollBack`. The commit row holds its ancestors as a set (`past`), which is what
`parent_commit_id` links to. `landed` is a history variable. A pin is a revision, `Raw` for a sample
committed without one, or `Absent`. Batches are arbitrary: which revision is the latest when a writer
resolves its batch is left open, so the model has more behaviours than the code there. Splits,
statistics, messages and ontology versions are left out. `Serial` maps a ref to the commit it points at; what
transactions have read or locked is not in the abstract state, so its commit must be made of the head as it is
in that very step.

### ReviewGate

Each statement of `handle_cvat_sync` that another transaction can slip between is a step: the check,
the pull, the import of one frame, the commit, the advance. Rows inserted stay in `sync[b].rows` until
the commit (READ COMMITTED). Boxes are reduced to whether any was drawn. `Advance` is reduced to what
the gate's part of the contract needs: it freezes the inputs of the next step unless it has them. A
job pushed by this version always names an ontology; one pushed before `gate_data` had that field falls
back to the project's, which may be gone (`sync.py:93-113`), so `Park` leaves it open. `import_dataset` lists
a sample once for every file it lies in, and neither the push nor the sync looks for doubles, so `Frames` may
name one sample twice: `NewRows` then finds the row of the earlier frame among those its own transaction has
inserted (`Seen`) and builds on it, and the last frame's revision, reviewed or empty, is the one a commit takes.
A revision is known by its sample, its author and its frame. Other writers
of revisions (`auto_label`, `import_dataset`, the samples API) are in `SampleStore`.

### WorkerDelivery

`Init` chooses the kind of worker; guards on `kind` separate what the three loops do. A pool
(`worker.py` of preprocessing and of cvat) reads as many entries as it has permits and hands each to a
task when a permit is free (`PoolRead`, `Spawn`); `ConsumerLoop` takes one at a time (`LoopRead`). A task is
cut at each call to Postgres or Redis: claim, run, delete or increment the retry key, dead-letter,
acknowledge. Between `Lock` and `Begin` the row is locked and still pending, so a duplicate finds it
with `SKIP LOCKED` and returns as if it had been done. `AckRaises` leaves the permit `leaked`, as
`finally: xack; release` does. Each other call to Redis may fail too: `CountIsLost`, `BuryRaises` and `ForgetRaises`
go straight to the finally clause, but the delete after a run that returned is inside the `try`
(`worker.py:107-110`), so `ClearRaises` is caught, counted as a failure of the job and retried. A call that fails
is taken to have had no effect. `failures` counts what the handlers caught. `lost` records what no code can prevent from being dropped -- a crash, a
failed `XADD`, Redis without its data -- so that `PendingRowIsOnItsWay` speaks about the rest.

Abstractions: what a step does is one `Settle` or `Raise`; the delay of a backoff and the 30 seconds a
row must be old before it is swept are left open; deliveries are not claimed back from dead consumers,
since no worker calls `XAUTOCLAIM`.

`Bells` maps every entry of a pending row that is still to be taken, wherever it is -- stream, group, batch, slot or
backoff -- to one bell, and a slot whose task runs a step to a session. A bell that was lost on the way is
`Lose`, an entry that moves on is no step at all, and `Begin`, the commit of the claim, is `ClaimStep`.

### ModelDeployment

A request reserves a name in two steps (`FindNone`, `InsertRow`), between which another may insert, and
then waits for the deployer. Work and request are apart: after `TimeOut` or `Crash` the thread goes on
(`abandonedDeploy`, `abandonedDelete`), while the reservation is released, or, after a crash, kept. Two
client names may become one function (`Slug`). A release that raises leaves what a death leaves, and is a `Crash`.
A `nuctl` that fails may have built or removed the function all the same, since `deployer.py:110-125` neither
looks nor clears up (`NuctlFails`). `loose` records the names given up while a function,
another request or unfinished work of theirs remained, and those that `step.deploy_model` took without a
row: what the properties promise, they promise of the others. Code and weights are left out.

`FunctionOwners` has no rows, requests or threads. The owner of a function is the organisation of its live
row, and `asked` holds what the deployer works on, whether or not a request waits for it; a reservation found, a
name that conflicts, an answer that is read and a request that times out on a row of an earlier request are no
steps of it. A row may be given up twice, by its failed deployment and by a deletion: the second time is no step
either, for the function has become loose.

### UploadIngest

`confirm_upload` is cut at its calls to the store and at its commit; `Load` is its one read of the
source and of `blobs`. Every confirm brings the hash it declares (`HashesOf`), and what arrives at a signed URL
need not be that (`Sends`), nor arrive once (`PutAgain`). A content stands for its own hash,
so verifying it is `object[h] = h`. The other writers of `blobs` and of objects are the image uploads
(`PutImage`, `RegisterImage`), which take the client's word; `vouched` records it. `Begin`, `Ingest` and `Fail`
are the three transactions of `extract_frames`: `ingesting`, the frames, and the failure written apart. A run
may never come to that step: it may be refused as it advances (`refused`), reuse what the step did before, or have
its row cancelled (`CancelRead`, `CancelWrite`). Runs of the user's own go on beside the confirm's (`Rerun`).
`excused` records sources whose confirm started no run, and those a
second confirm set back to `uploaded`. Decoding is left out.

### SampleStore

A transaction goes through its items one by one; what it inserted is in `mine` and `new` until its
commit. An insert of a content that another open transaction has inserted waits (`Blocked`), and
Postgres fails one transaction of a deadlock (`Victim`). The kinds differ in what they do when the
sample is there: `annotated` leaves its labels alone, `import` adds a revision, `images` and `frames` only
take the id; `autoLabel` and `annotate` insert no sample. Geometry and classes are reduced to whether an
item brings labels.

### ImportPipeline

An import, a review and a commit are one transaction each. A place is an archive or a folder, with the format
and ontology it is read by; `Contents` is what it may hold when it is read, so a folder may change between two
imports and an image may lie in it twice. Every file with labels makes a revision and every file is a frame of the
review, but the splits go out only when each file lies in a split folder and is an image of its own
(`FolderSplits`). Neither import nor commit opts out of the reuse by idempotency key (`coordinator.py:240-286`):
a run of a place that was imported before gets that run's output (`StartCopied`; the review never is copied,
its key is new each time), and one that would commit what was committed already adds no commit (`CommitCopied`). So
importing a folder again that has changed is a no-op: `FolderSplitsAreKept` and `CommitsPinTheirOwnLabels` speak of
the import that was executed. Left open are the message and the dataset's name, which are part of a commit's key (all commits of
the model have the same), and the project, which is not part of any.
`wired` says whether the commit's definition
refers to the import's output `splits`, as `POST /imports` always does; then `Resolve` fails the run when
that output was not given. A strategy is a function of the hash of a unit, the source or the sample,
and `Unit` fixes these hashes. `MergedTree` is `commit_dataset`'s tree: the batch over what the parent has with
a revision. `ApiCommit` is the other writer: its splits are counts over an unordered batch.

### TrainingStep

Step and trainer are separate processes with a pipe between them: `Say` and `Exit` are the trainer's,
`OnMarker`, `Followed` and `TimeOut` the step's. Only a timeout kills the trainer (`train.py:232-237`); a
worker's death, a failed commit of a marker or a line too long leaves it behind. `Upload` puts the bytes,
`Register` inserts the blob and waits for a session that holds the same hash, `Succeed` commits blob,
model version and success at once. The pipe is a count: a step has read so many of the markers that the trainer
has printed. A marker names the MLflow run or its experiment, the step keeps one value of each, and a second marker of the
kind replaces the first (`train.py:379-401`); other lines, and markers without a value, change nothing and are left
out. A cancel is two steps, as in `RunEngine`: a request that has read 'running' may write 'cancelled' over
'succeeded', after the model version is there, so `ModelsAreEarned` allows a model's run either status. A cancel of the
export leaves no train step, like its failure. `Alike` and `Priors` compare what the idempotency key of a train step
is made of. The export's archive depends on the commit alone, so its hash is the commit. What a trainer
computes, its metrics and its environment are left out.

## 3. Runs

| Run | Shows | Bounds |
|---|---|---|
| `engine_gates` | types, at most one execution, true verdicts, creation in order, rows that never restart, refinement of `DagExecution` | diamond with a gate, 1 run, 3 sessions, 1 crash, 1 lost doorbell, cancels of the run and of one step |
| `engine_reuse` | final inputs, earned outputs | fan of three, 2 runs that share results, refused types and configs, a broken definition |
| `engine_live` | every run settles, every pending row starts | diamond, 2 sessions, 1 lost doorbell, a malformed or broken definition, a result that cannot be written, a cancelled step |
| `dataset_versions` | no lost update, no orphan commit, accumulation, history, refinement of `SerialVersions` | 3 commits, 2 refs of one name, 2 samples, 2 writers |
| `review_gate` | bounded imports, linked revisions, every sample handed on, nothing drawn lost, doorbells answered, resumed runs go on | 3 doorbells on 2 slots, 1 sample as two frames, a manual resolution, 1 fault |
| `delivery` | one task per row, no dropped doorbell, earned dead letters, refinement of `Doorbells`, pending rows served, stops that end | each kind of worker, 1 row, 2 permits, 1 retry, 2 failures, 1 fault, 1 loss of Redis data |
| `deployments` | covered work, hidden functions, no stale reservation, refinement of `FunctionOwners` | 2 organisations, 1 function under 2 names, 3 requests, 2 rows, 1 timeout, 1 death, 1 step |
| `uploads` | backed blobs, genuine frames, statuses that mean what they say, uploads settle | 1 video twice in a project, a second hash, 2 confirms, 2 runs, 1 image, 1 act of the user, 1 death |
| `samples` | one sample per content, existing ids, labels not stacked, no gaps, whole splits, writers end | 3 writers out of 8 jobs on 2 images, deletions, 1 failure |
| `imports` | splits and labels that arrive, done runs committed, clips kept whole, imports end | 2 runs out of 6 requests for 4 places, one of which changes, 3 images, 1 API commit, 1 failed step |
| `imports_flat` | *violation*: an import without whole folder splits fails | the same |
| `training` | earned models, trainers that fit their workers, the last links shown, runs end | 2 runs on 1 commit, cancels of one, 2 workers, 2 requests, equal results, 2 markers of one field, 1 fault |

Why the bounds suffice.

* Engine: the hazards need two or three sessions on one run (two advances, a claim, a cancel) and a step
  with two predecessors, one of them gated; the diamond is the least graph with both. Reuse needs a second
  run. `engine_gates` takes one run because runs meet only through reuse.
* Versions: three commits are the least for two competing children of a parent, and two refs of one name
  for "deleted and opened again". `dataset_versions` runs the kinds `fromSamples` and `step`; `create`
  differs from `fromSamples` only in the batch, and the proofs cover all three.
* Review: three doorbells are one more than the slots, so that a late one must find the job completed.
  One sample pushed as two frames keeps the liveness run small: samples meet only in the order of frames, and
  the safety properties of this run are proved for any number of either.
* Delivery: rows meet only in the stream and the permits, where entries without a job
  (`Poison`) stand in for the others; two failures of a job are one more than its retries. `MaxFaults` is
  less than the permits, because a pool that has leaked them all blocks for ever (hazard at
  `worker.py:125`).
* Deployments: the third request is the late one that meets what a timeout and its successor left. The
  two names of one function are the only way in which clients can meet unawares.
* Uploads: the second source is what the unique index refuses. Only `s1` has two hashes and bytes of its own, for
  two confirms meet at one source; each act of a user needs to happen once to do its harm.
* Samples: a deadlock takes two writers with opposite orders, and the third is the one who sees what is
  left. The jobs include a file twice under different folders and a mixed tree.
* Imports: two sources whose hashes fall into different splits, images that both share, and requests
  for whole folders, a folder whose files move, mixed and doubled files; reviewed or not; with the splits wired or
  left to a strategy. The second run of a place is the one that reuses the first's import and maybe its commit.
* Training: a second run is what reuse, a busy worker and equal weights need; results that differ meet
  nowhere but in their own rows. Two markers of one field are the least in which one replaces another.

Symmetry is used only where no temporal property is checked beyond action properties. Deadlock checking
is off in every run: the systems stop when clients stop asking, and the counters of faults are bounded.

A run's property may be a conjunction (`DeliveryIsSound`, `VersionsAreSound`, `GateIsSound`, ...) of the type invariant and
the invariants named and explained one by one above it.

### Where the code departs from its documents

`imports_flat` is kept as a run, and PROJECT.json (`findings`) quotes both sides: the commit step of every
import refers to `$steps.import.outputs.splits` (`imports.py:161` and `:181`), an output that
`import_dataset` gives only when every image lies in a split's folder. A flat or mixed dataset fails when the
commit step is created, a reviewed one after its reviewers are done, although
`docs/16-dataset-import.md:126-127` says that the strategy assigns the splits then.

The modules state twelve more sentences that their models refute, of documents, of comments, or of what one
would expect of them. No run
checks them; each takes a `.cfg` that differs from the module's as said here.

| Statement | Module | What happens | Instance |
|---|---|---|---|
| `TerminalIsFinal` | `RunEngine` | an advance with an old copy of the parent reports a cancelled run as succeeded or failed | `MCRunEngineGates.cfg`, no crash, no loss, as a PROPERTY |
| `OutputsAreFinal` | `RunEngine` | two resolutions of one gate: the second replaces the output after success | the same, `Resolutions = {approve, reject}` |
| `NoRunIsStranded` | `RunEngine` | a malformed edge, or a result that cannot be written, makes an advance or a step raise, and nothing touches the run again | `MCRunEngineLive.cfg`, as a PROPERTY |
| `TagsAreFixed` | `DatasetVersioning` | a commit request on a branch that is not there advances the tag of that name | `Kinds = {"create"}`, without symmetry |
| `ParentCarriesForward` | `DatasetVersioning` | `commit_dataset` drops the parent's samples that have no revision | `MCDatasetVersioning.cfg`, without symmetry |
| `NumbersAreUnique` | `ReviewGate` | two syncs import at once with equal numbers | `MCReviewGate.cfg` |
| `CompletedMeansReviewed` | `ReviewGate` | the first of several CVAT jobs completes the review | `Jobs = {j1, j2}` |
| `LostRowsAreDelivered` | `WorkerDelivery` | once Redis lost its group, `ConsumerLoop` reads a group that is not there until it is restarted | `MCWorkerDelivery.cfg` |
| `OneOrgDeploys` | `ModelDeployment` | a request times out, its name is released and reserved by another organisation while its build goes on | `MCModelDeployment.cfg` |
| `OneRunPerUpload` | `UploadIngest` | two confirms overlap and both dispatch | `MCUploadIngest.cfg` |
| `RowNamesItsFrames` | `UploadIngest` | the run of one confirm ingests the first hash, the other confirm has replaced it | `MCUploadIngest.cfg` |
| `NoUploadIsStuck` | `UploadIngest` | a run refused as it advances, or a cancelled step, leaves the source `uploaded` | `MCUploadIngest.cfg`, as a PROPERTY |

### Fairness

All fairness is weak, and of what a process owes by itself; clients, reviewers, failures, crashes,
timeouts of requests and losses are never fair.

* `RunEngine!FairSpec`: a session's next step (a step's `run()` returns, a transaction commits), the
  delivery of each doorbell (the consumer loop reads every entry) and the sweep for each row (each worker's
  `_orphan_recovery_loop` runs for ever). `RunsSettle` excuses runs
  on which a session died or raised and runs with a cancelled step: the code strands them, as the hazards and
  `NoRunIsStranded` say. Raising is in the run that checks it, dying behaves the same.
* `ReviewGate!FairSpec`: each handler and each request that has begun. Its two liveness properties excuse
  behaviours with a fault, for the same reason.
* `WorkerDelivery!FairSpec`: a worker that is down is started again (the container's restart policy), its
  loop reads, its tasks go on, a backoff ends, and the sweep of some worker reaches each pending row. `Raise` is not
  fair, so a task ends by settling unless it raises.
* `UploadIngest!FairSpec`: a confirm that has begun and a queued step go on.
* `SampleStore!FairSpec`: a transaction goes on as long as nothing blocks it, and Postgres looks for
  deadlocks (`deadlock_timeout`).
* `ImportPipeline!FairSpec`: workers take the steps; reviewers may keep a run for ever.
* `TrainingStep!FairSpec`: the step goes on, a free worker takes a run, and the clock of
  `TRAINING_TIMEOUT` runs. The trainer owes nothing: it may hang, and only the clock ends it.

## 4. Proofs

Every safety invariant, action property and refinement that a run checks is also a theorem, for every value of
the constants. The eight
proof modules are checked to the last leaf, from the named assumptions of the specifications and nothing
else: that names are distinct, that functions have the types the columns give them, that `Markers` is a
sequence of fields with values, that `Jobs` have items. Two sets are assumed finite, since something counts them: the doorbells
of a gate and the permits of a worker. Bounds such as `MaxFaults` are any naturals, so the theorems hold
however often things go wrong. Each module proves `Invariance`, `Spec => []IInv`, in one lemma per action or
group of like actions; the other theorems follow from it.

**`RunEngine_proofs`.** `Invariance` proves `Spec => []IInv`. The safety invariants are not inductive:
that a succeeded parent has no failing child, say, depends on what sessions still remember. `IInv` adds
`RowsSound` (what status, inputs and output of a row say of each other), `ExecutionsSound` (a running
row has at most the one session that claimed it, and a row at rest has none) and
`SessionsSound` (what a session carries agrees with the rows it will write). The argument: lemmas say
what each action writes (`ClaimEffect`, `PassEffect`, ...), `Aging` says how rows can change at all, and each
conjunct is then carried over by one lemma (`SucceededStep`, `FailureStep`, `InputsStep`, `OutputsStep`). Theorems:
`StepsRunAtMostOnce` (which states `ExecutionIsSound`), `SuccessIsComplete`, `FailuresAreReported`, `FrozenInputsAreFinal`, `ReuseIsSound`,
and the action properties `RowsAreCreatedInOrder` and `RowsNeverRestart`.

The last part proves the refinement, `EngineImplementsDag`: `Spec => ImplementsDag`, whatever clients
cancel. Each engine step maps to one step of `DagExecution` or to none: a release of several rows with copied
results is one abstract `Release`. The phase of a cancelled row is read off its output and its claims, so the
mapping needs one invariant more, `ClaimsCounted`: a row that runs, waits or is being resolved was claimed, and a
row has no output before it succeeded. There is one lemma for each kind of step (`FailRefines`, `GateRefines`,
`FinishRefines`, `CancelStepRefines`, `PassRefines`). The delicate one is the pass: the session takes the row it
finished for succeeded although a client may have cancelled it since, and `PassReads` says that it is done all
the same.

**`DatasetVersioning_proofs`.** `IInv` strengthens the three invariants by `PastSound` (ancestors are
committed and closed under ancestry), `RefSound` (a live ref points at a commit that landed on it),
`ReadSound` (a writer read a ref together with a committed target, or neither) and `LockSound` (a
locked ref still is what its holder read, and has one holder). The heart is `MoveInv`: whether the move is justified by the compared target
or by the held lock, the new commit's past contains the old target's. Theorems:
`NoUpdateIsLost`, `NoCommitIsOrphaned` (which states `VersionsAreSound`), `TreesKeepSamples`,
`HistoryIsAppendOnly`. `CommitsAreSerial` is the refinement `Spec => ImplementsSerial`: a commit's ancestors and
tree are computed from what its writer read, and `ReadSound` and `LockSound` make that the head of its ref at the
step that commits (`MoveExtends`, `MergedIsKept`); reads, locks and conflicts are no steps of `SerialVersions`.

**`ReviewGate_proofs`.** `IInv` strengthens the four safety invariants by `HandlersSound` (the pending
rows of a handler are linked to committed ones or to each other, numbered in the order of their frames, one for
each frame so far whose sample is importable; it has committed none before), `GateSound` (no handler works before the job row is there, and one that resumed the gate is
past its import) and `SlotsSound`: once the job is completed, those who have imported and those who still
may fit the slots together. That is what makes `ImportsAreBounded` inductive: whoever imports second held a
slot when the first committed, since `Take` turns later ones away. `TurnInv` covers the seven steps of
a doorbell that commit nothing, `ImportInv` and `CommitInv` the others. Theorems:
`ImportsFitTheSlots`, `RevisionChainsHold` (which states `GateIsSound`), `EverySampleIsHandedOn`, `NothingIsLost`.

**`ModelDeployment_proofs`.** That nobody sees another's model depends on who may still be at work on its
name. `IInv` adds `RequestsSound` (what a request remembers agrees with its row, and the row is live unless the
name has become loose), `FunctionsSound` (a function was deployed by the owner of the live row) and
`TimeOutsSound` (a deployment that timed out has given up the row it made). The unique index on live names makes
these fit: one live row, so one owner. Theorems: `DeploymentsAreCovered`, `OwnersAloneSeeModels`,
`FailuresFreeTheName`.

`DeploymentsAreOwned` is the refinement `Spec => ImplementsOwners`, with one lemma for each group of steps
(`AskRefines`, `InsertRefines`, `WorkRefines`, `GiveUpRefines`, `StepBuildRefines`, `QuietRefines`). Asking, building
and removing rest on `HolderMay`: a request that holds a row is of the function's owner, unless the function is
loose. Giving up is the delicate one: when the step does not make the function loose, nobody else may be at work
on it, because work on a function that is not loose holds its one live row, and the step would have seen that.

**`UploadIngest_proofs`.** `IInv` strengthens `UploadIsSound` by `ConfirmsSound` (a request about to copy has bytes
to copy, one about to register has them in place or somebody's word), `SourcesSound` (status, blob, hashes and
frames of a source agree) and `RunsSound` (a step at work has read a hash that its source had; the runs of a source
just marked are `Undone`: they wait, were stopped or died). The last is what `UploadedIsOnItsWay` needs:
the run that a confirm starts cannot have ended well before the mark. Theorems: `UploadsAreSound`, `FramesAreGenuine`.

**`TrainingStep_proofs`.** `IInv` ties row, step and trainer together at every point of a run (`RowSound`,
`TrainerSound`: what the step keeps shows the markers it has read, and the trainer ended well before anything of it is
looked at; `ShowsNext` is the lemma on one marker more), with `OneRunAtATime` for each worker. Trainers beyond one per worker have outlived their steps;
`OrphansAreFaults` counts those against the faults. `ModelsAreOver` says that the step of a model has ended, so that
nothing but a late cancel can still touch its row (`ModelStays`). Theorem: `ModelsAreSound`.

**`WorkerDelivery_proofs`.** Exclusion is `ClaimsExclude` with `TasksSound` (a locked row is pending, a run one
running) and `StartsSound`. Dead letters need an account: duplicates of an entry share one retry counter and
clear it under each other, so `LettersSound` says that the failures caught for a job are at least those being counted plus
the counter, and, once it has a letter, at least those being counted plus the letters plus `MaxRetries`. Each
action moves one unit of that account at most (`OneChanges`, `LettersMove`). `PendingRowIsOnItsWay` is carried
through every move of an entry between stream, group, batch and slot by lemmas on what sequences hold
(`MembersOfAppend`, `MembersOfSplit`). Theorems: `DeliveriesAreSound`, `LettersAreEarned`. `DeliveryRings` is the
refinement `Spec => ImplementsBells`. A step that moves entries may keep or drop bells but ring none
(`QuietBells`); that a task has a bell to answer when it claims follows from the entry in its hand
(`InHandIsOnItsWay`); only the enqueue and the sweep add one (`ProducersRing`), and the retry of a duplicate whose
delete failed (`ClearRaisesRings`), which `Doorbells` sees as one more sweep of the pending row; and each further group of steps
has its lemma (`ReadRings`, `WakeRings`, `DieRings`, `SpawnRings`, `AckRings`, `RunRings`, ...).

**`SampleStore_proofs`.** Revision numbers are taken from what one writer sees, so `NumbersSound` says of the
table and of each writer's view that numbers are `1..n`. `ContentsSound` (one writer has a content, committed or
not), `WriterSound`, `IdsSound`, `SplitsSound` (as many splits as ids only if each id has its own),
`FirstLabelsSound` and `RevsSound` (others' labels come to a sample that is in the table, and after the labels it
came with) complete `IInv`. The lock on an uncommitted row of the unique index is what carries it: whoever
finds a content taken waits for the outcome. Theorems: `SamplesAreSound`, `LabelsComeFirst`.

**`ImportPipeline`**, in the second part of `DatasetVersioning_proofs`: both are about what a branch comes to
hold. `PipelineInv` says what an import gave (`OutputSound`: revisions of its own and of what it read, with a newest
one of each image, folder splits or none, and sources that no later import changes), what a run holds of the
output it got, made or copied, and of the revisions it goes on with (`JobSound`), that runs which are done are
committed, what a commit holds of its run, which is done (`EntrySound`), that a pinned sample is as the newest
commit that brought it placed it (`Placed`), and that the numbers of an image's revisions are `1..n`, so that there
is a newest one. `ClipsStayTogether` compares samples that different runs placed: it holds because sources are
kept and the strategy looks at nothing but ratios (`BucketSame`); for the same reasons the commit of one run is
what another one with the same key would have made (`CommitCopiedInv`, `CommitKept`). Theorems: `ImportsInvariance`,
`ImportsAreSound`, both of `ImportSpec`, the specification of `ImportPipeline`.

Only model-checked: the liveness properties (`RunsSettle`, `PendingRowsStart`, `PendingRowsAreServed`,
`StopsComeToAnEnd` and the others that end in `~>`), because fairness and `ENABLED` are out of the prover's reach. How deadlocks between writers of `SampleStore` are broken shows in `WritersEnd` alone.

## 5. Not modelled, and the plan

Not modelled because nothing in them depends on an order of events: CRUD routers, auth, registry,
audit, viewer, frontend, the CSV and JSONL exports (which have the shape of `export_yolo`), text and sensor
steps. Label Studio is pushed to, but nothing in the repository answers its webhooks. The component list of
PROJECT.json has a line on each.

Left out of modelled parts: statistics, diffs and tree pages of datasets; parsing of labels, geometry and
classes; the contents of archives, environments and weights. Edits of a workflow's definition during its
runs are outside of `RunEngine`, where the definition is a constant: a run under way would mix both graphs, and
no sentence of the repository says what should come of it.

Smaller windows that no module opens: a CVAT task whose labeling job was never committed
(`human_review.py:188`); a batch's winning revisions read before its branch (`datasets.py:520`); a ref
created on a commit of another dataset (`datasets.py:883`). The key of a train step
holds the git branch and not its contents.

What is next:

1. Action properties beside the invariants: settled rows of `WorkerDelivery` and reservations of
   `ModelDeployment` that never come back.
2. The six hazards without a property, once the repository says what should happen, or keeps what it
   says: for three of them the statement is written (`OutputsAreFinal`, `CompletedMeansReviewed`,
   `NoUploadIsStuck`) and the code does not keep it.
