------------------------------ MODULE ReviewGate ------------------------------
(***************************************************************************)
(* One human-review gate of one run, from the push of its samples to CVAT  *)
(* until the run goes on with the reviewed revisions.  The step            *)
(* human_review creates a CVAT task and parks; webhooks and users ring     *)
(* doorbells on the cvat stream; worker-cvat answers each doorbell with    *)
(* handle_cvat_sync, several at once in one process; a user may resolve    *)
(* the gate by hand at any moment.                                         *)
(*                                                                         *)
(* handle_cvat_sync is one transaction at READ COMMITTED, and its only     *)
(* guard against a second import is the status it reads at the start: what *)
(* it inserts is visible to others from its commit on.  A doorbell is      *)
(* acknowledged whatever becomes of its handler, and one whose handler     *)
(* died is never delivered again.                                          *)
(*                                                                         *)
(* An operator whose comment says `Wrong' is a plausible bug of the        *)
(* operator below it, used by the project's mutants alone.                 *)
(***************************************************************************)
EXTENDS Naturals, Sequences, FiniteSets

CONSTANTS
  Samples,     \* samples under review
  Frames,      \* the order in which they were pushed: frame to sample, maybe one twice
  Jobs,        \* CVAT jobs of the task
  Doorbells,   \* cvat_sync messages
  Resolvers,   \* requests that resolve the gate by hand
  Slots,       \* WORKER_CONCURRENCY
  None,        \* nobody, no revision, no inputs
  MaxFaults    \* bound: pulls from CVAT that fail, handlers and requests that die

ASSUME ReviewAssumption ==
  /\ Frames \in Seq(Samples) /\ Samples = {Frames[k] : k \in DOMAIN Frames}
  /\ Slots \in Nat \ {0}
  /\ IsFiniteSet(Doorbells)
  /\ Doorbells \cap Resolvers = {} /\ {None, "model"} \cap (Doorbells \cup Resolvers) = {}

VARIABLES
  task,     \* has the CVAT task been created?
  done,     \* jobs that the reviewers have completed
  revs,     \* committed rows of annotation_revisions
  job,      \* the labeling_jobs row
  gate,     \* the child row of the gate
  next,     \* what the next step's inputs were frozen to
  sync,     \* sync[b]: doorbell b, then its handler
  request,  \* request[u]: a resolve request
  faults    \* counts failed pulls and crashes, bounded by MaxFaults

vars == <<task, done, revs, job, gate, next, sync, request, faults>>

\* A revision is known by its sample, who wrote it, "model" before the push, and the
\* frame it is of.
Author == Doorbells \cup {"model"}
RevId  == Samples \X Author \X (0..Len(Frames))
Rev    == [id : RevId, no : Nat \ {0}, parent : RevId \cup {None}]
\* ontology: is there one for samples without a revision?
JobRow == [status : {"none", "pushed", "completed"}, ontology : BOOLEAN,
           out : SUBSET RevId, error : BOOLEAN]
GateRow == [status : {"running", "failed", "waiting", "succeeded"},
            by : Doorbells \cup Resolvers \cup {None}, revs : SUBSET RevId]

\* drawn: did the pull bring any box; frame: the frames imported so far; rows:
\* inserted, not yet committed.
Handler == [pc : {"unrung", "queued", "pull", "import", "advance", "acked", "dead"},
            drawn : BOOLEAN, frame : 0..Len(Frames), rows : SUBSET Rev]
Request == [pc : {"idle", "found", "carried", "advance", "over"}, revs : SUBSET RevId]

TypeOK ==
  /\ task \in BOOLEAN
  /\ done \subseteq Jobs
  /\ revs \subseteq Rev
  /\ job \in JobRow
  /\ gate \in GateRow
  /\ next \in (SUBSET RevId) \cup {None}
  /\ sync \in [Doorbells -> Handler]
  /\ request \in [Resolvers -> Request]
  /\ faults \in Nat

Init ==
  /\ task = FALSE
  /\ done = {}
  /\ \E labelled \in SUBSET Samples :
       revs = {[id |-> <<s, "model", 0>>, no |-> 1, parent |-> None] : s \in labelled}
  /\ job = [status |-> "none", ontology |-> FALSE, out |-> {}, error |-> FALSE]
  /\ gate = [status |-> "running", by |-> None, revs |-> {}]
  /\ next = None
  /\ sync = [b \in Doorbells |-> [pc |-> "unrung", drawn |-> FALSE, frame |-> 0, rows |-> {}]]
  /\ request = [u \in Resolvers |-> [pc |-> "idle", revs |-> {}]]
  /\ faults = 0

Of(s)      == {r \in revs : r.id[1] = s}
Newest(R)  == {r \in R : \A q \in R : q.no <= r.no}
Importable == {s \in Samples : job.ontology \/ Of(s) # {}}

\* A handler goes on; it ends its transaction, and none of its rows are pending.
Goes(b, pc)   == sync' = [sync EXCEPT ![b].pc = pc]
Ends(b, pc)   == sync' = [sync EXCEPT ![b].pc = pc, ![b].frame = 0, ![b].rows = {}]
Handling      == {b \in Doorbells : sync[b].pc \in {"pull", "import", "advance"}}

-----------------------------------------------------------------------------
(* human_review: the task is created in CVAT before the job row is committed *)
(* together with the parked gate.                                            *)

CreateTask ==
  /\ gate.status = "running" /\ ~task
  /\ task' = TRUE
  /\ UNCHANGED <<done, revs, job, gate, next, sync, request, faults>>

\* The push names an ontology; for a job pushed before it did, the project's
\* stands in, which may be gone.
Park ==
  /\ gate.status = "running" /\ task
  /\ \E named \in BOOLEAN :
       job' = [job EXCEPT !.status = "pushed", !.ontology = named]
  /\ gate' = [gate EXCEPT !.status = "waiting"]
  /\ UNCHANGED <<task, done, revs, next, sync, request, faults>>

\* CVAT refuses, or the insert fails: the task, if any, stays behind in CVAT.
PushFails ==
  /\ gate.status = "running"
  /\ gate' = [gate EXCEPT !.status = "failed"]
  /\ UNCHANGED <<task, done, revs, job, next, sync, request, faults>>

CompleteJob(j) ==
  /\ task
  /\ j \in Jobs \ done
  /\ done' = done \cup {j}
  /\ UNCHANGED <<task, revs, job, gate, next, sync, request, faults>>

-----------------------------------------------------------------------------
(* Doorbells.                                                                *)

Ring(b) ==
  /\ sync[b].pc = "unrung"
  /\ Goes(b, "queued")
  /\ UNCHANGED <<task, done, revs, job, gate, next, request, faults>>

\* A completed job is announced, as often as CVAT likes.
JobWebhook(b) == done # {} /\ Ring(b)

\* Any update of the task is forwarded too.
TaskWebhook(b) == task /\ Ring(b)

\* A user asks for the sync of a waiting gate.
SyncGate(b) == gate.status = "waiting" /\ job.status # "none" /\ Ring(b)

-----------------------------------------------------------------------------
(* handle_cvat_sync.                                                         *)

\* Wrong: a job that is known will do.
Known == job.status # "none"

\* The job is known and not completed, and the gate still holds its gate_data.
Pending == job.status = "pushed" /\ gate.status = "waiting"

Take(b) ==
  /\ sync[b].pc = "queued"
  /\ Cardinality(Handling) < Slots
  /\ Goes(b, IF Pending THEN "pull" ELSE "acked")
  /\ UNCHANGED <<task, done, revs, job, gate, next, request, faults>>

\* The boxes drawn so far, if any, whatever jobs are still open.
Pull(b) ==
  /\ sync[b].pc = "pull"
  /\ \E drawn \in BOOLEAN :
       sync' = [sync EXCEPT ![b].pc = "import", ![b].drawn = drawn]
  /\ UNCHANGED <<task, done, revs, job, gate, next, request, faults>>

\* An exception out of CVAT leaves no trace but the acknowledged doorbell.
PullFails(b) ==
  /\ sync[b].pc = "pull"
  /\ faults < MaxFaults
  /\ faults' = faults + 1
  /\ Goes(b, "acked")
  /\ UNCHANGED <<task, done, revs, job, gate, next, request>>

\* A transaction sees what is committed and its own rows.
Seen(b, s) == {r \in revs \cup sync[b].rows : r.id[1] = s}

Row(b, k, s, no, parent) == [id |-> <<s, b, k>>, no |-> no, parent |-> parent]

\* Wrong: only what was drawn gets a revision.
DrawnRows(b, k, s) ==
  IF ~sync[b].drawn THEN {{}}
  ELSE {{Row(b, k, s, r.no + 1, r.id)} : r \in Newest(Seen(b, s))}

\* Wrong: the parent is any revision of the sample.
StrayRows(b, k, s) ==
  IF Seen(b, s) # {}
  THEN {{Row(b, k, s, r.no + 1, q.id)} : r \in Newest(Seen(b, s)), q \in Seen(b, s)}
  ELSE IF job.ontology THEN {{Row(b, k, s, 1, None)}} ELSE {{}}

\* The rows that frame k may get, of sample s: one after a newest revision of s, or
\* the first one if there is an ontology for it, with or without boxes.
NewRows(b, k, s) ==
  IF Seen(b, s) # {} THEN {{Row(b, k, s, r.no + 1, r.id)} : r \in Newest(Seen(b, s))}
  ELSE IF job.ontology THEN {{Row(b, k, s, 1, None)}}
  ELSE {{}}

Import(b) ==
  /\ sync[b].pc = "import"
  /\ sync[b].frame < Len(Frames)
  /\ LET k == sync[b].frame + 1
     IN \E rows \in NewRows(b, k, Frames[k]) :
          sync' = [sync EXCEPT ![b].frame = k, ![b].rows = @ \cup rows]
  /\ UNCHANGED <<task, done, revs, job, gate, next, request, faults>>

Imported(b) == sync[b].pc = "import" /\ sync[b].frame = Len(Frames)

\* Wrong: the boxes are not counted.
NeverLoses(b) == FALSE

\* Boxes were drawn, and no sample could take them.
LosesBoxes(b) == sync[b].drawn /\ sync[b].rows = {}

\* Wrong: the error is not recorded.
GiveUp(b) ==
  /\ Imported(b)
  /\ LosesBoxes(b)
  /\ Ends(b, "acked")
  /\ UNCHANGED <<task, done, revs, job, gate, next, request, faults>>

Refuse(b) ==
  /\ Imported(b)
  /\ LosesBoxes(b)
  /\ job' = [job EXCEPT !.error = TRUE]
  /\ Ends(b, "acked")
  /\ UNCHANGED <<task, done, revs, gate, next, request, faults>>

\* Wrong: the run is left to somebody else.
CommitAlone(b) ==
  /\ Imported(b)
  /\ ~LosesBoxes(b)
  /\ revs' = revs \cup sync[b].rows
  /\ LET out == {r.id : r \in sync[b].rows}
     IN  /\ job' = [job EXCEPT !.status = "completed", !.out = out, !.error = FALSE]
         /\ gate' = [status |-> "succeeded", by |-> b, revs |-> out]
  /\ Ends(b, "acked")
  /\ UNCHANGED <<task, done, next, request, faults>>

\* One commit: the revisions, the job and the gate.
Commit(b) ==
  /\ Imported(b)
  /\ ~LosesBoxes(b)
  /\ revs' = revs \cup sync[b].rows
  /\ LET out == {r.id : r \in sync[b].rows}
     IN  /\ job' = [job EXCEPT !.status = "completed", !.out = out, !.error = FALSE]
         /\ gate' = [status |-> "succeeded", by |-> b, revs |-> out]
  /\ Ends(b, "advance")
  /\ UNCHANGED <<task, done, next, request, faults>>

\* advance_workflow freezes the inputs of the next step, unless it has a row.
Freeze == next' = IF next = None THEN gate.revs ELSE next

Advance(b) ==
  /\ sync[b].pc = "advance"
  /\ Freeze
  /\ Goes(b, "acked")
  /\ UNCHANGED <<task, done, revs, job, gate, request, faults>>

CrashSync(b) ==
  /\ b \in Handling
  /\ faults < MaxFaults
  /\ faults' = faults + 1
  /\ Ends(b, "dead")
  /\ UNCHANGED <<task, done, revs, job, gate, next, request>>

-----------------------------------------------------------------------------
(* resolve_gate: reads the gate, reads the job, writes the gate.             *)

FindGate(u) ==
  /\ request[u].pc = "idle"
  /\ gate.status = "waiting"
  /\ request' = [request EXCEPT ![u].pc = "found"]
  /\ UNCHANGED <<task, done, revs, job, gate, next, sync, faults>>

\* Revisions of a completed job are carried over.
CarryRevisions(u) ==
  /\ request[u].pc = "found"
  /\ request' = [request EXCEPT ![u] =
       [pc |-> "carried", revs |-> IF job.status = "completed" THEN job.out ELSE {}]]
  /\ UNCHANGED <<task, done, revs, job, gate, next, sync, faults>>

Resolve(u) ==
  /\ request[u].pc = "carried"
  /\ gate' = [status |-> "succeeded", by |-> u, revs |-> request[u].revs]
  /\ request' = [request EXCEPT ![u].pc = "advance"]
  /\ UNCHANGED <<task, done, revs, job, next, sync, faults>>

AdvanceResolved(u) ==
  /\ request[u].pc = "advance"
  /\ Freeze
  /\ request' = [request EXCEPT ![u].pc = "over"]
  /\ UNCHANGED <<task, done, revs, job, gate, sync, faults>>

CrashRequest(u) ==
  /\ request[u].pc \in {"found", "carried", "advance"}
  /\ faults < MaxFaults
  /\ faults' = faults + 1
  /\ request' = [request EXCEPT ![u].pc = "over"]
  /\ UNCHANGED <<task, done, revs, job, gate, next, sync>>

-----------------------------------------------------------------------------
Handle(b) == Take(b) \/ Pull(b) \/ Import(b) \/ Refuse(b) \/ Commit(b) \/ Advance(b)

Serve(u) == CarryRevisions(u) \/ Resolve(u) \/ AdvanceResolved(u)

Next ==
  \/ CreateTask \/ Park \/ PushFails
  \/ \E j \in Jobs : CompleteJob(j)
  \/ \E b \in Doorbells :
       \/ JobWebhook(b) \/ TaskWebhook(b) \/ SyncGate(b)
       \/ Handle(b) \/ PullFails(b) \/ CrashSync(b)
  \/ \E u \in Resolvers : FindGate(u) \/ Serve(u) \/ CrashRequest(u)

Spec == Init /\ [][Next]_vars

\* The event loop runs every handler and every request on; nobody has to push,
\* review, ring or resolve.
FairSpec ==
  /\ Spec
  /\ \A b \in Doorbells : WF_vars(Handle(b))
  /\ \A u \in Resolvers : WF_vars(Serve(u))

-----------------------------------------------------------------------------
\* However many doorbells ring, a review is imported no more often than handlers
\* run at once: one that starts after an import finds the job completed.
Importers == {b \in Doorbells : \E r \in revs : r.id[2] = b}

ImportsAreBounded == Cardinality(Importers) <= Slots

\* The parent chain: the revision a new one builds on is of the same sample and
\* numbered just below it, whoever else is importing.
RevisionsAreLinked ==
  \A r \in revs :
    r.parent # None =>
      \E p \in revs : p.id = r.parent /\ p.id[1] = r.id[1] /\ r.no = p.no + 1

\* What one sync makes of a sample that is several frames is numbered in their order,
\* whoever else is importing: the last frame's wins in a commit.
LaterFramesAreNewer ==
  \A q, r \in revs :
    q.id[1] = r.id[1] /\ q.id[2] = r.id[2] /\ q.id[3] < r.id[3] => q.no < r.no

\* Types, parent chains, frames in order (handle_cvat_sync, import_reviewed_sample,
\* resolve_gate).
GateIsSound == TypeOK /\ RevisionsAreLinked /\ LaterFramesAreNewer

\* A gate that a sync resumed hands on what the job records: one revision of that same
\* sync for every frame whose sample can have one, reviewed or left empty.
ResumedWithEverySample ==
  gate.by \in Doorbells =>
    /\ job.status = "completed"
    /\ gate.revs = job.out
    /\ gate.revs = {<<Frames[k], gate.by, k>> : k \in {m \in DOMAIN Frames :
                                                       Frames[m] \in Importable}}
    /\ \A id \in gate.revs : \E r \in revs : r.id = id

\* "Guard against silent data loss": a gate is not resumed with nothing when
\* something was drawn.
NothingDrawnIsLost ==
  gate.by \in Doorbells /\ sync[gate.by].drawn => gate.revs # {}

\* A doorbell for a waiting gate resumes it, or an error says why not.
DoorbellIsAnswered ==
  Pending /\ (\E b \in Doorbells : sync[b].pc = "queued")
    ~> ~Pending \/ job.error \/ faults > 0

\* A resumed gate makes the run go on.
ResumedRunGoesOn == gate.status = "succeeded" ~> next # None \/ faults > 0

\* What ANNOTATIONS.md asks, "never reuse a revision_no", and two imports at
\* once do not keep.
NumbersAreUnique ==
  \A q, r \in revs : q.id[1] = r.id[1] /\ q.no = r.no => q = r

\* What LABELING.md says of a completed job, "all cvat_job_ids are done", and the
\* first webhook belies.
CompletedMeansReviewed == job.status = "completed" => done = Jobs

=============================================================================
