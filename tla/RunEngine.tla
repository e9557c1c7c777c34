------------------------------ MODULE RunEngine ------------------------------
(***************************************************************************)
(* The workflow engine of CVOps: a workflow run is a parent row of table   *)
(* runs, each step of its definition becomes a child row, and database     *)
(* sessions move the rows: workers running process_step, the API serving   *)
(* create, retry, cancel and gate-resolve requests, and both of them       *)
(* calling advance_workflow.  Postgres holds the state; Redis Streams only *)
(* carry doorbells <<run, step>>.                                          *)
(*                                                                         *)
(* Every session keeps the ORM objects it loaded: sessions are created     *)
(* with expire_on_commit=False and SELECT ... FOR UPDATE does not refresh  *)
(* an object that the session already holds.  advance_workflow therefore   *)
(* tests the session's copy of the parent's status (`seen`), and takes the *)
(* child row that the session itself finished (`step`, `val`) for          *)
(* succeeded whatever the table holds by then.                             *)
(*                                                                         *)
(* An operator whose comment says `Wrong' is a plausible bug of the        *)
(* operator below it; no specification uses it, the project's mutants do.  *)
(***************************************************************************)
EXTENDS Naturals

CONSTANTS
  Runs,         \* ids of parent rows: runs of one workflow with the same params
  Steps,        \* ids of the steps of that workflow's definition
  Pred,         \* Pred[s]: steps with an edge into s
  Refs,         \* Refs[s]: steps whose outputs the input template of s names
  Rank,         \* Rank[s]: position of s in the order _topo_sort returns
  GateSteps,    \* steps whose run() parks the child with GateException
  PureSteps,    \* steps whose idempotency key is a function of config and inputs
  BadSteps,     \* steps whose config or type a coordinator may refuse
  AlienSteps,   \* steps whose type some worker's registry lacks
  BrokenRuns,   \* runs whose definition an advance may find missing or cyclic
  MalformedRuns,\* runs whose definition may make an advance raise: an edge without
                \* two ends, a step without an id
  SpoiltSteps,  \* steps whose result may make the worker raise: output that is not
                \* JSON, a commit that fails
  CancelRuns,   \* runs that a client may ask to cancel
  CancelSteps,  \* steps whose own row a client may ask to cancel
  Resolutions,  \* bodies a client may resolve a gate with
  Sessions,     \* database sessions: worker jobs and API requests in flight
  None,         \* no run, no step, no output
  MaxCrashes,   \* bound: sessions on one run that die between two of their steps
  MaxLosses     \* bound: doorbells that Redis loses

ASSUME DagAssumption ==
  /\ Pred \in [Steps -> SUBSET Steps]
  /\ Refs \in [Steps -> SUBSET Steps]
  /\ Rank \in [Steps -> Nat]
  /\ \A s \in Steps : \A p \in Pred[s] : Rank[p] < Rank[s]

ASSUME KindAssumption ==
  /\ GateSteps \subseteq Steps
  /\ PureSteps \subseteq Steps \ GateSteps

ASSUME NameAssumption ==
  /\ None \notin Runs \cup Steps \cup Resolutions
  /\ Runs \cap Resolutions = {}

VARIABLES
  parent,   \* parent[r]: status of the parent row, "none" before it is inserted
  child,    \* child[r][s]: status of the child row, "none" before it is inserted
  inputs,   \* inputs[r][s]: input_refs of the child row, frozen at creation
  output,   \* output[r][s]: output_refs of the child row
  starts,   \* history: starts[r][s] counts the claims that began to run s
  bells,    \* doorbells in the streams: one or more copies of each member
  sess,     \* sess[w]: what session w is doing
  crashes,  \* crashes[r]: counts the sessions on run r that died, of which there are
            \* at most MaxCrashes, and those that an exception ended
  losses    \* counts LoseDoorbell, bounded by MaxLosses

vars == <<parent, child, inputs, output, starts, bells, sess, crashes, losses>>

Status   == {"none", "pending", "running", "waiting",
             "succeeded", "failed", "cancelled"}
Terminal == {"succeeded", "failed", "cancelled"}

\* A step that runs outputs a value only that run could produce; a gate outputs
\* the body it was resolved with.
Values == Runs \cup Resolutions \cup {None}

Phase == {"step", "advance", "ring", "resolve", "cancelRun", "cancelStep"}
Job   == [pc : Phase, run : Runs, step : Steps \cup {None},
          seen : Status, val : Values, ring : SUBSET Steps]
Busy(phase, r, s, seen) ==
  [pc |-> phase, run |-> r, step |-> s, seen |-> seen, val |-> None, ring |-> {}]
Idle == Busy("idle", None, None, "none")

TypeOK ==
  /\ parent \in [Runs -> Status]
  /\ child \in [Runs -> [Steps -> Status]]
  /\ inputs \in [Runs -> [Steps -> [Steps -> Values]]]
  /\ output \in [Runs -> [Steps -> Values]]
  /\ starts \in [Runs -> [Steps -> Nat]]
  /\ bells \subseteq Runs \X Steps
  /\ sess \in [Sessions -> Job \cup {Idle}]
  /\ crashes \in [Runs -> Nat]
  /\ losses \in Nat

Init ==
  /\ parent = [r \in Runs |-> "none"]
  /\ child = [r \in Runs |-> [s \in Steps |-> "none"]]
  /\ inputs = [r \in Runs |-> [s \in Steps |-> [x \in Steps |-> None]]]
  /\ output = [r \in Runs |-> [s \in Steps |-> None]]
  /\ starts = [r \in Runs |-> [s \in Steps |-> 0]]
  /\ bells = {}
  /\ sess = [w \in Sessions |-> Idle]
  /\ crashes = [r \in Runs |-> 0]
  /\ losses = 0

At(w, phase) == sess[w].pc = phase
Becomes(w, state) == sess' = [sess EXCEPT ![w] = state]
SetChild(r, s, st) == child' = [child EXCEPT ![r][s] = st]
SetParent(r, st)   == parent' = [parent EXCEPT ![r] = st]

-----------------------------------------------------------------------------
(* API requests that start a run: the parent row is committed before         *)
(* advance_workflow is called in the same session.                           *)

InsertRun(w, r) ==
  /\ At(w, "idle")
  /\ parent[r] = "none"
  /\ SetParent(r, "pending")
  /\ Becomes(w, Busy("advance", r, None, "pending"))
  /\ UNCHANGED <<child, inputs, output, starts, bells, crashes, losses>>

CreateRun(w, r) ==
  /\ \A q \in Runs : parent[q] = "none"
  /\ InsertRun(w, r)

\* No status is too early or too late for a retry of run q.
RetryRun(w, q, r) ==
  /\ parent[q] # "none"
  /\ InsertRun(w, r)

-----------------------------------------------------------------------------
(* Cancel and resolve read the row, then write it without a lock: what was   *)
(* read may be out of date when it is used.                                  *)

CancelRunRead(w, r) ==
  /\ At(w, "idle")
  /\ r \in CancelRuns
  /\ parent[r] \in {"pending", "running"}
  /\ Becomes(w, Busy("cancelRun", r, None, parent[r]))
  /\ UNCHANGED <<parent, child, inputs, output, starts, bells, crashes, losses>>

CancelRunWrite(w) ==
  /\ At(w, "cancelRun")
  /\ SetParent(sess[w].run, "cancelled")
  /\ Becomes(w, Idle)
  /\ UNCHANGED <<child, inputs, output, starts, bells, crashes, losses>>

CancelStepRead(w, r, s) ==
  /\ At(w, "idle")
  /\ s \in CancelSteps
  /\ child[r][s] \in {"pending", "running"}
  /\ Becomes(w, Busy("cancelStep", r, s, child[r][s]))
  /\ UNCHANGED <<parent, child, inputs, output, starts, bells, crashes, losses>>

CancelStepWrite(w) ==
  /\ At(w, "cancelStep")
  /\ SetChild(sess[w].run, sess[w].step, "cancelled")
  /\ Becomes(w, Idle)
  /\ UNCHANGED <<parent, inputs, output, starts, bells, crashes, losses>>

ResolveGateRead(w, r, s) ==
  /\ At(w, "idle")
  /\ child[r][s] = "waiting"
  /\ Becomes(w, Busy("resolve", r, s, parent[r]))
  /\ UNCHANGED <<parent, child, inputs, output, starts, bells, crashes, losses>>

\* Wrong: the gate is cleared, and nobody advances the run.
ResolveGateSilently(w) ==
  /\ At(w, "resolve")
  /\ SetChild(sess[w].run, sess[w].step, "succeeded")
  /\ \E v \in Resolutions :
       output' = [output EXCEPT ![sess[w].run][sess[w].step] = v]
  /\ Becomes(w, Idle)
  /\ UNCHANGED <<parent, inputs, starts, bells, crashes, losses>>

ResolveGateWrite(w) ==
  LET r == sess[w].run
      s == sess[w].step
  IN  /\ At(w, "resolve")
      /\ SetChild(r, s, "succeeded")
      /\ \E v \in Resolutions :
           /\ output' = [output EXCEPT ![r][s] = v]
           /\ Becomes(w, [sess[w] EXCEPT !.pc = "advance", !.val = v])
      /\ UNCHANGED <<parent, inputs, starts, bells, crashes, losses>>

-----------------------------------------------------------------------------
(* A worker takes a doorbell.  The claim (FOR UPDATE SKIP LOCKED on a        *)
(* pending row) and the commit that marks the row running are one            *)
(* transaction.  Another copy of the doorbell may still be on its way: the   *)
(* sweep rings for a pending row whether or not its doorbell was lost.       *)

\* Wrong: a row that is being worked on may be claimed again.
ClaimableUnfinished(r, s) == child[r][s] \in {"pending", "running"}

Claimable(r, s) == child[r][s] = "pending"

Taken(r, s) == \E copy \in SUBSET {<<r, s>>} : bells' = (bells \ {<<r, s>>}) \cup copy

ClaimStep(w, r, s) ==
  /\ At(w, "idle")
  /\ <<r, s>> \in bells
  /\ Claimable(r, s)
  /\ Taken(r, s)
  /\ SetChild(r, s, "running")
  /\ starts' = [starts EXCEPT ![r][s] = @ + 1]
  /\ Becomes(w, Busy("step", r, s, parent[r]))
  /\ UNCHANGED <<parent, inputs, output, crashes, losses>>


\* The worker does not know the type: child and parent fail in one commit.
RejectStep(w, r, s) ==
  /\ At(w, "idle")
  /\ <<r, s>> \in bells
  /\ Claimable(r, s)
  /\ s \in AlienSteps
  /\ Taken(r, s)
  /\ SetChild(r, s, "failed")
  /\ SetParent(r, "failed")
  /\ UNCHANGED <<inputs, output, starts, sess, crashes, losses>>

\* A doorbell for a row that is not pending any more is acknowledged and dropped.
DropDoorbell(w, r, s) ==
  /\ At(w, "idle")
  /\ <<r, s>> \in bells
  /\ ~Claimable(r, s)
  /\ bells' = bells \ {<<r, s>>}
  /\ UNCHANGED <<parent, child, inputs, output, starts, sess, crashes, losses>>

StepSucceeds(w) ==
  LET r == sess[w].run
      s == sess[w].step
  IN  /\ At(w, "step")
      /\ s \notin GateSteps
      /\ SetChild(r, s, "succeeded")
      /\ output' = [output EXCEPT ![r][s] = r]
      /\ Becomes(w, [sess[w] EXCEPT !.pc = "advance", !.val = r])
      /\ UNCHANGED <<parent, inputs, starts, bells, crashes, losses>>

\* GateException: the child waits and nothing is advanced.
StepGates(w) ==
  /\ At(w, "step")
  /\ sess[w].step \in GateSteps
  /\ SetChild(sess[w].run, sess[w].step, "waiting")
  /\ Becomes(w, Idle)
  /\ UNCHANGED <<parent, inputs, output, starts, bells, crashes, losses>>

\* Wrong: the parent is left for a later advance to fail.
StepFailsAlone(w) ==
  /\ At(w, "step")
  /\ SetChild(sess[w].run, sess[w].step, "failed")
  /\ Becomes(w, Idle)
  /\ UNCHANGED <<parent, inputs, output, starts, bells, crashes, losses>>

\* Any other exception: both rows are read again and written whatever they hold.
StepFails(w) ==
  /\ At(w, "step")
  /\ SetChild(sess[w].run, sess[w].step, "failed")
  /\ SetParent(sess[w].run, "failed")
  /\ Becomes(w, Idle)
  /\ UNCHANGED <<inputs, output, starts, bells, crashes, losses>>

-----------------------------------------------------------------------------
(* advance_workflow holds FOR UPDATE on the parent from its first read to    *)
(* its commit, so that each outcome is one step; the doorbells ring after    *)
(* the commit.                                                               *)

SeesTerminal(w) == sess[w].seen \in Terminal

\* The children of its run as session w sees them, and their outputs once the
\* steps in DOMAIN src are copied from prior runs.
Seen(w, s)  == IF s = sess[w].step THEN "succeeded" ELSE child[sess[w].run][s]
Sees(w, st) == \E s \in Steps : Seen(w, s) = st
Finished(w) == {s \in Steps : Seen(w, s) = "succeeded"}

\* Wrong: a row still on its way to success counts as not created.
MissingUnlessFinished(w) == {s \in Steps : Seen(w, s) # "succeeded"}

Missing(w)  == {s \in Steps : Seen(w, s) = "none"}

\* Wrong: what the pass copies is not added to the outputs it resolves with.
KnownBeforePass(w, src) ==
  [s \in Steps |-> IF s = sess[w].step THEN sess[w].val ELSE output[sess[w].run][s]]

Known(w, src) ==
  [s \in Steps |-> IF s \in DOMAIN src THEN output[src[s]][s]
                   ELSE IF s = sess[w].step THEN sess[w].val
                   ELSE output[sess[w].run][s]]

\* input_refs of s, resolved against the outputs known.
Frozen(s, known) == [x \in Steps |-> IF x \in Refs[s] THEN known[x] ELSE None]

\* Wrong: an idempotency key that does not cover the inputs.
PriorsOfStep(s, in) ==
  IF s \in PureSteps THEN {q \in Runs : child[q][s] = "succeeded"} ELSE {}

\* Runs with a succeeded row of s under the same idempotency key.
Priors(s, in) ==
  IF s \in PureSteps
  THEN {q \in Runs : child[q][s] = "succeeded" /\ inputs[q][s] = in}
  ELSE {}

\* Wrong: one finished predecessor is enough.
ReadyAfterAny(w, copied) ==
  {s \in Missing(w) : Pred[s] = {} \/ Pred[s] \cap (Finished(w) \cup copied) # {}}

Ready(w, copied) ==
  {s \in Missing(w) : Pred[s] \subseteq Finished(w) \cup copied}

\* The step is accepted, and its template resolves: every step that it names
\* succeeded before s is reached.
Resolvable(w, bad, copied, s) ==
  /\ s \notin bad
  /\ \A x \in Refs[s] :
       x \in Finished(w) \/ (x \in copied /\ Rank[x] < Rank[s])

\* Ready steps that cannot be created: the first of them ends the pass.
Stops(w, bad, copied) ==
  {s \in Ready(w, copied) : ~Resolvable(w, bad, copied, s)}
Reached(w, bad, copied) ==
  {s \in Ready(w, copied) : \A b \in Stops(w, bad, copied) : Rank[s] < Rank[b]}

\* The pass copies the outputs of exactly the reached steps that have a prior run.
Copies(w, bad, src) ==
  /\ DOMAIN src \subseteq Reached(w, bad, DOMAIN src)
  /\ \A s \in Reached(w, bad, DOMAIN src) :
       LET priors == Priors(s, Frozen(s, Known(w, src)))
       IN  IF s \in DOMAIN src THEN src[s] \in priors ELSE priors = {}

\* Wrong: the rows that the pass itself creates are forgotten.
VerdictBeforePass(w, bad, copied) ==
  IF Stops(w, bad, copied) # {} THEN "failed"
  ELSE IF \A s \in Steps : Seen(w, s) \in {"none", "succeeded"} THEN "succeeded"
  ELSE parent[sess[w].run]

\* What the pass leaves in the parent row: a definition without steps never ends.
Verdict(w, bad, copied) ==
  IF Stops(w, bad, copied) # {} THEN "failed"
  ELSE IF Steps # {} /\ Finished(w) \cup copied = Steps THEN "succeeded"
  ELSE parent[sess[w].run]

Release(w, r, bad, src) ==
  LET copied == DOMAIN src
      made   == Reached(w, bad, copied)
      fresh  == made \ copied
      known  == Known(w, src)
  IN  /\ child' = [child EXCEPT ![r] =
           [s \in Steps |-> IF s \in copied THEN "succeeded"
                            ELSE IF s \in fresh THEN "pending" ELSE child[r][s]]]
      /\ inputs' = [inputs EXCEPT ![r] =
           [s \in Steps |-> IF s \in made THEN Frozen(s, known) ELSE inputs[r][s]]]
      /\ output' = [output EXCEPT ![r] =
           [s \in Steps |-> IF s \in copied THEN known[s] ELSE output[r][s]]]
      /\ SetParent(r, Verdict(w, bad, copied))
      /\ Becomes(w, IF Stops(w, bad, copied) # {} \/ fresh = {} THEN Idle
                    ELSE [Busy("ring", r, None, "none") EXCEPT !.ring = fresh])
      /\ UNCHANGED <<starts, bells, crashes, losses>>

\* The run is over as far as the session knows, or a gate holds it.
AdvanceReturns(w) ==
  /\ At(w, "advance")
  /\ \/ SeesTerminal(w)
     \/ ~Sees(w, "failed") /\ Sees(w, "waiting")
  /\ Becomes(w, Idle)
  /\ UNCHANGED <<parent, child, inputs, output, starts, bells, crashes, losses>>

AdvanceFails(w) ==
  /\ At(w, "advance")
  /\ ~SeesTerminal(w)
  /\ sess[w].run \in BrokenRuns \/ Sees(w, "failed")
  /\ SetParent(sess[w].run, "failed")
  /\ Becomes(w, Idle)
  /\ UNCHANGED <<child, inputs, output, starts, bells, crashes, losses>>

AdvanceReleases(w) ==
  /\ At(w, "advance")
  /\ ~SeesTerminal(w)
  /\ ~Sees(w, "failed")
  /\ ~Sees(w, "waiting")
  /\ \E bad \in SUBSET BadSteps, copied \in SUBSET Missing(w) :
       \E src \in [copied -> Runs] :
         Copies(w, bad, src) /\ Release(w, sess[w].run, bad, src)

EnqueueStep(w, s) ==
  /\ At(w, "ring")
  /\ s \in sess[w].ring
  /\ bells' = bells \cup {<<sess[w].run, s>>}
  /\ Becomes(w, IF sess[w].ring = {s} THEN Idle
                ELSE [sess[w] EXCEPT !.ring = @ \ {s}])
  /\ UNCHANGED <<parent, child, inputs, output, starts, crashes, losses>>

\* XADD raises: the rows are committed, the doorbells not rung yet are lost.
EnqueueFails(w) ==
  /\ At(w, "ring")
  /\ Becomes(w, Idle)
  /\ UNCHANGED <<parent, child, inputs, output, starts, bells, crashes, losses>>

-----------------------------------------------------------------------------
(* The orphan sweep of the workers, and the environment.                     *)

\* Wrong: the sweep skips the rows of a run that is over.
RecoverLiveOrphan(r, s) ==
  /\ child[r][s] = "pending"
  /\ parent[r] \notin Terminal
  /\ <<r, s>> \notin bells
  /\ bells' = bells \cup {<<r, s>>}
  /\ UNCHANGED <<parent, child, inputs, output, starts, sess, crashes, losses>>

RecoverOrphan(r, s) ==
  /\ child[r][s] = "pending"
  /\ <<r, s>> \notin bells
  /\ bells' = bells \cup {<<r, s>>}
  /\ UNCHANGED <<parent, child, inputs, output, starts, sess, crashes, losses>>

\* Redis restarts without persistence, or a worker dies before it claims.
LoseDoorbell(r, s) ==
  /\ losses < MaxLosses
  /\ <<r, s>> \in bells
  /\ bells' = bells \ {<<r, s>>}
  /\ losses' = losses + 1
  /\ UNCHANGED <<parent, child, inputs, output, starts, sess, crashes>>

\* What the session committed stays, what it was about to do is gone.
Breaks(w) ==
  /\ ~At(w, "idle")
  /\ Becomes(w, Idle)
  /\ crashes' = [crashes EXCEPT ![sess[w].run] = @ + 1]
  /\ UNCHANGED <<parent, child, inputs, output, starts, bells, losses>>

\* The process dies.
Crash(w) ==
  /\ Breaks(w)
  /\ crashes[sess[w].run] < MaxCrashes

\* ValueError or KeyError while the definition is read, which nothing catches.  The
\* worker that retries the doorbell finds a row that is not pending any more.
AdvanceRaises(w) ==
  /\ At(w, "advance")
  /\ ~SeesTerminal(w)
  /\ sess[w].run \in MalformedRuns
  /\ Breaks(w)

\* The writes after run(), or after the exception it ended with, raise in their
\* turn: the row stays 'running'.
StepRaises(w) ==
  /\ At(w, "step")
  /\ sess[w].step \in SpoiltSteps
  /\ Breaks(w)

-----------------------------------------------------------------------------
Deliver(w, r, s) == ClaimStep(w, r, s) \/ RejectStep(w, r, s) \/ DropDoorbell(w, r, s)

\* What session w does next with the request or the job it has.
Continue(w) ==
  \/ CancelRunWrite(w) \/ CancelStepWrite(w) \/ ResolveGateWrite(w)
  \/ StepSucceeds(w) \/ StepGates(w) \/ StepFails(w)
  \/ AdvanceReturns(w) \/ AdvanceFails(w) \/ AdvanceReleases(w)
  \/ \E s \in Steps : EnqueueStep(w, s)

Next ==
  \/ \E w \in Sessions, r \in Runs :
       \/ CreateRun(w, r)
       \/ \E q \in Runs : RetryRun(w, q, r)
       \/ CancelRunRead(w, r)
       \/ \E s \in Steps :
            CancelStepRead(w, r, s) \/ ResolveGateRead(w, r, s) \/ Deliver(w, r, s)
  \/ \E w \in Sessions : \/ Continue(w) \/ EnqueueFails(w)
                         \/ Crash(w) \/ AdvanceRaises(w) \/ StepRaises(w)
  \/ \E r \in Runs, s \in Steps : RecoverOrphan(r, s) \/ LoseDoorbell(r, s)

Spec == Init /\ [][Next]_vars

\* Sessions keep running (a step's run() returns), the consumer loop reads every
\* doorbell, and the orphan sweep comes round.  No request, failure or loss is
\* fair: clients and Redis owe the engine nothing.
Fairness ==
  /\ \A w \in Sessions : WF_vars(Continue(w))
  /\ \A r \in Runs, s \in Steps :
       /\ WF_vars(\E w \in Sessions : Deliver(w, r, s))
       /\ WF_vars(RecoverOrphan(r, s))

FairSpec == Spec /\ Fairness

-----------------------------------------------------------------------------
(* Safety.                                                                   *)

Executing(w, r, s) == At(w, "step") /\ sess[w].run = r /\ sess[w].step = s

\* At most one claim ever begins to run a child row, however its doorbell is
\* lost, recovered or duplicated and however many advances saw its
\* predecessors finish: "At most one worker runs a given pending run".
AtMostOnce == \A r \in Runs, s \in Steps : starts[r][s] <= 1

\* Types, and no row run twice (process_step, _orphan_recovery_loop).
ExecutionIsSound == TypeOK /\ AtMostOnce

\* A run reported succeeded has nothing left to do: every step has a row that
\* succeeded (or was cancelled by a client after it had been claimed), and no
\* worker is still executing one of them.
SucceededMeansComplete ==
  \A r \in Runs : parent[r] = "succeeded" =>
    \A s \in Steps :
      /\ child[r][s] \in {"succeeded", "cancelled"}
      /\ \A w \in Sessions : ~Executing(w, r, s)

\* A failed step is never hidden: its run is failed, or a client cancelled it.
\* No advance that was under way when the step failed can finalize the run.
FailureReported ==
  \A r \in Runs, s \in Steps :
    child[r][s] = "failed" => parent[r] \in {"failed", "cancelled"}

\* The inputs a child was created with are still the outputs of the steps its
\* template names, gates excepted: cross-process resolution used final outputs.
InputsAreFinal ==
  \A r \in Runs, s \in Steps : child[r][s] # "none" =>
    \A x \in Refs[s] \ GateSteps :
      output[r][x] # None /\ inputs[r][s][x] = output[r][x]

\* The output of an ungated step, copied through however many idempotency hits,
\* was computed by one real execution of that step on the same inputs.
OutputsAreEarned ==
  \A r \in Runs, s \in Steps \ GateSteps :
    LET q == output[r][s]
    IN  q # None => /\ q \in Runs
                    /\ starts[q][s] = 1
                    /\ inputs[q][s] = inputs[r][s]

\* No row is created before every predecessor has finished with an output.
CreatedInOrder ==
  [][\A r \in Runs, s \in Steps :
       child[r][s] = "none" /\ child'[r][s] # "none" =>
         \A p \in Pred[s] : output'[r][p] # None]_vars

\* A child row never returns to pending, and leaves succeeded only by a
\* cancellation that was already under way.
ChildNeverRestarts ==
  [][\A r \in Runs, s \in Steps :
       /\ child[r][s] # "none" => child'[r][s] # "none"
       /\ child'[r][s] = "pending" => child[r][s] \in {"none", "pending"}
       /\ child[r][s] = "succeeded" => child'[r][s] \in {"succeeded", "cancelled"}]_vars

\* What docs/05-workflow-engine.md and docs/db/RUNS.md say of a parent row, and
\* the code does not keep: a status with an edge to the end is never left.  An
\* advance tests the status its session loaded before the cancel.
TerminalIsFinal ==
  [][\A r \in Runs : parent[r] \in Terminal => parent'[r] = parent[r]]_vars

\* What a comment of advance_workflow says, and two requests that resolve the
\* same gate refute: the output of a succeeded step is final.
OutputsAreFinal ==
  [][\A r \in Runs, s \in Steps :
       child[r][s] = "succeeded" => output'[r][s] = output[r][s]]_vars

-----------------------------------------------------------------------------
(* Liveness.                                                                 *)

\* Every run comes to an end or waits for a human at a gate: no order of steps
\* finishing, failing or being refused, gates resolving, runs being cancelled and
\* doorbells getting lost leaves it stranded.  Except when a session on the run died
\* or raised, or a client cancelled the row of a step.
RunsSettle ==
  \A r \in Runs :
    parent[r] = "pending" ~>
      \/ parent[r] \in Terminal
      \/ \E s \in Steps : child[r][s] \in {"waiting", "cancelled"}
      \/ crashes[r] > 0

\* What one would expect of "record failure, don't crash the worker" (process_step),
\* and a malformed edge refutes with no process dying: the same without the
\* exceptions.  Nothing advances, fails or sweeps a parent again.
NoRunIsStranded ==
  \A r \in Runs :
    parent[r] = "pending" ~>
      parent[r] \in Terminal \/ \E s \in Steps : child[r][s] = "waiting"

\* A created row does not stay pending: the orphan sweep finds it even when its
\* doorbell was lost or never rung because the pass that created it failed.
PendingRowsStart ==
  \A r \in Runs, s \in Steps : child[r][s] = "pending" ~> child[r][s] # "pending"

-----------------------------------------------------------------------------
(* What the engine promises of the steps of its runs, see DagExecution.      *)

\* How far a step has come, from the status of its row, its output and its claims.
PhaseOf(st, result, claims) ==
  CASE st = "none"                   -> "blocked"
    [] st = "pending"                -> "ready"
    [] st \in {"running", "waiting"} -> "active"
    [] st = "succeeded"              -> "done"
    [] st = "failed"                 -> "failed"
    [] OTHER -> IF result # None THEN "done" ELSE IF claims = 0 THEN "withdrawn" ELSE "cut"

Dag == INSTANCE DagExecution WITH
  phase   <- [r \in Runs |-> [s \in Steps |-> PhaseOf(child[r][s], output[r][s], starts[r][s])]],
  verdict <- parent

ImplementsDag == Dag!Spec

=============================================================================
