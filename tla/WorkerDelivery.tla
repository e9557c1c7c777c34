---------------------------- MODULE WorkerDelivery ----------------------------
(***************************************************************************)
(* How a doorbell reaches a row: one Redis stream with its consumer group, *)
(* and the workers of one kind that read it.                               *)
(*   preprocessing: a pool of tasks under a semaphore, with retries and a  *)
(*                  dead-letter stream (worker-preprocessing);             *)
(*   cvat:          the same pool without either (worker-cvat);            *)
(*   training:      ConsumerLoop, one message after the other              *)
(*                  (worker-common, used by worker-training).              *)
(* RunEngine abstracts all of this to a set of doorbells; here a row is    *)
(* only its status, and what a step does is left out.  Entries are         *)
(* delivered once: nothing claims back what a dead consumer had pending.   *)
(***************************************************************************)
EXTENDS Naturals, Sequences, FiniteSets

CONSTANTS
  Jobs,         \* ids of rows whose steps route to the stream
  Workers,      \* worker processes, restarted when they end
  Slots,        \* permits of a pool's semaphore; CONCURRENCY is their number
  Kinds,        \* kinds of worker considered
  Poison,       \* an entry without job_id
  None,         \* no entry
  MaxRetries,   \* WORKER_MAX_RETRIES
  MaxCopies,    \* bound: a sweep adds no entry when the stream has as many of the job
  MaxFailures,  \* bound: executions of one job that raise
  MaxFaults,    \* bound: stops, crashes and failed calls to Redis
  MaxLosses     \* bound: times that Redis comes back empty

ASSUME DeliveryAssumption ==
  /\ Kinds \subseteq {"preprocessing", "cvat", "training"}
  /\ {Poison, None} \cap Jobs = {}
  /\ Poison # None
  /\ IsFiniteSet(Slots) /\ Slots # {}
  /\ {MaxRetries, MaxCopies, MaxFailures, MaxFaults, MaxLosses} \subseteq Nat

VARIABLES
  kind,      \* the kind of worker that reads the stream
  row,       \* row[j]: status of the row, every final or parked one as "settled"
  starts,    \* history: starts[j] counts the executions of j that began
  group,     \* whether the consumer group exists
  stream,    \* entries the group has not delivered
  mode,      \* mode[w]: whether w is down, up, or stopping on a signal
  batch,     \* batch[w]: entries w has read and not yet started to handle
  slot,      \* slot[w][i]: the permit and the task that holds it
  asleep,    \* asleep[w][j]: retries of j that w adds when their backoff is over
  retries,   \* retries[j]: the counter under the job's retry key
  dead,      \* dead[e]: entries of e the dead-letter stream ever got
  failures,  \* failures[j]: failures that a handler of j caught: executions that raised,
             \* and deletions of the retry key that did
  lost,      \* history: jobs that lost a doorbell to something beyond the code
  faults,    \* counts stops, crashes and failed calls, bounded by MaxFaults
  losses     \* counts LoseData, bounded by MaxLosses

work  == <<batch, slot, asleep>>
redis == <<group, stream, retries, dead>>
table == <<row, starts, failures>>
vars  == <<kind, table, redis, mode, work, lost, faults, losses>>

Entries == Jobs \cup {Poison}

\* claim: before the row lock; locked: the claim's transaction is open; run: the
\* step runs; clear: about to delete the retry key; count: about to increment it;
\* dead: about to write the dead letter; forget: about to delete the key after it;
\* ack, ackRetry: in the finally clause.
Phases == {"claim", "locked", "run", "clear", "count", "dead", "forget", "ack", "ackRetry"}
Task   == [pc : Phases, entry : Entries] \cup [pc : {"free", "leaked"}, entry : {None}]
Permit(state) == [pc |-> state, entry |-> None]

TypeOK ==
  /\ kind \in Kinds
  /\ row \in [Jobs -> {"none", "pending", "running", "settled"}]
  /\ starts \in [Jobs -> Nat]
  /\ failures \in [Jobs -> Nat]
  /\ group \in BOOLEAN
  /\ stream \in Seq(Entries)
  /\ mode \in [Workers -> {"down", "up", "stopping"}]
  /\ batch \in [Workers -> Seq(Entries)]
  /\ slot \in [Workers -> [Slots -> Task]]
  /\ asleep \in [Workers -> [Jobs -> Nat]]
  /\ retries \in [Jobs -> Nat]
  /\ dead \in [Entries -> Nat]
  /\ lost \subseteq Jobs
  /\ faults \in Nat
  /\ losses \in Nat

Init ==
  /\ kind \in Kinds
  /\ row = [j \in Jobs |-> "none"]
  /\ starts = [j \in Jobs |-> 0]
  /\ failures = [j \in Jobs |-> 0]
  /\ group = FALSE
  /\ stream = <<>>
  /\ mode = [w \in Workers |-> "down"]
  /\ batch = [w \in Workers |-> <<>>]
  /\ slot = [w \in Workers |-> [i \in Slots |-> Permit("free")]]
  /\ asleep = [w \in Workers |-> [j \in Jobs |-> 0]]
  /\ retries = [j \in Jobs |-> 0]
  /\ dead = [e \in Entries |-> 0]
  /\ lost = {}
  /\ faults = 0
  /\ losses = 0

Holds(w, i, phase) == slot[w][i].pc = phase
Goes(w, i, phase)  == slot' = [slot EXCEPT ![w][i].pc = phase]
Locked(j) == \E w \in Workers, i \in Slots : slot[w][i] = [pc |-> "locked", entry |-> j]
Copies(e) == Cardinality({k \in DOMAIN stream : stream[k] = e})
Fault     == faults < MaxFaults /\ faults' = faults + 1
Members(s) == {s[k] : k \in DOMAIN s}

\* XADD.  An entry that is older than the group is never delivered: the group is
\* created with id="$".
Push(e) ==
  /\ stream' = IF group THEN Append(stream, e) ELSE stream
  /\ lost' = IF group \/ e = Poison THEN lost ELSE lost \cup {e}

-----------------------------------------------------------------------------
(* Producers: enqueue_step after the row's commit, and the orphan sweeps.    *)

Submit(j) ==
  /\ row[j] = "none"
  /\ row' = [row EXCEPT ![j] = "pending"]
  /\ Push(j)
  /\ UNCHANGED <<kind, starts, failures, group, retries, dead, mode, work, faults, losses>>

\* The row is committed and XADD raises.
SubmitUnrung(j) ==
  /\ row[j] = "none"
  /\ Fault
  /\ row' = [row EXCEPT ![j] = "pending"]
  /\ lost' = lost \cup {j}
  /\ UNCHANGED <<kind, starts, failures, redis, mode, work, losses>>

SendPoison ==
  /\ Fault
  /\ Push(Poison)
  /\ UNCHANGED <<kind, table, group, retries, dead, mode, work, losses>>

\* Wrong: the sweep skips what the dead-letter stream holds.
SweepUnburied(w, j) ==
  /\ mode[w] = "up"
  /\ row[j] = "pending"
  /\ dead[j] = 0
  /\ Copies(j) < MaxCopies
  /\ Push(j)
  /\ UNCHANGED <<kind, table, group, retries, dead, mode, work, faults, losses>>

\* A pending row is rung again whether or not its doorbell is under way.  Only
\* the 30 seconds that it must be old are left open.
Sweep(w, j) ==
  /\ mode[w] = "up"
  /\ row[j] = "pending"
  /\ Copies(j) < MaxCopies
  /\ Push(j)
  /\ UNCHANGED <<kind, table, group, retries, dead, mode, work, faults, losses>>

-----------------------------------------------------------------------------
(* A worker's life.                                                          *)

\* A worker starts and makes sure of the group; ConsumerLoop then sweeps once,
\* which is a Sweep.
Start(w) ==
  /\ mode[w] = "down"
  /\ mode' = [mode EXCEPT ![w] = "up"]
  /\ group' = TRUE
  /\ UNCHANGED <<kind, table, stream, retries, dead, work, lost, faults, losses>>

InHand(w) == (Members(batch[w])
               \cup {slot[w][i].entry : i \in Slots}
               \cup {j \in Jobs : asleep[w][j] > 0}) \cap Jobs

\* A process ends with what it has in hand; the rows it runs stay "running".
Die(w) ==
  /\ mode' = [mode EXCEPT ![w] = "down"]
  /\ batch' = [batch EXCEPT ![w] = <<>>]
  /\ slot' = [slot EXCEPT ![w] = [i \in Slots |-> Permit("free")]]
  /\ asleep' = [asleep EXCEPT ![w] = [j \in Jobs |-> 0]]
  /\ lost' = lost \cup InHand(w)

Crash(w) ==
  /\ mode[w] # "down"
  /\ Fault
  /\ Die(w)
  /\ UNCHANGED <<kind, table, redis, losses>>

\* A signal, or a read that meets a broken connection.  ConsumerLoop handles no
\* signal and reads on after an error.
Stop(w) ==
  /\ kind # "training"
  /\ mode[w] = "up"
  /\ Fault
  /\ mode' = [mode EXCEPT ![w] = "stopping"]
  /\ UNCHANGED <<kind, table, redis, work, lost, losses>>

\* The loop ends between two batches and waits for the tasks, retries included.
Leave(w) ==
  /\ mode[w] = "stopping"
  /\ batch[w] = <<>>
  /\ \A i \in Slots : slot[w][i].pc \in {"free", "leaked"}
  /\ \A j \in Jobs : asleep[w][j] = 0
  /\ Die(w)
  /\ UNCHANGED <<kind, table, redis, faults, losses>>

\* XREADGROUP finds no group: a pool ends with the error and is started again.
\* ConsumerLoop logs it, waits and reads again, and never creates the group.
NoGroup(w) ==
  /\ kind # "training"
  /\ mode[w] = "up"
  /\ batch[w] = <<>>
  /\ ~group
  /\ Die(w)
  /\ UNCHANGED <<kind, table, redis, faults, losses>>

-----------------------------------------------------------------------------
(* Reading and handling.                                                     *)

\* A pool reads as many entries as it has permits, and takes the next batch
\* only when each entry of this one has its task.
PoolRead(w) ==
  /\ kind # "training"
  /\ mode[w] = "up"
  /\ batch[w] = <<>>
  /\ group
  /\ stream # <<>>
  /\ LET n == IF Len(stream) < Cardinality(Slots) THEN Len(stream) ELSE Cardinality(Slots)
     IN /\ batch' = [batch EXCEPT ![w] = SubSeq(stream, 1, n)]
        /\ stream' = SubSeq(stream, n + 1, Len(stream))
  /\ UNCHANGED <<kind, table, group, retries, dead, mode, slot, asleep, lost, faults, losses>>

LoopRead(w) ==
  /\ kind = "training"
  /\ mode[w] = "up"
  /\ batch[w] = <<>>
  /\ \A i \in Slots : Holds(w, i, "free")
  /\ group
  /\ stream # <<>>
  /\ batch' = [batch EXCEPT ![w] = <<Head(stream)>>]
  /\ stream' = Tail(stream)
  /\ UNCHANGED <<kind, table, group, retries, dead, mode, slot, asleep, lost, faults, losses>>

Spawn(w, i) ==
  /\ batch[w] # <<>>
  /\ Holds(w, i, "free")
  /\ slot' = [slot EXCEPT ![w][i] = [pc |-> "claim", entry |-> Head(batch[w])]]
  /\ batch' = [batch EXCEPT ![w] = Tail(@)]
  /\ UNCHANGED <<kind, table, redis, mode, asleep, lost, faults, losses>>

\* What follows a run that returned, and one that raised.
Returned == IF kind = "preprocessing" THEN "clear" ELSE "ack"
Raised   == IF kind = "preprocessing" THEN "count" ELSE "ack"

RejectPoison(w, i) ==
  /\ slot[w][i] = [pc |-> "claim", entry |-> Poison]
  /\ Goes(w, i, "ack")
  /\ dead' = IF kind = "preprocessing" THEN [dead EXCEPT ![Poison] = @ + 1] ELSE dead
  /\ UNCHANGED <<kind, table, group, stream, retries, mode, batch, asleep, lost, faults, losses>>

\* Wrong: the claim is a plain SELECT that waits for no one.
LockShared(w, i) ==
  /\ Holds(w, i, "claim")
  /\ \E j \in Jobs : slot[w][i].entry = j /\ row[j] = "pending"
  /\ Goes(w, i, "locked")
  /\ UNCHANGED <<kind, table, redis, mode, batch, asleep, lost, faults, losses>>

\* SELECT ... FOR UPDATE SKIP LOCKED of the row, if it is still pending.
Lock(w, i) ==
  /\ Holds(w, i, "claim")
  /\ \E j \in Jobs :
       /\ slot[w][i].entry = j
       /\ row[j] = "pending"
       /\ ~Locked(j)
  /\ Goes(w, i, "locked")
  /\ UNCHANGED <<kind, table, redis, mode, batch, asleep, lost, faults, losses>>

Skip(w, i) ==
  /\ Holds(w, i, "claim")
  /\ \E j \in Jobs :
       /\ slot[w][i].entry = j
       /\ row[j] # "pending" \/ Locked(j)
  /\ Goes(w, i, Returned)
  /\ UNCHANGED <<kind, table, redis, mode, batch, asleep, lost, faults, losses>>

Begin(w, i) ==
  /\ Holds(w, i, "locked")
  /\ LET j == slot[w][i].entry
     IN /\ row' = [row EXCEPT ![j] = "running"]
        /\ starts' = [starts EXCEPT ![j] = @ + 1]
  /\ Goes(w, i, "run")
  /\ UNCHANGED <<kind, failures, redis, mode, batch, asleep, lost, faults, losses>>

\* The step returned, raised or parked, or no such step is registered, and
\* process_step recorded it.
Settle(w, i) ==
  /\ slot[w][i].pc \in {"locked", "run"}
  /\ row' = [row EXCEPT ![slot[w][i].entry] = "settled"]
  /\ Goes(w, i, Returned)
  /\ UNCHANGED <<kind, starts, failures, redis, mode, batch, asleep, lost, faults, losses>>

\* Wrong: the row that raised goes back to where a retry can claim it.
RaiseBack(w, i) ==
  LET j == slot[w][i].entry
  IN /\ slot[w][i].pc \in {"locked", "run"}
     /\ failures[j] < MaxFailures
     /\ failures' = [failures EXCEPT ![j] = @ + 1]
     /\ row' = [row EXCEPT ![j] = "pending"]
     /\ Goes(w, i, Raised)
     /\ UNCHANGED <<kind, starts, redis, mode, batch, asleep, lost, faults, losses>>

\* process_step itself raises: before it marks the row running, or later when
\* the outcome could not be written or the next doorbell could not be rung.
Raise(w, i) ==
  LET j == slot[w][i].entry
  IN /\ slot[w][i].pc \in {"locked", "run"}
     /\ failures[j] < MaxFailures
     /\ failures' = [failures EXCEPT ![j] = @ + 1]
     /\ \/ UNCHANGED row
        \/ /\ Holds(w, i, "run")
           /\ row' = [row EXCEPT ![j] = "settled"]
     /\ Goes(w, i, Raised)
     /\ UNCHANGED <<kind, starts, redis, mode, batch, asleep, lost, faults, losses>>

-----------------------------------------------------------------------------
(* Retries, dead letters and acknowledgement.                                *)

\* Wrong: the last retry that the limit allows is given up.
CountFailureEarly(w, i) ==
  LET j == slot[w][i].entry
  IN /\ Holds(w, i, "count")
     /\ retries' = [retries EXCEPT ![j] = @ + 1]
     /\ Goes(w, i, IF retries[j] + 1 < MaxRetries THEN "ackRetry" ELSE "dead")
     /\ UNCHANGED <<kind, table, group, stream, dead, mode, batch, asleep, lost, faults, losses>>

CountFailure(w, i) ==
  LET j == slot[w][i].entry
  IN /\ Holds(w, i, "count")
     /\ retries' = [retries EXCEPT ![j] = @ + 1]
     /\ Goes(w, i, IF retries[j] + 1 <= MaxRetries THEN "ackRetry" ELSE "dead")
     /\ UNCHANGED <<kind, table, group, stream, dead, mode, batch, asleep, lost, faults, losses>>

\* Redis fails the increment, or the expiry after it: the finally clause runs, the
\* retry is forgotten.
CountIsLost(w, i) ==
  LET j == slot[w][i].entry
  IN /\ Holds(w, i, "count")
     /\ Fault
     /\ retries' \in {retries, [retries EXCEPT ![j] = @ + 1]}
     /\ Goes(w, i, "ack")
     /\ lost' = lost \cup {j}
     /\ UNCHANGED <<kind, table, group, stream, dead, mode, batch, asleep, losses>>

Bury(w, i) ==
  /\ Holds(w, i, "dead")
  /\ dead' = [dead EXCEPT ![slot[w][i].entry] = @ + 1]
  /\ Goes(w, i, "forget")
  /\ UNCHANGED <<kind, table, group, stream, retries, mode, batch, asleep, lost, faults, losses>>

\* Redis takes no letter: neither of a job nor of an entry without one.
BuryRaises(w, i) ==
  LET e == slot[w][i].entry
  IN /\ \/ Holds(w, i, "dead")
        \/ kind = "preprocessing" /\ slot[w][i] = [pc |-> "claim", entry |-> Poison]
     /\ Fault
     /\ Goes(w, i, "ack")
     /\ lost' = lost \cup ({e} \cap Jobs)
     /\ UNCHANGED <<kind, table, redis, mode, batch, asleep, losses>>

\* The deletion after a run that returned is inside the try: when it fails, the job
\* is counted as failed and tried again.
ClearRaises(w, i) ==
  /\ Holds(w, i, "clear")
  /\ Fault
  /\ failures' = [failures EXCEPT ![slot[w][i].entry] = @ + 1]
  /\ Goes(w, i, "count")
  /\ UNCHANGED <<kind, row, starts, redis, mode, batch, asleep, lost, losses>>

ForgetRaises(w, i) ==
  /\ Holds(w, i, "forget")
  /\ Fault
  /\ Goes(w, i, "ack")
  /\ UNCHANGED <<kind, table, redis, mode, batch, asleep, lost, losses>>

Clear(w, i) ==
  /\ slot[w][i].pc \in {"clear", "forget"}
  /\ retries' = [retries EXCEPT ![slot[w][i].entry] = 0]
  /\ Goes(w, i, "ack")
  /\ UNCHANGED <<kind, table, group, stream, dead, mode, batch, asleep, lost, faults, losses>>

\* The retry key expires an hour after the last increment.
Expire(j) ==
  /\ retries[j] > 0
  /\ retries' = [retries EXCEPT ![j] = 0]
  /\ UNCHANGED <<kind, table, group, stream, dead, mode, work, lost, faults, losses>>

\* The finally clause, and the backoff of a retry after it.
Ack(w, i) ==
  /\ slot[w][i].pc \in {"ack", "ackRetry"}
  /\ slot' = [slot EXCEPT ![w][i] = Permit("free")]
  /\ asleep' = IF Holds(w, i, "ackRetry")
               THEN [asleep EXCEPT ![w][slot[w][i].entry] = @ + 1] ELSE asleep
  /\ UNCHANGED <<kind, table, redis, mode, batch, lost, faults, losses>>

\* XACK raises: the permit is not released and a retry is not added.
AckRaises(w, i) ==
  /\ kind # "training"
  /\ slot[w][i].pc \in {"ack", "ackRetry"}
  /\ Fault
  /\ slot' = [slot EXCEPT ![w][i] = Permit("leaked")]
  /\ lost' = IF Holds(w, i, "ackRetry") THEN lost \cup {slot[w][i].entry} ELSE lost
  /\ UNCHANGED <<kind, table, redis, mode, batch, asleep, losses>>

\* In ConsumerLoop nothing catches it: the process ends.
LoopAckRaises(w, i) ==
  /\ kind = "training"
  /\ Holds(w, i, "ack")
  /\ Fault
  /\ Die(w)
  /\ UNCHANGED <<kind, table, redis, losses>>

\* Wrong: a retry is added only while the worker reads on.
WakeWhileUp(w, j) ==
  /\ mode[w] = "up"
  /\ asleep[w][j] > 0
  /\ asleep' = [asleep EXCEPT ![w][j] = @ - 1]
  /\ Push(j)
  /\ UNCHANGED <<kind, table, group, retries, dead, mode, batch, slot, faults, losses>>

\* The backoff is over; a stopping worker waits for it too.
Wake(w, j) ==
  /\ asleep[w][j] > 0
  /\ asleep' = [asleep EXCEPT ![w][j] = @ - 1]
  /\ Push(j)
  /\ UNCHANGED <<kind, table, group, retries, dead, mode, batch, slot, faults, losses>>

WakeRaises(w, j) ==
  /\ asleep[w][j] > 0
  /\ Fault
  /\ asleep' = [asleep EXCEPT ![w][j] = @ - 1]
  /\ lost' = lost \cup {j}
  /\ UNCHANGED <<kind, table, redis, mode, batch, slot, losses>>

\* Redis comes back without its data: stream, group and counters are gone.
LoseData ==
  /\ losses < MaxLosses
  /\ losses' = losses + 1
  /\ group' = FALSE
  /\ stream' = <<>>
  /\ retries' = [j \in Jobs |-> 0]
  /\ lost' = lost \cup (Members(stream) \cap Jobs)
  /\ UNCHANGED <<kind, table, dead, mode, work, faults>>

-----------------------------------------------------------------------------
Handle(w, i) ==
  \/ RejectPoison(w, i)
  \/ Lock(w, i)
  \/ Skip(w, i)
  \/ Begin(w, i)
  \/ Settle(w, i)
  \/ CountFailure(w, i)
  \/ Bury(w, i)
  \/ Clear(w, i)
  \/ Ack(w, i)

Misfortune(w, i) ==
  \/ Raise(w, i)
  \/ CountIsLost(w, i)
  \/ BuryRaises(w, i)
  \/ ClearRaises(w, i)
  \/ ForgetRaises(w, i)
  \/ AckRaises(w, i)
  \/ LoopAckRaises(w, i)

Read(w) == PoolRead(w) \/ LoopRead(w)

Next ==
  \/ \E j \in Jobs : Submit(j) \/ SubmitUnrung(j) \/ Expire(j)
  \/ SendPoison
  \/ LoseData
  \/ \E w \in Workers :
       \/ Start(w) \/ Crash(w) \/ Stop(w) \/ Leave(w) \/ NoGroup(w) \/ Read(w)
       \/ \E j \in Jobs : Sweep(w, j) \/ Wake(w, j) \/ WakeRaises(w, j)
       \/ \E i \in Slots : Spawn(w, i) \/ Handle(w, i) \/ Misfortune(w, i)

Spec == Init /\ [][Next]_vars

\* Processes are restarted, the loops of a worker run on, a task goes on until
\* it ends, and the sweep of some worker reaches every pending row.
FairSpec ==
  /\ Spec
  /\ \A w \in Workers :
       /\ WF_vars(Start(w)) /\ WF_vars(Leave(w)) /\ WF_vars(NoGroup(w)) /\ WF_vars(Read(w))
       /\ WF_vars(\E i \in Slots : Spawn(w, i))
       /\ \A i \in Slots : WF_vars(Handle(w, i))
       /\ \A j \in Jobs : WF_vars(Wake(w, j))
  /\ \A j \in Jobs : WF_vars(\E w \in Workers : Sweep(w, j))

-----------------------------------------------------------------------------
(* Safety.                                                                   *)

Busy(j, phases) ==
  {p \in Workers \X Slots : slot[p[1]][p[2]].entry = j /\ slot[p[1]][p[2]].pc \in phases}

\* However many copies of a doorbell are about -- rung twice, swept, retried --
\* at most one task claims or runs the row, and it begins at most once.
OneTaskPerRow ==
  \A j \in Jobs :
    /\ Cardinality(Busy(j, {"locked", "run"})) <= 1
    /\ starts[j] + Cardinality(Busy(j, {"locked"})) <= 1

OnItsWay(j) ==
  \/ j \in Members(stream)
  \/ \E w \in Workers : j \in Members(batch[w]) \/ asleep[w][j] > 0
  \/ Busy(j, {"claim", "locked", "count", "ackRetry", "dead"}) # {}

\* While nothing beyond the code drops a doorbell, a pending row always has one
\* on its way, through every skip by a duplicate, every retry and every graceful
\* stop, unless it was dead-lettered, or raised in a worker that does not retry.
PendingRowIsOnItsWay ==
  \A j \in Jobs : row[j] = "pending" =>
    \/ OnItsWay(j)
    \/ j \in lost
    \/ dead[j] > 0
    \/ kind # "preprocessing" /\ failures[j] > 0

\* A job gets into the dead-letter stream only after its handlers caught more
\* failures than it may be retried, and once more for each further letter, though
\* duplicates share the counter, delete it under each other, and may fail to write
\* a letter or to delete the counter after it (_handle).  A failure need not be the
\* job's own: see ClearRaises.
DeadLettersAreEarned ==
  \A j \in Jobs :
    LET letters == dead[j] + Cardinality(Busy(j, {"dead"}))
    IN letters > 0 => failures[j] >= letters + MaxRetries

\* Types, claims and doorbells (_handle, _claim_and_run, enqueue_step).
DeliveryIsSound ==
  TypeOK /\ OneTaskPerRow /\ PendingRowIsOnItsWay

\* A task is a session of the engine while it runs a step.
Bells == INSTANCE Doorbells WITH
  Sessions <- Workers \X Slots,
  bells <- {j \in Jobs : row[j] = "pending" /\ OnItsWay(j)},
  sess <- [p \in Workers \X Slots |->
             IF Holds(p[1], p[2], "run") THEN slot[p[1]][p[2]].entry ELSE None]

\* What RunEngine takes of delivery is what it gets: through stream, batch, permit,
\* lock and retry a row is claimed in one step, by one session that alone ends it,
\* in answer to a doorbell, and nothing rings for a row that is not pending.  A lost
\* bell may come back whenever the row is pending, by a sweep or by the retry of a
\* duplicate (ClearRaises).
ImplementsBells == Bells!Spec

-----------------------------------------------------------------------------
(* Liveness, for fewer failed acknowledgements than permits: MaxFaults is    *)
(* less than the number of Slots.                                            *)

\* A pending row is started in the end: after lost doorbells, after crashes, after
\* its doorbell was dead-lettered or acknowledged by a failed run, and for the
\* pools also after Redis lost stream and group.
PendingRowsAreServed ==
  \A j \in Jobs :
    row[j] = "pending" ~> row[j] # "pending" \/ (kind = "training" /\ losses > 0)

\* A worker told to stop comes to an end: a slot it lost, a full batch and
\* retries that sleep do not hold it up for ever.
StopsComeToAnEnd == \A w \in Workers : mode[w] = "stopping" ~> mode[w] # "stopping"

\* What the orphan recovery of ConsumerLoop promises, and the loop does not keep once
\* the group is gone: pending rows that Redis lost are delivered again.
LostRowsAreDelivered == \A j \in Jobs : row[j] = "pending" ~> row[j] # "pending"
=============================================================================
