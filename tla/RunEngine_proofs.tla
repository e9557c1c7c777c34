--------------------------- MODULE RunEngine_proofs ---------------------------
(***************************************************************************)
(* Proofs about RunEngine, for every DAG, every number of runs and         *)
(* sessions, and every kind of step.                                       *)
(***************************************************************************)
EXTENDS RunEngine, TLAPS

-----------------------------------------------------------------------------
(* The inductive invariant.  The safety invariants of RunEngine relate rows  *)
(* to rows; what keeps them is how the sessions relate to the rows they hold *)
(* while they are between two transactions.                                  *)

\* Nobody will write the result of a run() of s any more.
Resting(r, s) == \A w \in Sessions : ~Executing(w, r, s)

\* What a row's status says of the rest of the row.
RowsSound ==
  \A r \in Runs, s \in Steps :
    /\ child[r][s] \in {"none", "pending"} => output[r][s] = None
    /\ child[r][s] = "succeeded" => output[r][s] # None
    /\ child[r][s] = "waiting" => s \in GateSteps
    /\ child[r][s] \in {"none", "pending"} => starts[r][s] = 0
    /\ starts[r][s] <= 1
    /\ parent[r] = "none" => child[r][s] = "none"

\* A session that executes a step is the only one that ever does.
ExecutionsSound ==
  \A w \in Sessions, r \in Runs, s \in Steps : Executing(w, r, s) =>
    /\ child[r][s] \in {"running", "cancelled"}
    /\ starts[r][s] = 1
    /\ output[r][s] = None
    /\ \A v \in Sessions : Executing(v, r, s) => v = w

\* A session works on rows that exist; a gate it resolves and a step it takes
\* for succeeded are at rest, so that nothing but a cancel can change them.
SessionSound(w) ==
  LET r == sess[w].run
      s == sess[w].step
  IN  /\ ~At(w, "idle") => parent[r] # "none"
      /\ sess[w].pc \in {"step", "cancelStep", "resolve"} => s \in Steps
      /\ At(w, "cancelStep") => child[r][s] # "none"
      /\ At(w, "resolve") =>
           /\ s \in GateSteps
           /\ child[r][s] \in {"waiting", "succeeded", "cancelled"}
           /\ Resting(r, s)
      /\ At(w, "advance") /\ s # None =>
           /\ child[r][s] \in {"succeeded", "cancelled"}
           /\ Resting(r, s)
           /\ output[r][s] # None
           /\ s \notin GateSteps => sess[w].val = output[r][s]

SessionsSound == \A w \in Sessions : SessionSound(w)

IInv ==
  /\ TypeOK
  /\ RowsSound
  /\ ExecutionsSound
  /\ SessionsSound
  /\ SucceededMeansComplete
  /\ FailureReported
  /\ InputsAreFinal
  /\ OutputsAreEarned

-----------------------------------------------------------------------------
(* The steps of the system, one disjunct each.                               *)

LEMMA NextSplit ==
  ASSUME [Next]_vars
  PROVE  \/ UNCHANGED vars
         \/ \E w \in Sessions, r \in Runs : InsertRun(w, r) \/ CancelRunRead(w, r)
         \/ \E w \in Sessions, r \in Runs, s \in Steps :
              \/ CancelStepRead(w, r, s) \/ ResolveGateRead(w, r, s)
              \/ ClaimStep(w, r, s) \/ RejectStep(w, r, s) \/ DropDoorbell(w, r, s)
         \/ \E w \in Sessions :
              \/ CancelRunWrite(w) \/ CancelStepWrite(w) \/ ResolveGateWrite(w)
              \/ StepSucceeds(w) \/ StepGates(w) \/ StepFails(w)
              \/ AdvanceReturns(w) \/ AdvanceFails(w) \/ AdvanceReleases(w)
              \/ EnqueueFails(w) \/ Breaks(w)
              \/ \E s \in Steps : EnqueueStep(w, s)
         \/ \E r \in Runs, s \in Steps : RecoverOrphan(r, s) \/ LoseDoorbell(r, s)
  BY DEF Next, CreateRun, RetryRun, Deliver, Continue, Crash, AdvanceRaises, StepRaises

-----------------------------------------------------------------------------
(* What a write to one row or one session leaves behind.                     *)

LEMMA ParentWrite ==
  ASSUME parent \in [Runs -> Status], NEW r, NEW st \in Status, SetParent(r, st)
  PROVE  /\ parent' \in [Runs -> Status]
         /\ \A q \in Runs : parent'[q] = IF q = r THEN st ELSE parent[q]
  BY DEF SetParent

LEMMA ChildWrite ==
  ASSUME child \in [Runs -> [Steps -> Status]], NEW r, NEW s, NEW st \in Status,
         SetChild(r, s, st)
  PROVE  /\ child' \in [Runs -> [Steps -> Status]]
         /\ \A q \in Runs, t \in Steps :
              child'[q][t] = IF q = r /\ t = s THEN st ELSE child[q][t]
  BY DEF SetChild

LEMMA OutputWrite ==
  ASSUME output \in [Runs -> [Steps -> Values]], NEW r, NEW s, NEW v \in Values,
         output' = [output EXCEPT ![r][s] = v]
  PROVE  /\ output' \in [Runs -> [Steps -> Values]]
         /\ \A q \in Runs, t \in Steps :
              output'[q][t] = IF q = r /\ t = s THEN v ELSE output[q][t]
  OBVIOUS

LEMMA StartsWrite ==
  ASSUME starts \in [Runs -> [Steps -> Nat]], NEW r \in Runs, NEW s \in Steps,
         starts' = [starts EXCEPT ![r][s] = @ + 1]
  PROVE  /\ starts' \in [Runs -> [Steps -> Nat]]
         /\ \A q \in Runs, t \in Steps :
              starts'[q][t] = IF q = r /\ t = s THEN starts[q][t] + 1 ELSE starts[q][t]
  <1> starts[r] \in [Steps -> Nat] /\ starts[r][s] + 1 \in Nat
    OBVIOUS
  <1> QED OBVIOUS

LEMMA SessionWrite ==
  ASSUME sess \in [Sessions -> Job \cup {Idle}], NEW w \in Sessions,
         NEW state \in Job \cup {Idle}, Becomes(w, state)
  PROVE  /\ sess' \in [Sessions -> Job \cup {Idle}]
         /\ \A v \in Sessions : sess'[v] = IF v = w THEN state ELSE sess[v]
  BY DEF Becomes

-----------------------------------------------------------------------------
(* Type correctness.                                                         *)

LEMMA BusyType ==
  ASSUME NEW phase \in Phase, NEW r \in Runs, NEW s \in Steps \cup {None},
         NEW seen \in Status
  PROVE  Busy(phase, r, s, seen) \in Job
  BY DEF Busy, Job, Values

LEMMA AtWork ==
  ASSUME sess \in [Sessions -> Job \cup {Idle}], NEW w \in Sessions, ~At(w, "idle")
  PROVE  sess[w] \in Job /\ sess[w].run \in Runs /\ sess[w].pc \in Phase
  BY DEF At, Idle, Busy, Job

\* The write of a pass, whatever the pass decides: rows keep their types.
LEMMA ReleaseType ==
  ASSUME TypeOK, NEW w \in Sessions, NEW bad \in SUBSET BadSteps,
         NEW copied \in SUBSET Missing(w), NEW src \in [copied -> Runs],
         At(w, "advance"), Release(w, sess[w].run, bad, src)
  PROVE  TypeOK'
<1> DEFINE r     == sess[w].run
           made  == Reached(w, bad, copied)
           fresh == made \ copied
<1> USE DEF TypeOK
<1>0. r \in Runs /\ sess[w] \in Job
  BY AtWork DEF At
<1>1. /\ DOMAIN src = copied
      /\ copied \subseteq Steps
      /\ made \subseteq Steps
  BY DEF Missing, Reached, Ready
<1>2. \A s \in Steps : Known(w, src)[s] \in Values
  <2> TAKE s \in Steps
  <2>1. CASE s \in copied
    BY <2>1, <1>1 DEF Known
  <2>2. CASE s \notin copied /\ s = sess[w].step
    BY <2>2, <1>0, <1>1 DEF Known, Job
  <2>3. CASE s \notin copied /\ s # sess[w].step
    BY <2>3, <1>0, <1>1 DEF Known
  <2> QED BY <2>1, <2>2, <2>3
<1>3. \A s \in Steps : Frozen(s, Known(w, src)) \in [Steps -> Values]
  BY <1>2 DEF Frozen, Values
<1>4. Verdict(w, bad, copied) \in Status
  BY <1>0 DEF Verdict, Status
<1>5. parent' \in [Runs -> Status]
  BY <1>0, <1>1, <1>4, ParentWrite DEF Release
<1>6. child' \in [Runs -> [Steps -> Status]]
  BY <1>0, <1>1 DEF Release, Status
<1>7. inputs' \in [Runs -> [Steps -> [Steps -> Values]]]
  BY <1>0, <1>1, <1>3 DEF Release
<1>8. output' \in [Runs -> [Steps -> Values]]
  BY <1>0, <1>1, <1>2 DEF Release
<1>9. sess' \in [Sessions -> Job \cup {Idle}]
  <2> DEFINE busy == [Busy("ring", r, None, "none") EXCEPT !.ring = fresh]
  <2>1. busy \in Job
    BY <1>0, <1>1 DEF Busy, Job, Phase, Status, Values
  <2>2. PICK state \in {Idle, busy} : Becomes(w, state)
    BY <1>1 DEF Release
  <2> QED BY <2>1, <2>2, SessionWrite
<1> QED
  BY <1>5, <1>6, <1>7, <1>8, <1>9 DEF Release

LEMMA TypeStep ==
  ASSUME TypeOK, [Next]_vars
  PROVE  TypeOK'
<1> USE DEF TypeOK
<1>1. ASSUME NEW w \in Sessions, NEW r \in Runs, InsertRun(w, r)
      PROVE  TypeOK'
  <2>1. Busy("advance", r, None, "pending") \in Job
    BY BusyType DEF Phase, Status
  <2> QED BY <1>1, <2>1, SessionWrite, ParentWrite DEF InsertRun, Status
<1>2. ASSUME NEW w \in Sessions, NEW r \in Runs, CancelRunRead(w, r)
      PROVE  TypeOK'
  <2>1. Busy("cancelRun", r, None, parent[r]) \in Job
    BY BusyType DEF Phase
  <2> QED BY <1>2, <2>1, SessionWrite DEF CancelRunRead
<1>3. ASSUME NEW w \in Sessions, NEW r \in Runs, NEW s \in Steps,
             CancelStepRead(w, r, s) \/ ResolveGateRead(w, r, s)
      PROVE  TypeOK'
  <2>1. \A st \in Status, phase \in Phase :
          Busy(phase, r, s, st) \in Job
    BY BusyType
  <2>2. child[r][s] \in Status /\ parent[r] \in Status
    OBVIOUS
  <2> QED BY <1>3, <2>1, <2>2, SessionWrite DEF CancelStepRead, ResolveGateRead, Phase
<1>4. ASSUME NEW w \in Sessions, NEW r \in Runs, NEW s \in Steps, ClaimStep(w, r, s)
      PROVE  TypeOK'
  <2>1. Busy("step", r, s, parent[r]) \in Job
    BY BusyType DEF Phase
  <2>2. starts' \in [Runs -> [Steps -> Nat]] /\ bells' \subseteq Runs \X Steps
    BY <1>4, StartsWrite DEF ClaimStep, Taken
  <2> QED BY <1>4, <2>1, <2>2, SessionWrite, ChildWrite DEF ClaimStep, Status
<1>5. ASSUME NEW w \in Sessions, NEW r \in Runs, NEW s \in Steps,
             RejectStep(w, r, s) \/ DropDoorbell(w, r, s)
      PROVE  TypeOK'
  <2>1. bells' \subseteq Runs \X Steps
    BY <1>5 DEF RejectStep, DropDoorbell, Taken
  <2> QED BY <1>5, <2>1, ChildWrite, ParentWrite DEF RejectStep, DropDoorbell, Status
<1>6. ASSUME NEW w \in Sessions, CancelRunWrite(w) \/ CancelStepWrite(w)
      PROVE  TypeOK'
  BY <1>6, AtWork, SessionWrite, ChildWrite, ParentWrite
  DEF CancelRunWrite, CancelStepWrite, Status
<1>7. ASSUME NEW w \in Sessions, ResolveGateWrite(w)
      PROVE  TypeOK'
  <2>1. PICK v \in Resolutions :
          /\ output' = [output EXCEPT ![sess[w].run][sess[w].step] = v]
          /\ Becomes(w, [sess[w] EXCEPT !.pc = "advance", !.val = v])
    BY <1>7 DEF ResolveGateWrite
  <2>2. sess[w] \in Job
    BY <1>7, AtWork DEF ResolveGateWrite, At
  <2>3. [sess[w] EXCEPT !.pc = "advance", !.val = v] \in Job
    BY <2>2 DEF Job, Phase, Values
  <2>4. output' \in [Runs -> [Steps -> Values]] /\ sess' \in [Sessions -> Job \cup {Idle}]
    BY <2>1, <2>3, OutputWrite, SessionWrite DEF Values
  <2> QED BY <1>7, <2>4, ChildWrite DEF ResolveGateWrite, Status
<1>8. ASSUME NEW w \in Sessions, StepSucceeds(w)
      PROVE  TypeOK'
  <2>1. sess[w] \in Job /\ sess[w].run \in Values
    BY <1>8, AtWork DEF StepSucceeds, At, Values
  <2>2. [sess[w] EXCEPT !.pc = "advance", !.val = sess[w].run] \in Job
    BY <2>1 DEF Job, Phase
  <2>3. output' \in [Runs -> [Steps -> Values]] /\ sess' \in [Sessions -> Job \cup {Idle}]
    BY <1>8, <2>1, <2>2, OutputWrite, SessionWrite DEF StepSucceeds
  <2> QED BY <1>8, <2>3, ChildWrite DEF StepSucceeds, Status
<1>9. ASSUME NEW w \in Sessions, StepGates(w) \/ StepFails(w)
      PROVE  TypeOK'
  BY <1>9, SessionWrite, ChildWrite, ParentWrite
  DEF StepGates, StepFails, Status
<1>10. ASSUME NEW w \in Sessions,
              AdvanceReturns(w) \/ AdvanceFails(w) \/ EnqueueFails(w) \/ Breaks(w)
       PROVE  TypeOK'
  <2>1. CASE Breaks(w)
    <3>1. sess' \in [Sessions -> Job \cup {Idle}]
      BY <2>1, SessionWrite DEF Breaks
    <3>2. sess[w].run \in Runs
      BY <2>1, AtWork DEF Breaks, Job
    <3>3. crashes' \in [Runs -> Nat]
      BY <2>1, <3>2 DEF Breaks
    <3> QED BY <2>1, <3>1, <3>3 DEF Breaks
  <2> QED
    BY <1>10, <2>1, SessionWrite, ParentWrite
    DEF AdvanceReturns, AdvanceFails, EnqueueFails, Status
<1>11. ASSUME NEW w \in Sessions, AdvanceReleases(w)
       PROVE  TypeOK'
  BY <1>11, ReleaseType DEF AdvanceReleases, At
<1>12. ASSUME NEW w \in Sessions, NEW s \in Steps, EnqueueStep(w, s)
       PROVE  TypeOK'
  <2>0. sess[w] \in Job /\ sess[w].run \in Runs
    BY <1>12, AtWork DEF EnqueueStep, At
  <2>1. [sess[w] EXCEPT !.ring = @ \ {s}] \in Job
    BY <2>0 DEF Job
  <2>2. sess' \in [Sessions -> Job \cup {Idle}]
    BY <1>12, <2>1, SessionWrite DEF EnqueueStep
  <2> QED BY <1>12, <2>0, <2>2 DEF EnqueueStep
<1>13. ASSUME NEW r \in Runs, NEW s \in Steps, RecoverOrphan(r, s) \/ LoseDoorbell(r, s)
       PROVE  TypeOK'
  BY <1>13 DEF RecoverOrphan, LoseDoorbell
<1>14. ASSUME UNCHANGED vars PROVE TypeOK'
  BY <1>14 DEF vars
<1> QED
  BY NextSplit, <1>1, <1>2, <1>3, <1>4, <1>5, <1>6, <1>7, <1>8, <1>9, <1>10,
     <1>11, <1>12, <1>13, <1>14

-----------------------------------------------------------------------------
(* What each step does to the rows, and to who executes what.                *)

\* A session that turns to anything but a step executes nothing.
LEMMA LeavesStep ==
  ASSUME TypeOK, NEW w \in Sessions, NEW state \in Job \cup {Idle},
         state.pc # "step", Becomes(w, state)
  PROVE  \A v \in Sessions, q \in Runs, t \in Steps :
           Executing(v, q, t)' <=> v # w /\ Executing(v, q, t)
  BY SessionWrite DEF TypeOK, Executing, At

LEMMA SessionsStay ==
  ASSUME UNCHANGED sess
  PROVE  \A v \in Sessions, q \in Runs, t \in Steps :
           Executing(v, q, t)' <=> Executing(v, q, t)
  BY DEF Executing, At

\* Steps that write no row.
Quiet ==
  \/ UNCHANGED vars
  \/ \E w \in Sessions, r \in Runs : CancelRunRead(w, r)
  \/ \E w \in Sessions, r \in Runs, s \in Steps :
       CancelStepRead(w, r, s) \/ ResolveGateRead(w, r, s) \/ DropDoorbell(w, r, s)
  \/ \E w \in Sessions :
       \/ AdvanceReturns(w) \/ EnqueueFails(w) \/ Breaks(w)
       \/ \E s \in Steps : EnqueueStep(w, s)
  \/ \E r \in Runs, s \in Steps : RecoverOrphan(r, s) \/ LoseDoorbell(r, s)

LEMMA QuietEffect ==
  ASSUME TypeOK, Quiet
  PROVE  /\ UNCHANGED <<parent, child, inputs, output, starts>>
         /\ \A v \in Sessions, q \in Runs, t \in Steps :
              Executing(v, q, t)' => Executing(v, q, t)
<1>1. UNCHANGED <<parent, child, inputs, output, starts>>
  BY DEF Quiet, vars, CancelRunRead, CancelStepRead, ResolveGateRead, DropDoorbell,
     AdvanceReturns, EnqueueFails, Breaks, EnqueueStep, RecoverOrphan, LoseDoorbell
<1>2. \/ UNCHANGED sess
      \/ \E w \in Sessions : \E state \in Job \cup {Idle} :
           state.pc # "step" /\ Becomes(w, state)
  <2>1. ASSUME NEW w \in Sessions, NEW r \in Runs, CancelRunRead(w, r)
        PROVE  \E state \in Job \cup {Idle} : state.pc # "step" /\ Becomes(w, state)
    <3>1. Busy("cancelRun", r, None, parent[r]) \in Job
      BY BusyType DEF TypeOK, Phase
    <3> QED BY <2>1, <3>1 DEF CancelRunRead, Busy
  <2>2. ASSUME NEW w \in Sessions, NEW r \in Runs, NEW s \in Steps, CancelStepRead(w, r, s)
        PROVE  \E state \in Job \cup {Idle} : state.pc # "step" /\ Becomes(w, state)
    <3>1. Busy("cancelStep", r, s, child[r][s]) \in Job
      BY BusyType DEF TypeOK, Phase
    <3> QED BY <2>2, <3>1 DEF CancelStepRead, Busy
  <2>3. ASSUME NEW w \in Sessions, NEW r \in Runs, NEW s \in Steps, ResolveGateRead(w, r, s)
        PROVE  \E state \in Job \cup {Idle} : state.pc # "step" /\ Becomes(w, state)
    <3>1. Busy("resolve", r, s, parent[r]) \in Job
      BY BusyType DEF TypeOK, Phase
    <3> QED BY <2>3, <3>1 DEF ResolveGateRead, Busy
  <2>4. ASSUME NEW w \in Sessions, AdvanceReturns(w) \/ EnqueueFails(w) \/ Breaks(w)
        PROVE  \E state \in Job \cup {Idle} : state.pc # "step" /\ Becomes(w, state)
    BY <2>4 DEF AdvanceReturns, EnqueueFails, Breaks, Idle, Busy
  <2>5. ASSUME NEW w \in Sessions, NEW s \in Steps, EnqueueStep(w, s)
        PROVE  \E state \in Job \cup {Idle} : state.pc # "step" /\ Becomes(w, state)
    <3>1. sess[w] \in Job /\ sess[w].pc = "ring"
      BY <2>5, AtWork DEF TypeOK, EnqueueStep, At
    <3>2. /\ [sess[w] EXCEPT !.ring = @ \ {s}] \in Job
          /\ [sess[w] EXCEPT !.ring = @ \ {s}].pc # "step"
      BY <3>1 DEF Job
    <3> QED BY <2>5, <3>2 DEF EnqueueStep, Idle, Busy
  <2> QED
    BY <2>1, <2>2, <2>3, <2>4, <2>5
    DEF Quiet, vars, DropDoorbell, RecoverOrphan, LoseDoorbell
<1> QED
  BY <1>1, <1>2, LeavesStep, SessionsStay

\* Steps that write a parent row only.
LEMMA ParentEffect ==
  ASSUME TypeOK, NEW w \in Sessions, NEW r \in Runs,
         \/ InsertRun(w, r)
         \/ sess[w].run = r /\ (CancelRunWrite(w) \/ AdvanceFails(w))
  PROVE  /\ UNCHANGED <<child, inputs, output, starts>>
         /\ \A v \in Sessions, q \in Runs, t \in Steps :
              Executing(v, q, t)' => Executing(v, q, t)
         /\ parent'[r] \in {"pending", "cancelled", "failed"}
         /\ parent'[r] = "pending" => parent[r] = "none"
         /\ \A q \in Runs : q # r => parent'[q] = parent[q]
<1>1. CASE InsertRun(w, r)
  <2>1. Busy("advance", r, None, "pending") \in Job
    BY BusyType DEF Phase, Status
  <2>2. \A v \in Sessions, q \in Runs, t \in Steps :
          Executing(v, q, t)' => Executing(v, q, t)
    BY <1>1, <2>1, LeavesStep DEF InsertRun, Busy
  <2> QED BY <1>1, <2>2, ParentWrite DEF TypeOK, InsertRun, Status
<1>2. CASE sess[w].run = r /\ (CancelRunWrite(w) \/ AdvanceFails(w))
  <2>1. \A v \in Sessions, q \in Runs, t \in Steps :
          Executing(v, q, t)' => Executing(v, q, t)
    BY <1>2, LeavesStep DEF CancelRunWrite, AdvanceFails, Idle, Busy
  <2> QED BY <1>2, <2>1, ParentWrite DEF TypeOK, CancelRunWrite, AdvanceFails, Status
<1> QED BY <1>1, <1>2

\* Only the child row <<r, s>> gets a new status.
OnlyChild(r, s, st) ==
  \A q \in Runs, t \in Steps :
    child'[q][t] = IF q = r /\ t = s THEN st ELSE child[q][t]

LEMMA ClaimEffect ==
  ASSUME TypeOK, NEW w \in Sessions, NEW r \in Runs, NEW s \in Steps, ClaimStep(w, r, s)
  PROVE  /\ UNCHANGED <<parent, inputs, output>>
         /\ child[r][s] = "pending"
         /\ OnlyChild(r, s, "running")
         /\ \A q \in Runs, t \in Steps :
              starts'[q][t] = IF q = r /\ t = s THEN starts[q][t] + 1 ELSE starts[q][t]
         /\ \A v \in Sessions, q \in Runs, t \in Steps :
              Executing(v, q, t)' <=> IF v = w THEN q = r /\ t = s ELSE Executing(v, q, t)
<1>1. Busy("step", r, s, parent[r]) \in Job
  BY BusyType DEF TypeOK, Phase
<1>2. \A v \in Sessions : sess'[v] = IF v = w THEN Busy("step", r, s, parent[r]) ELSE sess[v]
  BY <1>1, SessionWrite DEF TypeOK, ClaimStep
<1>3. \A v \in Sessions, q \in Runs, t \in Steps :
        Executing(v, q, t)' <=> IF v = w THEN q = r /\ t = s ELSE Executing(v, q, t)
  BY <1>2 DEF Executing, At, Busy
<1>4. OnlyChild(r, s, "running")
  BY ChildWrite DEF TypeOK, ClaimStep, Status, OnlyChild
<1> QED
  BY <1>3, <1>4, StartsWrite DEF TypeOK, ClaimStep, Claimable

LEMMA RejectEffect ==
  ASSUME TypeOK, NEW w \in Sessions, NEW r \in Runs, NEW s \in Steps, RejectStep(w, r, s)
  PROVE  /\ UNCHANGED <<inputs, output, starts, sess>>
         /\ child[r][s] = "pending"
         /\ OnlyChild(r, s, "failed")
         /\ \A q \in Runs : parent'[q] = IF q = r THEN "failed" ELSE parent[q]
         /\ \A v \in Sessions, q \in Runs, t \in Steps :
              Executing(v, q, t)' <=> Executing(v, q, t)
<1>1. OnlyChild(r, s, "failed")
  BY ChildWrite DEF TypeOK, RejectStep, Status, OnlyChild
<1> QED
  BY <1>1, SessionsStay, ParentWrite DEF TypeOK, RejectStep, Claimable, Status

LEMMA CancelStepEffect ==
  ASSUME TypeOK, NEW w \in Sessions, CancelStepWrite(w)
  PROVE  /\ UNCHANGED <<parent, inputs, output, starts>>
         /\ sess[w].run \in Runs
         /\ OnlyChild(sess[w].run, sess[w].step, "cancelled")
         /\ \A v \in Sessions, q \in Runs, t \in Steps :
              Executing(v, q, t)' <=> v # w /\ Executing(v, q, t)
<1>1. \A v \in Sessions, q \in Runs, t \in Steps :
        Executing(v, q, t)' <=> v # w /\ Executing(v, q, t)
  BY LeavesStep DEF CancelStepWrite, Idle, Busy
<1>2. OnlyChild(sess[w].run, sess[w].step, "cancelled")
  BY ChildWrite DEF TypeOK, CancelStepWrite, Status, OnlyChild
<1> QED
  BY <1>1, <1>2, AtWork DEF TypeOK, CancelStepWrite, At

\* A gate that is resolved and a step that succeeds: the session goes on to
\* advance the run, and takes the row for succeeded with the output it wrote.
FinishWrote(w, v) ==
  /\ UNCHANGED <<parent, inputs, starts>>
  /\ sess[w] \in Job
  /\ OnlyChild(sess[w].run, sess[w].step, "succeeded")
  /\ v \in Resolutions \cup Runs
  /\ \A q \in Runs, t \in Steps :
       output'[q][t] = IF q = sess[w].run /\ t = sess[w].step THEN v ELSE output[q][t]
  /\ \A u \in Sessions :
       sess'[u] = IF u = w THEN [sess[w] EXCEPT !.pc = "advance", !.val = v] ELSE sess[u]
  /\ \A u \in Sessions, q \in Runs, t \in Steps :
       Executing(u, q, t)' <=> u # w /\ Executing(u, q, t)

LEMMA FinishEffect ==
  ASSUME TypeOK, NEW w \in Sessions, ResolveGateWrite(w) \/ StepSucceeds(w)
  PROVE  \E v : FinishWrote(w, v) /\ (StepSucceeds(w) => v = sess[w].run)
<1>1. PICK v \in Resolutions \cup Runs :
        /\ output' = [output EXCEPT ![sess[w].run][sess[w].step] = v]
        /\ Becomes(w, [sess[w] EXCEPT !.pc = "advance", !.val = v])
        /\ StepSucceeds(w) => v = sess[w].run
  <2>1. CASE ResolveGateWrite(w)
    BY <2>1 DEF ResolveGateWrite, StepSucceeds, At
  <2>2. CASE StepSucceeds(w)
    <3>1. sess[w].run \in Runs
      BY <2>2, AtWork DEF TypeOK, StepSucceeds, At
    <3> QED BY <2>2, <3>1 DEF StepSucceeds
  <2> QED BY <2>1, <2>2
<1>2. sess[w] \in Job
  BY AtWork DEF TypeOK, ResolveGateWrite, StepSucceeds, At
<1>3. /\ [sess[w] EXCEPT !.pc = "advance", !.val = v] \in Job
      /\ [sess[w] EXCEPT !.pc = "advance", !.val = v].pc # "step"
  BY <1>2 DEF Job, Phase, Values
<1>4. OnlyChild(sess[w].run, sess[w].step, "succeeded")
  <2>1. SetChild(sess[w].run, sess[w].step, "succeeded")
    BY DEF ResolveGateWrite, StepSucceeds
  <2> QED BY <2>1, ChildWrite DEF TypeOK, Status, OnlyChild
<1>5. \A u \in Sessions, q \in Runs, t \in Steps :
        Executing(u, q, t)' <=> u # w /\ Executing(u, q, t)
  BY <1>1, <1>3, LeavesStep
<1>6. \A u \in Sessions :
        sess'[u] = IF u = w THEN [sess[w] EXCEPT !.pc = "advance", !.val = v]
                   ELSE sess[u]
  BY <1>1, <1>3, SessionWrite DEF TypeOK
<1>7. v \in Values
  BY DEF Values
<1>8. \A q \in Runs, t \in Steps :
        output'[q][t] = IF q = sess[w].run /\ t = sess[w].step THEN v ELSE output[q][t]
  BY <1>1, <1>7, OutputWrite DEF TypeOK
<1>9. UNCHANGED <<parent, inputs, starts>>
  BY DEF ResolveGateWrite, StepSucceeds
<1> QED
  BY <1>1, <1>2, <1>4, <1>5, <1>6, <1>8, <1>9 DEF FinishWrote

LEMMA GateEffect ==
  ASSUME TypeOK, NEW w \in Sessions, StepGates(w)
  PROVE  /\ UNCHANGED <<parent, inputs, output, starts>>
         /\ sess[w].run \in Runs /\ sess[w].step \in GateSteps
         /\ Executing(w, sess[w].run, sess[w].step)
         /\ OnlyChild(sess[w].run, sess[w].step, "waiting")
         /\ \A v \in Sessions, q \in Runs, t \in Steps :
              Executing(v, q, t)' <=> v # w /\ Executing(v, q, t)
<1>1. \A v \in Sessions, q \in Runs, t \in Steps :
        Executing(v, q, t)' <=> v # w /\ Executing(v, q, t)
  BY LeavesStep DEF StepGates, Idle, Busy
<1>2. OnlyChild(sess[w].run, sess[w].step, "waiting")
  BY ChildWrite DEF TypeOK, StepGates, Status, OnlyChild
<1> QED
  BY <1>1, <1>2, AtWork DEF TypeOK, StepGates, At, Executing

LEMMA FailEffect ==
  ASSUME TypeOK, NEW w \in Sessions, StepFails(w)
  PROVE  /\ UNCHANGED <<inputs, output, starts>>
         /\ sess[w].run \in Runs
         /\ Executing(w, sess[w].run, sess[w].step)
         /\ OnlyChild(sess[w].run, sess[w].step, "failed")
         /\ \A q \in Runs : parent'[q] = IF q = sess[w].run THEN "failed" ELSE parent[q]
         /\ \A v \in Sessions, q \in Runs, t \in Steps :
              Executing(v, q, t)' <=> v # w /\ Executing(v, q, t)
<1>1. \A v \in Sessions, q \in Runs, t \in Steps :
        Executing(v, q, t)' <=> v # w /\ Executing(v, q, t)
  BY LeavesStep DEF StepFails, Idle, Busy
<1>2. OnlyChild(sess[w].run, sess[w].step, "failed")
  BY ChildWrite DEF TypeOK, StepFails, Status, OnlyChild
<1>3. \A q \in Runs : parent'[q] = IF q = sess[w].run THEN "failed" ELSE parent[q]
  BY ParentWrite DEF TypeOK, StepFails, Status
<1> QED
  BY <1>1, <1>2, <1>3, AtWork DEF TypeOK, StepFails, At, Executing

\* What a pass of advance_workflow wrote: the steps it copied from earlier runs,
\* the steps it created as pending, and its verdict.
PassWrote(w, bad, copied, src) ==
  LET r     == sess[w].run
      fresh == Reached(w, bad, copied) \ copied
      known == Known(w, src)
  IN  /\ At(w, "advance") /\ sess[w] \in Job /\ r \in Runs
      /\ ~SeesTerminal(w) /\ ~Sees(w, "failed") /\ ~Sees(w, "waiting")
      /\ src \in [copied -> Runs]
      /\ copied \subseteq Reached(w, bad, copied)
      /\ UNCHANGED starts
      /\ \A q \in Runs, t \in Steps :
           /\ child'[q][t] = IF q = r /\ t \in copied THEN "succeeded"
                             ELSE IF q = r /\ t \in fresh THEN "pending"
                             ELSE child[q][t]
           /\ inputs'[q][t] = IF q = r /\ t \in Reached(w, bad, copied)
                              THEN Frozen(t, known) ELSE inputs[q][t]
           /\ output'[q][t] = IF q = r /\ t \in copied THEN known[t] ELSE output[q][t]
      /\ \A q \in Runs :
           parent'[q] = IF q = r THEN Verdict(w, bad, copied) ELSE parent[q]
      /\ \A t \in copied : src[t] \in Priors(t, Frozen(t, known))
      /\ \E state \in Job \cup {Idle} :
           /\ state.pc \in {"idle", "ring"}
           /\ state.pc # "idle" => state.run = r
           /\ \A u \in Sessions : sess'[u] = IF u = w THEN state ELSE sess[u]
      /\ \A u \in Sessions, q \in Runs, t \in Steps :
           Executing(u, q, t)' <=> u # w /\ Executing(u, q, t)

LEMMA PassEffect ==
  ASSUME TypeOK, NEW w \in Sessions, AdvanceReleases(w)
  PROVE  \E bad, copied, src : PassWrote(w, bad, copied, src)
<1>1. /\ At(w, "advance") /\ sess[w] \in Job /\ sess[w].run \in Runs
      /\ ~SeesTerminal(w) /\ ~Sees(w, "failed") /\ ~Sees(w, "waiting")
  BY AtWork DEF AdvanceReleases, TypeOK, At
<1> DEFINE r == sess[w].run
<1>2. PICK bad \in SUBSET BadSteps, copied \in SUBSET Missing(w) :
        \E src \in [copied -> Runs] : Copies(w, bad, src) /\ Release(w, r, bad, src)
  BY DEF AdvanceReleases
<1>3. PICK src \in [copied -> Runs] : Copies(w, bad, src) /\ Release(w, r, bad, src)
  BY <1>2
<1> DEFINE made  == Reached(w, bad, copied)
           fresh == made \ copied
           known == Known(w, src)
           busy  == [Busy("ring", r, None, "none") EXCEPT !.ring = fresh]
<1>4. /\ DOMAIN src = copied
      /\ copied \subseteq made
      /\ made \subseteq Steps
      /\ \A t \in copied : src[t] \in Priors(t, Frozen(t, known))
  BY <1>3 DEF Copies, Reached, Ready, Missing
<1>5. \A q \in Runs, t \in Steps :
        /\ child'[q][t] = IF q = r /\ t \in copied THEN "succeeded"
                          ELSE IF q = r /\ t \in fresh THEN "pending"
                          ELSE child[q][t]
        /\ inputs'[q][t] = IF q = r /\ t \in made THEN Frozen(t, known) ELSE inputs[q][t]
        /\ output'[q][t] = IF q = r /\ t \in copied THEN known[t] ELSE output[q][t]
  <2>1. \A q \in Runs, t \in Steps :
          child'[q][t] = IF q = r /\ t \in copied THEN "succeeded"
                         ELSE IF q = r /\ t \in fresh THEN "pending"
                         ELSE child[q][t]
    BY <1>3, <1>4 DEF Release, TypeOK
  <2>2. \A q \in Runs, t \in Steps :
          inputs'[q][t] = IF q = r /\ t \in made THEN Frozen(t, known) ELSE inputs[q][t]
    BY <1>3, <1>4 DEF Release, TypeOK
  <2>3. \A q \in Runs, t \in Steps :
          output'[q][t] = IF q = r /\ t \in copied THEN known[t] ELSE output[q][t]
    BY <1>3, <1>4 DEF Release, TypeOK
  <2> QED BY <2>1, <2>2, <2>3
<1>6. \A q \in Runs : parent'[q] = IF q = r THEN Verdict(w, bad, copied) ELSE parent[q]
  BY <1>3, <1>4 DEF Release, SetParent, TypeOK
<1>7. PICK state \in {Idle, busy} : Becomes(w, state)
  BY <1>3, <1>4 DEF Release
<1>8. /\ state \in Job \cup {Idle}
      /\ state.pc \in {"idle", "ring"}
      /\ state.pc # "idle" => state.run = r
  BY <1>1, <1>4, <1>7 DEF Busy, Idle, Job, Phase, Status, Values
<1>9. \A u \in Sessions : sess'[u] = IF u = w THEN state ELSE sess[u]
  BY <1>7, <1>8, SessionWrite DEF TypeOK
<1>10. \A u \in Sessions, q \in Runs, t \in Steps :
         Executing(u, q, t)' <=> u # w /\ Executing(u, q, t)
  BY <1>7, <1>8, LeavesStep
<1>11. UNCHANGED starts
  BY <1>3 DEF Release
<1>12. PassWrote(w, bad, copied, src)
  BY <1>1, <1>4, <1>5, <1>6, <1>8, <1>9, <1>10, <1>11 DEF PassWrote
<1> QED BY <1>12

-----------------------------------------------------------------------------
(* What a pass relies on.                                                    *)

\* A pass makes rows only for steps that have none, after every predecessor has
\* one that succeeded, and freezes their inputs from outputs that exist.
LEMMA PassMakes ==
  ASSUME NEW w, NEW bad, NEW copied, NEW src, PassWrote(w, bad, copied, src),
         NEW t \in Reached(w, bad, copied)
  PROVE  /\ t \in Steps /\ t # sess[w].step /\ child[sess[w].run][t] = "none"
         /\ Pred[t] \subseteq Finished(w) \cup copied
         /\ Refs[t] \subseteq Finished(w) \cup copied
<1>1. t \in Ready(w, copied) /\ t \in Steps
  BY DEF Reached, Ready, Missing
<1>2. /\ child[sess[w].run][t] = "none" /\ t # sess[w].step
      /\ Pred[t] \subseteq Finished(w) \cup copied
  BY <1>1 DEF Ready, Missing, Seen
<1>3. t \notin Stops(w, bad, copied)
  <2>1. ~(Rank[t] < Rank[t])
    BY <1>1, DagAssumption
  <2> QED BY <2>1 DEF Reached
<1>4. Resolvable(w, bad, copied, t)
  BY <1>1, <1>3 DEF Stops
<1> QED BY <1>1, <1>2, <1>4, DagAssumption DEF Resolvable

\* A step that a pass takes for finished is at rest, with the output that the
\* pass resolves references with.
LEMMA PassReads ==
  ASSUME IInv, NEW w \in Sessions, NEW bad, NEW copied, NEW src,
         PassWrote(w, bad, copied, src), NEW x \in Finished(w)
  PROVE  /\ x \in Steps \ copied
         /\ child[sess[w].run][x] \in {"succeeded", "cancelled"}
         /\ Resting(sess[w].run, x)
         /\ output[sess[w].run][x] # None
         /\ x \notin GateSteps => Known(w, src)[x] = output[sess[w].run][x]
<1> DEFINE r == sess[w].run
<1>1. DOMAIN src = copied /\ r \in Runs /\ At(w, "advance") /\ x \in Steps
  BY DEF PassWrote, Finished
<1>2. x \notin copied
  <2> SUFFICES ASSUME x \in copied PROVE FALSE
    OBVIOUS
  <2>1. x \in Reached(w, bad, copied)
    BY DEF PassWrote
  <2>2. x # sess[w].step /\ child[r][x] = "none"
    BY <2>1, PassMakes
  <2> QED BY <2>2 DEF Finished, Seen
<1>3. CASE x = sess[w].step
  <2>1. x # None
    BY <1>1, NameAssumption
  <2> QED BY <1>1, <1>2, <1>3, <2>1 DEF IInv, SessionsSound, SessionSound, Known
<1>4. CASE x # sess[w].step
  <2>1. child[r][x] = "succeeded"
    BY <1>4 DEF Finished, Seen
  <2>2. Resting(r, x)
    BY <1>1, <2>1 DEF IInv, ExecutionsSound, Resting
  <2>3. output[r][x] # None
    BY <1>1, <2>1 DEF IInv, RowsSound
  <2> QED BY <1>1, <1>2, <1>4, <2>1, <2>2, <2>3 DEF Known
<1> QED BY <1>3, <1>4

\* What a pass copies is the output of a succeeded row with the same inputs.
LEMMA PassCopies ==
  ASSUME IInv, NEW w, NEW bad, NEW copied, NEW src,
         PassWrote(w, bad, copied, src), NEW x \in copied
  PROVE  /\ x \in PureSteps /\ src[x] \in Runs
         /\ child[src[x]][x] = "succeeded"
         /\ inputs[src[x]][x] = Frozen(x, Known(w, src))
         /\ Known(w, src)[x] = output[src[x]][x]
         /\ Known(w, src)[x] # None
<1>1. DOMAIN src = copied /\ src[x] \in Runs /\ x \in Steps
  BY PassMakes DEF PassWrote
<1>2. src[x] \in Priors(x, Frozen(x, Known(w, src)))
  BY DEF PassWrote
<1>3. /\ x \in PureSteps /\ child[src[x]][x] = "succeeded"
      /\ inputs[src[x]][x] = Frozen(x, Known(w, src))
  BY <1>2 DEF Priors
<1>4. Known(w, src)[x] = output[src[x]][x]
  BY <1>1 DEF Known
<1>5. output[src[x]][x] # None
  BY <1>1, <1>3 DEF IInv, RowsSound
<1> QED BY <1>1, <1>3, <1>4, <1>5

-----------------------------------------------------------------------------
(* How rows age.                                                             *)

Left    == {"waiting", "succeeded", "cancelled"}
Settled == {"succeeded", "cancelled"}

\* A row that exists keeps existing with the inputs it was created with, one that
\* is at rest changes only by a cancel or a resolve, and an output stays.
RowsAge ==
  /\ \A q \in Runs : parent[q] # "none" => parent'[q] # "none"
  /\ \A q \in Runs, t \in Steps :
       /\ child[q][t] # "none" => child'[q][t] # "none" /\ inputs'[q][t] = inputs[q][t]
       /\ child'[q][t] = "pending" => child[q][t] \in {"none", "pending"}
       /\ child[q][t] = "succeeded" => child'[q][t] \in Settled
       /\ child[q][t] \in Left /\ Resting(q, t) => child'[q][t] \in Left /\ Resting(q, t)'
       /\ child[q][t] \in Settled /\ Resting(q, t) => child'[q][t] \in Settled
       /\ output[q][t] # None => output'[q][t] # None
       /\ output[q][t] # None /\ t \notin GateSteps => output'[q][t] = output[q][t]
       /\ starts[q][t] = 1 => starts'[q][t] = 1

LEMMA Aging ==
  ASSUME IInv, [Next]_vars
  PROVE  RowsAge
<1> USE DEF Left, Settled
<1>0. TypeOK
  BY DEF IInv
<1>1. CASE Quiet
  BY <1>1, QuietEffect DEF IInv, RowsAge, Resting
<1>2. ASSUME NEW w \in Sessions, NEW r \in Runs,
             \/ InsertRun(w, r)
             \/ sess[w].run = r /\ (CancelRunWrite(w) \/ AdvanceFails(w))
      PROVE  RowsAge
  BY <1>2, ParentEffect DEF IInv, RowsAge, Resting
<1>3. ASSUME NEW w \in Sessions, NEW r \in Runs, NEW s \in Steps, ClaimStep(w, r, s)
      PROVE  RowsAge
  BY <1>3, ClaimEffect DEF IInv, RowsAge, Resting, OnlyChild, RowsSound
<1>4. ASSUME NEW w \in Sessions, NEW r \in Runs, NEW s \in Steps, RejectStep(w, r, s)
      PROVE  RowsAge
  BY <1>4, RejectEffect DEF IInv, RowsAge, Resting, OnlyChild
<1>5. ASSUME NEW w \in Sessions, CancelStepWrite(w)
      PROVE  RowsAge
  BY <1>5, CancelStepEffect
  DEF IInv, RowsAge, Resting, OnlyChild, SessionsSound, SessionSound, CancelStepWrite
<1>6. ASSUME NEW w \in Sessions, ResolveGateWrite(w)
      PROVE  RowsAge
  <2> DEFINE r == sess[w].run
             s == sess[w].step
  <2>1. /\ s \in GateSteps
        /\ child[r][s] \in Left
        /\ Resting(r, s)
    BY <1>6 DEF IInv, SessionsSound, SessionSound, ResolveGateWrite, At
  <2>2. PICK v : FinishWrote(w, v)
    BY <1>0, <1>6, FinishEffect
  <2> QED BY <2>1, <2>2, NameAssumption DEF RowsAge, Resting, OnlyChild, FinishWrote
<1>7. ASSUME NEW w \in Sessions, StepSucceeds(w)
      PROVE  RowsAge
  <2> DEFINE r == sess[w].run
             s == sess[w].step
  <2>1. PICK v : FinishWrote(w, v)
    BY <1>0, <1>7, FinishEffect
  <2>2. Executing(w, r, s)
    BY <1>7 DEF StepSucceeds, Executing, At
  <2>3. \A q \in Runs, t \in Steps : q = r /\ t = s =>
          /\ child[q][t] \in {"running", "cancelled"}
          /\ output[q][t] = None
          /\ ~Resting(q, t)
    BY <2>2 DEF IInv, ExecutionsSound, Resting
  <2> QED BY <2>1, <2>3, NameAssumption DEF RowsAge, Resting, OnlyChild, FinishWrote
<1>8. ASSUME NEW w \in Sessions, StepGates(w)
      PROVE  RowsAge
  BY <1>8, GateEffect DEF IInv, RowsAge, Resting, OnlyChild, ExecutionsSound
<1>9. ASSUME NEW w \in Sessions, StepFails(w)
      PROVE  RowsAge
  BY <1>9, FailEffect DEF IInv, RowsAge, Resting, OnlyChild, ExecutionsSound
<1>10. ASSUME NEW w \in Sessions, AdvanceReleases(w)
       PROVE  RowsAge
  <2> DEFINE r == sess[w].run
  <2>1. PICK bad, copied, src : PassWrote(w, bad, copied, src)
    BY <1>0, <1>10, PassEffect
  <2> DEFINE made == Reached(w, bad, copied)
  <2>2. copied \subseteq made /\ r \in Runs /\ At(w, "advance")
    BY <2>1 DEF PassWrote
  <2>3. \A t \in made : t \in Steps /\ child[r][t] = "none"
    BY <2>1, PassMakes
  <2>4. parent[r] # "none" /\ Verdict(w, bad, copied) # "none"
    BY <2>2 DEF IInv, SessionsSound, SessionSound, Verdict, At
  <2>5. \A t \in copied : output[r][t] = None
    BY <2>2, <2>3 DEF IInv, RowsSound
  <2> QED BY <2>1, <2>2, <2>3, <2>4, <2>5 DEF RowsAge, PassWrote, Resting
<1> QED
  BY NextSplit, <1>1, <1>2, <1>3, <1>4, <1>5, <1>6, <1>7, <1>8, <1>9, <1>10, AtWork
  DEF Quiet, IInv, TypeOK, CancelRunWrite, AdvanceFails, At

-----------------------------------------------------------------------------
(* Every step preserves the parts of the invariant.                          *)

\* A step of the system by what it writes; the proofs below split on it.
Effects ==
  \/ Quiet
  \/ \E w \in Sessions, r \in Runs :
       \/ InsertRun(w, r)
       \/ sess[w].run = r /\ (CancelRunWrite(w) \/ AdvanceFails(w))
  \/ \E w \in Sessions, r \in Runs, s \in Steps : ClaimStep(w, r, s) \/ RejectStep(w, r, s)
  \/ \E w \in Sessions :
       \/ CancelStepWrite(w) \/ ResolveGateWrite(w)
       \/ StepSucceeds(w) \/ StepGates(w) \/ StepFails(w)
       \/ \E bad, copied, src : PassWrote(w, bad, copied, src)

LEMMA EverySplit ==
  ASSUME TypeOK, [Next]_vars
  PROVE  Effects
<1>1. ASSUME NEW w \in Sessions, CancelRunWrite(w) \/ AdvanceFails(w)
      PROVE  sess[w].run \in Runs
  BY <1>1, AtWork DEF TypeOK, CancelRunWrite, AdvanceFails, At
<1> QED
  BY NextSplit, PassEffect, <1>1 DEF Quiet, Effects

LEMMA RowsStep ==
  ASSUME IInv, [Next]_vars
  PROVE  RowsSound'
<1>0. TypeOK /\ Effects
  BY EverySplit DEF IInv
<1>1. CASE Quiet
  BY <1>0, <1>1, QuietEffect DEF IInv, RowsSound
<1>2. ASSUME NEW w \in Sessions, NEW r \in Runs,
             \/ InsertRun(w, r)
             \/ sess[w].run = r /\ (CancelRunWrite(w) \/ AdvanceFails(w))
      PROVE  RowsSound'
  BY <1>0, <1>2, ParentEffect DEF IInv, RowsSound
<1>3. ASSUME NEW w \in Sessions, NEW r \in Runs, NEW s \in Steps, ClaimStep(w, r, s)
      PROVE  RowsSound'
  BY <1>0, <1>3, ClaimEffect DEF IInv, RowsSound, OnlyChild
<1>4. ASSUME NEW w \in Sessions, NEW r \in Runs, NEW s \in Steps, RejectStep(w, r, s)
      PROVE  RowsSound'
  BY <1>0, <1>4, RejectEffect DEF IInv, RowsSound, OnlyChild
<1>5. ASSUME NEW w \in Sessions, CancelStepWrite(w)
      PROVE  RowsSound'
  <2>1. /\ At(w, "cancelStep")
        /\ parent[sess[w].run] # "none"
    BY <1>5 DEF IInv, SessionsSound, SessionSound, CancelStepWrite, At
  <2> QED BY <1>0, <1>5, <2>1, CancelStepEffect DEF IInv, RowsSound, OnlyChild
<1>6. ASSUME NEW w \in Sessions, ResolveGateWrite(w) \/ StepSucceeds(w)
      PROVE  RowsSound'
  <2>1. PICK v : FinishWrote(w, v)
    BY <1>0, <1>6, FinishEffect
  <2>2. parent[sess[w].run] # "none"
    BY <1>6 DEF IInv, SessionsSound, SessionSound, ResolveGateWrite, StepSucceeds, At
  <2>3. v # None
    BY <2>1, NameAssumption DEF FinishWrote
  <2> QED BY <2>1, <2>2, <2>3 DEF IInv, RowsSound, OnlyChild, FinishWrote
<1>7. ASSUME NEW w \in Sessions, StepGates(w)
      PROVE  RowsSound'
  <2>1. parent[sess[w].run] # "none"
    BY <1>7 DEF IInv, SessionsSound, SessionSound, StepGates, At
  <2> QED BY <1>0, <1>7, <2>1, GateEffect DEF IInv, RowsSound, OnlyChild
<1>8. ASSUME NEW w \in Sessions, StepFails(w)
      PROVE  RowsSound'
  BY <1>0, <1>8, FailEffect DEF IInv, RowsSound, OnlyChild
<1>9. ASSUME NEW w \in Sessions, NEW bad, NEW copied, NEW src,
             PassWrote(w, bad, copied, src)
      PROVE  RowsSound'
  <2> DEFINE r == sess[w].run
  <2>1. r \in Runs /\ At(w, "advance") /\ copied \subseteq Reached(w, bad, copied)
    BY <1>9 DEF PassWrote
  <2>2. \A t \in Reached(w, bad, copied) : t \in Steps /\ child[r][t] = "none"
    BY <1>9, PassMakes
  <2>3. \A t \in copied : Known(w, src)[t] # None
    BY <1>9, PassCopies
  <2>4. parent[r] # "none" /\ Verdict(w, bad, copied) # "none"
    BY <2>1 DEF IInv, SessionsSound, SessionSound, Verdict, At
  <2> QED BY <1>9, <2>1, <2>2, <2>3, <2>4 DEF IInv, RowsSound, PassWrote
<1> QED
  BY <1>0, <1>1, <1>2, <1>3, <1>4, <1>5, <1>6, <1>7, <1>8, <1>9 DEF Effects

LEMMA ExecutionsStep ==
  ASSUME IInv, [Next]_vars
  PROVE  ExecutionsSound'
<1>0. TypeOK /\ Effects
  BY EverySplit DEF IInv
<1>1. CASE Quiet
  BY <1>0, <1>1, QuietEffect DEF IInv, ExecutionsSound
<1>2. ASSUME NEW w \in Sessions, NEW r \in Runs,
             \/ InsertRun(w, r)
             \/ sess[w].run = r /\ (CancelRunWrite(w) \/ AdvanceFails(w))
      PROVE  ExecutionsSound'
  BY <1>0, <1>2, ParentEffect DEF IInv, ExecutionsSound
<1>3. ASSUME NEW w \in Sessions, NEW r \in Runs, NEW s \in Steps, ClaimStep(w, r, s)
      PROVE  ExecutionsSound'
  <2>1. /\ starts[r][s] = 0
        /\ output[r][s] = None
        /\ \A v \in Sessions : ~Executing(v, r, s)
    BY <1>0, <1>3, ClaimEffect DEF IInv, RowsSound, ExecutionsSound
  <2> QED BY <1>0, <1>3, <2>1, ClaimEffect DEF IInv, ExecutionsSound, OnlyChild
<1>4. ASSUME NEW w \in Sessions, NEW r \in Runs, NEW s \in Steps, RejectStep(w, r, s)
      PROVE  ExecutionsSound'
  BY <1>0, <1>4, RejectEffect DEF IInv, ExecutionsSound, OnlyChild
<1>5. ASSUME NEW w \in Sessions, CancelStepWrite(w)
      PROVE  ExecutionsSound'
  BY <1>0, <1>5, CancelStepEffect DEF IInv, ExecutionsSound, OnlyChild
<1>6. ASSUME NEW w \in Sessions, ResolveGateWrite(w) \/ StepSucceeds(w)
      PROVE  ExecutionsSound'
  <2> DEFINE r == sess[w].run
             s == sess[w].step
  <2>1. PICK v : FinishWrote(w, v)
    BY <1>0, <1>6, FinishEffect
  <2>2. \A u \in Sessions, q \in Runs, t \in Steps :
          Executing(u, q, t) /\ u # w => q # r \/ t # s
    <3>1. CASE ResolveGateWrite(w)
      BY <3>1 DEF IInv, SessionsSound, SessionSound, Resting, ResolveGateWrite, At
    <3>2. CASE StepSucceeds(w)
      BY <3>2 DEF IInv, ExecutionsSound, StepSucceeds, Executing, At
    <3> QED BY <1>6, <3>1, <3>2
  <2> QED BY <2>1, <2>2 DEF IInv, ExecutionsSound, OnlyChild, FinishWrote
<1>7. ASSUME NEW w \in Sessions, StepGates(w)
      PROVE  ExecutionsSound'
  BY <1>0, <1>7, GateEffect DEF IInv, ExecutionsSound, OnlyChild
<1>8. ASSUME NEW w \in Sessions, StepFails(w)
      PROVE  ExecutionsSound'
  BY <1>0, <1>8, FailEffect DEF IInv, ExecutionsSound, OnlyChild
<1>9. ASSUME NEW w \in Sessions, NEW bad, NEW copied, NEW src,
             PassWrote(w, bad, copied, src)
      PROVE  ExecutionsSound'
  <2> DEFINE r == sess[w].run
  <2>1. \A t \in Reached(w, bad, copied) : child[r][t] = "none"
    BY <1>9, PassMakes
  <2>2. \A u \in Sessions, t \in Steps :
          Executing(u, r, t) => t \notin Reached(w, bad, copied)
    BY <1>9, <2>1 DEF IInv, ExecutionsSound, PassWrote
  <2> QED BY <1>9, <2>2 DEF IInv, ExecutionsSound, PassWrote
<1> QED
  BY <1>0, <1>1, <1>2, <1>3, <1>4, <1>5, <1>6, <1>7, <1>8, <1>9 DEF Effects

\* What a session that a step moves turns to.
LEMMA SessionTurns ==
  ASSUME TypeOK, [Next]_vars, NEW v \in Sessions
  PROVE  \/ sess'[v] = sess[v]
         \/ sess'[v] = Idle
         \/ sess'[v].pc = "ring" /\ sess'[v].run = sess[v].run /\ ~At(v, "idle")
         \/ \E r \in Runs :
              \/ InsertRun(v, r) /\ sess'[v] = Busy("advance", r, None, "pending")
              \/ CancelRunRead(v, r) /\ sess'[v] = Busy("cancelRun", r, None, parent[r])
         \/ \E r \in Runs, s \in Steps :
              \/ CancelStepRead(v, r, s) /\ sess'[v] = Busy("cancelStep", r, s, child[r][s])
              \/ ResolveGateRead(v, r, s) /\ sess'[v] = Busy("resolve", r, s, parent[r])
              \/ ClaimStep(v, r, s) /\ sess'[v] = Busy("step", r, s, parent[r])
         \/ \E u : /\ ResolveGateWrite(v) \/ StepSucceeds(v)
                   /\ FinishWrote(v, u)
                   /\ sess'[v] = [sess[v] EXCEPT !.pc = "advance", !.val = u]
<1>1. CASE UNCHANGED vars
  BY <1>1 DEF vars
<1>2. ASSUME NEW w \in Sessions, NEW r \in Runs, InsertRun(w, r) \/ CancelRunRead(w, r)
      PROVE  \/ sess'[v] = sess[v]
             \/ InsertRun(v, r) /\ sess'[v] = Busy("advance", r, None, "pending")
             \/ CancelRunRead(v, r) /\ sess'[v] = Busy("cancelRun", r, None, parent[r])
  BY <1>2 DEF TypeOK, InsertRun, CancelRunRead, Becomes
<1>3. ASSUME NEW w \in Sessions, NEW r \in Runs, NEW s \in Steps,
             CancelStepRead(w, r, s) \/ ResolveGateRead(w, r, s) \/ ClaimStep(w, r, s)
      PROVE  \/ sess'[v] = sess[v]
             \/ CancelStepRead(v, r, s) /\ sess'[v] = Busy("cancelStep", r, s, child[r][s])
             \/ ResolveGateRead(v, r, s) /\ sess'[v] = Busy("resolve", r, s, parent[r])
             \/ ClaimStep(v, r, s) /\ sess'[v] = Busy("step", r, s, parent[r])
  <2>1. CASE CancelStepRead(w, r, s)
    BY <2>1 DEF TypeOK, CancelStepRead, Becomes
  <2>2. CASE ResolveGateRead(w, r, s)
    BY <2>2 DEF TypeOK, ResolveGateRead, Becomes
  <2>3. CASE ClaimStep(w, r, s)
    BY <2>3 DEF TypeOK, ClaimStep, Becomes
  <2> QED BY <1>3, <2>1, <2>2, <2>3
<1>4. ASSUME NEW w \in Sessions, NEW r \in Runs, NEW s \in Steps,
             RejectStep(w, r, s) \/ DropDoorbell(w, r, s)
      PROVE  sess'[v] = sess[v]
  BY <1>4 DEF RejectStep, DropDoorbell
<1>5. ASSUME NEW w \in Sessions,
             \/ CancelRunWrite(w) \/ CancelStepWrite(w) \/ StepGates(w) \/ StepFails(w)
             \/ AdvanceReturns(w) \/ AdvanceFails(w) \/ EnqueueFails(w) \/ Breaks(w)
      PROVE  sess'[v] = sess[v] \/ sess'[v] = Idle
  BY <1>5 DEF TypeOK, Becomes, CancelRunWrite, CancelStepWrite, StepGates, StepFails,
     AdvanceReturns, AdvanceFails, EnqueueFails, Breaks
<1>6. ASSUME NEW w \in Sessions, ResolveGateWrite(w) \/ StepSucceeds(w)
      PROVE  \/ sess'[v] = sess[v]
             \/ \E u : /\ ResolveGateWrite(v) \/ StepSucceeds(v)
                       /\ FinishWrote(v, u)
                       /\ sess'[v] = [sess[v] EXCEPT !.pc = "advance", !.val = u]
  <2>1. PICK u : FinishWrote(w, u)
    BY <1>6, FinishEffect
  <2>2. sess'[v] = IF v = w THEN [sess[w] EXCEPT !.pc = "advance", !.val = u] ELSE sess[v]
    BY <2>1 DEF FinishWrote
  <2> QED BY <1>6, <2>1, <2>2
<1>7. ASSUME NEW w \in Sessions, AdvanceReleases(w)
      PROVE  \/ sess'[v] = sess[v]
             \/ sess'[v] = Idle
             \/ sess'[v].pc = "ring" /\ sess'[v].run = sess[v].run /\ ~At(v, "idle")
  <2>1. PICK bad, copied, src : PassWrote(w, bad, copied, src)
    BY <1>7, PassEffect
  <2>2. PICK state \in Job \cup {Idle} :
          /\ state.pc \in {"idle", "ring"}
          /\ state.pc # "idle" => state.run = sess[w].run
          /\ \A u \in Sessions : sess'[u] = IF u = w THEN state ELSE sess[u]
    BY <2>1 DEF PassWrote
  <2>3. state = Idle \/ state.pc = "ring"
    BY <2>2 DEF Job, Phase
  <2> QED BY <2>1, <2>2, <2>3 DEF PassWrote, At
<1>8. ASSUME NEW w \in Sessions, NEW s \in Steps, EnqueueStep(w, s)
      PROVE  \/ sess'[v] = sess[v]
             \/ sess'[v] = Idle
             \/ sess'[v].pc = "ring" /\ sess'[v].run = sess[v].run /\ ~At(v, "idle")
  <2>1. sess[w] \in Job /\ At(w, "ring")
    BY <1>8, AtWork DEF TypeOK, EnqueueStep, At
  <2>2. /\ [sess[w] EXCEPT !.ring = @ \ {s}].pc = "ring"
        /\ [sess[w] EXCEPT !.ring = @ \ {s}].run = sess[w].run
    BY <2>1 DEF Job, At
  <2> QED BY <1>8, <2>1, <2>2 DEF TypeOK, EnqueueStep, Becomes, At
<1>9. ASSUME NEW r \in Runs, NEW s \in Steps, RecoverOrphan(r, s) \/ LoseDoorbell(r, s)
      PROVE  sess'[v] = sess[v]
  BY <1>9 DEF RecoverOrphan, LoseDoorbell
<1> QED
  BY NextSplit, <1>1, <1>2, <1>3, <1>4, <1>5, <1>6, <1>7, <1>8, <1>9

LEMMA SessionsStep ==
  ASSUME IInv, [Next]_vars
  PROVE  SessionsSound'
<1> SUFFICES ASSUME NEW v \in Sessions PROVE SessionSound(v)'
  BY DEF SessionsSound
<1>0. TypeOK /\ TypeOK' /\ RowsAge /\ SessionSound(v)
  BY TypeStep, Aging DEF IInv, SessionsSound
<1>1. CASE sess'[v] = sess[v]
  \* A session that a step leaves alone keeps its rows as it needs them.
  <2>1. CASE At(v, "idle")
    BY <1>1, <2>1 DEF SessionSound, At
  <2>2. ASSUME NEW r \in Runs, NEW s \in Steps \cup {None}, ~At(v, "idle"),
               sess[v].run = r, sess[v].step = s
        PROVE  SessionSound(v)'
    <3>1. sess'[v].run = r /\ sess'[v].step = s /\ sess'[v].pc = sess[v].pc
          /\ sess'[v].val = sess[v].val
      BY <1>1, <2>2
    <3>2. parent'[r] # "none"
      BY <1>0, <2>2 DEF SessionSound, RowsAge
    <3>3. sess[v].pc \in {"step", "cancelStep", "resolve"} => s \in Steps
      BY <1>0, <2>2 DEF SessionSound
    <3>4. At(v, "cancelStep") => child'[r][s] # "none"
      BY <1>0, <2>2, <3>3 DEF SessionSound, RowsAge, At
    <3>5. At(v, "resolve") =>
            s \in GateSteps /\ child'[r][s] \in Left /\ Resting(r, s)'
      BY <1>0, <2>2, <3>3 DEF SessionSound, RowsAge, At, Left
    <3>6. At(v, "advance") /\ s # None =>
            /\ child'[r][s] \in Settled
            /\ Resting(r, s)'
            /\ output'[r][s] # None
            /\ s \notin GateSteps => sess[v].val = output'[r][s]
      BY <1>0, <2>2 DEF SessionSound, RowsAge, Left, Settled
    <3> QED
      BY <3>1, <3>2, <3>3, <3>4, <3>5, <3>6 DEF SessionSound, At, Left, Settled
  <2> QED
    BY <1>0, <2>1, <2>2, AtWork DEF TypeOK, Job
<1>2. CASE sess'[v] = Idle
  BY <1>2 DEF SessionSound, Idle, Busy, At
<1>3. CASE sess'[v].pc = "ring" /\ sess'[v].run = sess[v].run /\ ~At(v, "idle")
  <2>1. sess[v].run \in Runs /\ parent[sess[v].run] # "none"
    BY <1>0, <1>3, AtWork DEF TypeOK, SessionSound
  <2>2. parent'[sess'[v].run] # "none"
    BY <1>0, <1>3, <2>1 DEF RowsAge
  <2> QED BY <1>3, <2>2 DEF SessionSound, At
<1>4. ASSUME NEW r \in Runs, InsertRun(v, r), sess'[v] = Busy("advance", r, None, "pending")
      PROVE  SessionSound(v)'
  <2>1. parent'[r] = "pending"
    BY <1>0, <1>4 DEF TypeOK, InsertRun, SetParent
  <2> QED BY <1>4, <2>1 DEF SessionSound, At, Busy
<1>5. ASSUME NEW r \in Runs, CancelRunRead(v, r),
             sess'[v] = Busy("cancelRun", r, None, parent[r])
      PROVE  SessionSound(v)'
  BY <1>5 DEF CancelRunRead, SessionSound, At, Busy
<1>6. ASSUME NEW r \in Runs, NEW s \in Steps, CancelStepRead(v, r, s),
             sess'[v] = Busy("cancelStep", r, s, child[r][s])
      PROVE  SessionSound(v)'
  <2>1. parent[r] # "none" /\ child[r][s] # "none"
    BY <1>6 DEF IInv, RowsSound, CancelStepRead
  <2> QED BY <1>6, <2>1 DEF CancelStepRead, SessionSound, At, Busy
<1>7. ASSUME NEW r \in Runs, NEW s \in Steps, ResolveGateRead(v, r, s),
             sess'[v] = Busy("resolve", r, s, parent[r])
      PROVE  SessionSound(v)'
  <2>1. /\ child[r][s] = "waiting" /\ parent[r] # "none" /\ s \in GateSteps
        /\ Resting(r, s)
    BY <1>7 DEF IInv, RowsSound, ExecutionsSound, Resting, ResolveGateRead
  <2>2. parent'[r] # "none" /\ child'[r][s] \in Left /\ Resting(r, s)'
    BY <1>0, <2>1 DEF RowsAge, Left
  <2> QED BY <1>7, <2>1, <2>2 DEF SessionSound, At, Busy, Left
<1>8. ASSUME NEW r \in Runs, NEW s \in Steps, ClaimStep(v, r, s),
             sess'[v] = Busy("step", r, s, parent[r])
      PROVE  SessionSound(v)'
  <2>1. parent[r] # "none"
    BY <1>8 DEF IInv, RowsSound, ClaimStep, Claimable
  <2> QED BY <1>0, <1>8, <2>1 DEF RowsAge, SessionSound, At, Busy
<1>9. ASSUME NEW u, ResolveGateWrite(v) \/ StepSucceeds(v), FinishWrote(v, u),
             sess'[v] = [sess[v] EXCEPT !.pc = "advance", !.val = u]
      PROVE  SessionSound(v)'
  <2> DEFINE r == sess[v].run
             s == sess[v].step
  <2>1. r \in Runs /\ s \in Steps /\ parent[r] # "none"
    BY <1>0, <1>9, AtWork DEF TypeOK, SessionSound, ResolveGateWrite, StepSucceeds, At
  <2>2. /\ sess'[v].pc = "advance" /\ sess'[v].run = r /\ sess'[v].step = s
        /\ sess'[v].val = u
    BY <1>9 DEF FinishWrote, Job
  <2>3. child'[r][s] = "succeeded" /\ output'[r][s] = u
    BY <1>9, <2>1 DEF FinishWrote, OnlyChild
  <2>4. u # None
    BY <1>9, NameAssumption DEF FinishWrote
  <2>5. Resting(r, s)'
    <3>1. \A w \in Sessions : w # v => ~Executing(w, r, s)
      <4>1. CASE ResolveGateWrite(v)
        BY <1>0, <4>1 DEF SessionSound, Resting, ResolveGateWrite, At
      <4>2. CASE StepSucceeds(v)
        BY <2>1, <4>2 DEF IInv, ExecutionsSound, StepSucceeds, Executing, At
      <4> QED BY <1>9, <4>1, <4>2
    <3>2. \A w \in Sessions : Executing(w, r, s)' <=> w # v /\ Executing(w, r, s)
      BY <1>9, <2>1 DEF FinishWrote
    <3> QED BY <3>1, <3>2 DEF Resting
  <2>6. parent'[r] # "none"
    BY <1>0, <2>1 DEF RowsAge
  <2> QED BY <2>1, <2>2, <2>3, <2>4, <2>5, <2>6 DEF SessionSound, At, Resting, Executing
<1> QED
  BY <1>0, <1>1, <1>2, <1>3, <1>4, <1>5, <1>6, <1>7, <1>8, <1>9, SessionTurns

\* A parent becomes succeeded only by a pass that sees every step finished.
LEMMA VerdictSource ==
  ASSUME IInv, [Next]_vars, NEW r \in Runs, parent'[r] = "succeeded"
  PROVE  \/ parent[r] = "succeeded"
         \/ \E w \in Sessions : \E bad, copied, src :
              /\ PassWrote(w, bad, copied, src) /\ sess[w].run = r
              /\ Finished(w) \cup copied = Steps
<1>0. TypeOK /\ Effects
  BY EverySplit DEF IInv
<1>1. ASSUME NEW w \in Sessions, NEW bad, NEW copied, NEW src,
             PassWrote(w, bad, copied, src)
      PROVE  \/ parent[r] = "succeeded"
             \/ sess[w].run = r /\ Finished(w) \cup copied = Steps
  BY <1>1 DEF PassWrote, Verdict
<1>2. CASE Quiet
  BY <1>0, <1>2, QuietEffect
<1>3. ASSUME NEW w \in Sessions, ResolveGateWrite(w) \/ StepSucceeds(w)
      PROVE  parent'[r] = parent[r]
  BY <1>3 DEF ResolveGateWrite, StepSucceeds
<1> QED
  BY <1>0, <1>1, <1>2, <1>3, ParentEffect, ClaimEffect, RejectEffect,
     CancelStepEffect, GateEffect, FailEffect DEF Effects

LEMMA SucceededStep ==
  ASSUME IInv, [Next]_vars
  PROVE  SucceededMeansComplete'
<1>0. RowsAge
  BY Aging
<1> SUFFICES ASSUME NEW r \in Runs, parent'[r] = "succeeded", NEW s \in Steps
             PROVE  child'[r][s] \in Settled /\ Resting(r, s)'
  BY DEF SucceededMeansComplete, Settled, Resting
<1>1. CASE parent[r] = "succeeded"
  <2>1. child[r][s] \in Settled /\ Resting(r, s)
    BY <1>1 DEF IInv, SucceededMeansComplete, Settled, Resting
  <2> QED BY <1>0, <2>1 DEF RowsAge, Settled, Left
<1>2. ASSUME NEW w \in Sessions, NEW bad, NEW copied, NEW src,
             PassWrote(w, bad, copied, src), sess[w].run = r,
             Finished(w) \cup copied = Steps
      PROVE  child'[r][s] \in Settled /\ Resting(r, s)'
  <2>1. CASE s \in Finished(w)
    <3>1. child[r][s] \in Settled /\ Resting(r, s)
      BY <1>2, <2>1, PassReads DEF Settled
    <3> QED BY <1>0, <3>1 DEF RowsAge, Settled, Left
  <2>2. CASE s \in copied
    <3>1. child[r][s] = "none"
      BY <1>2, <2>2, PassMakes DEF PassWrote
    <3>2. Resting(r, s)
      BY <3>1 DEF IInv, ExecutionsSound, Resting
    <3> QED BY <1>2, <2>2, <3>2 DEF PassWrote, Settled, Resting
  <2> QED BY <1>2, <2>1, <2>2
<1> QED BY <1>1, <1>2, VerdictSource

LEMMA FailureStep ==
  ASSUME IInv, [Next]_vars
  PROVE  FailureReported'
<1>0. TypeOK /\ Effects
  BY EverySplit DEF IInv
<1>1. CASE Quiet
  BY <1>0, <1>1, QuietEffect DEF IInv, FailureReported
<1>2. ASSUME NEW w \in Sessions, NEW r \in Runs,
             \/ InsertRun(w, r)
             \/ sess[w].run = r /\ (CancelRunWrite(w) \/ AdvanceFails(w))
      PROVE  FailureReported'
  BY <1>0, <1>2, ParentEffect DEF IInv, RowsSound, FailureReported
<1>3. ASSUME NEW w \in Sessions, NEW r \in Runs, NEW s \in Steps, ClaimStep(w, r, s)
      PROVE  FailureReported'
  BY <1>0, <1>3, ClaimEffect DEF IInv, FailureReported, OnlyChild
<1>4. ASSUME NEW w \in Sessions, NEW r \in Runs, NEW s \in Steps, RejectStep(w, r, s)
      PROVE  FailureReported'
  BY <1>0, <1>4, RejectEffect DEF IInv, FailureReported, OnlyChild
<1>5. ASSUME NEW w \in Sessions, CancelStepWrite(w)
      PROVE  FailureReported'
  BY <1>0, <1>5, CancelStepEffect DEF IInv, FailureReported, OnlyChild
<1>6. ASSUME NEW w \in Sessions, ResolveGateWrite(w) \/ StepSucceeds(w)
      PROVE  FailureReported'
  <2>1. PICK v : FinishWrote(w, v)
    BY <1>0, <1>6, FinishEffect
  <2> QED BY <2>1 DEF IInv, FailureReported, OnlyChild, FinishWrote
<1>7. ASSUME NEW w \in Sessions, StepGates(w)
      PROVE  FailureReported'
  BY <1>0, <1>7, GateEffect DEF IInv, FailureReported, OnlyChild
<1>8. ASSUME NEW w \in Sessions, StepFails(w)
      PROVE  FailureReported'
  BY <1>0, <1>8, FailEffect DEF IInv, FailureReported, OnlyChild
<1>9. ASSUME NEW w \in Sessions, NEW bad, NEW copied, NEW src,
             PassWrote(w, bad, copied, src)
      PROVE  FailureReported'
  <2> DEFINE r == sess[w].run
  <2>1. r \in Runs /\ ~Sees(w, "failed")
    BY <1>9 DEF PassWrote
  <2>2. \A s \in Steps : child[r][s] # "failed"
    <3> SUFFICES ASSUME NEW s \in Steps, child[r][s] = "failed" PROVE FALSE
      OBVIOUS
    <3>1. s = sess[w].step
      BY <2>1 DEF Sees, Seen
    <3>2. s \in Finished(w)
      BY <3>1 DEF Finished, Seen
    <3> QED BY <1>9, <3>2, PassReads
  <2> QED BY <1>9, <2>1, <2>2 DEF IInv, FailureReported, PassWrote
<1> QED
  BY <1>0, <1>1, <1>2, <1>3, <1>4, <1>5, <1>6, <1>7, <1>8, <1>9 DEF Effects

\* A row that exists was there before the step, or a pass has just made it.
LEMMA RowSource ==
  ASSUME IInv, [Next]_vars, NEW r \in Runs, NEW s \in Steps, child'[r][s] # "none"
  PROVE  \/ child[r][s] # "none"
         \/ \E w \in Sessions : \E bad, copied, src :
              /\ PassWrote(w, bad, copied, src) /\ sess[w].run = r
              /\ s \in Reached(w, bad, copied)
<1>0. TypeOK /\ Effects
  BY EverySplit DEF IInv
<1>1. ASSUME NEW w \in Sessions, NEW bad, NEW copied, NEW src,
             PassWrote(w, bad, copied, src)
      PROVE  \/ child[r][s] # "none"
             \/ sess[w].run = r /\ s \in Reached(w, bad, copied)
  BY <1>1 DEF PassWrote
<1>2. CASE Quiet
  BY <1>0, <1>2, QuietEffect
<1>3. ASSUME NEW w \in Sessions, ResolveGateWrite(w) \/ StepSucceeds(w)
      PROVE  child[r][s] # "none"
  <2> DEFINE q == sess[w].run
             t == sess[w].step
  <2>1. PICK v : FinishWrote(w, v)
    BY <1>0, <1>3, FinishEffect
  <2>2. child[q][t] # "none" \/ q \notin Runs \/ t \notin Steps
    <3>1. CASE ResolveGateWrite(w)
      BY <3>1 DEF IInv, SessionsSound, SessionSound, ResolveGateWrite, At
    <3>2. CASE StepSucceeds(w)
      BY <3>2 DEF IInv, ExecutionsSound, StepSucceeds, Executing, At
    <3> QED BY <1>3, <3>1, <3>2
  <2> QED BY <2>1, <2>2 DEF FinishWrote, OnlyChild
<1>4. ASSUME NEW w \in Sessions, CancelStepWrite(w)
      PROVE  child[r][s] # "none"
  <2>1. child[sess[w].run][sess[w].step] # "none"
    BY <1>4 DEF IInv, SessionsSound, SessionSound, CancelStepWrite
  <2> QED BY <1>0, <1>4, <2>1, CancelStepEffect DEF OnlyChild
<1>5. ASSUME NEW w \in Sessions, StepGates(w) \/ StepFails(w)
      PROVE  child[r][s] # "none"
  BY <1>0, <1>5, GateEffect, FailEffect DEF IInv, ExecutionsSound, OnlyChild
<1> QED
  BY <1>0, <1>1, <1>2, <1>3, <1>4, <1>5, ParentEffect, ClaimEffect, RejectEffect
  DEF Effects, OnlyChild

LEMMA InputsStep ==
  ASSUME IInv, [Next]_vars
  PROVE  InputsAreFinal'
<1>0. RowsAge
  BY Aging
<1> SUFFICES ASSUME NEW r \in Runs, NEW s \in Steps, child'[r][s] # "none",
                    NEW x \in Refs[s] \ GateSteps
             PROVE  output'[r][x] # None /\ inputs'[r][s][x] = output'[r][x]
  BY DEF InputsAreFinal
<1>1. x \in Steps
  BY DagAssumption
<1>2. CASE child[r][s] # "none"
  <2>1. output[r][x] # None /\ inputs[r][s][x] = output[r][x]
    BY <1>2 DEF IInv, InputsAreFinal
  <2> QED BY <1>0, <1>1, <1>2, <2>1 DEF RowsAge
<1>3. ASSUME NEW w \in Sessions, NEW bad, NEW copied, NEW src,
             PassWrote(w, bad, copied, src), sess[w].run = r,
             s \in Reached(w, bad, copied)
      PROVE  output'[r][x] # None /\ inputs'[r][s][x] = output'[r][x]
  <2>1. x \in Finished(w) \cup copied
    BY <1>3, PassMakes
  <2>2. inputs'[r][s][x] = Known(w, src)[x]
    BY <1>1, <1>3 DEF PassWrote, Frozen
  <2>3. CASE x \in copied
    BY <1>1, <1>3, <2>2, <2>3, PassCopies DEF PassWrote
  <2>4. CASE x \in Finished(w)
    <3>1. x \notin copied /\ output[r][x] # None /\ Known(w, src)[x] = output[r][x]
      BY <1>3, <2>4, PassReads
    <3> QED BY <1>1, <1>3, <2>2, <3>1 DEF PassWrote
  <2> QED BY <2>1, <2>3, <2>4
<1> QED BY <1>2, <1>3, RowSource

\* The output of an ungated step was there before the session's step, is its own
\* run's, written when its only execution ends, or is copied by a pass.
LEMMA OutputSource ==
  ASSUME IInv, [Next]_vars, NEW r \in Runs, NEW s \in Steps \ GateSteps
  PROVE  \/ output'[r][s] = output[r][s]
         \/ output'[r][s] = r /\ starts[r][s] = 1
         \/ \E w \in Sessions : \E bad, copied, src :
              /\ PassWrote(w, bad, copied, src) /\ sess[w].run = r
              /\ s \in copied
<1>0. TypeOK /\ Effects
  BY EverySplit DEF IInv
<1>1. ASSUME NEW w \in Sessions, NEW bad, NEW copied, NEW src,
             PassWrote(w, bad, copied, src)
      PROVE  output'[r][s] = output[r][s] \/ (sess[w].run = r /\ s \in copied)
  <2>1. output'[r][s] = IF r = sess[w].run /\ s \in copied THEN Known(w, src)[s]
                        ELSE output[r][s]
    BY <1>1 DEF PassWrote
  <2> QED BY <2>1
<1>2. CASE Quiet
  BY <1>0, <1>2, QuietEffect
<1>3. ASSUME NEW w \in Sessions, StepSucceeds(w)
      PROVE  output'[r][s] = output[r][s] \/ (output'[r][s] = r /\ starts[r][s] = 1)
  <2>1. PICK v : FinishWrote(w, v) /\ v = sess[w].run
    BY <1>0, <1>3, FinishEffect
  <2>2. Executing(w, sess[w].run, sess[w].step)
    BY <1>3 DEF StepSucceeds, Executing, At
  <2>3. output'[r][s] = IF r = sess[w].run /\ s = sess[w].step THEN sess[w].run
                        ELSE output[r][s]
    BY <2>1 DEF FinishWrote
  <2>4. r = sess[w].run /\ s = sess[w].step => starts[r][s] = 1
    BY <2>2 DEF IInv, ExecutionsSound
  <2> QED BY <2>3, <2>4
<1>4. ASSUME NEW w \in Sessions, ResolveGateWrite(w)
      PROVE  output'[r][s] = output[r][s]
  <2>1. PICK v : FinishWrote(w, v)
    BY <1>0, <1>4, FinishEffect
  <2>2. sess[w].step \in GateSteps
    BY <1>4 DEF IInv, SessionsSound, SessionSound, ResolveGateWrite, At
  <2> QED BY <2>1, <2>2 DEF FinishWrote
<1> QED
  BY <1>0, <1>1, <1>2, <1>3, <1>4, ParentEffect, ClaimEffect, RejectEffect,
     CancelStepEffect, GateEffect, FailEffect DEF Effects

LEMMA OutputsStep ==
  ASSUME IInv, [Next]_vars
  PROVE  OutputsAreEarned'
<1>0. RowsAge
  BY Aging
<1>1. \A q \in Runs, t \in Steps : starts[q][t] = 1 =>
        starts'[q][t] = 1 /\ inputs'[q][t] = inputs[q][t]
  BY <1>0 DEF IInv, RowsSound, RowsAge
<1> SUFFICES ASSUME NEW r \in Runs, NEW s \in Steps \ GateSteps, output'[r][s] # None
             PROVE  /\ output'[r][s] \in Runs
                    /\ starts'[output'[r][s]][s] = 1
                    /\ inputs'[output'[r][s]][s] = inputs'[r][s]
  BY DEF OutputsAreEarned
<1>2. CASE output'[r][s] = output[r][s]
  <2> DEFINE q == output[r][s]
  <2>1. q \in Runs /\ starts[q][s] = 1 /\ inputs[q][s] = inputs[r][s]
    BY <1>2 DEF IInv, OutputsAreEarned
  <2>2. child[r][s] # "none"
    BY <1>2 DEF IInv, RowsSound
  <2>3. inputs'[r][s] = inputs[r][s]
    BY <1>0, <2>2 DEF RowsAge
  <2> QED BY <1>1, <1>2, <2>1, <2>3
<1>3. CASE output'[r][s] = r /\ starts[r][s] = 1
  BY <1>1, <1>3
<1>4. ASSUME NEW w \in Sessions, NEW bad, NEW copied, NEW src,
             PassWrote(w, bad, copied, src), sess[w].run = r, s \in copied
      PROVE  /\ output'[r][s] \in Runs
             /\ starts'[output'[r][s]][s] = 1
             /\ inputs'[output'[r][s]][s] = inputs'[r][s]
  <2> DEFINE q == output[src[s]][s]
  <2>1. /\ src[s] \in Runs
        /\ inputs[src[s]][s] = Frozen(s, Known(w, src))
        /\ Known(w, src)[s] = q
        /\ q # None
    BY <1>4, PassCopies
  <2>2. q \in Runs /\ starts[q][s] = 1 /\ inputs[q][s] = inputs[src[s]][s]
    BY <2>1 DEF IInv, OutputsAreEarned
  <2>3. output'[r][s] = q /\ inputs'[r][s] = Frozen(s, Known(w, src))
    BY <1>4, <2>1 DEF PassWrote
  <2> QED BY <1>1, <2>1, <2>2, <2>3
<1> QED BY <1>2, <1>3, <1>4, OutputSource

-----------------------------------------------------------------------------
(* The theorems.                                                             *)

LEMMA InvariantInit == Init => IInv
<1> SUFFICES ASSUME Init PROVE IInv
  OBVIOUS
<1>1. TypeOK
  BY DEF TypeOK, Init, Status, Values
<1>2. \A w \in Sessions : sess[w].pc = "idle"
  BY DEF Init, Idle, Busy
<1> QED
  BY <1>1, <1>2 DEF IInv, Init, RowsSound, ExecutionsSound, SessionsSound, SessionSound,
     SucceededMeansComplete, FailureReported, InputsAreFinal, OutputsAreEarned,
     Executing, At

THEOREM Invariance == Spec => []IInv
<1>1. Init => IInv
  BY InvariantInit
<1>2. IInv /\ [Next]_vars => IInv'
  BY TypeStep, RowsStep, ExecutionsStep, SessionsStep, SucceededStep, FailureStep,
     InputsStep, OutputsStep DEF IInv
<1> QED
  BY <1>1, <1>2, PTL DEF Spec

\* A child row is run at most once, whatever becomes of its doorbells.
THEOREM StepsRunAtMostOnce == Spec => []ExecutionIsSound
<1>1. IInv => ExecutionIsSound
  BY DEF IInv, RowsSound, AtMostOnce, ExecutionIsSound
<1> QED BY <1>1, Invariance, PTL

\* A run reported succeeded has nothing left to do.
THEOREM SuccessIsComplete == Spec => []SucceededMeansComplete
<1>1. IInv => SucceededMeansComplete
  BY DEF IInv
<1> QED BY <1>1, Invariance, PTL

\* A failed step is never hidden by its run's verdict.
THEOREM FailuresAreReported == Spec => []FailureReported
<1>1. IInv => FailureReported
  BY DEF IInv
<1> QED BY <1>1, Invariance, PTL

\* The inputs of a row are the final outputs of the ungated steps it reads.
THEOREM FrozenInputsAreFinal == Spec => []InputsAreFinal
<1>1. IInv => InputsAreFinal
  BY DEF IInv
<1> QED BY <1>1, Invariance, PTL

\* Every reused output goes back to one execution on the same inputs.
THEOREM ReuseIsSound == Spec => []OutputsAreEarned
<1>1. IInv => OutputsAreEarned
  BY DEF IInv
<1> QED BY <1>1, Invariance, PTL

\* No row is created before every predecessor has finished with an output.
THEOREM RowsAreCreatedInOrder == Spec => CreatedInOrder
<1>1. ASSUME IInv, [Next]_vars, NEW r \in Runs, NEW s \in Steps,
             child[r][s] = "none", child'[r][s] # "none", NEW p \in Pred[s]
      PROVE  output'[r][p] # None
  <2>1. p \in Steps
    BY DagAssumption
  <2>2. PICK w \in Sessions : \E bad, copied, src :
          /\ PassWrote(w, bad, copied, src) /\ sess[w].run = r
          /\ s \in Reached(w, bad, copied)
    BY <1>1, RowSource
  <2>3. PICK bad, copied, src :
          /\ PassWrote(w, bad, copied, src) /\ sess[w].run = r
          /\ s \in Reached(w, bad, copied)
    BY <2>2
  <2>4. p \in Finished(w) \cup copied
    BY <2>3, PassMakes
  <2>5. CASE p \in Finished(w)
    <3>1. output[r][p] # None
      BY <1>1, <2>3, <2>5, PassReads
    <3> QED BY <1>1, <2>1, <3>1, Aging DEF RowsAge
  <2>6. CASE p \in copied
    <3>1. Known(w, src)[p] # None
      BY <1>1, <2>3, <2>6, PassCopies
    <3> QED BY <2>1, <2>3, <2>6, <3>1 DEF PassWrote
  <2> QED BY <2>4, <2>5, <2>6
<1>2. IInv /\ [Next]_vars =>
        \A r \in Runs, s \in Steps :
          child[r][s] = "none" /\ child'[r][s] # "none" =>
            \A p \in Pred[s] : output'[r][p] # None
  BY <1>1
<1> QED
  BY <1>2, Invariance, PTL DEF Spec, CreatedInOrder

\* A child row never restarts, and leaves succeeded only by a cancellation.
THEOREM RowsNeverRestart == Spec => ChildNeverRestarts
<1>1. IInv /\ [Next]_vars =>
        \A r \in Runs, s \in Steps :
          /\ child[r][s] # "none" => child'[r][s] # "none"
          /\ child'[r][s] = "pending" => child[r][s] \in {"none", "pending"}
          /\ child[r][s] = "succeeded" => child'[r][s] \in {"succeeded", "cancelled"}
  BY Aging DEF RowsAge, Settled
<1> QED
  BY <1>1, Invariance, PTL DEF Spec, ChildNeverRestarts

-----------------------------------------------------------------------------
(* RunEngine implements DagExecution.                                        *)

\* What was claimed is counted, and a row has no output before it succeeded: so a row
\* that a client cancelled still shows how far its step had come.
ClaimsCounted ==
  /\ \A r \in Runs, s \in Steps :
       /\ child[r][s] \in {"running", "waiting"} => starts[r][s] # 0
       /\ child[r][s] \in {"running", "waiting", "failed"} => output[r][s] = None
  /\ \A w \in Sessions : At(w, "resolve") => starts[sess[w].run][sess[w].step] # 0

LEMMA ClaimsCountedRows ==
  ASSUME IInv, ClaimsCounted, [Next]_vars
  PROVE  \A r \in Runs, s \in Steps :
           /\ child'[r][s] \in {"running", "waiting"} => starts'[r][s] # 0
           /\ child'[r][s] \in {"running", "waiting", "failed"} => output'[r][s] = None
<1> DEFINE Goal == \A r \in Runs, s \in Steps :
                     /\ child'[r][s] \in {"running", "waiting"} => starts'[r][s] # 0
                     /\ child'[r][s] \in {"running", "waiting", "failed"} => output'[r][s] = None
<1>0. TypeOK /\ Effects
  BY EverySplit DEF IInv
<1>1. CASE Quiet
  BY <1>0, <1>1, QuietEffect DEF ClaimsCounted
<1>2. ASSUME NEW w \in Sessions, NEW r \in Runs,
             \/ InsertRun(w, r)
             \/ sess[w].run = r /\ (CancelRunWrite(w) \/ AdvanceFails(w))
      PROVE  Goal
  BY <1>0, <1>2, ParentEffect DEF ClaimsCounted
<1>3. ASSUME NEW w \in Sessions, NEW r \in Runs, NEW s \in Steps, ClaimStep(w, r, s)
      PROVE  Goal
  <2>1. starts[r][s] = 0 /\ output[r][s] = None
    BY <1>0, <1>3, ClaimEffect DEF IInv, RowsSound
  <2> QED BY <1>0, <1>3, <2>1, ClaimEffect DEF ClaimsCounted, OnlyChild
<1>4. ASSUME NEW w \in Sessions, NEW r \in Runs, NEW s \in Steps, RejectStep(w, r, s)
      PROVE  Goal
  <2>1. output[r][s] = None
    BY <1>0, <1>4, RejectEffect DEF IInv, RowsSound
  <2> QED BY <1>0, <1>4, <2>1, RejectEffect DEF ClaimsCounted, OnlyChild
<1>5. ASSUME NEW w \in Sessions, CancelStepWrite(w)
      PROVE  Goal
  BY <1>0, <1>5, CancelStepEffect DEF ClaimsCounted, OnlyChild
<1>6. ASSUME NEW w \in Sessions, ResolveGateWrite(w) \/ StepSucceeds(w)
      PROVE  Goal
  <2>1. PICK v : FinishWrote(w, v)
    BY <1>0, <1>6, FinishEffect
  <2> QED BY <2>1 DEF ClaimsCounted, OnlyChild, FinishWrote
<1>7. ASSUME NEW w \in Sessions, StepGates(w) \/ StepFails(w)
      PROVE  Goal
  <2>1. PICK r, s, st :
          /\ Executing(w, r, s) /\ r \in Runs /\ OnlyChild(r, s, st)
          /\ UNCHANGED <<output, starts>>
    BY <1>0, <1>7, GateEffect, FailEffect
  <2>2. s \in Steps => starts[r][s] = 1 /\ output[r][s] = None
    BY <1>7, <2>1 DEF IInv, ExecutionsSound
  <2> QED BY <2>1, <2>2 DEF ClaimsCounted, OnlyChild
<1>8. ASSUME NEW w \in Sessions, NEW bad, NEW copied, NEW src,
             PassWrote(w, bad, copied, src)
      PROVE  Goal
  BY <1>8 DEF ClaimsCounted, PassWrote
<1> QED
  BY <1>0, <1>1, <1>2, <1>3, <1>4, <1>5, <1>6, <1>7, <1>8 DEF Effects

LEMMA ClaimsCountedStep ==
  ASSUME IInv, ClaimsCounted, [Next]_vars
  PROVE  ClaimsCounted'
<1>1. /\ \A r \in Runs, s \in Steps : starts[r][s] # 0 => starts'[r][s] # 0
  <2> SUFFICES ASSUME NEW r \in Runs, NEW s \in Steps, starts[r][s] # 0
               PROVE  starts'[r][s] # 0
    OBVIOUS
  <2>1. starts[r][s] \in Nat /\ starts[r][s] <= 1
    BY DEF IInv, TypeOK, RowsSound
  <2>2. starts[r][s] = 1
    BY <2>1
  <2> QED BY <2>2, Aging DEF RowsAge
<1>2. ASSUME NEW v \in Sessions, At(v, "resolve")'
      PROVE  starts'[sess'[v].run][sess'[v].step] # 0
  <2>1. sess'[v].pc = "resolve"
    BY <1>2 DEF At
  <2>2. \A phase, r, s, st :
          Busy(phase, r, s, st).pc = phase /\ Busy(phase, r, s, st).run = r
          /\ Busy(phase, r, s, st).step = s
    BY DEF Busy
  <2>3. Idle.pc = "idle"
    BY <2>2 DEF Idle
  <2>4. ASSUME NEW u, FinishWrote(v, u),
               sess'[v] = [sess[v] EXCEPT !.pc = "advance", !.val = u]
        PROVE  sess'[v].pc = "advance"
    BY <2>4 DEF FinishWrote, Job
  <2>5. \A phase, r, s, st : sess'[v] = Busy(phase, r, s, st) => phase = "resolve"
    BY <2>1, <2>2
  <2>6. sess'[v].pc # "advance" /\ sess'[v].pc # "ring" /\ sess'[v] # Idle
    BY <2>1, <2>3
  <2>7. \/ sess'[v] = sess[v]
        \/ \E r \in Runs, s \in Steps :
             ResolveGateRead(v, r, s) /\ sess'[v] = Busy("resolve", r, s, parent[r])
    <3>1. TypeOK
      BY DEF IInv
    <3>2. ~\E u : /\ ResolveGateWrite(v) \/ StepSucceeds(v)
                  /\ FinishWrote(v, u)
                  /\ sess'[v] = [sess[v] EXCEPT !.pc = "advance", !.val = u]
      BY <2>4, <2>6
    <3>3. ~\E r \in Runs :
             \/ InsertRun(v, r) /\ sess'[v] = Busy("advance", r, None, "pending")
             \/ CancelRunRead(v, r) /\ sess'[v] = Busy("cancelRun", r, None, parent[r])
      BY <2>5
    <3>4. \A r \in Runs, s \in Steps :
            /\ sess'[v] # Busy("cancelStep", r, s, child[r][s])
            /\ sess'[v] # Busy("step", r, s, parent[r])
      BY <2>5
    <3> QED BY <2>6, <3>1, <3>2, <3>3, <3>4, SessionTurns
  <2>8. CASE sess'[v] = sess[v]
    <3>1. At(v, "resolve") /\ sess[v] \in Job
      BY <2>1, <2>8, AtWork DEF At, IInv, TypeOK
    <3>2. sess[v].run \in Runs /\ sess[v].step \in Steps
      BY <3>1 DEF Job, IInv, SessionsSound, SessionSound, At
    <3> QED BY <1>1, <2>8, <3>1, <3>2 DEF ClaimsCounted
  <2>9. ASSUME NEW r \in Runs, NEW s \in Steps,
               ResolveGateRead(v, r, s), sess'[v] = Busy("resolve", r, s, parent[r])
        PROVE  starts'[sess'[v].run][sess'[v].step] # 0
    <3>1. starts[r][s] # 0
      BY <2>9 DEF ResolveGateRead, ClaimsCounted
    <3>2. sess'[v].run = r /\ sess'[v].step = s
      BY <2>2, <2>9
    <3> QED BY <1>1, <3>1, <3>2
  <2> QED BY <2>7, <2>8, <2>9
<1> QED BY <1>2, ClaimsCountedRows DEF ClaimsCounted

-----------------------------------------------------------------------------
(* The refinement mapping, row by row.                                       *)

PhaseIn(r, s) == PhaseOf(child[r][s], output[r][s], starts[r][s])
Phases == [r \in Runs |-> [s \in Steps |-> PhaseIn(r, s)]]

\* Only the row <<r, s>> changes, with its output and its claims.
OnlyRow(r, s) ==
  \A q \in Runs, t \in Steps : q # r \/ t # s =>
    /\ child'[q][t] = child[q][t]
    /\ output'[q][t] = output[q][t]
    /\ starts'[q][t] = starts[q][t]

LEMMA PhaseWrite ==
  ASSUME NEW r \in Runs, NEW s \in Steps, NEW ph, OnlyRow(r, s), PhaseIn(r, s)' = ph
  PROVE  Phases' = [Phases EXCEPT ![r][s] = ph]
<1> DEFINE after == [Phases EXCEPT ![r][s] = ph]
<1>1. \A q \in Runs, t \in Steps :
        PhaseIn(q, t)' = IF q = r /\ t = s THEN ph ELSE PhaseIn(q, t)
  BY DEF OnlyRow, PhaseIn
<1>2. after = [q \in Runs |-> [t \in Steps |-> IF q = r /\ t = s THEN ph ELSE PhaseIn(q, t)]]
  BY DEF Phases
<1>3. Phases' = [q \in Runs |-> [t \in Steps |-> PhaseIn(q, t)']]
  BY DEF Phases
<1> QED BY <1>1, <1>2, <1>3

\* A row that changes within its phase leaves the abstract state alone.
LEMMA PhaseStutter ==
  ASSUME NEW r \in Runs, NEW s \in Steps, OnlyRow(r, s), PhaseIn(r, s)' = PhaseIn(r, s)
  PROVE  Phases' = Phases
<1>1. \A q \in Runs, t \in Steps : PhaseIn(q, t)' = PhaseIn(q, t)
  BY DEF OnlyRow, PhaseIn
<1> QED BY <1>1 DEF Phases

\* Nothing that the mapping looks at changes.
LEMMA PhasesStay ==
  ASSUME UNCHANGED <<child, output, starts>>
  PROVE  Phases' = Phases
BY DEF Phases, PhaseIn

LEMMA MoveIs ==
  ASSUME NEW r \in Runs, NEW s \in Steps, NEW from, NEW ph,
         PhaseIn(r, s) \in from, OnlyRow(r, s), PhaseIn(r, s)' = ph
  PROVE  Dag!Move(r, s, from, ph)
<1>1. Phases' = [Phases EXCEPT ![r][s] = ph] /\ Phases[r][s] = PhaseIn(r, s)
  BY PhaseWrite DEF Phases
<1> QED BY <1>1 DEF Dag!Move, Phases, PhaseIn

\* Every phase but those of a cancelled row is read off the status alone.
LEMMA PhaseFacts ==
  ASSUME NEW result, NEW claims
  PROVE  /\ PhaseOf("none", result, claims) = "blocked"
         /\ PhaseOf("pending", result, claims) = "ready"
         /\ PhaseOf("running", result, claims) = "active"
         /\ PhaseOf("waiting", result, claims) = "active"
         /\ PhaseOf("succeeded", result, claims) = "done"
         /\ PhaseOf("failed", result, claims) = "failed"
         /\ PhaseOf("cancelled", result, claims) =
              IF result # None THEN "done" ELSE IF claims = 0 THEN "withdrawn" ELSE "cut"
BY DEF PhaseOf

LEMMA StutterIs ==
  ASSUME Phases' = Phases, parent' = parent
  PROVE  UNCHANGED Dag!vars
BY DEF Dag!vars, Phases, PhaseIn

LEMMA InitRefines == Init => Dag!Init
  BY PhaseFacts DEF Init, Dag!Init

\* A step that executes has begun and has no output: it is active, or cut.
LEMMA ExecutingPhase ==
  ASSUME IInv, NEW w \in Sessions, NEW r \in Runs, NEW s \in Steps, Executing(w, r, s)
  PROVE  /\ starts[r][s] = 1 /\ output[r][s] = None
         /\ child[r][s] \in {"running", "cancelled"}
         /\ child[r][s] = "running" => PhaseIn(r, s) = "active"
         /\ child[r][s] = "cancelled" => PhaseIn(r, s) = "cut"
<1>1. starts[r][s] = 1 /\ output[r][s] = None /\ child[r][s] \in {"running", "cancelled"}
  BY DEF IInv, ExecutionsSound
<1> QED BY <1>1, PhaseFacts DEF PhaseIn

LEMMA FailRefines ==
  ASSUME IInv, NEW w \in Sessions, StepFails(w)
  PROVE  \E r \in Runs, s \in Steps : Dag!Fail(r, s)
<1>0. TypeOK
  BY DEF IInv
<1>1. PICK r \in Runs, s \in Steps :
        sess[w].run = r /\ sess[w].step = s /\ Executing(w, r, s)
  BY <1>0, FailEffect DEF IInv, SessionsSound, SessionSound, Executing, At
<1>2. PhaseIn(r, s) \in {"ready", "active", "cut"}
  BY <1>1, ExecutingPhase
<1>3. OnlyChild(r, s, "failed") /\ UNCHANGED <<output, starts>>
  BY <1>0, <1>1, FailEffect
<1>4. OnlyRow(r, s)
  BY <1>3 DEF OnlyRow, OnlyChild
<1>5. PhaseIn(r, s)' = "failed"
  BY <1>3, PhaseFacts DEF PhaseIn, OnlyChild
<1>6. Dag!Move(r, s, {"ready", "active", "cut"}, "failed")
  BY <1>2, <1>4, <1>5, MoveIs
<1>7. parent' = [parent EXCEPT ![r] = "failed"]
  BY <1>1 DEF StepFails, SetParent
<1> QED BY <1>6, <1>7 DEF Dag!Fail

\* A step that parks at a gate goes on being active; a cancelled one is active again.
LEMMA GateRefines ==
  ASSUME IInv, NEW w \in Sessions, StepGates(w)
  PROVE  UNCHANGED Dag!vars \/ \E r \in Runs, s \in Steps : Dag!Park(r, s)
<1>0. TypeOK
  BY DEF IInv
<1>1. PICK r \in Runs, s \in Steps :
        sess[w].run = r /\ sess[w].step = s /\ Executing(w, r, s)
  BY <1>0, GateEffect, KindAssumption
<1>2. /\ OnlyChild(r, s, "waiting") /\ UNCHANGED <<output, starts>>
      /\ parent' = parent
  BY <1>0, <1>1, GateEffect
<1>3. OnlyRow(r, s)
  BY <1>2 DEF OnlyRow, OnlyChild
<1>4. PhaseIn(r, s)' = "active"
  BY <1>2, PhaseFacts DEF PhaseIn, OnlyChild
<1>5. CASE child[r][s] = "running"
  <2>1. Phases' = Phases
    BY <1>1, <1>3, <1>4, <1>5, ExecutingPhase, PhaseStutter
  <2> QED BY <1>2, <2>1, StutterIs
<1>6. CASE child[r][s] = "cancelled"
  <2>1. PhaseIn(r, s) \in {"cut"}
    BY <1>1, <1>6, ExecutingPhase
  <2>2. Dag!Move(r, s, {"cut"}, "active")
    BY <1>3, <1>4, <2>1, MoveIs
  <2> QED BY <1>2, <2>2 DEF Dag!Park
<1> QED BY <1>1, <1>5, <1>6, ExecutingPhase

\* A step completes once: a gate that a second request resolves is done already.
LEMMA FinishRefines ==
  ASSUME IInv, ClaimsCounted, NEW w \in Sessions, ResolveGateWrite(w) \/ StepSucceeds(w)
  PROVE  UNCHANGED Dag!vars \/ \E r \in Runs, s \in Steps : Dag!Complete(r, s)
<1>0. TypeOK
  BY DEF IInv
<1>1. PICK v : FinishWrote(w, v)
  BY <1>0, FinishEffect
<1>2. ~At(w, "idle") /\ sess[w].pc \in {"step", "resolve"}
  BY DEF ResolveGateWrite, StepSucceeds, At
<1>3. PICK r \in Runs, s \in Steps : sess[w].run = r /\ sess[w].step = s
  BY <1>0, <1>2, AtWork DEF IInv, SessionsSound, SessionSound, TypeOK
<1>4. PhaseIn(r, s) \in {"active", "cut", "done"}
  <2>1. CASE ResolveGateWrite(w)
    <3>1. At(w, "resolve")
      BY <2>1 DEF ResolveGateWrite
    <3>2. child[r][s] \in {"waiting", "succeeded", "cancelled"} /\ starts[r][s] # 0
      BY <1>3, <3>1 DEF IInv, SessionsSound, SessionSound, ClaimsCounted
    <3> QED BY <3>2, PhaseFacts DEF PhaseIn
  <2>2. CASE StepSucceeds(w)
    <3>1. Executing(w, r, s)
      BY <1>3, <2>2 DEF StepSucceeds, Executing
    <3> QED BY <3>1, ExecutingPhase
  <2> QED BY <2>1, <2>2
<1>5. parent' = parent /\ UNCHANGED starts
  BY <1>1 DEF FinishWrote
<1>6. OnlyRow(r, s) /\ PhaseIn(r, s)' = "done"
  <2>1. OnlyChild(r, s, "succeeded")
    BY <1>1, <1>3 DEF FinishWrote
  <2>2. OnlyRow(r, s)
    BY <1>1, <1>3, <1>5, <2>1 DEF FinishWrote, OnlyChild, OnlyRow
  <2>3. child'[r][s] = "succeeded"
    BY <2>1 DEF OnlyChild
  <2> QED BY <2>2, <2>3, PhaseFacts DEF PhaseIn
<1>7. CASE PhaseIn(r, s) = "done"
  <2>1. Phases' = Phases
    BY <1>6, <1>7, PhaseStutter
  <2> QED BY <1>5, <2>1, StutterIs
<1>8. CASE PhaseIn(r, s) \in {"active", "cut"}
  <2>1. Dag!Move(r, s, {"active", "cut"}, "done")
    BY <1>6, <1>8, MoveIs
  <2> QED BY <1>5, <2>1 DEF Dag!Complete
<1> QED BY <1>4, <1>7, <1>8

\* A client that cancels the row of a step withdraws it or cuts it short; a step that
\* is done, or cancelled already, stays what it is.
LEMMA CancelStepRefines ==
  ASSUME IInv, ClaimsCounted, NEW w \in Sessions, CancelStepWrite(w)
  PROVE  UNCHANGED Dag!vars \/ \E r \in Runs, s \in Steps : Dag!Withdraw(r, s)
<1>0. TypeOK
  BY DEF IInv
<1>1. At(w, "cancelStep")
  BY DEF CancelStepWrite
<1>2. PICK r \in Runs, s \in Steps :
        sess[w].run = r /\ sess[w].step = s /\ child[r][s] # "none"
  BY <1>0, <1>1, CancelStepEffect DEF IInv, SessionsSound, SessionSound, At
<1>3. /\ UNCHANGED <<parent, output, starts>>
      /\ OnlyChild(r, s, "cancelled")
  BY <1>0, <1>2, CancelStepEffect
<1>4. OnlyRow(r, s)
  BY <1>3 DEF OnlyRow, OnlyChild
<1>5. PhaseIn(r, s)' = IF output[r][s] # None THEN "done"
                       ELSE IF starts[r][s] = 0 THEN "withdrawn" ELSE "cut"
  <2>1. PhaseIn(r, s)' = PhaseOf("cancelled", output[r][s], starts[r][s])
    BY <1>3 DEF OnlyChild, PhaseIn
  <2> QED BY <2>1, PhaseFacts
<1>6. child[r][s] \in Status
  BY <1>0 DEF TypeOK
<1>7. CASE child[r][s] \in {"succeeded", "cancelled"}
  <2>1. child[r][s] = "succeeded" => output[r][s] # None
    BY DEF IInv, RowsSound
  <2>2. PhaseIn(r, s)' = PhaseIn(r, s)
    BY <1>5, <1>7, <2>1, PhaseFacts DEF PhaseIn
  <2>3. Phases' = Phases
    BY <1>4, <2>2, PhaseStutter
  <2> QED BY <1>3, <2>3, StutterIs
<1>8. CASE child[r][s] = "pending"
  <2>1. starts[r][s] = 0 /\ output[r][s] = None
    BY <1>8 DEF IInv, RowsSound
  <2>2. PhaseIn(r, s) \in {"ready", "failed"} /\ PhaseIn(r, s)' = "withdrawn"
    BY <1>5, <1>8, <2>1, PhaseFacts DEF PhaseIn
  <2>3. Dag!Move(r, s, {"ready", "failed"}, "withdrawn")
    BY <1>4, <2>2, MoveIs
  <2> QED BY <1>3, <2>3 DEF Dag!Withdraw
<1>9. CASE child[r][s] \in {"running", "waiting"}
  <2>1. starts[r][s] # 0 /\ output[r][s] = None
    BY <1>9 DEF ClaimsCounted
  <2>2. PhaseIn(r, s) \in {"active", "failed"} /\ PhaseIn(r, s)' = "cut"
    BY <1>5, <1>9, <2>1, PhaseFacts DEF PhaseIn
  <2>3. Dag!Move(r, s, {"active", "failed"}, "cut")
    BY <1>4, <2>2, MoveIs
  <2> QED BY <1>3, <2>3 DEF Dag!Withdraw
<1>10. CASE child[r][s] = "failed"
  <2>1. output[r][s] = None
    BY <1>10 DEF ClaimsCounted
  <2>2. PhaseIn(r, s) = "failed" /\ PhaseIn(r, s)' \in {"withdrawn", "cut"}
    BY <1>5, <1>10, <2>1, PhaseFacts DEF PhaseIn
  <2>3. \/ Dag!Move(r, s, {"ready", "failed"}, "withdrawn")
        \/ Dag!Move(r, s, {"active", "failed"}, "cut")
    BY <1>4, <2>2, MoveIs
  <2> QED BY <1>3, <2>3 DEF Dag!Withdraw
<1> QED BY <1>2, <1>6, <1>7, <1>8, <1>9, <1>10 DEF Status

\* A pass of advance_workflow releases steps: a predecessor that the session finished
\* itself is done, even when a client has cancelled its row since.
LEMMA PassRefines ==
  ASSUME IInv, NEW w \in Sessions, NEW bad, NEW copied, NEW src,
         PassWrote(w, bad, copied, src), parent' \in [Runs -> Status]
  PROVE  \E fresh \in SUBSET Steps :
           /\ copied \in SUBSET Steps /\ copied \cap fresh = {}
           /\ Dag!Release(sess[w].run, copied, fresh)
<1> DEFINE r     == sess[w].run
           fresh == Reached(w, bad, copied) \ copied
<1>1. /\ r \in Runs /\ At(w, "advance")
      /\ copied \subseteq Reached(w, bad, copied)
      /\ copied \subseteq Steps /\ fresh \subseteq Steps
  BY PassMakes DEF PassWrote
<1>2. parent[r] # "none"
  BY <1>1 DEF IInv, SessionsSound, SessionSound, At
<1>3. Dag!Done(r) = {s \in Steps : PhaseIn(r, s) = "done"}
  BY <1>1 DEF Dag!Done, PhaseIn
<1>4. Finished(w) \subseteq Dag!Done(r)
  <2> SUFFICES ASSUME NEW x \in Finished(w)
               PROVE  x \in Steps /\ PhaseIn(r, x) = "done"
    BY <1>3
  <2>1. x \in Steps /\ child[r][x] \in {"succeeded", "cancelled"} /\ output[r][x] # None
    BY <1>1, PassReads
  <2> QED BY <2>1, PhaseFacts DEF PhaseIn
<1>5. \A s \in copied \cup fresh :
        PhaseIn(r, s) = "blocked" /\ Pred[s] \subseteq Dag!Done(r) \cup copied
  <2> SUFFICES ASSUME NEW s \in copied \cup fresh
               PROVE  PhaseIn(r, s) = "blocked" /\ Pred[s] \subseteq Dag!Done(r) \cup copied
    OBVIOUS
  <2>1. s \in Steps /\ child[r][s] = "none" /\ Pred[s] \subseteq Finished(w) \cup copied
    BY <1>1, PassMakes
  <2>2. PhaseIn(r, s) = "blocked"
    BY <2>1, PhaseFacts DEF PhaseIn
  <2> QED BY <1>4, <2>1, <2>2
<1>6. \A s \in copied : \E q \in Runs : PhaseIn(q, s) = "done"
  <2> SUFFICES ASSUME NEW s \in copied PROVE \E q \in Runs : PhaseIn(q, s) = "done"
    OBVIOUS
  <2>1. src[s] \in Runs /\ child[src[s]][s] = "succeeded"
    BY PassCopies
  <2>2. PhaseIn(src[s], s) = "done"
    BY <2>1, PhaseFacts DEF PhaseIn
  <2> QED BY <2>1, <2>2
<1>7. Phases' = [Phases EXCEPT ![r] =
        [s \in Steps |-> IF s \in copied THEN "done"
                         ELSE IF s \in fresh THEN "ready" ELSE Phases[r][s]]]
  <2>1. \A q \in Runs, s \in Steps :
          PhaseIn(q, s)' = IF q = r /\ s \in copied THEN "done"
                           ELSE IF q = r /\ s \in fresh THEN "ready"
                           ELSE PhaseIn(q, s)
    <3> SUFFICES ASSUME NEW q \in Runs, NEW s \in Steps
                 PROVE  PhaseIn(q, s)' = IF q = r /\ s \in copied THEN "done"
                                         ELSE IF q = r /\ s \in fresh THEN "ready"
                                         ELSE PhaseIn(q, s)
      OBVIOUS
    <3>1. /\ child'[q][s] = IF q = r /\ s \in copied THEN "succeeded"
                            ELSE IF q = r /\ s \in fresh THEN "pending"
                            ELSE child[q][s]
          /\ ~(q = r /\ s \in copied) => output'[q][s] = output[q][s]
          /\ starts'[q][s] = starts[q][s]
      BY DEF PassWrote
    <3> QED BY <3>1, PhaseFacts DEF PhaseIn
  <2> QED BY <2>1 DEF Phases
<1>8. \/ parent' = parent
      \/ parent' = [parent EXCEPT ![r] = "failed"]
      \/ /\ Dag!Done(r) \cup copied = Steps
         /\ parent' = [parent EXCEPT ![r] = "succeeded"]
  <2>1. parent \in [Runs -> Status]
    BY DEF IInv, TypeOK
  <2>2. parent' = [parent EXCEPT ![r] = Verdict(w, bad, copied)]
    BY <2>1 DEF PassWrote
  <2>3. Dag!Done(r) \subseteq Steps
    BY <1>3
  <2>4. \/ Verdict(w, bad, copied) = parent[r]
        \/ Verdict(w, bad, copied) = "failed"
        \/ /\ Dag!Done(r) \cup copied = Steps
           /\ Verdict(w, bad, copied) = "succeeded"
    BY <1>1, <1>4, <2>3 DEF Verdict
  <2> QED BY <2>1, <2>2, <2>4
<1>9. Dag!Release(r, copied, fresh)
  BY <1>1, <1>2, <1>5, <1>6, <1>7, <1>8 DEF Dag!Release, Phases, PhaseIn
<1> QED BY <1>1, <1>9

LEMMA StepRefines ==
  ASSUME IInv, ClaimsCounted, [Next]_vars
  PROVE  [Dag!Next]_(Dag!vars)
<1>0. TypeOK /\ Effects /\ parent' \in [Runs -> Status]
  <2>1. TypeOK /\ TypeOK'
    BY TypeStep DEF IInv
  <2> QED BY <2>1, EverySplit DEF TypeOK
<1>1. CASE Quiet
  <2>1. UNCHANGED <<parent, child, output, starts>>
    BY <1>0, <1>1, QuietEffect
  <2> QED BY <2>1, PhasesStay, StutterIs
<1>2. ASSUME NEW w \in Sessions, NEW r \in Runs, InsertRun(w, r)
      PROVE  Dag!Next
  <2>1. Dag!Submit(r)
    <3>1. UNCHANGED <<child, output, starts>>
      BY <1>2 DEF InsertRun
    <3>2. Phases' = Phases
      BY <3>1, PhasesStay
    <3> QED BY <1>2, <3>2 DEF InsertRun, SetParent, Dag!Submit, Phases, PhaseIn
  <2> QED BY <2>1 DEF Dag!Next
<1>3. ASSUME NEW w \in Sessions, NEW r \in Runs, sess[w].run = r, CancelRunWrite(w)
      PROVE  Dag!Next
  <2>1. parent[r] # "none"
    BY <1>3 DEF IInv, SessionsSound, SessionSound, CancelRunWrite, At
  <2>2. Phases' = Phases
    BY <1>3, PhasesStay DEF CancelRunWrite
  <2>3. Dag!Cancel(r)
    BY <1>3, <2>1, <2>2 DEF CancelRunWrite, SetParent, Dag!Cancel, Phases, PhaseIn
  <2> QED BY <2>3 DEF Dag!Next
<1>4. ASSUME NEW r \in Runs, NEW copied \in SUBSET Steps, NEW fresh \in SUBSET Steps,
             copied \cap fresh = {}, Dag!Release(r, copied, fresh)
      PROVE  Dag!Next
  BY <1>4 DEF Dag!Next
<1>5. ASSUME NEW w \in Sessions, NEW r \in Runs, sess[w].run = r, AdvanceFails(w)
      PROVE  Dag!Next
  <2>1. parent[r] # "none"
    BY <1>5 DEF IInv, SessionsSound, SessionSound, AdvanceFails, At
  <2>2. Phases' = Phases
    BY <1>5, PhasesStay DEF AdvanceFails
  <2>3. Phases' = [Phases EXCEPT ![r] =
          [s \in Steps |-> IF s \in {} THEN "done"
                           ELSE IF s \in {} THEN "ready" ELSE Phases[r][s]]]
    BY <2>2 DEF Phases
  <2>4. Dag!Release(r, {}, {})
    BY <1>5, <2>1, <2>3 DEF AdvanceFails, SetParent, Dag!Release, Phases, PhaseIn
  <2> QED BY <1>4, <2>4
<1>6. ASSUME NEW w \in Sessions, NEW r \in Runs, NEW s \in Steps, ClaimStep(w, r, s)
      PROVE  Dag!Next
  <2>1. PhaseIn(r, s) \in {"ready"}
    BY <1>0, <1>6, ClaimEffect, PhaseFacts DEF PhaseIn
  <2>2. OnlyRow(r, s)
    BY <1>0, <1>6, ClaimEffect DEF OnlyRow, OnlyChild
  <2>3. PhaseIn(r, s)' = "active"
    BY <1>0, <1>6, ClaimEffect, PhaseFacts DEF OnlyChild, PhaseIn
  <2>4. Dag!Begin(r, s)
    BY <1>6, <2>1, <2>2, <2>3, MoveIs DEF Dag!Begin, ClaimStep
  <2> QED BY <2>4 DEF Dag!Next
<1>7. ASSUME NEW w \in Sessions, NEW r \in Runs, NEW s \in Steps, RejectStep(w, r, s)
      PROVE  Dag!Next
  <2>1. PhaseIn(r, s) \in {"ready", "active", "cut"}
    BY <1>0, <1>7, RejectEffect, PhaseFacts DEF PhaseIn
  <2>2. OnlyRow(r, s)
    BY <1>0, <1>7, RejectEffect DEF OnlyRow, OnlyChild
  <2>3. PhaseIn(r, s)' = "failed"
    BY <1>0, <1>7, RejectEffect, PhaseFacts DEF OnlyChild, PhaseIn
  <2>4. Dag!Fail(r, s)
    BY <1>7, <2>1, <2>2, <2>3, MoveIs DEF Dag!Fail, RejectStep, SetParent
  <2> QED BY <2>4 DEF Dag!Next
<1>8. ASSUME NEW w \in Sessions, StepFails(w) PROVE Dag!Next
  BY <1>8, FailRefines DEF Dag!Next
<1>9. ASSUME NEW w \in Sessions, StepGates(w) PROVE [Dag!Next]_(Dag!vars)
  BY <1>9, GateRefines DEF Dag!Next
<1>10. ASSUME NEW w \in Sessions, ResolveGateWrite(w) \/ StepSucceeds(w)
       PROVE  [Dag!Next]_(Dag!vars)
  BY <1>10, FinishRefines DEF Dag!Next
<1>11. ASSUME NEW w \in Sessions, CancelStepWrite(w) PROVE [Dag!Next]_(Dag!vars)
  BY <1>11, CancelStepRefines DEF Dag!Next
<1>12. ASSUME NEW w \in Sessions, NEW bad, NEW copied, NEW src,
              PassWrote(w, bad, copied, src)
       PROVE  Dag!Next
  <2>1. sess[w].run \in Runs
    BY <1>12 DEF PassWrote
  <2> QED BY <1>0, <1>4, <1>12, <2>1, PassRefines
<1> QED
  BY <1>0, <1>1, <1>2, <1>3, <1>5, <1>6, <1>7, <1>8, <1>9, <1>10, <1>11, <1>12
     DEF Effects

-----------------------------------------------------------------------------
\* Every behaviour of the engine is one of the abstract execution of its DAGs,
\* whatever clients cancel, resolve and retry in between.
THEOREM EngineImplementsDag == Spec => ImplementsDag
<1>1. Init => ClaimsCounted
  BY DEF Init, ClaimsCounted, At, Idle, Busy
<1>2. ClaimsCounted /\ IInv /\ [Next]_vars => ClaimsCounted'
  BY ClaimsCountedStep
<1>3. IInv /\ ClaimsCounted /\ [Next]_vars => [Dag!Next]_(Dag!vars)
  BY StepRefines
<1> QED
  BY <1>1, <1>2, <1>3, InitRefines, Invariance, PTL DEF Spec, ImplementsDag, Dag!Spec

=============================================================================
