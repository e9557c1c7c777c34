--------------------------- MODULE ModelDeployment ---------------------------
(***************************************************************************)
(* Models deployed to CVAT as Nuclio functions.  An organisation reserves  *)
(* the name of a function in table cvat_deployments, then asks the         *)
(* deployer (worker-cvat's HTTP app) to build it; it may see, use and      *)
(* delete the functions whose live row it owns.  The deployer's work is    *)
(* not tied to the request that asked for it: a request may time out or    *)
(* die and its work goes on.  step.deploy_model calls the deployer without *)
(* a reservation.                                                          *)
(***************************************************************************)
EXTENDS Naturals, FiniteSets

CONSTANTS
  Orgs,         \* organisations
  Names,        \* names that clients give their models
  Functions,    \* names of Nuclio functions
  Slug,         \* Slug[m]: the function that a model named m becomes
  Requests,     \* API requests in flight
  Rows,         \* bound: ids of rows of cvat_deployments
  None,         \* no organisation, name, row or function
  MaxLate,      \* bound: requests that time out
  MaxDeaths,    \* bound: requests that die, or whose release fails
  MaxSteps      \* bound: functions that step.deploy_model builds

ASSUME DeploymentAssumption ==
  /\ Slug \in [Names -> Functions]
  /\ None \notin Orgs \cup Names \cup Rows \cup Functions
  /\ {MaxLate, MaxDeaths, MaxSteps} \subseteq Nat

VARIABLES
  rows,     \* rows[d]: a row of cvat_deployments; "none" before it is inserted
  fn,       \* fn[f]: whose deployment of function f CVAT serves, None if there is none
  req,      \* req[q]: what request q is doing
  work,     \* work[q]: what the deployer does, or did, for q
  loose,    \* history: functions given up while something of theirs went on, or
            \* built by step.deploy_model for an organisation without a row of them
  late,     \* counts TimeOut, bounded by MaxLate
  deaths,   \* counts Crash, bounded by MaxDeaths
  steps     \* counts StepDeploys, bounded by MaxSteps

vars == <<rows, fn, req, work, loose, late, deaths, steps>>

Row == [state : {"none", "live", "deleted"}, org : Orgs \cup {None},
        function : Functions \cup {None}, finished : BOOLEAN]
NoRow == [state |-> "none", org |-> None, function |-> None, finished |-> FALSE]

\* insert: found no live row; reserved: has its row; deploying, deleting: waits
\* for the deployer; the abandoned ones no longer wait, the deployer goes on.
Phase == {"idle", "insert", "reserved", "deploying", "deleting",
          "abandonedDeploy", "abandonedDelete"}
Request == [pc : Phase, org : Orgs \cup {None}, function : Functions \cup {None},
            row : Rows \cup {None}, created : BOOLEAN]
Free == [pc |-> "idle", org |-> None, function |-> None, row |-> None,
         created |-> FALSE]

TypeOK ==
  /\ rows \in [Rows -> Row]
  /\ fn \in [Functions -> Orgs \cup {None}]
  /\ req \in [Requests -> Request]
  /\ work \in [Requests -> {"none", "busy", "ok", "failed"}]
  /\ loose \subseteq Functions
  /\ late \in Nat
  /\ deaths \in Nat
  /\ steps \in Nat
  \* the partial unique index uq_cvat_deployments_function_name
  /\ \A d, e \in Rows : rows[d].state = "live" /\ rows[e].state = "live"
                          /\ rows[d].function = rows[e].function => d = e

Init ==
  /\ rows = [d \in Rows |-> NoRow]
  /\ fn = [f \in Functions |-> None]
  /\ req = [q \in Requests |-> Free]
  /\ work = [q \in Requests |-> "none"]
  /\ loose = {}
  /\ late = 0
  /\ deaths = 0
  /\ steps = 0

FunctionOf(m) == Slug[m]
Live(f)       == {d \in Rows : rows[d].state = "live" /\ rows[d].function = f}
At(q, phase)  == req[q].pc = phase
Returns(q)    == req' = [req EXCEPT ![q] = Free]
UsersOf(d)    == {q \in Requests : req[q].row = d}

\* Row d is given up by q.  What is left of its function -- the function itself,
\* another request of the organisation, work that q no longer waits for -- is loose.
GiveUp(d, q) ==
  LET f == rows[d].function
      left == fn[f] # None \/ work[q] = "busy" \/ UsersOf(d) \ {q} # {}
  IN /\ rows' = [rows EXCEPT ![d].state = "deleted"]
     /\ loose' = IF left THEN loose \cup {f} ELSE loose

-----------------------------------------------------------------------------
(* Reservation: _reserve_function.                                           *)

Enter(q, o, m, phase, d) ==
  /\ req' = [req EXCEPT ![q] = [pc |-> phase, org |-> o, function |-> FunctionOf(m),
                                row |-> d, created |-> FALSE]]
  /\ UNCHANGED <<rows, fn, work, loose, late, deaths, steps>>

\* Wrong: whoever holds the name, the row is taken for the caller's.
ReuseAnyRow(q, o, m) ==
  /\ At(q, "idle")
  /\ \E d \in Live(FunctionOf(m)) : Enter(q, o, m, "reserved", d)

\* The organisation owns the live row.  A row of another one is a 409.
ReuseRow(q, o, m) ==
  /\ At(q, "idle")
  /\ \E d \in Live(FunctionOf(m)) :
       /\ rows[d].org = o
       /\ Enter(q, o, m, "reserved", d)

FindNone(q, o, m) ==
  /\ At(q, "idle")
  /\ Live(FunctionOf(m)) = {}
  /\ Enter(q, o, m, "insert", None)

\* Wrong: without the partial unique index.
InsertDuplicate(q) ==
  /\ At(q, "insert")
  /\ \E d \in Rows :
       /\ rows[d].state = "none"
       /\ rows' = [rows EXCEPT ![d] =
                     [state |-> "live", org |-> req[q].org, function |-> req[q].function,
                      finished |-> FALSE]]
       /\ req' = [req EXCEPT ![q] = [@ EXCEPT !.pc = "reserved", !.row = d,
                                              !.created = TRUE]]
  /\ UNCHANGED <<fn, work, loose, late, deaths, steps>>

InsertRow(q) ==
  /\ At(q, "insert")
  /\ Live(req[q].function) = {}
  /\ \E d \in Rows :
       /\ rows[d].state = "none"
       /\ rows' = [rows EXCEPT ![d] =
                     [state |-> "live", org |-> req[q].org, function |-> req[q].function,
                      finished |-> FALSE]]
       /\ req' = [req EXCEPT ![q] = [@ EXCEPT !.pc = "reserved", !.row = d,
                                              !.created = TRUE]]
  /\ UNCHANGED <<fn, work, loose, late, deaths, steps>>

\* The unique index refuses the row: 409, be it of the same organisation.
InsertConflicts(q) ==
  /\ At(q, "insert")
  /\ Live(req[q].function) # {}
  /\ Returns(q)
  /\ UNCHANGED <<rows, fn, work, loose, late, deaths, steps>>

-----------------------------------------------------------------------------
(* Deploying.                                                                *)

\* The deployer is asked, with weights from the store or from the request.
Call(q) ==
  /\ At(q, "reserved")
  /\ req' = [req EXCEPT ![q].pc = "deploying"]
  /\ work' = [work EXCEPT ![q] = "busy"]
  /\ UNCHANGED <<rows, fn, loose, late, deaths, steps>>

\* Wrong: a failed request leaves its reservation.
KeepReservation(q) ==
  /\ UNCHANGED <<rows, loose>>

\* Every exception on the way gives up a reservation that this request made,
\* by its id: whatever has become of the row since.
Release(q) ==
  IF req[q].created
  THEN GiveUp(req[q].row, q)
  ELSE UNCHANGED <<rows, loose>>

\* No weights, no connection, or an unreadable upload.
FailEarly(q) ==
  /\ At(q, "reserved")
  /\ Release(q)
  /\ Returns(q)
  /\ UNCHANGED <<fn, work, late, deaths, steps>>

\* The deployer answers with an error.
Fail(q) ==
  /\ At(q, "deploying")
  /\ work[q] = "failed"
  /\ Release(q)
  /\ Returns(q)
  /\ work' = [work EXCEPT ![q] = "none"]
  /\ UNCHANGED <<fn, late, deaths, steps>>

\* The row is updated by its id, even if it was given up meanwhile.
Finish(q) ==
  /\ At(q, "deploying")
  /\ work[q] = "ok"
  /\ rows' = [rows EXCEPT ![req[q].row].finished = TRUE]
  /\ Returns(q)
  /\ work' = [work EXCEPT ![q] = "none"]
  /\ UNCHANGED <<fn, loose, late, deaths, steps>>

-----------------------------------------------------------------------------
(* Deleting.                                                                 *)

\* Wrong: the row is released before the deployer has deleted the function.
StartDeleteEagerly(q, o, f) ==
  /\ At(q, "idle")
  /\ \E d \in Live(f) :
       /\ rows[d].org = o
       /\ rows' = [rows EXCEPT ![d].state = "deleted"]
       /\ req' = [req EXCEPT ![q] = [pc |-> "deleting", org |-> o, function |-> f,
                                     row |-> d, created |-> FALSE]]
  /\ work' = [work EXCEPT ![q] = "busy"]
  /\ UNCHANGED <<fn, loose, late, deaths, steps>>

StartDelete(q, o, f) ==
  /\ At(q, "idle")
  /\ \E d \in Live(f) :
       /\ rows[d].org = o
       /\ req' = [req EXCEPT ![q] = [pc |-> "deleting", org |-> o, function |-> f,
                                     row |-> d, created |-> FALSE]]
  /\ work' = [work EXCEPT ![q] = "busy"]
  /\ UNCHANGED <<rows, fn, loose, late, deaths, steps>>

FinishDelete(q) ==
  /\ At(q, "deleting")
  /\ work[q] = "ok"
  /\ GiveUp(req[q].row, q)
  /\ Returns(q)
  /\ work' = [work EXCEPT ![q] = "none"]
  /\ UNCHANGED <<fn, late, deaths, steps>>

\* A failed delete keeps the row.
FailDelete(q) ==
  /\ At(q, "deleting")
  /\ work[q] = "failed"
  /\ Returns(q)
  /\ work' = [work EXCEPT ![q] = "none"]
  /\ UNCHANGED <<rows, fn, loose, late, deaths, steps>>

-----------------------------------------------------------------------------
(* The deployer: nuctl in a thread that nobody cancels.                      *)

\* Work that its request still waits for leaves its result; other work is over.
Concludes(q, result) ==
  IF req[q].pc \in {"abandonedDeploy", "abandonedDelete"}
  THEN Returns(q) /\ work' = [work EXCEPT ![q] = "none"]
  ELSE UNCHANGED req /\ work' = [work EXCEPT ![q] = result]

Build(q) ==
  /\ work[q] = "busy"
  /\ req[q].pc \in {"deploying", "abandonedDeploy"}
  /\ fn' = [fn EXCEPT ![req[q].function] = req[q].org]
  /\ Concludes(q, "ok")
  /\ UNCHANGED <<rows, loose, late, deaths, steps>>

Remove(q) ==
  /\ work[q] = "busy"
  /\ req[q].pc \in {"deleting", "abandonedDelete"}
  /\ fn' = [fn EXCEPT ![req[q].function] = None]
  /\ Concludes(q, "ok")
  /\ UNCHANGED <<rows, loose, late, deaths, steps>>

\* A nuctl that fails may have done its work, in part or whole: the deployer neither
\* looks nor clears up.
NuctlFails(q) ==
  /\ work[q] = "busy"
  /\ LET done == IF req[q].pc \in {"deleting", "abandonedDelete"} THEN None ELSE req[q].org
     IN  fn' \in {fn, [fn EXCEPT ![req[q].function] = done]}
  /\ Concludes(q, "failed")
  /\ UNCHANGED <<rows, loose, late, deaths, steps>>

\* The request's own timeout (300 s to deploy, 30 s to delete) is an exception
\* like any other to it; the deployer knows nothing of it.
TimeOut(q) ==
  /\ req[q].pc \in {"deploying", "deleting"}
  /\ work[q] = "busy"
  /\ late < MaxLate
  /\ late' = late + 1
  /\ IF At(q, "deploying")
     THEN /\ Release(q)
          /\ req' = [req EXCEPT ![q].pc = "abandonedDeploy"]
     ELSE /\ UNCHANGED <<rows, loose>>
          /\ req' = [req EXCEPT ![q].pc = "abandonedDelete"]
  /\ UNCHANGED <<fn, work, deaths, steps>>

\* The API process dies, or the release of the reservation raises as well:
\* nothing is released.
Crash(q) ==
  /\ req[q].pc \in {"insert", "reserved", "deploying", "deleting"}
  /\ deaths < MaxDeaths
  /\ deaths' = deaths + 1
  /\ IF work[q] = "busy"
     THEN /\ req' = [req EXCEPT ![q].pc = IF @ = "deploying" THEN "abandonedDeploy"
                                                            ELSE "abandonedDelete"]
          /\ UNCHANGED work
     ELSE Returns(q) /\ work' = [work EXCEPT ![q] = "none"]
  /\ UNCHANGED <<rows, fn, loose, late, steps>>

\* step.deploy_model of a workflow of o: no row is looked at.
StepDeploys(o, m) ==
  /\ steps < MaxSteps
  /\ steps' = steps + 1
  /\ fn' = [fn EXCEPT ![FunctionOf(m)] = o]
  /\ loose' = IF \E d \in Live(FunctionOf(m)) : rows[d].org = o
              THEN loose ELSE loose \cup {FunctionOf(m)}
  /\ UNCHANGED <<rows, req, work, late, deaths>>

-----------------------------------------------------------------------------
Next ==
  \/ \E q \in Requests :
       \/ \E o \in Orgs, m \in Names : ReuseRow(q, o, m) \/ FindNone(q, o, m)
       \/ \E o \in Orgs, f \in Functions : StartDelete(q, o, f)
       \/ InsertRow(q) \/ InsertConflicts(q)
       \/ Call(q) \/ FailEarly(q) \/ Fail(q) \/ Finish(q)
       \/ FinishDelete(q) \/ FailDelete(q)
       \/ Build(q) \/ Remove(q) \/ NuctlFails(q)
       \/ TimeOut(q) \/ Crash(q)
  \/ \E o \in Orgs, m \in Names : StepDeploys(o, m)

Spec == Init /\ [][Next]_vars

-----------------------------------------------------------------------------
(* Safety.                                                                   *)

\* What GET /cvat/models shows to o, and POST .../cvat-annotate lets it use.
Listed(o) == {f \in Functions : fn[f] # None /\ \E d \in Live(f) : rows[d].org = o}

\* Nobody sees, uses or may delete a function that another organisation
\* deployed, unless its name was given up while something of it went on, or
\* step.deploy_model built it for an organisation that has no row of it.
OthersModelsStayHidden ==
  \A o \in Orgs : \A f \in Listed(o) \ loose : fn[f] = o

\* Unless a name is loose, the deployer works on its function only for the
\* organisation that owns its live row, deletions included.
WorkIsCovered ==
  \A q \in Requests :
    work[q] = "busy" /\ req[q].function \notin loose =>
      \E d \in Live(req[q].function) : rows[d].org = req[q].org

\* Types, with the unique index of live names, and the work in progress (cvat.py).
DeploymentIsSound ==
  TypeOK /\ WorkIsCovered

\* A live row that names no deployed function belongs to a request under way, if
\* no request died and no release raised: a failed deployment frees the name.
NoStaleReservation ==
  deaths = 0 => \A d \in Rows :
    rows[d].state = "live" /\ ~rows[d].finished => \E q \in UsersOf(d) : req[q].created

-----------------------------------------------------------------------------
(* What is promised to the owners of functions, see FunctionOwners.          *)

Owners == INSTANCE FunctionOwners WITH
  owners <- [f \in Functions |-> {rows[d].org : d \in Live(f)}],
  served <- fn,
  asked  <- {x \in Functions \X Orgs : \E q \in Requests :
               work[q] = "busy" /\ req[q].function = x[1] /\ req[q].org = x[2]}

\* Between the table, the requests and threads of the deployer that nobody waits
\* for, a function that is not loose has one owner at a time, it is built and
\* removed for that owner alone, and when the owner gives it up, it is gone and
\* nobody works on it.
ImplementsOwners == Owners!Spec

\* What _reserve_function says, and a request that times out refutes: "two orgs can
\* never both deploy the same Nuclio function".
OneOrgDeploys ==
  \A p, q \in Requests :
    /\ work[p] = "busy" /\ req[p].pc \in {"deploying", "abandonedDeploy"}
    /\ work[q] = "busy" /\ req[q].pc \in {"deploying", "abandonedDeploy"}
    /\ req[p].function = req[q].function
    => req[p].org = req[q].org
=============================================================================
