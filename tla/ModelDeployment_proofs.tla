------------------------ MODULE ModelDeployment_proofs ------------------------
(***************************************************************************)
(* Theorems about ModelDeployment, for any organisations, names, functions *)
(* and requests, however many of them time out or die.                     *)
(***************************************************************************)
EXTENDS ModelDeployment, TLAPS

\* What a request remembers agrees with its row.  The row is live, whoever else
\* works on the name, unless the name has become loose.
RequestSound(q) ==
  LET r == req[q] IN
  /\ r.pc = "idle" => r = Free
  /\ r.pc # "idle" => r.org \in Orgs /\ r.function \in Functions
  /\ r.pc \in {"idle", "insert"} <=> r.row = None
  /\ r.pc \in {"idle", "insert", "reserved"} => work[q] = "none"
  /\ r.pc \in {"abandonedDeploy", "abandonedDelete"} => work[q] = "busy"
  /\ r.created => r.pc \in {"reserved", "deploying", "abandonedDeploy"}
  /\ r.row # None => /\ rows[r.row].org = r.org /\ rows[r.row].function = r.function
                     /\ rows[r.row].state # "none"
                     /\ r.function \notin loose => rows[r.row].state = "live"

RequestsSound == \A q \in Requests : RequestSound(q)

\* A function that is not loose was deployed by the owner of its live row.
FunctionsSound ==
  \A f \in Functions \ loose : fn[f] # None => \E d \in Live(f) : rows[d].org = fn[f]

\* A deployment that timed out has given up the row that it made.
TimeOutsSound ==
  deaths = 0 => \A q \in Requests :
    At(q, "abandonedDeploy") /\ req[q].created => rows[req[q].row].state = "deleted"

IInv ==
  /\ TypeOK
  /\ RequestsSound
  /\ FunctionsSound
  /\ TimeOutsSound
  /\ NoStaleReservation

-----------------------------------------------------------------------------
(* The steps, grouped by what they do to the rows.                           *)

LEMMA NextSplit ==
  ASSUME [Next]_vars
  PROVE  \/ UNCHANGED vars
         \/ \E q \in Requests :
              \/ \E o \in Orgs, m \in Names : ReuseRow(q, o, m) \/ FindNone(q, o, m)
              \/ \E o \in Orgs, f \in Functions : StartDelete(q, o, f)
              \/ InsertRow(q) \/ InsertConflicts(q)
              \/ Call(q) \/ FailEarly(q) \/ Fail(q) \/ Finish(q)
              \/ FinishDelete(q) \/ FailDelete(q)
              \/ Build(q) \/ Remove(q) \/ NuctlFails(q)
              \/ TimeOut(q) \/ Crash(q)
         \/ \E o \in Orgs, m \in Names : StepDeploys(o, m)
  BY DEF Next

LEMMA InitInv == Init => IInv
<1> SUFFICES ASSUME Init PROVE IInv
  OBVIOUS
<1> USE DEF Init
<1>1. TypeOK
  BY DEF TypeOK, NoRow, Row, Free, Request, Phase
<1>2. RequestsSound
  BY DEF RequestsSound, RequestSound, Free
<1> QED BY <1>1, <1>2 DEF IInv, FunctionsSound, TimeOutsSound, NoStaleReservation, At, Free, NoRow

\* Nobody but request q has moved.
Alone(q) == \A p \in Requests \ {q} : req'[p] = req[p] /\ work'[p] = work[p]

\* No row is written.
LEMMA QuietStep ==
  ASSUME IInv, TypeOK', NEW q \in Requests, Alone(q), RequestSound(q)', FunctionsSound',
         UNCHANGED <<rows, loose>>, deaths' \in {deaths, deaths + 1},
         deaths' = 0 /\ req[q].created =>
           \/ req'[q].created /\ req'[q].row = req[q].row
           \/ rows[req[q].row].state # "live",
         deaths' = 0 /\ At(q, "abandonedDeploy")' /\ req'[q].created =>
           rows[req'[q].row].state = "deleted"
  PROVE  IInv'
<1>1. RequestsSound'
  BY DEF IInv, RequestsSound, RequestSound, Alone
<1>2. deaths' = 0 => deaths = 0
  BY DEF IInv, TypeOK
<1>3. TimeOutsSound'
  BY <1>2 DEF IInv, TimeOutsSound, At, Alone
<1>4. NoStaleReservation'
  <2> SUFFICES ASSUME deaths' = 0, NEW d \in Rows, rows[d].state = "live", ~rows[d].finished
               PROVE  \E p \in Requests : req'[p].row = d /\ req'[p].created
    BY DEF NoStaleReservation, UsersOf
  <2>1. PICK p \in Requests : req[p].row = d /\ req[p].created
    BY <1>2 DEF IInv, NoStaleReservation, UsersOf
  <2> QED BY <2>1 DEF Alone
<1> QED BY <1>1, <1>3, <1>4 DEF IInv

\* The rows keep their types when request q goes on or ends.
LEMMA RequestType ==
  ASSUME TypeOK, NEW q \in Requests, NEW pc \in Phase, NEW result \in {"none", "busy", "ok", "failed"},
         \/ req' = [req EXCEPT ![q].pc = pc]
         \/ Returns(q)
         \/ UNCHANGED req,
         work' = [work EXCEPT ![q] = result] \/ UNCHANGED work
  PROVE  /\ req' \in [Requests -> Request]
         /\ work' \in [Requests -> {"none", "busy", "ok", "failed"}]
         /\ Alone(q)
<1>1. req[q] \in Request /\ Free \in Request
  BY DEF TypeOK, Request, Free, Phase
<1>2. [req[q] EXCEPT !.pc = pc] \in Request
  BY <1>1 DEF Request
<1> QED BY <1>1, <1>2 DEF TypeOK, Returns, Alone

\* A request enters with a row of its organisation, or with none.
LEMMA EnterInv ==
  ASSUME IInv, NEW q \in Requests, NEW o \in Orgs, NEW m \in Names,
         ReuseRow(q, o, m) \/ FindNone(q, o, m)
  PROVE  IInv'
<1> USE DEF IInv, RequestsSound
<1>1. PICK d \in Rows \cup {None}, phase \in {"insert", "reserved"} :
        /\ Enter(q, o, m, phase, d)
        /\ phase = "insert" => d = None
        /\ phase = "reserved" => d \in Live(FunctionOf(m)) /\ rows[d].org = o
  BY DEF ReuseRow, FindNone, Live
<1> DEFINE r == [pc |-> phase, org |-> o, function |-> FunctionOf(m), row |-> d, created |-> FALSE]
<1>2. FunctionOf(m) \in Functions /\ r \in Request
  BY DeploymentAssumption DEF FunctionOf, Request, Phase
<1>3. req' = [req EXCEPT ![q] = r] /\ UNCHANGED <<rows, fn, work, loose, late, deaths, steps>>
  BY <1>1 DEF Enter
<1>4. req'[q] = r /\ Alone(q)
  BY <1>2, <1>3 DEF TypeOK, Alone
<1>5. TypeOK'
  BY <1>2, <1>3 DEF TypeOK
<1>6. req[q].pc = "idle" /\ req[q] = Free /\ work[q] = "none"
  BY DEF ReuseRow, FindNone, At, RequestSound
<1>7. RequestSound(q)'
  BY <1>1, <1>2, <1>3, <1>4, <1>6, DeploymentAssumption DEF RequestSound, Live
<1>8. FunctionsSound'
  BY <1>3 DEF FunctionsSound, Live
<1> QED BY <1>3, <1>4, <1>5, <1>6, <1>7, <1>8, QuietStep DEF At, Free

LEMMA StartDeleteInv ==
  ASSUME IInv, NEW q \in Requests, NEW o \in Orgs, NEW f \in Functions, StartDelete(q, o, f)
  PROVE  IInv'
<1> USE DEF IInv, RequestsSound
<1>1. PICK d \in Live(f) :
        /\ rows[d].org = o
        /\ req' = [req EXCEPT ![q] = [pc |-> "deleting", org |-> o, function |-> f,
                                     row |-> d, created |-> FALSE]]
  BY DEF StartDelete
<1> DEFINE r == [pc |-> "deleting", org |-> o, function |-> f, row |-> d, created |-> FALSE]
<1>2. r \in Request /\ d \in Rows /\ d # None
  BY DeploymentAssumption DEF Live, Request, Phase
<1>3. work' = [work EXCEPT ![q] = "busy"] /\ UNCHANGED <<rows, fn, loose, late, deaths, steps>>
  BY DEF StartDelete
<1>4. req'[q] = r /\ work'[q] = "busy" /\ Alone(q)
  BY <1>1, <1>2, <1>3 DEF TypeOK, Alone
<1>5. TypeOK'
  BY <1>1, <1>2, <1>3 DEF TypeOK
<1>6. req[q] = Free
  BY DEF StartDelete, At, RequestSound
<1>7. RequestSound(q)'
  BY <1>1, <1>2, <1>3, <1>4 DEF RequestSound, Live
<1>8. FunctionsSound'
  BY <1>3 DEF FunctionsSound, Live
<1> QED BY <1>3, <1>4, <1>5, <1>6, <1>7, <1>8, QuietStep DEF At, Free

\* A request that writes no row goes on, or ends.
LEMMA GoOnInv ==
  ASSUME IInv, NEW q \in Requests,
         \/ InsertConflicts(q) \/ Call(q) \/ FailDelete(q)
         \/ (~req[q].created /\ (FailEarly(q) \/ Fail(q) \/ TimeOut(q)))
         \/ (TimeOut(q) /\ At(q, "deleting"))
         \/ Crash(q)
  PROVE  IInv'
<1> USE DEF IInv, RequestsSound
<1>1. UNCHANGED <<rows, fn, loose, steps>>
  BY DEF InsertConflicts, Call, FailDelete, FailEarly, Fail, TimeOut, Crash, Release, At
<1>2. /\ late' \in Nat /\ deaths' \in Nat /\ deaths' \in {deaths, deaths + 1}
      /\ deaths' = 0 => ~Crash(q)
  BY DEF InsertConflicts, Call, FailDelete, FailEarly, Fail, TimeOut, Crash, TypeOK
<1>3. req[q] \in Request /\ RequestSound(q)
  BY DEF TypeOK
<1>4. /\ req' \in [Requests -> Request]
      /\ work' \in [Requests -> {"none", "busy", "ok", "failed"}]
      /\ Alone(q)
  <2> USE RequestType DEF Phase
  <2>1. CASE InsertConflicts(q)
    BY <2>1 DEF InsertConflicts
  <2>2. CASE Call(q)
    BY <2>2 DEF Call
  <2>3. CASE FailDelete(q) \/ Fail(q)
    BY <2>3 DEF FailDelete, Fail
  <2>4. CASE FailEarly(q)
    BY <2>4 DEF FailEarly
  <2>5. CASE TimeOut(q)
    BY <2>5 DEF TimeOut
  <2>6. CASE Crash(q)
    BY <2>6 DEF Crash
  <2> QED BY <2>1, <2>2, <2>3, <2>4, <2>5, <2>6
<1>5. TypeOK'
  BY <1>1, <1>2, <1>4 DEF TypeOK
<1>6. \/ /\ req'[q] = Free /\ work'[q] = "none"
         /\ req[q].created => Crash(q)
      \/ /\ req[q].pc \in {"reserved", "deploying", "deleting"}
         /\ \E pc \in {"deploying", "deleting", "abandonedDeploy", "abandonedDelete"} :
              /\ req'[q] = [req[q] EXCEPT !.pc = pc]
              /\ req[q].created /\ pc = "abandonedDeploy" => Crash(q)
              /\ req[q].created => pc \in {"deploying", "abandonedDeploy"}
         /\ work'[q] = "busy"
  <2>1. req[q].created => req[q].pc \in {"reserved", "deploying", "abandonedDeploy"}
    BY <1>3 DEF RequestSound
  <2>2. CASE \/ InsertConflicts(q) \/ FailDelete(q)
             \/ ~req[q].created /\ (FailEarly(q) \/ Fail(q))
    BY <2>1, <2>2, <1>3
    DEF InsertConflicts, FailDelete, FailEarly, Fail, Returns, TypeOK, RequestSound, At
  <2>3. CASE Call(q)
    BY <2>1, <2>3 DEF Call, At, TypeOK
  <2>4. CASE TimeOut(q) /\ (~req[q].created \/ At(q, "deleting"))
    <3>1. ~req[q].created
      BY <2>1, <2>4 DEF At
    <3>2. work[q] = "busy" /\ work'[q] = "busy" /\ req[q].pc \in {"deploying", "deleting"}
      BY <2>4 DEF TimeOut
    <3>3. \E pc \in {"abandonedDeploy", "abandonedDelete"} : req'[q] = [req[q] EXCEPT !.pc = pc]
      BY <2>4 DEF TimeOut, TypeOK
    <3> QED BY <3>1, <3>2, <3>3
  <2>5. CASE Crash(q)
    <3>1. CASE work[q] = "busy"
      <4>1. req[q].pc \in {"deploying", "deleting"}
        BY <1>3, <2>5, <3>1 DEF Crash, RequestSound
      <4>2. \E pc \in {"abandonedDeploy", "abandonedDelete"} :
              /\ req'[q] = [req[q] EXCEPT !.pc = pc]
              /\ req[q].pc = "deploying" => pc = "abandonedDeploy"
        BY <2>5, <3>1, <4>1 DEF Crash, TypeOK
      <4> QED BY <2>1, <2>5, <3>1, <4>1, <4>2 DEF Crash
    <3>2. CASE work[q] # "busy"
      BY <2>5, <3>2 DEF Crash, Returns, TypeOK
    <3> QED BY <3>1, <3>2
  <2> QED BY <2>2, <2>3, <2>4, <2>5
<1>7. RequestSound(q)'
  BY <1>1, <1>3, <1>6 DEF RequestSound, Free, Request
<1>8. FunctionsSound'
  BY <1>1 DEF FunctionsSound, Live
<1>9. deaths' = 0 /\ req[q].created =>
        /\ req'[q].created /\ req'[q].row = req[q].row
        /\ req'[q].pc # "abandonedDeploy"
  BY <1>2, <1>3, <1>6 DEF Request
<1> QED BY <1>1, <1>2, <1>4, <1>5, <1>6, <1>7, <1>8, <1>9, QuietStep DEF At, Free, Request

\* The deployer builds, removes or fails; nobody may wait for it any more.
LEMMA WorkInv ==
  ASSUME IInv, NEW q \in Requests, Build(q) \/ Remove(q) \/ NuctlFails(q)
  PROVE  IInv'
<1> USE DEF IInv, RequestsSound
<1> DEFINE f == req[q].function
<1>1. PICK result \in {"ok", "failed"} : Concludes(q, result)
  BY DEF Build, Remove, NuctlFails
<1>2. UNCHANGED <<rows, loose, late, deaths, steps>> /\ work[q] = "busy"
  BY DEF Build, Remove, NuctlFails
<1>3. req[q] \in Request /\ RequestSound(q) /\ req[q].row # None
  BY <1>2 DEF TypeOK, RequestSound
<1>4. req[q].row \in Rows /\ req[q].org \in Orgs /\ f \in Functions
  BY <1>3, DeploymentAssumption DEF Request, RequestSound
<1>5. /\ req' \in [Requests -> Request]
      /\ work' \in [Requests -> {"none", "busy", "ok", "failed"}]
      /\ Alone(q)
  BY <1>1, RequestType DEF Concludes, Phase
<1>6. fn' = [fn EXCEPT ![f] = req[q].org] \/ fn' = [fn EXCEPT ![f] = None] \/ fn' = fn
  BY DEF Build, Remove, NuctlFails
<1>7. TypeOK'
  BY <1>2, <1>4, <1>5, <1>6 DEF TypeOK
<1>8. \/ req'[q] = Free /\ work'[q] = "none"
         /\ req[q].pc \in {"abandonedDeploy", "abandonedDelete"}
      \/ req'[q] = req[q] /\ work'[q] = result
         /\ req[q].pc \notin {"abandonedDeploy", "abandonedDelete"}
  BY <1>1 DEF Concludes, Returns, TypeOK
<1>9. RequestSound(q)'
  BY <1>2, <1>3, <1>8 DEF RequestSound, Free
<1>10. FunctionsSound'
  <2>1. f \notin loose => req[q].row \in Live(f) /\ rows[req[q].row].org = req[q].org
    BY <1>3, <1>4 DEF RequestSound, Live
  <2> QED BY <1>2, <1>4, <1>6, <2>1 DEF FunctionsSound, Live, TypeOK
<1>11. deaths = 0 /\ req[q].created /\ req'[q] = Free => rows[req[q].row].state # "live"
  BY <1>3, <1>8 DEF TimeOutsSound, RequestSound, At, Free
<1> QED BY <1>2, <1>3, <1>5, <1>7, <1>8, <1>9, <1>10, <1>11, QuietStep DEF At, Free, TimeOutsSound

-----------------------------------------------------------------------------
(* The steps that write rows.                                                *)

\* A row is given up by its request, which ends or waits no longer.
LEMMA GiveUpInv ==
  ASSUME IInv, NEW q \in Requests,
         \/ req[q].created /\ (FailEarly(q) \/ Fail(q) \/ (TimeOut(q) /\ At(q, "deploying")))
         \/ FinishDelete(q)
  PROVE  IInv'
<1> USE DEF IInv, RequestsSound
<1> DEFINE d == req[q].row
           f == req[q].function
<1>1. req[q] \in Request /\ RequestSound(q)
  BY DEF TypeOK
<1>2. req[q].pc \in {"reserved", "deploying", "deleting", "abandonedDeploy"}
  BY <1>1 DEF RequestSound, FinishDelete, At
<1>3. d # None /\ d \in Rows /\ f \in Functions /\ rows[d].function = f
  BY <1>1, <1>2, DeploymentAssumption DEF RequestSound, Request
<1>4. GiveUp(d, q) /\ UNCHANGED <<fn, deaths, steps>> /\ late' \in Nat
  BY DEF FailEarly, Fail, TimeOut, FinishDelete, Release, At, TypeOK
<1>5. \/ Returns(q) /\ (work' = [work EXCEPT ![q] = "none"] \/ UNCHANGED work)
         /\ work'[q] = "none"
      \/ /\ req' = [req EXCEPT ![q].pc = "abandonedDeploy"]
         /\ UNCHANGED work /\ work[q] = "busy" /\ req[q].created
  <2>1. CASE FailEarly(q)
    BY <2>1, <1>1 DEF FailEarly, RequestSound, At
  <2>2. CASE Fail(q) \/ FinishDelete(q)
    BY <2>2 DEF Fail, FinishDelete, TypeOK
  <2>3. CASE req[q].created /\ TimeOut(q) /\ At(q, "deploying")
    BY <2>3 DEF TimeOut
  <2> QED BY <2>1, <2>2, <2>3
<1>6. /\ req' \in [Requests -> Request]
      /\ work' \in [Requests -> {"none", "busy", "ok", "failed"}]
      /\ Alone(q)
  BY <1>5, RequestType DEF Phase
<1>7. /\ rows' \in [Rows -> Row]
      /\ rows'[d].state = "deleted"
      /\ \A e \in Rows : /\ e # d => rows'[e] = rows[e]
                        /\ rows'[e].function = rows[e].function
                        /\ rows'[e].org = rows[e].org
  BY <1>3, <1>4 DEF GiveUp, TypeOK, Row
<1>8. /\ loose \subseteq loose' /\ loose' \subseteq Functions
      /\ fn[f] # None \/ UsersOf(d) \ {q} # {} \/ work[q] = "busy" => f \in loose'
  BY <1>3, <1>4 DEF GiveUp, TypeOK
<1>9. TypeOK'
  BY <1>4, <1>6, <1>7, <1>8 DEF TypeOK
<1>10. RequestSound(q)'
  <2>1. CASE req'[q] = Free /\ work'[q] = "none"
    BY <2>1 DEF RequestSound, Free
  <2>2. CASE req' = [req EXCEPT ![q].pc = "abandonedDeploy"] /\ UNCHANGED work /\ work[q] = "busy"
    <3>1. req'[q] = [req[q] EXCEPT !.pc = "abandonedDeploy"]
      BY <2>2 DEF TypeOK
    <3> QED BY <1>1, <1>3, <1>7, <1>8, <2>2, <3>1 DEF RequestSound, Request
  <2> QED BY <1>5, <2>1, <2>2 DEF Returns, TypeOK
<1>11. ASSUME NEW p \in Requests \ {q} PROVE RequestSound(p)'
  <2>1. req'[p] = req[p] /\ work'[p] = work[p] /\ RequestSound(p) /\ req[p] \in Request
    BY <1>6 DEF Alone, TypeOK
  <2>2. req[p].row = d => f \in loose' /\ req[p].function = f
    BY <1>3, <1>8, <2>1 DEF UsersOf, RequestSound
  <2>3. req[p].row # None => req[p].row \in Rows
    BY <2>1 DEF Request
  <2> QED BY <1>7, <1>8, <2>1, <2>2, <2>3 DEF RequestSound
<1>12. FunctionsSound'
  <2> SUFFICES ASSUME NEW g \in Functions \ loose', fn[g] # None
               PROVE  \E e \in Live(g)' : rows'[e].org = fn[g]
    BY <1>4 DEF FunctionsSound
  <2>1. PICK e \in Live(g) : rows[e].org = fn[g]
    BY <1>8 DEF FunctionsSound
  <2>2. e # d
    BY <1>3, <1>8, <2>1 DEF Live
  <2> QED BY <1>7, <2>1, <2>2 DEF Live
<1>13. TimeOutsSound'
  <2>1. \A p \in Requests : req'[p].row = d => rows'[req'[p].row].state = "deleted"
    BY <1>7
  <2>2. ASSUME NEW p \in Requests \ {q}, deaths = 0, At(p, "abandonedDeploy"), req[p].created,
               req[p].row # d
        PROVE  rows'[req[p].row].state = "deleted"
    <3>1. req[p].row # None /\ req[p] \in Request /\ rows[req[p].row].state = "deleted"
      BY <2>2 DEF TimeOutsSound, RequestSound, At, TypeOK
    <3> QED BY <1>7, <2>2, <3>1 DEF Request
  <2>3. At(q, "abandonedDeploy")' => req'[q].row = d
    BY <1>1, <1>5 DEF Returns, At, Free, TypeOK, Request
  <2> QED BY <1>4, <1>6, <2>1, <2>2, <2>3 DEF TimeOutsSound, At, Alone
<1>14. NoStaleReservation'
  <2> SUFFICES ASSUME deaths = 0, NEW e \in Rows, rows'[e].state = "live", ~rows'[e].finished
               PROVE  \E p \in Requests : req'[p].row = e /\ req'[p].created
    BY <1>4 DEF NoStaleReservation, UsersOf
  <2>1. e # d /\ rows'[e] = rows[e]
    BY <1>7
  <2>2. PICK p \in Requests : req[p].row = e /\ req[p].created
    BY <2>1 DEF NoStaleReservation, UsersOf
  <2> QED BY <1>6, <2>1, <2>2 DEF Alone
<1> QED BY <1>6, <1>9, <1>10, <1>11, <1>12, <1>13, <1>14

LEMMA InsertRowInv ==
  ASSUME IInv, NEW q \in Requests, InsertRow(q)
  PROVE  IInv'
<1> USE DEF IInv, RequestsSound
<1> DEFINE f == req[q].function
<1>1. PICK d \in Rows :
        /\ rows[d].state = "none"
        /\ rows' = [rows EXCEPT ![d] = [state |-> "live", org |-> req[q].org, function |-> f,
                                       finished |-> FALSE]]
        /\ req' = [req EXCEPT ![q] = [@ EXCEPT !.pc = "reserved", !.row = d, !.created = TRUE]]
  BY DEF InsertRow
<1>2. UNCHANGED <<fn, work, loose, late, deaths, steps>> /\ Live(f) = {}
  BY DEF InsertRow
<1>3. req[q] \in Request /\ RequestSound(q) /\ req[q].pc = "insert"
  BY DEF TypeOK, InsertRow, At
<1>4. req[q].org \in Orgs /\ f \in Functions /\ req[q].row = None /\ work[q] = "none" /\ d # None
  BY <1>3, DeploymentAssumption DEF RequestSound
<1>5. /\ req'[q] = [req[q] EXCEPT !.pc = "reserved", !.row = d, !.created = TRUE]
      /\ req'[q] \in Request
      /\ req' \in [Requests -> Request]
      /\ Alone(q)
  BY <1>1, <1>2, <1>3 DEF TypeOK, Request, Phase, Alone
<1>6. /\ rows' \in [Rows -> Row]
      /\ rows'[d] = [state |-> "live", org |-> req[q].org, function |-> f, finished |-> FALSE]
      /\ \A e \in Rows \ {d} : rows'[e] = rows[e]
  BY <1>1, <1>4 DEF TypeOK, Row
<1>7. TypeOK'
  <2>1. \A e \in Rows \ {d} : rows'[e].state = "live" => rows'[e].function # f
    BY <1>2, <1>6 DEF Live
  <2> QED BY <1>2, <1>5, <1>6, <2>1 DEF TypeOK
<1>8. \A p \in Requests : req[p].row # d
  BY <1>1, <1>4 DEF RequestSound
<1>9. RequestSound(q)'
  BY <1>2, <1>3, <1>4, <1>5, <1>6 DEF RequestSound, Request
<1>10. ASSUME NEW p \in Requests \ {q} PROVE RequestSound(p)'
  <2>1. req'[p] = req[p] /\ work'[p] = work[p] /\ RequestSound(p) /\ req[p] \in Request
    BY <1>5 DEF Alone, TypeOK
  <2>2. req[p].row # None => req[p].row \in Rows /\ rows'[req[p].row] = rows[req[p].row]
    BY <1>6, <1>8, <2>1 DEF Request
  <2> QED BY <1>2, <2>1, <2>2 DEF RequestSound
<1>11. FunctionsSound'
  <2> SUFFICES ASSUME NEW g \in Functions \ loose, fn[g] # None
               PROVE  \E e \in Live(g)' : rows'[e].org = fn[g]
    BY <1>2 DEF FunctionsSound
  <2>1. PICK e \in Live(g) : rows[e].org = fn[g]
    BY DEF FunctionsSound
  <2> QED BY <1>1, <1>6, <2>1 DEF Live
<1>12. TimeOutsSound'
  <2> SUFFICES ASSUME deaths = 0, NEW p \in Requests, req'[p].pc = "abandonedDeploy", req'[p].created
               PROVE  rows'[req'[p].row].state = "deleted"
    BY <1>2 DEF TimeOutsSound, At
  <2>1. p # q /\ req'[p] = req[p] /\ req[p] \in Request /\ RequestSound(p)
    BY <1>5, <1>3 DEF Alone, TypeOK, Request
  <2>2. rows[req[p].row].state = "deleted" /\ req[p].row \in Rows
    BY <2>1 DEF TimeOutsSound, At, RequestSound, Request
  <2> QED BY <1>6, <1>8, <2>1, <2>2
<1>13. NoStaleReservation'
  <2> SUFFICES ASSUME deaths = 0, NEW e \in Rows, rows'[e].state = "live", ~rows'[e].finished
               PROVE  \E p \in Requests : req'[p].row = e /\ req'[p].created
    BY <1>2 DEF NoStaleReservation, UsersOf
  <2>1. CASE e = d
    BY <1>3, <1>5, <2>1 DEF Request
  <2>2. CASE e # d
    <3>1. PICK p \in Requests : req[p].row = e /\ req[p].created
      BY <1>6, <2>2 DEF NoStaleReservation, UsersOf
    <3>2. p # q
      BY <1>3, <3>1 DEF RequestSound
    <3> QED BY <1>5, <3>1, <3>2 DEF Alone
  <2> QED BY <2>1, <2>2
<1> QED BY <1>7, <1>9, <1>10, <1>11, <1>12, <1>13

LEMMA FinishInv ==
  ASSUME IInv, NEW q \in Requests, Finish(q)
  PROVE  IInv'
<1> USE DEF IInv, RequestsSound
<1> DEFINE d == req[q].row
<1>1. req[q] \in Request /\ RequestSound(q) /\ req[q].pc = "deploying"
  BY DEF TypeOK, Finish, At
<1>2. d \in Rows
  BY <1>1 DEF RequestSound, Request
<1>3. UNCHANGED <<fn, loose, late, deaths, steps>>
  BY DEF Finish
<1>4. /\ req' \in [Requests -> Request]
      /\ work' \in [Requests -> {"none", "busy", "ok", "failed"}]
      /\ Alone(q)
  BY RequestType DEF Finish, Phase
<1>5. req'[q] = Free /\ work'[q] = "none"
  BY DEF Finish, Returns, TypeOK
<1>6. /\ rows' \in [Rows -> Row]
      /\ rows'[d].finished = TRUE
      /\ \A e \in Rows : /\ e # d => rows'[e] = rows[e]
                        /\ rows'[e].function = rows[e].function
                        /\ rows'[e].org = rows[e].org
                        /\ rows'[e].state = rows[e].state
  BY <1>2 DEF Finish, TypeOK, Row
<1>7. TypeOK'
  BY <1>3, <1>4, <1>6 DEF TypeOK
<1>8. RequestSound(q)'
  BY <1>5 DEF RequestSound, Free
<1>9. ASSUME NEW p \in Requests \ {q} PROVE RequestSound(p)'
  <2>1. req'[p] = req[p] /\ work'[p] = work[p] /\ RequestSound(p) /\ req[p] \in Request
    BY <1>4 DEF Alone, TypeOK
  <2>2. req[p].row # None => req[p].row \in Rows
    BY <2>1 DEF Request
  <2> QED BY <1>3, <1>6, <2>1, <2>2 DEF RequestSound
<1>10. FunctionsSound'
  BY <1>3, <1>6 DEF FunctionsSound, Live
<1>11. TimeOutsSound'
  <2> SUFFICES ASSUME deaths = 0, NEW p \in Requests, req'[p].pc = "abandonedDeploy", req'[p].created
               PROVE  rows'[req'[p].row].state = "deleted"
    BY <1>3 DEF TimeOutsSound, At
  <2>1. p # q /\ req'[p] = req[p] /\ req[p] \in Request /\ RequestSound(p)
    BY <1>4, <1>5 DEF Alone, TypeOK, Free
  <2>2. rows[req[p].row].state = "deleted" /\ req[p].row \in Rows
    BY <2>1 DEF TimeOutsSound, At, RequestSound, Request
  <2> QED BY <1>6, <2>1, <2>2
<1>12. NoStaleReservation'
  <2> SUFFICES ASSUME deaths = 0, NEW e \in Rows, rows'[e].state = "live", ~rows'[e].finished
               PROVE  \E p \in Requests : req'[p].row = e /\ req'[p].created
    BY <1>3 DEF NoStaleReservation, UsersOf
  <2>1. e # d /\ rows'[e] = rows[e]
    BY <1>6
  <2>2. PICK p \in Requests : req[p].row = e /\ req[p].created
    BY <2>1 DEF NoStaleReservation, UsersOf
  <2> QED BY <1>4, <2>1, <2>2 DEF Alone
<1> QED BY <1>7, <1>8, <1>9, <1>10, <1>11, <1>12

\* The step that deploys without a row makes the name loose, unless it is its own.
LEMMA StepDeploysInv ==
  ASSUME IInv, NEW o \in Orgs, NEW m \in Names, StepDeploys(o, m)
  PROVE  IInv'
<1> USE DEF IInv, RequestsSound
<1> DEFINE f == FunctionOf(m)
<1>1. UNCHANGED <<rows, req, work, late, deaths>> /\ fn' = [fn EXCEPT ![f] = o]
  BY DEF StepDeploys
<1>2. f \in Functions /\ steps' \in Nat
  BY DeploymentAssumption DEF StepDeploys, FunctionOf, TypeOK
<1>3. /\ loose \subseteq loose' /\ loose' \subseteq Functions
      /\ f \in loose' \/ \E d \in Live(f) : rows[d].org = o
  BY <1>2 DEF StepDeploys, TypeOK
<1>4. TypeOK'
  BY <1>1, <1>2, <1>3 DEF TypeOK
<1>5. RequestsSound'
  BY <1>1, <1>3 DEF RequestSound
<1>6. FunctionsSound'
  BY <1>1, <1>2, <1>3 DEF FunctionsSound, Live, TypeOK
<1> QED BY <1>1, <1>4, <1>5, <1>6 DEF TimeOutsSound, NoStaleReservation, At, UsersOf

LEMMA StepInv == ASSUME IInv, [Next]_vars PROVE IInv'
<1>1. CASE UNCHANGED vars
  BY <1>1 DEF vars, IInv, TypeOK, RequestsSound, RequestSound, FunctionsSound, Live, TimeOutsSound, At,
              NoStaleReservation, UsersOf
<1>2. ASSUME NEW q \in Requests, NEW o \in Orgs, NEW m \in Names,
             ReuseRow(q, o, m) \/ FindNone(q, o, m)
      PROVE  IInv'
  BY <1>2, EnterInv
<1>3. ASSUME NEW q \in Requests, NEW o \in Orgs, NEW f \in Functions, StartDelete(q, o, f)
      PROVE  IInv'
  BY <1>3, StartDeleteInv
<1>4. ASSUME NEW q \in Requests, InsertConflicts(q) \/ Call(q) \/ FailDelete(q) \/ Crash(q)
      PROVE  IInv'
  BY <1>4, GoOnInv
<1>5. ASSUME NEW q \in Requests, FailEarly(q) \/ Fail(q) \/ TimeOut(q)
      PROVE  IInv'
  <2>1. req[q].created \in BOOLEAN
    BY DEF IInv, TypeOK, Request
  <2>2. TimeOut(q) => At(q, "deploying") \/ At(q, "deleting")
    BY DEF TimeOut, At
  <2> QED BY <1>5, <2>1, <2>2, GoOnInv, GiveUpInv
<1>6. ASSUME NEW q \in Requests, Build(q) \/ Remove(q) \/ NuctlFails(q) PROVE IInv'
  BY <1>6, WorkInv
<1>7. ASSUME NEW q \in Requests, FinishDelete(q) PROVE IInv'
  BY <1>7, GiveUpInv
<1>8. ASSUME NEW q \in Requests, InsertRow(q) PROVE IInv'
  BY <1>8, InsertRowInv
<1>9. ASSUME NEW q \in Requests, Finish(q) PROVE IInv'
  BY <1>9, FinishInv
<1>10. ASSUME NEW o \in Orgs, NEW m \in Names, StepDeploys(o, m) PROVE IInv'
  BY <1>10, StepDeploysInv
<1> QED BY NextSplit, <1>1, <1>2, <1>3, <1>4, <1>5, <1>6, <1>7, <1>8, <1>9, <1>10

-----------------------------------------------------------------------------
\* The inductive invariant holds of every reachable state.
THEOREM Invariance == Spec => []IInv
<1>1. Init => IInv
  BY InitInv
<1>2. IInv /\ [Next]_vars => IInv'
  BY StepInv
<1> QED BY <1>1, <1>2, PTL DEF Spec

\* Rows, functions and requests keep their types, two live rows never name one
\* function, and the deployer works on a name that is not loose only for the
\* organisation of its live row, however long a request has been given up.
THEOREM DeploymentsAreCovered == Spec => []DeploymentIsSound
<1>1. IInv => DeploymentIsSound
  <2> SUFFICES ASSUME IInv, NEW q \in Requests, work[q] = "busy", req[q].function \notin loose
               PROVE  \E d \in Live(req[q].function) : rows[d].org = req[q].org
    BY DEF DeploymentIsSound, IInv, WorkIsCovered
  <2>1. RequestSound(q) /\ req[q] \in Request
    BY DEF IInv, RequestsSound, TypeOK
  <2>2. req[q].row \in Rows
    BY <2>1 DEF RequestSound, Request
  <2> QED BY <2>1, <2>2, DeploymentAssumption DEF RequestSound, Live
<1> QED BY <1>1, Invariance, PTL

\* What an organisation sees it has deployed itself, unless the name is loose: a
\* live row stands for the function, since both are the same organisation's.
THEOREM OwnersAloneSeeModels == Spec => []OthersModelsStayHidden
<1>1. IInv => OthersModelsStayHidden
  <2> SUFFICES ASSUME IInv, NEW o \in Orgs, NEW f \in Listed(o) \ loose PROVE fn[f] = o
    BY DEF OthersModelsStayHidden
  <2>1. f \in Functions /\ fn[f] # None /\ \E d \in Live(f) : rows[d].org = o
    BY DEF Listed
  <2>2. \E d \in Live(f) : rows[d].org = fn[f]
    BY <2>1 DEF IInv, FunctionsSound
  <2> QED BY <2>1, <2>2 DEF IInv, TypeOK, Live
<1> QED BY <1>1, Invariance, PTL

\* While no API process dies and no release raises, a live row without a function has a
\* request under way that made it: every failure on the way frees the name.
THEOREM FailuresFreeTheName == Spec => []NoStaleReservation
<1>1. IInv => NoStaleReservation
  BY DEF IInv
<1> QED BY <1>1, Invariance, PTL

-----------------------------------------------------------------------------
(* ModelDeployment implements FunctionOwners.                                *)

\* Who owns f: the organisation of its live row.
Own(f) == {rows[d].org : d \in Live(f)}
OwnersNow == [f \in Functions |-> Own(f)]

\* What the deployer has been asked for and not answered, waited for or not.
Asks(q, x) == work[q] = "busy" /\ req[q].function = x[1] /\ req[q].org = x[2]
AskedNow == {x \in Functions \X Orgs : \E q \in Requests : Asks(q, x)}

LEMMA StutterIs ==
  ASSUME OwnersNow' = OwnersNow, AskedNow' = AskedNow, UNCHANGED <<fn, loose>>
  PROVE  UNCHANGED Owners!vars
BY DEF Owners!vars, OwnersNow, Own, AskedNow, Asks

\* A function with a live row has the one owner that the row names.
LEMMA OwnerIs ==
  ASSUME TypeOK, NEW f, NEW d \in Live(f)
  PROVE  Own(f) = {rows[d].org}
<1>1. \A e \in Live(f) : e = d
  BY DEF TypeOK, Live
<1> QED BY <1>1 DEF Own

LEMMA OwnersStay ==
  ASSUME \A d \in Rows : /\ rows'[d].state = rows[d].state
                         /\ rows'[d].function = rows[d].function
                         /\ rows'[d].org = rows[d].org
  PROVE  OwnersNow' = OwnersNow
<1>1. \A f \in Functions : Live(f)' = Live(f) /\ Own(f)' = Own(f)
  BY DEF Live, Own
<1> QED BY <1>1 DEF OwnersNow

LEMMA AskedStays ==
  ASSUME NEW q \in Requests, Alone(q),
         \/ work[q] # "busy" /\ work'[q] # "busy"
         \/ /\ work[q] = "busy" /\ work'[q] = "busy"
            /\ req'[q].function = req[q].function /\ req'[q].org = req[q].org
  PROVE  AskedNow' = AskedNow
<1>1. \A x \in Functions \X Orgs, p \in Requests : Asks(p, x)' <=> Asks(p, x)
  BY DEF Alone, Asks
<1> QED BY <1>1 DEF AskedNow

LEMMA AskedGrows ==
  ASSUME NEW q \in Requests, Alone(q), work[q] # "busy", work'[q] = "busy",
         NEW f \in Functions, NEW o \in Orgs, req'[q].function = f, req'[q].org = o
  PROVE  AskedNow' = AskedNow \cup {<<f, o>>}
<1>1. \A x \in Functions \X Orgs :
        (\E p \in Requests : Asks(p, x)') <=> (\E p \in Requests : Asks(p, x)) \/ x = <<f, o>>
  <2> SUFFICES ASSUME NEW x \in Functions \X Orgs
               PROVE  (\E p \in Requests : Asks(p, x)')
                        <=> (\E p \in Requests : Asks(p, x)) \/ x = <<f, o>>
    OBVIOUS
  <2>1. Asks(q, x)' <=> x = <<f, o>>
    BY DEF Asks
  <2>2. ~Asks(q, x)
    BY DEF Asks
  <2>3. \A p \in Requests \ {q} : Asks(p, x)' <=> Asks(p, x)
    BY DEF Alone, Asks
  <2> QED BY <2>1, <2>2, <2>3
<1> QED BY <1>1 DEF AskedNow

LEMMA AskedEnds ==
  ASSUME NEW q \in Requests, Alone(q), work[q] = "busy", work'[q] # "busy",
         NEW f \in Functions, NEW o \in Orgs, req[q].function = f, req[q].org = o
  PROVE  <<f, o>> \in AskedNow /\ AskedNow' \in {AskedNow, AskedNow \ {<<f, o>>}}
<1>1. <<f, o>> \in AskedNow
  BY DEF AskedNow, Asks
<1>2. \A x \in Functions \X Orgs :
        /\ x # <<f, o>> => ((\E p \in Requests : Asks(p, x)') <=> (\E p \in Requests : Asks(p, x)))
  <2> SUFFICES ASSUME NEW x \in Functions \X Orgs, x # <<f, o>>
               PROVE  (\E p \in Requests : Asks(p, x)') <=> (\E p \in Requests : Asks(p, x))
    OBVIOUS
  <2>1. ~Asks(q, x) /\ ~Asks(q, x)'
    BY DEF Asks
  <2>2. \A p \in Requests \ {q} : Asks(p, x)' <=> Asks(p, x)
    BY DEF Alone, Asks
  <2> QED BY <2>1, <2>2
<1>3. AskedNow \ {<<f, o>>} = AskedNow' \ {<<f, o>>}
  BY <1>2 DEF AskedNow
<1> QED BY <1>1, <1>3

\* The deployer may work for a request that has its row.
LEMMA HolderMay ==
  ASSUME IInv, NEW q \in Requests, req[q].row # None
  PROVE  /\ req[q].function \in Functions /\ req[q].org \in Orgs
         /\ req[q].row \in Rows
         /\ req[q].function \notin loose => req[q].row \in Live(req[q].function)
         /\ req[q].function \in loose \/ req[q].org \in OwnersNow[req[q].function]
<1>1. RequestSound(q) /\ req[q] \in Request
  BY DEF IInv, RequestsSound, TypeOK
<1>2. /\ req[q].row \in Rows /\ req[q].function \in Functions /\ req[q].org \in Orgs
      /\ rows[req[q].row].org = req[q].org /\ rows[req[q].row].function = req[q].function
      /\ req[q].function \notin loose => rows[req[q].row].state = "live"
  BY <1>1 DEF RequestSound, Request
<1> QED BY <1>2 DEF Live, Own, OwnersNow

\* A request that times out leaves the deployer at work.
LEMMA TimeOutMoves ==
  ASSUME TypeOK, NEW q \in Requests, TimeOut(q)
  PROVE  /\ work[q] = "busy" /\ work'[q] = "busy" /\ Alone(q)
         /\ req'[q].function = req[q].function /\ req'[q].org = req[q].org
<1>1. PICK pc : req' = [req EXCEPT ![q].pc = pc] /\ UNCHANGED work /\ work[q] = "busy"
  BY DEF TimeOut
<1>2. req'[q] = [req[q] EXCEPT !.pc = pc] /\ Alone(q)
  BY <1>1 DEF Alone, TypeOK
<1>3. req[q] \in Request
  BY DEF TypeOK
<1> QED BY <1>1, <1>2, <1>3 DEF Request

\* A request enters, ends or goes on, and neither row, function nor thread notices.
LEMMA QuietRefines ==
  ASSUME IInv, NEW q \in Requests,
         \/ \E o \in Orgs, m \in Names : ReuseRow(q, o, m) \/ FindNone(q, o, m)
         \/ InsertConflicts(q) \/ FailDelete(q) \/ Finish(q) \/ Crash(q)
         \/ ~req[q].created /\ (FailEarly(q) \/ Fail(q) \/ TimeOut(q))
         \/ TimeOut(q) /\ At(q, "deleting")
  PROVE  UNCHANGED Owners!vars
<1>0. TypeOK /\ RequestSound(q) /\ req[q] \in Request
  BY DEF IInv, RequestsSound, TypeOK
<1>1. UNCHANGED <<fn, loose>>
  BY DEF ReuseRow, FindNone, Enter, InsertConflicts, FailDelete, Finish, Crash, FailEarly,
         Fail, TimeOut, Release, At
<1>2. OwnersNow' = OwnersNow
  <2>1. CASE Finish(q)
    BY <1>0, <2>1, OwnersStay DEF Finish, TypeOK, Row
  <2>2. CASE ~Finish(q)
    <3>1. UNCHANGED rows
      BY <2>2 DEF ReuseRow, FindNone, Enter, InsertConflicts, FailDelete, Crash, FailEarly,
                  Fail, TimeOut, Release, At
    <3> QED BY <3>1, OwnersStay
  <2> QED BY <2>1, <2>2
<1>3. AskedNow' = AskedNow
  <2>1. CASE \E o \in Orgs, m \in Names : ReuseRow(q, o, m) \/ FindNone(q, o, m)
    <3>1. work' = work /\ work[q] # "busy"
      BY <1>0, <2>1 DEF ReuseRow, FindNone, Enter, At, RequestSound
    <3>2. Alone(q)
      BY <1>0, <2>1 DEF ReuseRow, FindNone, Enter, Alone, TypeOK
    <3> QED BY <3>1, <3>2, AskedStays
  <2>2. CASE \/ InsertConflicts(q) \/ FailDelete(q) \/ Finish(q)
             \/ ~req[q].created /\ (FailEarly(q) \/ Fail(q))
    <3>1. work[q] # "busy" /\ work'[q] # "busy"
      BY <1>0, <2>2
      DEF InsertConflicts, FailDelete, Finish, FailEarly, Fail, At, RequestSound, TypeOK
    <3>2. Alone(q)
      BY <1>0, <2>2
      DEF InsertConflicts, FailDelete, Finish, FailEarly, Fail, Returns, Alone, TypeOK
    <3> QED BY <3>1, <3>2, AskedStays
  <2>3. CASE TimeOut(q)
    BY <1>0, <2>3, TimeOutMoves, AskedStays
  <2>4. CASE Crash(q) /\ work[q] = "busy"
    <3>1. work'[q] = "busy"
      BY <2>4 DEF Crash
    <3>2. /\ Alone(q)
          /\ req'[q].function = req[q].function /\ req'[q].org = req[q].org
      <4>1. PICK pc : req' = [req EXCEPT ![q].pc = pc] /\ UNCHANGED work
        BY <2>4 DEF Crash
      <4>2. req'[q] = [req[q] EXCEPT !.pc = pc] /\ Alone(q)
        BY <1>0, <4>1 DEF Alone, TypeOK
      <4> QED BY <1>0, <4>2 DEF Request
    <3> QED BY <2>4, <3>1, <3>2, AskedStays
  <2>5. CASE Crash(q) /\ work[q] # "busy"
    <3>1. work'[q] # "busy" /\ Alone(q)
      BY <1>0, <2>5 DEF Crash, Returns, Alone, TypeOK
    <3> QED BY <2>5, <3>1, AskedStays
  <2> QED BY <2>1, <2>2, <2>3, <2>4, <2>5
<1> QED BY <1>1, <1>2, <1>3, StutterIs

\* A request asks the deployer, for a row that is its organisation's.
LEMMA AskRefines ==
  ASSUME IInv, NEW q \in Requests,
         Call(q) \/ \E o \in Orgs, f \in Functions : StartDelete(q, o, f)
  PROVE  \E f \in Functions, o \in Orgs : Owners!Ask(f, o)
<1>0. TypeOK /\ RequestSound(q) /\ req[q] \in Request
  BY DEF IInv, RequestsSound, TypeOK
<1>1. /\ UNCHANGED <<rows, fn, loose>> /\ work[q] # "busy" /\ work'[q] = "busy"
      /\ Alone(q)
  BY <1>0 DEF Call, StartDelete, At, RequestSound, TypeOK, Alone
<1>2. OwnersNow' = OwnersNow
  BY <1>1, OwnersStay
<1>3. PICK f \in Functions, o \in Orgs :
        /\ req'[q].function = f /\ req'[q].org = o
        /\ f \in loose \/ o \in OwnersNow[f]
  <2>1. CASE Call(q)
    <3>1. req[q].row # None
      BY <1>0, <2>1 DEF Call, At, RequestSound
    <3>2. req'[q].function = req[q].function /\ req'[q].org = req[q].org
      BY <1>0, <2>1 DEF Call, TypeOK
    <3> QED BY <3>1, <3>2, HolderMay
  <2>2. ASSUME NEW o \in Orgs, NEW f \in Functions, StartDelete(q, o, f)
        PROVE  /\ req'[q].function = f /\ req'[q].org = o
               /\ f \in loose \/ o \in OwnersNow[f]
    BY <1>0, <2>2 DEF StartDelete, TypeOK, Live, Own, OwnersNow
  <2> QED BY <2>1, <2>2
<1>4. AskedNow' = AskedNow \cup {<<f, o>>}
  BY <1>1, <1>3, AskedGrows
<1>5. Owners!Ask(f, o)
  BY <1>1, <1>2, <1>3, <1>4 DEF Owners!Ask, Owners!May, OwnersNow, Own, AskedNow, Asks
<1> QED BY <1>5

\* A row is inserted for a function that has none: its first owner, or its next.
LEMMA InsertRefines ==
  ASSUME IInv, NEW q \in Requests, InsertRow(q)
  PROVE  \E f \in Functions, o \in Orgs : Owners!Reserve(f, o)
<1>0. TypeOK /\ RequestSound(q) /\ req[q] \in Request /\ req[q].pc = "insert"
  BY DEF IInv, RequestsSound, TypeOK, InsertRow, At
<1>1. PICK f \in Functions, o \in Orgs : f = req[q].function /\ o = req[q].org
  BY <1>0 DEF RequestSound
<1>2. work[q] # "busy"
  BY <1>0 DEF RequestSound
<1>3. /\ UNCHANGED <<fn, work, loose>> /\ Live(f) = {}
      /\ Alone(q)
  BY <1>0, <1>1 DEF InsertRow, Alone, TypeOK
<1>4. PICK d \in Rows :
        /\ rows[d].state = "none"
        /\ rows'[d] = [state |-> "live", org |-> o, function |-> f, finished |-> FALSE]
        /\ \A e \in Rows \ {d} : rows'[e] = rows[e]
  BY <1>0, <1>1 DEF InsertRow, TypeOK
<1>5. AskedNow' = AskedNow
  BY <1>3, <1>2, AskedStays
<1>6. OwnersNow[f] = {} /\ OwnersNow' = [OwnersNow EXCEPT ![f] = {o}]
  <2>1. Live(f)' = {d}
    BY <1>3, <1>4 DEF Live
  <2>2. Own(f)' = {o}
    BY <1>4, <2>1 DEF Own
  <2>3. ASSUME NEW g \in Functions, g # f PROVE Own(g)' = Own(g)
    <3>1. Live(g)' = Live(g) /\ d \notin Live(g)
      BY <1>4, <2>3 DEF Live
    <3>2. \A e \in Live(g) : rows'[e] = rows[e]
      BY <1>4, <3>1 DEF Live
    <3> QED BY <3>1, <3>2 DEF Own
  <2> QED BY <1>1, <1>3, <2>2, <2>3 DEF OwnersNow, Own
<1>7. Owners!Reserve(f, o)
  BY <1>3, <1>5, <1>6 DEF Owners!Reserve, OwnersNow, Own, AskedNow, Asks
<1> QED BY <1>1, <1>7

\* The deployer builds, removes or fails for somebody who may ask for it.
LEMMA WorkRefines ==
  ASSUME IInv, NEW q \in Requests, Build(q) \/ Remove(q) \/ NuctlFails(q)
  PROVE  \E f \in Functions, o \in Orgs :
           Owners!Build(f, o) \/ Owners!Remove(f, o) \/ Owners!Fail(f, o)
<1>0. TypeOK /\ RequestSound(q) /\ req[q] \in Request /\ work[q] = "busy"
  BY DEF IInv, RequestsSound, TypeOK, Build, Remove, NuctlFails
<1>1. PICK result \in {"ok", "failed"} : Concludes(q, result)
  BY DEF Build, Remove, NuctlFails
<1>2. work'[q] # "busy" /\ Alone(q) /\ UNCHANGED <<rows, loose>>
  BY <1>0, <1>1 DEF Concludes, Returns, TypeOK, Alone, Build, Remove, NuctlFails
<1>3. req[q].row # None
  BY <1>0 DEF RequestSound
<1>4. PICK f \in Functions, o \in Orgs :
        /\ f = req[q].function /\ o = req[q].org
        /\ f \in loose \/ o \in OwnersNow[f]
  BY <1>3, HolderMay
<1>5. OwnersNow' = OwnersNow
  BY <1>2, OwnersStay
<1>6. <<f, o>> \in AskedNow /\ AskedNow' \in {AskedNow, AskedNow \ {<<f, o>>}}
  BY <1>0, <1>2, <1>4, AskedEnds
<1>7. Owners!Ends(f, o) /\ Owners!May(f, o)
  BY <1>2, <1>4, <1>5, <1>6
  DEF Owners!Ends, Owners!May, OwnersNow, Own, AskedNow, Asks
<1>8. \/ fn' = [fn EXCEPT ![f] = o] \/ fn' = [fn EXCEPT ![f] = None] \/ fn' = fn
  BY <1>4 DEF Build, Remove, NuctlFails
<1>9. Owners!Build(f, o) \/ Owners!Remove(f, o) \/ Owners!Fail(f, o)
  BY <1>7, <1>8 DEF Owners!Build, Owners!Remove, Owners!Fail
<1> QED BY <1>4, <1>9

\* A row is given up, by its request or by a deletion.  Whoever else works for the
\* function holds the same row, so that the function becomes loose.
LEMMA GiveUpRefines ==
  ASSUME IInv, NEW q \in Requests,
         \/ req[q].created /\ (FailEarly(q) \/ Fail(q) \/ (TimeOut(q) /\ At(q, "deploying")))
         \/ FinishDelete(q)
  PROVE  UNCHANGED Owners!vars \/ \E f \in Functions : Owners!GiveUp(f)
<1>0. TypeOK /\ RequestSound(q) /\ req[q] \in Request
  BY DEF IInv, RequestsSound, TypeOK
<1>1. req[q].row # None
  BY <1>0 DEF RequestSound, FinishDelete, At
<1>2. PICK d \in Rows, f \in Functions :
        d = req[q].row /\ f = req[q].function /\ rows[d].function = f
  BY <1>0, <1>1, HolderMay DEF RequestSound
<1>3. GiveUp(d, q) /\ UNCHANGED fn
  BY <1>2 DEF FailEarly, Fail, TimeOut, FinishDelete, Release, At
<1>4. AskedNow' = AskedNow
  <2>1. CASE FailEarly(q) \/ Fail(q) \/ FinishDelete(q)
    <3>1. work[q] # "busy" /\ work'[q] # "busy" /\ Alone(q)
      BY <1>0, <2>1
      DEF FailEarly, Fail, FinishDelete, Returns, At, RequestSound, TypeOK, Alone
    <3> QED BY <3>1, AskedStays
  <2>2. CASE TimeOut(q) /\ At(q, "deploying")
    <3>1. /\ work[q] = "busy" /\ work'[q] = "busy" /\ Alone(q)
          /\ req'[q].function = req[q].function /\ req'[q].org = req[q].org
      BY <1>0, <2>2, TimeOutMoves
    <3> QED BY <3>1, AskedStays
  <2> QED BY <2>1, <2>2
<1>5. /\ rows'[d].state = "deleted"
      /\ \A e \in Rows : /\ e # d => rows'[e] = rows[e]
                        /\ rows'[e].function = rows[e].function
                        /\ rows'[e].org = rows[e].org
      /\ loose' = loose \/ loose' = loose \cup {f}
  BY <1>0, <1>2, <1>3 DEF GiveUp, TypeOK, Row
<1>6. CASE rows[d].state # "live"
  <2>1. f \in loose
    BY <1>0, <1>1, <1>2, <1>6 DEF RequestSound
  <2>2. loose' = loose
    BY <1>5, <2>1
  <2>3. \A g \in Functions : Live(g)' = Live(g)
    BY <1>5, <1>6 DEF Live
  <2>4. \A g \in Functions : Own(g)' = Own(g)
    BY <1>5, <2>3 DEF Own, Live
  <2>5. OwnersNow' = OwnersNow
    BY <2>4 DEF OwnersNow
  <2> QED BY <1>3, <1>4, <2>2, <2>5, StutterIs
<1>7. CASE rows[d].state = "live"
  <2>1. d \in Live(f)
    BY <1>2, <1>7 DEF Live
  <2>2. OwnersNow[f] # {}
    BY <1>2, <2>1 DEF OwnersNow, Own
  <2>3. OwnersNow' = [OwnersNow EXCEPT ![f] = {}]
    <3>1. \A e \in Live(f) : e = d
      BY <1>0, <2>1 DEF TypeOK, Live
    <3>2. Live(f)' = {}
      BY <1>5, <3>1 DEF Live
    <3>3. Own(f)' = {}
      BY <3>2 DEF Own
    <3>4. ASSUME NEW g \in Functions, g # f PROVE Own(g)' = Own(g)
      <4>1. d \notin Live(g) /\ Live(g)' = Live(g)
        BY <1>2, <1>5, <3>4 DEF Live
      <4> QED BY <1>5, <4>1 DEF Own, Live
    <3> QED BY <3>3, <3>4 DEF OwnersNow
  <2>4. \/ fn[f] = None /\ (\A o \in Orgs : <<f, o>> \notin AskedNow) /\ UNCHANGED loose
        \/ loose' = loose \cup {f}
    <3>1. CASE f \in loose
      BY <1>5, <3>1
    <3>2. CASE f \notin loose /\ loose' # loose \cup {f}
      <4>1. fn[f] = None /\ work[q] # "busy" /\ UsersOf(d) \ {q} = {} /\ loose' = loose
        BY <1>2, <1>3, <3>2 DEF GiveUp
      <4>2. ASSUME NEW o \in Orgs, <<f, o>> \in AskedNow PROVE FALSE
        <5>1. PICK p \in Requests : work[p] = "busy" /\ req[p].function = f
          BY <4>2 DEF AskedNow, Asks
        <5>2. req[p].row # None
          BY <5>1 DEF IInv, RequestsSound, RequestSound
        <5>3. req[p].row \in Live(f)
          BY <3>2, <5>1, <5>2, HolderMay
        <5>4. req[p].row = d
          BY <1>0, <2>1, <5>3 DEF TypeOK, Live
        <5> QED BY <4>1, <5>1, <5>4 DEF UsersOf
      <4> QED BY <4>1, <4>2
    <3> QED BY <3>1, <3>2
  <2>5. Owners!GiveUp(f)
    BY <1>3, <1>4, <2>2, <2>3, <2>4
    DEF Owners!GiveUp, OwnersNow, Own, AskedNow, Asks
  <2> QED BY <1>2, <2>5
<1> QED BY <1>6, <1>7

LEMMA StepBuildRefines ==
  ASSUME IInv, NEW o \in Orgs, NEW m \in Names, StepDeploys(o, m)
  PROVE  \E f \in Functions : Owners!StepBuilds(f, o)
<1> DEFINE f == FunctionOf(m)
<1>1. f \in Functions
  BY DeploymentAssumption DEF FunctionOf
<1>2. UNCHANGED <<rows, req, work>> /\ fn' = [fn EXCEPT ![f] = o]
  BY DEF StepDeploys
<1>3. (\E d \in Live(f) : rows[d].org = o) <=> o \in OwnersNow[f]
  BY <1>1 DEF OwnersNow, Own
<1>4. loose' = IF o \in OwnersNow[f] THEN loose ELSE loose \cup {f}
  BY <1>3 DEF StepDeploys
<1>5. OwnersNow' = OwnersNow
  BY <1>2, OwnersStay
<1>6. AskedNow' = AskedNow
  BY <1>2 DEF AskedNow, Asks
<1>7. Owners!StepBuilds(f, o)
  BY <1>2, <1>4, <1>5, <1>6 DEF Owners!StepBuilds, OwnersNow, Own, AskedNow, Asks
<1> QED BY <1>1, <1>7

LEMMA InitOwns == Init => Owners!Init
<1> SUFFICES ASSUME Init PROVE Owners!Init
  OBVIOUS
<1>1. \A f \in Functions : Live(f) = {} /\ Own(f) = {}
  BY DEF Init, Live, NoRow, Own
<1>2. OwnersNow = [f \in Functions |-> {}]
  BY <1>1 DEF OwnersNow
<1>3. AskedNow = {}
  BY DEF Init, AskedNow, Asks
<1> QED BY <1>2, <1>3 DEF Init, Owners!Init, OwnersNow, Own, AskedNow, Asks

LEMMA StepOwns ==
  ASSUME IInv, [Next]_vars
  PROVE  [Owners!Next]_(Owners!vars)
<1>1. CASE UNCHANGED vars
  <2>1. UNCHANGED <<rows, req, work, fn, loose>>
    BY <1>1 DEF vars
  <2>2. AskedNow' = AskedNow
    BY <2>1 DEF AskedNow, Asks
  <2> QED BY <2>1, <2>2, OwnersStay, StutterIs
<1>2. ASSUME NEW q \in Requests,
             \/ \E o \in Orgs, m \in Names : ReuseRow(q, o, m) \/ FindNone(q, o, m)
             \/ InsertConflicts(q) \/ FailDelete(q) \/ Finish(q) \/ Crash(q)
      PROVE  UNCHANGED Owners!vars
  BY <1>2, QuietRefines
<1>3. ASSUME NEW q \in Requests,
             Call(q) \/ \E o \in Orgs, f \in Functions : StartDelete(q, o, f)
      PROVE  Owners!Next
  BY <1>3, AskRefines DEF Owners!Next
<1>4. ASSUME NEW q \in Requests, InsertRow(q) PROVE Owners!Next
  BY <1>4, InsertRefines DEF Owners!Next
<1>5. ASSUME NEW q \in Requests, Build(q) \/ Remove(q) \/ NuctlFails(q) PROVE Owners!Next
  BY <1>5, WorkRefines DEF Owners!Next
<1>6. ASSUME NEW q \in Requests, FailEarly(q) \/ Fail(q) \/ TimeOut(q) \/ FinishDelete(q)
      PROVE  [Owners!Next]_(Owners!vars)
  <2>1. req[q].created \in BOOLEAN
    BY DEF IInv, TypeOK, Request
  <2>2. TimeOut(q) => At(q, "deploying") \/ At(q, "deleting")
    BY DEF TimeOut, At
  <2>3. \/ UNCHANGED Owners!vars
        \/ \E f \in Functions : Owners!GiveUp(f)
    BY <1>6, <2>1, <2>2, QuietRefines, GiveUpRefines
  <2> QED BY <2>3 DEF Owners!Next
<1>7. ASSUME NEW o \in Orgs, NEW m \in Names, StepDeploys(o, m) PROVE Owners!Next
  BY <1>7, StepBuildRefines DEF Owners!Next
<1> QED BY NextSplit, <1>1, <1>2, <1>3, <1>4, <1>5, <1>6, <1>7

\* Whatever times out or dies between the table, the requests and the deployer, each
\* step is one that an owner may take, or makes the function loose.
THEOREM DeploymentsAreOwned == Spec => ImplementsOwners
<1>1. IInv /\ [Next]_vars => [Owners!Next]_(Owners!vars)
  BY StepOwns
<1> QED BY <1>1, InitOwns, Invariance, PTL DEF Spec, ImplementsOwners, Owners!Spec

=============================================================================
