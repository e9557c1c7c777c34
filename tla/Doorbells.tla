------------------------------- MODULE Doorbells -------------------------------
(***************************************************************************)
(* What the engine takes of its workers: rows that wait for one, doorbells *)
(* that call them, and sessions that execute a step.  RunEngine reads so,  *)
(* with a session for each worker and all that steps, advances and the API *)
(* do to rows; the stream, its group, batches, permits, row locks and      *)
(* retries are gone.  A claim is one step, by one session.  A doorbell for *)
(* a row that does not wait any more calls nobody and is none.             *)
(***************************************************************************)
CONSTANTS Jobs, Sessions, None

VARIABLES
  row,   \* row[j]: status of the row, every final or parked one as "settled"
  bells, \* the pending rows whose doorbell is on its way
  sess   \* sess[p]: the row whose step session p executes, or None

vars == <<row, bells, sess>>

Init ==
  /\ row = [j \in Jobs |-> "none"]
  /\ bells = {}
  /\ sess = [p \in Sessions |-> None]

Moves(j, from, to) == row[j] = from /\ row' = [row EXCEPT ![j] = to]

\* A row is committed and rung for, unless the doorbell cannot be rung.
EnqueueStep(j) ==
  /\ Moves(j, "none", "pending")
  /\ bells' = bells \cup {j} \/ UNCHANGED bells
  /\ UNCHANGED sess

\* The sweep rings for a row that waits.
RecoverOrphan(j) ==
  /\ row[j] = "pending"
  /\ bells' = bells \cup {j}
  /\ UNCHANGED <<row, sess>>

\* A session answers the doorbell, and executes the step.
ClaimStep(p, j) ==
  /\ sess[p] = None
  /\ j \in bells
  /\ Moves(j, "pending", "running")
  /\ bells' = bells \ {j}
  /\ sess' = [sess EXCEPT ![p] = j]

\* The step is of a type that the worker does not know.
RejectStep(j) ==
  /\ j \in bells
  /\ Moves(j, "pending", "settled")
  /\ bells' = bells \ {j}
  /\ UNCHANGED sess

\* The step succeeds, fails or parks.
EndStep(p, j) ==
  /\ sess[p] = j
  /\ Moves(j, "running", "settled")
  /\ sess' = [sess EXCEPT ![p] = None]
  /\ UNCHANGED bells

\* Sessions die, or leave a row that they could not write, and doorbells are lost.
Lose(P, J) ==
  /\ sess' = [p \in Sessions |-> IF p \in P THEN None ELSE sess[p]]
  /\ bells' = bells \ J
  /\ UNCHANGED row

Next ==
  \/ \E j \in Jobs :
       \/ EnqueueStep(j) \/ RecoverOrphan(j) \/ RejectStep(j)
       \/ \E p \in Sessions : ClaimStep(p, j) \/ EndStep(p, j)
  \/ \E P \in SUBSET Sessions, J \in SUBSET Jobs : Lose(P, J)

Spec == Init /\ [][Next]_vars

=============================================================================
