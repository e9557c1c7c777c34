----------------------------- MODULE DagExecution -----------------------------
(***************************************************************************)
(* What the engine promises of the steps of its workflow runs, with no     *)
(* rows, sessions, doorbells or locks: steps are released in the order of  *)
(* the DAG, each is executed at most once, and what a run is reported to   *)
(* be agrees with its steps when it is reported.                           *)
(*                                                                         *)
(* It promises nothing of what a verdict becomes afterwards: a cancelled   *)
(* run may still release steps and be reported succeeded.  Of a cancelled  *)
(* step it promises that it never begins; one that has begun goes on.      *)
(***************************************************************************)
CONSTANTS Runs, Steps, Pred

VARIABLES
  phase,    \* phase[r][s]: how far step s of run r has come
  verdict   \* verdict[r]: what run r is reported to be

vars == <<phase, verdict>>

Init ==
  /\ phase = [r \in Runs |-> [s \in Steps |-> "blocked"]]
  /\ verdict = [r \in Runs |-> "none"]

Done(r)  == {s \in Steps : phase[r][s] = "done"}
Move(r, s, from, to) == phase[r][s] \in from /\ phase' = [phase EXCEPT ![r][s] = to]

Submit(r) ==
  /\ verdict[r] = "none"
  /\ verdict' = [verdict EXCEPT ![r] = "pending"]
  /\ UNCHANGED phase

\* The steps in `copied` are done at once (their result is known from another
\* run), those in `fresh` may start.  A run whose steps are all done may be
\* reported succeeded, and one with a step that cannot start, failed.
Release(r, copied, fresh) ==
  /\ verdict[r] # "none"
  /\ \A s \in copied \cup fresh :
       phase[r][s] = "blocked" /\ Pred[s] \subseteq Done(r) \cup copied
  /\ \A s \in copied : \E q \in Runs : phase[q][s] = "done"
  /\ phase' = [phase EXCEPT ![r] =
       [s \in Steps |-> IF s \in copied THEN "done"
                        ELSE IF s \in fresh THEN "ready" ELSE phase[r][s]]]
  /\ \/ UNCHANGED verdict
     \/ verdict' = [verdict EXCEPT ![r] = "failed"]
     \/ /\ Done(r) \cup copied = Steps
        /\ verdict' = [verdict EXCEPT ![r] = "succeeded"]

Begin(r, s)    == Move(r, s, {"ready"}, "active") /\ UNCHANGED verdict
Complete(r, s) == Move(r, s, {"active", "cut"}, "done") /\ UNCHANGED verdict

\* A step fails while it executes, or because nobody can execute it.
Fail(r, s) ==
  /\ Move(r, s, {"ready", "active", "cut"}, "failed")
  /\ verdict' = [verdict EXCEPT ![r] = "failed"]

\* A step is cancelled before anybody began it, or while or after it was executed;
\* what is done stays done.
Withdraw(r, s) ==
  /\ \/ Move(r, s, {"ready", "failed"}, "withdrawn")
     \/ Move(r, s, {"active", "failed"}, "cut")
  /\ UNCHANGED verdict

\* A cancelled step that has begun comes to a gate, as if it were not cancelled.
Park(r, s) == Move(r, s, {"cut"}, "active") /\ UNCHANGED verdict

Cancel(r) ==
  /\ verdict[r] # "none"
  /\ verdict' = [verdict EXCEPT ![r] = "cancelled"]
  /\ UNCHANGED phase

Next ==
  \E r \in Runs :
    \/ Submit(r) \/ Cancel(r)
    \/ \E copied, fresh \in SUBSET Steps :
         copied \cap fresh = {} /\ Release(r, copied, fresh)
    \/ \E s \in Steps :
         Begin(r, s) \/ Complete(r, s) \/ Fail(r, s) \/ Withdraw(r, s) \/ Park(r, s)

Spec == Init /\ [][Next]_vars

=============================================================================
