---------------------------- MODULE FunctionOwners ----------------------------
(***************************************************************************)
(* What the deployment API promises to the organisations that own a Nuclio *)
(* function, with no rows, requests, timeouts or threads of the deployer:  *)
(* a function has one owner at a time, only its owner has it built or      *)
(* removed, and an owner who gives it up leaves nothing behind for the     *)
(* next one.                                                               *)
(*                                                                         *)
(* It promises nothing of a loose function any more: one that was given up *)
(* while something of its owner went on, or that a workflow built without  *)
(* owning it.                                                              *)
(***************************************************************************)
CONSTANTS Orgs, Functions, None

VARIABLES
  owners, \* owners[f]: the organisation that owns function f, or nobody
  served, \* served[f]: whose deployment of f CVAT serves, or None
  asked,  \* <<f, o>>: the deployer is to build or to remove f for o
  loose   \* the loose functions

vars == <<owners, served, asked, loose>>

Init ==
  /\ owners = [f \in Functions |-> {}]
  /\ served = [f \in Functions |-> None]
  /\ asked = {}
  /\ loose = {}

May(f, o) == f \in loose \/ o \in owners[f]

Reserve(f, o) ==
  /\ owners[f] = {}
  /\ owners' = [owners EXCEPT ![f] = {o}]
  /\ UNCHANGED <<served, asked, loose>>

\* Nothing is served under a function that is given up, and nobody works on it,
\* unless it becomes loose.
GiveUp(f) ==
  /\ owners[f] # {}
  /\ owners' = [owners EXCEPT ![f] = {}]
  /\ \/ served[f] = None /\ (\A o \in Orgs : <<f, o>> \notin asked) /\ UNCHANGED loose
     \/ loose' = loose \cup {f}
  /\ UNCHANGED <<served, asked>>

Ask(f, o) ==
  /\ May(f, o)
  /\ asked' = asked \cup {<<f, o>>}
  /\ UNCHANGED <<owners, served, loose>>

\* The deployer ends what it was asked for, unless it was asked twice.
Ends(f, o) ==
  /\ <<f, o>> \in asked
  /\ asked' \in {asked, asked \ {<<f, o>>}}
  /\ UNCHANGED <<owners, loose>>

Build(f, o)  == Ends(f, o) /\ May(f, o) /\ served' = [served EXCEPT ![f] = o]
Remove(f, o) == Ends(f, o) /\ May(f, o) /\ served' = [served EXCEPT ![f] = None]
Fail(f, o)   == Ends(f, o) /\ UNCHANGED served

\* A workflow builds a function, owned by its organisation or not.
StepBuilds(f, o) ==
  /\ served' = [served EXCEPT ![f] = o]
  /\ loose' = IF o \in owners[f] THEN loose ELSE loose \cup {f}
  /\ UNCHANGED <<owners, asked>>

Next ==
  \E f \in Functions :
    \/ GiveUp(f)
    \/ \E o \in Orgs :
         \/ Reserve(f, o) \/ Ask(f, o)
         \/ Build(f, o) \/ Remove(f, o) \/ Fail(f, o) \/ StepBuilds(f, o)

Spec == Init /\ [][Next]_vars

=============================================================================
