-------------------------- MODULE DatasetVersioning --------------------------
(***************************************************************************)
(* The versions of one dataset: immutable commits that pin samples to      *)
(* annotation revisions, and refs (branches and tags) that point at them.  *)
(* Three kinds of writer add commits to a branch:                          *)
(*   "create"       POST /commits, a commit of exactly the samples given;  *)
(*   "fromSamples"  POST /commits/from-samples, the parent's samples with  *)
(*                  a batch of samples at their latest revisions;          *)
(*   "step"         the workflow step commit_dataset, the parent's samples *)
(*                  with a batch of revisions frozen in the run's inputs.  *)
(* The two requests advance the ref with a compare-and-swap of its target, *)
(* the step holds FOR UPDATE on the ref until its transaction commits.     *)
(* Each writer is one Postgres transaction at READ COMMITTED, cut where    *)
(* another writer's commit can come between two of its statements.  Which  *)
(* revision is the latest when a batch is resolved is left open: any batch *)
(* may come from a state of the annotations that has passed.               *)
(*                                                                         *)
(* An operator whose comment says `Wrong' is a plausible bug of the        *)
(* operator below it, used by the project's mutants alone.                 *)
(***************************************************************************)
CONSTANTS
  Samples,   \* samples of the project
  Revisions, \* annotation revisions
  CommitIds, \* ids of commits
  RefIds,    \* ids of refs; a deleted ref's id is not used again
  Names,     \* names of refs
  Kinds,     \* the kinds of writer at work
  Writers,   \* transactions in flight
  None       \* no commit, no ref

ASSUME VersioningAssumption ==
  /\ Kinds \subseteq {"create", "fromSamples", "step"}
  /\ None \notin CommitIds \cup RefIds
  /\ Revisions \cap {"absent", "raw"} = {}

VARIABLES
  commits,  \* commits[c]: the row, its parents' rows and its commit_samples
  refs,     \* refs[i]: the row of ref i
  landed,   \* history: landed[i], the commits that ref i was opened at or moved to
  txn       \* txn[w]: what the transaction of writer w has read

vars == <<commits, refs, landed, txn>>

\* A commit_samples row pins a revision or, as Raw, a sample without one.
Absent == "absent"
Raw    == "raw"
Pin    == Revisions \cup {Raw, Absent}
Tree   == [Samples -> Pin]
NoTree == [s \in Samples |-> Absent]

\* past: the commit and every commit it descends from.
CommitRow == [past : SUBSET CommitIds, kinds : SUBSET Kinds, tree : Tree]
NoCommit  == [past |-> {}, kinds |-> {}, tree |-> NoTree]

RefTypes == {"branch", "tag"}
RefRow   == [type : RefTypes, name : Names, target : CommitIds]
Unborn   == [type |-> "unborn"]
Deleted  == [type |-> "deleted"]

Txn  == [pc : {"based", "locked"}, kind : Kinds, name : Names,
         ref : RefIds \cup {None}, parent : CommitIds \cup {None}]
Idle == [pc |-> "idle"]

TypeOK ==
  /\ commits \in [CommitIds -> CommitRow]
  /\ refs \in [RefIds -> RefRow \cup {Unborn, Deleted}]
  /\ landed \in [RefIds -> SUBSET CommitIds]
  /\ txn \in [Writers -> Txn \cup {Idle}]

Init ==
  /\ commits = [c \in CommitIds |-> NoCommit]
  /\ refs = [i \in RefIds |-> Unborn]
  /\ landed = [i \in RefIds |-> {}]
  /\ txn = [w \in Writers |-> Idle]

Committed == {c \in CommitIds : commits[c].past # {}}
Live      == {i \in RefIds : refs[i].type \in RefTypes}
Named(n)  == {i \in Live : refs[i].name = n}
Branch(n) == {i \in Named(n) : refs[i].type = "branch"}

At(w, pc) == txn[w].pc = pc

\* Wrong: the step reads the ref without FOR UPDATE.
NeverLocked(i) == FALSE

Locked(i) == \E w \in Writers : At(w, "locked") /\ txn[w].ref = i

-----------------------------------------------------------------------------
(* What writers read: the ref, and through it the parent.                    *)

Base(w, pc, kind, n, found) ==
  /\ txn[w] = Idle
  /\ \E i \in IF found = {} THEN {None} ELSE found :
       txn' = [txn EXCEPT ![w] =
         [pc |-> pc, kind |-> kind, name |-> n, ref |-> i,
          parent |-> IF i = None THEN None ELSE refs[i].target]]
  /\ UNCHANGED <<commits, refs, landed>>

\* A request looks for a ref of that name, of any type; two of them are an error.
ReadRef(w, kind, n) ==
  /\ kind # "step"
  /\ \A i, j \in Named(n) : i = j
  /\ Base(w, "based", kind, n, Named(n))

\* The step locks the branch, if there is one, and waits for whoever holds it.
LockBranch(w, n) ==
  /\ \A i \in Branch(n) : ~Locked(i)
  /\ Base(w, "locked", "step", n, Branch(n))

-----------------------------------------------------------------------------
(* What writers write: a commit and the ref that points at it, or nothing.   *)

\* The samples that a writer may add.  A "create" names revisions, of no sample
\* even; a step has dropped the samples without a revision.
Batches(kind) ==
  IF kind = "fromSamples" THEN Tree \ {NoTree}
  ELSE {b \in [Samples -> Pin \ {Raw}] : kind = "step" => b # NoTree}

\* Wrong: a commit of the batch alone.
BatchAlone(kind, parent, batch) == batch

\* The samples of the new commit.  The step leaves out the raw samples of the
\* parent, taking them for rows of a bug that was fixed.
Merged(kind, parent, batch) ==
  LET carried == [s \in Samples |->
        IF kind = "step" /\ commits[parent].tree[s] = Raw THEN Absent
        ELSE commits[parent].tree[s]]
  IN  IF kind = "create" \/ parent = None THEN batch
      ELSE [s \in Samples |-> IF batch[s] # Absent THEN batch[s] ELSE carried[s]]

InsertCommit(w, c) ==
  LET parent == txn[w].parent
      above  == IF parent = None THEN NoCommit ELSE commits[parent]
      kind   == txn[w].kind
  IN  /\ c \notin Committed
      /\ \E batch \in Batches(kind) :
           commits' = [commits EXCEPT ![c] =
             [past  |-> above.past \cup {c},
              kinds |-> above.kinds \cup {kind},
              tree  |-> Merged(kind, parent, batch)]]

\* Wrong: the update compares the target and forgets the id of the ref.
MoveTarget(i, c) ==
  /\ refs' = [j \in RefIds |->
       IF j \in Live /\ refs[j].target = refs[i].target
       THEN [refs[j] EXCEPT !.target = c] ELSE refs[j]]
  /\ landed' = [landed EXCEPT ![i] = @ \cup {c}]

MoveRef(i, c) ==
  /\ refs' = [refs EXCEPT ![i].target = c]
  /\ landed' = [landed EXCEPT ![i] = @ \cup {c}]

InsertRef(i, type, n, c) ==
  /\ refs[i] = Unborn
  /\ \A j \in Named(n) : refs[j].type # type
  /\ refs' = [refs EXCEPT ![i] = [type |-> type, name |-> n, target |-> c]]
  /\ landed' = [landed EXCEPT ![i] = {c}]

Leave(w) == txn' = [txn EXCEPT ![w] = Idle]

\* Wrong: any target will do.
RefStillThere(w) == txn[w].ref \in Live

\* UPDATE refs ... WHERE target_commit_id = :parent.
Swaps(w) == txn[w].ref \in Live /\ refs[txn[w].ref].target = txn[w].parent

\* A request advances the ref it read, if nobody else has.
SwapRef(w) ==
  /\ At(w, "based")
  /\ txn[w].ref # None
  /\ ~Locked(txn[w].ref)
  /\ Swaps(w)
  /\ \E c \in CommitIds : InsertCommit(w, c) /\ MoveRef(txn[w].ref, c)
  /\ Leave(w)

\* Wrong: the row count of the update goes unchecked.
CommitAnyway(w) ==
  /\ At(w, "based")
  /\ txn[w].ref # None
  /\ ~Locked(txn[w].ref)
  /\ ~Swaps(w)
  /\ \E c \in CommitIds : InsertCommit(w, c)
  /\ Leave(w)
  /\ UNCHANGED <<refs, landed>>

\* 409: the commit is rolled back.
Conflict(w) ==
  /\ At(w, "based")
  /\ txn[w].ref # None
  /\ ~Locked(txn[w].ref)
  /\ ~Swaps(w)
  /\ Leave(w)
  /\ UNCHANGED <<commits, refs, landed>>

\* The step advances the ref that it has locked.
AdvanceRef(w) ==
  /\ At(w, "locked")
  /\ txn[w].ref # None
  /\ \E c \in CommitIds : InsertCommit(w, c) /\ MoveRef(txn[w].ref, c)
  /\ Leave(w)

\* The first commit of a branch; the unique constraint on (type, name) admits one.
OpenBranch(w) ==
  /\ txn[w].pc \in {"based", "locked"}
  /\ txn[w].ref = None
  /\ \E c \in CommitIds, i \in RefIds :
       InsertCommit(w, c) /\ InsertRef(i, "branch", txn[w].name, c)
  /\ Leave(w)

\* An exception (the constraint, an unknown ontology) or the death of the process.
RollBack(w) ==
  /\ txn[w] # Idle
  /\ Leave(w)
  /\ UNCHANGED <<commits, refs, landed>>

CreateRef(i, type, n, c) ==
  /\ c \in Committed
  /\ InsertRef(i, type, n, c)
  /\ UNCHANGED <<commits, txn>>

DeleteRef(i) ==
  /\ i \in Live
  /\ ~Locked(i)
  /\ refs' = [refs EXCEPT ![i] = Deleted]
  /\ UNCHANGED <<commits, landed, txn>>

Next ==
  \/ \E w \in Writers :
       \/ \E kind \in Kinds, n \in Names : ReadRef(w, kind, n)
       \/ "step" \in Kinds /\ \E n \in Names : LockBranch(w, n)
       \/ SwapRef(w) \/ Conflict(w) \/ AdvanceRef(w) \/ OpenBranch(w) \/ RollBack(w)
  \/ \E i \in RefIds :
       \/ \E type \in RefTypes, n \in Names, c \in CommitIds : CreateRef(i, type, n, c)
       \/ DeleteRef(i)

Spec == Init /\ [][Next]_vars

-----------------------------------------------------------------------------
\* "No lost updates": every commit that landed on a ref is in the history of
\* the commit that the ref points at, whichever of the two protocols, optimistic
\* or locking, brought it there.
NoLostUpdate ==
  \A i \in Live : landed[i] \subseteq commits[refs[i].target].past

\* "No orphan commits": a commit that no live ref leads to was the work of a
\* branch that somebody deleted.
NoOrphanCommit ==
  \A c \in Committed :
    \E i \in RefIds :
      /\ c \in landed[i]
      /\ refs[i] = Deleted \/ c \in commits[refs[i].target].past

\* Types, and no commit that only a deleted branch could explain.
VersionsAreSound == TypeOK /\ NoOrphanCommit

Pinned(c)  == {s \in Samples : commits[c].tree[s] \in Revisions}
Present(c) == {s \in Samples : commits[c].tree[s] # Absent}

\* The tree accumulates: among steps alone no annotated sample of an earlier
\* version is lost, among from-samples requests alone no sample at all.
TreesAccumulate ==
  \A c \in Committed : \A p \in commits[c].past :
    /\ commits[c].kinds = {"step"} => Pinned(p) \subseteq Pinned(c)
    /\ commits[c].kinds = {"fromSamples"} => Present(p) \subseteq Present(c)

\* A ref only ever moves forward in history, and commits never change.
HistoryOnlyGrows ==
  [][/\ \A c \in Committed : commits'[c] = commits[c]
     /\ \A i \in RefIds : refs'[i].type \in RefTypes /\ i \in Live =>
          commits[refs[i].target].past \subseteq commits'[refs'[i].target].past]_vars

\* Commits are serial: whatever a writer has read and whoever worked beside it,
\* its commit is as if it had been made at once, on the commit that its ref points
\* at then and out of the samples of that commit, and it moves that ref alone.
Serial == INSTANCE SerialVersions WITH
  head <- [i \in RefIds |-> IF i \in Live THEN refs[i].target ELSE refs[i].type]

ImplementsSerial == Serial!Spec

\* What VERSIONING.md says of a tag, and the requests do not keep: they look a
\* branch up by its name alone, and advance the tag that they find.
TagsAreFixed ==
  [][\A i \in Live :
       refs[i].type = "tag" => refs'[i] \in {refs[i], Deleted}]_vars

\* What commit_dataset says of the samples of the parent, and its raw samples
\* refute: "parent-only samples carry forward unchanged".
ParentCarriesForward ==
  [][\A w \in Writers, c \in CommitIds :
       At(w, "locked") /\ txn'[w] = Idle /\ commits'[c] # commits[c] /\ txn[w].parent # None
       => Present(txn[w].parent) \subseteq {s \in Samples : commits'[c].tree[s] # Absent}]_vars

=============================================================================
