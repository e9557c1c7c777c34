---------------------------- MODULE SerialVersions ----------------------------
(***************************************************************************)
(* What the version store promises to those who commit, with no            *)
(* transactions, row locks or compared targets: a commit is made at once,  *)
(* on the commit that its ref points at in that very step, and out of the  *)
(* samples that this commit has.  Commits stay as they are, and the id of  *)
(* a deleted ref is not used again.                                        *)
(*                                                                         *)
(* It promises nothing of which ref a name leads to.                       *)
(***************************************************************************)
CONSTANTS Samples, Revisions, CommitIds, RefIds, Kinds

VARIABLES
  commits, \* commits[c]: its ancestors and itself, the kinds of their writers, its samples
  head     \* head[i]: the commit that ref i points at, or why there is none

vars == <<commits, head>>

Tree  == [Samples -> Revisions \cup {"raw", "absent"}]
Empty == [past |-> {}, kinds |-> {}, tree |-> [s \in Samples |-> "absent"]]

Init ==
  /\ commits = [c \in CommitIds |-> Empty]
  /\ head = [i \in RefIds |-> "unborn"]

Made == {c \in CommitIds : commits[c].past # {}}
Open == {i \in RefIds : head[i] \in CommitIds}

\* What a writer of that kind may make of the tree below its commit: a request
\* for samples drops none, a step leaves every annotated sample annotated and
\* brings none without annotations.
Keeps(kind, below, tree) ==
  \A s \in Samples :
    /\ kind = "fromSamples" /\ below[s] # "absent" => tree[s] # "absent"
    /\ kind = "step" => /\ tree[s] # "raw"
                        /\ below[s] \in Revisions => tree[s] \in Revisions

MakeOn(below, c) ==
  /\ c \notin Made
  /\ \E kind \in Kinds, tree \in Tree :
       /\ Keeps(kind, below.tree, tree)
       /\ commits' = [commits EXCEPT ![c] = [past  |-> below.past \cup {c},
                                             kinds |-> below.kinds \cup {kind},
                                             tree  |-> tree]]

Point(i, c) == head' = [head EXCEPT ![i] = c]

\* The first commit of a branch.
Begin(i, c) == head[i] = "unborn" /\ MakeOn(Empty, c) /\ Point(i, c)

\* A commit on the head of a ref.
Extend(i, c) == i \in Open /\ MakeOn(commits[head[i]], c) /\ Point(i, c)

\* A new ref at an old commit.
Fork(i, c) == head[i] = "unborn" /\ c \in Made /\ Point(i, c) /\ UNCHANGED commits

Delete(i) == i \in Open /\ Point(i, "deleted") /\ UNCHANGED commits

Next ==
  \E i \in RefIds :
    \/ \E c \in CommitIds : Begin(i, c) \/ Extend(i, c) \/ Fork(i, c)
    \/ Delete(i)

Spec == Init /\ [][Next]_vars

=============================================================================
