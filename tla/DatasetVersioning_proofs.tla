---------------------- MODULE DatasetVersioning_proofs ----------------------
(***************************************************************************)
(* Proofs about DatasetVersioning, for any number of samples, commits,     *)
(* refs and writers.  The properties are not inductive by themselves: that *)
(* a branch loses no commit rests on what a commit knows of its past, on a *)
(* ref pointing at a commit that landed on it, and on what the two kinds   *)
(* of writer remember of the ref between reading it and moving it.         *)
(* The second part is about ImportPipeline.                                *)
(***************************************************************************)
EXTENDS DatasetVersioning, ImportPipeline, FiniteSetTheorems, TLAPS

\* Histories are closed: a commit's past holds the past of all its ancestors.
PastSound ==
  \A c \in Committed :
    /\ c \in commits[c].past
    /\ commits[c].past \subseteq Committed
    /\ commits[c].kinds # {}
    /\ \A p \in commits[c].past :
         /\ commits[p].past \subseteq commits[c].past
         /\ commits[p].kinds \subseteq commits[c].kinds

\* A ref points at a commit that landed on it; an id not yet used has none.
RefSound ==
  /\ \A i \in RefIds : landed[i] \subseteq Committed
  /\ \A i \in RefIds : refs[i] = Unborn => landed[i] = {}
  /\ \A i \in Live : refs[i].target \in landed[i]

\* A writer has read a ref together with a commit, or neither.
ReadSound ==
  \A w \in Writers : txn[w] # Idle =>
    /\ txn[w].ref = None <=> txn[w].parent = None
    /\ txn[w].parent # None => txn[w].parent \in Committed

Holds(w, i) == At(w, "locked") /\ txn[w].ref = i

\* A locked ref stays as its holder read it, and has no other holder.
LockSound ==
  \A i \in RefIds : \A w \in Writers : Holds(w, i) =>
    /\ i \in Live
    /\ refs[i].target = txn[w].parent
    /\ \A v \in Writers : Holds(v, i) => v = w

IInv ==
  /\ TypeOK
  /\ PastSound
  /\ RefSound
  /\ ReadSound
  /\ LockSound
  /\ NoLostUpdate
  /\ NoOrphanCommit
  /\ TreesAccumulate

-----------------------------------------------------------------------------
(* Data: what a tree is, and what merging keeps.                             *)

LEMMA PinFacts == Raw \in Pin /\ Absent \in Pin /\ Raw # Absent
                  /\ Raw \notin Revisions /\ Absent \notin Revisions
  BY VersioningAssumption DEF Raw, Absent, Pin

LEMMA BatchType ==
  ASSUME NEW kind, NEW batch \in Batches(kind)
  PROVE  batch \in Tree
  BY DEF Batches, Tree

\* A merged tree is a tree.
LEMMA MergedType ==
  ASSUME TypeOK, NEW kind, NEW parent \in CommitIds \cup {None}, NEW batch \in Tree
  PROVE  Merged(kind, parent, batch) \in Tree
  <1>1. CASE kind = "create" \/ parent = None
    BY <1>1 DEF Merged
  <1>2. CASE kind # "create" /\ parent \in CommitIds
    <2>1. commits[parent].tree \in Tree
      BY <1>2 DEF TypeOK, CommitRow
    <2>2. PICK carried \in [Samples -> Pin] :
            \A s \in Samples : carried[s] =
              IF kind = "step" /\ commits[parent].tree[s] = Raw THEN Absent
              ELSE commits[parent].tree[s]
      <3>1. [s \in Samples |-> IF kind = "step" /\ commits[parent].tree[s] = Raw THEN Absent
                               ELSE commits[parent].tree[s]] \in [Samples -> Pin]
        BY <2>1, PinFacts DEF Tree
      <3> QED BY <3>1
    <2>3. parent # None
      BY <1>2, VersioningAssumption
    <2>4. Merged(kind, parent, batch) =
            [s \in Samples |-> IF batch[s] # Absent THEN batch[s] ELSE carried[s]]
      BY <1>2, <2>2, <2>3 DEF Merged
    <2> QED BY <2>2, <2>4 DEF Tree
  <1> QED BY <1>1, <1>2

\* A from-samples merge drops no sample of the parent, a step's merge no
\* annotated one.
LEMMA MergedKeeps ==
  ASSUME NEW parent \in CommitIds, NEW batch, NEW kind, kind # "create",
         batch \in Batches(kind),
         NEW s \in Samples
  PROVE  /\ kind = "step" /\ commits[parent].tree[s] \in Revisions
              => Merged(kind, parent, batch)[s] \in Revisions
         /\ kind = "fromSamples" /\ commits[parent].tree[s] # Absent
              => Merged(kind, parent, batch)[s] # Absent
  <1>1. parent # None
    BY VersioningAssumption
  <1>2. Merged(kind, parent, batch)[s] =
          IF batch[s] # Absent THEN batch[s]
          ELSE IF kind = "step" /\ commits[parent].tree[s] = Raw THEN Absent
          ELSE commits[parent].tree[s]
    BY <1>1 DEF Merged
  <1>3. kind = "step" => batch[s] \in Pin \ {Raw}
    BY DEF Batches
  <1> QED BY <1>2, <1>3, PinFacts DEF Pin

-----------------------------------------------------------------------------
(* A new commit.                                                             *)

\* Whatever becomes of the refs, a new commit leaves the others as they were
\* and keeps histories closed.
LEMMA NewCommit ==
  ASSUME TypeOK, PastSound, ReadSound,
         NEW w \in Writers, txn[w] # Idle,
         NEW c \in CommitIds, InsertCommit(w, c)
  PROVE  /\ commits' \in [CommitIds -> CommitRow]
         /\ c \notin Committed
         /\ Committed' = Committed \cup {c}
         /\ \A d \in Committed : commits'[d] = commits[d]
         /\ txn[w].parent = None => commits'[c].past = {c}
         /\ txn[w].parent # None =>
              commits'[c].past = commits[txn[w].parent].past \cup {c}
         /\ PastSound'
  <1> DEFINE parent == txn[w].parent
             kind   == txn[w].kind
             above  == IF parent = None THEN NoCommit ELSE commits[parent]
  <1>1. txn[w] \in Txn
    BY DEF TypeOK
  <1>2. parent \in CommitIds \cup {None} /\ kind \in Kinds
    BY <1>1 DEF Txn
  <1>3. PICK batch \in Batches(kind) :
          commits' = [commits EXCEPT ![c] =
            [past |-> above.past \cup {c}, kinds |-> above.kinds \cup {kind},
             tree |-> Merged(kind, parent, batch)]]
    BY DEF InsertCommit
  <1>4. above \in CommitRow
    BY <1>2, PinFacts DEF TypeOK, NoCommit, NoTree, CommitRow, Tree
  <1>5. Merged(kind, parent, batch) \in Tree
    BY <1>2, MergedType, BatchType
  <1>6. commits' \in [CommitIds -> CommitRow]
    BY <1>2, <1>3, <1>4, <1>5 DEF TypeOK, CommitRow
  <1>7. /\ commits'[c].past = above.past \cup {c}
        /\ commits'[c].kinds = above.kinds \cup {kind}
        /\ \A d \in CommitIds : d # c => commits'[d] = commits[d]
    BY <1>3 DEF TypeOK
  <1>8. c \notin Committed
    BY DEF InsertCommit
  <1>9. Committed' = Committed \cup {c}
    BY <1>7 DEF Committed
  <1>10. \A d \in Committed : commits'[d] = commits[d]
    BY <1>7, <1>8 DEF Committed
  <1>11. above.past \subseteq Committed
    BY <1>1, <1>2 DEF ReadSound, PastSound, NoCommit
  <1>12. PastSound'
    <2> SUFFICES ASSUME NEW d \in Committed'
                 PROVE  /\ d \in commits'[d].past
                        /\ commits'[d].past \subseteq Committed'
                        /\ commits'[d].kinds # {}
                        /\ \A p \in commits'[d].past :
                             /\ commits'[p].past \subseteq commits'[d].past
                             /\ commits'[p].kinds \subseteq commits'[d].kinds
      BY DEF PastSound
    <2>1. CASE d = c
      <3>1. ASSUME NEW p \in above.past
            PROVE  /\ p \in Committed
                   /\ commits'[p].past \subseteq above.past
                   /\ commits'[p].kinds \subseteq above.kinds
        <4>1. parent # None /\ parent \in Committed
          BY <1>2, <3>1 DEF NoCommit, ReadSound
        <4>2. p \in Committed
          BY <1>11, <3>1
        <4> QED BY <4>1, <4>2, <1>10, <3>1 DEF PastSound
      <3> QED BY <2>1, <3>1, <1>7, <1>9, <1>11
    <2>2. CASE d # c
      <3>1. d \in Committed
        BY <2>2, <1>9
      <3>2. \A p \in commits[d].past : commits'[p] = commits[p]
        BY <3>1, <1>10 DEF PastSound
      <3> QED BY <3>1, <3>2, <1>9, <1>10 DEF PastSound
    <2> QED BY <2>1, <2>2
  <1>13. /\ txn[w].parent = None => commits'[c].past = {c}
         /\ txn[w].parent # None =>
              commits'[c].past = commits[txn[w].parent].past \cup {c}
    BY <1>7 DEF NoCommit
  <1> QED BY <1>6, <1>8, <1>9, <1>10, <1>12, <1>13

\* A new commit of steps alone has every annotated sample of its ancestors, one
\* of from-samples requests alone has every sample.
LEMMA NewCommitAccumulates ==
  ASSUME TypeOK, PastSound, ReadSound, TreesAccumulate,
         NEW w \in Writers, txn[w] # Idle,
         NEW c \in CommitIds, InsertCommit(w, c)
  PROVE  TreesAccumulate'
  <1> DEFINE parent == txn[w].parent
             kind   == txn[w].kind
             above  == IF parent = None THEN NoCommit ELSE commits[parent]
  <1>1. txn[w] \in Txn
    BY DEF TypeOK
  <1>2. parent \in CommitIds \cup {None} /\ kind \in Kinds
    BY <1>1 DEF Txn
  <1>3. PICK batch \in Batches(kind) :
          commits' = [commits EXCEPT ![c] =
            [past |-> above.past \cup {c}, kinds |-> above.kinds \cup {kind},
             tree |-> Merged(kind, parent, batch)]]
    BY DEF InsertCommit
  <1>4. /\ commits'[c].past = above.past \cup {c}
        /\ commits'[c].kinds = above.kinds \cup {kind}
        /\ commits'[c].tree = Merged(kind, parent, batch)
    BY <1>3 DEF TypeOK
  <1>5. /\ Committed' = Committed \cup {c}
        /\ c \notin Committed
        /\ \A d \in Committed : commits'[d] = commits[d]
    BY NewCommit
  <1> SUFFICES ASSUME NEW d \in Committed', NEW p \in commits'[d].past
               PROVE  /\ commits'[d].kinds = {"step"} => Pinned(p)' \subseteq Pinned(d)'
                      /\ commits'[d].kinds = {"fromSamples"} => Present(p)' \subseteq Present(d)'
    BY DEF TreesAccumulate
  <1>6. CASE d # c
    <2>1. d \in Committed /\ commits'[d] = commits[d]
      BY <1>5, <1>6
    <2>2. p \in Committed /\ commits'[p] = commits[p]
      BY <1>5, <2>1 DEF PastSound
    <2> QED BY <2>1, <2>2 DEF TreesAccumulate, Pinned, Present
  <1>7. CASE d = c /\ p = c
    BY <1>7
  <1>8. CASE d = c /\ p # c
    <2>1. p \in above.past
      BY <1>4, <1>8
    <2>2. parent # None /\ parent \in Committed /\ above = commits[parent]
      BY <1>2, <2>1 DEF NoCommit, ReadSound
    <2>3. p \in Committed /\ commits'[p] = commits[p] /\ p \in commits[parent].past
      BY <1>5, <2>1, <2>2 DEF PastSound
    <2>4. commits[parent].kinds # {}
      BY <2>2 DEF PastSound
    <2>5. parent \in CommitIds
      BY <2>2 DEF Committed
    <2>6. ASSUME commits'[c].kinds = {"step"}
          PROVE  Pinned(p)' \subseteq Pinned(c)'
      <3>1. kind = "step" /\ commits[parent].kinds = {"step"}
        BY <1>4, <2>2, <2>4, <2>6
      <3>2. Pinned(p) \subseteq Pinned(parent)
        BY <2>2, <2>3, <3>1 DEF TreesAccumulate
      <3>3. \A s \in Pinned(parent) : Merged(kind, parent, batch)[s] \in Revisions
        BY <2>5, <3>1, MergedKeeps DEF Pinned
      <3> QED BY <1>4, <2>3, <3>2, <3>3 DEF Pinned
    <2>7. ASSUME commits'[c].kinds = {"fromSamples"}
          PROVE  Present(p)' \subseteq Present(c)'
      <3>1. kind = "fromSamples" /\ commits[parent].kinds = {"fromSamples"}
        BY <1>4, <2>2, <2>4, <2>7
      <3>2. Present(p) \subseteq Present(parent)
        BY <2>2, <2>3, <3>1 DEF TreesAccumulate
      <3>3. \A s \in Present(parent) : Merged(kind, parent, batch)[s] # Absent
        BY <2>5, <3>1, MergedKeeps DEF Present
      <3> QED BY <1>4, <2>3, <3>2, <3>3 DEF Present
    <2> QED BY <1>8, <2>6, <2>7
  <1> QED BY <1>6, <1>7, <1>8

-----------------------------------------------------------------------------
(* The steps, grouped by what they do to refs.                               *)

\* Init satisfies the invariant.
LEMMA InitInv == Init => IInv
  <1> SUFFICES ASSUME Init PROVE IInv
    OBVIOUS
  <1>1. Committed = {} /\ Live = {}
    BY DEF Init, Committed, NoCommit, Live, Unborn, RefTypes
  <1>2. TypeOK
    BY PinFacts DEF Init, TypeOK, CommitRow, NoCommit, NoTree, Tree
  <1>3. \A w \in Writers : txn[w] = Idle /\ ~At(w, "locked")
    BY DEF Init, At, Idle
  <1> QED BY <1>1, <1>2, <1>3 DEF Init, IInv, PastSound, RefSound, ReadSound, LockSound,
                Holds, NoLostUpdate, NoOrphanCommit, TreesAccumulate

\* A writer that leaves, reads or is rolled back changes no row.
LEMMA TxnStep ==
  ASSUME IInv, UNCHANGED <<commits, refs, landed>>,
         TypeOK', ReadSound', LockSound'
  PROVE  IInv'
  BY DEF IInv, PastSound, RefSound, NoLostUpdate, NoOrphanCommit, TreesAccumulate,
         Committed, Live, Pinned, Present

LEMMA LeaveInv ==
  ASSUME IInv, NEW w \in Writers, Leave(w), UNCHANGED <<commits, refs, landed>>
  PROVE  IInv'
  <1>1. TypeOK'
    BY DEF IInv, TypeOK, Leave
  <1>2. \A v \in Writers : txn'[v] = txn[v] \/ txn'[v] = Idle
    BY DEF IInv, TypeOK, Leave
  <1>3. ReadSound'
    BY <1>2 DEF IInv, ReadSound, Committed
  <1>4. \A v \in Writers, i \in RefIds : Holds(v, i)' => Holds(v, i) /\ txn'[v] = txn[v]
    BY <1>2 DEF Holds, At, Idle
  <1>5. LockSound'
    BY <1>4 DEF IInv, LockSound, Live
  <1> QED BY <1>1, <1>3, <1>5, TxnStep

LEMMA ReadRefInv ==
  ASSUME IInv, NEW w \in Writers, NEW kind \in Kinds, NEW n \in Names, ReadRef(w, kind, n)
  PROVE  IInv'
  <1>1. PICK i \in IF Named(n) = {} THEN {None} ELSE Named(n) :
          txn' = [txn EXCEPT ![w] =
            [pc |-> "based", kind |-> kind, name |-> n, ref |-> i,
             parent |-> IF i = None THEN None ELSE refs[i].target]]
    BY DEF ReadRef, Base
  <1>2. UNCHANGED <<commits, refs, landed>>
    BY DEF ReadRef, Base
  <1>3. i = None \/ i \in Live
    BY DEF Named
  <1>4. i # None => refs[i].target \in Committed
    BY <1>3 DEF IInv, RefSound, Live
  <1>5. TypeOK'
    <2>1. i \in RefIds \cup {None}
      BY <1>3 DEF Live
    <2>2. (IF i = None THEN None ELSE refs[i].target) \in CommitIds \cup {None}
      BY <1>4 DEF Committed
    <2> QED BY <1>1, <1>2, <2>1, <2>2 DEF IInv, TypeOK, Txn
  <1>6. ReadSound'
    BY <1>1, <1>2, <1>4, VersioningAssumption DEF IInv, TypeOK, ReadSound, Committed
  <1>7. \A v \in Writers, j \in RefIds : Holds(v, j)' => Holds(v, j) /\ txn'[v] = txn[v]
    BY <1>1 DEF IInv, TypeOK, Holds, At
  <1>8. LockSound'
    BY <1>2, <1>7 DEF IInv, LockSound, Live
  <1> QED BY <1>2, <1>5, <1>6, <1>8, TxnStep

LEMMA LockBranchInv ==
  ASSUME IInv, NEW w \in Writers, "step" \in Kinds, NEW n \in Names, LockBranch(w, n)
  PROVE  IInv'
  <1>1. PICK i \in IF Branch(n) = {} THEN {None} ELSE Branch(n) :
          txn' = [txn EXCEPT ![w] =
            [pc |-> "locked", kind |-> "step", name |-> n, ref |-> i,
             parent |-> IF i = None THEN None ELSE refs[i].target]]
    BY DEF LockBranch, Base
  <1>2. UNCHANGED <<commits, refs, landed>> /\ txn[w] = Idle
    BY DEF LockBranch, Base
  <1>3. i = None \/ (i \in Live /\ ~Locked(i))
    BY DEF Branch, Named, LockBranch
  <1>4. i # None => refs[i].target \in Committed
    BY <1>3 DEF IInv, RefSound, Live
  <1>5. TypeOK'
    <2>1. i \in RefIds \cup {None}
      BY <1>3 DEF Live
    <2>2. (IF i = None THEN None ELSE refs[i].target) \in CommitIds \cup {None}
      BY <1>4 DEF Committed
    <2> QED BY <1>1, <1>2, <2>1, <2>2 DEF IInv, TypeOK, Txn
  <1>6. ReadSound'
    BY <1>1, <1>2, <1>4, VersioningAssumption DEF IInv, TypeOK, ReadSound, Committed
  <1>7. /\ txn'[w].ref = i /\ txn'[w].parent = IF i = None THEN None ELSE refs[i].target
        /\ \A v \in Writers \ {w} : txn'[v] = txn[v]
    BY <1>1 DEF IInv, TypeOK
  <1>8. ASSUME NEW j \in RefIds, NEW v \in Writers, Holds(v, j)'
        PROVE  /\ j \in Live'
               /\ refs'[j].target = txn'[v].parent
               /\ \A u \in Writers : Holds(u, j)' => u = v
    <2>1. CASE j = i
      <3>1. i \in Live /\ ~Locked(i) /\ i # None
        BY <1>3, <2>1, VersioningAssumption
      <3>2. \A u \in Writers : Holds(u, j)' => u = w
        BY <1>7, <2>1, <3>1 DEF Holds, At, Locked
      <3> QED BY <1>2, <1>7, <1>8, <2>1, <3>1, <3>2 DEF Live
    <2>2. CASE j # i
      <3>1. \A u \in Writers : Holds(u, j)' => Holds(u, j) /\ txn'[u] = txn[u]
        BY <1>7, <2>2 DEF Holds, At
      <3> QED BY <1>2, <1>8, <3>1 DEF IInv, LockSound, Live
    <2> QED BY <2>1, <2>2
  <1>9. LockSound'
    BY <1>8 DEF LockSound
  <1> QED BY <1>2, <1>5, <1>6, <1>9, TxnStep

\* A writer moves a ref from its parent to its new commit, whether it has made
\* sure of the target by its lock or by comparing it.
LEMMA MoveInv ==
  ASSUME IInv, NEW w \in Writers, NEW c \in CommitIds, NEW i \in Live,
         txn[w].ref = i, txn[w] # Idle, refs[i].target = txn[w].parent,
         \A v \in Writers : Holds(v, i) => v = w,
         InsertCommit(w, c), MoveRef(i, c), Leave(w)
  PROVE  /\ IInv'
         /\ commits[refs[i].target].past \subseteq commits'[c].past
  <1> USE DEF IInv
  <1>1. /\ commits' \in [CommitIds -> CommitRow]
        /\ c \notin Committed
        /\ Committed' = Committed \cup {c}
        /\ \A d \in Committed : commits'[d] = commits[d]
        /\ PastSound'
    BY NewCommit
  <1>2. refs[i].target \in Committed /\ refs[i].target \in CommitIds /\ i \in RefIds
    BY DEF RefSound, Live, Committed
  <1>3. commits'[c].past = commits[refs[i].target].past \cup {c}
    BY <1>2, NewCommit, VersioningAssumption
  <1>4. /\ refs[i] \in RefRow
        /\ refs'[i] \in RefRow /\ refs'[i].target = c
        /\ \A j \in RefIds \ {i} : refs'[j] = refs[j]
        /\ refs' \in [RefIds -> RefRow \cup {Unborn, Deleted}]
    <2>1. refs[i] \in RefRow
      BY <1>2 DEF TypeOK, Live, Unborn, Deleted, RefTypes
    <2>2. [refs[i] EXCEPT !.target = c] \in RefRow /\ [refs[i] EXCEPT !.target = c].target = c
      BY <2>1 DEF RefRow
    <2> QED BY <1>2, <2>1, <2>2 DEF TypeOK, MoveRef
  <1>5. Live' = Live
    BY <1>2, <1>4 DEF Live, RefRow
  <1>6. /\ landed'[i] = landed[i] \cup {c}
        /\ \A j \in RefIds \ {i} : landed'[j] = landed[j]
        /\ landed' \in [RefIds -> SUBSET CommitIds]
    BY <1>2 DEF MoveRef, TypeOK
  <1>7. \A v \in Writers : txn'[v] = IF v = w THEN Idle ELSE txn[v]
    BY DEF Leave, TypeOK
  <1>8. TypeOK'
    BY <1>1, <1>4, <1>6 DEF TypeOK, Leave
  <1>9. RefSound'
    <2>1. \A j \in RefIds : refs'[j] = Unborn => j # i
      BY <1>4 DEF RefRow, Unborn, RefTypes
    <2> QED BY <2>1, <1>1, <1>2, <1>4, <1>5, <1>6 DEF RefSound, Live
  <1>10. ReadSound'
    BY <1>1, <1>7 DEF ReadSound
  <1>11. LockSound'
    <2>1. \A v \in Writers, j \in RefIds :
            Holds(v, j)' => v # w /\ j # i /\ Holds(v, j) /\ txn'[v] = txn[v]
      BY <1>7 DEF Holds, At, Idle
    <2> QED BY <2>1, <1>4, <1>5 DEF LockSound
  <1>12. NoLostUpdate'
    <2> SUFFICES ASSUME NEW j \in Live
                 PROVE  landed'[j] \subseteq commits'[refs'[j].target].past
      BY <1>5 DEF NoLostUpdate
    <2>1. CASE j = i
      BY <2>1, <1>3, <1>4, <1>6 DEF NoLostUpdate
    <2>2. CASE j # i
      BY <2>2, <1>1, <1>4, <1>6 DEF NoLostUpdate, RefSound, Live
    <2> QED BY <2>1, <2>2
  <1>13. NoOrphanCommit'
    <2> SUFFICES ASSUME NEW d \in Committed'
                 PROVE  \E j \in RefIds : /\ d \in landed'[j]
                                          /\ refs'[j] = Deleted \/ d \in commits'[refs'[j].target].past
      BY DEF NoOrphanCommit
    <2>1. CASE d = c
      BY <2>1, <1>2, <1>3, <1>4, <1>6
    <2>2. CASE d \in Committed
      <3>1. PICK j \in RefIds : /\ d \in landed[j]
                                /\ refs[j] = Deleted \/ d \in commits[refs[j].target].past
        BY <2>2 DEF NoOrphanCommit
      <3>2. CASE j = i
        <4>1. refs[i] # Deleted
          BY <1>4 DEF RefRow, Deleted, RefTypes
        <4> QED BY <3>1, <3>2, <4>1, <1>3, <1>4, <1>6
      <3>3. CASE j # i /\ refs[j] = Deleted
        BY <3>1, <3>3, <1>4, <1>6
      <3>4. CASE j # i /\ refs[j] # Deleted
        <4>1. refs[j] \in RefRow
          BY <3>1, <3>4 DEF TypeOK, RefSound
        <4>2. refs[j].target \in Committed
          BY <4>1 DEF RefSound, Live, RefRow
        <4> QED BY <3>1, <3>4, <4>2, <1>1, <1>4, <1>6
      <3> QED BY <3>2, <3>3, <3>4
    <2> QED BY <2>1, <2>2, <1>1
  <1>14. TreesAccumulate'
    BY NewCommitAccumulates
  <1> QED BY <1>1, <1>3, <1>8, <1>9, <1>10, <1>11, <1>12, <1>13, <1>14

\* A row for a new ref, at a commit that has just been or long been made.
LEMMA InsertRefFacts ==
  ASSUME IInv, NEW i \in RefIds, NEW type \in RefTypes, NEW n \in Names, NEW c \in CommitIds,
         InsertRef(i, type, n, c)
  PROVE  /\ refs[i] = Unborn /\ landed[i] = {} /\ i \notin Live
         /\ refs'[i] \in RefRow /\ refs'[i].target = c /\ landed'[i] = {c}
         /\ \A j \in RefIds \ {i} : refs'[j] = refs[j] /\ landed'[j] = landed[j]
         /\ refs' \in [RefIds -> RefRow \cup {Unborn, Deleted}]
         /\ landed' \in [RefIds -> SUBSET CommitIds]
         /\ Live' = Live \cup {i}
  <1>1. [type |-> type, name |-> n, target |-> c] \in RefRow
    BY DEF RefRow
  <1>2. refs[i] = Unborn /\ landed[i] = {} /\ i \notin Live
    BY DEF InsertRef, IInv, RefSound, Live, Unborn, RefTypes
  <1>3. /\ refs'[i] = [type |-> type, name |-> n, target |-> c] /\ landed'[i] = {c}
        /\ \A j \in RefIds \ {i} : refs'[j] = refs[j] /\ landed'[j] = landed[j]
        /\ refs' \in [RefIds -> RefRow \cup {Unborn, Deleted}]
        /\ landed' \in [RefIds -> SUBSET CommitIds]
    BY <1>1 DEF InsertRef, IInv, TypeOK
  <1>4. Live' = Live \cup {i}
    BY <1>1, <1>3 DEF Live, RefRow
  <1> QED BY <1>1, <1>2, <1>3, <1>4

\* The first commit of a branch opens it.
LEMMA OpenInv ==
  ASSUME IInv, NEW w \in Writers, NEW c \in CommitIds, NEW i \in RefIds,
         txn[w] # Idle, txn[w].ref = None, txn[w].name \in Names,
         InsertCommit(w, c), InsertRef(i, "branch", txn[w].name, c), Leave(w)
  PROVE  IInv'
  <1> USE DEF IInv
  <1>1. /\ commits' \in [CommitIds -> CommitRow]
        /\ c \notin Committed
        /\ Committed' = Committed \cup {c}
        /\ \A d \in Committed : commits'[d] = commits[d]
        /\ PastSound'
    BY NewCommit
  <1>2. commits'[c].past = {c}
    BY NewCommit DEF ReadSound
  <1>3. /\ refs[i] = Unborn /\ landed[i] = {} /\ i \notin Live
        /\ refs'[i] \in RefRow /\ refs'[i].target = c /\ landed'[i] = {c}
        /\ \A j \in RefIds \ {i} : refs'[j] = refs[j] /\ landed'[j] = landed[j]
        /\ refs' \in [RefIds -> RefRow \cup {Unborn, Deleted}]
        /\ landed' \in [RefIds -> SUBSET CommitIds]
        /\ Live' = Live \cup {i}
    BY InsertRefFacts DEF RefTypes
  <1>4. \A v \in Writers : txn'[v] = IF v = w THEN Idle ELSE txn[v]
    BY DEF Leave, TypeOK
  <1>5. TypeOK'
    BY <1>1, <1>3 DEF TypeOK, Leave
  <1>6. RefSound'
    <2>1. refs'[i] # Unborn
      BY <1>3 DEF RefRow, Unborn, RefTypes
    <2> QED BY <2>1, <1>1, <1>3 DEF RefSound, Live
  <1>7. ReadSound'
    BY <1>1, <1>4 DEF ReadSound
  <1>8. LockSound'
    <2>1. \A v \in Writers, j \in RefIds : Holds(v, j)' => Holds(v, j) /\ txn'[v] = txn[v]
      BY <1>4 DEF Holds, At, Idle
    <2> QED BY <2>1, <1>3 DEF LockSound
  <1>9. NoLostUpdate'
    BY <1>1, <1>2, <1>3 DEF NoLostUpdate, RefSound, Live
  <1>10. NoOrphanCommit'
    <2> SUFFICES ASSUME NEW d \in Committed'
                 PROVE  \E j \in RefIds : /\ d \in landed'[j]
                                          /\ refs'[j] = Deleted \/ d \in commits'[refs'[j].target].past
      BY DEF NoOrphanCommit
    <2>1. CASE d = c
      BY <2>1, <1>2, <1>3
    <2>2. CASE d \in Committed
      <3>1. PICK j \in RefIds : /\ d \in landed[j]
                                /\ refs[j] = Deleted \/ d \in commits[refs[j].target].past
        BY <2>2 DEF NoOrphanCommit
      <3>2. j # i
        BY <3>1, <1>3
      <3>3. CASE refs[j] = Deleted
        BY <3>1, <3>2, <3>3, <1>3
      <3>4. CASE refs[j] # Deleted
        <4>1. refs[j] \in RefRow
          BY <3>1, <3>4 DEF TypeOK, RefSound
        <4>2. refs[j].target \in Committed
          BY <4>1 DEF RefSound, Live, RefRow
        <4> QED BY <3>1, <3>2, <4>2, <1>1, <1>3
      <3> QED BY <3>3, <3>4
    <2> QED BY <2>1, <2>2, <1>1
  <1>11. TreesAccumulate'
    BY NewCommitAccumulates
  <1> QED BY <1>1, <1>5, <1>6, <1>7, <1>8, <1>9, <1>10, <1>11

LEMMA CreateRefInv ==
  ASSUME IInv, NEW i \in RefIds, NEW type \in RefTypes, NEW n \in Names, NEW c \in CommitIds,
         CreateRef(i, type, n, c)
  PROVE  IInv'
  <1> USE DEF IInv
  <1>1. UNCHANGED <<commits, txn>> /\ c \in Committed
    BY DEF CreateRef
  <1>2. /\ refs[i] = Unborn /\ landed[i] = {} /\ i \notin Live
        /\ refs'[i] \in RefRow /\ refs'[i].target = c /\ landed'[i] = {c}
        /\ \A j \in RefIds \ {i} : refs'[j] = refs[j] /\ landed'[j] = landed[j]
        /\ refs' \in [RefIds -> RefRow \cup {Unborn, Deleted}]
        /\ landed' \in [RefIds -> SUBSET CommitIds]
        /\ Live' = Live \cup {i}
    BY InsertRefFacts DEF CreateRef
  <1>3. Committed' = Committed
    BY <1>1 DEF Committed
  <1>4. TypeOK' /\ PastSound' /\ ReadSound' /\ TreesAccumulate'
    BY <1>1, <1>2, <1>3 DEF TypeOK, PastSound, ReadSound, TreesAccumulate, Pinned, Present
  <1>5. RefSound'
    <2>1. refs'[i] # Unborn
      BY <1>2 DEF RefRow, Unborn, RefTypes
    <2> QED BY <2>1, <1>1, <1>2, <1>3 DEF RefSound, Live
  <1>6. LockSound'
    BY <1>1, <1>2 DEF LockSound, Holds, At
  <1>7. NoLostUpdate'
    BY <1>1, <1>2 DEF NoLostUpdate, PastSound, Live
  <1>8. NoOrphanCommit'
    BY <1>1, <1>2, <1>3 DEF NoOrphanCommit
  <1> QED BY <1>4, <1>5, <1>6, <1>7, <1>8

LEMMA DeleteRefInv ==
  ASSUME IInv, NEW i \in RefIds, DeleteRef(i)
  PROVE  IInv'
  <1> USE DEF IInv
  <1>1. UNCHANGED <<commits, landed, txn>> /\ i \in Live /\ ~Locked(i)
    BY DEF DeleteRef
  <1>2. refs'[i] = Deleted /\ \A j \in RefIds \ {i} : refs'[j] = refs[j]
    BY DEF DeleteRef, TypeOK
  <1>3. Committed' = Committed /\ Live' = Live \ {i}
    BY <1>1, <1>2 DEF Committed, Live, Deleted, RefTypes
  <1>4. TypeOK' /\ PastSound' /\ ReadSound' /\ TreesAccumulate'
    BY <1>1, <1>3 DEF DeleteRef, TypeOK, PastSound, ReadSound, TreesAccumulate, Pinned, Present
  <1>5. RefSound'
    BY <1>1, <1>2, <1>3 DEF RefSound, Live, Deleted, Unborn
  <1>6. LockSound'
    BY <1>1, <1>2, <1>3 DEF LockSound, Holds, At, Locked
  <1>7. NoLostUpdate'
    BY <1>1, <1>2, <1>3 DEF NoLostUpdate, Live
  <1>8. NoOrphanCommit'
    BY <1>1, <1>2, <1>3 DEF NoOrphanCommit
  <1> QED BY <1>4, <1>5, <1>6, <1>7, <1>8

-----------------------------------------------------------------------------
(* The theorems.                                                             *)

\* A ref that is live before and after a step has only gained history.
Advances(i) ==
  refs'[i].type \in RefTypes /\ i \in Live =>
    commits[refs[i].target].past \subseteq commits'[refs'[i].target].past

\* What a step preserves, and what it may do to commits and refs.
LEMMA StepInv ==
  ASSUME IInv, [Next]_vars
  PROVE  /\ IInv'
         /\ \A c \in Committed : commits'[c] = commits[c]
         /\ \A i \in RefIds : Advances(i)
  <1> DEFINE Goal == /\ IInv'
                     /\ \A c \in Committed : commits'[c] = commits[c]
                     /\ \A i \in RefIds : Advances(i)
  <1>1. ASSUME UNCHANGED <<commits, refs>> PROVE \A i \in RefIds : Advances(i)
    BY <1>1 DEF Advances
  <1>2. ASSUME NEW w \in Writers, NEW kind \in Kinds, NEW n \in Names, ReadRef(w, kind, n)
        PROVE  Goal
    BY <1>1, <1>2, ReadRefInv DEF ReadRef, Base
  <1>3. ASSUME NEW w \in Writers, "step" \in Kinds, NEW n \in Names, LockBranch(w, n)
        PROVE  Goal
    BY <1>1, <1>3, LockBranchInv DEF LockBranch, Base
  <1>4. ASSUME NEW w \in Writers, Conflict(w) \/ RollBack(w)
        PROVE  Goal
    BY <1>1, <1>4, LeaveInv DEF Conflict, RollBack
  <1>5. ASSUME NEW w \in Writers, NEW c \in CommitIds, NEW i \in Live,
               txn[w].ref = i, txn[w] # Idle, refs[i].target = txn[w].parent,
               \A v \in Writers : Holds(v, i) => v = w,
               InsertCommit(w, c), MoveRef(i, c), Leave(w)
        PROVE  Goal
    <2>1. IInv' /\ commits[refs[i].target].past \subseteq commits'[c].past
      BY <1>5, MoveInv
    <2>2. \A d \in Committed : commits'[d] = commits[d]
      BY <1>5, NewCommit DEF IInv
    <2>3. \A j \in RefIds : j # i => refs'[j] = refs[j]
      BY <1>5 DEF MoveRef, IInv, TypeOK, Live
    <2>4. refs'[i].target = c
      <3>1. refs[i] \in RefRow
        BY DEF IInv, TypeOK, Live, Unborn, Deleted, RefTypes
      <3> QED BY <1>5, <3>1 DEF MoveRef, IInv, TypeOK, Live, RefRow
    <2>5. ASSUME NEW j \in RefIds PROVE Advances(j)
      <3>1. j \in Live => refs[j].target \in Committed
        BY DEF IInv, RefSound, Live
      <3> QED BY <2>1, <2>2, <2>3, <2>4, <3>1 DEF Advances
    <2> QED BY <2>1, <2>2, <2>5
  <1>6. ASSUME NEW w \in Writers, SwapRef(w)
        PROVE  Goal
    <2>1. PICK c \in CommitIds : InsertCommit(w, c) /\ MoveRef(txn[w].ref, c)
      BY <1>6 DEF SwapRef
    <2>2. /\ txn[w].ref \in Live /\ refs[txn[w].ref].target = txn[w].parent
          /\ txn[w] # Idle /\ Leave(w)
          /\ \A v \in Writers : ~Holds(v, txn[w].ref)
      BY <1>6 DEF SwapRef, Swaps, Locked, Holds, At, Idle
    <2> QED BY <1>5, <2>1, <2>2
  <1>7. ASSUME NEW w \in Writers, AdvanceRef(w)
        PROVE  Goal
    <2>1. PICK c \in CommitIds : InsertCommit(w, c) /\ MoveRef(txn[w].ref, c)
      BY <1>7 DEF AdvanceRef
    <2>2. txn[w] # Idle /\ Leave(w) /\ txn[w].ref \in RefIds /\ Holds(w, txn[w].ref)
      BY <1>7 DEF AdvanceRef, At, Idle, Holds, IInv, TypeOK, Txn
    <2>3. /\ txn[w].ref \in Live /\ refs[txn[w].ref].target = txn[w].parent
          /\ \A v \in Writers : Holds(v, txn[w].ref) => v = w
      BY <2>2 DEF IInv, LockSound
    <2> QED BY <1>5, <2>1, <2>2, <2>3
  <1>8. ASSUME NEW w \in Writers, OpenBranch(w)
        PROVE  Goal
    <2>1. PICK c \in CommitIds, i \in RefIds :
            InsertCommit(w, c) /\ InsertRef(i, "branch", txn[w].name, c)
      BY <1>8 DEF OpenBranch
    <2>2. txn[w] # Idle /\ txn[w].ref = None /\ txn[w].name \in Names /\ Leave(w)
      BY <1>8 DEF OpenBranch, Idle, IInv, TypeOK, Txn
    <2>3. IInv'
      BY <2>1, <2>2, OpenInv
    <2>4. \A d \in Committed : commits'[d] = commits[d]
      BY <2>1, <2>2, NewCommit DEF IInv
    <2>5. i \notin Live /\ \A j \in RefIds \ {i} : refs'[j] = refs[j]
      BY <2>1, <2>2, InsertRefFacts DEF RefTypes
    <2>6. \A j \in Live : refs[j].target \in Committed
      BY DEF IInv, RefSound, Live
    <2> QED BY <2>3, <2>4, <2>5, <2>6 DEF Advances
  <1>9. ASSUME NEW i \in RefIds, NEW type \in RefTypes, NEW n \in Names, NEW c \in CommitIds,
               CreateRef(i, type, n, c)
        PROVE  Goal
    <2>1. i \notin Live /\ \A j \in RefIds \ {i} : refs'[j] = refs[j]
      BY <1>9, InsertRefFacts DEF CreateRef
    <2>2. IInv' /\ UNCHANGED commits
      BY <1>9, CreateRefInv DEF CreateRef
    <2> QED BY <2>1, <2>2 DEF Advances
  <1>10. ASSUME NEW i \in RefIds, DeleteRef(i)
         PROVE  Goal
    <2>1. refs'[i] = Deleted /\ \A j \in RefIds \ {i} : refs'[j] = refs[j]
      BY <1>10 DEF DeleteRef, IInv, TypeOK
    <2>2. IInv' /\ UNCHANGED commits
      BY <1>10, DeleteRefInv DEF DeleteRef
    <2> QED BY <2>1, <2>2 DEF Advances, Deleted, RefTypes
  <1>11. CASE UNCHANGED vars
    <2>1. TypeOK' /\ ReadSound' /\ LockSound'
      BY <1>11 DEF vars, IInv, TypeOK, ReadSound, LockSound, Holds, At, Committed, Live
    <2> QED BY <2>1, <1>1, <1>11, TxnStep DEF vars
  <1>12. CASE Next
    BY <1>12, <1>2, <1>3, <1>4, <1>6, <1>7, <1>8, <1>9, <1>10 DEF Next
  <1> QED BY <1>11, <1>12

\* Types, the closed histories, what refs and writers know, and the three
\* invariants below hold together in every reachable state.
THEOREM Invariance == Spec => []IInv
  <1>1. Init => IInv
    BY InitInv
  <1>2. IInv /\ [Next]_vars => IInv'
    BY StepInv
  <1> QED BY <1>1, <1>2, PTL DEF Spec

\* No commit that landed on a live ref drops out of its history, although one
\* kind of writer compares the target and the other locks the row.
THEOREM NoUpdateIsLost == Spec => []NoLostUpdate
  <1>1. IInv => NoLostUpdate
    BY DEF IInv
  <1> QED BY <1>1, Invariance, PTL

\* Commits, refs and transactions keep their types, and a commit that no ref leads
\* to belonged to a branch that was deleted.
THEOREM NoCommitIsOrphaned == Spec => []VersionsAreSound
  <1>1. IInv => VersionsAreSound
    BY DEF IInv, VersionsAreSound
  <1> QED BY <1>1, Invariance, PTL

\* The trees of a branch accumulate along its history.
THEOREM TreesKeepSamples == Spec => []TreesAccumulate
  <1>1. IInv => TreesAccumulate
    BY DEF IInv
  <1> QED BY <1>1, Invariance, PTL

\* Commits never change, and refs only move to descendants of their targets.
THEOREM HistoryIsAppendOnly == Spec => HistoryOnlyGrows
  <1>1. IInv /\ [Next]_vars =>
          /\ \A c \in Committed : commits'[c] = commits[c]
          /\ \A i \in RefIds : refs'[i].type \in RefTypes /\ i \in Live =>
               commits[refs[i].target].past \subseteq commits'[refs'[i].target].past
    BY StepInv DEF Advances
  <1> QED BY <1>1, Invariance, PTL DEF Spec, HistoryOnlyGrows

-----------------------------------------------------------------------------
(* DatasetVersioning implements SerialVersions.                              *)

\* What a writer makes of its parent's tree, a serial commit may make of it.
LEMMA MergedIsKept ==
  ASSUME NEW kind, NEW parent \in CommitIds \cup {None}, NEW batch \in Batches(kind)
  PROVE  Serial!Keeps(kind, IF parent = None THEN NoTree ELSE commits[parent].tree,
                      Merged(kind, parent, batch))
  <1>1. CASE parent = None
    <2>1. Merged(kind, parent, batch) = batch
      BY <1>1 DEF Merged
    <2>2. kind = "step" => \A s \in Samples : batch[s] # Raw
      BY DEF Batches
    <2> QED BY <1>1, <2>1, <2>2, PinFacts DEF Serial!Keeps, NoTree, Absent, Raw
  <1>2. CASE parent # None
    <2>1. parent \in CommitIds
      BY <1>2
    <2>2. ASSUME kind = "step", NEW s \in Samples
          PROVE  Merged(kind, parent, batch)[s] # Raw
      <3>1. batch[s] # Raw
        BY <2>2 DEF Batches
      <3>2. Merged(kind, parent, batch)[s] =
              IF batch[s] # Absent THEN batch[s]
              ELSE IF commits[parent].tree[s] = Raw THEN Absent ELSE commits[parent].tree[s]
        BY <1>2, <2>2 DEF Merged
      <3> QED BY <3>1, <3>2, PinFacts
    <2>3. ASSUME kind = "step" \/ kind = "fromSamples", NEW s \in Samples
          PROVE  /\ kind = "step" /\ commits[parent].tree[s] \in Revisions
                      => Merged(kind, parent, batch)[s] \in Revisions
                 /\ kind = "fromSamples" /\ commits[parent].tree[s] # Absent
                      => Merged(kind, parent, batch)[s] # Absent
      BY <2>1, <2>3, MergedKeeps
    <2> QED BY <1>2, <2>2, <2>3 DEF Serial!Keeps, Absent, Raw
  <1> QED BY <1>1, <1>2

\* The commit that a writer inserts is made on what it has read as its parent.
LEMMA InsertIsMade ==
  ASSUME TypeOK, NEW w \in Writers, txn[w] # Idle, NEW c \in CommitIds, InsertCommit(w, c)
  PROVE  Serial!MakeOn(IF txn[w].parent = None THEN Serial!Empty ELSE commits[txn[w].parent], c)
  <1> DEFINE parent == txn[w].parent
             kind   == txn[w].kind
             above  == IF parent = None THEN NoCommit ELSE commits[parent]
  <1>1. txn[w] \in Txn
    BY DEF TypeOK
  <1>2. parent \in CommitIds \cup {None} /\ kind \in Kinds
    BY <1>1 DEF Txn
  <1>3. PICK batch \in Batches(kind) :
          commits' = [commits EXCEPT ![c] =
            [past |-> above.past \cup {c}, kinds |-> above.kinds \cup {kind},
             tree |-> Merged(kind, parent, batch)]]
    BY DEF InsertCommit
  <1>4. Merged(kind, parent, batch) \in Serial!Tree
    BY <1>2, MergedType, BatchType DEF Tree, Pin, Raw, Absent, Serial!Tree
  <1>5. Serial!Keeps(kind, above.tree, Merged(kind, parent, batch))
    BY <1>2, MergedIsKept DEF NoCommit
  <1>6. above = IF parent = None THEN Serial!Empty ELSE commits[parent]
    BY DEF NoCommit, NoTree, Absent, Serial!Empty
  <1>7. c \notin Serial!Made
    BY DEF InsertCommit, Committed, Serial!Made
  <1> QED BY <1>2, <1>3, <1>4, <1>5, <1>6, <1>7 DEF Serial!MakeOn

\* One ref is moved, made or deleted.
LEMMA RefIsPointed ==
  ASSUME NEW i \in RefIds, NEW v,
         \A j \in RefIds \ {i} : refs'[j] = refs[j],
         v = IF refs'[i].type \in RefTypes THEN refs'[i].target ELSE refs'[i].type
  PROVE  Serial!Point(i, v)
  BY DEF Serial!Point, Live

\* A move of a ref that its writer is sure of extends the ref.
LEMMA MoveExtends ==
  ASSUME IInv, NEW w \in Writers, NEW c \in CommitIds, NEW i \in Live,
         txn[w].ref = i, txn[w] # Idle, refs[i].target = txn[w].parent,
         InsertCommit(w, c), MoveRef(i, c)
  PROVE  Serial!Extend(i, c)
  <1>1. i \in RefIds /\ refs[i] \in RefRow /\ refs[i].target \in CommitIds
    BY DEF IInv, TypeOK, Live, Unborn, Deleted, RefTypes, RefRow
  <1>2. /\ refs'[i] = [refs[i] EXCEPT !.target = c]
        /\ \A j \in RefIds \ {i} : refs'[j] = refs[j]
    BY <1>1 DEF MoveRef, IInv, TypeOK
  <1>3. refs'[i].type \in RefTypes /\ refs'[i].target = c
    BY <1>1, <1>2 DEF RefRow
  <1>4. Serial!Point(i, c)
    BY <1>1, <1>2, <1>3, RefIsPointed
  <1>5. txn[w].parent # None
    BY <1>1, VersioningAssumption
  <1>6. Serial!MakeOn(commits[refs[i].target], c)
    BY <1>5, InsertIsMade DEF IInv
  <1> QED BY <1>1, <1>4, <1>6 DEF Serial!Extend, Serial!Open

LEMMA InitIsSerial == Init => Serial!Init
  BY DEF Init, Serial!Init, Serial!Empty, NoCommit, NoTree, Absent, Live, Unborn, RefTypes

\* Each step is a step of the serial store, or changes nothing there.
LEMMA StepIsSerial ==
  ASSUME IInv, [Next]_vars
  PROVE  [Serial!Next]_(Serial!vars)
  <1>1. ASSUME UNCHANGED <<commits, refs>>
        PROVE  UNCHANGED Serial!vars
    BY <1>1 DEF Serial!vars, Live
  <1>2. ASSUME NEW w \in Writers, NEW c \in CommitIds, NEW i \in Live,
               txn[w].ref = i, txn[w] # Idle, refs[i].target = txn[w].parent,
               InsertCommit(w, c), MoveRef(i, c)
        PROVE  Serial!Next
    <2>1. Serial!Extend(i, c)
      BY <1>2, MoveExtends
    <2> QED BY <2>1 DEF Serial!Next, Live
  <1>3. ASSUME NEW w \in Writers, SwapRef(w)
        PROVE  Serial!Next
    <2>1. PICK c \in CommitIds : InsertCommit(w, c) /\ MoveRef(txn[w].ref, c)
      BY <1>3 DEF SwapRef
    <2>2. txn[w] # Idle /\ txn[w].ref \in Live /\ refs[txn[w].ref].target = txn[w].parent
      BY <1>3 DEF SwapRef, Swaps, At, Idle
    <2> QED BY <1>2, <2>1, <2>2
  <1>4. ASSUME NEW w \in Writers, AdvanceRef(w)
        PROVE  Serial!Next
    <2>1. PICK c \in CommitIds : InsertCommit(w, c) /\ MoveRef(txn[w].ref, c)
      BY <1>4 DEF AdvanceRef
    <2>2. txn[w] # Idle /\ txn[w].ref \in RefIds /\ Holds(w, txn[w].ref)
      BY <1>4 DEF AdvanceRef, At, Idle, Holds, IInv, TypeOK, Txn
    <2>3. txn[w].ref \in Live /\ refs[txn[w].ref].target = txn[w].parent
      BY <2>2 DEF IInv, LockSound
    <2> QED BY <1>2, <2>1, <2>2, <2>3
  <1>5. ASSUME NEW w \in Writers, OpenBranch(w)
        PROVE  Serial!Next
    <2>1. PICK c \in CommitIds, i \in RefIds :
            InsertCommit(w, c) /\ InsertRef(i, "branch", txn[w].name, c)
      BY <1>5 DEF OpenBranch
    <2>2. txn[w] # Idle /\ txn[w].ref = None /\ txn[w].name \in Names
      BY <1>5 DEF OpenBranch, Idle, IInv, TypeOK, Txn
    <2>3. txn[w].parent = None
      BY <2>2 DEF IInv, ReadSound
    <2>4. Serial!MakeOn(Serial!Empty, c)
      BY <2>1, <2>2, <2>3, InsertIsMade DEF IInv
    <2>5. /\ refs[i] = Unborn /\ i \notin Live /\ refs'[i] \in RefRow /\ refs'[i].target = c
          /\ \A j \in RefIds \ {i} : refs'[j] = refs[j]
      BY <2>1, <2>2, InsertRefFacts DEF RefTypes
    <2>6. Serial!Point(i, c)
      BY <2>5, RefIsPointed DEF RefRow
    <2>7. Serial!Begin(i, c)
      BY <2>4, <2>5, <2>6 DEF Serial!Begin, Unborn
    <2> QED BY <2>7 DEF Serial!Next
  <1>6. ASSUME NEW i \in RefIds, NEW type \in RefTypes, NEW n \in Names, NEW c \in CommitIds,
               CreateRef(i, type, n, c)
        PROVE  Serial!Next
    <2>1. /\ refs[i] = Unborn /\ i \notin Live /\ refs'[i] \in RefRow /\ refs'[i].target = c
          /\ \A j \in RefIds \ {i} : refs'[j] = refs[j]
      BY <1>6, InsertRefFacts DEF CreateRef
    <2>2. Serial!Point(i, c)
      BY <2>1, RefIsPointed DEF RefRow
    <2>3. c \in Serial!Made /\ UNCHANGED commits
      BY <1>6 DEF CreateRef, Committed, Serial!Made
    <2>4. Serial!Fork(i, c)
      BY <2>1, <2>2, <2>3 DEF Serial!Fork, Unborn
    <2> QED BY <2>4 DEF Serial!Next
  <1>7. ASSUME NEW i \in RefIds, DeleteRef(i)
        PROVE  Serial!Next
    <2>1. /\ i \in Live /\ refs[i].target \in CommitIds /\ UNCHANGED commits
          /\ refs'[i] = Deleted /\ \A j \in RefIds \ {i} : refs'[j] = refs[j]
      BY <1>7 DEF DeleteRef, IInv, TypeOK, RefSound, Live
    <2>2. Serial!Point(i, "deleted")
      BY <2>1, RefIsPointed DEF Deleted, RefTypes
    <2>3. Serial!Delete(i)
      BY <2>1, <2>2 DEF Serial!Delete, Serial!Open
    <2> QED BY <2>3 DEF Serial!Next
  <1>8. CASE UNCHANGED vars
    BY <1>1, <1>8 DEF vars
  <1>9. CASE Next
    <2>1. ASSUME NEW w \in Writers, NEW kind \in Kinds, NEW n \in Names,
                 ReadRef(w, kind, n) \/ LockBranch(w, n)
          PROVE  UNCHANGED <<commits, refs>>
      BY <2>1 DEF ReadRef, LockBranch, Base
    <2>2. ASSUME NEW w \in Writers, Conflict(w) \/ RollBack(w)
          PROVE  UNCHANGED <<commits, refs>>
      BY <2>2 DEF Conflict, RollBack
    <2> QED BY <1>1, <1>3, <1>4, <1>5, <1>6, <1>7, <1>9, <2>1, <2>2 DEF Next
  <1> QED BY <1>8, <1>9

\* Every commit is as if it had been made at once, on the commit that its ref points
\* at then, whichever of the two protocols its writer follows.
THEOREM CommitsAreSerial == Spec => ImplementsSerial
  <1>1. IInv /\ [Next]_vars => [Serial!Next]_(Serial!vars)
    BY StepIsSerial
  <1> QED BY <1>1, InitIsSerial, Invariance, PTL DEF Spec, ImplementsSerial, Serial!Spec

-----------------------------------------------------------------------------
(***************************************************************************)
(* What arrives in a branch from imports: proofs about ImportPipeline, for *)
(* any number of imports and images and any requests.  An import reaches   *)
(* the branch through several steps, while other imports give its images   *)
(* new revisions and sources; what its commit holds rests on what the run  *)
(* remembers of its own steps, and on which commit placed a sample.        *)
(***************************************************************************)

\* An entry of the branch's log; its tree maps samples to what is pinned.
PinRow == [rev : Revision \cup {Nil}, split : Split]
Entry  == [by : Imports \cup {Nil}, batch : SUBSET Images,
           tree : UNION {[S -> PinRow] : S \in SUBSET Images}]

\* The labels that a commit of i is to pin.
OwnLabel(i, r) ==
  IF Req(i).review THEN r.by = i /\ r.kind = "review"
  ELSE r.by = job[i].got.of /\ r.kind = "import"

\* An image that has revisions in R has a newest one there.
HasNewest(R, x) ==
  (\E r \in R : r.image = x) =>
    \E r \in R : r.image = x /\ \A q \in R : q.image = x => q.no <= r.no

\* What an import gave: revisions of its own, of what it read; the splits of the folders
\* or none; and a source to each image.
OutputSound(o) ==
  /\ \A r \in o.revs :
       r.by = o.of /\ r.kind = "import" /\ r.image \in ImagesIn(o.files)
  /\ \A x \in Images : HasNewest(o.revs, x)
  /\ o.splits # Nil =>
       /\ DOMAIN o.splits = ImagesIn(o.files)
       /\ \A k \in DOMAIN o.files : o.splits[o.files[k].image] = o.files[k].split
  /\ \A x \in ImagesIn(o.files) : source[x] # Nil

\* What a run that was started holds of its request and of the import whose output it
\* got: revisions of what was read, of the kind that was asked for once the run is past
\* its review.
JobSound(i) ==
  /\ JobAt(i, "none") => job[i] = NoJob
  /\ ~JobAt(i, "none") => Req(i) \in Requests
  /\ job[i].got # Nil => OutputSound(job[i].got)
  /\ job[i].pc \in {"review", "resolve", "commit", "done"} =>
       /\ job[i].got # Nil
       /\ \A r \in job[i].out : r.image \in ImagesIn(Files(i))
       /\ \A x \in Images : HasNewest(job[i].out, x)
  /\ job[i].pc \in {"resolve", "commit", "done"} => \A r \in job[i].out : OwnLabel(i, r)
  /\ JobAt(i, "review") => Req(i).review
  /\ job[i].pc \in {"commit", "done"} /\ Req(i).wired => SplitsOf(i) # Nil

\* What a commit of a run holds of that run, which is done.
EntrySound(e) ==
  e.by # Nil =>
    /\ JobAt(e.by, "done")
    /\ \A x \in e.batch :
         /\ OwnLabel(e.by, e.tree[x].rev)
         /\ Req(e.by).wired =>
              \A k \in Copies(Files(e.by), x) : e.tree[x].split = Files(e.by)[k].split
         /\ ~Req(e.by).wired /\ Req(e.by).strategy = "by_source_group" =>
              /\ source[x] # Nil
              /\ e.tree[x].split = Bucket(Unit[source[x]], Req(e.by))

\* A pinned sample is as the newest commit that brought it placed it.
Placed(l, n, x) ==
  \E m \in 1..n : /\ x \in l[m].batch
                  /\ \A k \in (m + 1)..n : x \notin l[k].batch
                  /\ l[n].tree[x] = l[m].tree[x]

\* The revisions of an image are numbered from 1 on: there is a newest one.
Gapless(R, x) ==
  \E n \in Nat : {r.no : r \in {q \in R : q.image = x}} = 1..n

PipelineInv ==
  /\ ImportTypeOK
  /\ log \in Seq(Entry)
  /\ \A i \in Imports : JobSound(i)
  /\ DoneRunsAreCommitted
  /\ \A n \in DOMAIN log : EntrySound(log[n])
  /\ \A n \in DOMAIN log : \A x \in DOMAIN log[n].tree : Placed(log, n, x)
  /\ \A x \in Images : Gapless(revs, x)

-----------------------------------------------------------------------------
(* Data.                                                                     *)

\* What the type of a request says of its parts.
LEMMA RequestFacts ==
  ASSUME PipelineTypes, NEW q \in Requests
  PROVE  /\ q \in Request /\ q.wired \in BOOLEAN /\ q.review \in BOOLEAN
         /\ q.train \in Nat /\ q.val \in Nat /\ q.place \in Places
  BY DEF PipelineTypes, Request

\* What was read is a list of images, each with a split or none.
LEMMA FilesFacts ==
  ASSUME NEW files \in Seq(File)
  PROVE  /\ \A k \in DOMAIN files : /\ files[k].image \in Images
                                    /\ files[k].split \in Split \cup {Nil}
         /\ ImagesIn(files) \subseteq Images
         /\ \A x \in Images : /\ Cardinality(Copies(files, x)) \in Nat
                              /\ Cardinality(Labelled(files, x)) \in Nat
                              /\ Cardinality(Copies(files, x)) > 0 => x \in ImagesIn(files)
                              /\ Cardinality(Labelled(files, x)) > 0 => x \in ImagesIn(files)
<1>1. \A k \in DOMAIN files : files[k] \in File
  OBVIOUS
<1>2. \A k \in DOMAIN files : files[k].image \in Images /\ files[k].split \in Split \cup {Nil}
  BY <1>1 DEF File
<1>3. IsFiniteSet(1..Len(files)) /\ DOMAIN files = 1..Len(files)
  BY FS_Interval
<1>4. ASSUME NEW x \in Images, NEW K, K \subseteq Copies(files, x)
      PROVE  Cardinality(K) \in Nat /\ (Cardinality(K) > 0 => x \in ImagesIn(files))
  <2>1. K \subseteq DOMAIN files
    BY <1>4 DEF Copies
  <2>2. IsFiniteSet(K)
    BY <1>3, <2>1, FS_Subset
  <2>3. Cardinality(K) \in Nat
    BY <2>2, FS_CardinalityType
  <2>4. K = {} => Cardinality(K) = 0
    BY <2>2, FS_EmptySet
  <2>5. K # {} => x \in ImagesIn(files)
    BY <1>4 DEF Copies, ImagesIn
  <2> QED
    BY <2>3, <2>4, <2>5
<1>5. \A x \in Images : Labelled(files, x) \subseteq Copies(files, x)
  BY DEF Labelled
<1>6. ImagesIn(files) \subseteq Images
  BY <1>2 DEF ImagesIn
<1> QED
  BY <1>2, <1>4, <1>5, <1>6

\* The splits that go out are those of the folders.
LEMMA FolderSplitsFacts ==
  ASSUME NEW files \in Seq(File)
  PROVE  /\ FolderSplits(files) \in Splits \cup {Nil}
         /\ FolderSplits(files) # Nil =>
              /\ DOMAIN FolderSplits(files) = ImagesIn(files)
              /\ \A k \in DOMAIN files :
                   FolderSplits(files)[files[k].image] = files[k].split
<1> DEFINE at(x) == CHOOSE k \in DOMAIN files : files[k].image = x
           f     == [x \in ImagesIn(files) |-> files[at(x)].split]
           whole == /\ files # <<>>
                    /\ \A k \in DOMAIN files : files[k].split # Nil
                    /\ \A k, l \in DOMAIN files : files[k].image = files[l].image => k = l
<1>1. FolderSplits(files) = IF whole THEN f ELSE Nil
  BY DEF FolderSplits
<1>2. \A x \in ImagesIn(files) : at(x) \in DOMAIN files /\ files[at(x)].image = x
  BY DEF ImagesIn
<1>3. \A k \in DOMAIN files : files[k].image \in ImagesIn(files)
  BY DEF ImagesIn
<1> HIDE DEF at
<1>4. CASE whole
  <2>1. \A x \in ImagesIn(files) : f[x] \in Split
    BY <1>2, <1>4, FilesFacts
  <2>2. f \in [ImagesIn(files) -> Split] /\ ImagesIn(files) \in SUBSET Images
    BY <2>1, FilesFacts
  <2>3. \A k \in DOMAIN files : f[files[k].image] = files[k].split
    BY <1>2, <1>3, <1>4
  <2>4. f \in Splits
    BY <2>2 DEF Splits
  <2>5. DOMAIN f = ImagesIn(files)
    OBVIOUS
  <2> HIDE DEF f
  <2> QED
    BY <1>1, <1>4, <2>3, <2>4, <2>5
<1>5. CASE ~whole
  BY <1>1, <1>5
<1> QED
  BY <1>4, <1>5

\* The strategy's answer is a split.
LEMMA BucketType ==
  ASSUME NEW u \in Nat, NEW q, q.train \in Nat, q.val \in Nat
  PROVE  Bucket(u, q) \in Split
  BY DEF Bucket, Split

\* The strategy looks at nothing of a request but the ratios.
LEMMA BucketSame ==
  ASSUME NEW u, NEW p, NEW q, p.train = q.train, p.val = q.val
  PROVE  Bucket(u, p) = Bucket(u, q)
  BY DEF Bucket

\* Latest picks one of the revisions, when there is one with the highest number.
LEMMA LatestIn ==
  ASSUME NEW R, NEW r \in R, \A q \in R : q.no <= r.no
  PROVE  Latest(R) \in R
  BY DEF Latest

LEMMA MaxUpTo ==
  ASSUME NEW n \in Nat
  PROVE  Max({0} \cup 1..n) = n
  BY DEF Max

LEMMA MaxIs ==
  ASSUME NEW S, S \subseteq Nat, NEW n \in S, \A m \in S : m <= n
  PROVE  Max(S) = n
<1>1. \A m \in S : n >= m
  OBVIOUS
<1>2. \A k \in S : (\A m \in S : k >= m) => k = n
  OBVIOUS
<1> QED
  BY <1>1, <1>2 DEF Max

\* The number that the next revision of an image gets.
LEMMA NextNumber ==
  ASSUME NEW x, NEW n \in Nat, {r.no : r \in RevsOf(x)} = 1..n
  PROVE  NextNo(x) = n + 1
  BY MaxUpTo DEF NextNo

\* Images that have revisions have a newest one.
LEMMA NewestExists ==
  ASSUME PipelineInv, NEW x \in Images, RevsOf(x) # {}
  PROVE  Latest(RevsOf(x)) \in revs /\ Latest(RevsOf(x)).image = x
<1>1. PICK n \in Nat : {r.no : r \in RevsOf(x)} = 1..n
  BY DEF PipelineInv, Gapless, RevsOf
<1>2. PICK q \in RevsOf(x) : TRUE
  OBVIOUS
<1>3. q.no \in 1..n
  BY <1>1, <1>2
<1>4. n \in 1..n
  BY <1>3
<1>5. PICK r \in RevsOf(x) : r.no = n
  BY <1>1, <1>4
<1>6. \A p \in RevsOf(x) : p.no <= r.no
  BY <1>1, <1>5
<1>7. Latest(RevsOf(x)) \in RevsOf(x)
  BY <1>5, <1>6, LatestIn
<1> QED
  BY <1>7 DEF RevsOf

\* A step's new revisions, of its own, with the next numbers.
LEMMA NewRevsFacts ==
  ASSUME PipelineTypes, PipelineInv,
         NEW i \in Imports, NEW count \in [Images -> Nat], NEW kind \in LabelKinds
  PROVE  /\ NewRevs(i, count, kind) \subseteq Revision
         /\ \A r \in NewRevs(i, count, kind) :
              r.by = i /\ r.kind = kind /\ r.image \in Images /\ count[r.image] > 0
         /\ \A x \in Images : HasNewest(NewRevs(i, count, kind), x)
         /\ \A x \in Images : Gapless(revs \cup NewRevs(i, count, kind), x)
<1> DEFINE new       == NewRevs(i, count, kind)
           rev(x, n) == [image |-> x, no |-> n, by |-> i, kind |-> kind]
           last(x)   == NextNo(x) + count[x] - 1
<1>1. \A x \in Images :
        \E n \in Nat : {r.no : r \in RevsOf(x)} = 1..n /\ NextNo(x) = n + 1
  <2> TAKE x \in Images
  <2>1. PICK n \in Nat : {r.no : r \in RevsOf(x)} = 1..n
    BY DEF PipelineInv, Gapless, RevsOf
  <2> QED
    BY <2>1, NextNumber
<1>2. \A r : r \in new <=> \E x \in Images : \E n \in NextNo(x)..last(x) : r = rev(x, n)
  BY DEF NewRevs
<1>3. \A x \in Images : \A n : /\ rev(x, n).image = x /\ rev(x, n).no = n
                              /\ rev(x, n).by = i /\ rev(x, n).kind = kind
  OBVIOUS
<1>4. \A x \in Images : \A n \in Nat \ {0} : rev(x, n) \in Revision
  BY DEF Revision
<1> HIDE DEF rev, new
<1>5. ASSUME NEW r \in new
      PROVE  /\ r \in Revision /\ r.by = i /\ r.kind = kind
             /\ r.image \in Images /\ count[r.image] > 0
             /\ r.no \in NextNo(r.image)..last(r.image)
  <2>7. PICK x \in Images : \E n \in NextNo(x)..last(x) : r = rev(x, n)
    BY <1>2
  <2>1. PICK n \in NextNo(x)..last(x) : r = rev(x, n)
    BY <2>7
  <2>2. PICK m \in Nat : NextNo(x) = m + 1
    BY <1>1
  <2>3. count[x] \in Nat
    OBVIOUS
  <2>4. n \in Nat \ {0} /\ count[x] > 0
    BY <2>2, <2>3
  <2>5. r.image = x /\ r.no = n /\ r.by = i /\ r.kind = kind
    BY <1>3, <2>1
  <2>6. r \in Revision
    BY <1>4, <2>1, <2>4
  <2> QED
    BY <2>4, <2>5, <2>6
<1>6. ASSUME NEW x \in Images PROVE HasNewest(new, x)
  <2> SUFFICES ASSUME NEW p \in new, p.image = x
               PROVE  \E r \in new : r.image = x /\ \A q \in new : q.image = x => q.no <= r.no
    BY DEF HasNewest
  <2>1. PICK m \in Nat : NextNo(x) = m + 1
    BY <1>1
  <2>2. count[x] \in Nat /\ count[x] > 0
    BY <1>5
  <2>3. last(x) \in NextNo(x)..last(x)
    BY <2>1, <2>2
  <2>4. rev(x, last(x)) \in new /\ rev(x, last(x)).image = x /\ rev(x, last(x)).no = last(x)
    BY <1>2, <1>3, <2>3
  <2>5. \A q \in new : q.image = x => q.no <= last(x)
    BY <1>5
  <2> HIDE DEF last
  <2> QED
    BY <2>4, <2>5
<1>7. ASSUME NEW x \in Images
      PROVE  Gapless(revs \cup new, x)
  <2>1. PICK n \in Nat : {r.no : r \in RevsOf(x)} = 1..n /\ NextNo(x) = n + 1
    BY <1>1
  <2>2. count[x] \in Nat /\ last(x) = n + count[x]
    BY <2>1
  <2> DEFINE R == {q \in revs \cup new : q.image = x}
             N == {q \in new : q.image = x}
  <2>3. {q.no : q \in R} = {q.no : q \in RevsOf(x)} \cup {q.no : q \in N}
    BY DEF RevsOf
  <2>4. {q.no : q \in N} = (n + 1)..(n + count[x])
    <3>1. \A q \in N : q.no \in (n + 1)..(n + count[x])
      BY <1>5, <2>1, <2>2
    <3>2. ASSUME NEW m \in (n + 1)..(n + count[x]) PROVE \E q \in N : q.no = m
      <4>1. rev(x, m) \in new
        BY <1>2, <2>1, <2>2
      <4> QED
        BY <4>1, <1>3
    <3> QED
      BY <3>1, <3>2
  <2>5. (1..n) \cup ((n + 1)..(n + count[x])) = 1..(n + count[x]) /\ n + count[x] \in Nat
    BY <2>2
  <2>6. {q.no : q \in R} = 1..(n + count[x])
    BY <2>1, <2>3, <2>4, <2>5
  <2> HIDE DEF R
  <2>7. \E m \in Nat : {q.no : q \in R} = 1..m
    BY <2>5, <2>6
  <2> QED
    BY <2>7 DEF Gapless, R
<1> HIDE DEF last
<1> QED
  BY <1>5, <1>6, <1>7 DEF new

-----------------------------------------------------------------------------
(* Steps.                                                                    *)

LEMMA PipelineInit == PipelineTypes /\ ImportInit => PipelineInv
<1> SUFFICES ASSUME PipelineTypes, ImportInit PROVE PipelineInv
  OBVIOUS
<1> USE DEF ImportInit
<1>1. NoJob \in Run
  BY DEF NoJob, Run
<1>2. ImportTypeOK
  BY <1>1 DEF ImportTypeOK, NoJob
<1>3. \A i \in Imports : JobSound(i)
  BY DEF JobSound, JobAt, NoJob
<1>6. DoneRunsAreCommitted
  BY DEF DoneRunsAreCommitted, JobAt, NoJob
<1>4. \A x \in Images : Gapless(revs, x)
  <2> TAKE x \in Images
  <2>1. {r.no : r \in {q \in revs : q.image = x}} = 1..0
    OBVIOUS
  <2> QED
    BY <2>1 DEF Gapless
<1>5. log \in Seq(Entry) /\ DOMAIN log = {}
  OBVIOUS
<1> QED
  BY <1>2, <1>3, <1>4, <1>5, <1>6 DEF PipelineInv

\* A commit stays true to its run while other runs go on and images get sources.
LEMMA EntryKept ==
  ASSUME PipelineTypes, PipelineInv, NEW n \in DOMAIN log, log'[n] = log[n],
         \A k \in Imports : JobAt(k, "done") => job'[k] = job[k],
         \A x \in Images : source[x] # Nil => source'[x] = source[x]
  PROVE  EntrySound(log[n])'
<1>1. EntrySound(log[n])
  BY DEF PipelineInv
<1>2. log[n] \in Entry
  BY DEF PipelineInv
<1>3. log[n].by \in Imports \cup {Nil} /\ log[n].batch \subseteq Images
  BY <1>2 DEF Entry
<1> QED
  BY <1>1, <1>3 DEF EntrySound, OwnLabel, JobAt, Req, Files

\* What a run holds stays true while it stands still and images get sources.
LEMMA JobKept ==
  ASSUME PipelineTypes, PipelineInv, NEW k \in Imports, job'[k] = job[k],
         \A x \in Images : source[x] # Nil => source'[x] = source[x]
  PROVE  JobSound(k)'
<1>1. JobSound(k) /\ job[k] \in Run
  BY DEF PipelineInv, ImportTypeOK
<1>2. job[k].got # Nil => ImagesIn(job[k].got.files) \subseteq Images
  BY <1>1, FilesFacts DEF Run, Output
<1>3. job[k].got # Nil => OutputSound(job[k].got)'
  BY <1>1, <1>2 DEF JobSound, OutputSound
<1> QED
  BY <1>1, <1>3 DEF JobSound, JobAt, Req, Files, SplitsOf, OwnLabel

\* A run stays committed while the branch grows and images get sources.
LEMMA CommitKept ==
  ASSUME PipelineTypes, PipelineInv, NEW k \in Imports, JobAt(k, "done"), job'[k] = job[k],
         \A n \in DOMAIN log : n \in DOMAIN log' /\ log'[n] = log[n],
         \A x \in Images : source[x] # Nil => source'[x] = source[x]
  PROVE  IsCommitted(k)'
<1>1. PICK n \in DOMAIN log :
        /\ log[n].batch = {r.image : r \in job[k].out}
        /\ \A x \in log[n].batch :
             log[n].tree[x] = [rev |-> Best(k, x), split |-> Place(k, x)]
  BY DEF PipelineInv, DoneRunsAreCommitted, IsCommitted
<1>2. /\ JobSound(k) /\ job[k].got # Nil /\ OutputSound(job[k].got)
      /\ job[k].got.files \in Seq(File)
  BY DEF PipelineInv, ImportTypeOK, JobSound, JobAt, Run, Output
<1>3. ImagesIn(Files(k)) \subseteq Images
  BY <1>2, FilesFacts DEF Files
<1>4. \A x \in log[n].batch : x \in Images /\ source'[x] = source[x]
  BY <1>1, <1>2, <1>3 DEF JobSound, JobAt, OutputSound, Files
<1>5. \A x \in log[n].batch : Best(k, x)' = Best(k, x)
  BY DEF Best
<1>6. \A x \in log[n].batch : Place(k, x)' = Place(k, x)
  BY <1>4 DEF Place, Req, SplitsOf
<1> QED
  BY <1>1, <1>5, <1>6 DEF IsCommitted

\* A run goes on that is not done.
LEMMA RunMoves ==
  ASSUME PipelineTypes, PipelineInv, NEW i \in Imports, NEW r \in Run,
         job' = [job EXCEPT ![i] = r], ~JobAt(i, "done"),
         r.out \subseteq revs', r.got # Nil => r.got.revs \subseteq revs',
         JobSound(i)', JobAt(i, "done")' => IsCommitted(i)',
         source' \in [Images -> Imports \cup {Nil}],
         \A x \in Images : source[x] # Nil => source'[x] = source[x],
         revs \subseteq revs', revs' \subseteq Revision,
         \A x \in Images : Gapless(revs', x),
         log' = log, fails' \in Nat
  PROVE  PipelineInv'
<1>1. job \in [Imports -> Run]
  BY DEF PipelineInv, ImportTypeOK
<1>2. /\ job' \in [Imports -> Run] /\ job'[i] = r
      /\ \A k \in Imports \ {i} : job'[k] = job[k]
  BY <1>1
<1>3. ImportTypeOK'
  <2>1. \A k \in Imports :
         job'[k].out \subseteq revs' /\ (job'[k].got # Nil => job'[k].got.revs \subseteq revs')
    BY <1>2 DEF PipelineInv, ImportTypeOK
  <2>2. \A n \in DOMAIN log :
         /\ IsTree(log[n].tree)
         /\ log[n].batch \subseteq DOMAIN log[n].tree
         /\ \A x \in DOMAIN log[n].tree :
              \/ log[n].tree[x].rev \in revs' /\ log[n].tree[x].rev.image = x
              \/ log[n].tree[x].rev = Nil /\ log[n].by = Nil
    BY DEF PipelineInv, ImportTypeOK
  <2> QED
    BY <1>2, <2>1, <2>2 DEF ImportTypeOK, IsTree
<1>4. \A k \in Imports : JobSound(k)'
  BY <1>2, JobKept
<1>5. \A n \in DOMAIN log : EntrySound(log[n])'
  BY <1>2, EntryKept
<1>6. DoneRunsAreCommitted'
  BY <1>2, CommitKept DEF DoneRunsAreCommitted, JobAt
<1> QED
  BY <1>3, <1>4, <1>5, <1>6 DEF PipelineInv, Placed

\* A commit comes on top of the branch, and no run that is done moves.
LEMMA BranchGrows ==
  ASSUME PipelineTypes, PipelineInv, NEW e \in Entry, log' = Append(log, e),
         NEW n \in Nat, n = Len(log), EntrySound(log[n + 1])',
         UNCHANGED <<source, revs, fails>>,
         job' \in [Imports -> Run],
         \A k \in Imports : job'[k].out = job[k].out /\ job'[k].got = job[k].got,
         \A k \in Imports : JobAt(k, "done") => job'[k] = job[k],
         \A k \in Imports : JobSound(k)',
         \A k \in Imports : JobAt(k, "done")' => JobAt(k, "done") \/ IsCommitted(k)',
         e.batch \subseteq DOMAIN e.tree,
         \A x \in DOMAIN e.tree :
           \/ e.tree[x].rev \in revs /\ e.tree[x].rev.image = x
           \/ e.tree[x].rev = Nil /\ e.by = Nil,
         \A x \in DOMAIN e.tree :
           x \in e.batch \/ (x \in DOMAIN HeadTree /\ e.tree[x] = HeadTree[x])
  PROVE  PipelineInv'
<1>1. /\ log \in Seq(Entry) /\ DOMAIN log = 1..n
      /\ log' \in Seq(Entry) /\ Len(log') = n + 1 /\ DOMAIN log' = 1..(n + 1)
      /\ log'[n + 1] = e /\ \A m \in 1..n : log'[m] = log[m]
  BY DEF PipelineInv
<1>2. IsTree(e.tree)
  <2>1. PICK S \in SUBSET Images : e.tree \in [S -> PinRow]
    BY DEF Entry
  <2> QED
    BY <2>1 DEF IsTree, PinRow
<1>3. ImportTypeOK'
  <2>1. \A m \in 1..n :
         /\ IsTree(log[m].tree)
         /\ log[m].batch \subseteq DOMAIN log[m].tree
         /\ \A x \in DOMAIN log[m].tree :
              \/ log[m].tree[x].rev \in revs /\ log[m].tree[x].rev.image = x
              \/ log[m].tree[x].rev = Nil /\ log[m].by = Nil
    BY <1>1 DEF PipelineInv, ImportTypeOK
  <2>2. \A m \in 1..(n + 1) :
         /\ IsTree(log'[m].tree)
         /\ log'[m].batch \subseteq DOMAIN log'[m].tree
         /\ \A x \in DOMAIN log'[m].tree :
              \/ log'[m].tree[x].rev \in revs /\ log'[m].tree[x].rev.image = x
              \/ log'[m].tree[x].rev = Nil /\ log'[m].by = Nil
    BY <2>1, <1>1, <1>2
  <2>3. \A k \in Imports :
         job'[k].out \subseteq revs' /\ (job'[k].got # Nil => job'[k].got.revs \subseteq revs')
    BY DEF PipelineInv, ImportTypeOK
  <2>4. /\ source' \in [Images -> Imports \cup {Nil}]
        /\ revs' \subseteq Revision /\ fails' \in Nat
    BY DEF PipelineInv, ImportTypeOK
  <2> QED
    BY <1>1, <2>2, <2>3, <2>4 DEF ImportTypeOK, IsTree
<1>4. \A m \in DOMAIN log' : EntrySound(log[m])'
  <2>1. \A m \in 1..n : EntrySound(log[m])'
    BY <1>1, EntryKept
  <2>2. \A m \in DOMAIN log' : m \in 1..n \/ m = n + 1
    BY <1>1
  <2> QED
    BY <2>1, <2>2
<1>5. ASSUME NEW m \in 1..(n + 1), NEW x \in DOMAIN log'[m].tree
      PROVE  Placed(log', m, x)
  <2>1. \A k \in 1..n : \A y \in DOMAIN log[k].tree : Placed(log, k, y)
    BY <1>1 DEF PipelineInv
  <2>2. CASE m \in 1..n
    <3>1. Placed(log, m, x)
      BY <2>1, <2>2, <1>1
    <3> QED
      BY <3>1, <2>2, <1>1 DEF Placed
  <2>3. CASE m = n + 1 /\ x \in e.batch
    BY <2>3, <1>1 DEF Placed
  <2>4. CASE m = n + 1 /\ x \notin e.batch
    <3>1. x \in DOMAIN HeadTree /\ e.tree[x] = HeadTree[x]
      BY <2>4, <1>1
    <3>2. n \in 1..n /\ HeadTree = log[n].tree
      BY <3>1, <1>1 DEF HeadTree
    <3>3. Placed(log, n, x)
      BY <3>1, <3>2, <2>1
    <3>4. PICK k \in 1..n : /\ x \in log[k].batch
                          /\ \A h \in (k + 1)..n : x \notin log[h].batch
                          /\ log[n].tree[x] = log[k].tree[x]
      BY <3>3 DEF Placed
    <3>5. \A h \in (k + 1)..(n + 1) : x \notin log'[h].batch
      BY <3>4, <2>4, <1>1
    <3>6. log'[m].tree[x] = log'[k].tree[x] /\ x \in log'[k].batch /\ k \in 1..m
      BY <3>1, <3>2, <3>4, <2>4, <1>1
    <3> QED
      BY <3>5, <3>6, <2>4 DEF Placed
  <2> QED
    BY <2>2, <2>3, <2>4, <1>1
<1>6. \A x \in Images : Gapless(revs, x)'
  BY DEF PipelineInv
<1>7. DoneRunsAreCommitted'
  <2>1. \A k \in Imports : JobAt(k, "done") => IsCommitted(k)'
    BY <1>1, CommitKept
  <2> QED
    BY <2>1 DEF DoneRunsAreCommitted
<1> QED
  BY <1>1, <1>3, <1>4, <1>5, <1>6, <1>7 DEF PipelineInv

\* A run starts with nothing.
LEMMA StartInv ==
  ASSUME PipelineTypes, PipelineInv,
         NEW i \in Imports, NEW q \in Requests, Start(i, q)
  PROVE  PipelineInv'
<1> DEFINE r == [job[i] EXCEPT !.pc = "import", !.req = q]
<1>1. job \in [Imports -> Run] /\ job[i] \in Run /\ job[i] = NoJob
  BY DEF PipelineInv, ImportTypeOK, JobSound, Start
<1>2. /\ r.pc = "import" /\ r.req = q /\ r.out = {} /\ r.got = Nil
      /\ job' = [job EXCEPT ![i] = r]
  <2>1. r.pc = "import" /\ r.req = q /\ r.out = job[i].out /\ r.got = job[i].got
    BY <1>1 DEF Run
  <2>2. job[i].out = {} /\ job[i].got = Nil
    BY <1>1 DEF NoJob
  <2>3. job' = [job EXCEPT ![i] = r]
    BY <1>1 DEF Start
  <2> QED
    BY <2>1, <2>2, <2>3
<1>3. r \in Run
  BY <1>1 DEF Run
<1> HIDE DEF r
<1>4. job'[i] = r
  BY <1>1, <1>2
<1>5. JobSound(i)' /\ ~JobAt(i, "done")'
  BY <1>2, <1>4 DEF JobSound, JobAt, Req
<1>6. ~JobAt(i, "done")
  BY DEF Start, JobAt
<1>7. source' = source /\ revs' = revs /\ log' = log /\ fails' = fails
  BY DEF Start
<1>8. /\ source \in [Images -> Imports \cup {Nil}] /\ revs \subseteq Revision
      /\ fails \in Nat /\ \A x \in Images : Gapless(revs, x)
  BY DEF PipelineInv, ImportTypeOK
<1> QED
  BY <1>2, <1>5, <1>6, <1>7, <1>8, <1>3, RunMoves

\* A run starts with what another one imported.
LEMMA StartCopiedInv ==
  ASSUME PipelineTypes, PipelineInv,
         NEW i \in Imports, NEW q \in Requests, NEW k \in Imports, StartCopied(i, q, k)
  PROVE  PipelineInv'
<1> DEFINE g == job[k].got
           r == [job[i] EXCEPT !.pc = AfterImport(q), !.req = q, !.got = g, !.out = g.revs]
<1>1. job \in [Imports -> Run] /\ job[i] \in Run /\ g # Nil /\ JobAt(i, "none")
  BY DEF PipelineInv, ImportTypeOK, StartCopied, Imported
<1>2. g \in Output /\ OutputSound(g) /\ g.revs \subseteq revs
  BY <1>1 DEF PipelineInv, ImportTypeOK, JobSound, Run
<1>3. AfterImport(q) = IF q.review THEN "review" ELSE "resolve"
  BY DEF AfterImport
<1>4. revs \subseteq Revision
  BY DEF PipelineInv, ImportTypeOK
<1>5. job' = [job EXCEPT ![i] = r]
  BY <1>1 DEF StartCopied
<1>6. r.pc = AfterImport(q) /\ r.req = q /\ r.got = g /\ r.out = g.revs
  BY <1>1 DEF Run
<1> HIDE DEF g
<1>7. r \in Run
  <2>1. g.revs \in SUBSET Revision
    BY <1>2, <1>4
  <2> QED
    BY <1>1, <1>2, <1>3, <2>1 DEF Run
<1> HIDE DEF r
<1>8. job'[i] = r
  BY <1>1, <1>5
<1>9. source' = source /\ revs' = revs /\ log' = log /\ fails' = fails
  BY DEF StartCopied
<1>11. JobSound(i)' /\ ~JobAt(i, "done")'
  <2>1. job'[i].pc = (IF q.review THEN "review" ELSE "resolve")
        /\ job'[i].req = q /\ job'[i].got = g /\ job'[i].out = g.revs
    BY <1>3, <1>6, <1>8
  <2>2. OutputSound(job[i].got)'
    BY <1>2, <1>9, <2>1 DEF OutputSound
  <2>3. ~q.review => \A p \in g.revs : OwnLabel(i, p)'
    BY <1>2, <2>1 DEF OwnLabel, OutputSound, Req
  <2> QED
    BY <1>1, <1>2, <2>1, <2>2, <2>3 DEF JobSound, JobAt, Req, Files, OutputSound
<1>12. /\ source \in [Images -> Imports \cup {Nil}]
       /\ fails \in Nat /\ \A x \in Images : Gapless(revs, x)
  BY DEF PipelineInv, ImportTypeOK
<1>13. ~JobAt(i, "done")
  BY <1>1 DEF JobAt
<1> QED
  BY <1>2, <1>4, <1>5, <1>6, <1>7, <1>9, <1>11, <1>12, <1>13, RunMoves

\* Nothing moves but one run, which keeps its request and what its import gave.
LEMMA RunEnds ==
  ASSUME PipelineTypes, PipelineInv, NEW i \in Imports, NEW r \in Run,
         job' = [job EXCEPT ![i] = r],
         r.req = job[i].req, r.got = job[i].got,
         r.out = job[i].out \/ r.out = {},
         ~JobAt(i, "none"), ~JobAt(i, "done"),
         \/ r.pc = "failed"
         \/ r.pc = "resolve" /\ JobAt(i, "review") /\ r.out = {}
         \/ /\ r.pc \in {"commit", "done"} /\ JobAt(i, "resolve")
            /\ r.out = job[i].out
            /\ Req(i).wired => SplitsOf(i) # Nil,
         r.pc = "done" => IsCommitted(i)',
         UNCHANGED <<source, revs, log>>, fails' \in Nat
  PROVE  PipelineInv'
<1>1. job \in [Imports -> Run] /\ job'[i] = r
  BY DEF PipelineInv, ImportTypeOK
<1>2. JobSound(i)
  BY DEF PipelineInv
<1>3. r.got # Nil => OutputSound(r.got)'
  BY <1>2 DEF JobSound, OutputSound
<1>4. JobSound(i)'
  <2>1. job[i].got # Nil => OutputSound(job[i].got)'
    BY <1>1, <1>3
  <2>2. r.out = {} => \A x \in Images : HasNewest(r.out, x)
    BY DEF HasNewest
  <2> QED
    BY <1>1, <1>2, <2>1, <2>2 DEF JobSound, JobAt, Req, Files, SplitsOf, OwnLabel
<1>5. JobAt(i, "done")' => IsCommitted(i)'
  BY <1>1 DEF JobAt
<1>6. /\ source \in [Images -> Imports \cup {Nil}] /\ revs \subseteq Revision
      /\ \A x \in Images : Gapless(revs, x)
      /\ job[i].out \subseteq revs
      /\ job[i].got # Nil => job[i].got.revs \subseteq revs
  BY DEF PipelineInv, ImportTypeOK
<1>7. r.out \subseteq revs /\ (r.got # Nil => r.got.revs \subseteq revs)
  BY <1>6
<1> QED
  BY <1>4, <1>5, <1>6, <1>7, RunMoves

\* A gate is resolved, the commit's inputs are resolved, or the run fails.
LEMMA EndsInv ==
  ASSUME PipelineTypes, PipelineInv, NEW i \in Imports,
         \/ ResolvedByHand(i) \/ Resolve(i)
         \/ NothingToCommit(i) \/ StepFails(i)
  PROVE  PipelineInv'
<1>1. job \in [Imports -> Run] /\ job[i] \in Run /\ fails \in Nat
  BY DEF PipelineInv, ImportTypeOK
<1>2. CASE ResolvedByHand(i)
  <2> DEFINE r == [job[i] EXCEPT !.pc = "resolve", !.out = {}]
  <2>1. /\ r \in Run /\ r.pc = "resolve" /\ r.req = job[i].req
        /\ r.got = job[i].got /\ r.out = {}
        /\ job' = [job EXCEPT ![i] = r]
    BY <1>1, <1>2 DEF ResolvedByHand, Run
  <2> HIDE DEF r
  <2>2. JobAt(i, "review") /\ ~JobAt(i, "none") /\ ~JobAt(i, "done")
        /\ UNCHANGED <<source, revs, log, fails>>
    BY <1>2 DEF ResolvedByHand, JobAt
  <2> QED
    BY <1>1, <2>1, <2>2, RunEnds
<1>3. CASE Resolve(i) /\ Req(i).wired /\ SplitsOf(i) = Nil
  <2> DEFINE r == [job[i] EXCEPT !.pc = "failed", !.why = "resolution"]
  <2>1. /\ r \in Run /\ r.pc = "failed" /\ r.req = job[i].req
        /\ r.got = job[i].got /\ r.out = job[i].out
        /\ job' = [job EXCEPT ![i] = r]
    BY <1>1, <1>3 DEF Resolve, Run
  <2> HIDE DEF r
  <2>2. ~JobAt(i, "none") /\ ~JobAt(i, "done") /\ UNCHANGED <<source, revs, log, fails>>
    BY <1>3 DEF Resolve, JobAt
  <2> QED
    BY <1>1, <2>1, <2>2, RunEnds
<1>4. CASE Resolve(i) /\ ~(Req(i).wired /\ SplitsOf(i) = Nil)
  <2> DEFINE r == [job[i] EXCEPT !.pc = "commit"]
  <2>1. /\ r \in Run /\ r.pc = "commit" /\ r.req = job[i].req
        /\ r.got = job[i].got /\ r.out = job[i].out
        /\ job' = [job EXCEPT ![i] = r]
    BY <1>1, <1>4 DEF Resolve, Run
  <2> HIDE DEF r
  <2>2. /\ JobAt(i, "resolve") /\ ~JobAt(i, "none") /\ ~JobAt(i, "done")
        /\ UNCHANGED <<source, revs, log, fails>>
    BY <1>4 DEF Resolve, JobAt
  <2> QED
    BY <1>1, <1>4, <2>1, <2>2, RunEnds
<1>5. CASE NothingToCommit(i) \/ StepFails(i)
  <2> DEFINE r == [job[i] EXCEPT !.pc = "failed", !.why = "step"]
  <2>1. /\ r \in Run /\ r.pc = "failed" /\ r.req = job[i].req
        /\ r.got = job[i].got /\ r.out = job[i].out
        /\ job' = [job EXCEPT ![i] = r]
    BY <1>1, <1>5 DEF NothingToCommit, StepFails, Run
  <2> HIDE DEF r
  <2>2. /\ ~JobAt(i, "none") /\ ~JobAt(i, "done") /\ fails' \in Nat
        /\ UNCHANGED <<source, revs, log>>
    BY <1>1, <1>5 DEF NothingToCommit, StepFails, JobAt
  <2> QED
    BY <1>1, <2>1, <2>2, RunEnds
<1> QED
  BY <1>2, <1>3, <1>4, <1>5

\* A run whose commit was made before, by another one, ends without one of its own.
LEMMA CommitCopiedInv ==
  ASSUME PipelineTypes, PipelineInv, NEW i \in Imports, NEW k \in Imports, CommitCopied(i, k)
  PROVE  PipelineInv'
<1> DEFINE r == [job[i] EXCEPT !.pc = "done"]
<1>1. job \in [Imports -> Run] /\ job[i] \in Run /\ fails \in Nat /\ JobSound(k)
  BY DEF PipelineInv, ImportTypeOK
<1>2. /\ r \in Run /\ r.pc = "done" /\ r.req = job[i].req
      /\ r.got = job[i].got /\ r.out = job[i].out
      /\ job' = [job EXCEPT ![i] = r]
  BY <1>1 DEF CommitCopied, Run
<1> HIDE DEF r
<1>3. /\ JobAt(i, "resolve") /\ ~JobAt(i, "none") /\ ~JobAt(i, "done")
      /\ Req(i).wired => SplitsOf(i) # Nil
      /\ JobAt(k, "done") /\ CommitKey(k) = CommitKey(i)
      /\ UNCHANGED <<source, revs, log, fails>>
  BY DEF CommitCopied, JobAt
<1>4. /\ Req(k).train = Req(i).train /\ Req(k).val = Req(i).val
      /\ Req(k).strategy = Req(i).strategy /\ job[k].out = job[i].out
      /\ (IF Req(k).wired THEN SplitsOf(k) ELSE Nil) = (IF Req(i).wired THEN SplitsOf(i) ELSE Nil)
  BY <1>3 DEF CommitKey
<1>5. Req(k).wired => SplitsOf(k) # Nil
  BY <1>1, <1>3 DEF JobSound, JobAt
<1>6. /\ Req(k).wired <=> Req(i).wired
      /\ Req(i).wired => SplitsOf(k) = SplitsOf(i)
  <2>1. CASE Req(i).wired
    BY <1>3, <1>4, <2>1
  <2>2. CASE ~Req(i).wired
    BY <1>4, <1>5, <2>2
  <2> QED
    BY <2>1, <2>2
<1>7. PICK n \in DOMAIN log :
        /\ log[n].batch = {p.image : p \in job[k].out}
        /\ \A x \in log[n].batch :
             log[n].tree[x] = [rev |-> Best(k, x), split |-> Place(k, x)]
  BY <1>3 DEF PipelineInv, DoneRunsAreCommitted, IsCommitted
<1>8. /\ job'[i].out = job[k].out /\ Req(i)' = Req(i)
      /\ SplitsOf(i)' = SplitsOf(i)
  BY <1>1, <1>2, <1>4 DEF Req, SplitsOf
<1>9. \A x : Best(i, x)' = Best(k, x)
  BY <1>8 DEF Best
<1>10. \A u : Bucket(u, Req(k)) = Bucket(u, Req(i))
  BY <1>4, BucketSame
<1>11. \A x : Place(i, x)' = Place(k, x)
  <2> TAKE x
  <2>1. Place(i, x)' = IF Req(i).wired THEN SplitsOf(i)[x]
          ELSE Bucket(Unit[IF Req(i).strategy = "by_source_group" THEN source[x] ELSE x],
                      Req(i))
    BY <1>3, <1>8 DEF Place, Bucket
  <2>2. Place(k, x) = IF Req(i).wired THEN SplitsOf(i)[x]
          ELSE Bucket(Unit[IF Req(i).strategy = "by_source_group" THEN source[x] ELSE x],
                      Req(i))
    BY <1>4, <1>6, <1>10 DEF Place
  <2> QED
    BY <2>1, <2>2
<1>12. IsCommitted(i)'
  BY <1>3, <1>7, <1>8, <1>9, <1>11 DEF IsCommitted
<1> QED
  BY <1>1, <1>2, <1>3, <1>12, RunEnds

\* The import makes revisions and sources, and hands on splits only if it has all.
LEMMA ImportInv ==
  ASSUME PipelineTypes, PipelineInv, NEW i \in Imports, NEW files, Import(i, files)
  PROVE  PipelineInv'
<1> DEFINE count == [x \in Images |-> Cardinality(Labelled(files, x))]
           new   == NewRevs(i, count, "import")
           given == FolderSplits(files)
           g     == [of |-> i, files |-> files, revs |-> new, splits |-> given]
           r     == [job[i] EXCEPT !.pc = AfterImport(Req(i)), !.out = new, !.got = g]
<1>1. job \in [Imports -> Run] /\ job[i] \in Run /\ JobSound(i)
  BY DEF PipelineInv, ImportTypeOK
<1>2. JobAt(i, "import") /\ ~JobAt(i, "done") /\ files \in Contents[Req(i).place]
  BY DEF Import, JobAt
<1>3. Req(i) \in Requests
  BY <1>1, <1>2 DEF JobSound, JobAt
<1>4. files \in Seq(File)
  BY <1>2, <1>3, RequestFacts DEF PipelineTypes
<1>5. /\ \A x \in Images : count[x] \in Nat /\ (count[x] > 0 => x \in ImagesIn(files))
      /\ ImagesIn(files) \subseteq Images /\ count \in [Images -> Nat]
  <2>1. \A x \in Images : /\ Cardinality(Labelled(files, x)) \in Nat
                          /\ Cardinality(Labelled(files, x)) > 0 => x \in ImagesIn(files)
    BY <1>4, FilesFacts
  <2>2. \A x \in Images : count[x] = Cardinality(Labelled(files, x))
    OBVIOUS
  <2> QED
    BY <1>4, <2>1, <2>2, FilesFacts
<1>6. /\ new \subseteq Revision
      /\ \A q \in new : q.by = i /\ q.kind = "import" /\ q.image \in Images /\ count[q.image] > 0
      /\ \A x \in Images : HasNewest(new, x)
      /\ \A x \in Images : Gapless(revs \cup new, x)
  BY <1>5, NewRevsFacts DEF LabelKinds
<1>7. /\ given \in Splits \cup {Nil}
      /\ given # Nil =>
           /\ DOMAIN given = ImagesIn(files)
           /\ \A k \in DOMAIN files : given[files[k].image] = files[k].split
  BY <1>4, FolderSplitsFacts
<1>8. /\ source' = [x \in Images |-> IF x \in ImagesIn(files) /\ source[x] = Nil THEN i
                                    ELSE source[x]]
      /\ revs' = revs \cup new /\ job' = [job EXCEPT ![i] = r]
      /\ log' = log /\ fails' = fails
  BY <1>1 DEF Import
<1>9. \A q \in new : q.image \in ImagesIn(files)
  BY <1>5, <1>6
<1> HIDE DEF new, given, count
<1>10. g \in Output /\ g.of = i /\ g.files = files /\ g.revs = new /\ g.splits = given
  BY <1>4, <1>6, <1>7 DEF Output
<1> HIDE DEF g
<1>11. /\ r.pc = AfterImport(Req(i)) /\ r.req = Req(i) /\ r.out = new /\ r.got = g
       /\ AfterImport(Req(i)) = IF Req(i).review THEN "review" ELSE "resolve"
  BY <1>1 DEF Run, Req, AfterImport
<1>12. r \in Run
  <2>1. new \in SUBSET Revision
    BY <1>6
  <2> QED
    BY <1>1, <1>10, <1>11, <2>1 DEF Run
<1>13. job'[i] = r
  BY <1>1, <1>8
<1> HIDE DEF r
<1>14. /\ source \in [Images -> Imports \cup {Nil}]
       /\ revs \subseteq Revision /\ fails \in Nat
  BY DEF PipelineInv, ImportTypeOK
<1>15. /\ source' \in [Images -> Imports \cup {Nil}]
       /\ \A x \in Images : source[x] # Nil => source'[x] = source[x]
  BY <1>8, <1>14
<1>16. \A x \in ImagesIn(files) : source'[x] # Nil
  BY <1>5, <1>8, <1>14 DEF PipelineTypes
<1>17. OutputSound(job[i].got)'
  <2>1. job'[i].got = g
    BY <1>11, <1>13
  <2> QED
    BY <2>1, <1>6, <1>7, <1>9, <1>10, <1>16 DEF OutputSound
<1>18. JobSound(i)' /\ ~JobAt(i, "done")'
  <2>1. Files(i)' = files /\ Req(i)' = Req(i) /\ job'[i].out = new /\ job'[i].got.of = i
        /\ job'[i].got # Nil
    BY <1>10, <1>11, <1>13, <1>17 DEF Files, Req, Output, PipelineTypes, OutputSound
  <2>2. job'[i].pc = (IF Req(i).review THEN "review" ELSE "resolve")
    BY <1>11, <1>13
  <2>3. ~Req(i).review => \A q \in new : OwnLabel(i, q)'
    BY <2>1, <1>6 DEF OwnLabel
  <2> QED
    BY <2>1, <2>2, <2>3, <1>3, <1>6, <1>9, <1>17 DEF JobSound, JobAt
<1>19. new \subseteq revs' /\ revs' \subseteq Revision /\ revs \subseteq revs'
       /\ \A x \in Images : Gapless(revs', x)
  BY <1>6, <1>8, <1>14
<1>20. r.out \subseteq revs' /\ (r.got # Nil => r.got.revs \subseteq revs')
  BY <1>10, <1>11, <1>19
<1> QED
  BY <1>2, <1>8, <1>12, <1>14, <1>15, <1>18, <1>19, <1>20, RunMoves

\* A review replaces the revisions by those of the reviewers.
LEMMA ReviewedInv ==
  ASSUME PipelineTypes, PipelineInv, NEW i \in Imports, Reviewed(i)
  PROVE  PipelineInv'
<1> DEFINE files == Files(i)
           count == [x \in Images |-> Cardinality(Copies(files, x))]
           new   == NewRevs(i, count, "review")
           r     == [job[i] EXCEPT !.pc = "resolve", !.out = new]
<1>1. job \in [Imports -> Run] /\ job[i] \in Run /\ JobSound(i)
  BY DEF PipelineInv, ImportTypeOK
<1>2. JobAt(i, "review") /\ ~JobAt(i, "done") /\ ~JobAt(i, "none")
  BY DEF Reviewed, JobAt
<1>3. Req(i) \in Requests /\ Req(i).review /\ job[i].got # Nil /\ OutputSound(job[i].got)
  BY <1>1, <1>2 DEF JobSound, JobAt
<1>4. files \in Seq(File)
  BY <1>1, <1>3 DEF Files, Run, Output
<1>5. /\ \A x \in Images : count[x] \in Nat /\ (count[x] > 0 => x \in ImagesIn(files))
      /\ count \in [Images -> Nat]
  <2>1. \A x \in Images : /\ Cardinality(Copies(files, x)) \in Nat
                          /\ Cardinality(Copies(files, x)) > 0 => x \in ImagesIn(files)
    BY <1>4, FilesFacts
  <2>2. \A x \in Images : count[x] = Cardinality(Copies(files, x))
    OBVIOUS
  <2> QED
    BY <2>1, <2>2
<1>6. /\ new \subseteq Revision
      /\ \A q \in new : q.by = i /\ q.kind = "review" /\ q.image \in Images /\ count[q.image] > 0
      /\ \A x \in Images : HasNewest(new, x)
      /\ \A x \in Images : Gapless(revs \cup new, x)
  BY <1>5, NewRevsFacts DEF LabelKinds
<1>7. revs' = revs \cup new /\ job' = [job EXCEPT ![i] = r]
      /\ source' = source /\ log' = log /\ fails' = fails
  BY <1>1 DEF Reviewed
<1>8. \A q \in new : q.image \in ImagesIn(files)
  BY <1>5, <1>6
<1> HIDE DEF new, count, files
<1>9. /\ r.pc = "resolve" /\ r.req = Req(i) /\ r.out = new
      /\ r.got = job[i].got /\ r \in Run
  BY <1>1, <1>6 DEF Run, Req
<1>10. job'[i] = r
  BY <1>1, <1>7
<1> HIDE DEF r
<1>11. JobSound(i)' /\ ~JobAt(i, "done")'
  <2>1. Files(i)' = files /\ Req(i)' = Req(i) /\ job'[i].out = new
        /\ job'[i].got = job[i].got /\ job'[i].pc = "resolve"
    BY <1>9, <1>10 DEF Files, Req, files
  <2>2. OutputSound(job[i].got)'
    BY <2>1, <1>3, <1>7 DEF OutputSound
  <2>3. \A q \in new : OwnLabel(i, q)'
    BY <2>1, <1>3, <1>6 DEF OwnLabel
  <2> QED
    BY <2>1, <2>2, <2>3, <1>3, <1>6, <1>8 DEF JobSound, JobAt
<1>12. /\ source \in [Images -> Imports \cup {Nil}] /\ revs \subseteq Revision
       /\ fails \in Nat /\ job[i].got.revs \subseteq revs
  BY <1>3 DEF PipelineInv, ImportTypeOK
<1>13. /\ r.out \subseteq revs' /\ revs' \subseteq Revision /\ revs \subseteq revs'
       /\ r.got.revs \subseteq revs' /\ \A x \in Images : Gapless(revs', x)
  BY <1>6, <1>7, <1>9, <1>12
<1> QED
  BY <1>2, <1>7, <1>9, <1>11, <1>12, <1>13, RunMoves

\* The tree that a commit starts from.
LEMMA HeadFacts ==
  ASSUME PipelineInv
  PROVE  /\ DOMAIN HeadTree \subseteq Images
         /\ \A x \in DOMAIN HeadTree :
              /\ HeadTree[x] \in PinRow
              /\ \/ HeadTree[x].rev \in revs /\ HeadTree[x].rev.image = x
                 \/ HeadTree[x].rev = Nil
<1>1. log \in Seq(Entry)
  BY DEF PipelineInv
<1>2. CASE log = <<>>
  BY <1>2 DEF HeadTree
<1>3. CASE log # <<>>
  <2>1. Len(log) \in DOMAIN log
    BY <1>1, <1>3
  <2>2. HeadTree = log[Len(log)].tree
    BY <1>3 DEF HeadTree
  <2>3. log[Len(log)] \in Entry
    BY <1>1, <2>1
  <2>4. PICK S \in SUBSET Images : HeadTree \in [S -> PinRow]
    BY <2>2, <2>3 DEF Entry
  <2> QED
    BY <2>1, <2>2, <2>4 DEF PipelineInv, ImportTypeOK
<1> QED
  BY <1>2, <1>3

\* A commit pins the run's revisions and places them: by the folders or the strategy.
LEMMA CommitInv ==
  ASSUME PipelineTypes, PipelineInv, NEW i \in Imports, Commit(i)
  PROVE  PipelineInv'
<1> DEFINE batch == {r.image : r \in job[i].out}
           pins  == [x \in batch |-> [rev |-> Best(i, x), split |-> Place(i, x)]]
           tree  == MergedTree(HeadTree, pins)
           e     == [by |-> i, batch |-> batch, tree |-> tree]
           done  == [job[i] EXCEPT !.pc = "done"]
           files == Files(i)
<1>1. /\ job \in [Imports -> Run] /\ job[i] \in Run
      /\ JobSound(i) /\ job[i].out \subseteq revs
      /\ revs \subseteq Revision /\ source \in [Images -> Imports \cup {Nil}]
      /\ log \in Seq(Entry)
  BY DEF PipelineInv, ImportTypeOK
<1>2. JobAt(i, "commit") /\ ~JobAt(i, "done") /\ ~JobAt(i, "none")
  BY DEF Commit, JobAt
<1>3. /\ Req(i) \in Requests /\ job[i].got \in Output /\ OutputSound(job[i].got)
      /\ Req(i).wired => SplitsOf(i) # Nil
  BY <1>1, <1>2 DEF JobSound, JobAt, Run
<1>4. /\ files \in Seq(File) /\ ImagesIn(files) \subseteq Images
      /\ Req(i).train \in Nat /\ Req(i).val \in Nat
  BY <1>3, RequestFacts, FilesFacts DEF Files, Output
<1>5. batch \subseteq ImagesIn(files) /\ batch \subseteq Images
  BY <1>1, <1>2, <1>4 DEF JobSound, JobAt
<1>6. \A x \in ImagesIn(files) : source[x] \in Imports
  BY <1>1, <1>3, <1>4 DEF OutputSound, Files
<1>7. \A x \in batch : Best(i, x) \in job[i].out /\ Best(i, x).image = x
  <2> TAKE x \in batch
  <2>1. HasNewest(job[i].out, x)
    BY <1>1, <1>2, <1>5 DEF JobSound, JobAt
  <2>2. \E r \in job[i].out : r.image = x
    OBVIOUS
  <2>3. PICK r \in job[i].out : r.image = x /\ \A q \in job[i].out : q.image = x => q.no <= r.no
    BY <2>1, <2>2 DEF HasNewest
  <2>4. Best(i, x) \in {q \in job[i].out : q.image = x}
    BY <2>3, LatestIn DEF Best
  <2> QED
    BY <2>4
<1>8. \A x \in batch :
        /\ Place(i, x) \in Split
        /\ Req(i).wired => \A k \in Copies(files, x) : Place(i, x) = files[k].split
        /\ ~Req(i).wired /\ Req(i).strategy = "by_source_group" =>
             Place(i, x) = Bucket(Unit[source[x]], Req(i))
  <2> TAKE x \in batch
  <2>1. x \in ImagesIn(files) /\ x \in Images /\ source[x] \in Imports
    BY <1>5, <1>6
  <2>2. CASE Req(i).wired
    <3>1. SplitsOf(i) # Nil
      BY <2>2, <1>3
    <3>2. /\ DOMAIN SplitsOf(i) = ImagesIn(files)
          /\ \A k \in DOMAIN files : SplitsOf(i)[files[k].image] = files[k].split
      BY <3>1, <1>3 DEF OutputSound, SplitsOf, Files
    <3>3. PICK D \in SUBSET Images : SplitsOf(i) \in [D -> Split]
      BY <3>1, <1>3 DEF Output, Splits, SplitsOf
    <3>4. SplitsOf(i)[x] \in Split
      BY <3>2, <3>3, <2>1
    <3>5. \A k \in Copies(files, x) : SplitsOf(i)[x] = files[k].split
      BY <3>2 DEF Copies
    <3>6. Place(i, x) = SplitsOf(i)[x]
      BY <2>2 DEF Place
    <3> QED
      BY <2>2, <3>4, <3>5, <3>6
  <2>3. CASE ~Req(i).wired
    <3>1. Unit[source[x]] \in Nat /\ Unit[x] \in Nat
      BY <2>1 DEF PipelineTypes
    <3>2. /\ Bucket(Unit[source[x]], Req(i)) \in Split
          /\ Bucket(Unit[x], Req(i)) \in Split
      BY <3>1, <1>4, BucketType
    <3> QED
      BY <2>3, <3>2 DEF Place
  <2> QED
    BY <2>2, <2>3
<1>9. /\ log' = Append(log, e) /\ UNCHANGED <<source, revs, fails>>
      /\ job' = [job EXCEPT ![i] = done]
  BY <1>1 DEF Commit
<1>10. /\ DOMAIN pins = batch
       /\ \A x \in batch : /\ pins[x] = [rev |-> Best(i, x), split |-> Place(i, x)]
                           /\ pins[x].rev = Best(i, x) /\ pins[x].split = Place(i, x)
                           /\ pins[x] \in PinRow
  BY <1>1, <1>7, <1>8 DEF PinRow
<1>11. done \in Run /\ done.pc = "done" /\ done.out = job[i].out
       /\ done.got = job[i].got /\ done.req = job[i].req
  BY <1>1 DEF Run
<1>12. batch = {r.image : r \in job[i].out}
  OBVIOUS
<1> HIDE DEF pins, batch, done, files
<1>13. /\ DOMAIN tree = Carried(HeadTree) \cup batch
       /\ \A x \in batch : tree[x] = pins[x]
       /\ \A x \in Carried(HeadTree) \ batch : tree[x] = HeadTree[x]
  BY <1>10 DEF MergedTree
<1>14. Carried(HeadTree) \subseteq DOMAIN HeadTree
  BY DEF Carried
<1>15. tree \in [DOMAIN tree -> PinRow]
  <2>1. \A x \in DOMAIN tree : tree[x] \in PinRow
    BY <1>10, HeadFacts, <1>13, <1>14
  <2>2. tree = [x \in DOMAIN tree |-> tree[x]]
    BY <1>10 DEF MergedTree
  <2> QED
    BY <2>1, <2>2
<1>16. DOMAIN tree \in SUBSET Images
  BY <1>5, HeadFacts, <1>13, <1>14
<1>17. /\ batch \subseteq DOMAIN tree
       /\ \A x \in DOMAIN tree : tree[x].rev \in revs /\ tree[x].rev.image = x
       /\ \A x \in DOMAIN tree :
            x \in batch \/ (x \in DOMAIN HeadTree /\ tree[x] = HeadTree[x])
  <2>1. \A x \in Carried(HeadTree) :
          HeadTree[x].rev \in revs /\ HeadTree[x].rev.image = x
    BY HeadFacts DEF Carried
  <2>2. \A x \in batch : tree[x].rev \in revs /\ tree[x].rev.image = x
    BY <1>1, <1>7, <1>10, <1>13
  <2> QED
    BY <2>1, <2>2, <1>13, <1>14
<1> HIDE DEF tree
<1>18. /\ e.by = i /\ e.batch = batch /\ e.tree = tree /\ e \in Entry
  BY <1>5, <1>15, <1>16 DEF Entry
<1> HIDE DEF e
<1>19. PICK n \in Nat : n = Len(log) /\ log'[n + 1] = e /\ n + 1 \in DOMAIN log'
  BY <1>1, <1>9, <1>18
<1>20. job' \in [Imports -> Run] /\ job'[i] = done
       /\ \A k \in Imports \ {i} : job'[k] = job[k]
  BY <1>1, <1>9, <1>11
<1>21. \A k \in Imports : job'[k].out = job[k].out /\ job'[k].got = job[k].got
  BY <1>11, <1>20
<1>22. \A k \in Imports : JobAt(k, "done") => job'[k] = job[k]
  BY <1>2, <1>20
<1>23. \A k \in Imports : JobSound(k)'
  <2>1. JobSound(i)'
    <3>1. OutputSound(job[i].got)'
      BY <1>3, <1>9, <1>21 DEF OutputSound
    <3> QED
      BY <3>1, <1>1, <1>2, <1>9, <1>11, <1>20 DEF JobSound, JobAt, Req, Files, SplitsOf, OwnLabel
  <2>2. ASSUME NEW k \in Imports \ {i} PROVE JobSound(k)'
    BY <1>9, <1>20, JobKept
  <2> QED
    BY <2>1, <2>2
<1>24. EntrySound(log[n + 1])'
  <2>1. /\ JobAt(i, "done")' /\ Req(i)' = Req(i) /\ Files(i)' = files
        /\ job'[i].got = job[i].got
    BY <1>11, <1>20 DEF JobAt, Req, Files, files
  <2>2. \A x \in batch : OwnLabel(i, tree[x].rev)
    BY <1>1, <1>2, <1>7, <1>10, <1>13 DEF JobSound, JobAt
  <2>4. \A x \in batch :
          /\ Req(i).wired => \A k \in Copies(files, x) : tree[x].split = files[k].split
          /\ ~Req(i).wired /\ Req(i).strategy = "by_source_group" =>
               source[x] # Nil /\ tree[x].split = Bucket(Unit[source[x]], Req(i))
    BY <1>5, <1>6, <1>8, <1>10, <1>13 DEF PipelineTypes
  <2> QED
    BY <2>1, <2>2, <2>4, <1>9, <1>18, <1>19 DEF EntrySound, OwnLabel
<1>25. IsCommitted(i)'
  <2>1. \A x \in batch : Best(i, x)' = Best(i, x) /\ Place(i, x)' = Place(i, x)
    BY <1>9, <1>11, <1>20 DEF Best, Place, Req, SplitsOf
  <2>2. \A x \in batch : e.tree[x] = [rev |-> Best(i, x)', split |-> Place(i, x)']
    BY <2>1, <1>10, <1>13, <1>18
  <2>3. e.batch = {r.image : r \in job'[i].out}
    BY <1>12, <1>18, <1>21
  <2> QED
    BY <2>2, <2>3, <1>18, <1>19 DEF IsCommitted
<1>26. \A k \in Imports : JobAt(k, "done")' => JobAt(k, "done") \/ IsCommitted(k)'
  BY <1>20, <1>25 DEF JobAt
<1> QED
  BY <1>9, <1>17, <1>18, <1>19, <1>20, <1>21, <1>22, <1>23, <1>24, <1>26, BranchGrows

\* A commit of the API pins newest revisions, or none, and carries on the whole tree.
LEMMA ApiCommitInv ==
  ASSUME PipelineTypes, PipelineInv, NEW S \in SUBSET Images, NEW train, NEW val,
         ApiCommit(S, train, val)
  PROVE  PipelineInv'
<1> DEFINE Winner(x) == IF RevsOf(x) = {} THEN Nil ELSE Latest(RevsOf(x))
           pin(T, V, x) == [rev |-> Winner(x),
                            split |-> IF x \in T THEN "train" ELSE IF x \in V THEN "val"
                                      ELSE "test"]
           tree(T, V) == [x \in DOMAIN HeadTree \cup S |->
                            IF x \in S THEN pin(T, V, x) ELSE HeadTree[x]]
           e(T, V) == [by |-> Nil, batch |-> S, tree |-> tree(T, V)]
<1>1. PICK T \in SUBSET S, V \in SUBSET S : log' = Append(log, e(T, V))
  BY DEF ApiCommit
<1>2. UNCHANGED <<source, revs, job, fails>>
  BY DEF ApiCommit
<1>3. \A x \in S : Winner(x) = Nil \/ (Winner(x) \in revs /\ Winner(x).image = x)
  BY NewestExists
<1>4. revs \subseteq Revision /\ log \in Seq(Entry) /\ job \in [Imports -> Run]
  BY DEF PipelineInv, ImportTypeOK
<1> DEFINE p(x) == pin(T, V, x)
<1>5. \A x \in S : p(x) \in PinRow /\ p(x).rev = Winner(x)
  BY <1>3, <1>4 DEF PinRow, Split
<1> DEFINE t == tree(T, V)
<1>6. /\ DOMAIN t = DOMAIN HeadTree \cup S
      /\ \A x \in S : t[x] = p(x)
      /\ \A x \in DOMAIN HeadTree \ S : t[x] = HeadTree[x]
  OBVIOUS
<1>7. t = [x \in DOMAIN t |-> t[x]]
  OBVIOUS
<1>8. e(T, V).by = Nil /\ e(T, V).batch = S /\ e(T, V).tree = t
      /\ e(T, V) = [by |-> Nil, batch |-> S, tree |-> t]
  OBVIOUS
<1> HIDE DEF t, p, Winner
<1>9. \A x \in DOMAIN t : t[x] \in PinRow
  BY <1>5, <1>6, HeadFacts
<1>10. DOMAIN t \in SUBSET Images
  BY <1>6, HeadFacts
<1>11. t \in [DOMAIN t -> PinRow]
  BY <1>7, <1>9
<1>12. \A x \in DOMAIN t : \/ t[x].rev \in revs /\ t[x].rev.image = x
                           \/ t[x].rev = Nil
  BY <1>3, <1>5, <1>6, HeadFacts
<1> DEFINE c == e(T, V)
<1>13. c.by = Nil /\ c.batch = S /\ c.tree = t /\ log' = Append(log, c)
  BY <1>1, <1>8
<1>14. c \in Entry
  BY <1>8, <1>10, <1>11 DEF Entry
<1> HIDE DEF c
<1>15. PICK n \in Nat : n = Len(log) /\ log'[n + 1] = c
  BY <1>4, <1>13, <1>14
<1>16. \A k \in Imports : JobSound(k)'
  BY <1>2, JobKept
<1>17. EntrySound(log[n + 1])'
  BY <1>13, <1>15 DEF EntrySound
<1>18. c.batch \subseteq DOMAIN c.tree
  BY <1>6, <1>13
<1>19. \A x \in DOMAIN c.tree :
         \/ c.tree[x].rev \in revs /\ c.tree[x].rev.image = x
         \/ c.tree[x].rev = Nil /\ c.by = Nil
  BY <1>12, <1>13
<1>20. \A x \in DOMAIN c.tree :
         x \in c.batch \/ (x \in DOMAIN HeadTree /\ c.tree[x] = HeadTree[x])
  BY <1>6, <1>13
<1>21. /\ job' \in [Imports -> Run]
       /\ \A k \in Imports : job'[k].out = job[k].out /\ job'[k].got = job[k].got
       /\ \A k \in Imports : JobAt(k, "done") => job'[k] = job[k]
       /\ \A k \in Imports : JobAt(k, "done")' => JobAt(k, "done") \/ IsCommitted(k)'
  BY <1>2, <1>4 DEF JobAt
<1> QED
  BY <1>2, <1>13, <1>14, <1>15, <1>16, <1>17, <1>18, <1>19, <1>20, <1>21, BranchGrows

LEMMA PipelineStep ==
  ASSUME PipelineTypes, PipelineInv, [ImportNext]_importVars
  PROVE  PipelineInv'
<1>1. CASE UNCHANGED importVars
  <2>1. UNCHANGED <<source, revs, job, log, fails>>
    BY <1>1 DEF importVars
  <2>2. ImportTypeOK'
    BY <2>1 DEF PipelineInv, ImportTypeOK
  <2>3. \A i \in Imports : JobSound(i)'
    BY <2>1, JobKept
  <2>4. \A n \in DOMAIN log : EntrySound(log[n])'
    BY <2>1, EntryKept
  <2>5. DoneRunsAreCommitted'
    BY <2>1, CommitKept DEF DoneRunsAreCommitted, JobAt
  <2> QED
    BY <2>1, <2>2, <2>3, <2>4, <2>5 DEF PipelineInv
<1>2. ASSUME NEW i \in Imports,
             \/ \E q \in Requests : Start(i, q) \/ \E k \in Imports : StartCopied(i, q, k)
             \/ ImportStep(i) \/ Reviewed(i) \/ ResolvedByHand(i) \/ Resolve(i)
             \/ \E k \in Imports : CommitCopied(i, k)
             \/ Commit(i) \/ NothingToCommit(i) \/ StepFails(i)
      PROVE  PipelineInv'
  <2>1. ASSUME ImportStep(i) PROVE PipelineInv'
    BY <2>1, ImportInv DEF ImportStep
  <2> QED
    BY <1>2, <2>1, StartInv, StartCopiedInv, ReviewedInv, EndsInv, CommitCopiedInv, CommitInv
<1>3. ASSUME NEW S \in SUBSET Images, ApiCommit(S, 7, 2)
      PROVE  PipelineInv'
  BY <1>3, ApiCommitInv
<1> QED
  BY <1>1, <1>2, <1>3 DEF ImportNext

-----------------------------------------------------------------------------

\* A sample's split and labels are those of the commit that placed it.
LEMMA PlacedByIs ==
  ASSUME PipelineInv, NEW n \in DOMAIN log, NEW x \in DOMAIN log[n].tree
  PROVE  /\ PlacedBy(n, x) \in 1..n /\ PlacedBy(n, x) \in DOMAIN log
         /\ x \in log[PlacedBy(n, x)].batch
         /\ log[n].tree[x] = log[PlacedBy(n, x)].tree[x]
<1>1. log \in Seq(Entry) /\ n \in Nat /\ \A k \in 1..n : k \in DOMAIN log
  BY DEF PipelineInv
<1>2. PICK m \in 1..n : /\ x \in log[m].batch
                      /\ \A k \in (m + 1)..n : x \notin log[k].batch
                      /\ log[n].tree[x] = log[m].tree[x]
  BY DEF PipelineInv, Placed
<1> DEFINE M == {k \in 1..n : x \in log[k].batch}
<1>3. M \subseteq Nat /\ m \in M /\ \A k \in M : k <= m
  BY <1>1, <1>2
<1>4. PlacedBy(n, x) = m
  BY <1>3, MaxIs DEF PlacedBy
<1> QED
  BY <1>1, <1>2, <1>4

LEMMA PipelineSound == PipelineTypes /\ PipelineInv => ImportIsSound
<1> SUFFICES ASSUME PipelineTypes, PipelineInv PROVE ImportIsSound
  OBVIOUS
<1>1. \A n \in DOMAIN log : log[n] \in Entry /\ EntrySound(log[n])
  BY DEF PipelineInv
<1>2. FolderSplitsAreKept
  BY <1>1 DEF FolderSplitsAreKept, EntrySound
<1>3. CommitsPinTheirOwnLabels
  BY <1>1 DEF CommitsPinTheirOwnLabels, EntrySound, OwnLabel
<1>4. ClipsStayTogether
  <2> SUFFICES
        ASSUME NEW n \in DOMAIN log,
               NEW x \in DOMAIN log[n].tree, NEW y \in DOMAIN log[n].tree,
               NEW i, i = log[PlacedBy(n, x)].by,
               NEW j, j = log[PlacedBy(n, y)].by,
               source[x] = source[y], i # Nil, j # Nil,
               ~Req(i).wired, ~Req(j).wired,
               Req(i).strategy = "by_source_group",
               Req(j).strategy = "by_source_group",
               Req(i).train = Req(j).train, Req(i).val = Req(j).val
        PROVE  log[n].tree[x].split = log[n].tree[y].split
    BY DEF ClipsStayTogether
  <2>1. log[n].tree[x].split = Bucket(Unit[source[x]], Req(i))
    BY <1>1, PlacedByIs DEF EntrySound
  <2>2. log[n].tree[y].split = Bucket(Unit[source[y]], Req(j))
    BY <1>1, PlacedByIs DEF EntrySound
  <2> QED
    BY <2>1, <2>2, BucketSame
<1> QED
  BY <1>2, <1>3, <1>4 DEF ImportIsSound, PipelineInv

\* Types and what a run, a commit, a pinned sample and the numbers of an image's
\* revisions are hold together in every reachable state of the imports into a branch.
THEOREM ImportsInvariance == ImportSpec => []PipelineInv
<1>1. ImportInit => PipelineInv
  BY PipelineAssumption, PipelineInit
<1>2. PipelineInv /\ [ImportNext]_importVars => PipelineInv'
  BY PipelineAssumption, PipelineStep
<1> QED
  BY <1>1, <1>2, PTL DEF ImportSpec

\* Whoever had the images before and whatever runs beside it, a run's commit keeps the
\* splits of the folders and pins the labels of its own run, or of the import whose
\* output it got; a run that is done is committed, by itself or by a run before it; and
\* samples of one source that by_source_group placed with the same ratios are in one split.
THEOREM ImportsAreSound == ImportSpec => []ImportIsSound
<1>1. PipelineInv => ImportIsSound
  BY PipelineAssumption, PipelineSound
<1> QED
  BY <1>1, ImportsInvariance, PTL
=============================================================================
