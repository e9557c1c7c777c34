--------------------------- MODULE ImportPipeline ---------------------------
(***************************************************************************)
(* A labelled dataset on its way into a branch: step.import_dataset, a     *)
(* review if one is asked for, and step.commit_dataset, whose inputs the   *)
(* coordinator takes from the outputs of the steps before.  Several runs   *)
(* go on at once over images that they share, and write to one branch,     *)
(* which the API commits to as well.  A step is one transaction here: the  *)
(* races inside an import are those of SampleStore, of a review those of   *)
(* ReviewGate, of a commit those of DatasetVersioning.  What is at stake   *)
(* is what arrives: which revision of an image is pinned, and in which     *)
(* split it lands.  A step that succeeded once is not run again for the    *)
(* same config and inputs: a later run of the same archive or folder gets  *)
(* the output of an earlier one, and so may its commit.                    *)
(***************************************************************************)
EXTENDS Naturals, Sequences, FiniteSets, FiniteSetsExt

CONSTANTS
  Imports,   \* bound: runs; each makes a data source of its own
  Images,    \* contents of images: one sample each
  Unit,      \* Unit[k]: the hash of source or sample k, in tenths
  Places,    \* archives and folders, each with the format and ontology it is read by
  Contents,  \* Contents[p]: what place p may hold when it is read; a folder may change
  Requests,  \* what may be asked for
  Nil,       \* no value
  MaxFails,  \* bound: steps that raise by themselves
  MaxApi     \* bound: commits by the API

Split == {"train", "val", "test"}

\* A folder's images, in the order they are read, each with the split of the folder it
\* lies in and whether it has labels.  An image may lie there twice.
File    == [image : Images, split : Split \cup {Nil}, labels : BOOLEAN]
\* wired: the commit takes the splits of the import, as in every run of the import
\* API; a workflow of the user's own may leave them out.  train, val: ratios.
Request == [wired : BOOLEAN, review : BOOLEAN, train : 0..10, val : 0..10,
            strategy : {"by_source_group", "random_seeded"}, place : Places]

LabelKinds == {"import", "review"}
Revision   == [image : Images, no : Nat \ {0}, by : Imports, kind : LabelKinds]
Splits     == UNION {[S -> Split] : S \in SUBSET Images}

\* The output of step.import_dataset.  of: the run that executed the step.  files: what
\* it read.  splits: the output of that name, or Nil when there is none.
Output == [of : Imports, files : Seq(File), revs : SUBSET Revision,
           splits : Splits \cup {Nil}]

PipelineTypes ==
  /\ Requests \subseteq Request
  /\ Contents \in [Places -> SUBSET Seq(File)]
  /\ Unit \in [Imports \cup Images -> 0..9]
  /\ Nil \notin Split \cup Imports \cup Images /\ Nil \notin Output
  /\ {MaxFails, MaxApi} \subseteq Nat

ASSUME PipelineAssumption == PipelineTypes

VARIABLES
  source,  \* source[x]: the import whose source the sample of x belongs to
  revs,    \* the annotation revisions
  job,     \* job[i]: the run of import i
  log,     \* the commits of the branch, oldest first
  fails    \* counts StepFails, bounded by MaxFails

importVars == <<source, revs, job, log, fails>>

\* got: the output of the run's import, its own or copied.  out: the revisions that the
\* commit is given.  why: what failed the run.
Run == [pc : {"none", "import", "review", "resolve", "commit", "done", "failed"},
        req : Requests \cup {Nil}, got : Output \cup {Nil}, out : SUBSET Revision,
        why : {Nil, "step", "resolution"}]
NoJob == [pc |-> "none", req |-> Nil, got |-> Nil, out |-> {}, why |-> Nil]

IsTree(t) == DOMAIN t \subseteq Images /\ \A x \in DOMAIN t : t[x].split \in Split

ImportTypeOK ==
  /\ source \in [Images -> Imports \cup {Nil}]
  /\ revs \subseteq Revision
  /\ job \in [Imports -> Run]
  /\ \A i \in Imports :
       /\ job[i].out \subseteq revs
       /\ job[i].got # Nil => job[i].got.revs \subseteq revs
  /\ fails \in Nat
  \* commit_samples of step.commit_dataset carry a revision, of that sample
  /\ \A n \in DOMAIN log :
       /\ IsTree(log[n].tree) /\ log[n].batch \subseteq DOMAIN log[n].tree
       /\ \A x \in DOMAIN log[n].tree :
            LET rev == log[n].tree[x].rev IN
            \/ rev \in revs /\ rev.image = x
            \/ rev = Nil /\ log[n].by = Nil

ImportInit ==
  /\ source = [x \in Images |-> Nil]
  /\ revs = {}
  /\ job = [i \in Imports |-> NoJob]
  /\ log = <<>>
  /\ fails = 0

-----------------------------------------------------------------------------

JobAt(i, pc) == job[i].pc = pc
Req(i)       == job[i].req
Files(i)     == job[i].got.files
SplitsOf(i)  == job[i].got.splits
Copies(files, x)   == {k \in DOMAIN files : files[k].image = x}
Labelled(files, x) == {k \in Copies(files, x) : files[k].labels}
ImagesIn(files)    == {files[k].image : k \in DOMAIN files}
RevsOf(x)    == {r \in revs : r.image = x}
NextNo(x)    == Max({0} \cup {r.no : r \in RevsOf(x)}) + 1
Latest(R)    == CHOOSE r \in R : \A q \in R : q.no <= r.no
HeadTree     == IF log = <<>> THEN <<>> ELSE log[Len(log)].tree

\* As many new revisions of each image as count has of it.
NewRevs(i, count, kind) ==
  UNION {{[image |-> x, no |-> n, by |-> i, kind |-> kind] :
            n \in NextNo(x)..(NextNo(x) + count[x] - 1)} : x \in Images}

\* The splits go out when each file lies in a split folder and is another image.
FolderSplits(files) ==
  IF /\ files # <<>>
     /\ \A k \in DOMAIN files : files[k].split # Nil
     /\ \A k, l \in DOMAIN files : files[k].image = files[l].image => k = l
  THEN [x \in ImagesIn(files) |-> files[CHOOSE k \in DOMAIN files : files[k].image = x].split]
  ELSE Nil

Bucket(u, q) == CASE u < q.train -> "train"
                  [] u >= q.train /\ u < q.train + q.val -> "val"
                  [] OTHER -> "test"

\* The split of x in a commit of i: the folder's if it is handed on, else the strategy's.
Place(i, x) ==
  IF Req(i).wired THEN SplitsOf(i)[x]
  ELSE Bucket(Unit[IF Req(i).strategy = "by_source_group" THEN source[x] ELSE x], Req(i))

\* Wrong: the sample's newest revision, asked for or not.
BestOfAll(i, x) == Latest(RevsOf(x))

\* The winning revision of x among those that the commit of i was given.
Best(i, x) == Latest({r \in job[i].out : r.image = x})

\* What a commit of step.commit_dataset carries forward of its parent's tree.
Carried(t) == {x \in DOMAIN t : t[x].rev # Nil}

\* The tree of a commit whose batch, pins, wins over its parent's tree t.
MergedTree(t, pins) ==
  [x \in Carried(t) \cup DOMAIN pins |-> IF x \in DOMAIN pins THEN pins[x] ELSE t[x]]

-----------------------------------------------------------------------------

\* The rows of step.import_dataset that succeeded for the same place.
Imported(p) == {k \in Imports : job[k].got # Nil /\ Req(k).place = p}

AfterImport(q) == IF q.review THEN "review" ELSE "resolve"

\* POST /imports, or a workflow of the same steps: the import has a row to be run.
Start(i, q) ==
  /\ JobAt(i, "none")
  /\ Imported(q.place) = {}
  /\ job' = [job EXCEPT ![i].pc = "import", ![i].req = q]
  /\ UNCHANGED <<source, revs, log, fails>>

\* The same with the output of a run that imported the place before, whatever became of
\* that run and of the folder.  Which of several it is, the last to end, is left open.
StartCopied(i, q, k) ==
  /\ JobAt(i, "none")
  /\ k \in Imported(q.place)
  /\ job' = [job EXCEPT ![i].pc = AfterImport(q), ![i].req = q,
                        ![i].got = job[k].got, ![i].out = job[k].got.revs]
  /\ UNCHANGED <<source, revs, log, fails>>

\* Known images keep their samples and sources.  A file with labels is a revision.
Import(i, files) ==
  LET new == NewRevs(i, [x \in Images |-> Cardinality(Labelled(files, x))], "import")
  IN /\ JobAt(i, "import")
     /\ files \in Contents[Req(i).place]
     /\ source' = [x \in Images |-> IF x \in ImagesIn(files) /\ source[x] = Nil THEN i
                                    ELSE source[x]]
     /\ revs' = revs \cup new
     /\ job' = [job EXCEPT ![i].pc = AfterImport(Req(i)), ![i].out = new,
                           ![i].got = [of |-> i, files |-> files, revs |-> new,
                                       splits |-> FolderSplits(files)]]
     /\ UNCHANGED <<log, fails>>

\* The review comes back with a revision of every frame, which was a file, boxes or not.
Reviewed(i) ==
  /\ JobAt(i, "review")
  /\ LET new == NewRevs(i, [x \in Images |-> Cardinality(Copies(Files(i), x))], "review")
     IN /\ revs' = revs \cup new
        /\ job' = [job EXCEPT ![i].pc = "resolve", ![i].out = new]
  /\ UNCHANGED <<source, log, fails>>

\* Somebody resolves the gate before anything came back, whatever the resolution says.
ResolvedByHand(i) ==
  /\ JobAt(i, "review")
  /\ job' = [job EXCEPT ![i].pc = "resolve", ![i].out = {}]
  /\ UNCHANGED <<source, revs, log, fails>>

\* Wrong: the exception leaves the run as it was.
ResolveOrHang(i) ==
  /\ JobAt(i, "resolve")
  /\ ~(Req(i).wired /\ SplitsOf(i) = Nil)
  /\ job' = [job EXCEPT ![i].pc = "commit"]
  /\ UNCHANGED <<source, revs, log, fails>>

\* advance_workflow resolves the commit's inputs: an output that is named and was not
\* given fails the run.
Resolve(i) ==
  /\ JobAt(i, "resolve")
  /\ job' = [job EXCEPT ![i] =
               IF Req(i).wired /\ SplitsOf(i) = Nil
               THEN [@ EXCEPT !.pc = "failed", !.why = "resolution"]
               ELSE [@ EXCEPT !.pc = "commit"]]
  /\ UNCHANGED <<source, revs, log, fails>>

\* What the key of a commit is made of, but for its message: config and inputs.
CommitKey(i) ==
  [train |-> Req(i).train, val |-> Req(i).val, strategy |-> Req(i).strategy,
   files |-> Files(i), revs |-> job[i].out,
   splits |-> IF Req(i).wired THEN SplitsOf(i) ELSE Nil]

\* A run that committed the same, under the same message, stands in for the commit: this
\* one adds none, wherever the branch is by now.
CommitCopied(i, k) ==
  /\ JobAt(i, "resolve")
  /\ ~(Req(i).wired /\ SplitsOf(i) = Nil)
  /\ JobAt(k, "done") /\ CommitKey(k) = CommitKey(i)
  /\ job' = [job EXCEPT ![i].pc = "done"]
  /\ UNCHANGED <<source, revs, log, fails>>

\* Samples without a revision are left out of the commit.
Commit(i) ==
  LET batch == {r.image : r \in job[i].out}
      pins  == [x \in batch |-> [rev |-> Best(i, x), split |-> Place(i, x)]]
  IN /\ JobAt(i, "commit")
     /\ batch # {}
     /\ log' = Append(log, [by |-> i, batch |-> batch, tree |-> MergedTree(HeadTree, pins)])
     /\ job' = [job EXCEPT ![i].pc = "done"]
     /\ UNCHANGED <<source, revs, fails>>

\* "nothing to commit"
NothingToCommit(i) ==
  /\ JobAt(i, "commit")
  /\ job[i].out = {}
  /\ job' = [job EXCEPT ![i].pc = "failed", ![i].why = "step"]
  /\ UNCHANGED <<source, revs, log, fails>>

\* A bad archive, a folder that is not allowed, a class list that is not there.
StepFails(i) ==
  /\ JobAt(i, "import") \/ JobAt(i, "commit")
  /\ fails < MaxFails
  /\ fails' = fails + 1
  /\ job' = [job EXCEPT ![i].pc = "failed", ![i].why = "step"]
  /\ UNCHANGED <<source, revs, log>>

\* POST /commits/from-samples: the samples' latest revisions, or none; the first part
\* of the batch, in no order, becomes the train split, the next one the val split.
\* Everything of the parent's tree is carried on.
ApiCommit(S, train, val) ==
  LET Winner(x) == IF RevsOf(x) = {} THEN Nil ELSE Latest(RevsOf(x))
      counts(n) == [train |-> (n * train) \div 10, val |-> (n * val) \div 10]
  IN /\ Cardinality({n \in DOMAIN log : log[n].by = Nil}) < MaxApi
     /\ S # {} /\ \A x \in S : source[x] # Nil
     /\ \E T \in SUBSET S, V \in SUBSET S :
          /\ V \cap T = {}
          /\ Cardinality(T) = Min({Cardinality(S), counts(Cardinality(S)).train})
          /\ Cardinality(V) = Min({Cardinality(S \ T), counts(Cardinality(S)).val})
          /\ log' = Append(log,
               [by |-> Nil, batch |-> S,
                tree |-> [x \in DOMAIN HeadTree \cup S |->
                  IF x \in S
                  THEN [rev |-> Winner(x),
                        split |-> IF x \in T THEN "train" ELSE IF x \in V THEN "val"
                                  ELSE "test"]
                  ELSE HeadTree[x]]])
     /\ UNCHANGED <<source, revs, job, fails>>

ImportStep(i) == \E files \in UNION {Contents[p] : p \in Places} : Import(i, files)

ImportNext ==
  \/ \E i \in Imports :
       \/ \E q \in Requests : Start(i, q) \/ \E k \in Imports : StartCopied(i, q, k)
       \/ ImportStep(i) \/ Reviewed(i) \/ ResolvedByHand(i) \/ Resolve(i)
       \/ \E k \in Imports : CommitCopied(i, k)
       \/ Commit(i) \/ NothingToCommit(i) \/ StepFails(i)
  \/ \E S \in SUBSET Images : ApiCommit(S, 7, 2)

\* Workers take the steps, and what ends a step advances the run; reviewers are free.
Fairness == \A i \in Imports :
  WF_importVars(ImportStep(i) \/ Resolve(i) \/ Commit(i) \/ NothingToCommit(i))

ImportSpec == ImportInit /\ [][ImportNext]_importVars
FairSpec   == ImportSpec /\ Fairness

-----------------------------------------------------------------------------
(* Properties.                                                               *)

\* The splits of a dataset's folders arrive in the branch through import, review and
\* commit, whoever had the images before and wherever they were (docs/16, "those
\* folder splits are used as-is"; commit_dataset, "preset from import takes priority").
\* They are those of the folder as it was when the step ran, for this run or for the
\* one whose output it got.
FolderSplitsAreKept ==
  \A n \in DOMAIN log : log[n].by # Nil =>
    LET i == log[n].by IN
    Req(i).wired =>
      \A x \in log[n].batch : \A k \in Copies(Files(i), x) :
        log[n].tree[x].split = Files(i)[k].split

\* A commit of a run pins the labels of that run: its reviewers' and not the imported
\* ones if it was reviewed, else those of the import whose output it got, although other
\* runs label the same images meanwhile (docs/16, "then commits the reviewed revisions").
CommitsPinTheirOwnLabels ==
  \A n \in DOMAIN log : log[n].by # Nil =>
    LET i == log[n].by IN
    \A x \in log[n].batch :
      LET rev == log[n].tree[x].rev IN
      IF Req(i).review THEN rev.by = i /\ rev.kind = "review"
      ELSE rev.by = job[i].got.of /\ rev.kind = "import"

\* Some commit has just the revisions that i would pin, in the splits it would choose.
IsCommitted(i) ==
  \E n \in DOMAIN log :
    /\ log[n].batch = {r.image : r \in job[i].out}
    /\ \A x \in log[n].batch :
         log[n].tree[x] = [rev |-> Best(i, x), split |-> Place(i, x)]

\* A run that is done is committed, by itself or, if its commit was short-circuited, by
\* a run before it: nothing it was given is missing there or differs.
DoneRunsAreCommitted == \A i \in Imports : JobAt(i, "done") => IsCommitted(i)

\* The commit that placed x in the tree of commit n.
PlacedBy(n, x) == Max({m \in 1..n : x \in log[m].batch})

\* Samples of one source that by_source_group placed with the same ratios are in one
\* split, whichever runs committed them and however often (split_strategies.py,
\* "keeping each clip wholly within one split").
ClipsStayTogether ==
  \A n \in DOMAIN log : \A x, y \in DOMAIN log[n].tree :
    LET i == log[PlacedBy(n, x)].by
        j == log[PlacedBy(n, y)].by
    IN /\ source[x] = source[y]
       /\ i # Nil /\ j # Nil
       /\ ~Req(i).wired /\ ~Req(j).wired
       /\ Req(i).strategy = "by_source_group" /\ Req(j).strategy = "by_source_group"
       /\ <<Req(i).train, Req(i).val>> = <<Req(j).train, Req(j).val>>
       => log[n].tree[x].split = log[n].tree[y].split

\* Types and what commits of a branch hold (import_dataset, commit_dataset).
ImportIsSound ==
  /\ ImportTypeOK
  /\ FolderSplitsAreKept /\ CommitsPinTheirOwnLabels /\ DoneRunsAreCommitted
  /\ ClipsStayTogether

\* A run that is not with its reviewers comes to an end.
ImportsEnd ==
  \A i \in Imports : job[i].pc \in {"import", "resolve", "commit"}
                       ~> job[i].pc \in {"review", "done", "failed"}

\* docs/16-dataset-import.md: when the folders give no split, or not to every image,
\* "the split strategy assigns them": no run fails but by a step of its own.
ImportsAreCommitted == \A i \in Imports : job[i].why # "resolution"
=============================================================================
