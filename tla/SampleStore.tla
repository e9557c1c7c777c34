---------------------------- MODULE SampleStore -----------------------------
(***************************************************************************)
(* The writers of tables samples and annotation_revisions: uploads of      *)
(* images, with and without labels, the frames of a video, imports of a    *)
(* labelled dataset, step.auto_label, and the annotation API.  Each is one *)
(* transaction that goes through its items in order.  A content has one    *)
(* sample per project, deleted or not: an insert of a content that another *)
(* open transaction has inserted waits for that one to end, and Postgres   *)
(* breaks a deadlock by failing one of the transactions in it.  Committed  *)
(* rows alone are visible to others; numbers of revisions are the          *)
(* application's, the maximum it sees plus one.                            *)
(***************************************************************************)
EXTENDS Naturals, Sequences, FiniteSets, FiniteSetsExt

CONSTANTS
  Writers,   \* bound: transactions
  Contents,  \* contents of images, and their hashes
  Jobs,      \* what a transaction may be asked to write
  None,      \* no split
  MaxFails   \* bound: transactions that fail by themselves

Split == {"train", "val", "test"}

\* content: of the item's file, or of the sample that is asked for.  labels: it
\* has labels of classes that the ontology knows, or the model predicts some.
Item == [content : Contents, split : Split \cup {None}, labels : BOOLEAN]
Uploads == {"images", "annotated", "frames", "import"}
Job  == [kind : Uploads \cup {"autoLabel", "annotate"}, items : Seq(Item)]

ASSUME StoreAssumption ==
  /\ Jobs \subseteq Job
  /\ \A j \in Jobs : j.items # <<>>
  /\ None \notin Split
  /\ MaxFails \in Nat

VARIABLES
  sample,  \* sample[id]: a committed row of table samples
  revs,    \* the committed rows of annotation_revisions
  tx,      \* tx[w]: the transaction of writer w
  fails    \* counts Fail, bounded by MaxFails

vars == <<sample, revs, tx, fails>>

\* The row that writer w inserts for content c.
Ids      == Writers \X Contents
Revision == [sample : Ids, no : Nat \ {0}, by : Writers]

\* ids: the samples found or made so far, one per item.  mine: contents inserted
\* and not committed.  new: revisions not committed.  splits: pairs <<id, split>>.
Tx == [pc : {"open", "done", "failed"}, job : Jobs, ids : Seq(Ids),
       mine : SUBSET Contents, new : SUBSET Revision, splits : SUBSET (Ids \X Split)]
NoTx == [pc |-> "none", ids |-> <<>>, mine |-> {}, new |-> {}, splits |-> {}]

TypeOK ==
  /\ sample \in [Ids -> {"none", "live", "deleted"}]
  /\ revs \subseteq Revision
  /\ tx \in [Writers -> {NoTx} \cup Tx]
  /\ fails \in Nat
  \* the unique constraint uq_samples_project_blob
  /\ \A c \in Contents : Cardinality({w \in Writers : sample[<<w, c>>] # "none"}) <= 1

Init ==
  /\ sample = [id \in Ids |-> "none"]
  /\ revs = {}
  /\ tx = [w \in Writers |-> NoTx]
  /\ fails = 0

-----------------------------------------------------------------------------

Open(w)  == tx[w].pc = "open"
Items(w) == tx[w].job.items
Kind(w)  == tx[w].job.kind
Done(w)  == Len(tx[w].ids) = Len(Items(w))
Head1(w) == Items(w)[Len(tx[w].ids) + 1]

\* Rows of content c that w's statements see.
Seen(w, c) == {id \in Ids : id[2] = c /\ (sample[id] # "none"
                                            \/ (id[1] = w /\ c \in tx[w].mine))}

\* The insert that w is about to do waits for u.
Waits(w, u) ==
  /\ Open(w) /\ ~Done(w) /\ Kind(w) \in Uploads
  /\ u # w
  /\ Head1(w).content \in tx[u].mine

Blocked(w)    == \E u \in Writers : Waits(w, u)
Deadlocked(w) == \E S \in SUBSET Writers :
                   w \in S /\ \A u \in S : \E v \in S : Waits(u, v)

NextNo(w, id) ==
  Max({0} \cup {r.no : r \in {q \in revs \cup tx[w].new : q.sample = id}}) + 1

\* Wrong: the image's labels are stacked on a sample that was there before.
RevisesAlways(w, fresh) ==
  \/ Kind(w) = "annotated"
  \/ Kind(w) = "import" /\ Head1(w).labels

\* Whether the item at hand brings a revision: an upload with labels revises new
\* samples only, and those even if it has no boxes for them.
Revises(w, fresh) ==
  \/ Kind(w) = "annotated" /\ fresh
  \/ Kind(w) = "import" /\ Head1(w).labels

Number(w, id) == IF Kind(w) = "annotated" THEN 1 ELSE NextNo(w, id)

\* An import passes its folders' splits on when there are as many as samples.
PassOn(w) == IF Cardinality(tx[w].splits) = Len(tx[w].ids) THEN tx[w].splits ELSE {}

\* splits, a dict, with sample id put to s.
Put(splits, id, s) ==
  IF s = None THEN splits ELSE {p \in splits : p[1] # id} \cup {<<id, s>>}

-----------------------------------------------------------------------------

\* Labels are asked for samples that are known, to someone.
Begin(w, j) ==
  /\ tx[w].pc = "none"
  /\ j.kind \notin Uploads => \A i \in DOMAIN j.items : Seen(w, j.items[i].content) # {}
  /\ tx' = [tx EXCEPT ![w] = [pc |-> "open", job |-> j, ids |-> <<>>, mine |-> {},
                              new |-> {}, splits |-> {}]]
  /\ UNCHANGED <<sample, revs, fails>>

\* The item at hand has become, or was found to be, sample id.
Take(w, id, fresh) ==
  LET t == tx[w]
      rev == [sample |-> id, no |-> Number(w, id), by |-> w]
  IN tx' = [tx EXCEPT ![w] =
              [t EXCEPT !.ids = Append(@, id),
                        !.mine = IF fresh THEN @ \cup {Head1(w).content} ELSE @,
                        !.new = IF Revises(w, fresh) THEN @ \cup {rev} ELSE @,
                        !.splits = IF Kind(w) = "import" THEN Put(@, id, Head1(w).split)
                                   ELSE @]]

InsertNew(w) ==
  /\ Open(w) /\ ~Done(w) /\ Kind(w) \in Uploads
  /\ ~Blocked(w)
  /\ Seen(w, Head1(w).content) = {}
  /\ Take(w, <<w, Head1(w).content>>, TRUE)
  /\ UNCHANGED <<sample, revs, fails>>

\* Wrong: the row that is in the way need not be committed; the query for it finds
\* nothing, and the id made up for the insert is used.
FindEarly(w) ==
  /\ Open(w) /\ ~Done(w) /\ Kind(w) \in Uploads
  /\ IF Blocked(w) THEN Take(w, <<w, Head1(w).content>>, FALSE)
     ELSE \E id \in Seen(w, Head1(w).content) : Take(w, id, FALSE)
  /\ UNCHANGED <<sample, revs, fails>>

\* ON CONFLICT DO NOTHING, then the row in the way: deleted ones too.
FindExisting(w) ==
  /\ Open(w) /\ ~Done(w) /\ Kind(w) \in Uploads
  /\ ~Blocked(w)
  /\ \E id \in Seen(w, Head1(w).content) : Take(w, id, FALSE)
  /\ UNCHANGED <<sample, revs, fails>>

\* step.auto_label does not look at deleted_at; the annotation API does.
Annotate(w) ==
  /\ Open(w) /\ ~Done(w) /\ Kind(w) \notin Uploads
  /\ \E id \in Seen(w, Head1(w).content) :
       LET rev == [sample |-> id, no |-> NextNo(w, id), by |-> w] IN
       /\ Kind(w) = "annotate" => sample[id] = "live"
       /\ tx' = [tx EXCEPT ![w].ids = Append(@, id),
                           ![w].new = IF Head1(w).labels THEN @ \cup {rev} ELSE @]
  /\ UNCHANGED <<sample, revs, fails>>

Commit(w) ==
  /\ Open(w) /\ Done(w)
  /\ sample' = [id \in Ids |-> IF id[1] = w /\ id[2] \in tx[w].mine THEN "live"
                               ELSE sample[id]]
  /\ revs' = revs \cup tx[w].new
  /\ tx' = [tx EXCEPT ![w] = [@ EXCEPT !.pc = "done", !.mine = {}, !.new = {},
                                       !.splits = PassOn(w)]]
  /\ UNCHANGED fails

Rollback(w) ==
  tx' = [tx EXCEPT ![w] = [@ EXCEPT !.pc = "failed", !.ids = <<>>, !.mine = {},
                                    !.new = {}, !.splits = {}]]

\* Wrong: the request is over, its transaction is left open.
FailOpen(w) ==
  /\ Open(w)
  /\ fails < MaxFails
  /\ fails' = fails + 1
  /\ tx' = [tx EXCEPT ![w].pc = "failed"]
  /\ UNCHANGED <<sample, revs>>

\* A bad file, a storage error, a death of the process.
Fail(w) ==
  /\ Open(w)
  /\ fails < MaxFails
  /\ fails' = fails + 1
  /\ Rollback(w)
  /\ UNCHANGED <<sample, revs>>

\* The sample has been deleted: 404.
NotFound(w) ==
  /\ Open(w) /\ ~Done(w) /\ Kind(w) = "annotate"
  /\ \E id \in Seen(w, Head1(w).content) : sample[id] = "deleted"
  /\ Rollback(w)
  /\ UNCHANGED <<sample, revs, fails>>

\* Postgres: deadlock detected.
Victim(w) ==
  /\ Deadlocked(w)
  /\ Rollback(w)
  /\ UNCHANGED <<sample, revs, fails>>

DeleteSample(id) ==
  /\ sample[id] = "live"
  /\ sample' = [sample EXCEPT ![id] = "deleted"]
  /\ UNCHANGED <<revs, tx, fails>>

Next ==
  \/ \E w \in Writers :
       \/ \E j \in Jobs : Begin(w, j)
       \/ InsertNew(w) \/ FindExisting(w) \/ Annotate(w) \/ NotFound(w) \/ Commit(w)
       \/ Fail(w) \/ Victim(w)
  \/ \E id \in Ids : DeleteSample(id)

\* A writer goes on as long as nothing blocks it; Postgres looks for deadlocks.
Fairness == \A w \in Writers :
  WF_vars(InsertNew(w) \/ FindExisting(w) \/ Annotate(w) \/ NotFound(w) \/ Commit(w)
            \/ Victim(w))

Spec     == Init /\ [][Next]_vars
FairSpec == Spec /\ Fairness

-----------------------------------------------------------------------------
(* Properties.                                                               *)

\* The ids that a writer returns are of rows in the table, each of its item's
\* content, although the writer found some of them in the way of its own insert
\* and others inserted them meanwhile (confirm_images, import_annotated_images,
\* the _ingest of extract_frames and of import_dataset).
ReturnedIdsExist ==
  \A w \in Writers : tx[w].pc = "done" =>
    \A i \in DOMAIN Items(w) :
      /\ sample[tx[w].ids[i]] # "none"
      /\ tx[w].ids[i][2] = Items(w)[i].content

\* An upload with labels never stacks them on a sample that others may have
\* labelled: its revision is number 1 and the only one, whoever races it
\* (annotation_import.py, "does NOT get a second revision stacked on it").
UploadedLabelsComeFirst ==
  \A r, q \in revs : Kind(r.by) = "annotated" /\ q.sample = r.sample /\ q # r =>
    r.no = 1 /\ q.no > 1

\* The revisions of a sample are numbered from 1 without a gap, though numbers are
\* taken from what each writer sees and some writers fail.  Two may be equal.
NumbersHaveNoGaps ==
  \A id \in Ids :
    LET numbers == {r.no : r \in {q \in revs : q.sample = id}}
    IN numbers = 1..Cardinality(numbers)

\* Splits that an import passes on place each of its samples, and in the folder of
\* every file with that content (import_dataset.py, "A partial map (mixed flat/split
\* trees) would silently mis-assign the flat ones").
SplitsAreWhole ==
  \A w \in Writers : tx[w].pc = "done" /\ tx[w].splits # {} =>
    \A i \in DOMAIN Items(w) :
      {p[2] : p \in {q \in tx[w].splits : q[1] = tx[w].ids[i]}} = {Items(w)[i].split}

\* Types, with the unique constraint of samples, ids, numbers and splits (the writers).
StoreIsSound ==
  TypeOK /\ ReturnedIdsExist /\ NumbersHaveNoGaps /\ SplitsAreWhole

\* Every writer ends, those that insert the same contents in opposite orders too.
WritersEnd == \A w \in Writers : Open(w) ~> ~Open(w)
=============================================================================
