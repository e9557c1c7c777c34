-------------------------- MODULE UploadIngest_proofs --------------------------
(***************************************************************************)
(* Theorems about UploadIngest, for any sources, contents, overlapping     *)
(* confirms and runs, however many of them die or are cancelled.           *)
(***************************************************************************)
EXTENDS UploadIngest, TLAPS

\* A request that is to copy bytes has them to copy, and one that is to register
\* them has them in place, or somebody else's word.
ConfirmSound(c) ==
  LET s == conf[c].source
      h == conf[c].hash
  IN /\ ~At(c, "idle") => s \in Sources /\ h \in Contents /\ src[s].status # "none"
     /\ At(c, "copy") => staged[s] # None
     /\ At(c, "commit") => object[h] # None \/ h \in vouched

\* A source has no blob but one that a confirm named, and no frames of others.
SourceSound(s) ==
  /\ src[s].blob # None => src[s].blob \in named[s]
  /\ src[s].status \in {"none", "pending"} => src[s].blob = None
  /\ src[s].status \in {"uploaded", "ingesting", "ingested"} => src[s].blob # None
  /\ src[s].status = "ingested" => frames[s] # {}
  /\ frames[s] \subseteq named[s]

\* No step was done with anything: it waits, or was never to begin, or read that
\* there is no blob.
Undone(r) == /\ run[r].pc \in {"queued", "read", "refused", "withdrawn", "lost"}
             /\ run[r].pc = "read" => run[r].blob = None

\* A step at work has read a hash of its source.  The runs of a source that is
\* pending, or that one confirm has just marked, have done nothing.
RunSound(r) ==
  LET s == run[r].source IN
  /\ run[r].pc # "none" => s \in Sources /\ src[s].status # "none"
  /\ run[r].pc = "read" /\ run[r].blob # None =>
       run[r].blob \in named[s] /\ src[s].blob # None
  /\ run[r].pc # "none" /\ \/ src[s].status = "pending"
                           \/ src[s].status = "uploaded" /\ s \notin excused
       => Undone(r)

ConfirmsSound == \A c \in Confirms : ConfirmSound(c)
SourcesSound  == \A s \in Sources : SourceSound(s)
RunsSound     == \A r \in Runs : RunSound(r)

IInv ==
  /\ TypeOK
  /\ BlobsAreBacked
  /\ ConfirmsSound
  /\ SourcesSound
  /\ RunsSound
  /\ UploadedIsOnItsWay
  /\ IngestingIsAtWork

-----------------------------------------------------------------------------

LEMMA InitInv == Init => IInv
<1> SUFFICES ASSUME Init PROVE IInv
  OBVIOUS
<1> USE DEF Init
<1>1. TypeOK
  BY DEF TypeOK, NoSource, Source, NoConfirm, Confirm, NoRun, Run
<1>2. BlobsAreBacked /\ ConfirmsSound
  BY DEF BlobsAreBacked, ConfirmsSound, ConfirmSound, At, NoConfirm
<1>3. SourcesSound
  BY DEF SourcesSound, SourceSound, NoSource
<1>4. RunsSound
  BY DEF RunsSound, RunSound, NoRun
<1> QED
  BY <1>1, <1>2, <1>3, <1>4 DEF IInv, UploadedIsOnItsWay, IngestingIsAtWork, NoSource

-----------------------------------------------------------------------------
(* The client, the storage and the requests that only move on.               *)

LEMMA CreateSourceInv ==
  ASSUME IInv, NEW s \in Sources, CreateSource(s)
  PROVE  IInv'
<1> USE DEF IInv, CreateSource, store, history
<1> DEFINE new == [status |-> "pending", blob |-> None, live |-> TRUE]
<1>1. /\ src' \in [Sources -> Source]
      /\ src'[s] = new
      /\ \A t \in Sources \ {s} : src'[t] = src[t]
      /\ UNCHANGED <<staged, object, blobs, vouched, conf, run, frames, named, excused, acts, faults>>
  BY DEF TypeOK, Source
<1>2. TypeOK'
  BY <1>1 DEF TypeOK, Taken
<1>3. BlobsAreBacked'
  BY <1>1 DEF BlobsAreBacked
<1>4. ConfirmsSound'
  BY <1>1 DEF ConfirmsSound, ConfirmSound, At
<1>5. SourcesSound' /\ RunsSound'
  BY <1>1 DEF SourcesSound, SourceSound, RunsSound, RunSound, Undone, TypeOK
<1>6. UploadedIsOnItsWay' /\ IngestingIsAtWork'
  BY <1>1 DEF UploadedIsOnItsWay, IngestingIsAtWork, Lost, Stopped, At
<1> QED BY <1>2, <1>3, <1>4, <1>5, <1>6

\* Bytes arrive, at the URL of a source or as an image, or an image is registered.
LEMMA StoreInv ==
  ASSUME IInv,
         UNCHANGED <<src, conf, run, frames, named, excused, faults>>, acts' \in Nat,
         staged' \in [Sources -> Contents \cup {None}],
         object' \in [Contents -> Contents \cup {None}],
         blobs' \subseteq Contents, vouched' \subseteq Contents, vouched \subseteq vouched',
         \A t \in Sources : staged[t] # None => staged'[t] # None,
         \A g \in Contents : object[g] # None => object'[g] # None,
         \A g \in blobs' \ vouched' : object'[g] # None
  PROVE  IInv'
<1> USE DEF IInv
<1>1. TypeOK'
  BY DEF TypeOK, Taken
<1>2. BlobsAreBacked'
  BY DEF BlobsAreBacked
<1>3. ConfirmsSound'
  BY DEF ConfirmsSound, ConfirmSound, At, TypeOK
<1>4. SourcesSound' /\ RunsSound'
  BY DEF SourcesSound, SourceSound, RunsSound, RunSound, Undone
<1>5. UploadedIsOnItsWay' /\ IngestingIsAtWork'
  BY DEF UploadedIsOnItsWay, IngestingIsAtWork, Lost, Stopped, At
<1> QED BY <1>1, <1>2, <1>3, <1>4, <1>5

LEMMA BytesInv ==
  ASSUME IInv, NEW s \in Sources, NEW b \in Contents, Put(s, b) \/ PutAgain(s, b)
  PROVE  IInv'
<1>1. /\ UNCHANGED <<src, object, blobs, vouched, conf, run, frames, named, excused, faults>>
      /\ acts' \in Nat /\ staged' = [staged EXCEPT ![s] = b]
  BY DEF Put, PutAgain, PutBytes, Acts, IInv, TypeOK, history
<1>2. /\ staged' \in [Sources -> Contents \cup {None}]
      /\ \A t \in Sources : staged[t] # None => staged'[t] # None
  BY <1>1, UploadAssumption DEF IInv, TypeOK
<1> QED BY <1>1, <1>2, StoreInv DEF IInv, TypeOK, BlobsAreBacked

LEMMA ImageInv ==
  ASSUME IInv, NEW h \in Contents, RegisterImage(h) \/ \E b \in Contents : PutImage(h, b)
  PROVE  IInv'
<1>1. CASE \E b \in Contents : PutImage(h, b)
  <2>0. PICK b \in Contents : PutImage(h, b)
    BY <1>1
  <2>1. /\ UNCHANGED <<src, staged, blobs, vouched, conf, run, frames, named, excused, faults>>
        /\ acts' \in Nat /\ object' = [object EXCEPT ![h] = b]
    BY <2>0 DEF PutImage, Acts, IInv, TypeOK, history
  <2>2. /\ object' \in [Contents -> Contents \cup {None}]
        /\ \A g \in Contents : object[g] # None => object'[g] # None
    BY <2>1, UploadAssumption DEF IInv, TypeOK
  <2> QED BY <2>1, <2>2, StoreInv DEF IInv, TypeOK, BlobsAreBacked
<1>2. CASE RegisterImage(h)
  <2>1. /\ UNCHANGED <<src, staged, object, conf, run, frames, named, excused, faults>>
        /\ acts' \in Nat /\ blobs' = blobs \cup {h} /\ vouched \subseteq vouched'
        /\ vouched' \subseteq Contents
        /\ h \in vouched' \/ h \in blobs \/ object[h] # None
    BY <1>2 DEF RegisterImage, Acts, IInv, TypeOK, history
  <2> QED BY <2>1, StoreInv DEF IInv, TypeOK, BlobsAreBacked
<1> QED BY <1>1, <1>2

LEMMA DeleteSourceInv ==
  ASSUME IInv, NEW s \in Sources, DeleteSource(s)
  PROVE  IInv'
<1> USE DEF IInv, DeleteSource, store, history
<1>0. /\ UNCHANGED <<staged, object, blobs, vouched, conf, run, frames, named, excused, faults>>
      /\ acts' \in Nat
  BY DEF TypeOK, Acts
<1>1. /\ src' \in [Sources -> Source]
      /\ \A t \in Sources : /\ src'[t].status = src[t].status
                           /\ src'[t].blob = src[t].blob
                           /\ src'[t].live => src[t].live
  BY DEF TypeOK, Source
<1>2. TypeOK'
  BY <1>0, <1>1 DEF TypeOK, Taken
<1>3. BlobsAreBacked'
  BY <1>0, <1>1 DEF BlobsAreBacked
<1>4. ConfirmsSound'
  BY <1>0, <1>1 DEF ConfirmsSound, ConfirmSound, At
<1>5. SourcesSound' /\ RunsSound'
  BY <1>0, <1>1 DEF SourcesSound, SourceSound, RunsSound, RunSound, Undone
<1>6. UploadedIsOnItsWay' /\ IngestingIsAtWork'
  BY <1>0, <1>1 DEF UploadedIsOnItsWay, IngestingIsAtWork, Lost, Stopped, At
<1> QED BY <1>2, <1>3, <1>4, <1>5, <1>6

\* Request c goes on or ends, and writes nothing.
LEMMA ConfirmMovesInv ==
  ASSUME IInv, NEW c \in Confirms,
         \/ \E s \in Sources : \E h \in HashesOf[s] : Load(c, s, h)
         \/ NothingStaged(c) \/ Promote(c) \/ Conflict(c) \/ Shelve(c) \/ CrashConfirm(c)
  PROVE  IInv'
<1> USE DEF IInv
<1>1. /\ UNCHANGED <<src, staged, object, blobs, vouched, run, frames, named, acts>>
      /\ faults' \in Nat
  BY DEF Load, NothingStaged, Promote, Conflict, Shelve, CrashConfirm, TypeOK, store, history
<1>2. conf[c] \in Confirm /\ ConfirmSound(c)
  BY DEF TypeOK, ConfirmsSound
<1>3. /\ excused \subseteq excused' /\ excused' \subseteq Sources
      /\ At(c, "dispatch") => conf[c].source \in excused'
  BY <1>2 DEF Load, NothingStaged, Promote, Conflict, Shelve, CrashConfirm, TypeOK, At,
              ConfirmSound, history
<1>4. PICK new \in Confirm : conf' = [conf EXCEPT ![c] = new] /\ ConfirmSound(c)'
  <2>1. ASSUME NEW s \in Sources, NEW h \in HashesOf[s], Load(c, s, h)
        PROVE  \E new \in Confirm : conf' = [conf EXCEPT ![c] = new] /\ ConfirmSound(c)'
    <3> DEFINE new == [pc |-> IF h \in blobs THEN "commit" ELSE "promote", source |-> s,
                       hash |-> h]
    <3>0. h \in Contents
      BY UploadAssumption
    <3>1. new \in Confirm /\ conf' = [conf EXCEPT ![c] = new]
      BY <2>1, <3>0 DEF Load, Confirm
    <3>2. conf'[c] = new
      BY <3>1 DEF TypeOK
    <3>3. ConfirmSound(c)'
      BY <1>1, <2>1, <3>0, <3>2 DEF ConfirmSound, At, BlobsAreBacked, Load
    <3> QED BY <3>1, <3>3
  <2>2. ASSUME Promote(c)
        PROVE  \E new \in Confirm : conf' = [conf EXCEPT ![c] = new] /\ ConfirmSound(c)'
    <3> DEFINE to  == IF object[conf[c].hash] = None THEN "copy" ELSE "commit"
               new == [conf[c] EXCEPT !.pc = to]
    <3>1. new \in Confirm /\ conf' = [conf EXCEPT ![c] = new]
      BY <1>2, <2>2 DEF Promote, Goto, Confirm
    <3>2. conf'[c] = new /\ new.source = conf[c].source /\ new.hash = conf[c].hash /\ new.pc = to
      BY <1>2, <3>1 DEF TypeOK, Confirm
    <3>3. ConfirmSound(c)'
      BY <1>1, <1>2, <2>2, <3>2 DEF ConfirmSound, At, Promote
    <3> QED BY <3>1, <3>3
  <2>3. ASSUME NothingStaged(c) \/ Conflict(c) \/ Shelve(c) \/ CrashConfirm(c)
        PROVE  \E new \in Confirm : conf' = [conf EXCEPT ![c] = new] /\ ConfirmSound(c)'
    <3>1. conf' = [conf EXCEPT ![c] = NoConfirm] /\ NoConfirm \in Confirm
      BY <2>3 DEF NothingStaged, Conflict, Shelve, CrashConfirm, Returns, NoConfirm, Confirm
    <3> QED BY <3>1 DEF ConfirmSound, At, NoConfirm, TypeOK
  <2> QED BY <2>1, <2>2, <2>3
<1>5. \A e \in Confirms \ {c} : conf'[e] = conf[e]
  BY <1>4 DEF TypeOK
<1>6. TypeOK'
  BY <1>1, <1>3, <1>4 DEF TypeOK, Taken
<1>7. BlobsAreBacked' /\ SourcesSound'
  BY <1>1 DEF BlobsAreBacked, SourcesSound, SourceSound
<1>8. ConfirmsSound'
  BY <1>1, <1>4, <1>5 DEF ConfirmsSound, ConfirmSound, At
<1>9. RunsSound' /\ IngestingIsAtWork'
  BY <1>1, <1>3 DEF RunsSound, RunSound, Undone, IngestingIsAtWork, Lost
<1>10. UploadedIsOnItsWay'
  BY <1>1, <1>3, <1>5 DEF UploadedIsOnItsWay, Lost, Stopped, At
<1> QED BY <1>6, <1>7, <1>8, <1>9, <1>10

LEMMA CopyInv ==
  ASSUME IInv, NEW c \in Confirms, Copy(c)
  PROVE  IInv'
<1> USE DEF IInv
<1> DEFINE s   == conf[c].source
           h   == conf[c].hash
           new == [conf[c] EXCEPT !.pc = "commit"]
<1>1. conf[c] \in Confirm /\ s \in Sources /\ staged[s] \in Contents /\ h \in Contents
  BY UploadAssumption DEF TypeOK, ConfirmsSound, ConfirmSound, Copy, At
<1>2. /\ new \in Confirm /\ new.pc = "commit" /\ new.source = s /\ new.hash = h
      /\ conf' = [conf EXCEPT ![c] = new]
      /\ UNCHANGED <<src, staged, blobs, vouched, run, frames, named, excused, acts, faults>>
  BY <1>1 DEF Copy, Goto, Confirm, history
<1>3. conf'[c] = new /\ \A e \in Confirms \ {c} : conf'[e] = conf[e]
  BY <1>2 DEF TypeOK
<1>4. /\ object' \in [Contents -> Contents \cup {None}]
      /\ object'[h] = staged[s]
      /\ \A g \in Contents \ {h} : object'[g] = object[g]
  BY <1>1 DEF Copy, TypeOK
<1>5. TypeOK'
  BY <1>2, <1>4 DEF TypeOK, Taken
<1>6. BlobsAreBacked'
  BY <1>1, <1>2, <1>4, UploadAssumption DEF BlobsAreBacked, TypeOK
<1>7. ConfirmsSound'
  <2> SUFFICES ASSUME NEW e \in Confirms PROVE ConfirmSound(e)'
    BY DEF ConfirmsSound
  <2>1. src[s].status # "none" /\ staged[s] # None
    BY <1>1, UploadAssumption DEF ConfirmsSound, ConfirmSound, Copy, At
  <2>2. CASE e = c
    BY <1>1, <1>2, <1>3, <1>4, <2>1, <2>2 DEF ConfirmSound, At
  <2>3. CASE e # c
    BY <1>1, <1>2, <1>3, <1>4, <2>1, <2>3 DEF ConfirmsSound, ConfirmSound, At
  <2> QED BY <2>2, <2>3
<1>8. SourcesSound' /\ RunsSound' /\ IngestingIsAtWork'
  BY <1>2 DEF SourcesSound, SourceSound, RunsSound, RunSound, Undone, IngestingIsAtWork, Lost
<1>9. UploadedIsOnItsWay'
  BY <1>2, <1>3 DEF UploadedIsOnItsWay, Lost, Stopped, At, Copy
<1> QED BY <1>5, <1>6, <1>7, <1>8, <1>9

-----------------------------------------------------------------------------
(* The steps that mark a source or start a run.                              *)

\* The unique index is looked at in the same step that writes the blob.
LEMMA CommitInv ==
  ASSUME IInv, NEW c \in Confirms, Commit(c)
  PROVE  IInv'
<1> USE DEF IInv
<1> DEFINE s   == conf[c].source
           h   == conf[c].hash
           new == [conf[c] EXCEPT !.pc = "dispatch"]
<1>1. /\ conf[c] \in Confirm /\ s \in Sources /\ h \in Contents
      /\ src[s] \in Source /\ src[s].status # "none"
      /\ object[h] # None \/ h \in vouched
  BY DEF TypeOK, ConfirmsSound, ConfirmSound, Commit, At
<1>2. /\ new \in Confirm /\ new.pc = "dispatch" /\ new.source = s /\ new.hash = h
      /\ conf' = [conf EXCEPT ![c] = new]
      /\ UNCHANGED <<staged, object, vouched, run, frames, acts, faults>>
      /\ blobs' = blobs \cup {h}
  BY <1>1 DEF Commit, Goto, Confirm
<1>3. conf'[c] = new /\ \A e \in Confirms \ {c} : conf'[e] = conf[e]
  BY <1>2 DEF TypeOK
<1>4. /\ src' \in [Sources -> Source]
      /\ src'[s] = [src[s] EXCEPT !.blob = h, !.status = "uploaded"]
      /\ \A t \in Sources \ {s} : src'[t] = src[t]
      /\ named' \in [Sources -> SUBSET Contents]
      /\ h \in named'[s] /\ \A t \in Sources : named[t] \subseteq named'[t]
  BY <1>1 DEF Commit, TypeOK, Source
<1>5. src'[s].status = "uploaded" /\ src'[s].blob = h /\ src'[s].live = src[s].live
  BY <1>1, <1>4 DEF Source
<1>6. /\ excused \subseteq excused' /\ excused' \subseteq Sources
      /\ s \notin excused' => src[s].status = "pending"
  BY <1>1 DEF Commit, TypeOK
<1>7. TypeOK'
  <2>1. ~(src[s].live /\ Taken(s, h))
    BY DEF Commit
  <2>2. ASSUME NEW t \in Sources, src'[t].live, src'[t].blob # None,
               NEW u \in Sources \ {t}, src'[u].live, ProjectOf[u] = ProjectOf[t],
               src'[u].blob = src'[t].blob
        PROVE  FALSE
    <3>1. CASE t = s
      BY <1>4, <1>5, <2>1, <2>2, <3>1 DEF Taken
    <3>2. CASE u = s
      BY <1>4, <1>5, <2>1, <2>2, <3>2 DEF Taken
    <3>3. CASE t # s /\ u # s
      BY <1>4, <2>2, <3>3 DEF Taken, TypeOK
    <3> QED BY <3>1, <3>2, <3>3
  <2>3. (\A t \in Sources : src[t].live /\ src[t].blob # None => ~Taken(t, src[t].blob))'
    BY <2>2 DEF Taken
  <2>4. /\ src' \in [Sources -> Source] /\ blobs' \subseteq Contents
        /\ excused' \subseteq Sources /\ conf' \in [Confirms -> Confirm]
        /\ named' \in [Sources -> SUBSET Contents] /\ vouched' \subseteq Contents
    BY <1>1, <1>2, <1>4, <1>6 DEF TypeOK
  <2>5. /\ staged' \in [Sources -> Contents \cup {None}]
        /\ object' \in [Contents -> Contents \cup {None}]
        /\ run' \in [Runs -> Run] /\ frames' \in [Sources -> SUBSET Contents]
        /\ acts' \in Nat /\ faults' \in Nat
    BY <1>2 DEF TypeOK
  <2> QED BY <2>3, <2>4, <2>5 DEF TypeOK
<1>8. BlobsAreBacked'
  BY <1>1, <1>2 DEF BlobsAreBacked
<1>9. ConfirmsSound'
  <2> SUFFICES ASSUME NEW e \in Confirms PROVE ConfirmSound(e)'
    BY DEF ConfirmsSound
  <2>1. \A t \in Sources : src[t].status # "none" => src'[t].status # "none"
    BY <1>4, <1>5
  <2>2. CASE e = c
    BY <1>1, <1>2, <1>3, <1>5, <2>2 DEF ConfirmSound, At
  <2>3. CASE e # c
    BY <1>2, <1>3, <2>1, <2>3 DEF ConfirmsSound, ConfirmSound, At
  <2> QED BY <2>2, <2>3
<1>10. SourcesSound'
  <2> SUFFICES ASSUME NEW t \in Sources PROVE SourceSound(t)'
    BY DEF SourcesSound
  <2>0. frames[t] \subseteq named'[t]
    BY <1>4 DEF SourcesSound, SourceSound
  <2>1. CASE t = s
    BY <1>1, <1>2, <1>4, <1>5, <2>0, <2>1, UploadAssumption DEF SourceSound
  <2>2. CASE t # s
    BY <1>2, <1>4, <2>0, <2>2 DEF SourcesSound, SourceSound
  <2> QED BY <2>1, <2>2
<1>11. RunsSound'
  <2> SUFFICES ASSUME NEW q \in Runs PROVE RunSound(q)'
    BY DEF RunsSound
  <2>0. RunSound(q) /\ Undone(q)' = Undone(q)
    BY <1>2 DEF RunsSound, Undone
  <2>1. CASE run[q].source = s
    <3>1. s \notin excused' /\ run[q].pc # "none" => Undone(q)
      BY <1>6, <2>0, <2>1 DEF RunSound
    <3>2. run[q].pc = "read" /\ run[q].blob # None => run[q].blob \in named'[s]
      BY <1>1, <1>4, <2>0, <2>1 DEF RunSound
    <3>3. src'[s].blob # None
      BY <1>1, <1>5, UploadAssumption
    <3> QED BY <1>1, <1>2, <1>5, <2>0, <2>1, <3>1, <3>2, <3>3 DEF RunSound
  <2>2. CASE run[q].source # s
    BY <1>2, <1>4, <1>6, <2>0, <2>2 DEF RunSound
  <2> QED BY <2>1, <2>2
<1>12. UploadedIsOnItsWay'
  <2> SUFFICES ASSUME NEW t \in Sources \ excused', ~Lost(t), ~Stopped(t),
                      src'[t].status = "uploaded"
               PROVE  \/ \E e \in Confirms : conf'[e].pc = "dispatch" /\ conf'[e].source = t
                      \/ \E q \in Runs : run[q].pc = "queued" /\ run[q].source = t
                                           /\ run[q].by = "confirm"
    BY <1>2 DEF UploadedIsOnItsWay, Lost, Stopped, At
  <2>1. CASE t = s
    BY <1>2, <1>3, <2>1
  <2>2. CASE t # s
    <3>1. conf[c].pc # "dispatch"
      BY DEF Commit, At
    <3> QED BY <1>3, <1>4, <1>6, <2>2, <3>1 DEF UploadedIsOnItsWay, At
  <2> QED BY <2>1, <2>2
<1>13. IngestingIsAtWork'
  BY <1>2, <1>4, <1>5 DEF IngestingIsAtWork, Lost
<1> QED BY <1>7, <1>8, <1>9, <1>10, <1>11, <1>12, <1>13

\* A run that is started takes a row of its own.  It waits for a worker, unless it
\* is refused, or a step on its source has succeeded before.
LEMMA StartedRun ==
  ASSUME IInv, NEW s \in Sources, NEW by \in {"confirm", "user"}, StartRun(s, by)
  PROVE  \E r \in Runs, new \in Run :
           /\ run[r].pc = "none"
           /\ run' = [run EXCEPT ![r] = new]
           /\ new.source = s /\ new.by = by
           /\ \/ new.pc \in {"queued", "refused"}
              \/ new.pc = "succeeded" /\ \E q \in Runs : run[q].source = s /\ run[q].pc = "succeeded"
<1>1. PICK r \in Runs, pc \in {"queued", "refused", "succeeded"} :
        /\ {q \in Runs : run[q].pc = "none"} = r..MaxRuns
        /\ pc = "succeeded" => \E q \in Runs : run[q].source = s /\ run[q].pc = "succeeded"
        /\ run' = [run EXCEPT ![r] = [pc |-> pc, source |-> s, blob |-> None, by |-> by,
                                      cancel |-> FALSE]]
  BY DEF StartRun
<1> DEFINE new == [pc |-> pc, source |-> s, blob |-> None, by |-> by, cancel |-> FALSE]
<1>2. r \in r..MaxRuns
  BY UploadAssumption DEF Runs
<1>3. run[r].pc = "none"
  BY <1>1, <1>2
<1>4. new \in Run
  BY DEF Run
<1> QED BY <1>1, <1>3, <1>4

LEMMA StartRunInv ==
  ASSUME IInv, NEW s \in Sources, src[s].status # "none",
         \/ Rerun(s)
         \/ \E c \in Confirms : Dispatch(c) /\ conf[c].source = s
  PROVE  IInv'
<1> USE DEF IInv
<1>1. /\ UNCHANGED <<src, staged, object, blobs, vouched, frames, named, excused, faults>>
      /\ acts' \in Nat
  BY DEF Rerun, Dispatch, Acts, store, history, TypeOK
<1>2. \/ UNCHANGED conf /\ StartRun(s, "user")
      \/ /\ \E c \in Confirms : conf' = [conf EXCEPT ![c] = NoConfirm] /\ conf[c].source = s
         /\ StartRun(s, "confirm")
  BY DEF Rerun, Dispatch, Returns
<1>3. PICK by \in {"confirm", "user"} : StartRun(s, by) /\ (by = "user" => UNCHANGED conf)
  BY <1>2
<1>4. PICK r \in Runs, new \in Run :
           /\ run[r].pc = "none"
           /\ run' = [run EXCEPT ![r] = new]
           /\ new.source = s /\ new.by = by
           /\ \/ new.pc \in {"queued", "refused"}
              \/ new.pc = "succeeded" /\ \E q \in Runs : run[q].source = s /\ run[q].pc = "succeeded"
  BY <1>3, StartedRun
<1>5. run'[r] = new /\ \A q \in Runs \ {r} : run'[q] = run[q]
  BY <1>4 DEF TypeOK
<1>6. conf' \in [Confirms -> Confirm]
  BY <1>2 DEF TypeOK, NoConfirm, Confirm
<1>7. TypeOK'
  BY <1>1, <1>4, <1>6 DEF TypeOK, Taken
<1>8. BlobsAreBacked' /\ SourcesSound'
  BY <1>1 DEF BlobsAreBacked, SourcesSound, SourceSound
<1>9. ConfirmsSound'
  <2> SUFFICES ASSUME NEW e \in Confirms PROVE ConfirmSound(e)'
    BY DEF ConfirmsSound
  <2>1. conf'[e] = conf[e] \/ conf'[e] = NoConfirm
    BY <1>2 DEF TypeOK
  <2> QED BY <1>1, <2>1 DEF ConfirmsSound, ConfirmSound, At, NoConfirm
<1>10. RunsSound'
  <2> SUFFICES ASSUME NEW q \in Runs PROVE RunSound(q)'
    BY DEF RunsSound
  <2>1. CASE q # r
    BY <1>1, <1>5, <2>1 DEF RunsSound, RunSound, Undone
  <2>2. CASE q = r
    BY <1>1, <1>4, <1>5, <2>2 DEF RunsSound, RunSound, Undone
  <2> QED BY <2>1, <2>2
<1>11. \A t \in Sources : (~Lost(t)' => ~Lost(t)) /\ (~Stopped(t)' => ~Stopped(t))
  BY <1>4, <1>5 DEF Lost, Stopped
<1>12. UploadedIsOnItsWay'
  <2> SUFFICES ASSUME NEW t \in Sources \ excused, ~Lost(t), ~Stopped(t), ~Stopped(t)',
                      src[t].status = "uploaded"
               PROVE  \/ \E e \in Confirms : conf'[e].pc = "dispatch" /\ conf'[e].source = t
                      \/ \E q \in Runs : run'[q].pc = "queued" /\ run'[q].source = t
                                           /\ run'[q].by = "confirm"
    BY <1>1, <1>11 DEF UploadedIsOnItsWay, At
  <2>1. CASE t = s /\ by = "confirm"
    <3>1. new.pc # "succeeded"
      BY <1>4, <2>1 DEF RunsSound, RunSound, Undone
    <3>2. new.pc # "refused"
      BY <1>4, <1>5, <2>1 DEF Stopped
    <3> QED BY <1>4, <1>5, <2>1, <3>1, <3>2
  <2>2. CASE t # s \/ by = "user"
    <3>1. CASE \E e \in Confirms : conf[e].pc = "dispatch" /\ conf[e].source = t
      BY <1>2, <1>3, <2>2, <3>1 DEF TypeOK
    <3>2. CASE \E q \in Runs : run[q].pc = "queued" /\ run[q].source = t /\ run[q].by = "confirm"
      BY <1>4, <1>5, <3>2
    <3> QED BY <3>1, <3>2 DEF UploadedIsOnItsWay, At
  <2> QED BY <2>1, <2>2
<1>13. IngestingIsAtWork'
  <2> SUFFICES ASSUME NEW t \in Sources, ~Lost(t), src[t].status = "ingesting"
               PROVE  \E q \in Runs : run'[q].pc = "read" /\ run'[q].source = t
    BY <1>1, <1>11 DEF IngestingIsAtWork
  <2> QED BY <1>4, <1>5 DEF IngestingIsAtWork
<1> QED BY <1>7, <1>8, <1>9, <1>10, <1>12, <1>13

-----------------------------------------------------------------------------
(* The step on the worker, and its cancels.                                  *)

\* A cancel marks the row of a step, and turns it when the step is not at work.
LEMMA CancelInv ==
  ASSUME IInv, NEW r \in Runs, CancelRead(r) \/ CancelWrite(r)
  PROVE  IInv'
<1> USE DEF IInv
<1>1. /\ UNCHANGED <<src, staged, object, blobs, vouched, conf, frames, named, excused, faults>>
      /\ acts' \in Nat
  BY DEF CancelRead, CancelWrite, Acts, TypeOK, store, history
<1>2. run[r] \in Run
  BY DEF TypeOK
<1>3. PICK new \in Run :
        /\ run' = [run EXCEPT ![r] = new]
        /\ new.source = run[r].source /\ new.blob = run[r].blob /\ new.by = run[r].by
        /\ \/ new.pc = run[r].pc
           \/ run[r].pc = "queued" /\ new.pc = "withdrawn"
           \/ run[r].pc = "succeeded" /\ new.pc = "cancelled"
  <2>1. CASE CancelRead(r)
    <3>1. run' = [run EXCEPT ![r] = [run[r] EXCEPT !.cancel = TRUE]]
      BY <2>1 DEF CancelRead
    <3>2. /\ [run[r] EXCEPT !.cancel = TRUE] \in Run
          /\ [run[r] EXCEPT !.cancel = TRUE].pc = run[r].pc
      BY <1>2 DEF Run
    <3> QED BY <1>2, <3>1, <3>2 DEF Run
  <2>2. CASE CancelWrite(r)
    <3> DEFINE pc  == IF run[r].pc = "queued" THEN "withdrawn"
                      ELSE IF run[r].pc = "succeeded" THEN "cancelled" ELSE run[r].pc
               new == [run[r] EXCEPT !.cancel = FALSE, !.pc = pc]
    <3>1. run' = [run EXCEPT ![r] = new]
      BY <2>2 DEF CancelWrite
    <3>2. new \in Run /\ new.pc = pc
      BY <1>2 DEF Run
    <3> QED BY <1>2, <3>1, <3>2 DEF Run
  <2> QED BY <2>1, <2>2
<1>4. run'[r] = new /\ \A q \in Runs \ {r} : run'[q] = run[q]
  BY <1>3 DEF TypeOK
<1>5. TypeOK'
  BY <1>1, <1>3 DEF TypeOK, Taken
<1>6. BlobsAreBacked' /\ ConfirmsSound' /\ SourcesSound'
  BY <1>1 DEF BlobsAreBacked, ConfirmsSound, ConfirmSound, At, SourcesSound, SourceSound
<1>7. RunsSound'
  BY <1>1, <1>3, <1>4 DEF RunsSound, RunSound, Undone
<1>8. \A t \in Sources : (~Lost(t)' => ~Lost(t)) /\ (~Stopped(t)' => ~Stopped(t))
  BY <1>3, <1>4 DEF Lost, Stopped
<1>9. UploadedIsOnItsWay'
  <2> SUFFICES ASSUME NEW t \in Sources \ excused, ~Lost(t), ~Stopped(t), ~Stopped(t)',
                      src[t].status = "uploaded"
               PROVE  \/ \E e \in Confirms : conf[e].pc = "dispatch" /\ conf[e].source = t
                      \/ \E q \in Runs : run'[q].pc = "queued" /\ run'[q].source = t
                                           /\ run'[q].by = "confirm"
    BY <1>1, <1>8 DEF UploadedIsOnItsWay, At
  <2>1. ASSUME run[r].pc = "queued", run[r].source = t, run[r].by = "confirm"
        PROVE  new.pc = "queued"
    BY <1>3, <1>4, <2>1 DEF Stopped
  <2> QED BY <1>3, <1>4, <2>1 DEF UploadedIsOnItsWay, At
<1>10. IngestingIsAtWork'
  BY <1>1, <1>3, <1>4, <1>8 DEF IngestingIsAtWork
<1> QED BY <1>5, <1>6, <1>7, <1>9, <1>10

\* A step that begins, succeeds, fails or dies moves its run and at most its source.
LEMMA StepMovesInv ==
  ASSUME IInv, NEW r \in Runs, Begin(r) \/ Ingest(r) \/ Fail(r) \/ CrashRun(r)
  PROVE  IInv'
<1> USE DEF IInv
<1> DEFINE s == run[r].source
<1>1. UNCHANGED <<staged, object, blobs, vouched, conf, named, excused, acts>> /\ faults' \in Nat
  BY DEF Begin, Ingest, Fail, CrashRun, TypeOK, store, history
<1>2. /\ run[r] \in Run /\ RunSound(r) /\ run[r].pc \in {"queued", "read"}
      /\ s \in Sources /\ src[s] \in Source /\ src[s].status # "none"
      /\ SourceSound(s) /\ named[s] \subseteq Contents /\ frames[s] \subseteq Contents
  BY DEF TypeOK, RunsSound, RunSound, SourcesSound, Begin, Ingest, Fail, CrashRun
<1>3. /\ run' \in [Runs -> Run] /\ run'[r].source = s /\ run'[r].by = run[r].by
      /\ \A q \in Runs \ {r} : run'[q] = run[q]
      /\ src' \in [Sources -> Source]
      /\ \A t \in Sources : src'[t].blob = src[t].blob /\ src'[t].live = src[t].live
      /\ \A t \in Sources \ {s} : src'[t] = src[t] /\ frames'[t] = frames[t]
      /\ frames' \in [Sources -> SUBSET Contents]
  <2>1. ASSUME NEW pc \in {"read", "succeeded", "failed", "lost"}
        PROVE  LET new == [run[r] EXCEPT !.pc = pc]
               IN  new \in Run /\ new.source = s /\ new.by = run[r].by
    BY <1>2 DEF Run
  <2>2. CASE Begin(r)
    <3>1. run' = [run EXCEPT ![r] = [run[r] EXCEPT !.pc = "read", !.blob = src[s].blob]]
      BY <2>2 DEF Begin
    <3>2. [run[r] EXCEPT !.pc = "read", !.blob = src[s].blob] \in Run
      BY <1>2 DEF Run, Source
    <3> QED BY <1>2, <2>2, <3>1, <3>2 DEF Begin, TypeOK, Run, Source
  <2>3. CASE Ingest(r)
    <3>1. run' = [run EXCEPT ![r] = [run[r] EXCEPT !.pc = "succeeded"]]
      BY <2>3 DEF Ingest, Moves
    <3>2. object[run[r].blob] \in Contents
      BY <1>2, <2>3 DEF Ingest, RunSound
    <3> QED BY <1>2, <2>1, <2>3, <3>1, <3>2 DEF Ingest, TypeOK, Source
  <2>4. CASE Fail(r)
    <3>1. run' = [run EXCEPT ![r] = [run[r] EXCEPT !.pc = "failed"]]
      BY <2>4 DEF Fail, Moves
    <3> QED BY <1>2, <2>1, <2>4, <3>1 DEF Fail, TypeOK, Source
  <2>5. CASE CrashRun(r)
    <3>1. run' = [run EXCEPT ![r] = [run[r] EXCEPT !.pc = "lost"]]
      BY <2>5 DEF CrashRun, Moves
    <3> QED BY <1>2, <2>1, <2>5, <3>1 DEF CrashRun, TypeOK, Source
  <2> QED BY <2>2, <2>3, <2>4, <2>5
<1>4. \/ /\ run'[r].pc = "read" /\ run'[r].blob = src[s].blob
         /\ src[s].blob # None /\ src'[s].status = "ingesting" /\ frames'[s] = frames[s]
      \/ /\ run'[r].pc = "read" /\ run'[r].blob = None /\ run[r].pc = "queued"
         /\ src[s].blob = None /\ src' = src /\ frames'[s] = frames[s]
      \/ /\ run'[r].pc = "succeeded"
         /\ src[s].blob # None /\ src'[s].status = "ingested"
         /\ frames'[s] # {} /\ frames'[s] \subseteq named[s]
      \/ /\ run'[r].pc = "failed"
         /\ src'[s].status = "failed" /\ frames'[s] = frames[s]
      \/ /\ run'[r].pc = "lost" /\ run[r].pc = "read"
         /\ src'[s].status = src[s].status /\ frames'[s] = frames[s]
  <2>1. CASE Begin(r)
    BY <1>2, <2>1 DEF Begin, TypeOK, SourceSound, Run, Source
  <2>2. CASE Ingest(r)
    <3>1. frames'[s] = frames[s] \cup {run[r].blob} /\ run[r].blob \in named[s]
      BY <1>2, <2>2 DEF Ingest, TypeOK, RunSound
    <3> QED BY <1>2, <2>2, <3>1 DEF Ingest, Moves, TypeOK, RunSound, SourceSound, Run, Source
  <2>3. CASE Fail(r)
    BY <1>2, <2>3 DEF Fail, Moves, TypeOK, Run, Source
  <2>4. CASE CrashRun(r)
    BY <1>2, <2>4 DEF CrashRun, Moves, TypeOK, Run
  <2> QED BY <2>1, <2>2, <2>3, <2>4
<1>6. TypeOK'
  BY <1>1, <1>3 DEF TypeOK, Taken
<1>7. BlobsAreBacked'
  BY <1>1 DEF BlobsAreBacked
<1>8. ConfirmsSound'
  <2> SUFFICES ASSUME NEW e \in Confirms PROVE ConfirmSound(e)'
    BY DEF ConfirmsSound
  <2>1. \A t \in Sources : src[t].status # "none" => src'[t].status # "none"
    BY <1>2, <1>3, <1>4
  <2> QED BY <1>1, <2>1 DEF ConfirmsSound, ConfirmSound, At
<1>9. SourcesSound'
  <2> SUFFICES ASSUME NEW t \in Sources PROVE SourceSound(t)'
    BY DEF SourcesSound
  <2>1. CASE t # s
    BY <1>1, <1>3, <2>1 DEF SourcesSound, SourceSound
  <2>2. CASE t = s
    BY <1>1, <1>2, <1>3, <1>4, <2>2 DEF SourceSound
  <2> QED BY <2>1, <2>2
<1>10. RunsSound'
  <2> SUFFICES ASSUME NEW q \in Runs PROVE RunSound(q)'
    BY DEF RunsSound
  <2>1. CASE run[q].source = s /\ q # r
    BY <1>1, <1>2, <1>3, <1>4, <2>1 DEF RunsSound, RunSound, Undone
  <2>2. CASE run[q].source # s
    BY <1>1, <1>3, <2>2 DEF RunsSound, RunSound, Undone
  <2>3. CASE q = r
    BY <1>1, <1>2, <1>3, <1>4, <2>3 DEF RunSound, SourceSound, Undone
  <2> QED BY <2>1, <2>2, <2>3
<1>11. /\ \A t \in Sources : (~Lost(t)' => ~Lost(t)) /\ (~Stopped(t)' => ~Stopped(t))
       /\ run'[r].pc = "lost" => Lost(s)'
  BY <1>2, <1>3 DEF Lost, Stopped
<1>12. UploadedIsOnItsWay'
  <2> SUFFICES ASSUME NEW t \in Sources \ excused, ~Lost(t)', ~Lost(t), ~Stopped(t),
                      src'[t].status = "uploaded"
               PROVE  \/ \E e \in Confirms : conf'[e].pc = "dispatch" /\ conf'[e].source = t
                      \/ \E q \in Runs : run'[q].pc = "queued" /\ run'[q].source = t
                                           /\ run'[q].by = "confirm"
    BY <1>1, <1>11 DEF UploadedIsOnItsWay, At
  <2>1. ASSUME t = s PROVE FALSE
    BY <1>2, <1>3, <1>4, <1>11, <2>1 DEF SourceSound
  <2>2. src[t].status = "uploaded"
    BY <1>3, <2>1
  <2> QED BY <1>1, <1>3, <2>1, <2>2 DEF UploadedIsOnItsWay, At
<1>13. IngestingIsAtWork'
  <2> SUFFICES ASSUME NEW t \in Sources, ~Lost(t)', src'[t].status = "ingesting"
               PROVE  \E q \in Runs : run'[q].pc = "read" /\ run'[q].source = t
    BY DEF IngestingIsAtWork
  <2>1. CASE t = s
    BY <1>2, <1>3, <1>4, <1>11, <2>1 DEF SourceSound
  <2>2. CASE t # s
    BY <1>3, <1>11, <2>2 DEF IngestingIsAtWork
  <2> QED BY <2>1, <2>2
<1> QED BY <1>6, <1>7, <1>8, <1>9, <1>10, <1>12, <1>13

-----------------------------------------------------------------------------

LEMMA StepInv == ASSUME IInv, [Next]_vars PROVE IInv'
<1>1. CASE UNCHANGED vars
  BY <1>1 DEF vars, store, history, IInv, TypeOK, Taken, BlobsAreBacked, ConfirmsSound,
              ConfirmSound, At, SourcesSound, SourceSound, RunsSound, RunSound, Undone,
              UploadedIsOnItsWay, IngestingIsAtWork, Lost, Stopped
<1>2. ASSUME NEW s \in Sources, CreateSource(s) \/ DeleteSource(s) \/ Rerun(s)
      PROVE  IInv'
  <2>1. Rerun(s) => src[s].status # "none"
    BY DEF Rerun
  <2> QED BY <1>2, <2>1, CreateSourceInv, DeleteSourceInv, StartRunInv
<1>3. ASSUME NEW s \in Sources, NEW b \in Contents, Put(s, b) \/ PutAgain(s, b)
      PROVE  IInv'
  BY <1>3, BytesInv
<1>4. ASSUME NEW h \in Contents, RegisterImage(h) \/ \E b \in Contents : PutImage(h, b)
      PROVE  IInv'
  BY <1>4, ImageInv
<1>5. ASSUME NEW c \in Confirms,
             \/ \E s \in Sources : \E h \in HashesOf[s] : Load(c, s, h)
             \/ NothingStaged(c) \/ Promote(c) \/ Conflict(c) \/ Shelve(c) \/ CrashConfirm(c)
      PROVE  IInv'
  BY <1>5, ConfirmMovesInv
<1>6. ASSUME NEW c \in Confirms, Copy(c) \/ Commit(c) PROVE IInv'
  BY <1>6, CopyInv, CommitInv
<1>7. ASSUME NEW c \in Confirms, Dispatch(c) PROVE IInv'
  <2>1. conf[c].source \in Sources /\ src[conf[c].source].status # "none"
    BY <1>7 DEF IInv, ConfirmsSound, ConfirmSound, Dispatch, At
  <2> QED BY <1>7, <2>1, StartRunInv
<1>8. ASSUME NEW r \in Runs,
             \/ Begin(r) \/ Ingest(r) \/ Fail(r) \/ CrashRun(r)
             \/ CancelRead(r) \/ CancelWrite(r)
      PROVE  IInv'
  BY <1>8, StepMovesInv, CancelInv
<1> QED BY <1>1, <1>2, <1>3, <1>4, <1>5, <1>6, <1>7, <1>8 DEF Next

\* The inductive invariant holds of every reachable state.
THEOREM Invariance == Spec => []IInv
<1>1. Init => IInv
  BY InitInv
<1>2. IInv /\ [Next]_vars => IInv'
  BY StepInv
<1> QED BY <1>1, <1>2, PTL DEF Spec

\* Registered blobs have their bytes, a source marked 'uploaded' is about to be
\* worked on, and one marked 'ingesting' is worked on, with the exceptions that
\* UploadIsSound names (confirm_upload, ExtractFramesStep.run).
THEOREM UploadsAreSound == Spec => []UploadIsSound
<1>1. IInv => UploadIsSound
  BY DEF IInv, UploadIsSound
<1> QED BY <1>1, Invariance, PTL

\* Whatever clients declare and put, and whoever confirms twice, the frames of a
\* source are of bytes that were verified against a hash of it (_ingest).
THEOREM FramesAreGenuine == Spec => []IngestedIsGenuine
<1>1. IInv => IngestedIsGenuine
  BY DEF IInv, IngestedIsGenuine, SourcesSound, SourceSound
<1> QED BY <1>1, Invariance, PTL
=============================================================================
