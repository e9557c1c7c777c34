---------------------------- MODULE UploadIngest ----------------------------
(***************************************************************************)
(* A video on its way from the browser to frame samples.  The client       *)
(* creates a data source, puts the bytes at uploads/{id} through a signed  *)
(* URL, and confirms with the hash it computed; the API promotes the bytes *)
(* to their content-addressed place, registers the blob, and starts the    *)
(* ingest workflow; step.extract_frames verifies the hash and registers    *)
(* the frames.  Two confirms of a source may overlap and declare different *)
(* hashes, the signed URL takes bytes as long as it is valid, a source may *)
(* be deleted or run again at any time, a run may be cancelled, and        *)
(* requests and workers may die.  Images are uploaded to their hash's      *)
(* address and registered on the client's word.  A content stands for its  *)
(* own SHA-256.                                                            *)
(***************************************************************************)
EXTENDS Naturals, FiniteSets

CONSTANTS
  Sources,      \* bound: ids of data_sources rows
  Contents,     \* contents of videos, and their hashes
  Projects,     \* projects
  ProjectOf,    \* ProjectOf[s]: the project that source s is created in
  HashesOf,     \* bound: HashesOf[s]: the hashes that confirms of source s declare
  Sends,        \* bound: <<s, b>>: bytes b may arrive at the signed URL of source s
  Images,       \* bound: <<h, b>>: bytes b may arrive as the image with hash h
  Confirms,     \* confirm-upload requests in flight
  MaxRuns,      \* bound: ingest runs started
  None,         \* no source or content
  MaxActs,      \* bound: what users do besides: bytes put again, images, deletions,
                \* runs of their own, cancels
  MaxFaults     \* bound: requests and steps that die

ASSUME UploadAssumption ==
  /\ None \notin Sources \cup Contents
  /\ ProjectOf \in [Sources -> Projects]
  /\ HashesOf \in [Sources -> SUBSET Contents]
  /\ Sends \subseteq Sources \X Contents
  /\ Images \subseteq Contents \X Contents
  /\ {MaxRuns, MaxActs, MaxFaults} \subseteq Nat

VARIABLES
  src,        \* src[s]: a row of data_sources
  staged,     \* staged[s]: the bytes at uploads/{s}
  object,     \* object[h]: the bytes at blobs/{h}
  blobs,      \* hashes in table blobs
  conf,       \* conf[c]: what confirm request c is doing
  run,        \* run[r]: an ingest run, numbered as they were started
  frames,     \* frames[s]: the bytes that source s has frames of
  named,      \* history: named[s]: the hashes that source s has had
  vouched,    \* history: hashes registered without bytes, on the word of a client
  excused,    \* history: sources whose confirm started no run, or that two confirms
              \* marked as uploaded
  acts,       \* counts what users do besides, bounded by MaxActs
  faults      \* counts the deaths, bounded by MaxFaults

store   == <<staged, object, blobs, vouched>>
history == <<named, excused>>
vars    == <<src, store, conf, run, frames, history, acts, faults>>

Source == [status : {"none", "pending", "uploaded", "ingesting", "ingested", "failed"},
           blob : Contents \cup {None}, live : BOOLEAN]
NoSource == [status |-> "none", blob |-> None, live |-> FALSE]

\* promote: the blob was not registered; copy: nor were its bytes in place.
Confirm == [pc : {"idle", "promote", "copy", "commit", "dispatch"},
            source : Sources \cup {None}, hash : Contents \cup {None}]
NoConfirm == [pc |-> "idle", source |-> None, hash |-> None]

\* by: who started the run.  refused: it ends before extract_frames has a row, or
\* has no such step.  withdrawn, cancelled: the row was cancelled before its step
\* began, or after it had succeeded.  lost: the row stays 'running' for ever.
\* cancel: a request has found the row pending or running and is to cancel it.
Runs == 1..MaxRuns
Run == [pc : {"none", "refused", "queued", "read", "succeeded", "failed",
              "withdrawn", "cancelled", "lost"},
        source : Sources \cup {None}, blob : Contents \cup {None},
        by : {"nobody", "confirm", "user"}, cancel : BOOLEAN]
NoRun == [pc |-> "none", source |-> None, blob |-> None, by |-> "nobody", cancel |-> FALSE]

\* A live source of the project already has content h.
Taken(s, h) == \E t \in Sources \ {s} : /\ src[t].live
                                        /\ ProjectOf[t] = ProjectOf[s]
                                        /\ src[t].blob = h

TypeOK ==
  /\ src \in [Sources -> Source]
  /\ staged \in [Sources -> Contents \cup {None}]
  /\ object \in [Contents -> Contents \cup {None}]
  /\ blobs \subseteq Contents
  /\ conf \in [Confirms -> Confirm]
  /\ run \in [Runs -> Run]
  /\ frames \in [Sources -> SUBSET Contents]
  /\ named \in [Sources -> SUBSET Contents]
  /\ vouched \subseteq Contents
  /\ excused \subseteq Sources
  /\ acts \in Nat
  /\ faults \in Nat
  \* the partial unique index uq_data_sources_project_blob
  /\ \A s \in Sources : src[s].live /\ src[s].blob # None => ~Taken(s, src[s].blob)

Init ==
  /\ src = [s \in Sources |-> NoSource]
  /\ staged = [s \in Sources |-> None]
  /\ object = [h \in Contents |-> None]
  /\ blobs = {}
  /\ conf = [c \in Confirms |-> NoConfirm]
  /\ run = [r \in Runs |-> NoRun]
  /\ frames = [s \in Sources |-> {}]
  /\ named = [s \in Sources |-> {}]
  /\ vouched = {}
  /\ excused = {}
  /\ acts = 0
  /\ faults = 0

-----------------------------------------------------------------------------
(* The client and the storage.                                               *)

Acts == acts < MaxActs /\ acts' = acts + 1

CreateSource(s) ==
  /\ src[s].status = "none"
  /\ src' = [src EXCEPT ![s] = [status |-> "pending", blob |-> None, live |-> TRUE]]
  /\ UNCHANGED <<store, conf, run, frames, history, acts, faults>>

\* What arrives need not be what is declared, and may be put again after the
\* confirm: the URL knows nothing of either.
PutBytes(s, b) ==
  /\ <<s, b>> \in Sends /\ src[s].status # "none"
  /\ staged' = [staged EXCEPT ![s] = b]
  /\ UNCHANGED <<src, object, blobs, vouched, conf, run, frames, history, faults>>

Put(s, b)      == staged[s] = None /\ PutBytes(s, b) /\ UNCHANGED acts
PutAgain(s, b) == staged[s] # None /\ PutBytes(s, b) /\ Acts

\* The bytes of an image go to the address of the hash that the client computed.
PutImage(h, b) ==
  /\ Acts
  /\ <<h, b>> \in Images
  /\ object' = [object EXCEPT ![h] = b]
  /\ UNCHANGED <<src, staged, blobs, vouched, conf, run, frames, history, faults>>

\* The client says that it has put the bytes.
RegisterImage(h) ==
  /\ Acts
  /\ \E b \in Contents : <<h, b>> \in Images
  /\ blobs' = blobs \cup {h}
  /\ vouched' = IF object[h] = None /\ h \notin blobs THEN vouched \cup {h} ELSE vouched
  /\ UNCHANGED <<src, staged, object, conf, run, frames, history, faults>>

DeleteSource(s) ==
  /\ Acts
  /\ src[s].live
  /\ src' = [src EXCEPT ![s].live = FALSE]
  /\ UNCHANGED <<store, conf, run, frames, history, faults>>

-----------------------------------------------------------------------------
(* confirm_upload.  A request reads the row, and the table of blobs, once.   *)

At(c, pc)   == conf[c].pc = pc
Goto(c, pc) == conf' = [conf EXCEPT ![c].pc = pc]
Returns(c)  == conf' = [conf EXCEPT ![c] = NoConfirm]

\* A hash that is registered is taken to have its bytes.
Load(c, s, h) ==
  /\ At(c, "idle")
  /\ src[s].status = "pending"
  /\ conf' = [conf EXCEPT ![c] =
                [pc |-> IF h \in blobs THEN "commit" ELSE "promote", source |-> s, hash |-> h]]
  /\ UNCHANGED <<src, store, run, frames, history, acts, faults>>

\* Without bytes at uploads/{s} the head request raises.
NothingStaged(c) ==
  /\ At(c, "promote")
  /\ staged[conf[c].source] = None
  /\ Returns(c)
  /\ UNCHANGED <<src, store, run, frames, history, acts, faults>>

\* Wrong: the copy is left for later.
PromoteLazily(c) ==
  /\ At(c, "promote")
  /\ staged[conf[c].source] # None
  /\ Goto(c, "commit")
  /\ UNCHANGED <<src, store, run, frames, history, acts, faults>>

Promote(c) ==
  /\ At(c, "promote")
  /\ staged[conf[c].source] # None
  /\ Goto(c, IF object[conf[c].hash] = None THEN "copy" ELSE "commit")
  /\ UNCHANGED <<src, store, run, frames, history, acts, faults>>

\* Whatever is there by now is copied.
Copy(c) ==
  /\ At(c, "copy")
  /\ object' = [object EXCEPT ![conf[c].hash] = staged[conf[c].source]]
  /\ Goto(c, "commit")
  /\ UNCHANGED <<src, staged, blobs, vouched, run, frames, history, acts, faults>>

\* The blob's row and the source's update, in one transaction; the update does
\* not look at the status again.
Commit(c) ==
  LET s == conf[c].source
      h == conf[c].hash
  IN /\ At(c, "commit")
     /\ ~(src[s].live /\ Taken(s, h))
     /\ blobs' = blobs \cup {h}
     /\ named' = [named EXCEPT ![s] = @ \cup {h}]
     /\ excused' = IF src[s].status = "pending" THEN excused ELSE excused \cup {s}
     /\ src' = [src EXCEPT ![s].blob = h, ![s].status = "uploaded"]
     /\ Goto(c, "dispatch")
     /\ UNCHANGED <<staged, object, vouched, run, frames, acts, faults>>

\* The unique index refuses the update: 409, nothing is registered.
Conflict(c) ==
  LET s == conf[c].source IN
  /\ At(c, "commit")
  /\ src[s].live /\ Taken(s, conf[c].hash)
  /\ Returns(c)
  /\ UNCHANGED <<src, store, run, frames, history, acts, faults>>

\* A new run for source s, of any workflow: it may be refused as it advances, or
\* have other steps.  When the same step on this source has succeeded before, its
\* outputs may be taken over and nothing is queued.
StartRun(s, by) ==
  \E r \in Runs, pc \in {"queued", "refused", "succeeded"} :
    /\ {q \in Runs : run[q].pc = "none"} = r..MaxRuns
    /\ pc = "succeeded" => \E q \in Runs : run[q].source = s /\ run[q].pc = "succeeded"
    /\ run' = [run EXCEPT ![r] = [pc |-> pc, source |-> s, blob |-> None, by |-> by,
                                  cancel |-> FALSE]]

Dispatch(c) ==
  /\ At(c, "dispatch")
  /\ StartRun(conf[c].source, "confirm")
  /\ Returns(c)
  /\ UNCHANGED <<src, store, frames, history, acts, faults>>

\* No workflow is asked for or configured; or the configured one is gone; or the
\* one asked for is not found, and the request fails after its commit.
Shelve(c) ==
  /\ At(c, "dispatch")
  /\ excused' = excused \cup {conf[c].source}
  /\ Returns(c)
  /\ UNCHANGED <<src, store, run, frames, named, acts, faults>>

CrashConfirm(c) ==
  /\ ~At(c, "idle")
  /\ faults < MaxFaults
  /\ faults' = faults + 1
  /\ excused' = IF At(c, "dispatch") THEN excused \cup {conf[c].source} ELSE excused
  /\ Returns(c)
  /\ UNCHANGED <<src, store, run, frames, named, acts>>

-----------------------------------------------------------------------------
(* Runs of the workflow, and step.extract_frames.                            *)

Moves(r, pc) == run' = [run EXCEPT ![r].pc = pc]

\* The run API does not look at the source it is given.
Rerun(s) ==
  /\ Acts
  /\ src[s].status # "none"
  /\ StartRun(s, "user")
  /\ UNCHANGED <<src, store, conf, frames, history, faults>>

\* 'ingesting' is committed before the bytes are read, unless there is no blob.
Begin(r) ==
  LET s == run[r].source IN
  /\ run[r].pc = "queued"
  /\ run' = [run EXCEPT ![r].pc = "read", ![r].blob = src[s].blob]
  /\ src' = IF src[s].blob = None THEN src ELSE [src EXCEPT ![s].status = "ingesting"]
  /\ UNCHANGED <<store, conf, frames, history, acts, faults>>

\* Wrong: the declared hash is taken on trust.
IngestUnverified(r) ==
  LET s == run[r].source
      h == run[r].blob
  IN /\ run[r].pc = "read"
     /\ h # None
     /\ object[h] # None
     /\ Moves(r, "succeeded")
     /\ frames' = [frames EXCEPT ![s] = @ \cup {object[h]}]
     /\ src' = [src EXCEPT ![s].status = "ingested"]
     /\ UNCHANGED <<store, conf, history, acts, faults>>

\* The frames, 'ingested' and the run's success are one transaction.
Ingest(r) ==
  LET s == run[r].source
      h == run[r].blob
  IN /\ run[r].pc = "read"
     /\ h # None
     /\ object[h] = h
     /\ Moves(r, "succeeded")
     /\ frames' = [frames EXCEPT ![s] = @ \cup {object[h]}]
     /\ src' = [src EXCEPT ![s].status = "ingested"]
     /\ UNCHANGED <<store, conf, history, acts, faults>>

\* Wrong: the exception's rollback takes the status with it.
FailSilently(r) ==
  /\ run[r].pc = "read"
  /\ Moves(r, "failed")
  /\ UNCHANGED <<src, store, conf, frames, history, acts, faults>>

\* No blob, other bytes than declared, bytes that do not decode, storage down:
\* 'failed' is committed by itself, then the run fails.
Fail(r) ==
  /\ run[r].pc = "read"
  /\ Moves(r, "failed")
  /\ src' = [src EXCEPT ![run[r].source].status = "failed"]
  /\ UNCHANGED <<store, conf, frames, history, acts, faults>>

\* The worker dies, or raises when the step is over.
CrashRun(r) ==
  /\ run[r].pc = "read"
  /\ faults < MaxFaults
  /\ faults' = faults + 1
  /\ Moves(r, "lost")
  /\ UNCHANGED <<src, store, conf, frames, history, acts>>

\* A request of the run API reads the step's row, and writes it later without a
\* lock.  A step at work does not notice and ends as it would have.
CancelRead(r) ==
  /\ Acts
  /\ run[r].pc \in {"queued", "read"} /\ ~run[r].cancel
  /\ run' = [run EXCEPT ![r].cancel = TRUE]
  /\ UNCHANGED <<src, store, conf, frames, history, faults>>

CancelWrite(r) ==
  /\ run[r].cancel
  /\ run' = [run EXCEPT ![r].cancel = FALSE,
                        ![r].pc = CASE @ = "queued"    -> "withdrawn"
                                    [] @ = "succeeded" -> "cancelled"
                                    [] OTHER           -> @]
  /\ UNCHANGED <<src, store, conf, frames, history, acts, faults>>

Next ==
  \/ \E s \in Sources :
       \/ CreateSource(s) \/ DeleteSource(s) \/ Rerun(s)
       \/ \E b \in Contents : Put(s, b) \/ PutAgain(s, b)
  \/ \E h \in Contents : RegisterImage(h) \/ \E b \in Contents : PutImage(h, b)
  \/ \E c \in Confirms :
       \/ \E s \in Sources : \E h \in HashesOf[s] : Load(c, s, h)
       \/ NothingStaged(c) \/ Promote(c) \/ Copy(c) \/ Commit(c) \/ Conflict(c)
       \/ Dispatch(c) \/ Shelve(c) \/ CrashConfirm(c)
  \/ \E r \in Runs :
       \/ Begin(r) \/ Ingest(r) \/ Fail(r) \/ CrashRun(r)
       \/ CancelRead(r) \/ CancelWrite(r)

\* What a request has begun it carries on, and a worker takes and finishes every
\* queued step; a client owes nothing.
Fairness ==
  /\ \A c \in Confirms : WF_vars(NothingStaged(c) \/ Promote(c) \/ Copy(c) \/ Commit(c)
                                   \/ Conflict(c) \/ Dispatch(c) \/ Shelve(c))
  /\ \A r \in Runs : WF_vars(Begin(r) \/ Ingest(r) \/ Fail(r))

Spec     == Init /\ [][Next]_vars
FairSpec == Spec /\ Fairness

-----------------------------------------------------------------------------
(* Properties.                                                               *)

\* A step on s died, or the run of its confirm got no step to work on it: it was
\* refused as it advanced, or its step was cancelled before it began.
Lost(s)    == \E r \in Runs : run[r].source = s /\ run[r].pc = "lost"
Stopped(s) == \E r \in Runs : /\ run[r].source = s /\ run[r].by = "confirm"
                              /\ run[r].pc \in {"refused", "withdrawn"}

\* A registered blob has bytes in place, unless it was registered on the word of a
\* client who had put none: promote_upload comes before the row is inserted, and
\* "add without re-uploading" relies on it (confirm_upload).
BlobsAreBacked ==
  \A h \in blobs \ vouched : object[h] # None

\* A source that reads 'ingested' has frames, and all its frames are of bytes that
\* were verified against a hash that the source had, whatever was put where and
\* declared by whom (_ingest verifies lazily what promote_upload takes on trust).
\* A source that only ever had one hash has frames of the bytes it names.
IngestedIsGenuine ==
  \A s \in Sources :
    /\ frames[s] \subseteq named[s]
    /\ src[s].status = "ingested" => src[s].blob \in named[s] /\ frames[s] # {}

\* A source that reads 'uploaded' is on its way: its request is about to start a
\* run or the run's step waits for a worker.  Except when the confirm started no
\* run or the run was stopped, when a step died, and when a second confirm marked
\* it again (confirm_upload).
UploadedIsOnItsWay ==
  \A s \in Sources \ excused :
    src[s].status = "uploaded" /\ ~Lost(s) /\ ~Stopped(s) =>
      \/ \E c \in Confirms : At(c, "dispatch") /\ conf[c].source = s
      \/ \E r \in Runs : run[r].pc = "queued" /\ run[r].source = s /\ run[r].by = "confirm"

\* A source that reads 'ingesting' has a step at work on it, whichever of several,
\* and cancelled or not: 'failed' is committed apart from the transaction that an
\* exception rolls back (ExtractFramesStep.run).  Except when a step on it died.
IngestingIsAtWork ==
  \A s \in Sources : ~Lost(s) /\ src[s].status = "ingesting" =>
    \E r \in Runs : run[r].pc = "read" /\ run[r].source = s

\* Types, registered blobs and statuses (confirm_upload, ExtractFramesStep.run).
UploadIsSound ==
  TypeOK /\ BlobsAreBacked /\ UploadedIsOnItsWay /\ IngestingIsAtWork

\* Every upload that is worked on comes to an end.
UploadsSettle ==
  \A s \in Sources :
    src[s].status \in {"uploaded", "ingesting"}
      ~> \/ src[s].status \in {"ingested", "failed"}
         \/ s \in excused \/ Lost(s) \/ Stopped(s)

\* What confirm_upload says, and two confirms at once do not keep: "a re-sent confirm
\* must not register the blob twice or dispatch a duplicate run".
OneRunPerUpload ==
  \A s \in Sources :
    Cardinality({r \in Runs : run[r].source = s /\ run[r].by = "confirm"}) <= 1

\* What a reader takes 'ingested' to say, and two confirms at once with different
\* hashes do not keep: one run reads the first hash, the second replaces it.
RowNamesItsFrames ==
  \A s \in Sources : src[s].status = "ingested" => src[s].blob \in frames[s]

\* What extract_frames.py says, and a cancel of the step's row before a worker takes
\* it refutes, or a run refused as it advances: "so a source never gets stuck in a
\* non-terminal state".
NoUploadIsStuck ==
  \A s \in Sources :
    src[s].status = "uploaded" ~> src[s].status # "uploaded" \/ s \in excused
=============================================================================
