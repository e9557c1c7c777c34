-------------------------- MODULE ReviewGate_proofs --------------------------
(***************************************************************************)
(* Theorems about ReviewGate, for any samples, doorbells, resolve requests *)
(* and number of slots.                                                    *)
(***************************************************************************)
EXTENDS ReviewGate, FiniteSetTheorems, SequenceTheorems, TLAPS

\* The parent of a row, if it has one, is the row before it of the same sample, in R.
Linked(r, R) ==
  r.parent # None =>
    \E p \in R : p.id = r.parent /\ p.id[1] = r.id[1] /\ r.no = p.no + 1

\* The pending rows of a handler: one for each frame so far whose sample is importable,
\* numbered in their order; it has committed none before.
HandlerSound(b) ==
  /\ sync[b].pc # "import" => sync[b].frame = 0 /\ sync[b].rows = {}
  /\ \A r \in sync[b].rows :
       /\ Linked(r, revs \cup sync[b].rows)
       /\ \E k \in 1..sync[b].frame : Frames[k] \in Importable /\ r.id = <<Frames[k], b, k>>
  /\ \A q, r \in sync[b].rows : q.id[1] = r.id[1] /\ q.id[3] < r.id[3] => q.no < r.no
  /\ \A m \in 1..sync[b].frame :
       Frames[m] \in Importable => \E r \in sync[b].rows : r.id = <<Frames[m], b, m>>
  /\ sync[b].pc \notin {"advance", "acked", "dead"} => \A r \in revs : r.id[2] # b

HandlersSound == \A b \in Doorbells : HandlerSound(b)

\* Nobody works on a job that is not there, nor resumes a gate that is not parked.
GateSound ==
  /\ gate.status = "running" => job.status = "none" /\ gate.by \notin Doorbells
  /\ job.status = "none" => Handling = {}
  /\ gate.by \in Doorbells => sync[gate.by].pc \in {"advance", "acked", "dead"}

Importing == {b \in Doorbells : sync[b].pc \in {"pull", "import"}}

\* Whoever may still import after the first import was already at it by then, and
\* held a slot.
SlotsSound ==
  /\ Cardinality(Handling) <= Slots
  /\ job.status # "completed" => Importers = {}
  /\ job.status = "completed" => Cardinality(Importers \cup Importing) <= Slots

IInv ==
  /\ TypeOK
  /\ HandlersSound
  /\ GateSound
  /\ SlotsSound
  /\ RevisionsAreLinked
  /\ LaterFramesAreNewer
  /\ ResumedWithEverySample
  /\ NothingDrawnIsLost

-----------------------------------------------------------------------------
(* The steps of the system, one disjunct each.                               *)

LEMMA NextSplit ==
  ASSUME [Next]_vars
  PROVE  \/ UNCHANGED vars
         \/ CreateTask \/ Park \/ PushFails
         \/ \E j \in Jobs : CompleteJob(j)
         \/ \E b \in Doorbells :
              \/ Ring(b) \/ Take(b) \/ Pull(b) \/ PullFails(b) \/ Import(b) \/ Refuse(b)
              \/ Commit(b) \/ Advance(b) \/ CrashSync(b)
         \/ \E u \in Resolvers :
              \/ FindGate(u) \/ CarryRevisions(u) \/ Resolve(u) \/ AdvanceResolved(u)
              \/ CrashRequest(u)
  BY DEF Next, Handle, Serve, JobWebhook, TaskWebhook, SyncGate

-----------------------------------------------------------------------------
(* Types.                                                                    *)

LEMMA GoesType ==
  ASSUME sync \in [Doorbells -> Handler], NEW b \in Doorbells,
         NEW pc \in {"queued", "pull", "import", "advance", "acked", "dead"}, Goes(b, pc)
  PROVE  /\ sync' \in [Doorbells -> Handler]
         /\ sync'[b].pc = pc /\ sync'[b].drawn = sync[b].drawn
         /\ sync'[b].frame = sync[b].frame /\ sync'[b].rows = sync[b].rows
         /\ \A c \in Doorbells \ {b} : sync'[c] = sync[c]
<1>1. sync' = [sync EXCEPT ![b] = [@ EXCEPT !.pc = pc]]
  BY DEF Goes
<1> QED BY <1>1 DEF Handler

LEMMA EndsType ==
  ASSUME sync \in [Doorbells -> Handler], NEW b \in Doorbells,
         NEW pc \in {"advance", "acked", "dead"}, Ends(b, pc)
  PROVE  /\ sync' \in [Doorbells -> Handler]
         /\ sync'[b].pc = pc /\ sync'[b].frame = 0 /\ sync'[b].rows = {}
         /\ sync'[b].drawn = sync[b].drawn
         /\ \A c \in Doorbells \ {b} : sync'[c] = sync[c]
<1>1. 0 \in 0..Len(Frames)
  BY ReviewAssumption, LenProperties
<1>2. sync' = [sync EXCEPT ![b] = [@ EXCEPT !.pc = pc, !.frame = 0, !.rows = {}]]
  BY DEF Ends
<1> QED BY <1>1, <1>2 DEF Handler

\* What one frame may add.
LEMMA NewRowsType ==
  ASSUME TypeOK, NEW b \in Doorbells, NEW k \in 1..Len(Frames), NEW rows \in NewRows(b, k, Frames[k])
  PROVE  /\ Frames[k] \in Samples /\ rows \subseteq Rev
         /\ \A r \in rows : /\ r.id = <<Frames[k], b, k>>
                            /\ Linked(r, revs \cup sync[b].rows)
                            /\ Seen(b, Frames[k]) # {} \/ job.ontology
                            /\ \A q \in Seen(b, Frames[k]) : q.no < r.no
         /\ Seen(b, Frames[k]) # {} \/ job.ontology => \E r \in rows : r.id = <<Frames[k], b, k>>
<1> DEFINE s == Frames[k]
<1>1. s \in Samples /\ <<s, b, k>> \in RevId
  <2>1. k \in 0..Len(Frames) /\ s \in Samples
    BY ReviewAssumption, ElementOfSeq, LenProperties
  <2> QED BY <2>1 DEF RevId, Author
<1>2. revs \cup sync[b].rows \subseteq Rev
  BY DEF TypeOK, Handler
<1> HIDE DEF s
<1>3. CASE Seen(b, s) # {}
  <2>1. PICK q \in Newest(Seen(b, s)) : rows = {Row(b, k, s, q.no + 1, q.id)}
    BY <1>3 DEF NewRows, s
  <2>2. /\ q \in revs \cup sync[b].rows /\ q.id[1] = s /\ q \in Rev
        /\ \A p \in Seen(b, s) : p \in Rev /\ p.no <= q.no
    BY <1>2, <2>1 DEF Newest, Seen
  <2>3. q.no \in Nat /\ q.no + 1 \in Nat \ {0} /\ q.id \in RevId /\ \A p \in Rev : p.no \in Nat
    BY <2>2 DEF Rev
  <2>4. rows \subseteq Rev
    BY <1>1, <2>1, <2>3 DEF Rev, Row
  <2>5. \A r \in rows : r.id = <<s, b, k>> /\ r.no = q.no + 1 /\ r.parent = q.id
    BY <2>1 DEF Row
  <2>6. \A p \in Seen(b, s) : p.no < q.no + 1
    BY <2>2, <2>3
  <2> QED BY <1>1, <1>3, <2>1, <2>2, <2>4, <2>5, <2>6 DEF Linked, s
<1>4. CASE Seen(b, s) = {} /\ job.ontology
  <2>1. rows = {Row(b, k, s, 1, None)}
    BY <1>4 DEF NewRows, s
  <2>2. rows \subseteq Rev
    BY <1>1, <2>1 DEF Rev, Row
  <2>3. \A r \in rows : r.id = <<s, b, k>> /\ r.parent = None
    BY <2>1 DEF Row
  <2> QED BY <1>1, <1>4, <2>1, <2>2, <2>3 DEF Linked, s
<1>5. CASE Seen(b, s) = {} /\ ~job.ontology
  BY <1>1, <1>5 DEF NewRows, s
<1> QED BY <1>3, <1>4, <1>5

\* What a transaction sees of a sample is there for all, or the sample is importable.
LEMMA SeenImportable ==
  ASSUME HandlersSound, NEW b \in Doorbells, NEW s \in Samples
  PROVE  s \in Importable <=> Seen(b, s) # {} \/ job.ontology
<1>1. HandlerSound(b)
  BY DEF HandlersSound
<1>2. Of(s) # {} => Seen(b, s) # {}
  BY DEF Of, Seen
<1>3. ASSUME NEW r \in sync[b].rows, r.id[1] = s PROVE s \in Importable
  <2>1. PICK k \in 1..sync[b].frame : Frames[k] \in Importable /\ r.id = <<Frames[k], b, k>>
    BY <1>1 DEF HandlerSound
  <2> QED BY <1>3, <2>1
<1>4. Seen(b, s) # {} => Of(s) # {} \/ s \in Importable
  BY <1>3 DEF Of, Seen
<1> QED BY <1>2, <1>4 DEF Importable

LEMMA TypeStep ==
  ASSUME TypeOK, [Next]_vars
  PROVE  TypeOK'
<1> USE DEF TypeOK
<1>1. CASE UNCHANGED vars
  BY <1>1 DEF vars
<1>2. CASE CreateTask \/ PushFails \/ \E j \in Jobs : CompleteJob(j)
  BY <1>2 DEF CreateTask, PushFails, CompleteJob, GateRow
<1>3. CASE Park
  BY <1>3 DEF Park, GateRow, JobRow
<1>4. ASSUME NEW b \in Doorbells, Ring(b) \/ Take(b) \/ PullFails(b) \/ Advance(b)
      PROVE  TypeOK'
  <2>1. PICK pc \in {"queued", "pull", "import", "advance", "acked", "dead"} : Goes(b, pc)
    BY <1>4 DEF Ring, Take, PullFails, Advance
  <2>2. sync' \in [Doorbells -> Handler]
    BY <2>1, GoesType
  <2>3. next' \in (SUBSET RevId) \cup {None}
    BY <1>4 DEF Ring, Take, PullFails, Advance, Freeze, GateRow
  <2> QED BY <1>4, <2>2, <2>3 DEF Ring, Take, PullFails, Advance
<1>5. ASSUME NEW b \in Doorbells, Pull(b) PROVE TypeOK'
  <2>1. PICK drawn \in BOOLEAN :
          sync' = [sync EXCEPT ![b] = [@ EXCEPT !.pc = "import", !.drawn = drawn]]
    BY <1>5 DEF Pull
  <2>2. sync' \in [Doorbells -> Handler]
    BY <2>1 DEF Handler
  <2> QED BY <1>5, <2>2 DEF Pull
<1>6. ASSUME NEW b \in Doorbells, Import(b) PROVE TypeOK'
  <2> DEFINE k == sync[b].frame + 1
  <2>1. sync[b] \in Handler /\ sync[b].frame < Len(Frames)
    BY <1>6 DEF Import
  <2>2. k \in 1..Len(Frames) /\ k \in 0..Len(Frames)
    BY <2>1, ReviewAssumption, LenProperties DEF Handler
  <2>3. PICK rows \in NewRows(b, k, Frames[k]) :
          sync' = [sync EXCEPT ![b].frame = k, ![b].rows = @ \cup rows]
    BY <1>6 DEF Import
  <2> HIDE DEF k
  <2>4. rows \subseteq Rev
    BY <2>2, <2>3, NewRowsType
  <2>5. sync' \in [Doorbells -> Handler]
    BY <2>1, <2>2, <2>3, <2>4 DEF Handler
  <2> QED BY <1>6, <2>5 DEF Import
<1>7. ASSUME NEW b \in Doorbells, Refuse(b) \/ CrashSync(b) PROVE TypeOK'
  <2>1. sync' \in [Doorbells -> Handler]
    BY <1>7, EndsType DEF Refuse, CrashSync
  <2>2. CASE Refuse(b)
    <3>1. job' \in JobRow
      BY <2>2 DEF Refuse, JobRow
    <3> QED BY <2>1, <2>2, <3>1 DEF Refuse
  <2>3. CASE CrashSync(b)
    BY <2>1, <2>3 DEF CrashSync
  <2> QED BY <1>7, <2>2, <2>3
<1>8. ASSUME NEW b \in Doorbells, Commit(b) PROVE TypeOK'
  <2>1. sync' \in [Doorbells -> Handler]
    BY <1>8, EndsType DEF Commit
  <2>2. sync[b].rows \subseteq Rev
    BY DEF Handler
  <2>3. {r.id : r \in sync[b].rows} \subseteq RevId
    BY <2>2 DEF Rev
  <2> QED BY <1>8, <2>1, <2>2, <2>3 DEF Commit, JobRow, GateRow
<1>9. ASSUME NEW u \in Resolvers,
             \/ FindGate(u) \/ CarryRevisions(u) \/ Resolve(u) \/ AdvanceResolved(u)
             \/ CrashRequest(u)
      PROVE  TypeOK'
  <2>1. job.out \subseteq RevId /\ gate.revs \subseteq RevId /\ request[u].revs \subseteq RevId
    BY DEF JobRow, GateRow, Request
  <2>2. request' \in [Resolvers -> Request]
    BY <1>9, <2>1
    DEF FindGate, CarryRevisions, Resolve, AdvanceResolved, CrashRequest, Request
  <2> QED
    BY <1>9, <2>1, <2>2
    DEF FindGate, CarryRevisions, Resolve, AdvanceResolved, CrashRequest, GateRow, Freeze
<1> QED BY NextSplit, <1>1, <1>2, <1>3, <1>4, <1>5, <1>6, <1>7, <1>8, <1>9

-----------------------------------------------------------------------------
(* The steps that preserve the invariant.                                    *)

LEMMA InitInv == Init => IInv
<1> SUFFICES ASSUME Init PROVE IInv
  OBVIOUS
<1> USE DEF Init
<1>1. 0 \in 0..Len(Frames)
  BY ReviewAssumption, LenProperties
<1>2. sync \in [Doorbells -> Handler]
  BY <1>1 DEF Handler
<1>3. \A r \in revs : /\ r \in Rev /\ r.id[2] = "model" /\ r.id[3] = 0 /\ r.parent = None
                      /\ r.id \in RevId
  BY <1>1 DEF Rev, RevId, Author
<1>4. TypeOK
  <2>1. job \in JobRow /\ gate \in GateRow /\ request \in [Resolvers -> Request]
    BY DEF JobRow, GateRow, Request
  <2>2. revs \subseteq Rev
    BY <1>3
  <2>3. next \in (SUBSET RevId) \cup {None} /\ faults \in Nat /\ done \subseteq Jobs
    OBVIOUS
  <2> QED BY <1>2, <2>1, <2>2, <2>3 DEF TypeOK
<1>5. HandlersSound
  BY <1>3, ReviewAssumption DEF HandlersSound, HandlerSound
<1>6. Handling = {} /\ GateSound
  BY ReviewAssumption DEF GateSound, Handling
<1>7. Importers = {}
  BY <1>3, ReviewAssumption DEF Importers
<1>8. SlotsSound
  BY <1>6, <1>7, FS_EmptySet, ReviewAssumption DEF SlotsSound
<1>9. RevisionsAreLinked /\ LaterFramesAreNewer
  BY <1>3 DEF RevisionsAreLinked, LaterFramesAreNewer
<1>10. ResumedWithEverySample /\ NothingDrawnIsLost
  BY ReviewAssumption DEF ResumedWithEverySample, NothingDrawnIsLost
<1> QED BY <1>4, <1>5, <1>6, <1>8, <1>9, <1>10 DEF IInv

\* Which samples are importable, and which rows are linked, depends on little.
LEMMA SameRows ==
  ASSUME revs' = revs, job'.ontology = job.ontology
  PROVE  /\ Importable' = Importable
         /\ Importers' = Importers
  BY DEF Importable, Importers, Of

LEMMA HandlersFinite ==
  /\ IsFiniteSet(Handling) /\ Cardinality(Handling) \in Nat
  /\ \A S \in SUBSET Doorbells : IsFiniteSet(S) /\ Cardinality(S) \in Nat
<1>1. \A S \in SUBSET Doorbells : IsFiniteSet(S) /\ Cardinality(S) \in Nat
  BY ReviewAssumption, FS_Subset, FS_CardinalityType
<1>2. Handling \subseteq Doorbells
  BY DEF Handling
<1> QED BY <1>1, <1>2

\* A doorbell or its handler moves on, and nothing is written but an error.
TurnsAlone(b) ==
  /\ \A c \in Doorbells \ {b} : sync'[c] = sync[c]
  /\ sync'[b].frame = 0 /\ sync'[b].rows = {}
  /\ revs' = revs /\ gate' = gate
  /\ job'.status = job.status /\ job'.out = job.out /\ job'.ontology = job.ontology

\* Where it may go: to rest, on, or into a free slot while the job is pending.
TurnsTo(b) ==
  /\ sync[b].pc \in {"advance", "acked", "dead"} =>
       sync'[b].pc \in {"acked", "dead"} /\ sync'[b].drawn = sync[b].drawn
  /\ \/ sync'[b].pc \in {"queued", "acked", "dead"}
     \/ b \in Importing /\ sync'[b].pc = "import"
     \/ /\ sync'[b].pc = "pull"
        /\ Cardinality(Handling) < Slots
        /\ job.status = "pushed"

LEMMA TurnInv ==
  ASSUME IInv, TypeOK', NEW b \in Doorbells, TurnsAlone(b), TurnsTo(b)
  PROVE  IInv'
<1> USE DEF IInv, TurnsAlone
<1>1. /\ Importable' = Importable
      /\ Importers' = Importers
  BY SameRows
<1>2. HandlersSound'
  <2>1. HandlerSound(b)'
    <3>1. sync'[b].pc \notin {"advance", "acked", "dead"} =>
            sync[b].pc \notin {"advance", "acked", "dead"}
      BY DEF TurnsTo
    <3>2. HandlerSound(b)
      BY DEF HandlersSound
    <3>3. sync'[b].frame = 0 /\ sync'[b].rows = {} /\ revs' = revs
      OBVIOUS
    <3>4. 1..sync'[b].frame = {}
      BY <3>3
    <3> QED BY <3>1, <3>2, <3>3, <3>4 DEF HandlerSound
  <2>2. ASSUME NEW c \in Doorbells \ {b} PROVE HandlerSound(c)'
    BY <1>1 DEF HandlersSound, HandlerSound, Linked
  <2> QED BY <2>1, <2>2 DEF HandlersSound
<1>3. Handling' \subseteq Handling \cup {b} /\ Importing' \subseteq Importing \cup {b}
  BY DEF Handling, Importing
<1>4. \/ Handling' \subseteq Handling /\ Importing' \subseteq Importing
      \/ Cardinality(Handling) < Slots /\ job.status = "pushed"
  BY <1>3 DEF TurnsTo, Handling, Importing
<1>5. gate.by = b => sync[b].pc \in {"advance", "acked", "dead"}
  BY DEF GateSound
<1>6. GateSound'
  BY <1>4, <1>5 DEF GateSound, TurnsTo, TypeOK, Handling
<1>7. SlotsSound'
  <2> USE ReviewAssumption, HandlersFinite
  <2>1. CASE Handling' \subseteq Handling /\ Importing' \subseteq Importing
    <3>1. Cardinality(Handling') <= Cardinality(Handling)
      BY <2>1, FS_Subset
    <3>2. Cardinality(Handling') \in Nat
      BY <2>1, FS_Subset, FS_CardinalityType
    <3>3. Importers \cup Importing \subseteq Doorbells
      BY DEF Importers, Importing
    <3>4. Importers' \cup Importing' \subseteq Importers \cup Importing
      BY <1>1, <2>1
    <3>5. /\ Cardinality(Importers' \cup Importing') <= Cardinality(Importers \cup Importing)
          /\ Cardinality(Importers' \cup Importing') \in Nat
          /\ Cardinality(Importers \cup Importing) \in Nat
      BY <3>3, <3>4, FS_Subset
    <3> QED BY <1>1, <3>1, <3>2, <3>5 DEF SlotsSound
  <2>2. CASE Cardinality(Handling) < Slots /\ job.status = "pushed"
    <3>1. /\ IsFiniteSet(Handling \cup {b})
          /\ Cardinality(Handling \cup {b}) <= Cardinality(Handling) + 1
      <4>1. /\ IsFiniteSet(Handling \cup {b})
            /\ Cardinality(Handling \cup {b}) =
                 IF b \in Handling THEN Cardinality(Handling) ELSE Cardinality(Handling) + 1
        BY FS_AddElement
      <4> QED BY <4>1
    <3>2. Cardinality(Handling') <= Cardinality(Handling \cup {b}) /\ Cardinality(Handling') \in Nat
      BY <1>3, <3>1, FS_Subset, FS_CardinalityType
    <3>3. Cardinality(Handling \cup {b}) \in Nat
      BY <3>1, FS_CardinalityType
    <3> QED BY <1>1, <2>2, <3>1, <3>2, <3>3 DEF SlotsSound
  <2> QED BY <1>4, <2>1, <2>2
<1>8. RevisionsAreLinked' /\ LaterFramesAreNewer' /\ ResumedWithEverySample'
  BY <1>1 DEF RevisionsAreLinked, LaterFramesAreNewer, ResumedWithEverySample
<1>9. NothingDrawnIsLost'
  BY <1>5 DEF NothingDrawnIsLost, TurnsTo
<1> QED BY <1>2, <1>6, <1>7, <1>8, <1>9

\* A step of the outside world: the gate, if written, is written by no handler.
LEMMA OutsideInv ==
  ASSUME IInv, TypeOK', revs' = revs, job' = job, sync' = sync,
         gate' = gate \/ (gate'.status # "running" /\ gate'.by \notin Doorbells)
  PROVE  IInv'
<1> USE DEF IInv
<1>1. /\ Importable' = Importable
      /\ Importers' = Importers
  BY SameRows
<1>2. Handling' = Handling /\ Importing' = Importing
  BY DEF Handling, Importing
<1>3. HandlersSound'
  BY <1>1 DEF HandlersSound, HandlerSound, Linked
<1>4. GateSound' /\ SlotsSound'
  BY <1>1, <1>2 DEF GateSound, SlotsSound
<1>5. RevisionsAreLinked' /\ LaterFramesAreNewer' /\ ResumedWithEverySample' /\ NothingDrawnIsLost'
  BY <1>1 DEF RevisionsAreLinked, LaterFramesAreNewer, ResumedWithEverySample, NothingDrawnIsLost
<1> QED BY <1>3, <1>4, <1>5

\* The push decides which samples are importable, while no handler is at work.
LEMMA ParkInv ==
  ASSUME IInv, TypeOK', Park
  PROVE  IInv'
<1> USE DEF IInv, Park
<1>1. job.status = "none" /\ Handling = {} /\ gate.by \notin Doorbells
  BY DEF GateSound
<1>2. job'.status = "pushed" /\ gate'.by = gate.by /\ gate'.status = "waiting"
  BY DEF TypeOK, JobRow, GateRow
<1>3. Handling' = Handling /\ Importers' = Importers
  BY DEF Handling, Importers
<1>4. HandlersSound'
  <2> SUFFICES ASSUME NEW b \in Doorbells PROVE HandlerSound(b)'
    BY DEF HandlersSound
  <2>1. HandlerSound(b) /\ sync[b].frame = 0 /\ sync[b].rows = {}
    BY <1>1 DEF HandlersSound, HandlerSound, Handling
  <2> QED BY <2>1 DEF HandlerSound
<1>5. GateSound' /\ SlotsSound'
  BY <1>1, <1>2, <1>3 DEF GateSound, SlotsSound
<1>6. RevisionsAreLinked' /\ LaterFramesAreNewer' /\ ResumedWithEverySample' /\ NothingDrawnIsLost'
  BY <1>1, <1>2 DEF RevisionsAreLinked, LaterFramesAreNewer, ResumedWithEverySample, NothingDrawnIsLost
<1> QED BY <1>4, <1>5, <1>6

\* Ring, Take, Pull, PullFails, Refuse, Advance and CrashSync are turns.
LEMMA TurnStep ==
  ASSUME IInv, NEW b \in Doorbells,
         \/ Ring(b) \/ Take(b) \/ Pull(b) \/ PullFails(b)
         \/ Refuse(b) \/ Advance(b) \/ CrashSync(b)
  PROVE  TurnsAlone(b) /\ TurnsTo(b)
<1> USE DEF IInv, TypeOK
<1>1. sync[b].pc # "import" => sync[b].frame = 0 /\ sync[b].rows = {}
  BY DEF HandlersSound, HandlerSound
<1>2. CASE Ring(b)
  BY <1>1, <1>2, GoesType DEF Ring, TurnsAlone, TurnsTo
<1>3. CASE Take(b)
  <2> DEFINE pc == IF Pending THEN "pull" ELSE "acked"
  <2>1. pc \in {"queued", "pull", "import", "advance", "acked", "dead"} /\ Goes(b, pc)
    BY <1>3 DEF Take
  <2>2. TurnsAlone(b) /\ sync'[b].pc = pc
    BY <1>1, <1>3, <2>1, GoesType DEF Take, TurnsAlone
  <2> QED BY <1>3, <2>2 DEF Take, TurnsTo, Pending
<1>4. CASE Pull(b)
  <2>1. PICK drawn \in BOOLEAN :
          sync' = [sync EXCEPT ![b] = [@ EXCEPT !.pc = "import", !.drawn = drawn]]
    BY <1>4 DEF Pull
  <2> QED BY <1>1, <1>4, <2>1 DEF Pull, TurnsAlone, TurnsTo, Handler, Importing
<1>5. CASE PullFails(b)
  BY <1>1, <1>5, GoesType DEF PullFails, TurnsAlone, TurnsTo
<1>6. CASE Refuse(b)
  <2>1. /\ job'.status = job.status /\ job'.out = job.out /\ job'.ontology = job.ontology
        /\ revs' = revs /\ gate' = gate /\ sync[b].pc = "import"
    BY <1>6 DEF Refuse, JobRow, Imported
  <2> QED BY <1>6, <2>1, EndsType DEF Refuse, TurnsAlone, TurnsTo
<1>7. CASE Advance(b)
  BY <1>1, <1>7, GoesType DEF Advance, TurnsAlone, TurnsTo
<1>8. CASE CrashSync(b)
  BY <1>8, EndsType DEF CrashSync, TurnsAlone, TurnsTo
<1> QED BY <1>2, <1>3, <1>4, <1>5, <1>6, <1>7, <1>8

\* One frame more is imported, still pending.
LEMMA ImportInv ==
  ASSUME IInv, TypeOK', NEW b \in Doorbells, Import(b)
  PROVE  IInv'
<1> DEFINE k == sync[b].frame + 1
           s == Frames[k]
<1> USE DEF IInv
<1>1. /\ Importable' = Importable
      /\ Importers' = Importers
  BY SameRows DEF Import
<1>2. sync[b] \in Handler /\ sync[b].frame \in Nat /\ k \in 1..Len(Frames)
  BY ReviewAssumption, LenProperties DEF Import, TypeOK, Handler
<1>3. s \in Samples
  BY <1>2, ReviewAssumption, ElementOfSeq
<1>4. PICK rows \in NewRows(b, k, s) :
        sync' = [sync EXCEPT ![b].frame = k, ![b].rows = @ \cup rows]
  BY DEF Import
<1>5. /\ sync'[b].frame = k
      /\ sync'[b].rows = sync[b].rows \cup rows
      /\ sync'[b].pc = sync[b].pc /\ sync'[b].drawn = sync[b].drawn
      /\ \A c \in Doorbells \ {b} : sync'[c] = sync[c]
  BY <1>2, <1>4 DEF TypeOK, Handler
<1>6. /\ \A r \in rows : /\ r.id = <<s, b, k>>
                         /\ Linked(r, revs \cup sync[b].rows)
                         /\ s \in Importable
                         /\ \A q \in Seen(b, s) : q.no < r.no
      /\ s \in Importable => \E r \in rows : r.id = <<s, b, k>>
  <2>1. s \in Importable <=> Seen(b, s) # {} \/ job.ontology
    BY <1>3, SeenImportable
  <2>2. rows \in NewRows(b, k, Frames[k]) /\ TypeOK
    BY <1>4
  <2> HIDE DEF k
  <2>3. /\ \A r \in rows : /\ r.id = <<Frames[k], b, k>>
                           /\ Linked(r, revs \cup sync[b].rows)
                           /\ Seen(b, Frames[k]) # {} \/ job.ontology
                           /\ \A q \in Seen(b, Frames[k]) : q.no < r.no
        /\ Seen(b, Frames[k]) # {} \/ job.ontology => \E r \in rows : r.id = <<Frames[k], b, k>>
    BY <1>2, <2>2, NewRowsType
  <2> QED BY <2>1, <2>3
<1>7. HandlerSound(b)'
  <2> DEFINE R == sync[b].rows \cup rows
  <2>1. HandlerSound(b) /\ sync[b].pc = "import"
    BY DEF HandlersSound, Import
  <2>2. ASSUME NEW m \in 1..k, Frames[m] \in Importable
        PROVE  \E r \in R : r.id = <<Frames[m], b, m>>
    <3>1. CASE m = k
      BY <1>6, <2>2, <3>1
    <3>2. CASE m \in 1..sync[b].frame
      BY <2>1, <2>2, <3>2 DEF HandlerSound
    <3> QED BY <1>2, <3>1, <3>2
  <2>3. ASSUME NEW r \in R
        PROVE  /\ Linked(r, revs \cup R)
               /\ \E m \in 1..k : Frames[m] \in Importable /\ r.id = <<Frames[m], b, m>>
    <3>1. Linked(r, revs \cup sync[b].rows)
      BY <1>6, <2>1 DEF HandlerSound
    <3>2. Linked(r, revs \cup R)
      BY <3>1 DEF Linked
    <3>3. CASE r \in rows
      BY <1>2, <1>6, <3>2, <3>3
    <3>4. CASE r \in sync[b].rows
      <4>1. PICK m \in 1..sync[b].frame : Frames[m] \in Importable /\ r.id = <<Frames[m], b, m>>
        BY <2>1, <3>4 DEF HandlerSound
      <4>2. m \in 1..k
        BY <1>2
      <4> QED BY <3>2, <4>1, <4>2
    <3> QED BY <3>3, <3>4
  <2>4. ASSUME NEW q \in R, NEW r \in R, q.id[1] = r.id[1], q.id[3] < r.id[3]
        PROVE  q.no < r.no
    <3>1. CASE r \in rows /\ q \in sync[b].rows
      <4>1. q \in Seen(b, s)
        BY <1>6, <2>4, <3>1 DEF Seen
      <4> QED BY <1>6, <3>1, <4>1
    <3>2. CASE r \in rows /\ q \in rows
      BY <1>2, <1>6, <2>4, <3>2
    <3>3. CASE r \in sync[b].rows /\ q \in rows
      <4>1. PICK m \in 1..sync[b].frame : r.id = <<Frames[m], b, m>>
        BY <2>1, <3>3 DEF HandlerSound
      <4>2. r.id[3] = m /\ q.id[3] = k /\ m < k
        BY <1>2, <1>6, <3>3, <4>1
      <4> QED BY <1>2, <2>4, <4>2
    <3>4. CASE r \in sync[b].rows /\ q \in sync[b].rows
      BY <2>1, <2>4, <3>4 DEF HandlerSound
    <3> QED BY <3>1, <3>2, <3>3, <3>4
  <2>5. sync[b].pc \notin {"advance", "acked", "dead"} => \A r \in revs : r.id[2] # b
    BY <2>1 DEF HandlerSound
  <2>6. revs' = revs
    BY DEF Import
  <2> HIDE DEF k, R
  <2>7. sync'[b].rows = R
    BY <1>5 DEF R
  <2> QED BY <1>1, <1>5, <2>1, <2>2, <2>3, <2>4, <2>5, <2>6, <2>7 DEF HandlerSound
<1>8. HandlersSound'
  <2>1. revs' = revs
    BY DEF Import
  <2>2. ASSUME NEW c \in Doorbells \ {b} PROVE HandlerSound(c)'
    BY <1>1, <1>5, <2>1 DEF HandlersSound, HandlerSound, Linked
  <2> QED BY <1>7, <2>2 DEF HandlersSound
<1>9. \A c \in Doorbells : sync'[c].pc = sync[c].pc /\ sync'[c].drawn = sync[c].drawn
  BY <1>5
<1>10. Handling' = Handling /\ Importing' = Importing
  BY <1>9 DEF Handling, Importing
<1>11. GateSound' /\ SlotsSound'
  BY <1>1, <1>9, <1>10 DEF GateSound, SlotsSound, Import
<1>12. revs' = revs /\ job' = job /\ gate' = gate
  BY DEF Import
<1>13. RevisionsAreLinked' /\ LaterFramesAreNewer' /\ ResumedWithEverySample'
  BY <1>1, <1>12 DEF RevisionsAreLinked, LaterFramesAreNewer, ResumedWithEverySample
<1>14. NothingDrawnIsLost'
  BY <1>9, <1>12 DEF NothingDrawnIsLost
<1> QED BY <1>8, <1>11, <1>13, <1>14

\* The commit: the revisions, the job and the gate at once.
LEMMA CommitInv ==
  ASSUME IInv, TypeOK', NEW b \in Doorbells, Commit(b)
  PROVE  IInv'
<1> DEFINE R   == sync[b].rows
           out == {r.id : r \in R}
<1> USE DEF IInv
<1>1. /\ sync[b].pc = "import" /\ sync[b].frame = Len(Frames)
      /\ ~LosesBoxes(b)
      /\ revs' = revs \cup R
      /\ gate' = [status |-> "succeeded", by |-> b, revs |-> out]
  BY DEF Commit, Imported
<1>2. job'.status = "completed" /\ job'.out = out /\ job'.ontology = job.ontology
  BY DEF Commit, TypeOK, JobRow
<1>3. /\ sync'[b].pc = "advance" /\ sync'[b].frame = 0 /\ sync'[b].rows = {}
      /\ sync'[b].drawn = sync[b].drawn
      /\ \A c \in Doorbells \ {b} : sync'[c] = sync[c]
  BY EndsType DEF Commit, TypeOK
<1>4. /\ \A r \in R :
           /\ Linked(r, revs \cup R)
           /\ \E k \in 1..Len(Frames) : Frames[k] \in Importable /\ r.id = <<Frames[k], b, k>>
      /\ \A q, r \in R : q.id[1] = r.id[1] /\ q.id[3] < r.id[3] => q.no < r.no
      /\ \A m \in 1..Len(Frames) :
           Frames[m] \in Importable => \E r \in R : r.id = <<Frames[m], b, m>>
      /\ \A r \in revs : r.id[2] # b
  <2>1. HandlerSound(b)
    BY DEF HandlersSound
  <2>2. sync[b].pc \notin {"advance", "acked", "dead"}
    BY <1>1
  <2> QED BY <1>1, <2>1, <2>2 DEF HandlerSound
<1>5. Importable' = Importable
  <2>1. ASSUME NEW s \in Samples, ~job.ontology
        PROVE  Of(s)' # {} <=> Of(s) # {}
    <3>1. Of(s) # {} => Of(s)' # {}
      BY <1>1 DEF Of
    <3>2. ASSUME NEW r \in R, r.id[1] = s PROVE Of(s) # {}
      <4>1. PICK k \in 1..Len(Frames) : Frames[k] \in Importable /\ r.id = <<Frames[k], b, k>>
        BY <1>4
      <4>2. Frames[k] = s
        BY <3>2, <4>1
      <4> QED BY <2>1, <4>1, <4>2 DEF Importable
    <3>3. Of(s)' # {} => Of(s) # {}
      BY <1>1, <3>2 DEF Of
    <3> QED BY <3>1, <3>3
  <2> QED BY <1>2, <2>1 DEF Importable
<1>7. HandlersSound'
  <2>1. ASSUME NEW c \in Doorbells, c # b PROVE HandlerSound(c)'
    <3>1. sync'[c] = sync[c] /\ HandlerSound(c)
      BY <1>3, <2>1 DEF HandlersSound
    <3>2. \A r : Linked(r, revs \cup sync[c].rows) => Linked(r, revs' \cup sync[c].rows)
      BY <1>1 DEF Linked
    <3>3. \A r \in R : r.id[2] # c
      BY <1>4, <2>1
    <3> QED BY <1>1, <1>5, <3>1, <3>2, <3>3 DEF HandlerSound
  <2>2. HandlerSound(b)'
    BY <1>3 DEF HandlerSound
  <2> QED BY <2>1, <2>2 DEF HandlersSound
<1>8. job.status # "none"
  BY <1>1 DEF GateSound, Handling
<1>9. GateSound'
  BY <1>1, <1>2, <1>3 DEF GateSound
<1>10. SlotsSound'
  <2>1. Handling' = Handling /\ b \in Importing
    BY <1>1, <1>3 DEF Handling, Importing
  <2>2. Importing' \subseteq Importing
    BY <1>3 DEF Importing
  <2>3. Importers' \subseteq Importers \cup {b}
    BY <1>1, <1>4 DEF Importers
  <2>4. Importers' \cup Importing' \subseteq Importers \cup Importing
    BY <2>1, <2>2, <2>3
  <2>5. CASE job.status = "completed"
    <3>1. Importers \cup Importing \subseteq Doorbells
      BY DEF Importers, Importing
    <3>2. /\ Cardinality(Importers' \cup Importing') <= Cardinality(Importers \cup Importing)
          /\ Cardinality(Importers' \cup Importing') \in Nat
          /\ Cardinality(Importers \cup Importing) \in Nat
      BY <2>4, <3>1, HandlersFinite, FS_Subset
    <3> QED BY <1>2, <2>1, <2>5, <3>2, ReviewAssumption DEF SlotsSound
  <2>6. CASE job.status # "completed"
    <3>1. Importers' \cup Importing' \subseteq Handling
      BY <2>4, <2>6 DEF SlotsSound, Importing, Handling
    <3>2. /\ Cardinality(Importers' \cup Importing') <= Cardinality(Handling)
          /\ Cardinality(Importers' \cup Importing') \in Nat
      BY <3>1, HandlersFinite, FS_Subset, FS_CardinalityType
    <3> QED BY <1>2, <2>1, <3>2, HandlersFinite, ReviewAssumption DEF SlotsSound
  <2> QED BY <2>5, <2>6
<1>11. RevisionsAreLinked' /\ LaterFramesAreNewer'
  <2>1. \A r \in revs \cup R : Linked(r, revs \cup R)
    BY <1>4 DEF RevisionsAreLinked, Linked
  <2>2. RevisionsAreLinked'
    BY <1>1, <2>1 DEF RevisionsAreLinked, Linked
  <2>3. \A r \in R : r.id[2] = b
    BY <1>4
  <2>4. ASSUME NEW q \in revs \cup R, NEW r \in revs \cup R,
               q.id[1] = r.id[1], q.id[2] = r.id[2], q.id[3] < r.id[3]
        PROVE  q.no < r.no
    <3>1. CASE q \in R /\ r \in R
      BY <1>4, <2>4, <3>1
    <3>2. CASE q \in revs /\ r \in revs
      BY <2>4, <3>2 DEF LaterFramesAreNewer
    <3> QED BY <1>4, <2>3, <2>4, <3>1, <3>2
  <2>5. LaterFramesAreNewer'
    BY <1>1, <2>4 DEF LaterFramesAreNewer
  <2> QED BY <2>2, <2>5
<1>12. ResumedWithEverySample'
  <2> DEFINE given == {k \in DOMAIN Frames : Frames[k] \in Importable}
  <2>1. DOMAIN Frames = 1..Len(Frames)
    BY ReviewAssumption, LenProperties
  <2>2. out \subseteq {<<Frames[k], b, k>> : k \in given}
    BY <1>4, <2>1
  <2>3. ASSUME NEW k \in given PROVE <<Frames[k], b, k>> \in out
    BY <1>4, <2>1
  <2>4. out = {<<Frames[k], b, k>> : k \in given}
    BY <2>2, <2>3
  <2>5. \A id \in out : \E r \in revs' : r.id = id
    BY <1>1
  <2> QED BY <1>1, <1>2, <1>5, <2>4, <2>5 DEF ResumedWithEverySample
<1>13. NothingDrawnIsLost'
  <2>1. sync[b].drawn => R # {}
    BY <1>1 DEF LosesBoxes
  <2> QED BY <1>1, <1>3, <2>1 DEF NothingDrawnIsLost
<1> QED BY <1>7, <1>9, <1>10, <1>11, <1>12, <1>13

LEMMA StepInv ==
  ASSUME IInv, [Next]_vars
  PROVE  IInv'
<1>1. TypeOK'
  BY TypeStep DEF IInv
<1>2. CASE UNCHANGED vars
  BY <1>1, <1>2, OutsideInv DEF vars
<1>3. CASE CreateTask \/ PushFails \/ \E j \in Jobs : CompleteJob(j)
  <2>1. gate' = gate \/ (gate'.status # "running" /\ gate'.by \notin Doorbells)
    BY <1>3 DEF CreateTask, PushFails, CompleteJob, IInv, GateSound, TypeOK, GateRow
  <2> QED BY <1>1, <1>3, <2>1, OutsideInv DEF CreateTask, PushFails, CompleteJob
<1>4. CASE Park
  BY <1>1, <1>4, ParkInv
<1>5. ASSUME NEW b \in Doorbells,
             \/ Ring(b) \/ Take(b) \/ Pull(b) \/ PullFails(b)
             \/ Refuse(b) \/ Advance(b) \/ CrashSync(b)
      PROVE  IInv'
  BY <1>1, <1>5, TurnStep, TurnInv
<1>6. ASSUME NEW b \in Doorbells, Import(b) PROVE IInv'
  BY <1>1, <1>6, ImportInv
<1>7. ASSUME NEW b \in Doorbells, Commit(b) PROVE IInv'
  BY <1>1, <1>7, CommitInv
<1>8. ASSUME NEW u \in Resolvers,
             \/ FindGate(u) \/ CarryRevisions(u) \/ Resolve(u) \/ AdvanceResolved(u)
             \/ CrashRequest(u)
      PROVE  IInv'
  <2>1. gate' = gate \/ (gate'.status # "running" /\ gate'.by \notin Doorbells)
    BY <1>8, ReviewAssumption
    DEF FindGate, CarryRevisions, Resolve, AdvanceResolved, CrashRequest
  <2> QED
    BY <1>1, <1>8, <2>1, OutsideInv
    DEF FindGate, CarryRevisions, Resolve, AdvanceResolved, CrashRequest
<1> QED BY NextSplit, <1>2, <1>3, <1>4, <1>5, <1>6, <1>7, <1>8

-----------------------------------------------------------------------------
\* The inductive invariant holds of every reachable state.
THEOREM Invariance == Spec => []IInv
<1>1. Init => IInv
  BY InitInv
<1>2. IInv /\ [Next]_vars => IInv'
  BY StepInv
<1> QED BY <1>1, <1>2, PTL DEF Spec

\* However many webhooks ring, handle_cvat_sync imports a review no more often than
\* handlers run at once: its status check does not make the import unique, and the
\* consumer's concurrency is what bounds the damage.
THEOREM ImportsFitTheSlots == Spec => []ImportsAreBounded
<1>1. IInv => ImportsAreBounded
  <2> SUFFICES ASSUME IInv PROVE Cardinality(Importers) <= Slots
    BY DEF ImportsAreBounded
  <2>1. CASE job.status # "completed"
    <3>1. Importers = {}
      BY <2>1 DEF IInv, SlotsSound
    <3> QED BY <3>1, FS_EmptySet, ReviewAssumption
  <2>2. CASE job.status = "completed"
    <3>1. Importers \cup Importing \subseteq Doorbells
      BY DEF Importers, Importing
    <3>2. /\ Cardinality(Importers) <= Cardinality(Importers \cup Importing)
          /\ Cardinality(Importers) \in Nat /\ Cardinality(Importers \cup Importing) \in Nat
      BY <3>1, HandlersFinite, FS_Subset
    <3> QED BY <2>2, <3>2, ReviewAssumption DEF IInv, SlotsSound
  <2> QED BY <2>1, <2>2
<1> QED BY <1>1, Invariance, PTL

\* Rows, doorbells and requests keep their types and, whoever else is importing, the
\* revision that import_reviewed_sample builds on is of the same sample and numbered
\* just below the new one; of a sample's frames in one sync the last is the newest.
THEOREM RevisionChainsHold == Spec => []GateIsSound
<1>1. IInv => GateIsSound
  BY DEF IInv, GateIsSound
<1> QED BY <1>1, Invariance, PTL

\* A gate that handle_cvat_sync resumed hands the next step one revision of that same
\* sync for every frame whose sample can have one, as the job row records, although a
\* sample may have been pushed as several frames.
THEOREM EverySampleIsHandedOn == Spec => []ResumedWithEverySample
<1>1. IInv => ResumedWithEverySample
  BY DEF IInv
<1> QED BY <1>1, Invariance, PTL

\* The guard against silent data loss works: no sync that pulled boxes resumes the
\* gate with nothing.
THEOREM NothingIsLost == Spec => []NothingDrawnIsLost
<1>1. IInv => NothingDrawnIsLost
  BY DEF IInv
<1> QED BY <1>1, Invariance, PTL

=============================================================================
