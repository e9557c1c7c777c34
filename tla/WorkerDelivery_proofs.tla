-------------------------- MODULE WorkerDelivery_proofs --------------------------
(***************************************************************************)
(* Theorems about WorkerDelivery, for each kind of worker and any jobs,    *)
(* workers, permits and retry limit, whatever fails.                       *)
(***************************************************************************)
EXTENDS WorkerDelivery, FiniteSetTheorems, TLAPS

Permits == Workers \X Slots

\* A task beyond its claim is on a job.  The row it has locked is pending, and the
\* one it runs is running.
TaskSound(w, i) ==
  LET t == slot[w][i] IN
  /\ t.pc \in Phases \ {"claim", "ack"} => t.entry \in Jobs
  /\ t.pc = "locked" => row[t.entry] = "pending"
  /\ t.pc = "run" => row[t.entry] = "running"

TasksSound == \A w \in Workers, i \in Slots : TaskSound(w, i)

\* No two tasks have locked a row, or run it.
Claims(p, j) == /\ slot[p[1]][p[2]].pc \in {"locked", "run"}
                /\ slot[p[1]][p[2]].entry = j

ClaimsExclude == \A j \in Jobs, p, q \in Permits : Claims(p, j) /\ Claims(q, j) => p = q

\* A row begins once, and not before it is claimed.
StartsSound ==
  \A j \in Jobs : starts[j] <= 1 /\ (row[j] \in {"none", "pending"} => starts[j] = 0)

\* Each failure of j is counted once or about to be counted, and those that the dead
\* letters stand for are not counted again.
LettersSound(j) ==
  LET counting == Busy(j, {"count"})
      burying  == Busy(j, {"dead"})
      letters  == dead[j] + Cardinality(burying)
  IN /\ IsFiniteSet(counting) /\ IsFiniteSet(burying)
     /\ failures[j] >= Cardinality(counting) + retries[j]
     /\ letters > 0 => failures[j] >= Cardinality(counting) + letters + MaxRetries

IInv ==
  /\ TypeOK
  /\ TasksSound
  /\ ClaimsExclude
  /\ StartsSound
  /\ PendingRowIsOnItsWay
  /\ \A j \in Jobs : LettersSound(j)

-----------------------------------------------------------------------------

LEMMA InitInv == Init => IInv
<1> SUFFICES ASSUME Init PROVE IInv
  OBVIOUS
<1> USE DEF Init
<1>1. TypeOK
  <2>1. Permit("free") \in Task
    BY DEF Permit, Task
  <2> HIDE DEF Permit, Task
  <2>2. slot \in [Workers -> [Slots -> Task]]
    BY <2>1
  <2>3. stream \in Seq(Entries) /\ batch \in [Workers -> Seq(Entries)]
    OBVIOUS
  <2>4. /\ row \in [Jobs -> {"none", "pending", "running", "settled"}]
        /\ starts \in [Jobs -> Nat] /\ failures \in [Jobs -> Nat] /\ retries \in [Jobs -> Nat]
        /\ dead \in [Entries -> Nat] /\ asleep \in [Workers -> [Jobs -> Nat]]
    OBVIOUS
  <2> QED BY <2>2, <2>3, <2>4 DEF TypeOK
<1>2. \A w \in Workers, i \in Slots : slot[w][i].pc = "free"
  BY DEF Permit
<1>3. TasksSound /\ ClaimsExclude
  BY <1>2 DEF TasksSound, TaskSound, Phases, ClaimsExclude, Claims, Permits
<1>4. StartsSound /\ PendingRowIsOnItsWay
  BY DEF StartsSound, PendingRowIsOnItsWay
<1>5. ASSUME NEW j \in Jobs PROVE LettersSound(j)
  <2>1. Busy(j, {"count"}) = {} /\ Busy(j, {"dead"}) = {}
    BY <1>2 DEF Busy
  <2>2. failures[j] = 0 /\ retries[j] = 0 /\ dead[j] = 0
    BY DEF Entries
  <2>3. /\ IsFiniteSet(Busy(j, {"count"})) /\ Cardinality(Busy(j, {"count"})) = 0
        /\ IsFiniteSet(Busy(j, {"dead"})) /\ Cardinality(Busy(j, {"dead"})) = 0
    BY <2>1, FS_EmptySet
  <2> QED BY <2>2, <2>3 DEF LettersSound
<1> QED BY <1>1, <1>3, <1>4, <1>5 DEF IInv

-----------------------------------------------------------------------------
(* Entries in a stream or a batch.                                           *)

LEMMA MembersOfAppend ==
  ASSUME NEW S, NEW s \in Seq(S), NEW e \in S
  PROVE  Append(s, e) \in Seq(S) /\ Members(Append(s, e)) = Members(s) \cup {e}
<1>1. /\ DOMAIN Append(s, e) = 1..(Len(s) + 1) /\ DOMAIN s = 1..Len(s) /\ Len(s) \in Nat
      /\ \A k \in 1..Len(s) : Append(s, e)[k] = s[k]
      /\ Append(s, e)[Len(s) + 1] = e
  OBVIOUS
<1>2. \A k \in 1..(Len(s) + 1) : k \in 1..Len(s) \/ k = Len(s) + 1
  BY <1>1
<1>3. 1..Len(s) \subseteq 1..(Len(s) + 1) /\ Len(s) + 1 \in 1..(Len(s) + 1)
  BY <1>1
<1> QED BY <1>1, <1>2, <1>3 DEF Members

\* A batch and what it leaves in the stream are the stream.
LEMMA MembersOfSplit ==
  ASSUME NEW S, NEW s \in Seq(S), NEW n \in 0..Len(s)
  PROVE  /\ SubSeq(s, 1, n) \in Seq(S) /\ SubSeq(s, n + 1, Len(s)) \in Seq(S)
         /\ Members(s) \subseteq Members(SubSeq(s, 1, n)) \cup Members(SubSeq(s, n + 1, Len(s)))
<1>1. Len(s) \in Nat /\ DOMAIN s = 1..Len(s)
  OBVIOUS
<1>2. /\ SubSeq(s, 1, n) \in Seq(S) /\ DOMAIN SubSeq(s, 1, n) = 1..n
      /\ \A k \in 1..n : SubSeq(s, 1, n)[k] = s[k]
  BY <1>1
<1>3. /\ SubSeq(s, n + 1, Len(s)) \in Seq(S)
      /\ DOMAIN SubSeq(s, n + 1, Len(s)) = 1..(Len(s) - n)
      /\ \A k \in 1..(Len(s) - n) : SubSeq(s, n + 1, Len(s))[k] = s[n + k]
  BY <1>1
<1>4. ASSUME NEW k \in 1..Len(s)
      PROVE  s[k] \in Members(SubSeq(s, 1, n)) \cup Members(SubSeq(s, n + 1, Len(s)))
  <2>1. CASE k <= n
    <3>1. k \in 1..n
      BY <2>1
    <3>2. k \in DOMAIN SubSeq(s, 1, n) /\ SubSeq(s, 1, n)[k] = s[k]
      BY <1>2, <3>1
    <3> QED BY <3>2 DEF Members
  <2>2. CASE k > n
    <3>1. k - n \in 1..(Len(s) - n) /\ n + (k - n) = k
      BY <1>1, <2>2
    <3>2. SubSeq(s, n + 1, Len(s))[k - n] = s[k]
      BY <1>3, <3>1
    <3> QED BY <1>3, <3>1, <3>2 DEF Members
  <2> QED BY <1>1, <2>1, <2>2
<1> QED BY <1>1, <1>2, <1>3, <1>4 DEF Members

LEMMA MembersOfParts ==
  ASSUME NEW S, NEW s \in Seq(S), NEW n \in 0..Len(s)
  PROVE  Members(SubSeq(s, 1, n)) \cup Members(SubSeq(s, n + 1, Len(s))) \subseteq Members(s)
<1>1. Len(s) \in Nat /\ DOMAIN s = 1..Len(s)
  OBVIOUS
<1>2. /\ DOMAIN SubSeq(s, 1, n) = 1..n
      /\ \A k \in 1..n : SubSeq(s, 1, n)[k] = s[k] /\ k \in 1..Len(s)
  BY <1>1
<1>3. /\ DOMAIN SubSeq(s, n + 1, Len(s)) = 1..(Len(s) - n)
      /\ \A k \in 1..(Len(s) - n) : SubSeq(s, n + 1, Len(s))[k] = s[n + k] /\ n + k \in 1..Len(s)
  BY <1>1
<1>4. Members(SubSeq(s, 1, n)) \subseteq Members(s)
  BY <1>1, <1>2 DEF Members
<1>5. Members(SubSeq(s, n + 1, Len(s))) \subseteq Members(s)
  BY <1>1, <1>3 DEF Members
<1> QED BY <1>4, <1>5

LEMMA MembersOfTail ==
  ASSUME NEW S, NEW s \in Seq(S), s # <<>>
  PROVE  /\ Head(s) \in S /\ Tail(s) \in Seq(S) /\ <<Head(s)>> \in Seq(S)
         /\ Members(s) = {Head(s)} \cup Members(Tail(s))
         /\ Members(<<Head(s)>>) = {Head(s)}
<1>1. /\ Len(s) \in Nat \ {0} /\ DOMAIN s = 1..Len(s) /\ DOMAIN Tail(s) = 1..(Len(s) - 1)
      /\ Head(s) = s[1]
      /\ \A k \in 1..(Len(s) - 1) : Tail(s)[k] = s[k + 1]
      /\ Head(s) \in S /\ Tail(s) \in Seq(S) /\ <<Head(s)>> \in Seq(S)
  OBVIOUS
<1>2. \A k \in 1..Len(s) : k = 1 \/ (k - 1 \in 1..(Len(s) - 1) /\ (k - 1) + 1 = k)
  BY <1>1
<1>3. 1 \in 1..Len(s) /\ \A k \in 1..(Len(s) - 1) : k + 1 \in 1..Len(s)
  BY <1>1
<1>4. ASSUME NEW k \in 1..Len(s), k # 1 PROVE s[k] \in Members(Tail(s))
  <2>1. k - 1 \in DOMAIN Tail(s) /\ Tail(s)[k - 1] = s[k]
    BY <1>1, <1>2, <1>4
  <2> QED BY <2>1 DEF Members
<1>5. Members(s) \subseteq {Head(s)} \cup Members(Tail(s))
  BY <1>1, <1>4 DEF Members
<1>6. {Head(s)} \cup Members(Tail(s)) \subseteq Members(s)
  BY <1>1, <1>3 DEF Members
<1>7. Members(<<Head(s)>>) = {Head(s)}
  BY DEF Members
<1> QED BY <1>1, <1>5, <1>6, <1>7

-----------------------------------------------------------------------------
(* Permits.                                                                  *)

\* A set of permits changes by one permit.
LEMMA OneChanges ==
  ASSUME NEW old, NEW new, NEW p, IsFiniteSet(old), new \ {p} = old \ {p}
  PROVE  /\ IsFiniteSet(new) /\ Cardinality(old) \in Nat /\ Cardinality(new) \in Nat
         /\ Cardinality(new) = (Cardinality(old) - (IF p \in old THEN 1 ELSE 0))
                                 + (IF p \in new THEN 1 ELSE 0)
<1> DEFINE rest == old \ {p}
<1>1. IsFiniteSet(rest) /\ Cardinality(old) \in Nat /\ Cardinality(rest) \in Nat
      /\ Cardinality(rest) = IF p \in old THEN Cardinality(old) - 1 ELSE Cardinality(old)
  BY FS_RemoveElement, FS_CardinalityType
<1>2. p \notin rest
  OBVIOUS
<1>3. IsFiniteSet(rest \cup {p}) /\ Cardinality(rest \cup {p}) = Cardinality(rest) + 1
  BY <1>1, <1>2, FS_AddElement
<1>4. CASE p \in new
  <2>1. new = rest \cup {p}
    BY <1>4
  <2> QED BY <1>1, <1>3, <1>4, <2>1, FS_CardinalityType
<1>5. CASE p \notin new
  <2>1. new = rest
    BY <1>5
  <2> HIDE DEF rest
  <2> QED BY <1>1, <1>5, <2>1
<1> QED BY <1>4, <1>5

-----------------------------------------------------------------------------
(* Steps that leave every task as it is.                                     *)

\* A doorbell of j is in the stream, in a batch, or will be added.
Rung(j) == \/ j \in Members(stream)
           \/ \E w \in Workers : j \in Members(batch[w]) \/ asleep[w][j] > 0

LEMMA Pushed ==
  ASSUME TypeOK, NEW e \in Entries, Push(e)
  PROVE  /\ stream' \in Seq(Entries) /\ Members(stream) \subseteq Members(stream')
         /\ lost \subseteq lost' /\ lost' \subseteq Jobs
         /\ e \in Jobs => e \in Members(stream') \/ e \in lost'
<1>1. stream \in Seq(Entries) /\ lost \subseteq Jobs /\ group \in BOOLEAN
  BY DEF TypeOK
<1>2. /\ Append(stream, e) \in Seq(Entries)
      /\ Members(Append(stream, e)) = Members(stream) \cup {e}
  BY <1>1, MembersOfAppend
<1>3. CASE group
  BY <1>1, <1>2, <1>3 DEF Push
<1>4. CASE ~group
  BY <1>1, <1>4, DeliveryAssumption DEF Push, Entries
<1> QED BY <1>1, <1>3, <1>4

\* Rows are only submitted, counters only expire, and no doorbell is dropped silently.
LEMMA QuietStep ==
  ASSUME IInv, TypeOK', UNCHANGED <<kind, slot, starts, dead, failures>>,
         \A j \in Jobs : retries'[j] <= retries[j],
         \A j \in Jobs : row'[j] = row[j] \/ (row[j] = "none" /\ row'[j] = "pending"),
         lost \subseteq lost',
         \A j \in Jobs : Rung(j) \/ row'[j] # row[j] => Rung(j)' \/ j \in lost'
  PROVE  IInv'
<1> USE DEF IInv
<1>1. TasksSound'
  BY DEF TasksSound, TaskSound, Phases
<1>2. ClaimsExclude' /\ StartsSound'
  BY DEF ClaimsExclude, Claims, StartsSound
<1>3. PendingRowIsOnItsWay'
  <2> SUFFICES ASSUME NEW j \in Jobs, row'[j] = "pending", j \notin lost', ~Rung(j)'
               PROVE  \/ Busy(j, {"claim", "locked", "count", "ackRetry", "dead"})' # {}
                      \/ dead'[j] > 0 \/ (kind' # "preprocessing" /\ failures'[j] > 0)
    BY DEF PendingRowIsOnItsWay, OnItsWay, Rung
  <2> QED BY DEF PendingRowIsOnItsWay, OnItsWay, Rung, Busy
<1>4. ASSUME NEW j \in Jobs PROVE LettersSound(j)'
  <2>1. /\ Cardinality(Busy(j, {"count"})) \in Nat
        /\ failures[j] \in Nat /\ retries[j] \in Nat /\ retries'[j] \in Nat
    BY FS_CardinalityType DEF LettersSound, TypeOK
  <2>2. Busy(j, {"count"})' = Busy(j, {"count"}) /\ Busy(j, {"dead"})' = Busy(j, {"dead"})
    BY DEF Busy
  <2> QED BY <2>1, <2>2 DEF LettersSound
<1> QED BY <1>1, <1>2, <1>3, <1>4

LEMMA ProducersInv ==
  ASSUME IInv,
         \/ SendPoison
         \/ \E j \in Jobs : Submit(j) \/ SubmitUnrung(j) \/ \E w \in Workers : Sweep(w, j)
  PROVE  IInv'
<1> USE DEF IInv
<1>1. UNCHANGED <<kind, slot, starts, dead, failures, group, retries, mode, batch, asleep, losses>>
  BY DEF SendPoison, Submit, SubmitUnrung, Sweep, work, redis, table
<1>2. PICK j \in Jobs \cup {Poison} :
        /\ \/ Push(j)
           \/ UNCHANGED stream /\ lost' = lost \cup {j} /\ j \in Jobs
        /\ \/ row' = row
           \/ j \in Jobs /\ row[j] = "none" /\ row' = [row EXCEPT ![j] = "pending"]
        /\ faults' \in {faults, faults + 1}
  BY DEF SendPoison, Submit, SubmitUnrung, Sweep, Fault, table, redis
<1>3. /\ stream' \in Seq(Entries) /\ Members(stream) \subseteq Members(stream')
      /\ lost \subseteq lost' /\ lost' \subseteq Jobs
      /\ j \in Jobs => j \in Members(stream') \/ j \in lost'
  BY <1>2, Pushed DEF Entries, TypeOK
<1>4. /\ row' \in [Jobs -> {"none", "pending", "running", "settled"}]
      /\ \A k \in Jobs : \/ row'[k] = row[k]
                         \/ k = j /\ row[k] = "none" /\ row'[k] = "pending"
  BY <1>2 DEF TypeOK
<1>5. TypeOK'
  BY <1>1, <1>2, <1>3, <1>4 DEF TypeOK
<1>6. \A k \in Jobs : retries'[k] <= retries[k]
  BY <1>1 DEF TypeOK
<1>7. \A k \in Jobs : Rung(k) \/ row'[k] # row[k] => Rung(k)' \/ k \in lost'
  BY <1>1, <1>3, <1>4 DEF Rung
<1> QED BY <1>1, <1>3, <1>4, <1>5, <1>6, <1>7, QuietStep

LEMMA RedisInv ==
  ASSUME IInv, LoseData \/ \E j \in Jobs : Expire(j)
  PROVE  IInv'
<1> USE DEF IInv
<1>1. UNCHANGED <<kind, row, slot, starts, dead, failures, mode, batch, asleep, faults>>
  BY DEF LoseData, Expire, work, table
<1>2. /\ lost \subseteq lost' /\ lost' \subseteq Jobs /\ losses' \in Nat /\ group' \in BOOLEAN
      /\ stream' \in Seq(Entries)
      /\ Members(stream) \cap Jobs \subseteq Members(stream') \cup lost'
  <2>1. CASE LoseData
    <3>1. stream' = <<>> /\ lost' = lost \cup (Members(stream) \cap Jobs) /\ group' = FALSE
          /\ losses' = losses + 1
      BY <2>1 DEF LoseData
    <3>2. <<>> \in Seq(Entries) /\ lost \subseteq Jobs /\ losses \in Nat
      BY DEF TypeOK
    <3>3. lost \subseteq lost' /\ lost' \subseteq Jobs /\ Members(stream) \cap Jobs \subseteq lost'
      <4> HIDE DEF Members
      <4> QED BY <3>1, <3>2
    <3>4. losses' \in Nat
      BY <3>1, <3>2
    <3>6. group' \in BOOLEAN
      BY <3>1
    <3>5. stream' \in Seq(Entries)
      BY <3>1
    <3> HIDE DEF Members
    <3> QED BY <3>3, <3>4, <3>5, <3>6
  <2>2. CASE \E j \in Jobs : Expire(j)
    BY <2>2 DEF Expire, TypeOK
  <2> QED BY <2>1, <2>2
<1>3. retries' \in [Jobs -> Nat] /\ \A k \in Jobs : retries'[k] <= retries[k]
  <2>1. CASE LoseData
    BY <2>1 DEF LoseData, TypeOK
  <2>2. CASE \E j \in Jobs : Expire(j)
    BY <2>2 DEF Expire, TypeOK
  <2> QED BY <2>1, <2>2
<1>4. TypeOK'
  BY <1>1, <1>2, <1>3 DEF TypeOK
<1>5. \A k \in Jobs : Rung(k) => Rung(k)' \/ k \in lost'
  BY <1>1, <1>2 DEF Rung
<1> QED BY <1>1, <1>2, <1>3, <1>4, <1>5, QuietStep

LEMMA WorkerInv ==
  ASSUME IInv, NEW w \in Workers, Start(w) \/ Stop(w)
  PROVE  IInv'
<1> USE DEF IInv
<1>1. UNCHANGED <<kind, row, slot, starts, dead, failures, retries, stream, batch, asleep, lost, losses>>
  BY DEF Start, Stop, work, table, redis
<1>2. /\ mode' \in [Workers -> {"down", "up", "stopping"}]
      /\ group' \in BOOLEAN /\ faults' \in Nat
  <2>1. CASE Start(w)
    BY <2>1 DEF Start, TypeOK
  <2>2. CASE Stop(w)
    BY <2>2 DEF Stop, Fault, redis, TypeOK
  <2> QED BY <2>1, <2>2
<1>3. TypeOK'
  BY <1>1, <1>2 DEF TypeOK
<1>4. \A k \in Jobs : retries'[k] <= retries[k]
  BY <1>1 DEF TypeOK
<1>5. \A k \in Jobs : Rung(k) => Rung(k)' \/ k \in lost'
  BY <1>1 DEF Rung
<1> QED BY <1>1, <1>3, <1>4, <1>5, QuietStep

\* What a worker reads leaves the stream for its batch.
LEMMA ReadInv ==
  ASSUME IInv, NEW w \in Workers, Read(w)
  PROVE  IInv'
<1> USE DEF IInv
<1>1. /\ UNCHANGED <<kind, row, slot, starts, dead, failures, retries, group, mode, asleep, lost,
                     faults, losses>>
      /\ stream # <<>> /\ stream \in Seq(Entries) /\ batch[w] = <<>>
  BY DEF Read, PoolRead, LoopRead, work, table, redis, TypeOK
<1>2. PICK taken \in Seq(Entries) :
        /\ batch' = [batch EXCEPT ![w] = taken]
        /\ stream' \in Seq(Entries)
        /\ Members(stream) \subseteq Members(taken) \cup Members(stream')
  <2>1. CASE PoolRead(w)
    <3> DEFINE n == IF Len(stream) < Cardinality(Slots) THEN Len(stream) ELSE Cardinality(Slots)
    <3>1. Cardinality(Slots) \in Nat /\ Len(stream) \in Nat
      BY <1>1, DeliveryAssumption, FS_CardinalityType
    <3>2. n \in 0..Len(stream)
      BY <3>1
    <3>3. /\ batch' = [batch EXCEPT ![w] = SubSeq(stream, 1, n)]
          /\ stream' = SubSeq(stream, n + 1, Len(stream))
      BY <2>1 DEF PoolRead
    <3> HIDE DEF n
    <3> QED BY <1>1, <3>2, <3>3, MembersOfSplit
  <2>2. CASE LoopRead(w)
    BY <1>1, <2>2, MembersOfTail DEF LoopRead
  <2> QED BY <2>1, <2>2 DEF Read
<1>3. /\ batch' \in [Workers -> Seq(Entries)] /\ batch'[w] = taken
      /\ \A v \in Workers \ {w} : batch'[v] = batch[v]
  BY <1>2 DEF TypeOK
<1>4. TypeOK'
  BY <1>1, <1>2, <1>3 DEF TypeOK
<1>5. \A k \in Jobs : retries'[k] <= retries[k]
  BY <1>1 DEF TypeOK
<1>6. \A k \in Jobs : Rung(k) => Rung(k)' \/ k \in lost'
  <2>1. Members(batch[w]) = {}
    BY <1>1 DEF Members
  <2> QED BY <1>1, <1>2, <1>3, <2>1 DEF Rung
<1> QED BY <1>1, <1>4, <1>5, <1>6, QuietStep

\* A retry leaves its sleep for the stream.
LEMMA WakeInv ==
  ASSUME IInv, NEW w \in Workers, NEW j \in Jobs, Wake(w, j) \/ WakeRaises(w, j)
  PROVE  IInv'
<1> USE DEF IInv
<1>1. /\ UNCHANGED <<kind, row, slot, starts, dead, failures, retries, group, mode, batch, losses>>
      /\ asleep[w][j] > 0 /\ asleep' = [asleep EXCEPT ![w][j] = @ - 1]
      /\ Push(j) \/ (UNCHANGED stream /\ lost' = lost \cup {j})
      /\ faults' \in Nat
  BY DEF Wake, WakeRaises, Fault, table, redis, TypeOK
<1>2. /\ stream' \in Seq(Entries) /\ Members(stream) \subseteq Members(stream')
      /\ lost \subseteq lost' /\ lost' \subseteq Jobs
      /\ j \in Members(stream') \/ j \in lost'
  BY <1>1, Pushed DEF Entries, TypeOK
<1>3. /\ asleep' \in [Workers -> [Jobs -> Nat]]
      /\ \A v \in Workers, k \in Jobs : k # j => asleep'[v][k] = asleep[v][k]
  BY <1>1 DEF TypeOK
<1>4. TypeOK'
  BY <1>1, <1>2, <1>3 DEF TypeOK
<1>5. \A k \in Jobs : retries'[k] <= retries[k]
  BY <1>1 DEF TypeOK
<1>6. \A k \in Jobs : Rung(k) => Rung(k)' \/ k \in lost'
  BY <1>1, <1>2, <1>3 DEF Rung
<1> QED BY <1>1, <1>2, <1>4, <1>5, <1>6, QuietStep

\* A process that ends takes its tasks along; the rows they run stay as they are.
LEMMA DieInv ==
  ASSUME IInv, NEW w \in Workers,
         Crash(w) \/ Leave(w) \/ NoGroup(w) \/ \E i \in Slots : LoopAckRaises(w, i)
  PROVE  IInv'
<1> USE DEF IInv
<1>1. /\ Die(w) /\ faults' \in Nat
      /\ UNCHANGED <<kind, row, starts, failures, group, stream, retries, dead, losses>>
  BY DEF Crash, Leave, NoGroup, LoopAckRaises, Fault, table, redis, TypeOK
<1>2. /\ slot' \in [Workers -> [Slots -> Task]]
      /\ \A i \in Slots : slot'[w][i].pc = "free"
      /\ \A v \in Workers \ {w} : /\ slot'[v] = slot[v] /\ batch'[v] = batch[v]
                                  /\ asleep'[v] = asleep[v]
  <2>1. Permit("free") \in Task /\ Permit("free").pc = "free"
    BY DEF Permit, Task
  <2> HIDE DEF Permit, Task
  <2> QED BY <1>1, <2>1 DEF Die, TypeOK
<1>3. /\ mode' \in [Workers -> {"down", "up", "stopping"}]
      /\ batch' \in [Workers -> Seq(Entries)]
      /\ asleep' \in [Workers -> [Jobs -> Nat]]
      /\ lost' = lost \cup InHand(w) /\ lost' \subseteq Jobs
  BY <1>1 DEF Die, TypeOK, InHand
<1>4. TypeOK'
  BY <1>1, <1>2, <1>3 DEF TypeOK
<1>5. TasksSound'
  <2> SUFFICES ASSUME NEW v \in Workers, NEW i \in Slots PROVE TaskSound(v, i)'
    BY DEF TasksSound
  <2>1. CASE v = w
    BY <1>2, <2>1 DEF TaskSound, Phases
  <2>2. CASE v # w
    BY <1>1, <1>2, <2>2 DEF TasksSound, TaskSound
  <2> QED BY <2>1, <2>2
<1>6. ASSUME NEW v \in Workers, NEW i \in Slots, slot'[v][i].pc # "free"
      PROVE  v # w /\ slot'[v][i] = slot[v][i]
  BY <1>2, <1>6
<1>7. ClaimsExclude' /\ StartsSound'
  BY <1>1, <1>6 DEF ClaimsExclude, Claims, StartsSound, Permits
<1>8. PendingRowIsOnItsWay'
  <2> SUFFICES ASSUME NEW j \in Jobs, row[j] = "pending", OnItsWay(j)
               PROVE  OnItsWay(j)' \/ j \in lost'
    BY <1>1, <1>3 DEF PendingRowIsOnItsWay
  <2>1. CASE j \in Members(stream)
    BY <1>1, <2>1 DEF OnItsWay
  <2>2. ASSUME NEW v \in Workers, j \in Members(batch[v]) \/ asleep[v][j] > 0
        PROVE  OnItsWay(j)' \/ j \in lost'
    <3>1. CASE v = w
      BY <1>3, <2>2, <3>1 DEF InHand
    <3>2. CASE v # w
      BY <1>2, <2>2, <3>2 DEF OnItsWay
    <3> QED BY <3>1, <3>2
  <2>3. ASSUME NEW p \in Busy(j, {"claim", "locked", "count", "ackRetry", "dead"})
        PROVE  OnItsWay(j)' \/ j \in lost'
    <3>1. /\ p \in Workers \X Slots /\ slot[p[1]][p[2]].entry = j
          /\ slot[p[1]][p[2]].pc \in {"claim", "locked", "count", "ackRetry", "dead"}
      BY DEF Busy
    <3>2. CASE p[1] = w
      BY <1>3, <3>1, <3>2 DEF InHand
    <3>3. CASE p[1] # w
      <4>1. slot'[p[1]][p[2]] = slot[p[1]][p[2]]
        BY <1>2, <3>1, <3>3
      <4>2. p \in Busy(j, {"claim", "locked", "count", "ackRetry", "dead"})'
        BY <3>1, <4>1 DEF Busy
      <4> QED BY <4>2 DEF OnItsWay
    <3> QED BY <3>2, <3>3
  <2> QED BY <2>1, <2>2, <2>3 DEF OnItsWay
<1>9. ASSUME NEW j \in Jobs PROVE LettersSound(j)'
  <2>1. /\ Busy(j, {"count"})' \subseteq Busy(j, {"count"})
        /\ Busy(j, {"dead"})' \subseteq Busy(j, {"dead"})
    BY <1>6 DEF Busy
  <2>2. /\ IsFiniteSet(Busy(j, {"count"})) /\ Cardinality(Busy(j, {"count"})) \in Nat
        /\ IsFiniteSet(Busy(j, {"dead"})) /\ Cardinality(Busy(j, {"dead"})) \in Nat
    BY FS_CardinalityType DEF LettersSound
  <2>3. /\ IsFiniteSet(Busy(j, {"count"})') /\ Cardinality(Busy(j, {"count"})') \in Nat
        /\ Cardinality(Busy(j, {"count"})') <= Cardinality(Busy(j, {"count"}))
    BY <2>1, <2>2, FS_Subset, FS_CardinalityType
  <2>4. /\ IsFiniteSet(Busy(j, {"dead"})') /\ Cardinality(Busy(j, {"dead"})') \in Nat
        /\ Cardinality(Busy(j, {"dead"})') <= Cardinality(Busy(j, {"dead"}))
    BY <2>1, <2>2, FS_Subset, FS_CardinalityType
  <2>5. failures[j] \in Nat /\ retries[j] \in Nat /\ dead[j] \in Nat /\ MaxRetries \in Nat
    BY DeliveryAssumption DEF TypeOK, Entries
  <2> QED BY <1>1, <2>2, <2>3, <2>4, <2>5 DEF LettersSound
<1> QED BY <1>4, <1>5, <1>7, <1>8, <1>9

-----------------------------------------------------------------------------
(* Steps of one task.                                                        *)

OnTheWay == {"claim", "locked", "count", "ackRetry", "dead"}

\* A permit changes hands or its task goes on.  It may write the row only if it claims
\* it, claims it only if no other does, and leaves a pending row to somebody.
LEMMA TaskStep ==
  ASSUME IInv, TypeOK', NEW w \in Workers, NEW i \in Slots, NEW t \in Task,
         slot' = [slot EXCEPT ![w][i] = t],
         UNCHANGED kind,
         lost \subseteq lost',
         TaskSound(w, i)', StartsSound', \A j \in Jobs : LettersSound(j)',
         \A j \in Jobs : dead'[j] >= dead[j] /\ failures'[j] >= failures[j],
         \A j \in Jobs : row'[j] = row[j] \/ (Claims(<<w, i>>, j) /\ row'[j] # "pending"),
         t.pc \in {"locked", "run"} =>
           \A p \in Permits \ {<<w, i>>} : ~Claims(p, t.entry),
         \A j \in Jobs : Rung(j) => Rung(j)' \/ (t.entry = j /\ t.pc \in OnTheWay),
         slot[w][i].pc \in OnTheWay => \A j \in Jobs : slot[w][i].entry = j /\ row'[j] = "pending" =>
           \/ t.entry = j /\ t.pc \in OnTheWay
           \/ \E p \in Permits \ {<<w, i>>} : Claims(p, j)
           \/ Rung(j)' \/ j \in lost' \/ dead'[j] > 0
           \/ kind # "preprocessing" /\ failures'[j] > 0
  PROVE  IInv'
<1> USE DEF IInv
<1>1. /\ slot'[w][i] = t
      /\ \A v \in Workers, k \in Slots : v # w \/ k # i => slot'[v][k] = slot[v][k]
  BY DEF TypeOK
<1>2. <<w, i>> \in Permits /\ \A p \in Permits : p[1] \in Workers /\ p[2] \in Slots /\ p = <<p[1], p[2]>>
  BY DEF Permits
<1>3. ASSUME NEW p \in Permits, p # <<w, i>> PROVE slot'[p[1]][p[2]] = slot[p[1]][p[2]]
  BY <1>1, <1>2, <1>3
<1>4. TasksSound'
  <2> SUFFICES ASSUME NEW v \in Workers, NEW k \in Slots, v # w \/ k # i PROVE TaskSound(v, k)'
    BY DEF TasksSound
  <2>1. slot'[v][k] = slot[v][k] /\ TaskSound(v, k)
    BY <1>1 DEF TasksSound
  <2>2. slot[v][k].pc \in {"locked", "run"} =>
          /\ slot[v][k].entry \in Jobs
          /\ row'[slot[v][k].entry] = row[slot[v][k].entry]
    <3> SUFFICES ASSUME slot[v][k].pc \in {"locked", "run"}
                 PROVE  /\ slot[v][k].entry \in Jobs
                        /\ row'[slot[v][k].entry] = row[slot[v][k].entry]
      OBVIOUS
    <3>1. slot[v][k].entry \in Jobs
      BY <2>1 DEF TaskSound, Phases
    <3>2. <<v, k>> \in Permits /\ <<v, k>> # <<w, i>> /\ Claims(<<v, k>>, slot[v][k].entry)
      BY DEF Permits, Claims
    <3> QED BY <1>2, <3>1, <3>2 DEF ClaimsExclude
  <2> QED BY <2>1, <2>2 DEF TaskSound
<1>5. ClaimsExclude'
  <2> SUFFICES ASSUME NEW j \in Jobs, NEW p \in Permits, NEW q \in Permits,
                      Claims(p, j)', Claims(q, j)', q # <<w, i>>
               PROVE  p = q
    BY <1>2 DEF ClaimsExclude
  <2>1. Claims(q, j)
    BY <1>3 DEF Claims
  <2>2. CASE p = <<w, i>>
    BY <1>1, <2>1, <2>2 DEF Claims
  <2>3. CASE p # <<w, i>>
    <3>1. Claims(p, j)
      BY <1>3, <2>3 DEF Claims
    <3> QED BY <2>1, <3>1 DEF ClaimsExclude
  <2> QED BY <2>2, <2>3
<1>6. PendingRowIsOnItsWay'
  <2> SUFFICES ASSUME NEW j \in Jobs, row'[j] = "pending", j \notin lost', ~(dead'[j] > 0),
                      ~(kind # "preprocessing" /\ failures'[j] > 0)
               PROVE  OnItsWay(j)'
    BY DEF PendingRowIsOnItsWay
  <2>1. dead[j] \in Nat /\ dead'[j] \in Nat /\ failures[j] \in Nat /\ failures'[j] \in Nat
    BY DEF TypeOK, Entries
  <2>2. OnItsWay(j)
    BY <2>1 DEF PendingRowIsOnItsWay
  <2>3. ASSUME NEW p \in Permits, slot'[p[1]][p[2]].entry = j, slot'[p[1]][p[2]].pc \in OnTheWay
        PROVE  OnItsWay(j)'
    BY <2>3 DEF OnItsWay, Busy, OnTheWay, Permits
  <2>4. Rung(j)' => OnItsWay(j)'
    BY DEF OnItsWay, Rung
  <2>5. t.entry = j /\ t.pc \in OnTheWay => OnItsWay(j)'
    BY <1>1, <1>2, <2>3
  <2>6. CASE Rung(j)
    BY <2>4, <2>5, <2>6
  <2>7. ASSUME NEW p \in Permits, slot[p[1]][p[2]].entry = j, slot[p[1]][p[2]].pc \in OnTheWay
        PROVE  OnItsWay(j)'
    <3>1. CASE p # <<w, i>>
      BY <1>3, <2>3, <2>7, <3>1
    <3>2. CASE p = <<w, i>>
      <4>1. ASSUME NEW q \in Permits \ {<<w, i>>}, Claims(q, j) PROVE OnItsWay(j)'
        <5>1. slot'[q[1]][q[2]] = slot[q[1]][q[2]]
          BY <1>3
        <5>2. slot[q[1]][q[2]].entry = j /\ slot[q[1]][q[2]].pc \in {"locked", "run"}
          BY <4>1 DEF Claims
        <5>3. row[j] = "pending"
          OBVIOUS
        <5>4. slot[q[1]][q[2]].pc # "run"
          BY <1>2, <5>2, <5>3 DEF TasksSound, TaskSound
        <5> QED BY <2>3, <5>1, <5>2, <5>4 DEF OnTheWay
      <4> QED BY <2>4, <2>5, <2>7, <3>2, <4>1
    <3> QED BY <3>1, <3>2
  <2> QED BY <2>2, <2>6, <2>7 DEF OnItsWay, Rung, Busy, OnTheWay, Permits
<1> QED BY <1>4, <1>5, <1>6

\* What a task counts for among those of job j that are in some phase.
Weight(task, j, phase) == IF task.entry = j /\ task.pc = phase THEN 1 ELSE 0

\* What a step of one task does to the letters of j is told by the numbers of its
\* counting and burying tasks.
LEMMA LettersMove ==
  ASSUME IInv, TypeOK', NEW w \in Workers, NEW i \in Slots, NEW t,
         slot' = [slot EXCEPT ![w][i] = t], NEW j \in Jobs
  PROVE  \E c, d, c2, d2 \in Nat :
           /\ c2 = (c - Weight(slot[w][i], j, "count")) + Weight(t, j, "count")
           /\ d2 = (d - Weight(slot[w][i], j, "dead")) + Weight(t, j, "dead")
           /\ failures[j] >= c + retries[j]
           /\ dead[j] + d > 0 => failures[j] >= c + (dead[j] + d) + MaxRetries
           /\ ( /\ failures'[j] >= c2 + retries'[j]
                /\ dead'[j] + d2 > 0 => failures'[j] >= c2 + (dead'[j] + d2) + MaxRetries )
              => LettersSound(j)'
<1>1. TypeOK /\ LettersSound(j)
  BY DEF IInv
<1> DEFINE p  == <<w, i>>
           C  == Busy(j, {"count"})
           C2 == Busy(j, {"count"})'
           D  == Busy(j, {"dead"})
           D2 == Busy(j, {"dead"})'
<1>2. IsFiniteSet(C) /\ IsFiniteSet(D)
  BY <1>1 DEF LettersSound
<1>3. slot'[w][i] = t /\ \A q \in Permits \ {p} : slot'[q[1]][q[2]] = slot[q[1]][q[2]]
  BY <1>1 DEF TypeOK, Permits
<1>4. /\ C2 \ {p} = C \ {p} /\ D2 \ {p} = D \ {p}
      /\ p \in C <=> slot[w][i].entry = j /\ slot[w][i].pc = "count"
      /\ p \in D <=> slot[w][i].entry = j /\ slot[w][i].pc = "dead"
      /\ p \in C2 <=> t.entry = j /\ t.pc = "count"
      /\ p \in D2 <=> t.entry = j /\ t.pc = "dead"
  BY <1>3 DEF Busy, Permits
<1>5. /\ failures[j] >= Cardinality(C) + retries[j]
      /\ dead[j] + Cardinality(D) > 0 =>
           failures[j] >= Cardinality(C) + (dead[j] + Cardinality(D)) + MaxRetries
  BY <1>1 DEF LettersSound
<1>6. /\ IsFiniteSet(C2) /\ IsFiniteSet(D2)
      /\ failures'[j] >= Cardinality(C2) + retries'[j]
      /\ dead'[j] + Cardinality(D2) > 0 =>
           failures'[j] >= Cardinality(C2) + (dead'[j] + Cardinality(D2)) + MaxRetries
      => LettersSound(j)'
  BY DEF LettersSound
<1> HIDE DEF p, C, D, C2, D2
<1>7. /\ IsFiniteSet(C2) /\ Cardinality(C) \in Nat /\ Cardinality(C2) \in Nat
      /\ Cardinality(C2) = (Cardinality(C) - (IF p \in C THEN 1 ELSE 0))
                             + (IF p \in C2 THEN 1 ELSE 0)
  BY <1>2, <1>4, OneChanges
<1>8. /\ IsFiniteSet(D2) /\ Cardinality(D) \in Nat /\ Cardinality(D2) \in Nat
      /\ Cardinality(D2) = (Cardinality(D) - (IF p \in D THEN 1 ELSE 0))
                             + (IF p \in D2 THEN 1 ELSE 0)
  BY <1>2, <1>4, OneChanges
<1>9. /\ (IF p \in C THEN 1 ELSE 0) = Weight(slot[w][i], j, "count")
      /\ (IF p \in C2 THEN 1 ELSE 0) = Weight(t, j, "count")
      /\ (IF p \in D THEN 1 ELSE 0) = Weight(slot[w][i], j, "dead")
      /\ (IF p \in D2 THEN 1 ELSE 0) = Weight(t, j, "dead")
  BY <1>4 DEF Weight
<1>10. /\ Cardinality(C2) = (Cardinality(C) - Weight(slot[w][i], j, "count")) + Weight(t, j, "count")
       /\ Cardinality(D2) = (Cardinality(D) - Weight(slot[w][i], j, "dead")) + Weight(t, j, "dead")
  BY <1>7, <1>8, <1>9
<1> QED BY <1>5, <1>6, <1>7, <1>8, <1>10

\* A step that has nothing to do with counting or burying leaves the letters.
LEMMA LettersKept ==
  ASSUME IInv, TypeOK', NEW w \in Workers, NEW i \in Slots, NEW t,
         slot' = [slot EXCEPT ![w][i] = t],
         t.pc \notin {"count", "dead"}, slot[w][i].pc # "dead",
         NEW j \in Jobs, dead'[j] = dead[j], failures'[j] >= failures[j],
         retries'[j] <= retries[j]
  PROVE  LettersSound(j)'
<1>1. /\ failures[j] \in Nat /\ retries[j] \in Nat /\ dead[j] \in Nat
      /\ failures'[j] \in Nat /\ retries'[j] \in Nat /\ MaxRetries \in Nat
  BY DeliveryAssumption DEF IInv, TypeOK, Entries
<1>2. PICK c, d, c2, d2 \in Nat :
        /\ c2 = (c - Weight(slot[w][i], j, "count")) + Weight(t, j, "count")
        /\ d2 = (d - Weight(slot[w][i], j, "dead")) + Weight(t, j, "dead")
        /\ failures[j] >= c + retries[j]
        /\ dead[j] + d > 0 => failures[j] >= c + (dead[j] + d) + MaxRetries
        /\ ( /\ failures'[j] >= c2 + retries'[j]
             /\ dead'[j] + d2 > 0 => failures'[j] >= c2 + (dead'[j] + d2) + MaxRetries )
           => LettersSound(j)'
  BY LettersMove
<1>3. c2 <= c /\ d2 = d
  BY <1>2 DEF Weight
<1> QED BY <1>1, <1>2, <1>3

\* A task that goes on keeps its entry.
LEMMA GoesOn ==
  ASSUME TypeOK, NEW w \in Workers, NEW i \in Slots, NEW phase \in Phases,
         slot[w][i].pc \in Phases, Goes(w, i, phase)
  PROVE  /\ slot[w][i].entry \in Entries
         /\ slot' \in [Workers -> [Slots -> Task]]
         /\ \E t \in Task : /\ t.pc = phase /\ t.entry = slot[w][i].entry
                            /\ slot' = [slot EXCEPT ![w][i] = t]
<1>1. slot \in [Workers -> [Slots -> Task]] /\ slot[w][i] \in Task
  BY DEF TypeOK
<1>2. slot[w][i] \in [pc : Phases, entry : Entries]
  BY <1>1 DEF Task, Phases
<1> DEFINE t == [slot[w][i] EXCEPT !.pc = phase]
<1>3. t \in [pc : Phases, entry : Entries] /\ t.pc = phase /\ t.entry = slot[w][i].entry
  BY <1>2
<1>4. slot' = [slot EXCEPT ![w][i] = t]
  BY DEF Goes
<1>5. t \in Task
  BY <1>3 DEF Task
<1> HIDE DEF t, Task
<1>6. slot' \in [Workers -> [Slots -> Task]]
  BY <1>1, <1>4, <1>5
<1> QED BY <1>2, <1>3, <1>4, <1>5, <1>6

LEMMA SpawnInv ==
  ASSUME IInv, NEW w \in Workers, NEW i \in Slots, Spawn(w, i)
  PROVE  IInv'
<1> DEFINE t == [pc |-> "claim", entry |-> Head(batch[w])]
<1>1. /\ TypeOK /\ batch[w] \in Seq(Entries) /\ batch[w] # <<>> /\ slot[w][i].pc = "free"
      /\ UNCHANGED <<kind, row, starts, failures, group, stream, retries, dead, mode, asleep,
                     lost, faults, losses>>
      /\ slot' = [slot EXCEPT ![w][i] = t] /\ batch' = [batch EXCEPT ![w] = Tail(batch[w])]
  BY DEF IInv, TypeOK, Spawn, Holds, table, redis
<1>2. /\ Head(batch[w]) \in Entries /\ Tail(batch[w]) \in Seq(Entries)
      /\ Members(batch[w]) = {Head(batch[w])} \cup Members(Tail(batch[w]))
  BY <1>1, MembersOfTail
<1>3. t \in Task /\ t.pc = "claim" /\ t.entry = Head(batch[w])
  BY <1>2 DEF Task, Phases
<1> HIDE DEF t
<1>4. /\ batch' \in [Workers -> Seq(Entries)] /\ batch'[w] = Tail(batch[w])
      /\ \A v \in Workers \ {w} : batch'[v] = batch[v]
  BY <1>1, <1>2 DEF TypeOK
<1>5. TypeOK'
  <2>1. slot' \in [Workers -> [Slots -> Task]] /\ slot'[w][i] = t
    <3> HIDE DEF Task
    <3> QED BY <1>1, <1>3 DEF TypeOK
  <2> QED BY <1>1, <1>4, <2>1 DEF TypeOK
<1>6. slot'[w][i] = t
  BY <1>1 DEF TypeOK
<1>7. TaskSound(w, i)' /\ StartsSound'
  BY <1>1, <1>3, <1>6 DEF IInv, TaskSound, Phases, StartsSound
<1>8. ASSUME NEW j \in Jobs PROVE LettersSound(j)'
  <2>1. dead'[j] = dead[j] /\ failures'[j] >= failures[j] /\ retries'[j] <= retries[j]
    BY <1>1 DEF TypeOK
  <2>2. t.pc \notin {"count", "dead"} /\ slot[w][i].pc # "dead"
    BY <1>1, <1>3
  <2> QED BY <1>1, <1>5, <2>1, <2>2, LettersKept
<1>9. \A j \in Jobs : dead'[j] >= dead[j] /\ failures'[j] >= failures[j] /\ row'[j] = row[j]
  BY <1>1 DEF TypeOK, Entries
<1>10. \A j \in Jobs : Rung(j) => Rung(j)' \/ (t.entry = j /\ t.pc \in OnTheWay)
  BY <1>1, <1>2, <1>3, <1>4 DEF Rung, OnTheWay
<1>11. slot[w][i].pc \notin OnTheWay
  BY <1>1 DEF OnTheWay
<1> QED BY <1>1, <1>3, <1>5, <1>7, <1>8, <1>9, <1>10, <1>11, TaskStep

\* The outcomes of a claim.
LEMMA ClaimInv ==
  ASSUME IInv, NEW w \in Workers, NEW i \in Slots,
         RejectPoison(w, i) \/ Lock(w, i) \/ Skip(w, i)
  PROVE  IInv'
<1>1. /\ TypeOK /\ slot[w][i].pc = "claim" /\ slot[w][i].pc \in Phases
      /\ UNCHANGED <<kind, row, starts, failures, group, stream, retries, mode, batch, asleep,
                     lost, faults, losses>>
  BY DEF IInv, RejectPoison, Lock, Skip, Holds, table, redis, Phases
<1>2. PICK phase \in {"locked", "clear", "ack"} :
        /\ Goes(w, i, phase)
        /\ phase # "ack" => slot[w][i].entry \in Jobs
        /\ phase = "locked" => row[slot[w][i].entry] = "pending" /\ ~Locked(slot[w][i].entry)
        /\ phase # "locked" /\ slot[w][i].entry \in Jobs =>
             row[slot[w][i].entry] # "pending" \/ Locked(slot[w][i].entry)
  <2>1. Poison \notin Jobs
    BY DeliveryAssumption
  <2> QED BY <1>1, <2>1 DEF RejectPoison, Lock, Skip, Returned
<1>3. dead' \in [Entries -> Nat] /\ \A j \in Jobs : dead'[j] = dead[j]
  <2>1. dead \in [Entries -> Nat] /\ Poison \notin Jobs
    BY <1>1, DeliveryAssumption DEF TypeOK
  <2> QED BY <2>1 DEF RejectPoison, Lock, Skip, redis, Entries
<1>4. phase \in Phases
  BY DEF Phases
<1>5. slot' \in [Workers -> [Slots -> Task]]
  BY <1>1, <1>2, <1>4, GoesOn
<1>6. PICK t \in Task : /\ t.pc = phase /\ t.entry = slot[w][i].entry
                        /\ slot' = [slot EXCEPT ![w][i] = t]
  BY <1>1, <1>2, <1>4, GoesOn
<1>7. TypeOK'
  BY <1>1, <1>3, <1>5 DEF TypeOK
<1>8. slot'[w][i] = t
  BY <1>1, <1>6 DEF TypeOK
<1>9. TaskSound(w, i)' /\ StartsSound'
  BY <1>1, <1>2, <1>6, <1>8 DEF IInv, TaskSound, Phases, StartsSound
<1>10. ASSUME NEW j \in Jobs PROVE LettersSound(j)'
  <2>1. dead'[j] = dead[j] /\ failures'[j] >= failures[j] /\ retries'[j] <= retries[j]
    BY <1>1, <1>3 DEF TypeOK
  <2>2. t.pc \notin {"count", "dead"} /\ slot[w][i].pc # "dead"
    BY <1>1, <1>6
  <2> QED BY <1>6, <1>7, <2>1, <2>2, LettersKept
<1>11. \A j \in Jobs : dead'[j] >= dead[j] /\ failures'[j] >= failures[j] /\ row'[j] = row[j]
  BY <1>1, <1>3 DEF TypeOK, Entries
<1>12. \A j \in Jobs : Rung(j) => Rung(j)'
  BY <1>1 DEF Rung
<1>13. ASSUME NEW j \in Jobs, Locked(j)
       PROVE  \E p \in Permits \ {<<w, i>>} : Claims(p, j)
  <2>1. PICK v \in Workers, k \in Slots : slot[v][k] = [pc |-> "locked", entry |-> j]
    BY <1>13 DEF Locked
  <2>2. slot[v][k].pc = "locked" /\ slot[v][k].entry = j
    BY <2>1
  <2>3. <<v, k>> \in Permits \ {<<w, i>>} /\ Claims(<<v, k>>, j)
    BY <1>1, <2>2 DEF Permits, Claims
  <2> QED BY <2>3
<1>14. ASSUME t.pc = "locked", NEW p \in Permits \ {<<w, i>>}, Claims(p, t.entry)
       PROVE  FALSE
  <2>1. p[1] \in Workers /\ p[2] \in Slots /\ TaskSound(p[1], p[2])
    BY DEF Permits, IInv, TasksSound
  <2>2. slot[p[1]][p[2]].pc \in {"locked", "run"} /\ slot[p[1]][p[2]].entry = t.entry
    BY <1>14 DEF Claims
  <2>3. t.entry \in Jobs /\ row[t.entry] = "pending" /\ ~Locked(t.entry)
    BY <1>2, <1>6, <1>14
  <2>4. slot[p[1]][p[2]].pc = "locked"
    BY <2>1, <2>2, <2>3 DEF TaskSound
  <2>5. slot[p[1]][p[2]] \in Task
    BY <1>1, <2>1 DEF TypeOK
  <2>6. slot[p[1]][p[2]] = [pc |-> "locked", entry |-> t.entry]
    BY <2>2, <2>4, <2>5 DEF Task, Phases
  <2> QED BY <2>1, <2>3, <2>6 DEF Locked
<1>15. t.pc \in {"locked", "run"} => \A p \in Permits \ {<<w, i>>} : ~Claims(p, t.entry)
  BY <1>6, <1>14
<1>16. \A j \in Jobs : slot[w][i].entry = j /\ row'[j] = "pending" =>
         \/ t.entry = j /\ t.pc \in OnTheWay
         \/ \E p \in Permits \ {<<w, i>>} : Claims(p, j)
  BY <1>1, <1>2, <1>6, <1>13 DEF OnTheWay
<1> QED BY <1>1, <1>6, <1>7, <1>9, <1>10, <1>11, <1>12, <1>15, <1>16, TaskStep

\* A claimed row begins, and what follows a run.
LEMMA RunInv ==
  ASSUME IInv, NEW w \in Workers, NEW i \in Slots,
         Begin(w, i) \/ Settle(w, i) \/ Raise(w, i)
  PROVE  IInv'
<1> DEFINE j == slot[w][i].entry
<1>1. /\ TypeOK /\ slot[w][i].pc \in {"locked", "run"} /\ slot[w][i].pc \in Phases
      /\ UNCHANGED <<kind, group, stream, retries, dead, mode, batch, asleep, lost, faults, losses>>
  BY DEF IInv, Begin, Settle, Raise, Holds, redis, Phases
<1>2. /\ j \in Jobs /\ row[j] \in {"pending", "running"}
      /\ slot[w][i].pc = "locked" => row[j] = "pending"
  BY <1>1 DEF IInv, TasksSound, TaskSound, Phases
<1>3. PICK phase \in {"run", "clear", "ack", "count"} :
        /\ Goes(w, i, phase)
        /\ phase = "run" => /\ slot[w][i].pc = "locked" /\ UNCHANGED failures
                            /\ row' = [row EXCEPT ![j] = "running"]
                            /\ starts' = [starts EXCEPT ![j] = @ + 1]
        /\ phase # "run" => /\ UNCHANGED starts
                            /\ row' = [row EXCEPT ![j] = "settled"] \/ UNCHANGED row
        /\ \/ UNCHANGED failures /\ phase # "count" /\ row' # row
           \/ /\ phase \in {"count", "ack"} /\ failures' = [failures EXCEPT ![j] = @ + 1]
              /\ phase = "ack" => kind # "preprocessing"
  <2>1. row[j] # "running" => row # [row EXCEPT ![j] = "running"]
    BY <1>1, <1>2 DEF TypeOK
  <2>2. row # [row EXCEPT ![j] = "settled"]
    BY <1>1, <1>2 DEF TypeOK
  <2>3. CASE Begin(w, i)
    BY <1>1, <1>2, <2>1, <2>3 DEF Begin, Holds
  <2>4. CASE Settle(w, i)
    BY <1>1, <2>2, <2>4 DEF Settle, Returned
  <2>5. CASE Raise(w, i)
    BY <1>1, <2>5 DEF Raise, Raised
  <2> QED BY <2>3, <2>4, <2>5
<1>4. phase \in Phases
  BY DEF Phases
<1>5. slot' \in [Workers -> [Slots -> Task]]
  BY <1>1, <1>3, <1>4, GoesOn
<1>6. PICK t \in Task : /\ t.pc = phase /\ t.entry = j
                        /\ slot' = [slot EXCEPT ![w][i] = t]
  BY <1>1, <1>3, <1>4, GoesOn
<1> HIDE DEF j
<1>7. /\ row' \in [Jobs -> {"none", "pending", "running", "settled"}]
      /\ \A k \in Jobs \ {j} : row'[k] = row[k]
      /\ row' = row \/ row'[j] \in {"running", "settled"}
      /\ phase = "run" => row'[j] = "running"
  BY <1>1, <1>2, <1>3 DEF TypeOK
<1>8. /\ starts' \in [Jobs -> Nat] /\ \A k \in Jobs \ {j} : starts'[k] = starts[k]
      /\ starts'[j] = IF phase = "run" THEN starts[j] + 1 ELSE starts[j]
  <2>1. starts \in [Jobs -> Nat]
    BY <1>1 DEF TypeOK
  <2>2. CASE phase = "run"
    <3>1. starts' = [starts EXCEPT ![j] = @ + 1]
      BY <1>3, <2>2
    <3> QED BY <1>2, <2>1, <2>2, <3>1
  <2>3. CASE phase # "run"
    BY <1>2, <1>3, <2>1, <2>3
  <2> QED BY <2>2, <2>3
<1>9. /\ failures' \in [Jobs -> Nat] /\ \A k \in Jobs : failures'[k] >= failures[k]
      /\ phase = "count" => failures'[j] = failures[j] + 1
      /\ row' = row => failures'[j] = failures[j] + 1
      /\ row' = row => phase \in {"count", "ack"} /\ (phase = "ack" => kind # "preprocessing")
  <2>1. failures \in [Jobs -> Nat]
    BY <1>1 DEF TypeOK
  <2>2. CASE UNCHANGED failures /\ phase # "count" /\ row' # row
    BY <2>1, <2>2
  <2>3. CASE /\ phase \in {"count", "ack"} /\ failures' = [failures EXCEPT ![j] = @ + 1]
             /\ phase = "ack" => kind # "preprocessing"
    BY <1>2, <2>1, <2>3
  <2> QED BY <1>3, <2>2, <2>3
<1>10. TypeOK'
  BY <1>1, <1>5, <1>7, <1>8, <1>9 DEF TypeOK
<1>11. slot'[w][i] = t
  BY <1>1, <1>6 DEF TypeOK
<1>12. TaskSound(w, i)'
  BY <1>2, <1>6, <1>7, <1>11 DEF TaskSound
<1>13. StartsSound'
  <2> SUFFICES ASSUME NEW k \in Jobs
               PROVE  /\ starts'[k] <= 1
                      /\ row'[k] \in {"none", "pending"} => starts'[k] = 0
    BY DEF StartsSound
  <2>1. /\ starts[k] \in Nat /\ starts[k] <= 1
        /\ row[k] \in {"none", "pending"} => starts[k] = 0
    BY <1>1 DEF IInv, StartsSound, TypeOK
  <2>2. CASE k # j
    BY <1>7, <1>8, <2>1, <2>2
  <2>3. CASE k = j /\ phase = "run"
    <3>1. row[j] = "pending"
      BY <1>2, <1>3, <2>3
    <3> QED BY <1>7, <1>8, <2>1, <2>3, <3>1
  <2>4. CASE k = j /\ phase # "run"
    BY <1>7, <1>8, <2>1, <2>4
  <2> QED BY <2>2, <2>3, <2>4
<1>14. ASSUME NEW k \in Jobs PROVE LettersSound(k)'
  <2>1. dead'[k] = dead[k] /\ failures'[k] >= failures[k] /\ retries'[k] = retries[k]
        /\ failures[k] \in Nat /\ retries[k] \in Nat /\ dead[k] \in Nat /\ failures'[k] \in Nat
        /\ MaxRetries \in Nat
    BY <1>1, <1>9, DeliveryAssumption DEF TypeOK, Entries
  <2>2. CASE phase # "count"
    <3>1. t.pc \notin {"count", "dead"} /\ slot[w][i].pc # "dead" /\ retries'[k] <= retries[k]
      BY <1>1, <1>6, <2>1, <2>2
    <3> QED BY <1>6, <1>10, <2>1, <3>1, LettersKept
  <2>3. CASE phase = "count"
    <3>1. PICK c, d, c2, d2 \in Nat :
            /\ c2 = (c - Weight(slot[w][i], k, "count")) + Weight(t, k, "count")
            /\ d2 = (d - Weight(slot[w][i], k, "dead")) + Weight(t, k, "dead")
            /\ failures[k] >= c + retries[k]
            /\ dead[k] + d > 0 => failures[k] >= c + (dead[k] + d) + MaxRetries
            /\ ( /\ failures'[k] >= c2 + retries'[k]
                 /\ dead'[k] + d2 > 0 => failures'[k] >= c2 + (dead'[k] + d2) + MaxRetries )
               => LettersSound(k)'
      <4>1. slot' = [slot EXCEPT ![w][i] = t]
        BY <1>6
      <4> QED BY <1>10, <4>1, LettersMove
    <3>2. d2 = d /\ (k # j => c2 = c) /\ (k = j => c2 = c + 1 /\ failures'[k] = failures[k] + 1)
      BY <1>1, <1>6, <1>9, <2>3, <3>1 DEF Weight
    <3> QED BY <2>1, <3>1, <3>2
  <2> QED BY <2>2, <2>3
<1>15. /\ \A k \in Jobs : dead'[k] >= dead[k] /\ failures'[k] >= failures[k]
       /\ \A k \in Jobs : Rung(k) => Rung(k)'
       /\ lost \subseteq lost'
  BY <1>1, <1>9 DEF TypeOK, Entries, Rung
<1>16. \A k \in Jobs : row'[k] = row[k] \/ (Claims(<<w, i>>, k) /\ row'[k] # "pending")
  <2>1. Claims(<<w, i>>, j)
    BY <1>1 DEF Claims, j
  <2> QED BY <1>7, <2>1
<1>17. \A p \in Permits \ {<<w, i>>} : ~Claims(p, t.entry)
  <2>1. Claims(<<w, i>>, j) /\ <<w, i>> \in Permits
    BY <1>1 DEF Claims, j, Permits
  <2> QED BY <1>2, <1>6, <2>1 DEF IInv, ClaimsExclude
<1>18. \A k \in Jobs : slot[w][i].entry = k /\ row'[k] = "pending" =>
         \/ t.entry = k /\ t.pc \in OnTheWay
         \/ kind # "preprocessing" /\ failures'[k] > 0
  <2> SUFFICES ASSUME row'[j] = "pending"
               PROVE  \/ t.pc \in OnTheWay
                      \/ kind # "preprocessing" /\ failures'[j] > 0
    BY <1>6 DEF j
  <2>1. row' = row /\ failures[j] \in Nat
    BY <1>1, <1>2, <1>7 DEF TypeOK
  <2> QED BY <1>6, <1>9, <2>1 DEF OnTheWay
<1> QED BY <1>1, <1>6, <1>10, <1>12, <1>13, <1>14, <1>15, <1>16, <1>17, <1>18, TaskStep

\* A failure is counted: for a retry, for the dead-letter stream, or by nobody.
LEMMA CountInv ==
  ASSUME IInv, NEW w \in Workers, NEW i \in Slots, CountFailure(w, i) \/ CountIsLost(w, i)
  PROVE  IInv'
<1> DEFINE j == slot[w][i].entry
<1>1. /\ TypeOK /\ slot[w][i].pc = "count" /\ slot[w][i].pc \in Phases
      /\ UNCHANGED <<kind, row, starts, failures, group, stream, dead, mode, batch, asleep, losses>>
  BY DEF IInv, CountFailure, CountIsLost, Holds, table, redis, Phases
<1>2. j \in Jobs
  BY <1>1 DEF IInv, TasksSound, TaskSound, Phases
<1>3. PICK phase \in {"ackRetry", "dead", "ack"} :
        /\ Goes(w, i, phase)
        /\ phase = "ack" => /\ retries' \in {retries, [retries EXCEPT ![j] = @ + 1]}
                            /\ lost' = lost \cup {j}
        /\ phase # "ack" => retries' = [retries EXCEPT ![j] = @ + 1] /\ lost' = lost
        /\ phase = "dead" => ~(retries[j] + 1 <= MaxRetries)
        /\ faults' \in Nat
  BY <1>1 DEF CountFailure, CountIsLost, Fault, redis, TypeOK
<1>4. phase \in Phases
  BY DEF Phases
<1>5. slot' \in [Workers -> [Slots -> Task]]
  BY <1>1, <1>3, <1>4, GoesOn
<1>6. PICK t \in Task : /\ t.pc = phase /\ t.entry = j
                        /\ slot' = [slot EXCEPT ![w][i] = t]
  BY <1>1, <1>3, <1>4, GoesOn
<1> HIDE DEF j
<1>7. /\ retries' \in [Jobs -> Nat] /\ \A k \in Jobs \ {j} : retries'[k] = retries[k]
      /\ phase = "ack" => retries'[j] \in {retries[j], retries[j] + 1}
      /\ phase # "ack" => retries'[j] = retries[j] + 1
      /\ lost \subseteq lost' /\ lost' \subseteq Jobs
      /\ phase = "ack" => j \in lost'
  <2>1. retries \in [Jobs -> Nat] /\ lost \subseteq Jobs
    BY <1>1 DEF TypeOK
  <2>2. CASE phase = "ack"
    BY <1>2, <1>3, <2>1, <2>2
  <2>3. CASE phase # "ack"
    BY <1>2, <1>3, <2>1, <2>3
  <2> QED BY <2>2, <2>3
<1>8. TypeOK'
  BY <1>1, <1>3, <1>5, <1>7 DEF TypeOK
<1>9. slot'[w][i] = t
  BY <1>1, <1>6 DEF TypeOK
<1>10. TaskSound(w, i)' /\ StartsSound'
  BY <1>1, <1>2, <1>6, <1>9 DEF IInv, TaskSound, Phases, StartsSound
<1>11. ASSUME NEW k \in Jobs PROVE LettersSound(k)'
  <2>1. /\ dead'[k] = dead[k] /\ failures'[k] = failures[k]
        /\ failures[k] \in Nat /\ retries[k] \in Nat /\ dead[k] \in Nat /\ retries'[k] \in Nat
        /\ MaxRetries \in Nat
    BY <1>1, <1>7, DeliveryAssumption DEF TypeOK, Entries
  <2>2. slot' = [slot EXCEPT ![w][i] = t]
    BY <1>6
  <2>3. PICK c, d, c2, d2 \in Nat :
            /\ c2 = (c - Weight(slot[w][i], k, "count")) + Weight(t, k, "count")
            /\ d2 = (d - Weight(slot[w][i], k, "dead")) + Weight(t, k, "dead")
            /\ failures[k] >= c + retries[k]
            /\ dead[k] + d > 0 => failures[k] >= c + (dead[k] + d) + MaxRetries
            /\ ( /\ failures'[k] >= c2 + retries'[k]
                 /\ dead'[k] + d2 > 0 => failures'[k] >= c2 + (dead'[k] + d2) + MaxRetries )
               => LettersSound(k)'
    BY <1>8, <2>2, LettersMove
  <2>4. CASE k # j
    <3>1. c2 = c /\ d2 = d
      BY <1>6, <2>3, <2>4 DEF Weight, j
    <3> QED BY <1>7, <2>1, <2>3, <2>4, <3>1
  <2>5. CASE k = j /\ phase = "ack"
    <3>1. c2 = c - 1 /\ d2 = d
      BY <1>1, <1>6, <2>3, <2>5 DEF Weight, j
    <3> QED BY <1>7, <2>1, <2>3, <2>5, <3>1
  <2>6. CASE k = j /\ phase = "ackRetry"
    <3>1. c2 = c - 1 /\ d2 = d
      BY <1>1, <1>6, <2>3, <2>6 DEF Weight, j
    <3> QED BY <1>7, <2>1, <2>3, <2>6, <3>1
  <2>7. CASE k = j /\ phase = "dead"
    <3>1. c2 = c - 1 /\ d2 = d + 1
      BY <1>1, <1>6, <2>3, <2>7 DEF Weight, j
    <3> QED BY <1>3, <1>7, <2>1, <2>3, <2>7, <3>1
  <2> QED BY <2>4, <2>5, <2>6, <2>7
<1>12. /\ \A k \in Jobs : dead'[k] >= dead[k] /\ failures'[k] >= failures[k]
       /\ \A k \in Jobs : row'[k] = row[k] /\ (Rung(k) => Rung(k)')
  BY <1>1 DEF TypeOK, Entries, Rung
<1>13. t.pc \notin {"locked", "run"}
  BY <1>6
<1>14. \A k \in Jobs : slot[w][i].entry = k => (t.entry = k /\ t.pc \in OnTheWay) \/ k \in lost'
  BY <1>6, <1>7 DEF OnTheWay, j
<1> QED BY <1>1, <1>6, <1>7, <1>8, <1>10, <1>11, <1>12, <1>13, <1>14, TaskStep

\* The dead letter is written, and then the retry key is deleted.
LEMMA LetterInv ==
  ASSUME IInv, NEW w \in Workers, NEW i \in Slots, Bury(w, i) \/ Clear(w, i)
  PROVE  IInv'
<1> DEFINE j == slot[w][i].entry
<1>1. /\ TypeOK /\ slot[w][i].pc \in {"dead", "clear", "forget"} /\ slot[w][i].pc \in Phases
      /\ UNCHANGED <<kind, row, starts, failures, group, stream, mode, batch, asleep, lost, faults,
                     losses>>
  BY DEF IInv, Bury, Clear, Holds, table, Phases
<1>2. j \in Jobs
  BY <1>1 DEF IInv, TasksSound, TaskSound, Phases
<1>3. PICK phase \in {"forget", "ack"} :
        /\ Goes(w, i, phase)
        /\ phase = "forget" => /\ slot[w][i].pc = "dead" /\ UNCHANGED retries
                               /\ dead' = [dead EXCEPT ![j] = @ + 1]
        /\ phase = "ack" => /\ slot[w][i].pc \in {"clear", "forget"} /\ UNCHANGED dead
                            /\ retries' = [retries EXCEPT ![j] = 0]
  BY DEF Bury, Clear, Holds
<1>4. phase \in Phases
  BY DEF Phases
<1>5. slot' \in [Workers -> [Slots -> Task]]
  BY <1>1, <1>3, <1>4, GoesOn
<1>6. PICK t \in Task : /\ t.pc = phase /\ t.entry = j
                        /\ slot' = [slot EXCEPT ![w][i] = t]
  BY <1>1, <1>3, <1>4, GoesOn
<1> HIDE DEF j
<1>7. /\ retries' \in [Jobs -> Nat] /\ \A k \in Jobs : retries'[k] <= retries[k]
      /\ dead' \in [Entries -> Nat] /\ \A k \in Jobs \ {j} : dead'[k] = dead[k]
      /\ dead'[j] = IF phase = "forget" THEN dead[j] + 1 ELSE dead[j]
  <2>1. retries \in [Jobs -> Nat] /\ dead \in [Entries -> Nat] /\ j \in Entries
    BY <1>1, <1>2 DEF TypeOK, Entries
  <2>2. CASE phase = "forget"
    <3>1. UNCHANGED retries /\ dead' = [dead EXCEPT ![j] = @ + 1]
      BY <1>3, <2>2
    <3> QED BY <2>1, <2>2, <3>1 DEF Entries
  <2>3. CASE phase = "ack"
    BY <1>2, <1>3, <2>1, <2>3 DEF Entries
  <2> QED BY <2>2, <2>3
<1>8. TypeOK'
  BY <1>1, <1>5, <1>7 DEF TypeOK
<1>9. slot'[w][i] = t
  BY <1>1, <1>6 DEF TypeOK
<1>10. TaskSound(w, i)' /\ StartsSound'
  BY <1>1, <1>2, <1>6, <1>9 DEF IInv, TaskSound, Phases, StartsSound
<1>11. ASSUME NEW k \in Jobs PROVE LettersSound(k)'
  <2>1. /\ failures'[k] = failures[k]
        /\ failures[k] \in Nat /\ retries[k] \in Nat /\ dead[k] \in Nat /\ retries'[k] \in Nat
        /\ dead'[k] \in Nat /\ MaxRetries \in Nat
    BY <1>1, <1>7, DeliveryAssumption DEF TypeOK, Entries
  <2>2. slot' = [slot EXCEPT ![w][i] = t]
    BY <1>6
  <2>3. PICK c, d, c2, d2 \in Nat :
            /\ c2 = (c - Weight(slot[w][i], k, "count")) + Weight(t, k, "count")
            /\ d2 = (d - Weight(slot[w][i], k, "dead")) + Weight(t, k, "dead")
            /\ failures[k] >= c + retries[k]
            /\ dead[k] + d > 0 => failures[k] >= c + (dead[k] + d) + MaxRetries
            /\ ( /\ failures'[k] >= c2 + retries'[k]
                 /\ dead'[k] + d2 > 0 => failures'[k] >= c2 + (dead'[k] + d2) + MaxRetries )
               => LettersSound(k)'
    BY <1>8, <2>2, LettersMove
  <2>4. c2 = c
    BY <1>1, <1>6, <2>3 DEF Weight
  <2>5. dead'[k] + d2 = dead[k] + d
    <3>1. CASE k # j
      BY <1>6, <1>7, <2>3, <3>1 DEF Weight, j
    <3>2. CASE k = j /\ phase = "forget"
      BY <1>3, <1>6, <1>7, <2>1, <2>3, <3>2 DEF Weight, j
    <3>3. CASE k = j /\ phase = "ack"
      BY <1>3, <1>6, <1>7, <2>3, <3>3 DEF Weight, j
    <3> QED BY <3>1, <3>2, <3>3
  <2>6. retries'[k] <= retries[k]
    BY <1>7
  <2> QED BY <2>1, <2>3, <2>4, <2>5, <2>6
<1>12. /\ \A k \in Jobs : dead'[k] >= dead[k] /\ failures'[k] >= failures[k]
       /\ \A k \in Jobs : row'[k] = row[k] /\ (Rung(k) => Rung(k)')
  <2>1. \A k \in Jobs : dead[k] \in Nat /\ failures[k] \in Nat
    BY <1>1 DEF TypeOK, Entries
  <2> QED BY <1>1, <1>7, <2>1 DEF Rung
<1>13. t.pc \notin {"locked", "run"}
  BY <1>6
<1>14. slot[w][i].pc \in OnTheWay => \A k \in Jobs : slot[w][i].entry = k => dead'[k] > 0
  <2>1. dead[j] \in Nat
    BY <1>1, <1>2 DEF TypeOK, Entries
  <2> QED BY <1>1, <1>3, <1>7, <2>1 DEF OnTheWay, j
<1> QED BY <1>1, <1>6, <1>8, <1>10, <1>11, <1>12, <1>13, <1>14, TaskStep

\* A letter that Redis does not take is given up with its job, and a key that it does
\* not delete stays.
LEMMA LetterRaisesInv ==
  ASSUME IInv, NEW w \in Workers, NEW i \in Slots, BuryRaises(w, i) \/ ForgetRaises(w, i)
  PROVE  IInv'
<1>1. /\ TypeOK /\ slot[w][i].pc \in {"dead", "claim", "forget"} /\ slot[w][i].pc \in Phases
      /\ UNCHANGED <<kind, row, starts, failures, group, stream, retries, dead, mode, batch, asleep,
                     losses>>
      /\ Goes(w, i, "ack") /\ faults' \in Nat
  BY DEF IInv, TypeOK, BuryRaises, ForgetRaises, Holds, Fault, table, redis, Phases
<1>2. /\ lost \subseteq lost' /\ lost' \subseteq Jobs
      /\ slot[w][i].pc # "forget" => \A k \in Jobs : slot[w][i].entry = k => k \in lost'
  BY <1>1 DEF BuryRaises, ForgetRaises, Holds, TypeOK
<1>3. "ack" \in Phases
  BY DEF Phases
<1>4. slot' \in [Workers -> [Slots -> Task]]
  BY <1>1, <1>3, GoesOn
<1>5. PICK t \in Task : /\ t.pc = "ack" /\ t.entry = slot[w][i].entry
                        /\ slot' = [slot EXCEPT ![w][i] = t]
  BY <1>1, <1>3, GoesOn
<1>6. TypeOK'
  BY <1>1, <1>2, <1>4 DEF TypeOK
<1>7. slot'[w][i] = t
  BY <1>1, <1>5 DEF TypeOK
<1>8. TaskSound(w, i)' /\ StartsSound'
  BY <1>1, <1>5, <1>7 DEF IInv, TaskSound, Phases, StartsSound
<1>9. ASSUME NEW k \in Jobs PROVE LettersSound(k)'
  <2>1. /\ dead'[k] = dead[k] /\ failures'[k] = failures[k] /\ retries'[k] = retries[k]
        /\ failures[k] \in Nat /\ retries[k] \in Nat /\ dead[k] \in Nat /\ MaxRetries \in Nat
    BY <1>1, DeliveryAssumption DEF TypeOK, Entries
  <2>2. slot' = [slot EXCEPT ![w][i] = t]
    BY <1>5
  <2>3. PICK c, d, c2, d2 \in Nat :
            /\ c2 = (c - Weight(slot[w][i], k, "count")) + Weight(t, k, "count")
            /\ d2 = (d - Weight(slot[w][i], k, "dead")) + Weight(t, k, "dead")
            /\ failures[k] >= c + retries[k]
            /\ dead[k] + d > 0 => failures[k] >= c + (dead[k] + d) + MaxRetries
            /\ ( /\ failures'[k] >= c2 + retries'[k]
                 /\ dead'[k] + d2 > 0 => failures'[k] >= c2 + (dead'[k] + d2) + MaxRetries )
               => LettersSound(k)'
    BY <1>6, <2>2, LettersMove
  <2>4. c2 = c /\ d2 <= d
    BY <1>1, <1>5, <2>3 DEF Weight
  <2> QED BY <2>1, <2>3, <2>4
<1>10. /\ \A k \in Jobs : dead'[k] >= dead[k] /\ failures'[k] >= failures[k]
       /\ \A k \in Jobs : row'[k] = row[k] /\ (Rung(k) => Rung(k)')
  BY <1>1 DEF TypeOK, Entries, Rung
<1>11. t.pc \notin {"locked", "run"}
  BY <1>5
<1>12. slot[w][i].pc \in OnTheWay => \A k \in Jobs : slot[w][i].entry = k => k \in lost'
  BY <1>1, <1>2 DEF OnTheWay
<1> QED BY <1>1, <1>2, <1>5, <1>6, <1>8, <1>9, <1>10, <1>11, <1>12, TaskStep

\* A deletion that fails after the run is caught and counted as a failure.
LEMMA ClearRaisesInv ==
  ASSUME IInv, NEW w \in Workers, NEW i \in Slots, ClearRaises(w, i)
  PROVE  IInv'
<1> DEFINE j == slot[w][i].entry
<1>1. /\ TypeOK /\ slot[w][i].pc = "clear" /\ slot[w][i].pc \in Phases
      /\ UNCHANGED <<kind, row, starts, group, stream, retries, dead, mode, batch, asleep,
                     lost, losses>>
      /\ Goes(w, i, "count") /\ faults' \in Nat
      /\ failures' = [failures EXCEPT ![j] = @ + 1]
  BY DEF IInv, TypeOK, ClearRaises, Holds, Fault, redis, Phases
<1>2. j \in Jobs
  BY <1>1 DEF IInv, TasksSound, TaskSound, Phases
<1>3. "count" \in Phases
  BY DEF Phases
<1>4. slot' \in [Workers -> [Slots -> Task]]
  BY <1>1, <1>3, GoesOn
<1>5. PICK t \in Task : /\ t.pc = "count" /\ t.entry = j
                        /\ slot' = [slot EXCEPT ![w][i] = t]
  BY <1>1, <1>3, GoesOn
<1> HIDE DEF j
<1>6. /\ failures' \in [Jobs -> Nat] /\ failures'[j] = failures[j] + 1
      /\ \A k \in Jobs \ {j} : failures'[k] = failures[k]
  BY <1>1, <1>2 DEF TypeOK
<1>7. TypeOK'
  BY <1>1, <1>4, <1>6 DEF TypeOK
<1>8. slot'[w][i] = t
  BY <1>1, <1>5 DEF TypeOK
<1>9. TaskSound(w, i)' /\ StartsSound'
  BY <1>1, <1>2, <1>5, <1>8 DEF IInv, TaskSound, Phases, StartsSound
<1>10. ASSUME NEW k \in Jobs PROVE LettersSound(k)'
  <2>1. /\ dead'[k] = dead[k] /\ retries'[k] = retries[k]
        /\ failures[k] \in Nat /\ retries[k] \in Nat /\ dead[k] \in Nat /\ MaxRetries \in Nat
    BY <1>1, DeliveryAssumption DEF TypeOK, Entries
  <2>2. slot' = [slot EXCEPT ![w][i] = t]
    BY <1>5
  <2>3. PICK c, d, c2, d2 \in Nat :
            /\ c2 = (c - Weight(slot[w][i], k, "count")) + Weight(t, k, "count")
            /\ d2 = (d - Weight(slot[w][i], k, "dead")) + Weight(t, k, "dead")
            /\ failures[k] >= c + retries[k]
            /\ dead[k] + d > 0 => failures[k] >= c + (dead[k] + d) + MaxRetries
            /\ ( /\ failures'[k] >= c2 + retries'[k]
                 /\ dead'[k] + d2 > 0 => failures'[k] >= c2 + (dead'[k] + d2) + MaxRetries )
               => LettersSound(k)'
    BY <1>7, <2>2, LettersMove
  <2>4. d2 = d /\ (k # j => c2 = c) /\ (k = j => c2 = c + 1)
    BY <1>1, <1>5, <2>3 DEF Weight, j
  <2> QED BY <1>6, <2>1, <2>3, <2>4
<1>11. /\ \A k \in Jobs : dead'[k] >= dead[k] /\ failures'[k] >= failures[k]
       /\ \A k \in Jobs : row'[k] = row[k] /\ (Rung(k) => Rung(k)')
  <2>1. \A k \in Jobs : dead[k] \in Nat /\ failures[k] \in Nat
    BY <1>1 DEF TypeOK, Entries
  <2> QED BY <1>1, <1>6, <2>1 DEF Rung
<1>12. t.pc \notin {"locked", "run"} /\ slot[w][i].pc \notin OnTheWay
  BY <1>1, <1>5 DEF OnTheWay
<1> QED BY <1>1, <1>5, <1>7, <1>9, <1>10, <1>11, <1>12, TaskStep

\* The finally clause: a retry goes to sleep, or is given up with its permit.
LEMMA AckInv ==
  ASSUME IInv, NEW w \in Workers, NEW i \in Slots, Ack(w, i) \/ AckRaises(w, i)
  PROVE  IInv'
<1> DEFINE j == slot[w][i].entry
<1>1. /\ TypeOK /\ slot[w][i].pc \in {"ack", "ackRetry"}
      /\ UNCHANGED <<kind, row, starts, failures, group, stream, retries, dead, mode, batch, losses>>
  BY DEF IInv, Ack, AckRaises, table, redis
<1>2. slot[w][i].pc = "ackRetry" => j \in Jobs
  BY <1>1 DEF IInv, TasksSound, TaskSound, Phases
<1>3. PICK state \in {"free", "leaked"} :
        /\ slot' = [slot EXCEPT ![w][i] = Permit(state)]
        /\ \/ UNCHANGED asleep /\ slot[w][i].pc = "ack"
           \/ UNCHANGED asleep /\ slot[w][i].pc = "ackRetry" /\ lost' = lost \cup {j}
           \/ slot[w][i].pc = "ackRetry" /\ asleep' = [asleep EXCEPT ![w][j] = @ + 1]
        /\ lost' = lost \/ (lost' = lost \cup {j} /\ slot[w][i].pc = "ackRetry")
        /\ faults' \in Nat
  BY <1>1 DEF Ack, AckRaises, Holds, Fault, TypeOK
<1>4. PICK t \in Task : /\ slot' = [slot EXCEPT ![w][i] = t]
                        /\ t.pc \in {"free", "leaked"} /\ t.entry = None
  <2>1. Permit(state) \in Task /\ Permit(state).pc = state /\ Permit(state).entry = None
    BY DEF Permit, Task
  <2> QED BY <1>3, <2>1
<1> HIDE DEF j
<1>5. /\ asleep' \in [Workers -> [Jobs -> Nat]] /\ lost \subseteq lost' /\ lost' \subseteq Jobs
      /\ \A v \in Workers, k \in Jobs : asleep'[v][k] >= asleep[v][k]
      /\ slot[w][i].pc = "ackRetry" => asleep'[w][j] > 0 \/ j \in lost'
  <2>1. asleep \in [Workers -> [Jobs -> Nat]] /\ lost \subseteq Jobs
    BY <1>1 DEF TypeOK
  <2>2. lost \subseteq lost' /\ lost' \subseteq Jobs
    BY <1>2, <1>3, <2>1
  <2>3. CASE UNCHANGED asleep /\ (slot[w][i].pc = "ack" \/ lost' = lost \cup {j})
    <3>1. \A v \in Workers, k \in Jobs : asleep'[v][k] \in Nat /\ asleep'[v][k] = asleep[v][k]
      BY <2>1, <2>3
    <3> QED BY <2>1, <2>2, <2>3, <3>1
  <2>4. CASE slot[w][i].pc = "ackRetry" /\ asleep' = [asleep EXCEPT ![w][j] = @ + 1]
    BY <1>2, <2>1, <2>2, <2>4
  <2> QED BY <1>3, <2>3, <2>4
<1>6. slot' \in [Workers -> [Slots -> Task]] /\ slot'[w][i] = t
  <2> HIDE DEF Task
  <2> QED BY <1>1, <1>4 DEF TypeOK
<1>7. TypeOK'
  BY <1>1, <1>3, <1>5, <1>6 DEF TypeOK
<1>8. TaskSound(w, i)' /\ StartsSound'
  BY <1>1, <1>4, <1>6 DEF IInv, TaskSound, Phases, StartsSound
<1>9. ASSUME NEW k \in Jobs PROVE LettersSound(k)'
  <2>1. dead'[k] = dead[k] /\ failures'[k] >= failures[k] /\ retries'[k] <= retries[k]
    BY <1>1 DEF TypeOK
  <2>2. t.pc \notin {"count", "dead"} /\ slot[w][i].pc # "dead"
    BY <1>1, <1>4
  <2> QED BY <1>4, <1>7, <2>1, <2>2, LettersKept
<1>10. /\ \A k \in Jobs : dead'[k] >= dead[k] /\ failures'[k] >= failures[k] /\ row'[k] = row[k]
  BY <1>1 DEF TypeOK, Entries
<1>11. \A k \in Jobs : Rung(k) => Rung(k)'
  <2>1. \A v \in Workers, k \in Jobs : asleep[v][k] \in Nat /\ asleep'[v][k] \in Nat
    BY <1>1, <1>5 DEF TypeOK
  <2> QED BY <1>1, <1>5, <2>1 DEF Rung
<1>12. t.pc \notin {"locked", "run"}
  BY <1>4
<1>13. slot[w][i].pc \in OnTheWay => \A k \in Jobs : slot[w][i].entry = k => Rung(k)' \/ k \in lost'
  BY <1>1, <1>5 DEF OnTheWay, Rung, j
<1> QED BY <1>1, <1>4, <1>5, <1>7, <1>8, <1>9, <1>10, <1>11, <1>12, <1>13, TaskStep

-----------------------------------------------------------------------------

LEMMA StutterInv == IInv /\ UNCHANGED vars => IInv'
<1> SUFFICES ASSUME IInv, UNCHANGED vars PROVE IInv'
  OBVIOUS
<1>1. UNCHANGED <<kind, row, starts, group, stream, mode, batch, slot, asleep, retries, dead,
                  failures, lost, faults, losses>>
  BY DEF vars, work, redis, table
<1>2. TypeOK' /\ \A k \in Jobs : retries'[k] <= retries[k]
  BY <1>1 DEF IInv, TypeOK
<1>3. \A k \in Jobs : Rung(k) => Rung(k)'
  BY <1>1 DEF Rung
<1> QED BY <1>1, <1>2, <1>3, QuietStep

LEMMA StepInv == IInv /\ [Next]_vars => IInv'
<1> SUFFICES ASSUME IInv, [Next]_vars PROVE IInv'
  OBVIOUS
<1>1. CASE SendPoison \/ \E j \in Jobs : Submit(j) \/ SubmitUnrung(j)
  BY <1>1, ProducersInv
<1>2. CASE LoseData \/ \E j \in Jobs : Expire(j)
  BY <1>2, RedisInv
<1>3. ASSUME NEW w \in Workers,
             Start(w) \/ Crash(w) \/ Stop(w) \/ Leave(w) \/ NoGroup(w) \/ Read(w)
      PROVE  IInv'
  BY <1>3, WorkerInv, DieInv, ReadInv
<1>4. ASSUME NEW w \in Workers, NEW j \in Jobs, Sweep(w, j) \/ Wake(w, j) \/ WakeRaises(w, j)
      PROVE  IInv'
  BY <1>4, ProducersInv, WakeInv
<1>5. ASSUME NEW w \in Workers, NEW i \in Slots,
             Spawn(w, i) \/ Handle(w, i) \/ Misfortune(w, i)
      PROVE  IInv'
  <2>1. CASE Spawn(w, i)
    BY <2>1, SpawnInv
  <2>2. CASE Handle(w, i)
    BY <2>2, ClaimInv, RunInv, CountInv, LetterInv, AckInv DEF Handle
  <2>3. CASE Misfortune(w, i)
    BY <2>3, RunInv, CountInv, LetterRaisesInv, ClearRaisesInv, AckInv, DieInv DEF Misfortune
  <2> QED BY <1>5, <2>1, <2>2, <2>3
<1>6. CASE UNCHANGED vars
  BY <1>6, StutterInv
<1> QED BY <1>1, <1>2, <1>3, <1>4, <1>5, <1>6 DEF Next

\* The inductive invariant holds in every reachable state.
THEOREM Invariance == Spec => []IInv
<1>1. Init => IInv
  BY InitInv
<1>2. IInv /\ [Next]_vars => IInv'
  BY StepInv
<1> QED BY <1>1, <1>2, PTL DEF Spec

LEMMA ClaimedByOne == IInv => OneTaskPerRow
<1> SUFFICES ASSUME IInv, NEW j \in Jobs
             PROVE  /\ Cardinality(Busy(j, {"locked", "run"})) <= 1
                    /\ starts[j] + Cardinality(Busy(j, {"locked"})) <= 1
  BY DEF OneTaskPerRow
<1> DEFINE claimed == Busy(j, {"locked", "run"})
           locked  == Busy(j, {"locked"})
<1>1. \A p, q \in claimed : p = q
  BY DEF IInv, ClaimsExclude, Claims, Busy, Permits
<1>2. locked \subseteq claimed
  BY DEF Busy
<1>3. starts[j] \in Nat /\ starts[j] <= 1 /\ (locked # {} => starts[j] = 0)
  <2>1. starts[j] \in Nat /\ starts[j] <= 1 /\ (row[j] \in {"none", "pending"} => starts[j] = 0)
    BY DEF IInv, StartsSound, TypeOK
  <2>2. ASSUME NEW p \in locked PROVE row[j] = "pending"
    <3>1. p[1] \in Workers /\ p[2] \in Slots /\ slot[p[1]][p[2]].entry = j
          /\ slot[p[1]][p[2]].pc = "locked"
      BY DEF Busy
    <3> QED BY <3>1 DEF IInv, TasksSound, TaskSound
  <2> QED BY <2>1, <2>2
<1> HIDE DEF claimed, locked
<1>4. ASSUME NEW S, \A p, q \in S : p = q
      PROVE  Cardinality(S) \in {0, 1} /\ (S = {} => Cardinality(S) = 0)
  <2>1. CASE S = {}
    BY <2>1, FS_EmptySet
  <2>2. CASE S # {}
    <3>1. PICK p \in S : S = {p}
      BY <1>4, <2>2
    <3> QED BY <2>2, <3>1, FS_Singleton
  <2> QED BY <2>1, <2>2
<1>5. /\ Cardinality(claimed) \in {0, 1}
      /\ Cardinality(locked) \in {0, 1} /\ (locked = {} => Cardinality(locked) = 0)
  BY <1>1, <1>2, <1>4
<1>6. Cardinality(claimed) <= 1 /\ starts[j] + Cardinality(locked) <= 1
  BY <1>3, <1>5
<1> QED BY <1>6 DEF claimed, locked

\* However many copies of a doorbell are about, one task claims or runs a row and begins
\* it once; and unless something beyond the code dropped it, a pending row has a doorbell
\* on its way (_handle, _claim_and_run, enqueue_step, the orphan sweeps).
THEOREM DeliveriesAreSound == Spec => []DeliveryIsSound
<1>1. IInv => DeliveryIsSound
  BY ClaimedByOne DEF IInv, DeliveryIsSound
<1> QED BY <1>1, Invariance, PTL

\* Each dead letter of a job has a failure of its own beyond the MaxRetries that came
\* first, whatever expires, is deleted by a duplicate or is lost (_retry_or_dead_letter).
THEOREM LettersAreEarned == Spec => []DeadLettersAreEarned
<1>1. IInv => DeadLettersAreEarned
  <2> SUFFICES ASSUME IInv, NEW j \in Jobs, dead[j] + Cardinality(Busy(j, {"dead"})) > 0
               PROVE  failures[j] >= (dead[j] + Cardinality(Busy(j, {"dead"}))) + MaxRetries
    BY DEF DeadLettersAreEarned
  <2>1. LettersSound(j)
    BY DEF IInv
  <2>2. /\ Cardinality(Busy(j, {"count"})) \in Nat /\ Cardinality(Busy(j, {"dead"})) \in Nat
        /\ failures[j] \in Nat /\ dead[j] \in Nat /\ MaxRetries \in Nat
    BY <2>1, FS_CardinalityType, DeliveryAssumption DEF LettersSound, IInv, TypeOK, Entries
  <2>3. failures[j] >= Cardinality(Busy(j, {"count"}))
                         + (dead[j] + Cardinality(Busy(j, {"dead"}))) + MaxRetries
    BY <2>1 DEF LettersSound
  <2> QED BY <2>2, <2>3
<1> QED BY <1>1, Invariance, PTL

-----------------------------------------------------------------------------
(* Delivery implements Doorbells.                                            *)

\* A task has a doorbell of j in hand.
Answers(p, j) == /\ slot[p[1]][p[2]].entry = j
                 /\ slot[p[1]][p[2]].pc \in OnTheWay

\* The session of a task, and the doorbells, as Doorbells sees them.
Session(p) == IF slot[p[1]][p[2]].pc = "run" THEN slot[p[1]][p[2]].entry ELSE None
Sessions   == [p \in Permits |-> Session(p)]
Ringing    == {j \in Jobs : row[j] = "pending" /\ OnItsWay(j)}

LEMMA WaysThere ==
  ASSUME NEW j \in Jobs
  PROVE  OnItsWay(j) <=> Rung(j) \/ \E p \in Permits : Answers(p, j)
BY DEF OnItsWay, Rung, Busy, Answers, OnTheWay, Permits

\* The steps of Doorbells, in the terms above.
LEMMA BellSteps ==
  /\ \A j \in Jobs :
       /\ /\ row[j] = "none" /\ row' = [row EXCEPT ![j] = "pending"]
          /\ Ringing' = Ringing \cup {j} \/ Ringing' = Ringing
          /\ Sessions' = Sessions
          => Bells!Next
       /\ /\ row[j] = "pending" /\ row' = row
          /\ Ringing' = Ringing \cup {j} /\ Sessions' = Sessions
          => Bells!Next
       /\ /\ j \in Ringing /\ row' = [row EXCEPT ![j] = "settled"]
          /\ Ringing' = Ringing \ {j} /\ Sessions' = Sessions
          => Bells!Next
  /\ \A j \in Jobs, p \in Permits :
       /\ /\ Sessions[p] = None /\ j \in Ringing /\ row' = [row EXCEPT ![j] = "running"]
          /\ Ringing' = Ringing \ {j} /\ Sessions' = [Sessions EXCEPT ![p] = j]
          => Bells!Next
       /\ /\ Sessions[p] = j /\ row[j] = "running" /\ row' = [row EXCEPT ![j] = "settled"]
          /\ Ringing' = Ringing /\ Sessions' = [Sessions EXCEPT ![p] = None]
          => Bells!Next
  /\ \A P \in SUBSET Permits, J \in SUBSET Jobs :
       /\ row' = row /\ Ringing' = Ringing \ J
       /\ Sessions' = [p \in Permits |-> IF p \in P THEN None ELSE Sessions[p]]
       => Bells!Next
<1>1. /\ Sessions = [p \in Workers \X Slots |->
                       IF Holds(p[1], p[2], "run") THEN slot[p[1]][p[2]].entry ELSE None]
      /\ Sessions' = [p \in Workers \X Slots |->
                       IF Holds(p[1], p[2], "run") THEN slot[p[1]][p[2]].entry ELSE None]'
      /\ Ringing = {j \in Jobs : row[j] = "pending" /\ OnItsWay(j)}
      /\ Ringing' = {j \in Jobs : row[j] = "pending" /\ OnItsWay(j)}'
  BY DEF Sessions, Session, Permits, Ringing, Holds
<1> HIDE DEF Sessions, Ringing
<1>2. \A j \in Jobs : Ringing \subseteq Jobs /\ (j \in Ringing => row[j] = "pending")
  BY DEF Ringing
<1>3. ASSUME NEW j \in Jobs, row[j] = "none", row' = [row EXCEPT ![j] = "pending"],
             Ringing' = Ringing \cup {j} \/ Ringing' = Ringing, Sessions' = Sessions
      PROVE  Bells!Next
  <2>1. Bells!EnqueueStep(j)
    BY <1>1, <1>3 DEF Bells!EnqueueStep, Bells!Moves
  <2> QED BY <2>1 DEF Bells!Next
<1>4. ASSUME NEW j \in Jobs, row[j] = "pending", row' = row,
             Ringing' = Ringing \cup {j}, Sessions' = Sessions
      PROVE  Bells!Next
  <2>1. Bells!RecoverOrphan(j)
    BY <1>1, <1>4 DEF Bells!RecoverOrphan
  <2> QED BY <2>1 DEF Bells!Next
<1>5. ASSUME NEW j \in Jobs, j \in Ringing, row' = [row EXCEPT ![j] = "settled"],
             Ringing' = Ringing \ {j}, Sessions' = Sessions
      PROVE  Bells!Next
  <2>1. Bells!RejectStep(j)
    BY <1>1, <1>2, <1>5 DEF Bells!RejectStep, Bells!Moves
  <2> QED BY <2>1 DEF Bells!Next
<1>6. ASSUME NEW j \in Jobs, NEW p \in Permits,
             Sessions[p] = None, j \in Ringing, row' = [row EXCEPT ![j] = "running"],
             Ringing' = Ringing \ {j}, Sessions' = [Sessions EXCEPT ![p] = j]
      PROVE  Bells!Next
  <2>1. Bells!ClaimStep(p, j)
    BY <1>1, <1>2, <1>6 DEF Bells!ClaimStep, Bells!Moves
  <2> QED BY <2>1 DEF Bells!Next, Permits
<1>7. ASSUME NEW j \in Jobs, NEW p \in Permits,
             Sessions[p] = j, row[j] = "running", row' = [row EXCEPT ![j] = "settled"],
             Ringing' = Ringing, Sessions' = [Sessions EXCEPT ![p] = None]
      PROVE  Bells!Next
  <2>1. Bells!EndStep(p, j)
    BY <1>1, <1>7 DEF Bells!EndStep, Bells!Moves
  <2> QED BY <2>1 DEF Bells!Next, Permits
<1>8. ASSUME NEW P \in SUBSET Permits, NEW J \in SUBSET Jobs,
             row' = row, Ringing' = Ringing \ J,
             Sessions' = [p \in Permits |-> IF p \in P THEN None ELSE Sessions[p]]
      PROVE  Bells!Next
  <2>1. Bells!Lose(P, J)
    BY <1>1, <1>8 DEF Bells!Lose, Permits
  <2> QED BY <2>1 DEF Bells!Next, Permits
<1> QED BY <1>3, <1>4, <1>5, <1>6, <1>7, <1>8

\* Sessions may end and doorbells be lost.
LEMMA QuietBells ==
  ASSUME row' = row, \A p \in Permits : Session(p)' \in {Session(p), None},
         \A j \in Jobs : row[j] = "pending" /\ OnItsWay(j)' => OnItsWay(j)
  PROVE  Bells!Next
<1> DEFINE P == {p \in Permits : Session(p)' = None}
           J == Jobs \ Ringing'
<1>1. Sessions' = [p \in Permits |-> IF p \in P THEN None ELSE Sessions[p]]
  BY DEF Sessions
<1>2. Ringing' = Ringing \ J
  BY DEF Ringing
<1>3. P \in SUBSET Permits /\ J \in SUBSET Jobs
  OBVIOUS
<1> HIDE DEF P, J
<1> QED BY <1>1, <1>2, <1>3, BellSteps

\* What a step of one task does to the doorbells and sessions.
LEMMA TaskWays ==
  ASSUME TypeOK, NEW w \in Workers, NEW i \in Slots, NEW t \in Task,
         slot' = [slot EXCEPT ![w][i] = t]
  PROVE  /\ Sessions' = [Sessions EXCEPT ![<<w, i>>] = IF t.pc = "run" THEN t.entry ELSE None]
         /\ \A p \in Permits : p # <<w, i>> => Session(p)' = Session(p)
         /\ Session(<<w, i>>)' = IF t.pc = "run" THEN t.entry ELSE None
         /\ \A j \in Jobs :
              (Rung(j)' => OnItsWay(j)) /\ (t.entry = j /\ t.pc \in OnTheWay => OnItsWay(j))
              => (OnItsWay(j)' => OnItsWay(j))
         /\ \A j \in Jobs :
              t.entry = slot[w][i].entry /\ j # t.entry /\ (Rung(j)' <=> Rung(j))
              => (OnItsWay(j)' <=> OnItsWay(j))
<1>1. slot \in [Workers -> [Slots -> Task]]
  BY DEF TypeOK
<1>2. /\ slot'[w][i] = t
      /\ \A p \in Permits : p # <<w, i>> => slot'[p[1]][p[2]] = slot[p[1]][p[2]]
  BY <1>1 DEF Permits
<1>3. /\ \A p \in Permits : p # <<w, i>> => Session(p)' = Session(p)
      /\ Session(<<w, i>>)' = IF t.pc = "run" THEN t.entry ELSE None
  BY <1>2 DEF Session
<1>4. Sessions' = [Sessions EXCEPT ![<<w, i>>] = IF t.pc = "run" THEN t.entry ELSE None]
  BY <1>3 DEF Sessions, Permits
<1>5. ASSUME NEW j \in Jobs
      PROVE  /\ OnItsWay(j) <=> Rung(j) \/ \E p \in Permits : Answers(p, j)
             /\ OnItsWay(j)' <=> Rung(j)' \/ \E p \in Permits : Answers(p, j)'
             /\ \A p \in Permits : p # <<w, i>> => (Answers(p, j)' <=> Answers(p, j))
             /\ Answers(<<w, i>>, j)' <=> t.entry = j /\ t.pc \in OnTheWay
             /\ Answers(<<w, i>>, j) => slot[w][i].entry = j
             /\ <<w, i>> \in Permits
  <2>1. OnItsWay(j) <=> Rung(j) \/ \E p \in Permits : Answers(p, j)
    BY WaysThere
  <2>2. OnItsWay(j)' <=> Rung(j)' \/ \E p \in Permits : Answers(p, j)'
    BY DEF OnItsWay, Rung, Busy, Answers, OnTheWay, Permits
  <2> QED BY <1>2, <2>1, <2>2 DEF Answers, Permits
<1>6. ASSUME NEW j \in Jobs,
             Rung(j)' => OnItsWay(j), t.entry = j /\ t.pc \in OnTheWay => OnItsWay(j),
             OnItsWay(j)'
      PROVE  OnItsWay(j)
  BY <1>5, <1>6
<1>7. ASSUME NEW j \in Jobs,
             t.entry = slot[w][i].entry, j # t.entry, Rung(j)' <=> Rung(j)
      PROVE  OnItsWay(j)' <=> OnItsWay(j)
  BY <1>5, <1>7
<1> QED BY <1>3, <1>4, <1>6, <1>7

\* A push rings for one job at most.
LEMMA PushRings ==
  ASSUME TypeOK, NEW e \in Entries, Push(e)
  PROVE  Members(stream') \in {Members(stream), Members(stream) \cup {e}}
<1>1. stream \in Seq(Entries)
  BY DEF TypeOK
<1>2. Members(Append(stream, e)) = Members(stream) \cup {e}
  BY <1>1, MembersOfAppend
<1> QED BY <1>2 DEF Push

LEMMA ProducersRing ==
  ASSUME IInv,
         \/ SendPoison
         \/ \E j \in Jobs : Submit(j) \/ SubmitUnrung(j) \/ \E w \in Workers : Sweep(w, j)
  PROVE  Bells!Next
<1>1. TypeOK /\ UNCHANGED <<slot, batch, asleep>>
  BY DEF IInv, SendPoison, Submit, SubmitUnrung, Sweep, work
<1>2. Sessions' = Sessions /\ \A p \in Permits : Session(p)' = Session(p)
  BY <1>1 DEF Sessions, Session
<1>3. PICK j \in Entries :
        /\ Push(j) \/ UNCHANGED stream
        /\ \/ row' = row
           \/ j \in Jobs /\ row[j] = "none" /\ row' = [row EXCEPT ![j] = "pending"]
        /\ j \notin Jobs \/ row' # row \/ row[j] = "pending"
  <2>1. CASE SendPoison
    BY <2>1, DeliveryAssumption DEF SendPoison, table, Entries
  <2>2. ASSUME NEW k \in Jobs, Submit(k) \/ SubmitUnrung(k) \/ \E w \in Workers : Sweep(w, k)
        PROVE  /\ Push(k) \/ UNCHANGED stream
               /\ \/ row' = row /\ row[k] = "pending"
                  \/ row[k] = "none" /\ row' = [row EXCEPT ![k] = "pending"] /\ row' # row
    BY <1>1, <2>2 DEF Submit, SubmitUnrung, Sweep, table, redis, TypeOK
  <2> QED BY <2>1, <2>2 DEF Entries
<1>4. Members(stream') \in {Members(stream), Members(stream) \cup {j}}
  BY <1>1, <1>3, PushRings
<1>5. \A k \in Jobs \ {j} : OnItsWay(k)' = OnItsWay(k)
  BY <1>1, <1>4 DEF OnItsWay, Busy
<1>6. j \in Jobs /\ OnItsWay(j) => OnItsWay(j)'
  BY <1>1, <1>4 DEF OnItsWay, Busy
<1>7. CASE j \notin Jobs
  BY <1>2, <1>3, <1>5, <1>7, QuietBells
<1>8. CASE j \in Jobs /\ row[j] = "none" /\ row' = [row EXCEPT ![j] = "pending"]
  <2>1. row'[j] = "pending" /\ \A k \in Jobs \ {j} : row'[k] = row[k]
    BY <1>1, <1>8 DEF TypeOK
  <2>2. Ringing' \in {Ringing, Ringing \cup {j}}
    BY <1>5, <1>8, <2>1 DEF Ringing
  <2> QED BY <1>2, <1>8, <2>2, BellSteps
<1>9. CASE j \in Jobs /\ row' = row /\ row[j] = "pending"
  <2>1. CASE OnItsWay(j)'
    <3>1. Ringing' = Ringing \cup {j}
      BY <1>5, <1>9, <2>1 DEF Ringing
    <3> QED BY <1>2, <1>9, <3>1, BellSteps
  <2>2. CASE ~OnItsWay(j)'
    BY <1>2, <1>5, <1>9, <2>2, QuietBells
  <2> QED BY <2>1, <2>2
<1> QED BY <1>3, <1>7, <1>8, <1>9

\* Nothing rings for what was not in the stream.
LEMMA ReadRings ==
  ASSUME IInv, NEW w \in Workers, Read(w)
  PROVE  Bells!Next
<1>1. /\ TypeOK /\ stream \in Seq(Entries) /\ stream # <<>>
      /\ UNCHANGED <<row, slot, asleep>>
  BY DEF IInv, TypeOK, Read, PoolRead, LoopRead, table
<1>2. PICK taken :
        /\ batch' = [batch EXCEPT ![w] = taken]
        /\ Members(taken) \subseteq Members(stream) /\ Members(stream') \subseteq Members(stream)
  <2>1. CASE PoolRead(w)
    <3> DEFINE n == IF Len(stream) < Cardinality(Slots) THEN Len(stream) ELSE Cardinality(Slots)
    <3>1. Cardinality(Slots) \in Nat /\ Len(stream) \in Nat
      BY <1>1, DeliveryAssumption, FS_CardinalityType
    <3>2. n \in 0..Len(stream)
      BY <3>1
    <3>3. /\ batch' = [batch EXCEPT ![w] = SubSeq(stream, 1, n)]
          /\ stream' = SubSeq(stream, n + 1, Len(stream))
      BY <2>1 DEF PoolRead
    <3> HIDE DEF n
    <3> QED BY <1>1, <3>2, <3>3, MembersOfParts
  <2>2. CASE LoopRead(w)
    BY <1>1, <2>2, MembersOfTail DEF LoopRead
  <2> QED BY <2>1, <2>2 DEF Read
<1>3. \A v \in Workers : batch'[v] = taken \/ batch'[v] = batch[v]
  BY <1>1, <1>2 DEF TypeOK
<1>4. \A j \in Jobs : OnItsWay(j)' => OnItsWay(j)
  BY <1>1, <1>2, <1>3 DEF OnItsWay, Busy
<1>5. \A p \in Permits : Session(p)' = Session(p)
  BY <1>1 DEF Session
<1> QED BY <1>1, <1>4, <1>5, QuietBells

\* A retry that wakes was on its way; a process that ends takes its doorbells along; what
\* Redis loses and forgets rings for nobody.
LEMMA WakeRings ==
  ASSUME IInv, NEW w \in Workers, NEW j \in Jobs, Wake(w, j) \/ WakeRaises(w, j)
  PROVE  Bells!Next
<1>1. /\ TypeOK /\ UNCHANGED <<row, slot, batch>>
      /\ asleep[w][j] > 0 /\ asleep' = [asleep EXCEPT ![w][j] = @ - 1]
      /\ Push(j) \/ UNCHANGED stream
  BY DEF IInv, Wake, WakeRaises, table, redis
<1>2. Members(stream') \subseteq Members(stream) \cup {j}
  BY <1>1, PushRings DEF Entries
<1>3. /\ \A v \in Workers, k \in Jobs : k # j => asleep'[v][k] = asleep[v][k]
      /\ OnItsWay(j)
  BY <1>1 DEF TypeOK, OnItsWay
<1>4. \A k \in Jobs : OnItsWay(k)' => OnItsWay(k)
  BY <1>1, <1>2, <1>3 DEF OnItsWay, Busy
<1>5. \A p \in Permits : Session(p)' = Session(p)
  BY <1>1 DEF Session
<1> QED BY <1>1, <1>4, <1>5, QuietBells

LEMMA DieRings ==
  ASSUME IInv, NEW w \in Workers,
         Crash(w) \/ Leave(w) \/ NoGroup(w) \/ \E i \in Slots : LoopAckRaises(w, i)
  PROVE  Bells!Next
<1>1. TypeOK /\ Die(w) /\ UNCHANGED <<row, stream>>
  BY DEF IInv, Crash, Leave, NoGroup, LoopAckRaises, table, redis
<1>2. /\ \A i \in Slots : slot'[w][i].pc = "free"
      /\ \A j \in Jobs : asleep'[w][j] = 0
      /\ batch'[w] = <<>>
      /\ \A v \in Workers \ {w} : /\ slot'[v] = slot[v] /\ batch'[v] = batch[v]
                                  /\ asleep'[v] = asleep[v]
  BY <1>1 DEF Die, TypeOK, Permit
<1>3. Members(<<>>) = {}
  BY DEF Members
<1>4. \A j \in Jobs : OnItsWay(j)' => OnItsWay(j)
  BY <1>1, <1>2, <1>3 DEF OnItsWay, Busy
<1>5. \A p \in Permits : Session(p)' \in {Session(p), None}
  BY <1>2 DEF Session, Permits
<1> QED BY <1>1, <1>4, <1>5, QuietBells

LEMMA OthersRing ==
  ASSUME IInv,
         \/ LoseData \/ \E j \in Jobs : Expire(j)
         \/ \E w \in Workers : Start(w) \/ Stop(w)
  PROVE  Bells!Next
<1>1. /\ UNCHANGED <<row, slot, batch, asleep>>
      /\ stream' = stream \/ stream' = <<>>
  BY DEF LoseData, Start, Stop, Expire, table, redis, work
<1>2. Members(<<>>) = {}
  BY DEF Members
<1>3. \A j \in Jobs : OnItsWay(j)' => OnItsWay(j)
  BY <1>1, <1>2 DEF OnItsWay, Busy
<1>4. \A p \in Permits : Session(p)' = Session(p)
  BY <1>1 DEF Session
<1> QED BY <1>1, <1>3, <1>4, QuietBells

LEMMA InHandIsOnItsWay ==
  ASSUME NEW w \in Workers, NEW i \in Slots, slot[w][i].pc \in OnTheWay
  PROVE  \A j \in Jobs : slot[w][i].entry = j => OnItsWay(j)
<1> SUFFICES ASSUME NEW j \in Jobs, slot[w][i].entry = j PROVE OnItsWay(j)
  OBVIOUS
<1>1. <<w, i>> \in Permits /\ Answers(<<w, i>>, j)
  BY DEF Permits, Answers
<1> QED BY <1>1, WaysThere

LEMMA QuietSession ==
  ASSUME TypeOK, NEW w \in Workers, NEW i \in Slots, NEW t \in Task,
         slot' = [slot EXCEPT ![w][i] = t], t.pc # "run"
  PROVE  \A p \in Permits : Session(p)' \in {Session(p), None}
<1>1. /\ \A p \in Permits : p # <<w, i>> => Session(p)' = Session(p)
      /\ Session(<<w, i>>)' = None
  BY TaskWays
<1> QED BY <1>1

\* A task keeps its entry in all that follows its spawning.
LEMMA SpawnRings ==
  ASSUME IInv, NEW w \in Workers, NEW i \in Slots, Spawn(w, i)
  PROVE  Bells!Next
<1> DEFINE t == [pc |-> "claim", entry |-> Head(batch[w])]
<1>1. /\ TypeOK /\ batch[w] \in Seq(Entries) /\ batch[w] # <<>> /\ slot[w][i].pc = "free"
      /\ UNCHANGED <<row, stream, asleep>>
      /\ slot' = [slot EXCEPT ![w][i] = t] /\ batch' = [batch EXCEPT ![w] = Tail(batch[w])]
  BY DEF IInv, TypeOK, Spawn, Holds, table, redis
<1>2. /\ Head(batch[w]) \in Entries
      /\ Members(batch[w]) = {Head(batch[w])} \cup Members(Tail(batch[w]))
  BY <1>1, MembersOfTail
<1>3. t \in Task /\ t.pc = "claim" /\ t.entry = Head(batch[w])
  BY <1>2 DEF Task, Phases
<1> HIDE DEF t
<1>4. PICK u \in Task : slot' = [slot EXCEPT ![w][i] = u] /\ u = t
  BY <1>1, <1>3
<1>5. \A v \in Workers : Members(batch'[v]) \subseteq Members(batch[v])
  BY <1>1, <1>2 DEF TypeOK
<1>6. \A j \in Jobs : Rung(j)' => OnItsWay(j)
  BY <1>1, <1>5 DEF Rung, OnItsWay
<1>7. \A j \in Jobs : u.entry = j => OnItsWay(j)
  BY <1>2, <1>3, <1>4 DEF OnItsWay
<1>8. \A j \in Jobs : OnItsWay(j)' => OnItsWay(j)
  <2>1. TypeOK /\ slot' = [slot EXCEPT ![w][i] = u]
    BY <1>1, <1>4
  <2>2. \A j \in Jobs :
          (Rung(j)' => OnItsWay(j)) /\ (u.entry = j /\ u.pc \in OnTheWay => OnItsWay(j))
          => (OnItsWay(j)' => OnItsWay(j))
    BY <2>1, TaskWays
  <2> QED BY <1>6, <1>7, <2>2
<1>9. \A p \in Permits : Session(p)' \in {Session(p), None}
  BY <1>1, <1>3, <1>4, QuietSession
<1> QED BY <1>1, <1>8, <1>9, QuietBells

\* A task moves on and touches no row: a doorbell that it had in hand may be lost.
LEMMA MovesRing ==
  ASSUME IInv, NEW w \in Workers, NEW i \in Slots, NEW t \in Task,
         slot' = [slot EXCEPT ![w][i] = t], UNCHANGED <<row, stream, batch>>,
         t.entry \in {slot[w][i].entry, None}, t.pc # "run",
         \/ UNCHANGED asleep
         \/ /\ slot[w][i].pc = "ackRetry" /\ slot[w][i].entry \in Jobs
            /\ asleep' = [asleep EXCEPT ![w][slot[w][i].entry] = @ + 1],
         t.pc \in OnTheWay => slot[w][i].pc \in OnTheWay \/ row[slot[w][i].entry] # "pending"
  PROVE  Bells!Next
<1>1. TypeOK /\ None \notin Jobs
  BY DeliveryAssumption DEF IInv
<1>2. slot[w][i].pc \in OnTheWay => \A j \in Jobs : slot[w][i].entry = j => OnItsWay(j)
  BY InHandIsOnItsWay
<1>3. \A j \in Jobs : Rung(j)' => OnItsWay(j)
  <2>1. CASE UNCHANGED asleep
    BY <2>1 DEF Rung, OnItsWay
  <2>2. CASE /\ slot[w][i].pc = "ackRetry" /\ slot[w][i].entry \in Jobs
             /\ asleep' = [asleep EXCEPT ![w][slot[w][i].entry] = @ + 1]
    <3>1. \A v \in Workers, j \in Jobs : j # slot[w][i].entry => asleep'[v][j] = asleep[v][j]
      BY <1>1, <2>2 DEF TypeOK
    <3> QED BY <1>2, <2>2, <3>1 DEF Rung, OnItsWay, OnTheWay
  <2> QED BY <2>1, <2>2
<1>4. \A j \in Jobs : row[j] = "pending" /\ t.entry = j /\ t.pc \in OnTheWay => OnItsWay(j)
  BY <1>1, <1>2
<1>5. \A j \in Jobs : row[j] = "pending" /\ OnItsWay(j)' => OnItsWay(j)
  BY <1>1, <1>3, <1>4, TaskWays
<1>6. \A p \in Permits : Session(p)' \in {Session(p), None}
  BY <1>1, QuietSession
<1> QED BY <1>5, <1>6, QuietBells

LEMMA AckRings ==
  ASSUME IInv, NEW w \in Workers, NEW i \in Slots, Ack(w, i) \/ AckRaises(w, i)
  PROVE  Bells!Next
<1>1. /\ TypeOK /\ slot[w][i].pc \in {"ack", "ackRetry"} /\ UNCHANGED <<row, stream, batch>>
      /\ slot[w][i].pc = "ackRetry" => slot[w][i].entry \in Jobs
      /\ \/ UNCHANGED asleep
         \/ /\ slot[w][i].pc = "ackRetry"
            /\ asleep' = [asleep EXCEPT ![w][slot[w][i].entry] = @ + 1]
  BY DEF IInv, TasksSound, TaskSound, Phases, Ack, AckRaises, Holds, table, redis
<1>2. PICK t \in Task : /\ slot' = [slot EXCEPT ![w][i] = t]
                        /\ t.pc \in {"free", "leaked"} /\ t.entry = None
  <2>1. Permit("free") \in Task /\ Permit("leaked") \in Task
    BY DEF Permit, Task
  <2> QED BY <2>1 DEF Ack, AckRaises, Permit
<1> QED BY <1>1, <1>2, MovesRing DEF OnTheWay

\* The handler goes from phase to phase.
LEMMA PhasesRing ==
  ASSUME IInv, NEW w \in Workers, NEW i \in Slots,
         \/ RejectPoison(w, i) \/ Lock(w, i) \/ Skip(w, i)
         \/ CountFailure(w, i) \/ CountIsLost(w, i)
         \/ Bury(w, i) \/ BuryRaises(w, i) \/ Clear(w, i) \/ ForgetRaises(w, i)
  PROVE  Bells!Next
<1>1. TypeOK /\ slot[w][i].pc \in Phases /\ UNCHANGED <<row, stream, batch, asleep>>
  BY DEF IInv, Phases, RejectPoison, Lock, Skip, CountFailure, CountIsLost, Bury, BuryRaises,
         Clear, ForgetRaises, Holds, table, redis
<1>2. PICK phase \in Phases \ {"run"} :
        /\ Goes(w, i, phase)
        /\ phase \in OnTheWay => slot[w][i].pc \in OnTheWay
  BY DEF Phases, OnTheWay, RejectPoison, Lock, Skip, CountFailure, CountIsLost, Bury, BuryRaises,
         Clear, ForgetRaises, Holds, Returned
<1>3. PICK t \in Task : /\ t.pc = phase /\ t.entry = slot[w][i].entry
                        /\ slot' = [slot EXCEPT ![w][i] = t]
  BY <1>1, <1>2, GoesOn
<1> QED BY <1>1, <1>2, <1>3, MovesRing

\* A deletion that fails after a skip rings for the job again, which may be pending.
LEMMA ClearRaisesRings ==
  ASSUME IInv, NEW w \in Workers, NEW i \in Slots, ClearRaises(w, i)
  PROVE  Bells!Next
<1>1. /\ TypeOK /\ slot[w][i].pc = "clear" /\ slot[w][i].pc \in Phases /\ "count" \in Phases
      /\ UNCHANGED <<row, stream, batch, asleep>> /\ Goes(w, i, "count")
  BY DEF IInv, Phases, ClearRaises, Holds, redis
<1>2. PICK j \in Jobs : slot[w][i].entry = j
  BY <1>1 DEF IInv, TasksSound, TaskSound, Phases
<1>3. PICK t \in Task : /\ t.pc = "count" /\ t.entry = j
                        /\ slot' = [slot EXCEPT ![w][i] = t]
  BY <1>1, <1>2, GoesOn
<1>4. CASE row[j] # "pending"
  BY <1>1, <1>2, <1>3, <1>4, MovesRing
<1>5. CASE row[j] = "pending"
  <2>1. <<w, i>> \in Permits /\ Session(<<w, i>>) = None
    BY <1>1 DEF Permits, Session
  <2>2. Sessions' = [Sessions EXCEPT ![<<w, i>>] = None]
    BY <1>1, <1>3, TaskWays
  <2>3. Sessions' = Sessions
    BY <2>1, <2>2 DEF Sessions
  <2>4. \A k \in Jobs \ {j} : OnItsWay(k)' <=> OnItsWay(k)
    <3>1. \A k \in Jobs : Rung(k)' <=> Rung(k)
      BY <1>1 DEF Rung
    <3>2. t.entry = slot[w][i].entry /\ \A k \in Jobs \ {j} : k # t.entry
      BY <1>2, <1>3
    <3> QED BY <1>1, <1>3, <3>1, <3>2, TaskWays
  <2>5. OnItsWay(j)'
    <3>1. slot'[w][i] = t
      BY <1>1, <1>3 DEF TypeOK
    <3> QED BY <1>3, <2>1, <3>1 DEF OnItsWay, Busy, Permits
  <2>6. Ringing' = Ringing \cup {j}
    BY <1>1, <1>5, <2>4, <2>5 DEF Ringing
  <2> QED BY <1>1, <1>5, <2>3, <2>6, BellSteps
<1> QED BY <1>4, <1>5

\* A locked row is claimed, or rejected; the session that runs a row ends it.
LEMMA RunRings ==
  ASSUME IInv, NEW w \in Workers, NEW i \in Slots,
         Begin(w, i) \/ Settle(w, i) \/ Raise(w, i)
  PROVE  Bells!Next
<1>1. /\ TypeOK /\ slot[w][i].pc \in {"locked", "run"} /\ slot[w][i].pc \in Phases
      /\ UNCHANGED <<stream, batch, asleep>>
  BY DEF IInv, Begin, Settle, Raise, Holds, redis, Phases
<1>2. PICK j \in Jobs :
        /\ slot[w][i].entry = j
        /\ slot[w][i].pc = "locked" => row[j] = "pending"
        /\ slot[w][i].pc = "run" => row[j] = "running"
  BY <1>1 DEF IInv, TasksSound, TaskSound, Phases
<1>3. PICK phase \in {"run", "clear", "ack", "count"} :
        /\ Goes(w, i, phase)
        /\ phase = "run" => slot[w][i].pc = "locked" /\ row' = [row EXCEPT ![j] = "running"]
        /\ phase # "run" =>
             \/ row' = [row EXCEPT ![j] = "settled"]
             \/ UNCHANGED row
        /\ phase = "count" /\ slot[w][i].pc = "locked" => UNCHANGED row
  BY <1>1, <1>2 DEF Begin, Settle, Raise, Holds, Returned, Raised
<1>4. phase \in Phases
  BY DEF Phases
<1>5. PICK t \in Task : /\ t.pc = phase /\ t.entry = j
                        /\ slot' = [slot EXCEPT ![w][i] = t]
  BY <1>1, <1>2, <1>3, <1>4, GoesOn
<1>6. <<w, i>> \in Permits /\ None \notin Jobs
  BY DeliveryAssumption DEF Permits
<1>7. Sessions[<<w, i>>] = IF slot[w][i].pc = "run" THEN j ELSE None
  BY <1>2, <1>6 DEF Sessions, Session
<1>8. Sessions' = [Sessions EXCEPT ![<<w, i>>] = IF phase = "run" THEN j ELSE None]
  BY <1>1, <1>5, TaskWays
<1>9. \A k \in Jobs \ {j} : OnItsWay(k)' <=> OnItsWay(k)
  <2>1. \A k \in Jobs : Rung(k)' <=> Rung(k)
    BY <1>1 DEF Rung
  <2>2. t.entry = slot[w][i].entry /\ \A k \in Jobs \ {j} : k # t.entry
    BY <1>2, <1>5
  <2> QED BY <1>1, <1>5, <2>1, <2>2, TaskWays
<1>10. slot[w][i].pc = "locked" => j \in Ringing
  BY <1>2, InHandIsOnItsWay DEF Ringing, OnTheWay
<1>11. CASE phase = "run"
  <2>1. row'[j] = "running" /\ \A k \in Jobs \ {j} : row'[k] = row[k]
    BY <1>1, <1>3, <1>11 DEF TypeOK
  <2>2. Ringing' = Ringing \ {j}
    BY <1>9, <2>1 DEF Ringing
  <2> QED BY <1>3, <1>6, <1>7, <1>8, <1>10, <1>11, <2>2, BellSteps
<1>12. CASE phase # "run" /\ row' = [row EXCEPT ![j] = "settled"]
  <2>1. row'[j] = "settled" /\ \A k \in Jobs \ {j} : row'[k] = row[k]
    BY <1>1, <1>12 DEF TypeOK
  <2>2. Ringing' = Ringing \ {j}
    BY <1>9, <2>1 DEF Ringing
  <2>3. CASE slot[w][i].pc = "locked"
    <3>1. Sessions' = Sessions
      BY <1>6, <1>7, <1>8, <1>12, <2>3 DEF Sessions
    <3> QED BY <1>10, <1>12, <2>2, <2>3, <3>1, BellSteps
  <2>4. CASE slot[w][i].pc = "run"
    <3>1. Ringing' = Ringing
      BY <1>2, <2>2, <2>4 DEF Ringing
    <3>2. Sessions[<<w, i>>] = j /\ Sessions' = [Sessions EXCEPT ![<<w, i>>] = None]
      BY <1>7, <1>8, <1>12, <2>4
    <3> QED BY <1>2, <1>6, <1>12, <2>4, <3>1, <3>2, BellSteps
  <2> QED BY <1>1, <2>3, <2>4
<1>13. CASE phase # "run" /\ UNCHANGED row
  BY <1>1, <1>2, <1>5, <1>13, MovesRing DEF OnTheWay
<1> QED BY <1>3, <1>11, <1>12, <1>13

LEMMA StepRings == IInv /\ [Next]_vars => [Bells!Next]_(Bells!vars)
<1> SUFFICES ASSUME IInv, [Next]_vars PROVE [Bells!Next]_(Bells!vars)
  OBVIOUS
<1>1. CASE SendPoison \/ \E j \in Jobs : Submit(j) \/ SubmitUnrung(j)
  BY <1>1, ProducersRing
<1>2. CASE LoseData \/ \E j \in Jobs : Expire(j)
  BY <1>2, OthersRing
<1>3. ASSUME NEW w \in Workers,
             Start(w) \/ Crash(w) \/ Stop(w) \/ Leave(w) \/ NoGroup(w) \/ Read(w)
      PROVE  Bells!Next
  BY <1>3, OthersRing, DieRings, ReadRings
<1>4. ASSUME NEW w \in Workers, NEW j \in Jobs, Sweep(w, j) \/ Wake(w, j) \/ WakeRaises(w, j)
      PROVE  Bells!Next
  BY <1>4, ProducersRing, WakeRings
<1>5. ASSUME NEW w \in Workers, NEW i \in Slots,
             Spawn(w, i) \/ Handle(w, i) \/ Misfortune(w, i)
      PROVE  Bells!Next
  <2>1. CASE Spawn(w, i)
    BY <2>1, SpawnRings
  <2>2. CASE Handle(w, i)
    BY <2>2, PhasesRing, RunRings, AckRings DEF Handle
  <2>3. CASE Misfortune(w, i)
    BY <2>3, PhasesRing, ClearRaisesRings, RunRings, AckRings, DieRings DEF Misfortune
  <2> QED BY <1>5, <2>1, <2>2, <2>3
<1>6. CASE UNCHANGED vars
  <2>1. UNCHANGED <<row, stream, batch, slot, asleep>>
    BY <1>6 DEF vars, work, redis, table
  <2>2. /\ \A j \in Jobs : OnItsWay(j)' => OnItsWay(j)
        /\ \A p \in Permits : Session(p)' = Session(p)
    BY <2>1 DEF OnItsWay, Busy, Session
  <2> QED BY <2>1, <2>2, QuietBells
<1> QED BY <1>1, <1>2, <1>3, <1>4, <1>5, <1>6 DEF Next

LEMMA InitRings == Init => Bells!Init
BY DEF Init, Bells!Init, Permit, Holds

\* Each step of delivery -- a push, a read, a spawned task, a lock, a retry, a loss --
\* is a step of Doorbells or none (xadd, _run_consumer, _handle, _claim_and_run,
\* ConsumerLoop, process_step): what RunEngine takes of its workers is what it gets.
THEOREM DeliveryRings == Spec => ImplementsBells
<1>1. Init => Bells!Init
  BY InitRings
<1>2. IInv /\ [Next]_vars => [Bells!Next]_(Bells!vars)
  BY StepRings
<1> QED BY <1>1, <1>2, Invariance, PTL DEF Spec, ImplementsBells, Bells!Spec
=============================================================================
