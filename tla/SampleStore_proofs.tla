-------------------------- MODULE SampleStore_proofs --------------------------
(***************************************************************************)
(* Theorems about SampleStore, for any writers, contents and jobs: samples *)
(* are unique per content, and ids, revision numbers and splits sound.     *)
(***************************************************************************)
EXTENDS SampleStore, FiniteSetTheorems, TLAPS

\* Writer w has a row of content c in the table, or has inserted one.
Has(w, c) == sample[<<w, c>>] # "none" \/ c \in tx[w].mine

ContentsSound ==
  \A c \in Contents, u, w \in Writers : Has(u, c) /\ Has(w, c) => u = w

\* What is not committed belongs to an open transaction, and a row to one that is done.
WriterSound(w) ==
  /\ tx[w].pc # "open" => tx[w].mine = {} /\ tx[w].new = {}
  /\ \A c \in Contents : sample[<<w, c>>] # "none" => tx[w].pc = "done"

\* The ids at hand are of their items' contents, and in the table or inserted by w.
IdsSound(w) ==
  tx[w].pc # "none" =>
    /\ Len(tx[w].ids) <= Len(Items(w))
    /\ tx[w].pc = "done" => Len(tx[w].ids) = Len(Items(w))
    /\ \A i \in DOMAIN tx[w].ids :
         /\ tx[w].ids[i][2] = Items(w)[i].content
         /\ sample[tx[w].ids[i]] # "none"
              \/ (tx[w].ids[i][1] = w /\ tx[w].ids[i][2] \in tx[w].mine)

\* The splits at hand: no more than ids, and one for each id if as many.
SplitsOf(splits, id) == {p[2] : p \in {q \in splits : q[1] = id}}

Whole(w) ==
  \A i \in DOMAIN tx[w].ids : SplitsOf(tx[w].splits, tx[w].ids[i]) = {Items(w)[i].split}

SplitsSound(w) ==
  /\ IsFiniteSet(tx[w].splits)
  /\ Cardinality(tx[w].splits) <= Len(tx[w].ids)
  /\ Cardinality(tx[w].splits) = Len(tx[w].ids) => Whole(w)
  /\ tx[w].pc = "done" /\ tx[w].splits # {} => Whole(w)

\* The revisions that w sees.
All(w) == revs \cup tx[w].new

Numbers(R, id) == {r.no : r \in {q \in R : q.sample = id}}
Gapless(S)     == \E n \in Nat : S = 1..n

NumbersSound ==
  \A id \in Ids :
    /\ Gapless(Numbers(revs, id))
    /\ \A w \in Writers : Gapless(Numbers(All(w), id))

\* The one revision of a sample that w uploads with its labels.
First(w, c) == [sample |-> <<w, c>>, no |-> 1, by |-> w]

FirstLabelsSound(w) ==
  tx[w].pc # "none" /\ Kind(w) = "annotated" => \A c \in Contents :
    /\ c \in tx[w].mine => First(w, c) \in tx[w].new
    /\ sample[<<w, c>>] # "none" => First(w, c) \in revs

\* Labels of an upload are on a sample of its own.  Others come to a sample when it is
\* in the table, and after the labels that it was uploaded with.
RevisionSound(r) ==
  /\ tx[r.by].pc # "none" /\ Kind(r.by) = "annotated" =>
       r.sample[1] = r.by /\ r.no = 1
  /\ r.sample[1] # r.by =>
       /\ sample[r.sample] # "none"
       /\ Kind(r.sample[1]) = "annotated" => r.no > 1

RevsSound ==
  /\ \A r \in revs : tx[r.by].pc = "done" /\ RevisionSound(r)
  /\ \A w \in Writers : \A r \in tx[w].new : r.by = w /\ RevisionSound(r)

IInv ==
  /\ TypeOK
  /\ ContentsSound
  /\ \A w \in Writers : WriterSound(w) /\ IdsSound(w) /\ SplitsSound(w) /\ FirstLabelsSound(w)
  /\ NumbersSound
  /\ RevsSound

-----------------------------------------------------------------------------

\* What the type of a transaction says of its parts.
LEMMA Parts ==
  ASSUME TypeOK, NEW w \in Writers
  PROVE  /\ tx[w].pc \in {"none", "open", "done", "failed"}
         /\ tx[w].ids \in Seq(Ids) /\ Len(tx[w].ids) \in Nat
         /\ tx[w].mine \subseteq Contents /\ tx[w].new \subseteq Revision
         /\ tx[w].splits \subseteq Ids \X Split
         /\ tx[w].pc = "none" => tx[w] = NoTx
         /\ tx[w].pc # "none" => /\ tx[w] \in Tx /\ tx[w].job \in Jobs
                                 /\ Items(w) \in Seq(Item) /\ Len(Items(w)) \in Nat \ {0}
<1>1. tx[w] \in {NoTx} \cup Tx
  BY DEF TypeOK
<1>2. CASE tx[w] = NoTx
  BY <1>2 DEF NoTx
<1>3. CASE tx[w] \in Tx
  <2>1. /\ tx[w].pc \in {"open", "done", "failed"} /\ tx[w].job \in Jobs
        /\ tx[w].ids \in Seq(Ids) /\ tx[w].mine \subseteq Contents
        /\ tx[w].new \subseteq Revision /\ tx[w].splits \subseteq Ids \X Split
    BY <1>3 DEF Tx
  <2>2. Items(w) \in Seq(Item) /\ Items(w) # <<>>
    BY <2>1, StoreAssumption DEF Items, Job
  <2> QED BY <1>3, <2>1, <2>2
<1> QED BY <1>1, <1>2, <1>3

LEMMA NumbersOfUnion ==
  ASSUME NEW R, NEW Q, NEW id
  PROVE  Numbers(R \cup Q, id) = Numbers(R, id) \cup Numbers(Q, id)
BY DEF Numbers

LEMMA GaplessUnion ==
  ASSUME NEW S, NEW T, Gapless(S), Gapless(T)
  PROVE  Gapless(S \cup T)
<1>1. PICK m \in Nat : S = 1..m
  BY DEF Gapless
<1>2. PICK n \in Nat : T = 1..n
  BY DEF Gapless
<1>3. S \cup T = 1..(IF m >= n THEN m ELSE n)
  BY <1>1, <1>2
<1> QED BY <1>3 DEF Gapless

\* The next number is 1, or comes after 1, and leaves no gap.
LEMMA NextNumber ==
  ASSUME IInv, NEW w \in Writers, NEW id \in Ids
  PROVE  /\ NextNo(w, id) \in Nat \ {0}
         /\ Gapless(Numbers(All(w), id) \cup {NextNo(w, id)})
         /\ 1 \in Numbers(All(w), id) => NextNo(w, id) > 1
<1>1. PICK n \in Nat : Numbers(All(w), id) = 1..n
  BY DEF IInv, NumbersSound, Gapless
<1>2. NextNo(w, id) = Max({0} \cup (1..n)) + 1
  BY <1>1 DEF NextNo, Numbers, All
<1>3. Max({0} \cup (1..n)) = n
  <2>1. n \in {0} \cup (1..n) /\ \A y \in {0} \cup (1..n) : n >= y
    OBVIOUS
  <2>2. \A x \in {0} \cup (1..n) : (\A y \in {0} \cup (1..n) : x >= y) => x = n
    BY <2>1
  <2> QED BY <2>1, <2>2 DEF Max
<1>4. (1..n) \cup {n + 1} = 1..(n + 1)
  OBVIOUS
<1>5. Gapless((1..n) \cup {n + 1})
  BY <1>4 DEF Gapless
<1>6. NextNo(w, id) = n + 1
  BY <1>2, <1>3
<1>7. 1 \in 1..n => n + 1 > 1
  OBVIOUS
<1>8. NextNo(w, id) \in Nat \ {0} /\ Gapless(Numbers(All(w), id) \cup {NextNo(w, id)})
  BY <1>1, <1>5, <1>6
<1> QED BY <1>1, <1>6, <1>7, <1>8

LEMMA InitInv == Init => IInv
<1> SUFFICES ASSUME Init PROVE IInv
  OBVIOUS
<1>1. /\ sample = [id \in Ids |-> "none"] /\ revs = {} /\ fails = 0
      /\ \A w \in Writers : tx[w] = NoTx
  BY DEF Init
<1>2. TypeOK
  <2>1. tx \in [Writers -> {NoTx} \cup Tx]
    BY DEF Init
  <2>2. \A c \in Contents : Cardinality({w \in Writers : sample[<<w, c>>] # "none"}) <= 1
    <3> SUFFICES ASSUME NEW c \in Contents
                 PROVE  Cardinality({w \in Writers : sample[<<w, c>>] # "none"}) <= 1
      OBVIOUS
    <3> DEFINE rows == {w \in Writers : sample[<<w, c>>] # "none"}
    <3>1. rows = {}
      BY <1>1 DEF Ids
    <3> HIDE DEF rows
    <3>2. Cardinality(rows) <= 1
      BY <3>1, FS_EmptySet
    <3> QED BY <3>2 DEF rows
  <2> QED BY <1>1, <2>1, <2>2 DEF TypeOK
<1>3. ContentsSound
  BY <1>1 DEF ContentsSound, Has, NoTx, Ids
<1>4. ASSUME NEW w \in Writers
      PROVE  WriterSound(w) /\ IdsSound(w) /\ SplitsSound(w) /\ FirstLabelsSound(w)
  <2>1. tx[w].pc = "none" /\ tx[w].ids = <<>> /\ tx[w].mine = {} /\ tx[w].new = {}
        /\ tx[w].splits = {}
    BY <1>1 DEF NoTx
  <2>2. IsFiniteSet(tx[w].splits) /\ Cardinality(tx[w].splits) = 0 /\ Len(tx[w].ids) = 0
    BY <2>1, FS_EmptySet
  <2>3. Whole(w)
    BY <2>1 DEF Whole
  <2> QED BY <1>1, <2>1, <2>2, <2>3 DEF WriterSound, IdsSound, SplitsSound, FirstLabelsSound, Ids
<1>5. NumbersSound
  <2>1. \A id : Numbers({}, id) = {}
    BY DEF Numbers
  <2>2. Gapless({})
    <3>1. 1..0 = {}
      OBVIOUS
    <3> QED BY <3>1 DEF Gapless
  <2>3. \A w \in Writers : All(w) = {}
    BY <1>1 DEF All, NoTx
  <2> QED BY <1>1, <2>1, <2>2, <2>3 DEF NumbersSound
<1>6. RevsSound
  BY <1>1 DEF RevsSound, NoTx
<1> QED BY <1>2, <1>3, <1>4, <1>5, <1>6 DEF IInv

-----------------------------------------------------------------------------

\* A set of equal elements has one at most.
LEMMA OneAtMost ==
  ASSUME NEW S, \A u, w \in S : u = w
  PROVE  Cardinality(S) <= 1
<1>1. Cardinality(S) \in {0, 1}
  <2>1. CASE S = {}
    BY <2>1, FS_EmptySet
  <2>2. CASE S # {}
    <3>1. PICK w : S = {w}
      BY <2>2
    <3>2. Cardinality({w}) = 1
      BY FS_Singleton
    <3> QED BY <3>1, <3>2
  <2> QED BY <2>1, <2>2
<1> QED BY <1>1

\* A revision that w adds.
LEMMA AddedRevision ==
  ASSUME IInv, NEW w \in Writers, NEW id \in Ids, NEW no, NEW rev, Open(w),
         rev = [sample |-> id, no |-> no, by |-> w],
         sample[id] # "none" \/ id[1] = w,
         \/ Kind(w) # "annotated" /\ no = NextNo(w, id)
         \/ Kind(w) = "annotated" /\ no = 1 /\ id[1] = w
  PROVE  /\ rev \in Revision /\ RevisionSound(rev)
         /\ \A k \in Ids : Gapless(Numbers(revs \cup (tx[w].new \cup {rev}), k))
<1>1. /\ NextNo(w, id) \in Nat \ {0} /\ Gapless(Numbers(All(w), id) \cup {NextNo(w, id)})
      /\ 1 \in Numbers(All(w), id) => NextNo(w, id) > 1
  BY NextNumber
<1>2. no \in Nat \ {0} /\ rev.sample = id /\ rev.no = no /\ rev.by = w
  BY <1>1
<1>3. rev \in Revision
  BY <1>2 DEF Revision
<1>4. RevisionSound(rev)
  <2>1. ASSUME id[1] # w, Kind(id[1]) = "annotated" PROVE no > 1
    <3>1. id[1] \in Writers /\ id[2] \in Contents /\ id = <<id[1], id[2]>>
      BY DEF Ids
    <3>2. tx[id[1]].pc # "none" /\ sample[<<id[1], id[2]>>] # "none"
      BY <2>1, <3>1 DEF IInv, WriterSound
    <3>3. First(id[1], id[2]) \in revs
      BY <2>1, <3>1, <3>2 DEF IInv, FirstLabelsSound
    <3>4. First(id[1], id[2]).sample = id /\ First(id[1], id[2]).no = 1
      BY <3>1 DEF First
    <3>5. 1 \in Numbers(All(w), id)
      BY <3>3, <3>4 DEF Numbers, All
    <3> QED BY <1>1, <2>1, <3>5
  <2> QED BY <1>2, <2>1 DEF RevisionSound
<1>5. ASSUME NEW k \in Ids PROVE Gapless(Numbers(revs \cup (tx[w].new \cup {rev}), k))
  <2>1. Numbers(revs \cup (tx[w].new \cup {rev}), k) = Numbers(All(w), k) \cup Numbers({rev}, k)
    BY DEF Numbers, All
  <2>2. Gapless(Numbers(All(w), k))
    BY DEF IInv, NumbersSound
  <2>3. CASE k # id
    <3>1. Numbers({rev}, k) = {}
      BY <1>2, <2>3 DEF Numbers
    <3>2. Numbers(revs \cup (tx[w].new \cup {rev}), k) = Numbers(All(w), k)
      BY <2>1, <3>1
    <3> QED BY <2>2, <3>2
  <2>4. CASE k = id
    <3>1. Numbers({rev}, k) = {no}
      BY <1>2, <2>4 DEF Numbers
    <3>2. CASE no = NextNo(w, id)
      BY <1>1, <2>1, <2>4, <3>1, <3>2
    <3>3. CASE no = 1
      <4>1. Gapless({no})
        <5>1. {no} = 1..1
          BY <3>3
        <5> QED BY <5>1 DEF Gapless
      <4>2. Gapless(Numbers(All(w), k) \cup {no})
        BY <2>2, <4>1, GaplessUnion
      <4> QED BY <2>1, <3>1, <4>2
    <3> QED BY <3>2, <3>3
  <2> QED BY <2>3, <2>4
<1> QED BY <1>3, <1>4, <1>5

\* The splits at hand after one more item.
LEMMA SplitsGrow ==
  ASSUME IInv, NEW w \in Writers, NEW t \in Tx, NEW id \in Ids,
         Open(w), ~Done(w), tx'[w] = t, t.pc = "open", t.job = tx[w].job,
         t.ids = Append(tx[w].ids, id),
         t.splits = tx[w].splits \/ t.splits = Put(tx[w].splits, id, Head1(w).split)
  PROVE  SplitsSound(w)'
<1> DEFINE old  == tx[w].splits
           n    == Len(tx[w].ids)
           rest == {p \in old : p[1] # id}
           s    == Head1(w).split
<1>1. /\ TypeOK /\ SplitsSound(w) /\ IsFiniteSet(old) /\ Cardinality(old) <= n
      /\ Cardinality(old) = n => Whole(w)
      /\ n \in Nat /\ Cardinality(old) \in Nat /\ tx[w].ids \in Seq(Ids)
  BY Parts, FS_CardinalityType DEF IInv, SplitsSound
<1>2. /\ Len(t.ids) = n + 1 /\ DOMAIN t.ids = 1..(n + 1) /\ DOMAIN tx[w].ids = 1..n
      /\ \A i \in 1..n : t.ids[i] = tx[w].ids[i] /\ tx[w].ids[i] \in Ids
      /\ t.ids[n + 1] = id
  BY <1>1
<1>3. Items(w)' = Items(w) /\ Items(w)[n + 1] = Head1(w)
  BY DEF Items, Head1
<1>4. rest \subseteq old /\ IsFiniteSet(rest) /\ Cardinality(rest) \in Nat
      /\ Cardinality(rest) <= Cardinality(old) /\ (Cardinality(rest) = Cardinality(old) => rest = old)
  <2>1. rest \subseteq old
    OBVIOUS
  <2> HIDE DEF rest, old
  <2> QED BY <1>1, <2>1, FS_Subset, FS_CardinalityType
<1>5. CASE t.splits = old
  BY <1>1, <1>2, <1>5 DEF SplitsSound
<1>6. CASE t.splits # old
  <2>1. t.splits = rest \cup {<<id, s>>}
    BY <1>6 DEF Put
  <2>2. <<id, s>> \notin rest
    OBVIOUS
  <2>3. IsFiniteSet(rest \cup {<<id, s>>})
        /\ Cardinality(rest \cup {<<id, s>>}) = Cardinality(rest) + 1
    <3> HIDE DEF rest
    <3> QED BY <1>4, <2>2, FS_AddElement
  <2>4. IsFiniteSet(t.splits) /\ Cardinality(t.splits) <= Len(t.ids)
        /\ Cardinality(t.splits) = Cardinality(rest) + 1
    <3> HIDE DEF rest, old, n, s
    <3> QED BY <1>1, <1>2, <1>4, <2>1, <2>3
  <2>5. ASSUME Cardinality(t.splits) = Len(t.ids)
        PROVE  Whole(w)'
    <3>1. rest = old /\ Cardinality(old) = n
      <4> HIDE DEF rest, old, n, s
      <4> QED BY <1>1, <1>2, <1>4, <2>4, <2>5
    <3>2. \A i \in 1..n : {p[2] : p \in {q \in old : q[1] = tx[w].ids[i]}} = {Items(w)[i].split}
      BY <1>1, <1>2, <3>1 DEF Whole, SplitsOf
    <3>3. \A q \in old : q[1] # id
      BY <3>1
    <3> SUFFICES ASSUME NEW i \in 1..(n + 1)
                 PROVE  {p[2] : p \in {q \in t.splits : q[1] = t.ids[i]}} = {Items(w)[i].split}
      BY <1>2, <1>3 DEF Whole, SplitsOf
    <3>4. t.splits = old \cup {<<id, s>>}
      BY <2>1, <3>1
    <3> HIDE DEF old, rest
    <3>5. CASE i \in 1..n
      <4>1. tx[w].ids[i] # id
        <5>1. CASE tx[w].ids[i] = id
          <6>1. {q \in old : q[1] = tx[w].ids[i]} = {}
            BY <3>3, <5>1
          <6>2. {p[2] : p \in {q \in old : q[1] = tx[w].ids[i]}} = {}
            BY <6>1
          <6> QED BY <3>2, <3>5, <6>2
        <5> QED BY <5>1
      <4>2. {q \in t.splits : q[1] = t.ids[i]} = {q \in old : q[1] = tx[w].ids[i]}
        BY <1>2, <3>4, <3>5, <4>1
      <4> QED BY <3>2, <3>5, <4>2
    <3>6. CASE i = n + 1
      <4>1. {q \in t.splits : q[1] = t.ids[i]} = {<<id, s>>}
        BY <1>2, <3>3, <3>4, <3>6
      <4>2. {p[2] : p \in {<<id, s>>}} = {s}
        OBVIOUS
      <4>3. {p[2] : p \in {q \in t.splits : q[1] = t.ids[i]}} = {s}
        BY <4>1, <4>2
      <4> QED BY <1>3, <3>6, <4>3
    <3>7. i \in 1..n \/ i = n + 1
      BY <1>1
    <3> QED BY <3>5, <3>6, <3>7
  <2> QED BY <2>4, <2>5 DEF SplitsSound
<1> QED BY <1>5, <1>6

\* A revision stays sound when samples stay in the table and jobs as they are.
LEMMA RevisionKept ==
  ASSUME NEW r \in Revision, RevisionSound(r),
         \A k \in Ids : sample[k] # "none" => sample'[k] # "none",
         \A v \in Writers : tx[v].pc # "none" => tx'[v].pc # "none" /\ Kind(v)' = Kind(v),
         tx[r.by].pc # "none",
         r.sample[1] # r.by => tx[r.sample[1]].pc # "none"
  PROVE  RevisionSound(r)'
<1>1. r.by \in Writers /\ r.sample \in Ids /\ r.sample[1] \in Writers
  BY DEF Revision, Ids
<1> QED BY <1>1 DEF RevisionSound

\* The uploader of a sample that others label is done.
LEMMA OthersAreDone ==
  ASSUME IInv, NEW r \in Revision, RevisionSound(r), r.sample[1] # r.by
  PROVE  tx[r.sample[1]].pc = "done"
<1>1. /\ r.sample \in Ids /\ r.sample[1] \in Writers /\ r.sample[2] \in Contents
      /\ r.sample = <<r.sample[1], r.sample[2]>>
  BY DEF Revision, Ids
<1> QED BY <1>1 DEF IInv, WriterSound, RevisionSound

\* One item of w becomes, or is found to be, sample id.
LEMMA ItemStep ==
  ASSUME IInv, NEW w \in Writers, NEW t \in Tx, NEW id \in Ids,
         Open(w), ~Done(w),
         tx' = [tx EXCEPT ![w] = t], UNCHANGED <<sample, revs, fails>>,
         t.pc = "open", t.job = tx[w].job,
         t.ids = Append(tx[w].ids, id), id[2] = Head1(w).content,
         tx[w].mine \subseteq t.mine,
         sample[id] # "none" \/ (id[1] = w /\ id[2] \in t.mine),
         \A c \in t.mine \ tx[w].mine : \A u \in Writers : ~Has(u, c),
         t.splits = tx[w].splits \/ t.splits = Put(tx[w].splits, id, Head1(w).split),
         \A r \in t.new \ tx[w].new : r.by = w /\ RevisionSound(r),
         tx[w].new \subseteq t.new,
         \A k \in Ids : Gapless(Numbers(revs \cup t.new, k)),
         Kind(w) = "annotated" => \A c \in t.mine \ tx[w].mine : First(w, c) \in t.new
  PROVE  IInv'
<1>1. /\ TypeOK /\ tx[w].pc = "open"
      /\ tx'[w] = t /\ \A v \in Writers \ {w} : tx'[v] = tx[v]
  BY DEF IInv, TypeOK, Open
<1>2. /\ t.mine \subseteq Contents /\ t.new \subseteq Revision
      /\ tx[w].ids \in Seq(Ids) /\ Len(tx[w].ids) \in Nat /\ Len(Items(w)) \in Nat
  BY <1>1, Parts DEF Tx
<1>3. \A v \in Writers : /\ Kind(v)' = Kind(v) /\ Items(v)' = Items(v)
                         /\ tx'[v].pc = tx[v].pc
  BY <1>1 DEF Kind, Items
<1>4. ContentsSound'
  <2> SUFFICES ASSUME NEW c \in Contents, NEW u \in Writers, NEW v \in Writers,
                      Has(u, c)', Has(v, c)', v # w
               PROVE  u = v
    BY DEF ContentsSound
  <2>1. Has(v, c)
    BY <1>1 DEF Has
  <2>2. Has(u, c)
    <3>1. CASE u # w
      BY <1>1, <3>1 DEF Has
    <3>2. CASE u = w
      BY <1>1, <2>1, <3>2 DEF Has
    <3> QED BY <3>1, <3>2
  <2> QED BY <2>1, <2>2 DEF IInv, ContentsSound
<1>5. TypeOK'
  <2>1. tx' \in [Writers -> {NoTx} \cup Tx]
    BY <1>1 DEF TypeOK
  <2> QED BY <1>1, <2>1 DEF TypeOK
<1>6. ASSUME NEW v \in Writers PROVE WriterSound(v)'
  BY <1>1, <1>3 DEF IInv, WriterSound
<1>7. ASSUME NEW v \in Writers PROVE IdsSound(v)'
  <2>1. CASE v # w
    BY <1>1, <1>3, <2>1 DEF IInv, IdsSound
  <2>2. CASE v = w
    <3>1. /\ Len(t.ids) = Len(tx[w].ids) + 1 /\ DOMAIN t.ids = 1..(Len(tx[w].ids) + 1)
          /\ DOMAIN tx[w].ids = 1..Len(tx[w].ids)
          /\ \A i \in 1..Len(tx[w].ids) : t.ids[i] = tx[w].ids[i]
          /\ t.ids[Len(tx[w].ids) + 1] = id
      BY <1>2
    <3>2. Len(tx[w].ids) + 1 <= Len(Items(w))
      BY <1>1, <1>2 DEF IInv, IdsSound, Done
    <3>3. ASSUME NEW i \in 1..(Len(tx[w].ids) + 1)
          PROVE  /\ t.ids[i][2] = Items(w)[i].content
                 /\ sample[t.ids[i]] # "none" \/ (t.ids[i][1] = w /\ t.ids[i][2] \in t.mine)
      <4>1. CASE i \in 1..Len(tx[w].ids)
        <5>1. /\ tx[w].ids[i][2] = Items(w)[i].content
              /\ sample[tx[w].ids[i]] # "none"
                   \/ (tx[w].ids[i][1] = w /\ tx[w].ids[i][2] \in tx[w].mine)
          BY <1>1, <3>1, <4>1 DEF IInv, IdsSound
        <5> QED BY <3>1, <4>1, <5>1
      <4>2. CASE i = Len(tx[w].ids) + 1
        BY <3>1, <4>2 DEF Head1
      <4> QED BY <1>2, <4>1, <4>2
    <3>4. /\ tx'[v] = t /\ Items(v)' = Items(w) /\ t.pc # "done"
          /\ Len(t.ids) <= Len(Items(w)) /\ DOMAIN t.ids = 1..(Len(tx[w].ids) + 1)
      BY <1>1, <1>3, <2>2, <3>1, <3>2
    <3>5. \A i \in DOMAIN t.ids :
            /\ t.ids[i][2] = Items(w)[i].content
            /\ sample'[t.ids[i]] # "none" \/ (t.ids[i][1] = v /\ t.ids[i][2] \in t.mine)
      BY <2>2, <3>3, <3>4
    <3> QED BY <3>4, <3>5 DEF IdsSound
  <2> QED BY <2>1, <2>2
<1>8. ASSUME NEW v \in Writers PROVE SplitsSound(v)'
  <2>1. CASE v # w
    <3>1. tx'[v] = tx[v] /\ Items(v)' = Items(v)
      BY <1>1, <1>3, <2>1
    <3>2. Whole(v)' <=> Whole(v)
      BY <3>1 DEF Whole
    <3> QED BY <3>1, <3>2 DEF IInv, SplitsSound
  <2>2. CASE v = w
    BY <1>1, <2>2, SplitsGrow
  <2> QED BY <2>1, <2>2
<1>9. ASSUME NEW v \in Writers PROVE FirstLabelsSound(v)'
  <2>1. First(v, 0)' = First(v, 0) /\ FirstLabelsSound(v)
    BY DEF IInv, First
  <2>2. CASE v # w
    BY <1>1, <1>3, <2>1, <2>2 DEF FirstLabelsSound, First
  <2>3. CASE v = w
    <3> SUFFICES ASSUME Kind(w) = "annotated", NEW c \in Contents
                 PROVE  /\ c \in t.mine => First(w, c) \in t.new
                        /\ sample[<<w, c>>] # "none" => First(w, c) \in revs
      BY <1>1, <1>3, <2>3 DEF FirstLabelsSound, First
    <3> QED BY <1>1, <2>1, <2>3 DEF FirstLabelsSound
  <2> QED BY <2>2, <2>3
<1>10. NumbersSound'
  <2> SUFFICES ASSUME NEW k \in Ids
               PROVE  /\ Gapless(Numbers(revs, k))'
                      /\ \A v \in Writers : Gapless(Numbers(All(v), k))'
    BY DEF NumbersSound
  <2>1. All(w)' = revs \cup t.new /\ \A v \in Writers \ {w} : All(v)' = All(v)
    BY <1>1 DEF All
  <2>2. Gapless(Numbers(revs, k)) /\ \A v \in Writers : Gapless(Numbers(All(v), k))
    BY DEF IInv, NumbersSound
  <2> QED BY <2>1, <2>2 DEF Gapless, Numbers
<1>11. RevsSound'
  <2>1. ASSUME NEW r \in Revision, RevisionSound(r), tx[r.by].pc # "none"
        PROVE  RevisionSound(r)'
    <3>1. r.sample[1] # r.by => tx[r.sample[1]].pc # "none"
      BY <2>1, OthersAreDone
    <3>2. \A k \in Ids : sample'[k] = sample[k]
      OBVIOUS
    <3> QED BY <1>3, <2>1, <3>1, <3>2, RevisionKept
  <2>2. ASSUME NEW r \in revs PROVE tx'[r.by].pc = "done" /\ RevisionSound(r)'
    <3>1. r \in Revision /\ r.by \in Writers /\ tx[r.by].pc = "done" /\ RevisionSound(r)
      BY <1>1 DEF IInv, RevsSound, TypeOK, Revision
    <3> QED BY <1>3, <2>1, <3>1
  <2>3. ASSUME NEW v \in Writers, NEW r \in tx'[v].new PROVE r.by = v /\ RevisionSound(r)'
    <3>1. CASE v # w
      <4>1. r \in tx[v].new /\ r.by = v /\ RevisionSound(r) /\ r \in Revision
        BY <1>1, <3>1, Parts DEF IInv, RevsSound
      <4>2. tx[v].pc = "open"
        BY <4>1 DEF IInv, WriterSound
      <4> QED BY <2>1, <4>1, <4>2
    <3>2. CASE v = w
      <4>1. r \in Revision /\ r.by = w /\ RevisionSound(r)
        BY <1>1, <1>2, <3>2 DEF IInv, RevsSound
      <4> QED BY <1>1, <2>1, <3>2, <4>1
    <3> QED BY <3>1, <3>2
  <2>4. revs' = revs
    OBVIOUS
  <2> QED BY <2>2, <2>3, <2>4 DEF RevsSound
<1> QED BY <1>4, <1>5, <1>6, <1>7, <1>8, <1>9, <1>10, <1>11 DEF IInv

-----------------------------------------------------------------------------
(* The actions.                                                              *)

\* The item at hand.
LEMMA AtHand ==
  ASSUME IInv, NEW w \in Writers, Open(w), ~Done(w)
  PROVE  Head1(w) \in Item /\ Head1(w).content \in Contents
<1>1. /\ tx[w].pc = "open" /\ Items(w) \in Seq(Item)
      /\ Len(tx[w].ids) \in Nat /\ Len(Items(w)) \in Nat /\ Len(tx[w].ids) <= Len(Items(w))
  BY Parts DEF IInv, IdsSound, Open
<1>2. Len(tx[w].ids) + 1 \in 1..Len(Items(w))
  BY <1>1 DEF Done
<1>3. Items(w)[Len(tx[w].ids) + 1] \in Item
  BY <1>1, <1>2
<1> QED BY <1>3 DEF Head1, Item

LEMMA TakeInv ==
  ASSUME IInv, NEW w \in Writers, InsertNew(w) \/ FindExisting(w)
  PROVE  IInv'
<1>1. /\ TypeOK /\ Open(w) /\ ~Done(w) /\ ~Blocked(w) /\ UNCHANGED <<sample, revs, fails>>
      /\ Kind(w) \in Uploads
  BY DEF IInv, InsertNew, FindExisting
<1>2. Head1(w) \in Item /\ Head1(w).content \in Contents
  BY <1>1, AtHand
<1> DEFINE c == Head1(w).content
<1>3. \A u \in Writers \ {w} : c \notin tx[u].mine
  BY <1>1 DEF Blocked, Waits
<1>4. PICK id \in Ids, fresh \in BOOLEAN :
        /\ Take(w, id, fresh) /\ id[2] = c
        /\ fresh => id[1] = w /\ Seen(w, c) = {}
        /\ ~fresh => sample[id] # "none" \/ (id[1] = w /\ c \in tx[w].mine)
  <2>1. CASE InsertNew(w)
    <3>1. <<w, c>> \in Ids
      BY <1>2 DEF Ids
    <3> QED BY <2>1, <3>1 DEF InsertNew
  <2>2. CASE FindExisting(w)
    <3>1. PICK id \in Seen(w, c) : Take(w, id, FALSE)
      BY <2>2 DEF FindExisting
    <3>2. /\ id \in Ids /\ id[2] = c
          /\ sample[id] # "none" \/ (id[1] = w /\ c \in tx[w].mine)
      BY <3>1 DEF Seen
    <3> QED BY <3>1, <3>2
  <2> QED BY <2>1, <2>2
<1>5. fresh => \A u \in Writers : ~Has(u, c)
  <2> SUFFICES ASSUME fresh, NEW u \in Writers, Has(u, c) PROVE FALSE
    OBVIOUS
  <2>1. <<u, c>> \in Ids
    BY <1>2 DEF Ids
  <2> QED BY <1>3, <1>4, <2>1 DEF Seen, Has
<1> DEFINE rev == [sample |-> id, no |-> Number(w, id), by |-> w]
           t == [tx[w] EXCEPT !.ids = Append(@, id),
                              !.mine = IF fresh THEN @ \cup {c} ELSE @,
                              !.new = IF Revises(w, fresh) THEN @ \cup {rev} ELSE @,
                              !.splits = IF Kind(w) = "import" THEN Put(@, id, Head1(w).split)
                                         ELSE @]
<1>6. tx' = [tx EXCEPT ![w] = t]
  BY <1>4 DEF Take
<1>7. tx[w] \in Tx /\ tx[w].pc = "open"
  BY <1>1, Parts DEF Open
<1>8. Revises(w, fresh) =>
        /\ rev \in Revision /\ RevisionSound(rev) /\ rev.by = w
        /\ \A k \in Ids : Gapless(Numbers(revs \cup (tx[w].new \cup {rev}), k))
  <2>1. sample[id] # "none" \/ id[1] = w
    BY <1>4
  <2>2. ASSUME Revises(w, fresh)
        PROVE  \/ Kind(w) # "annotated" /\ Number(w, id) = NextNo(w, id)
               \/ Kind(w) = "annotated" /\ Number(w, id) = 1 /\ id[1] = w
    BY <1>4, <2>2 DEF Revises, Number
  <2> QED BY <1>1, <2>1, <2>2, AddedRevision
<1>9. /\ t.pc = "open" /\ t.job = tx[w].job /\ t.ids = Append(tx[w].ids, id)
      /\ t.mine = IF fresh THEN tx[w].mine \cup {c} ELSE tx[w].mine
      /\ t.new = IF Revises(w, fresh) THEN tx[w].new \cup {rev} ELSE tx[w].new
      /\ t.splits = tx[w].splits \/ t.splits = Put(tx[w].splits, id, Head1(w).split)
  BY <1>7 DEF Tx
<1>10. t \in Tx
  <2>1. Append(tx[w].ids, id) \in Seq(Ids)
    BY <1>7 DEF Tx
  <2>2. (IF fresh THEN tx[w].mine \cup {c} ELSE tx[w].mine) \in SUBSET Contents
    BY <1>2, <1>7 DEF Tx
  <2>3. (IF Revises(w, fresh) THEN tx[w].new \cup {rev} ELSE tx[w].new) \in SUBSET Revision
    <3> HIDE DEF rev
    <3> QED BY <1>7, <1>8 DEF Tx
  <2>4. (IF Kind(w) = "import" THEN Put(tx[w].splits, id, Head1(w).split) ELSE tx[w].splits)
          \in SUBSET (Ids \X Split)
    <3>1. tx[w].splits \in SUBSET (Ids \X Split)
      BY <1>7 DEF Tx
    <3>2. Head1(w).split \in Split \cup {None}
      BY <1>2 DEF Item
    <3> HIDE DEF c
    <3>3. Put(tx[w].splits, id, Head1(w).split) \in SUBSET (Ids \X Split)
      BY <3>1, <3>2 DEF Put
    <3> QED BY <3>1, <3>3
  <2> HIDE DEF rev, c
  <2> QED BY <1>7, <2>1, <2>2, <2>3, <2>4 DEF Tx
<1>11. Kind(w) = "annotated" /\ fresh => First(w, c) \in t.new
  <2> SUFFICES ASSUME Kind(w) = "annotated", fresh PROVE First(w, c) \in t.new
    OBVIOUS
  <2>1. id = <<w, c>>
    BY <1>4 DEF Ids
  <2>2. Revises(w, fresh) /\ Number(w, id) = 1
    BY DEF Revises, Number
  <2>3. rev = First(w, c)
    BY <2>1, <2>2 DEF First
  <2> QED BY <1>9, <2>2, <2>3
<1> HIDE DEF t, rev, c
<1>12. id[2] = Head1(w).content
  BY <1>4 DEF c
<1>13. /\ tx[w].mine \subseteq t.mine
       /\ sample[id] # "none" \/ (id[1] = w /\ id[2] \in t.mine)
       /\ \A d \in t.mine \ tx[w].mine : d = c /\ fresh
  BY <1>4, <1>9
<1>14. /\ \A d \in t.mine \ tx[w].mine : \A u \in Writers : ~Has(u, d)
       /\ Kind(w) = "annotated" => \A d \in t.mine \ tx[w].mine : First(w, d) \in t.new
  BY <1>5, <1>11, <1>13
<1>15. /\ tx[w].new \subseteq t.new
       /\ \A r \in t.new \ tx[w].new : r.by = w /\ RevisionSound(r)
       /\ \A k \in Ids : Gapless(Numbers(revs \cup t.new, k))
  <2>1. CASE Revises(w, fresh)
    <3>1. t.new = tx[w].new \cup {rev}
      BY <1>9, <2>1
    <3> QED BY <1>8, <2>1, <3>1
  <2>2. CASE ~Revises(w, fresh)
    <3>1. t.new = tx[w].new
      BY <1>9, <2>2
    <3>2. \A k \in Ids : Gapless(Numbers(All(w), k))
      BY DEF IInv, NumbersSound
    <3> QED BY <3>1, <3>2 DEF All
  <2> QED BY <2>1, <2>2
<1> QED BY <1>1, <1>6, <1>9, <1>10, <1>12, <1>13, <1>14, <1>15, ItemStep

LEMMA AnnotateInv ==
  ASSUME IInv, NEW w \in Writers, Annotate(w)
  PROVE  IInv'
<1>1. /\ TypeOK /\ Open(w) /\ ~Done(w) /\ UNCHANGED <<sample, revs, fails>>
      /\ Kind(w) \notin Uploads
  BY DEF IInv, Annotate
<1> DEFINE Rev(id) == [sample |-> id, no |-> NextNo(w, id), by |-> w]
<1>2. PICK id \in Seen(w, Head1(w).content) :
        tx' = [tx EXCEPT ![w].ids = Append(@, id),
                         ![w].new = IF Head1(w).labels THEN @ \cup {Rev(id)} ELSE @]
  BY DEF Annotate
<1> DEFINE rev == Rev(id)
           t == [tx[w] EXCEPT !.ids = Append(@, id),
                              !.new = IF Head1(w).labels THEN @ \cup {rev} ELSE @]
<1>3. tx[w] \in Tx /\ tx[w].pc = "open" /\ tx \in [Writers -> {NoTx} \cup Tx]
  BY <1>1, Parts DEF Open, TypeOK
<1>4. tx' = [tx EXCEPT ![w] = t]
  BY <1>2, <1>3
<1>5. /\ id \in Ids /\ id[2] = Head1(w).content
      /\ sample[id] # "none" \/ (id[1] = w /\ id[2] \in tx[w].mine)
  BY <1>2 DEF Seen
<1>6. /\ rev \in Revision /\ RevisionSound(rev) /\ rev.by = w
      /\ \A k \in Ids : Gapless(Numbers(revs \cup (tx[w].new \cup {rev}), k))
  <2>1. sample[id] # "none" \/ id[1] = w
    BY <1>5
  <2>2. Kind(w) # "annotated"
    BY <1>1 DEF Uploads
  <2> QED BY <1>1, <1>5, <2>1, <2>2, AddedRevision
<1>7. /\ t.pc = "open" /\ t.job = tx[w].job /\ t.ids = Append(tx[w].ids, id)
      /\ t.mine = tx[w].mine /\ t.splits = tx[w].splits
      /\ t.new = IF Head1(w).labels THEN tx[w].new \cup {rev} ELSE tx[w].new
  BY <1>3 DEF Tx
<1>8. t \in Tx
  <2>1. Append(tx[w].ids, id) \in Seq(Ids)
    BY <1>3, <1>5 DEF Tx
  <2>2. (IF Head1(w).labels THEN tx[w].new \cup {rev} ELSE tx[w].new) \in SUBSET Revision
    <3> HIDE DEF rev
    <3> QED BY <1>3, <1>6 DEF Tx
  <2> HIDE DEF rev
  <2> QED BY <1>3, <2>1, <2>2 DEF Tx
<1> HIDE DEF t, rev, Rev
<1>9. /\ tx[w].new \subseteq t.new
      /\ \A r \in t.new \ tx[w].new : r.by = w /\ RevisionSound(r)
      /\ \A k \in Ids : Gapless(Numbers(revs \cup t.new, k))
  <2>1. CASE Head1(w).labels
    <3>1. t.new = tx[w].new \cup {rev}
      BY <1>7, <2>1
    <3> QED BY <1>6, <3>1
  <2>2. CASE ~Head1(w).labels
    <3>1. t.new = tx[w].new
      BY <1>7, <2>2
    <3>2. \A k \in Ids : Gapless(Numbers(All(w), k))
      BY DEF IInv, NumbersSound
    <3> QED BY <3>1, <3>2 DEF All
  <2> QED BY <2>1, <2>2
<1>10. /\ t.mine \ tx[w].mine = {} /\ tx[w].mine \subseteq t.mine
       /\ sample[id] # "none" \/ (id[1] = w /\ id[2] \in t.mine)
  BY <1>5, <1>7
<1> QED BY <1>1, <1>4, <1>5, <1>7, <1>8, <1>9, <1>10, ItemStep

\* A transaction begins, or is rolled back.
LEMMA ResetStep ==
  ASSUME IInv, NEW w \in Writers, NEW t \in Tx,
         tx' = [tx EXCEPT ![w] = t], UNCHANGED <<sample, revs>>, fails' \in Nat,
         tx[w].pc = "none" \/ (tx[w].pc = "open" /\ t.job = tx[w].job),
         t.pc \in {"open", "failed"},
         t.ids = <<>>, t.mine = {}, t.new = {}, t.splits = {}
  PROVE  IInv'
<1>1. /\ TypeOK /\ tx'[w] = t /\ \A v \in Writers \ {w} : tx'[v] = tx[v]
      /\ tx[w].pc \in {"none", "open"}
  BY DEF IInv, TypeOK
<1>2. /\ \A v \in Writers : tx[v].pc # "none" => /\ tx'[v].pc # "none"
                                                 /\ Kind(v)' = Kind(v) /\ Items(v)' = Items(v)
      /\ \A v \in Writers : tx[v].pc = "done" => tx'[v].pc = "done"
  BY <1>1 DEF Kind, Items
<1>3. ContentsSound'
  BY <1>1 DEF IInv, ContentsSound, Has
<1>4. TypeOK'
  <2>1. tx' \in [Writers -> {NoTx} \cup Tx]
    BY <1>1 DEF TypeOK
  <2> QED BY <1>1, <2>1 DEF TypeOK
<1>5. ASSUME NEW v \in Writers PROVE WriterSound(v)'
  <2>1. WriterSound(v)
    BY DEF IInv
  <2>2. CASE v = w
    BY <1>1, <2>1, <2>2 DEF WriterSound
  <2>3. CASE v # w
    BY <1>1, <2>1, <2>3 DEF WriterSound
  <2> QED BY <2>2, <2>3
<1>6. ASSUME NEW v \in Writers PROVE IdsSound(v)' /\ SplitsSound(v)'
  <2>1. CASE v = w
    <3>1. /\ tx'[v] = t /\ Len(t.ids) = 0 /\ DOMAIN t.ids = {} /\ Len(Items(v)') \in Nat
      <4>1. t.job \in Jobs
        BY DEF Tx
      <4>2. t.job.items \in Seq(Item)
        BY <4>1, StoreAssumption DEF Job
      <4> QED BY <1>1, <2>1, <4>2 DEF Items
    <3>2. IsFiniteSet(t.splits) /\ Cardinality(t.splits) = 0
      BY FS_EmptySet
    <3>3. IdsSound(v)'
      BY <3>1 DEF IdsSound
    <3>4. SplitsSound(v)'
      <4>1. Whole(v)'
        BY <3>1 DEF Whole
      <4>2. tx'[v].splits = t.splits /\ tx'[v].ids = t.ids
        BY <3>1
      <4>3. IsFiniteSet(tx'[v].splits) /\ Cardinality(tx'[v].splits) = 0 /\ Len(tx'[v].ids) = 0
        BY <3>1, <3>2, <4>2
      <4> QED BY <4>1, <4>3 DEF SplitsSound
    <3> QED BY <3>3, <3>4
  <2>2. CASE v # w
    <3>1. tx'[v] = tx[v] /\ Items(v)' = Items(v) /\ IdsSound(v) /\ SplitsSound(v)
      BY <1>1, <2>2 DEF IInv, Items
    <3>2. Whole(v)' <=> Whole(v)
      BY <3>1 DEF Whole
    <3> QED BY <3>1, <3>2 DEF IdsSound, SplitsSound
  <2> QED BY <2>1, <2>2
<1>7. ASSUME NEW v \in Writers PROVE FirstLabelsSound(v)'
  <2>1. \A c \in Contents : First(v, c)' = First(v, c)
    BY DEF First
  <2>2. CASE v = w
    <3>1. \A c \in Contents : sample[<<w, c>>] = "none"
      BY <1>1 DEF IInv, WriterSound
    <3> QED BY <1>1, <2>2, <3>1 DEF FirstLabelsSound
  <2>3. CASE v # w
    <3>1. tx'[v] = tx[v] /\ Kind(v)' = Kind(v) /\ FirstLabelsSound(v)
      BY <1>1, <2>3 DEF IInv, Kind
    <3> QED BY <2>1, <3>1 DEF FirstLabelsSound
  <2> QED BY <2>2, <2>3
<1>8. NumbersSound'
  <2> SUFFICES ASSUME NEW k \in Ids
               PROVE  /\ Gapless(Numbers(revs, k))'
                      /\ \A v \in Writers : Gapless(Numbers(All(v), k))'
    BY DEF NumbersSound
  <2>1. All(w)' = revs /\ \A v \in Writers \ {w} : All(v)' = All(v)
    BY <1>1 DEF All
  <2>2. Gapless(Numbers(revs, k)) /\ \A v \in Writers : Gapless(Numbers(All(v), k))
    BY DEF IInv, NumbersSound
  <2> QED BY <2>1, <2>2 DEF Gapless, Numbers
<1>9. RevsSound'
  <2>1. ASSUME NEW r \in Revision, RevisionSound(r), tx[r.by].pc # "none"
        PROVE  RevisionSound(r)'
    <3>1. r.sample[1] # r.by => tx[r.sample[1]].pc # "none"
      BY <2>1, OthersAreDone
    <3>2. \A k \in Ids : sample'[k] = sample[k]
      OBVIOUS
    <3> QED BY <1>2, <2>1, <3>1, <3>2, RevisionKept
  <2>2. ASSUME NEW r \in revs PROVE tx'[r.by].pc = "done" /\ RevisionSound(r)'
    <3>1. r \in Revision /\ r.by \in Writers /\ tx[r.by].pc = "done" /\ RevisionSound(r)
      BY <1>1 DEF IInv, RevsSound, TypeOK, Revision
    <3> QED BY <1>2, <2>1, <3>1
  <2>3. ASSUME NEW v \in Writers, NEW r \in tx'[v].new PROVE r.by = v /\ RevisionSound(r)'
    <3>1. v # w /\ r \in tx[v].new
      BY <1>1, <2>3
    <3>2. r.by = v /\ RevisionSound(r) /\ r \in Revision
      BY <1>1, <3>1, Parts DEF IInv, RevsSound
    <3>3. tx[v].pc = "open"
      BY <3>1 DEF IInv, WriterSound
    <3> QED BY <2>1, <3>2, <3>3
  <2> QED BY <2>2, <2>3 DEF RevsSound
<1> QED BY <1>3, <1>4, <1>5, <1>6, <1>7, <1>8, <1>9 DEF IInv

LEMMA BeginInv ==
  ASSUME IInv, NEW w \in Writers, NEW j \in Jobs, Begin(w, j)
  PROVE  IInv'
<1> DEFINE t == [pc |-> "open", job |-> j, ids |-> <<>>, mine |-> {}, new |-> {}, splits |-> {}]
<1>1. tx[w].pc = "none" /\ tx' = [tx EXCEPT ![w] = t] /\ UNCHANGED <<sample, revs, fails>>
  BY DEF Begin
<1>2. fails' \in Nat
  BY <1>1 DEF IInv, TypeOK
<1>3. t \in Tx
  BY DEF Tx
<1>4. /\ t.pc \in {"open", "failed"}
      /\ t.ids = <<>> /\ t.mine = {} /\ t.new = {} /\ t.splits = {}
  OBVIOUS
<1> HIDE DEF t
<1> QED BY <1>1, <1>2, <1>3, <1>4, ResetStep

LEMMA RollbackInv ==
  ASSUME IInv, NEW w \in Writers, Fail(w) \/ NotFound(w) \/ Victim(w)
  PROVE  IInv'
<1>1. TypeOK /\ Open(w) /\ Rollback(w) /\ UNCHANGED <<sample, revs>> /\ fails' \in Nat
  <2>1. Victim(w) => Open(w)
    BY DEF Victim, Deadlocked, Waits
  <2> QED BY <2>1 DEF IInv, TypeOK, Fail, NotFound, Victim
<1> DEFINE t == [tx[w] EXCEPT !.pc = "failed", !.ids = <<>>, !.mine = {},
                              !.new = {}, !.splits = {}]
<1>2. tx' = [tx EXCEPT ![w] = t]
  BY <1>1 DEF Rollback
<1>3. tx[w] \in Tx /\ tx[w].pc = "open"
  BY <1>1, Parts DEF Open
<1>4. /\ t.pc \in {"open", "failed"} /\ t.job = tx[w].job
      /\ t.ids = <<>> /\ t.mine = {} /\ t.new = {} /\ t.splits = {}
  BY <1>3 DEF Tx
<1>5. t \in Tx
  <2>1. <<>> \in Seq(Ids) /\ {} \in SUBSET Contents /\ {} \in SUBSET Revision
        /\ {} \in SUBSET (Ids \X Split)
    OBVIOUS
  <2> QED BY <1>3, <2>1 DEF Tx
<1> HIDE DEF t
<1> QED BY <1>1, <1>2, <1>3, <1>4, <1>5, ResetStep

LEMMA DeleteInv ==
  ASSUME IInv, NEW id \in Ids, DeleteSample(id)
  PROVE  IInv'
<1>1. /\ TypeOK /\ UNCHANGED <<revs, tx, fails>>
      /\ sample' \in [Ids -> {"none", "live", "deleted"}]
      /\ \A k \in Ids : sample'[k] # "none" <=> sample[k] # "none"
  BY DEF IInv, TypeOK, DeleteSample
<1>2. \A w \in Writers, c \in Contents : <<w, c>> \in Ids
  BY DEF Ids
<1>3. ContentsSound'
  BY <1>1, <1>2 DEF IInv, ContentsSound, Has
<1>4. TypeOK'
  <2>1. \A c \in Contents : Cardinality({w \in Writers : sample'[<<w, c>>] # "none"}) <= 1
    <3> SUFFICES ASSUME NEW c \in Contents
                 PROVE  Cardinality({w \in Writers : sample'[<<w, c>>] # "none"}) <= 1
      OBVIOUS
    <3>1. \A u, w \in {v \in Writers : sample'[<<v, c>>] # "none"} : u = w
      BY <1>3 DEF ContentsSound, Has
    <3> QED BY <3>1, OneAtMost
  <2> QED BY <1>1, <2>1 DEF TypeOK
<1>5. ASSUME NEW w \in Writers
      PROVE  WriterSound(w)' /\ IdsSound(w)' /\ SplitsSound(w)' /\ FirstLabelsSound(w)'
  <2>1. Items(w)' = Items(w) /\ Kind(w)' = Kind(w) /\ tx'[w] = tx[w]
        /\ (Whole(w)' <=> Whole(w)) /\ \A c \in Contents : First(w, c)' = First(w, c)
    BY <1>1 DEF Items, Kind, Whole, First
  <2>2. WriterSound(w)' /\ SplitsSound(w)' /\ FirstLabelsSound(w)'
    BY <1>1, <1>2, <2>1 DEF IInv, WriterSound, SplitsSound, FirstLabelsSound
  <2>3. IdsSound(w)'
    <3>1. tx[w].ids \in Seq(Ids)
      BY <1>1, Parts
    <3>2. \A i \in DOMAIN tx[w].ids : tx[w].ids[i] \in Ids
      BY <3>1
    <3> QED BY <1>1, <2>1, <3>2 DEF IInv, IdsSound
  <2> QED BY <2>2, <2>3
<1>6. NumbersSound'
  BY <1>1 DEF IInv, NumbersSound, All, Gapless, Numbers
<1>7. RevsSound'
  <2>1. ASSUME NEW r \in Revision, RevisionSound(r), tx[r.by].pc # "none"
        PROVE  RevisionSound(r)'
    <3>1. r.sample[1] # r.by => tx[r.sample[1]].pc # "none"
      BY <2>1, OthersAreDone
    <3>2. \A v \in Writers : tx[v].pc # "none" => tx'[v].pc # "none" /\ Kind(v)' = Kind(v)
      BY <1>1 DEF Kind
    <3> QED BY <1>1, <2>1, <3>1, <3>2, RevisionKept
  <2>2. \A r \in revs : r \in Revision /\ tx[r.by].pc = "done" /\ RevisionSound(r)
    BY <1>1 DEF IInv, RevsSound, TypeOK
  <2>3. ASSUME NEW w \in Writers, NEW r \in tx[w].new
        PROVE  r \in Revision /\ r.by = w /\ RevisionSound(r) /\ tx[r.by].pc # "none"
    <3>1. r \in Revision /\ r.by = w /\ RevisionSound(r)
      BY <1>1, Parts DEF IInv, RevsSound
    <3>2. tx[w].pc = "open"
      BY <2>3 DEF IInv, WriterSound
    <3> QED BY <3>1, <3>2
  <2> QED BY <1>1, <2>1, <2>2, <2>3 DEF RevsSound
<1> QED BY <1>3, <1>4, <1>5, <1>6, <1>7 DEF IInv

LEMMA CommitInv ==
  ASSUME IInv, NEW w \in Writers, Commit(w)
  PROVE  IInv'
<1> DEFINE t == [tx[w] EXCEPT !.pc = "done", !.mine = {}, !.new = {}, !.splits = PassOn(w)]
<1>1. /\ TypeOK /\ tx[w] \in Tx /\ tx[w].pc = "open" /\ tx[w].job \in Jobs
      /\ tx[w].ids \in Seq(Ids) /\ tx[w].mine \subseteq Contents
      /\ tx[w].new \subseteq Revision /\ tx[w].splits \subseteq Ids \X Split
      /\ Len(tx[w].ids) = Len(Items(w)) /\ Len(Items(w)) \in Nat \ {0}
      /\ revs' = revs \cup tx[w].new /\ fails' = fails
      /\ tx' = [tx EXCEPT ![w] = t]
  BY Parts DEF IInv, Commit, Open, Done
<1>2. PassOn(w) \in {tx[w].splits, {}} /\ PassOn(w) \subseteq Ids \X Split
  BY <1>1 DEF PassOn
<1>3. /\ t.pc = "done" /\ t.job = tx[w].job /\ t.ids = tx[w].ids
      /\ t.mine = {} /\ t.new = {} /\ t.splits = PassOn(w)
  BY <1>1 DEF Tx
<1>4. t \in Tx
  <2>1. {} \in SUBSET Contents /\ {} \in SUBSET Revision /\ PassOn(w) \in SUBSET (Ids \X Split)
    BY <1>2
  <2> QED BY <1>1, <2>1 DEF Tx
<1> HIDE DEF t
<1>5. tx'[w] = t /\ \A v \in Writers \ {w} : tx'[v] = tx[v]
  BY <1>1 DEF TypeOK
<1>6. /\ sample' \in [Ids -> {"none", "live", "deleted"}]
      /\ \A k \in Ids : sample'[k] # "none" <=>
                          sample[k] # "none" \/ (k[1] = w /\ k[2] \in tx[w].mine)
  BY <1>1 DEF Commit, TypeOK
<1>7. \A v \in Writers, c \in Contents :
        /\ <<v, c>> \in Ids
        /\ sample'[<<v, c>>] # "none" <=>
             sample[<<v, c>>] # "none" \/ (v = w /\ c \in tx[w].mine)
  BY <1>6 DEF Ids
<1>8. /\ \A v \in Writers : Kind(v)' = Kind(v) /\ Items(v)' = Items(v)
      /\ \A v \in Writers : tx[v].pc # "none" => tx'[v].pc # "none"
  BY <1>1, <1>3, <1>5 DEF Kind, Items
<1>9. ContentsSound'
  <2>1. \A c \in Contents, v \in Writers : Has(v, c)' <=> Has(v, c)
    BY <1>3, <1>5, <1>7 DEF Has
  <2> QED BY <2>1 DEF IInv, ContentsSound
<1>10. TypeOK'
  <2>1. \A c \in Contents : Cardinality({v \in Writers : sample'[<<v, c>>] # "none"}) <= 1
    <3> SUFFICES ASSUME NEW c \in Contents
                 PROVE  Cardinality({v \in Writers : sample'[<<v, c>>] # "none"}) <= 1
      OBVIOUS
    <3>1. \A u, v \in {v \in Writers : sample'[<<v, c>>] # "none"} : u = v
      BY <1>9 DEF ContentsSound, Has
    <3> QED BY <3>1, OneAtMost
  <2>2. tx' \in [Writers -> {NoTx} \cup Tx]
    BY <1>1, <1>4 DEF TypeOK
  <2> QED BY <1>1, <1>6, <2>1, <2>2 DEF TypeOK
<1>11. ASSUME NEW v \in Writers PROVE WriterSound(v)'
  BY <1>3, <1>5, <1>7 DEF IInv, WriterSound
<1>12. ASSUME NEW v \in Writers PROVE IdsSound(v)'
  <2>1. /\ tx'[v].ids = tx[v].ids /\ Items(v)' = Items(v) /\ IdsSound(v) /\ tx[v].ids \in Seq(Ids)
        /\ v # w => tx'[v] = tx[v]
    BY <1>1, <1>3, <1>5, <1>8, Parts DEF IInv
  <2>2. \A i \in DOMAIN tx[v].ids : tx[v].ids[i] \in Ids
    BY <2>1
  <2>3. CASE v = w
    BY <1>1, <1>3, <1>5, <1>6, <2>1, <2>2, <2>3 DEF IdsSound
  <2>4. CASE v # w
    BY <1>6, <2>1, <2>2, <2>4 DEF IdsSound
  <2> QED BY <2>3, <2>4
<1>13. ASSUME NEW v \in Writers PROVE SplitsSound(v)'
  <2>1. CASE v = w
    <3>1. SplitsSound(w) /\ tx'[v].splits = PassOn(w) /\ tx'[v].ids = tx[w].ids
      BY <1>3, <1>5, <2>1 DEF IInv
    <3>2. CASE Cardinality(tx[w].splits) = Len(tx[w].ids)
      <4>1. PassOn(w) = tx[w].splits /\ Whole(w)
        BY <3>1, <3>2 DEF PassOn, SplitsSound
      <4>2. Whole(v)'
        BY <1>8, <2>1, <3>1, <4>1 DEF Whole
      <4> QED BY <2>1, <3>1, <4>1, <4>2 DEF SplitsSound
    <3>3. CASE Cardinality(tx[w].splits) # Len(tx[w].ids)
      <4>1. PassOn(w) = {}
        BY <3>3 DEF PassOn
      <4>2. IsFiniteSet(tx'[v].splits) /\ Cardinality(tx'[v].splits) = 0 /\ tx'[v].splits = {}
        BY <3>1, <4>1, FS_EmptySet
      <4>3. Len(tx'[v].ids) \in Nat \ {0}
        BY <1>1, <3>1
      <4> QED BY <4>2, <4>3 DEF SplitsSound
    <3> QED BY <3>2, <3>3
  <2>2. CASE v # w
    <3>1. tx'[v] = tx[v] /\ Items(v)' = Items(v) /\ SplitsSound(v)
      BY <1>5, <1>8, <2>2 DEF IInv
    <3>2. Whole(v)' <=> Whole(v)
      BY <3>1 DEF Whole
    <3> QED BY <3>1, <3>2 DEF SplitsSound
  <2> QED BY <2>1, <2>2
<1>14. ASSUME NEW v \in Writers PROVE FirstLabelsSound(v)'
  <2>1. FirstLabelsSound(v) /\ Kind(v)' = Kind(v) /\ \A c \in Contents : First(v, c)' = First(v, c)
    BY <1>8 DEF IInv, First
  <2>2. CASE v = w
    BY <1>1, <1>3, <1>5, <1>7, <2>1, <2>2 DEF FirstLabelsSound
  <2>3. CASE v # w
    BY <1>1, <1>5, <1>7, <2>1, <2>3 DEF FirstLabelsSound
  <2> QED BY <2>2, <2>3
<1>15. NumbersSound'
  <2>1. /\ revs' = All(w) /\ All(w)' = All(w)
        /\ \A v \in Writers \ {w} : All(v)' = All(w) \cup All(v)
    BY <1>1, <1>3, <1>5 DEF All
  <2> SUFFICES ASSUME NEW k \in Ids
               PROVE  /\ Gapless(Numbers(revs, k))'
                      /\ \A v \in Writers : Gapless(Numbers(All(v), k))'
    BY DEF NumbersSound
  <2>2. \A v \in Writers : Gapless(Numbers(All(v), k))
    BY DEF IInv, NumbersSound
  <2>3. ASSUME NEW v \in Writers PROVE Gapless(Numbers(All(v)', k))
    <3>1. CASE v = w
      BY <2>1, <2>2, <3>1
    <3>2. CASE v # w
      <4>1. Numbers(All(w) \cup All(v), k) = Numbers(All(w), k) \cup Numbers(All(v), k)
        BY NumbersOfUnion
      <4>2. Gapless(Numbers(All(w) \cup All(v), k))
        BY <2>2, <4>1, GaplessUnion
      <4> QED BY <2>1, <3>2, <4>2
    <3> QED BY <3>1, <3>2
  <2>4. Gapless(Numbers(revs', k))
    BY <2>1, <2>2
  <2>5. /\ \A v \in Writers : Gapless(Numbers(All(v), k))' <=> Gapless(Numbers(All(v)', k))
        /\ Gapless(Numbers(revs, k))' <=> Gapless(Numbers(revs', k))
    BY DEF Gapless, Numbers
  <2> QED BY <2>3, <2>4, <2>5
<1>16. RevsSound'
  <2>1. ASSUME NEW r \in Revision, RevisionSound(r), tx[r.by].pc # "none"
        PROVE  RevisionSound(r)'
    <3>1. r.sample[1] # r.by => tx[r.sample[1]].pc # "none"
      BY <2>1, OthersAreDone
    <3> QED BY <1>6, <1>8, <2>1, <3>1, RevisionKept
  <2>2. ASSUME NEW v \in Writers, NEW r \in tx[v].new
        PROVE  r.by = v /\ RevisionSound(r)'
    <3>1. r \in Revision /\ r.by = v /\ RevisionSound(r)
      BY <1>1, Parts DEF IInv, RevsSound
    <3>2. tx[v].pc = "open"
      BY <2>2 DEF IInv, WriterSound
    <3> QED BY <2>1, <3>1, <3>2
  <2>3. ASSUME NEW r \in revs PROVE tx'[r.by].pc = "done" /\ RevisionSound(r)'
    <3>1. r \in Revision /\ r.by \in Writers /\ tx[r.by].pc = "done" /\ RevisionSound(r)
      BY <1>1 DEF IInv, RevsSound, TypeOK, Revision
    <3> QED BY <1>3, <1>5, <2>1, <3>1
  <2>4. ASSUME NEW v \in Writers, NEW r \in tx'[v].new PROVE r.by = v /\ RevisionSound(r)'
    <3>1. r \in tx[v].new
      BY <1>3, <1>5, <2>4
    <3> QED BY <2>2, <3>1
  <2>5. \A r \in revs' : r \in revs \/ r \in tx[w].new
    BY <1>1
  <2> QED BY <1>3, <1>5, <2>2, <2>3, <2>4, <2>5 DEF RevsSound
<1> QED BY <1>9, <1>10, <1>11, <1>12, <1>13, <1>14, <1>15, <1>16 DEF IInv

-----------------------------------------------------------------------------

LEMMA StutterInv == IInv /\ UNCHANGED vars => IInv'
<1> SUFFICES ASSUME IInv, UNCHANGED vars PROVE IInv'
  OBVIOUS
<1> USE DEF vars
<1>1. TypeOK' /\ ContentsSound'
  BY DEF IInv, TypeOK, ContentsSound, Has
<1>2. ASSUME NEW w \in Writers
      PROVE  WriterSound(w)' /\ IdsSound(w)' /\ SplitsSound(w)' /\ FirstLabelsSound(w)'
  <2>1. Items(w)' = Items(w) /\ Kind(w)' = Kind(w)
        /\ (Whole(w)' <=> Whole(w)) /\ \A c \in Contents : First(w, c)' = First(w, c)
    BY DEF Items, Kind, Whole, First
  <2> QED BY <2>1 DEF IInv, WriterSound, IdsSound, SplitsSound, FirstLabelsSound
<1>3. NumbersSound' /\ RevsSound'
  BY DEF IInv, NumbersSound, All, Gapless, Numbers, RevsSound, RevisionSound, Kind
<1> QED BY <1>1, <1>2, <1>3 DEF IInv

LEMMA StepInv == IInv /\ [Next]_vars => IInv'
<1> SUFFICES ASSUME IInv, [Next]_vars PROVE IInv'
  OBVIOUS
<1>1. ASSUME NEW w \in Writers,
             \/ \E j \in Jobs : Begin(w, j)
             \/ InsertNew(w) \/ FindExisting(w) \/ Annotate(w) \/ NotFound(w) \/ Commit(w)
             \/ Fail(w) \/ Victim(w)
      PROVE  IInv'
  BY <1>1, BeginInv, TakeInv, AnnotateInv, RollbackInv, CommitInv
<1>2. CASE \E id \in Ids : DeleteSample(id)
  BY <1>2, DeleteInv
<1>3. CASE UNCHANGED vars
  BY <1>3, StutterInv
<1> QED BY <1>1, <1>2, <1>3 DEF Next

\* The inductive invariant holds in every reachable state.
THEOREM Invariance == Spec => []IInv
<1>1. Init => IInv
  BY InitInv
<1>2. IInv /\ [Next]_vars => IInv'
  BY StepInv
<1> QED BY <1>1, <1>2, PTL DEF Spec

LEMMA IInvIsSound == IInv => StoreIsSound
<1> SUFFICES ASSUME IInv PROVE StoreIsSound
  OBVIOUS
<1>1. ReturnedIdsExist
  <2> SUFFICES ASSUME NEW w \in Writers, tx[w].pc = "done", NEW i \in DOMAIN Items(w)
               PROVE  /\ sample[tx[w].ids[i]] # "none"
                      /\ tx[w].ids[i][2] = Items(w)[i].content
    BY DEF ReturnedIdsExist
  <2>1. tx[w].mine = {} /\ IdsSound(w)
    BY DEF IInv, WriterSound
  <2>2. i \in DOMAIN tx[w].ids
    <3>1. tx[w].ids \in Seq(Ids) /\ Items(w) \in Seq(Item) /\ Len(tx[w].ids) = Len(Items(w))
      BY <2>1, Parts DEF IInv, IdsSound
    <3> QED BY <3>1
  <2> QED BY <2>1, <2>2 DEF IdsSound
<1>2. NumbersHaveNoGaps
  <2> SUFFICES ASSUME NEW id \in Ids
               PROVE  Numbers(revs, id) = 1..Cardinality(Numbers(revs, id))
    BY DEF NumbersHaveNoGaps, Numbers
  <2>1. PICK n \in Nat : Numbers(revs, id) = 1..n
    BY DEF IInv, NumbersSound, Gapless
  <2>2. Cardinality(1..n) = n
    BY FS_Interval
  <2> QED BY <2>1, <2>2
<1>3. SplitsAreWhole
  <2> SUFFICES ASSUME NEW w \in Writers, tx[w].pc = "done", tx[w].splits # {},
                      NEW i \in DOMAIN Items(w)
               PROVE  SplitsOf(tx[w].splits, tx[w].ids[i]) = {Items(w)[i].split}
    BY DEF SplitsAreWhole, SplitsOf
  <2>1. Whole(w)
    BY DEF IInv, SplitsSound
  <2>2. i \in DOMAIN tx[w].ids
    <3>1. tx[w].ids \in Seq(Ids) /\ Items(w) \in Seq(Item) /\ Len(tx[w].ids) = Len(Items(w))
      BY Parts DEF IInv, IdsSound
    <3> QED BY <3>1
  <2> QED BY <2>1, <2>2 DEF Whole
<1> QED BY <1>1, <1>2, <1>3 DEF IInv, StoreIsSound

\* A content has one sample per project, the ids that a writer returns are of its items'
\* rows, numbers have no gap and splits are whole, whoever races, deadlocks, fails or
\* deletes (confirm_images, import_annotated_images, _ingest, auto_label).
THEOREM SamplesAreSound == Spec => []StoreIsSound
<1> QED BY IInvIsSound, Invariance, PTL

\* The labels that an image is uploaded with are its revision 1 and the only one, and all
\* others come after them (import_annotated_images).
THEOREM LabelsComeFirst == Spec => []UploadedLabelsComeFirst
<1>1. IInv => UploadedLabelsComeFirst
  <2> SUFFICES ASSUME IInv, NEW r \in revs, NEW q \in revs, Kind(r.by) = "annotated",
                      q.sample = r.sample, q # r
               PROVE  r.no = 1 /\ q.no > 1
    BY DEF UploadedLabelsComeFirst
  <2>1. /\ r \in Revision /\ RevisionSound(r) /\ tx[r.by].pc = "done"
        /\ q \in Revision /\ RevisionSound(q) /\ tx[q.by].pc = "done"
    BY DEF IInv, RevsSound, TypeOK
  <2>2. r.no = 1 /\ r.sample[1] = r.by
    BY <2>1 DEF RevisionSound
  <2>3. CASE q.by = r.by
    <3>1. q.no = 1
      BY <2>1, <2>3 DEF RevisionSound
    <3>2. /\ r = [sample |-> r.sample, no |-> r.no, by |-> r.by]
          /\ q = [sample |-> q.sample, no |-> q.no, by |-> q.by]
      BY <2>1 DEF Revision
    <3> QED BY <2>2, <2>3, <3>1, <3>2
  <2>4. CASE q.by # r.by
    BY <2>1, <2>2, <2>4 DEF RevisionSound
  <2> QED BY <2>2, <2>3, <2>4
<1> QED BY <1>1, Invariance, PTL
=============================================================================
