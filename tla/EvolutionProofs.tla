--------------------------- MODULE EvolutionProofs ---------------------------
(***************************************************************************)
(* Proofs that the histories evolution-freeze records conform to the       *)
(* policy for every set of contracts, every set of documents and every     *)
(* interleaving of edits, freezes and crashes.                             *)
(***************************************************************************)
EXTENDS Evolution, TLAPS

-----------------------------------------------------------------------------
(* The policy *)

\* A message field is compared whatever the two snapshots hold.
LEMMA HolderIsTop == \A p : ~IsNested(Holder(p))
  BY DEF IsNested, Holder

\* Bindings that break at neither of two steps do not break over both.
LEMMA BindingTransitive ==
  ASSUME NEW a, NEW b, NEW c, ~BindingBreaks(a, b), ~BindingBreaks(b, c)
  PROVE  ~BindingBreaks(a, c)
  BY DEF BindingBreaks

\* Nor do the attributes of one field.
LEMMA FieldTransitive ==
  ASSUME NEW a, NEW b, NEW c, ~FieldBreaks(a, b), ~FieldBreaks(b, c)
  PROVE  ~FieldBreaks(a, c)
  BY BindingTransitive DEF FieldBreaks

\* A path compared between the ends is compared at both steps, because the
\* field that holds its record can neither vanish nor change its record.
LEMMA ComparedBetween ==
  ASSUME NEW a, NEW b, NEW c, NEW p,
         ~FieldsBreak(a, b), ~FieldsBreak(b, c), Compared(a, c, p)
  PROVE  Compared(a, b, p) /\ Compared(b, c, p)
<1>1. CASE ~IsNested(p)
  BY <1>1 DEF Compared
<1>2. CASE IsNested(p)
  <2>1. Compared(a, b, Holder(p))
    BY HolderIsTop DEF Compared
  <2>2. /\ Holder(p) \in DOMAIN a /\ a[Holder(p)].rec # NoRecord
        /\ Holder(p) \in DOMAIN c /\ c[Holder(p)].rec # NoRecord
    BY <1>2 DEF Compared
  <2>3. Holder(p) \in DOMAIN b
    BY <2>1, <2>2 DEF FieldsBreak, RemovesField
  <2>4. a[Holder(p)].rec = b[Holder(p)].rec
    BY <2>1, <2>2, <2>3 DEF FieldsBreak, ChangesField, FieldBreaks
  <2>. QED
    BY <2>2, <2>3, <2>4 DEF Compared
<1>. QED
  BY <1>1, <1>2

LEMMA FieldsTransitive ==
  ASSUME NEW a, NEW b, NEW c, ~FieldsBreak(a, b), ~FieldsBreak(b, c)
  PROVE  ~FieldsBreak(a, c)
<1>1. ~RemovesField(a, c)
  BY ComparedBetween DEF FieldsBreak, RemovesField
<1>2. ASSUME NEW p \in DOMAIN a \cap DOMAIN c, Compared(a, c, p)
      PROVE  ~FieldBreaks(a[p], c[p])
  <2>1. Compared(a, b, p) /\ Compared(b, c, p)
    BY <1>2, ComparedBetween
  <2>2. p \in DOMAIN b
    BY <2>1 DEF FieldsBreak, RemovesField
  <2>3. ~FieldBreaks(a[p], b[p]) /\ ~FieldBreaks(b[p], c[p])
    BY <2>1, <2>2 DEF FieldsBreak, ChangesField
  <2>. QED
    BY <2>3, FieldTransitive
<1>3. ASSUME NEW p \in DOMAIN c \ DOMAIN a, Compared(a, c, p)
      PROVE  ~c[p].required
  <2>1. Compared(a, b, p) /\ Compared(b, c, p)
    BY <1>3, ComparedBetween
  <2>2. CASE p \notin DOMAIN b
    BY <2>1, <2>2 DEF FieldsBreak, RequiresMore
  <2>3. CASE p \in DOMAIN b
    <3>1. ~b[p].required
      BY <2>1, <2>3 DEF FieldsBreak, RequiresMore
    <3>2. b[p].required = c[p].required
      BY <2>1, <2>3 DEF FieldsBreak, ChangesField, FieldBreaks
    <3>. QED
      BY <3>1, <3>2
  <2>. QED
    BY <2>2, <2>3
<1>. QED
  BY <1>1, <1>2, <1>3 DEF FieldsBreak, ChangesField, RequiresMore

\* Two steps that break nothing break nothing together.
LEMMA BreaksTransitive ==
  ASSUME NEW a, NEW b, NEW c, ~Breaks(a, b), ~Breaks(b, c)
  PROVE  ~Breaks(a, c)
  BY FieldsTransitive, BindingTransitive DEF Breaks

\* Nothing breaks between a snapshot and itself.
LEMMA BreaksIrreflexive == \A a : ~Breaks(a, a)
  BY DEF Breaks, FieldsBreak, RemovesField, ChangesField, RequiresMore, FieldBreaks,
         BindingBreaks

\* Where nothing breaks, old readers read new writers and the other way round.
LEMMA UnbrokenReads ==
  ASSUME NEW a, NEW b, WellFormed(a.fields), WellFormed(b.fields), ~Breaks(a, b)
  PROVE  CanRead(a, b) /\ CanRead(b, a)
<1> DEFINE f == a.fields
           g == b.fields
<1>1. ~RemovesField(f, g) /\ ~ChangesField(f, g) /\ ~RequiresMore(f, g)
  BY DEF Breaks, FieldsBreak
<1>2. ASSUME NEW p \in DOMAIN f \cap DOMAIN g
      PROVE  Compared(f, g, p) /\ ~FieldBreaks(f[p], g[p])
  BY <1>1 DEF WellFormed, Compared, ChangesField
<1>3. ASSUME NEW p, IsNested(p), Holder(p) \in DOMAIN f, Holder(p) \in DOMAIN g
      PROVE  f[Holder(p)].rec = g[Holder(p)].rec
  BY <1>2, <1>3 DEF FieldBreaks
<1>4. ASSUME NEW p \in DOMAIN f \ DOMAIN g, IsNested(p) => Holder(p) \in DOMAIN g
      PROVE  FALSE
  <2>1. Compared(f, g, p)
    BY <1>3, <1>4 DEF WellFormed, Compared
  <2>. QED
    BY <1>1, <1>4, <2>1 DEF RemovesField
<1>5. ASSUME NEW p \in DOMAIN g \ DOMAIN f, IsNested(p) => Holder(p) \in DOMAIN f
      PROVE  ~g[p].required
  <2>1. Compared(f, g, p)
    BY <1>3, <1>5 DEF WellFormed, Compared
  <2>. QED
    BY <1>1, <1>5, <2>1 DEF RequiresMore
<1>6. \A k \in DOMAIN a.binding : k \in DOMAIN b.binding /\ a.binding[k] = b.binding[k]
  BY DEF Breaks, BindingBreaks
<1>. QED
  BY <1>2, <1>4, <1>5, <1>6 DEF CanRead, FieldBreaks

\* A conforming step never lowers the version, and breaks nothing within a major
\* version.
LEMMA StepOkMeans ==
  ASSUME NEW a, NEW b, a.version \in Version, b.version \in Version, StepOk(a, b)
  PROVE  /\ ~VersionLess(b.version, a.version)
         /\ a.version[1] = b.version[1] => ~Breaks(a, b)
  BY DEF StepOk, VersionPolicyOk, ClassifyChange, VersionLess, MinorLess, Version,
         CHANGE_IDENTICAL, CHANGE_BACKWARD, CHANGE_BREAKING

\* The version order is transitive, and a major version caught between two equal
\* ones is equal to them.
LEMMA VersionOrder ==
  ASSUME NEW u \in Version, NEW v \in Version, NEW w \in Version,
         ~VersionLess(v, u), ~VersionLess(w, v)
  PROVE  /\ ~VersionLess(w, u)
         /\ u[1] = w[1] => u[1] = v[1] /\ v[1] = w[1]
  BY DEF VersionLess, Version

-----------------------------------------------------------------------------
(* Recorded histories *)

\* Versions never fall along a history, and nothing breaks between any two
\* snapshots of one major version.  Unlike HistoryOk, which speaks of
\* neighbours, this is preserved when a snapshot is appended.
Chain(h) ==
    \A i, j \in 1..Len(h) : i < j =>
        /\ ~VersionLess(h[j].version, h[i].version)
        /\ h[i].version[1] = h[j].version[1] => ~Breaks(h[i], h[j])

NumbersKept(h) ==
    \A i, j \in 1..Len(h) : i # j => NumbersAgree(h[i], h[j])

GoodHistory(h) == HistoryOk(h) /\ Chain(h) /\ NumbersKept(h)

\* A snapshot carries its document's version and fields.
LEMMA SnapshotFacts ==
  ASSUME NEW s \in Snapshots
  PROVE  s.version \in Version /\ WellFormed(s.fields)
<1>1. PICK d \in Docs : s = Snapshot(d)
  BY DEF Snapshots
<1>2. s.version = d.version /\ s.fields = d.fields
  BY <1>1 DEF Snapshot
<1>. QED
  BY <1>2, DocsAssumption

\* No history, and a first snapshot, are good whatever the snapshot.
LEMMA ShortHistoryGood ==
  ASSUME NEW h \in Seq(Snapshots), Len(h) <= 1
  PROVE  GoodHistory(h)
  BY DEF GoodHistory, HistoryOk, Chain, NumbersKept

\* A conforming snapshot keeps a history conforming.
LEMMA AppendGood ==
  ASSUME NEW h \in Seq(Snapshots), NEW s \in Snapshots, GoodHistory(h), h # <<>>,
         StepOk(h[Len(h)], s), ProtoNumbersOk(Append(h, s))
  PROVE  GoodHistory(Append(h, s))
<1> DEFINE n == Len(h)
           k == Append(h, s)
<1>1. /\ n \in Nat \ {0} /\ k \in Seq(Snapshots) /\ Len(k) = n + 1
      /\ k[n + 1] = s /\ \A i \in 1..n : k[i] = h[i] /\ h[i] \in Snapshots
  OBVIOUS
<1>2. HistoryOk(k)
  BY <1>1 DEF GoodHistory, HistoryOk
<1>3. NumbersKept(k)
  BY <1>1 DEF ProtoNumbersOk, NumbersKept
<1>4. Chain(k)
  <2>1. /\ ~VersionLess(s.version, h[n].version)
        /\ h[n].version[1] = s.version[1] => ~Breaks(h[n], s)
    BY <1>1, SnapshotFacts, StepOkMeans
  <2>2. ASSUME NEW i \in 1..n
        PROVE  /\ ~VersionLess(s.version, h[i].version)
               /\ h[i].version[1] = s.version[1] => ~Breaks(h[i], s)
    <3>1. CASE i = n
      BY <2>1, <3>1
    <3>2. CASE i # n
      <4>1. /\ ~VersionLess(h[n].version, h[i].version)
            /\ h[i].version[1] = h[n].version[1] => ~Breaks(h[i], h[n])
        BY <1>1, <3>2 DEF GoodHistory, Chain
      <4>2. /\ h[i].version \in Version /\ h[n].version \in Version
            /\ s.version \in Version
        BY <1>1, SnapshotFacts
      <4>3. /\ ~VersionLess(s.version, h[i].version)
            /\ h[i].version[1] = s.version[1] =>
                  /\ h[i].version[1] = h[n].version[1]
                  /\ h[n].version[1] = s.version[1]
        BY <2>1, <4>1, <4>2, VersionOrder
      <4>. QED
        BY <2>1, <4>1, <4>3, BreaksTransitive
    <3>. QED
      BY <3>1, <3>2
  <2>3. ASSUME NEW i \in 1..(n + 1), NEW j \in 1..(n + 1), i < j
        PROVE  /\ ~VersionLess(k[j].version, k[i].version)
               /\ k[i].version[1] = k[j].version[1] => ~Breaks(k[i], k[j])
    <3>1. CASE j = n + 1
      <4>1. i \in 1..n /\ k[i] = h[i] /\ k[j] = s
        BY <1>1, <2>3, <3>1
      <4>. QED
        BY <2>2, <4>1
    <3>2. CASE j # n + 1
      <4>1. i \in 1..n /\ j \in 1..n /\ k[i] = h[i] /\ k[j] = h[j]
        BY <1>1, <2>3, <3>2
      <4>. QED
        BY <2>3, <4>1 DEF GoodHistory, Chain
    <3>. QED
      BY <3>1, <3>2
  <2>. QED
    BY <1>1, <2>3 DEF Chain
<1>. QED
  BY <1>2, <1>3, <1>4 DEF GoodHistory

\* What a freeze writes for a contract it does not refuse.
LEMMA FrozenGood ==
  ASSUME NEW h \in Seq(Snapshots), NEW s \in Snapshots, GoodHistory(h),
         ~FreezeRefuses(h, s)
  PROVE  /\ FrozenHistory(h, s) \in Seq(Snapshots)
         /\ GoodHistory(FrozenHistory(h, s))
<1>1. CASE h = <<>>
  <2>1. FrozenHistory(h, s) = Append(h, s)
    BY <1>1 DEF FrozenHistory
  <2>2. Append(h, s) \in Seq(Snapshots) /\ Len(Append(h, s)) <= 1
    BY <1>1
  <2>. QED
    BY <2>1, <2>2, ShortHistoryGood
<1>2. CASE NeedsFreeze(h, s)
  <2>1. h # <<>> /\ StepOk(h[Len(h)], s) /\ ProtoNumbersOk(Append(h, s))
    BY <1>2 DEF FreezeRefuses, NeedsFreeze
  <2>. QED
    BY <1>2, <2>1, AppendGood DEF FrozenHistory
<1>3. CASE h # <<>> /\ ~NeedsFreeze(h, s)
  BY <1>3 DEF FrozenHistory
<1>. QED
  BY <1>1, <1>2, <1>3

-----------------------------------------------------------------------------
(* The inductive invariant *)

HistoriesGood == \A c \in Ids : GoodHistory(baseline[c])

PayloadGood == pc = "write" => \A c \in Ids : GoodHistory(payload[c])

IInv == TypeOK /\ HistoriesGood /\ PayloadGood

LEMMA InitIInv == Init => IInv
<1> SUFFICES ASSUME Init PROVE IInv
  OBVIOUS
<1>1. <<>> \in Seq(Snapshots) /\ GoodHistory(<<>>)
  <2>1. <<>> \in Seq(Snapshots) /\ Len(<<>>) <= 1
    OBVIOUS
  <2>. QED
    BY <2>1, ShortHistoryGood
<1>2. TypeOK
  BY <1>1, EvolutionAssumption DEF Init, TypeOK
<1>. QED
  BY <1>1, <1>2 DEF Init, IInv, HistoriesGood, PayloadGood

\* Every payload of an accepted freeze is a good history.
LEMMA PayloadsGood ==
  ASSUME IInv, ~Unreadable, ~Refused
  PROVE  Payloads \in [Ids -> Seq(Snapshots)] /\ \A c \in Ids : GoodHistory(Payloads[c])
<1>1. <<>> \in Seq(Snapshots) /\ GoodHistory(<<>>)
  <2>1. <<>> \in Seq(Snapshots) /\ Len(<<>>) <= 1
    OBVIOUS
  <2>. QED
    BY <2>1, ShortHistoryGood
<1>2. ASSUME NEW c \in Contracts
      PROVE  /\ FrozenHistory(LoadHistory(c), Snapshot(loaded[c])) \in Seq(Snapshots)
             /\ GoodHistory(FrozenHistory(LoadHistory(c), Snapshot(loaded[c])))
  <2>1. c \in Ids /\ loaded[c] \in Docs
    BY DEF Contracts, IInv, TypeOK
  <2>2. Snapshot(loaded[c]) \in Snapshots
    BY <2>1 DEF Snapshots
  <2>3. LoadHistory(c) \in Seq(Snapshots) /\ GoodHistory(LoadHistory(c))
    BY <2>1, <1>1 DEF LoadHistory, IInv, TypeOK, HistoriesGood
  <2>4. ~FreezeRefuses(LoadHistory(c), Snapshot(loaded[c]))
    BY DEF Refused
  <2>. QED
    BY <2>2, <2>3, <2>4, FrozenGood
<1>. QED
  BY <1>1, <1>2 DEF Payloads

LEMMA NextIInv == IInv /\ [Next]_vars => IInv'
<1> SUFFICES ASSUME IInv, [Next]_vars PROVE IInv'
  OBVIOUS
<1>0. /\ TypeOK /\ HistoriesGood /\ PayloadGood
      /\ <<>> \in Seq(Snapshots) /\ GoodHistory(<<>>)
  <2>1. <<>> \in Seq(Snapshots) /\ Len(<<>>) <= 1
    OBVIOUS
  <2>. QED
    BY <2>1, ShortHistoryGood DEF IInv
<1> USE <1>0
<1>1. ASSUME NEW c \in Ids, NEW content \in Docs \cup {NoFile, Invalid},
             EditContract(c, content)
      PROVE  IInv'
  BY <1>1 DEF EditContract, IInv, TypeOK, HistoriesGood, PayloadGood, disk, work
<1>2. ASSUME NEW c \in Ids, EditRegistry(c) PROVE IInv'
  BY <1>2 DEF EditRegistry, IInv, TypeOK, HistoriesGood, PayloadGood, disk, work
<1>3. ASSUME NEW c \in Ids, RestoreBaseline(c) PROVE IInv'
  BY <1>3 DEF RestoreBaseline, IInv, TypeOK, HistoriesGood, PayloadGood, tree, work
<1>4. CASE FreezeBegin
  BY <1>4 DEF FreezeBegin, IInv, TypeOK, HistoriesGood, PayloadGood, tree, disk
<1>5. ASSUME NEW c \in Ids, FreezeLoad(c) PROVE IInv'
  <2>1. loaded' \in [Ids -> Docs \cup {NoFile}]
    BY <1>5 DEF FreezeLoad, TypeOK
  <2>2. errs' \in BOOLEAN
    BY <1>5, Zenon DEF FreezeLoad, TypeOK
  <2>. QED
    BY <1>5, <2>1, <2>2 DEF FreezeLoad, IInv, TypeOK, HistoriesGood, PayloadGood, tree, disk
<1>6. CASE Discard /\ pc' \in Stopped /\ UNCHANGED <<tree, disk>>
  BY <1>6, EvolutionAssumption
     DEF Discard, Stopped, IInv, TypeOK, HistoriesGood, PayloadGood, tree, disk
<1>7. CASE FreezeAccept
  <2>1. payload' \in [Ids -> Seq(Snapshots)] /\ \A c \in Ids : GoodHistory(payload'[c])
    BY <1>7, PayloadsGood DEF FreezeAccept
  <2>2. todo' \in SUBSET Ids
    BY <1>7 DEF FreezeAccept, Contracts
  <2>. QED
    BY <1>7, <2>1, <2>2 DEF FreezeAccept, IInv, TypeOK, HistoriesGood, PayloadGood, tree, disk
<1>8. ASSUME NEW c \in Ids, FreezeTruncate(c) PROVE IInv'
  BY <1>8 DEF FreezeTruncate, IInv, TypeOK, HistoriesGood, PayloadGood, tree
<1>9. CASE FreezeFlush
  <2>1. /\ writing \in Ids /\ payload[writing] \in Seq(Snapshots)
        /\ GoodHistory(payload[writing])
    BY <1>9 DEF FreezeFlush, TypeOK, PayloadGood
  <2>. QED
    BY <1>9, <2>1, EvolutionAssumption
       DEF FreezeFlush, IInv, TypeOK, HistoriesGood, PayloadGood, tree
<1>10. CASE FreezeScan
  BY <1>10 DEF FreezeScan, Stale, IInv, TypeOK, HistoriesGood, PayloadGood, tree, disk, work
<1>11. ASSUME NEW c \in Ids, FreezeUnlink(c) PROVE IInv'
  BY <1>11 DEF FreezeUnlink, IInv, TypeOK, HistoriesGood, PayloadGood, tree, work
<1>12. CASE UNCHANGED vars
  BY <1>12 DEF vars, IInv, TypeOK, HistoriesGood, PayloadGood
<1>. QED
  BY <1>1, <1>2, <1>3, <1>4, <1>5, <1>6, <1>7, <1>8, <1>9, <1>10, <1>11, <1>12
     DEF Next, Author, Freeze, Crash, FreezeRaises, FreezeRefused, FreezeEnd, Exit, Stopped

\* The inductive invariant holds in every reachable state.
THEOREM SpecIInv == Spec => []IInv
  BY InitIInv, NextIInv, PTL DEF Spec

\* The state of the commands keeps its types.
THEOREM TypeCorrect == Spec => []TypeOK
<1>1. IInv => TypeOK
  BY DEF IInv
<1>. QED
  BY <1>1, SpecIInv, PTL

\* Every adjacent pair of every recorded history passes the version policy.
THEOREM HistoriesConform == Spec => []HistoryConforms
<1>1. IInv => HistoryConforms
  BY DEF IInv, HistoriesGood, GoodHistory, HistoryConforms
<1>. QED
  BY <1>1, SpecIInv, PTL

\* Recorded snapshots of one major version read each other, at any distance.
THEOREM MajorVersionsCompatible == Spec => []SameMajorCompatible
<1>1. IInv => SameMajorCompatible
  <2> SUFFICES ASSUME IInv, NEW c \in Ids,
                      NEW i \in DOMAIN baseline[c], NEW j \in DOMAIN baseline[c],
                      baseline[c][i].version[1] = baseline[c][j].version[1]
               PROVE  CanRead(baseline[c][i], baseline[c][j])
    BY DEF SameMajorCompatible
  <2> DEFINE h == baseline[c]
  <2>1. /\ h \in Seq(Snapshots) /\ Chain(h)
        /\ i \in 1..Len(h) /\ j \in 1..Len(h)
    BY DEF IInv, TypeOK, HistoriesGood, GoodHistory
  <2>2. WellFormed(h[i].fields) /\ WellFormed(h[j].fields)
    BY <2>1, SnapshotFacts
  <2>3. CASE i = j
    BY <2>2, <2>3, BreaksIrreflexive, UnbrokenReads
  <2>4. CASE i < j
    <3>1. ~Breaks(h[i], h[j])
      BY <2>1, <2>4 DEF Chain
    <3>. QED
      BY <2>2, <3>1, UnbrokenReads
  <2>5. CASE j < i
    <3>1. ~Breaks(h[j], h[i])
      BY <2>1, <2>5 DEF Chain
    <3>. QED
      BY <2>2, <3>1, UnbrokenReads
  <2>. QED
    BY <2>1, <2>3, <2>4, <2>5
<1>. QED
  BY <1>1, SpecIInv, PTL

\* No proto number changes its field between two recorded snapshots.
THEOREM NumbersKeepTheirField == Spec => []NumbersNeverReused
<1>1. IInv => NumbersNeverReused
  <2> SUFFICES ASSUME IInv, NEW c \in Ids,
                      NEW i \in DOMAIN baseline[c], NEW j \in DOMAIN baseline[c], i # j
               PROVE  NumbersAgree(baseline[c][i], baseline[c][j])
    BY DEF NumbersNeverReused
  <2>1. /\ baseline[c] \in Seq(Snapshots) /\ NumbersKept(baseline[c])
    BY DEF IInv, TypeOK, HistoriesGood, GoodHistory
  <2>. QED
    BY <2>1 DEF NumbersKept
<1>. QED
  BY <1>1, SpecIInv, PTL

-----------------------------------------------------------------------------
(* No reviewed snapshot is lost *)

Extends(h, k) == Len(h) <= Len(k) /\ \A i \in DOMAIN h : k[i] = h[i]

\* A history and what a freeze may make of it: the same, or one admitted snapshot more.
Grows(h, k) ==
    \/ k = h
    \/ \E s \in Snapshots : /\ k = Append(h, s)
                            /\ h # <<>> => StepOk(h[Len(h)], s)
                            /\ \A i \in DOMAIN h : NumbersAgree(h[i], s)

\* While no one edits the tree during a freeze, a freeze that came past its
\* checks has loaded every registered contract, rewrites only by extension and
\* has only unregistered baselines left to prune.
CalmInv ==
    /\ pc \notin Stopped => entries = registered
    /\ pc = "load" /\ errs = FALSE =>
          \A c \in entries : odcs[c] # NoFile /\ (c \notin todo => loaded[c] # NoFile)
    /\ pc \in {"write", "prune"} => \A c \in entries : loaded[c] # NoFile
    /\ pc = "write" => \A c \in todo : Grows(baseline[c], payload[c])
    /\ writing # NoId => pc = "write" /\ writing \in todo
    /\ pc = "prune" => todo \cap entries = {}

\* What freeze writes is the old history, or the old history with the snapshot appended.
LEMMA FrozenGrows ==
  ASSUME NEW h \in Seq(Snapshots), NEW s \in Snapshots, ~FreezeRefuses(h, s)
  PROVE  Grows(h, FrozenHistory(h, s))
<1>1. CASE h # <<>> /\ ~NeedsFreeze(h, s)
  BY <1>1 DEF FrozenHistory, Grows
<1>2. CASE h = <<>>
  BY <1>2 DEF FrozenHistory, Grows
<1>3. CASE h # <<>> /\ NeedsFreeze(h, s)
  <2> DEFINE k == Append(h, s)
  <2>1. StepOk(h[Len(h)], s) /\ ProtoNumbersOk(k)
    BY <1>3 DEF FreezeRefuses
  <2>2. ASSUME NEW i \in DOMAIN h PROVE NumbersAgree(h[i], s)
    <3>1. /\ i \in DOMAIN k /\ Len(h) + 1 \in DOMAIN k
          /\ k[i] = h[i] /\ k[Len(h) + 1] = s
      OBVIOUS
    <3>. QED
      BY <2>1, <3>1 DEF ProtoNumbersOk
  <2>. QED
    BY <1>3, <2>1, <2>2 DEF FrozenHistory, Grows
<1>. QED
  BY <1>1, <1>2, <1>3

\* A history that grows keeps every version it had.
LEMMA GrowsExtends ==
  ASSUME NEW h \in Seq(Snapshots), NEW k, Grows(h, k)
  PROVE  Extends(h, k)
<1>1. CASE k = h
  BY <1>1 DEF Extends
<1>2. ASSUME NEW s \in Snapshots, k = Append(h, s) PROVE Extends(h, k)
  BY <1>2 DEF Extends
<1>. QED
  BY <1>1, <1>2 DEF Grows

\* While nobody edits during a command, what a command has read stays what is on disk.
LEMMA NextCalm ==
  ASSUME ConcurrentEdits = FALSE, TypeOK, CalmInv, [Next]_vars
  PROVE  CalmInv'
<1>1. ASSUME NEW c \in Ids, NEW content \in Docs \cup {NoFile, Invalid},
             EditContract(c, content)
      PROVE  CalmInv'
  BY <1>1 DEF EditContract, MayEdit, Stopped, CalmInv, disk, work
<1>2. ASSUME NEW c \in Ids, EditRegistry(c) PROVE CalmInv'
  BY <1>2 DEF EditRegistry, MayEdit, Stopped, CalmInv, disk, work
<1>3. ASSUME NEW c \in Ids, RestoreBaseline(c) PROVE CalmInv'
  BY <1>3 DEF RestoreBaseline, CalmInv, tree, work
<1>4. CASE FreezeBegin
  BY <1>4 DEF FreezeBegin, Stopped, Consistent, CalmInv, tree, disk
<1>5. ASSUME NEW c \in Ids, FreezeLoad(c) PROVE CalmInv'
  <2>1. pc' = "load" /\ entries' = registered'
    BY <1>5 DEF FreezeLoad, Stopped, CalmInv, tree
  <2>2. errs' = FALSE => errs = FALSE /\ odcs[c] # Invalid
    BY <1>5, Zenon DEF FreezeLoad, TypeOK
  <2>3. ASSUME errs' = FALSE, NEW d \in entries'
        PROVE  odcs'[d] # NoFile /\ (d \notin todo' => loaded'[d] # NoFile)
    <3>1. d \in entries /\ errs = FALSE /\ odcs[c] # Invalid
      BY <1>5, <2>2, <2>3 DEF FreezeLoad
    <3>2. odcs[d] # NoFile /\ (d \notin todo => loaded[d] # NoFile)
      BY <1>5, <3>1 DEF FreezeLoad, CalmInv
    <3>3. loaded' = [loaded EXCEPT ![c] = odcs[c]] /\ todo' = todo \ {c} /\ odcs' = odcs
      BY <1>5, <3>1 DEF FreezeLoad, tree
    <3>4. loaded \in [Ids -> Docs \cup {NoFile}] /\ d \in Ids
      BY <3>1 DEF TypeOK
    <3>. QED
      BY <3>2, <3>3, <3>4
  <2>4. writing' = NoId
    BY <1>5 DEF FreezeLoad, CalmInv
  <2>. QED
    BY <2>1, <2>3, <2>4 DEF CalmInv
<1>6. CASE Discard /\ pc' \in Stopped
  BY <1>6 DEF Discard, Stopped, CalmInv
<1>7. CASE FreezeAccept
  <2>1. errs = FALSE
    BY <1>7, Zenon DEF FreezeAccept, Refused, TypeOK
  <2>2. \A c \in entries : loaded[c] # NoFile
    BY <1>7, <2>1 DEF FreezeAccept, CalmInv
  <2>3. ASSUME NEW c \in Contracts PROVE Grows(baseline[c], Payloads[c])
    <3>1. c \in Ids /\ loaded[c] \in Docs /\ c \notin torn
      BY <1>7 DEF FreezeAccept, Unreadable, Contracts, TypeOK
    <3>2. Payloads[c] = FrozenHistory(baseline[c], Snapshot(loaded[c]))
      BY <3>1, <2>3 DEF Payloads, LoadHistory
    <3>3. baseline[c] \in Seq(Snapshots) /\ Snapshot(loaded[c]) \in Snapshots
      BY <3>1 DEF TypeOK, Snapshots
    <3>4. ~FreezeRefuses(baseline[c], Snapshot(loaded[c]))
      BY <1>7, <3>1, <2>3 DEF FreezeAccept, Refused, LoadHistory
    <3>. QED
      BY <3>2, <3>3, <3>4, FrozenGrows
  <2>4. writing' = NoId
    BY <1>7 DEF FreezeAccept, CalmInv
  <2>. QED
    BY <1>7, <2>2, <2>3, <2>4 DEF FreezeAccept, Stopped, CalmInv, tree, disk
<1>8. ASSUME NEW c \in Ids, FreezeTruncate(c) PROVE CalmInv'
  BY <1>8 DEF FreezeTruncate, Stopped, CalmInv, tree
<1>9. CASE FreezeFlush
  BY <1>9 DEF FreezeFlush, Stopped, CalmInv, TypeOK, tree
<1>10. CASE FreezeScan
  BY <1>10 DEF FreezeScan, Stale, Contracts, Stopped, CalmInv, TypeOK, tree, disk, work
<1>11. ASSUME NEW c \in Ids, FreezeUnlink(c) PROVE CalmInv'
  BY <1>11 DEF FreezeUnlink, Stopped, CalmInv, tree, work
<1>12. CASE UNCHANGED vars
  BY <1>12 DEF vars, Stopped, CalmInv
<1>. QED
  BY <1>1, <1>2, <1>3, <1>4, <1>5, <1>6, <1>7, <1>8, <1>9, <1>10, <1>11, <1>12
     DEF Next, Author, Freeze, Crash, FreezeRaises, FreezeRefused, FreezeEnd, Exit, Stopped

\* While no one edits the tree during a freeze, the baseline of a registered
\* contract only grows at its end, through crashes and recoveries too.
THEOREM HistoryKept ==
  ASSUME ConcurrentEdits = FALSE
  PROVE  Spec => HistoryAppendOnly
<1> DEFINE Kept == \A c \in registered :
                     /\ Len(baseline[c]) <= Len(baseline'[c])
                     /\ \A i \in DOMAIN baseline[c] : baseline'[c][i] = baseline[c][i]
<1>1. Init => CalmInv
  BY DEF Init, CalmInv, Stopped
<1>2. TypeOK /\ CalmInv /\ [Next]_vars => CalmInv'
  BY NextCalm
<1>3. TypeOK /\ CalmInv /\ [Next]_vars => [Kept]_vars
  <2> SUFFICES ASSUME TypeOK, CalmInv, [Next]_vars, NEW c \in registered
               PROVE  Extends(baseline[c], baseline'[c])
    BY DEF Extends
  <2>0. baseline[c] \in Seq(Snapshots) /\ c \in Ids
    BY DEF TypeOK
  <2>1. CASE baseline' = baseline
    BY <2>0, <2>1 DEF Extends
  <2>2. CASE FreezeFlush
    <3>1. writing \in Ids /\ Grows(baseline[writing], payload[writing])
      BY <2>2 DEF FreezeFlush, CalmInv, TypeOK
    <3>3. Extends(baseline[writing], payload[writing])
      BY <3>1, GrowsExtends DEF TypeOK
    <3>2. baseline'[c] = IF c = writing THEN payload[writing] ELSE baseline[c]
      BY <2>0, <2>2 DEF FreezeFlush, TypeOK
    <3>. QED
      BY <2>0, <3>2, <3>3 DEF Extends
  <2>3. ASSUME NEW d \in Ids, FreezeUnlink(d) PROVE Extends(baseline[c], baseline'[c])
    <3>1. d # c
      BY <2>3 DEF FreezeUnlink, Stopped, CalmInv
    <3>2. baseline'[c] = baseline[c]
      BY <2>0, <2>3, <3>1 DEF FreezeUnlink, TypeOK
    <3>. QED
      BY <2>0, <3>2 DEF Extends
  <2>. QED
    BY <2>1, <2>2, <2>3
       DEF Next, Author, Freeze, Crash, vars, EditContract, EditRegistry, RestoreBaseline,
           FreezeBegin, FreezeLoad, FreezeRaises, FreezeRefused, FreezeAccept,
           FreezeTruncate, FreezeScan, FreezeEnd, disk
<1>. QED
  BY <1>1, <1>2, <1>3, TypeCorrect, PTL DEF Spec, HistoryAppendOnly

-----------------------------------------------------------------------------
(* What a freeze leaves is what the check wants *)

\* No document names two of its own fields by one proto number: ss-contracts validate
\* runs the generators, which reject such a document.  A first freeze does not look.
OwnNumbersAgree == \A s \in Snapshots : NumbersAgree(s, s)

\* A history that evolution-check accepts for the snapshot, because it ends with it.
EndsWith(h, s) == h # <<>> /\ h[Len(h)] = s

\* While no one edits the tree during a freeze, what it has loaded is what the files
\* hold; each baseline it has written ends with that; and what it has pruned is gone.
CleanInv ==
    /\ \A c \in Ids : loaded[c] # NoFile =>
          pc \notin Stopped /\ c \in registered /\ loaded[c] = odcs[c]
    /\ pc = "load" => todo \subseteq registered
    /\ pc = "load" /\ errs = FALSE => Consistent
    /\ pc \in {"write", "prune"} => Consistent
    /\ pc = "write" => \A c \in registered :
          /\ EndsWith(payload[c], Snapshot(odcs[c]))
          /\ c \in todo \/ (baseline[c] = payload[c] /\ c \notin torn)
    /\ pc = "prune" => \A c \in Ids :
          IF c \in registered
          THEN EndsWith(baseline[c], Snapshot(odcs[c])) /\ c \notin torn
          ELSE c \in todo \/ (baseline[c] = <<>> /\ c \notin torn)

\* The snapshot a freeze does not refuse is the last of the history it writes.
LEMMA FrozenEndsWith ==
  ASSUME NEW h \in Seq(Snapshots), NEW s \in Snapshots
  PROVE  EndsWith(FrozenHistory(h, s), s)
<1>1. CASE h = <<>> \/ NeedsFreeze(h, s)
  <2>1. FrozenHistory(h, s) = Append(h, s)
    BY <1>1 DEF FrozenHistory
  <2>2. Append(h, s) # <<>> /\ Append(h, s)[Len(Append(h, s))] = s
    OBVIOUS
  <2>. QED
    BY <2>1, <2>2 DEF EndsWith
<1>2. CASE h # <<>> /\ ~NeedsFreeze(h, s)
  BY <1>2 DEF FrozenHistory, NeedsFreeze, EndsWith
<1>. QED
  BY <1>1, <1>2

\* A snapshot follows itself: nothing changes and the version does not fall.
LEMMA StepToItself ==
  ASSUME NEW s \in Snapshots
  PROVE  StepOk(s, s)
<1>1. s.version \in Version
  BY SnapshotFacts
<1>2. ~Breaks(s, s)
  BY BreaksIrreflexive
<1>3. ~FieldsGrow(s.fields, s.fields) /\ ~BindingGrows(s.binding, s.binding)
  BY DEF FieldsGrow, FieldGrows, BindingGrows
<1>4. ~VersionLess(s.version, s.version)
  BY <1>1 DEF VersionLess, Version
<1>5. ClassifyChange(s, s) = CHANGE_IDENTICAL
  BY <1>2, <1>3 DEF ClassifyChange
<1>. QED
  BY <1>4, <1>5 DEF StepOk, VersionPolicyOk

\* The check accepts a good history for the snapshot it ends with.
LEMMA EndsWithEvaluates ==
  ASSUME OwnNumbersAgree, NEW h \in Seq(Snapshots), NEW s, GoodHistory(h), EndsWith(h, s)
  PROVE  EvaluateOk(h, s)
<1> DEFINE n == Len(h)
           k == Append(h, s)
<1>1. /\ n \in Nat \ {0} /\ h[n] = s /\ s \in Snapshots
      /\ DOMAIN k = 1..(n + 1) /\ k[n + 1] = h[n]
      /\ \A i \in 1..n : k[i] = h[i] /\ h[i] \in Snapshots
  BY DEF EndsWith
<1>2. ASSUME NEW i \in 1..n, NEW j \in 1..n PROVE NumbersAgree(h[i], h[j])
  <2>1. CASE i = j
    BY <1>1, <2>1 DEF OwnNumbersAgree
  <2>2. CASE i # j
    BY <2>2 DEF GoodHistory, NumbersKept
  <2>. QED
    BY <2>1, <2>2
<1>3. ASSUME NEW i \in DOMAIN k, NEW j \in DOMAIN k PROVE NumbersAgree(k[i], k[j])
  <2>1. /\ \E a \in 1..n : k[i] = h[a]
        /\ \E b \in 1..n : k[j] = h[b]
    BY <1>1
  <2>. QED
    BY <1>2, <2>1
<1>4. StepOk(h[n], s)
  BY <1>1, StepToItself
<1>. QED
  BY <1>3, <1>4 DEF EvaluateOk, ProtoNumbersOk, GoodHistory, EndsWith

\* Once nothing is left to load without an error, all and only registered contracts are loaded.
LEMMA LoadedAreRegistered ==
  ASSUME TypeOK, CalmInv, CleanInv, pc \in {"write", "prune"}
  PROVE  Contracts = registered
<1>1. entries = registered
  BY DEF CalmInv, Stopped
<1>. QED
  BY <1>1 DEF Contracts, CalmInv, CleanInv, TypeOK

\* evolution.freeze: the version that was accepted is the one a check then compares.
LEMMA AcceptClean ==
  ASSUME TypeOK, CalmInv, CleanInv, FreezeAccept
  PROVE  CleanInv'
<1>1. errs = FALSE
  BY Zenon DEF FreezeAccept, Refused, TypeOK
<1>2. Contracts = registered
  BY <1>1 DEF FreezeAccept, Contracts, CalmInv, CleanInv, TypeOK, Stopped
<1>3. Consistent' /\ pc' = "write"
  BY <1>1 DEF FreezeAccept, CleanInv, Consistent, tree
<1>4. ASSUME NEW c \in registered
      PROVE  EndsWith(payload'[c], Snapshot(odcs[c])) /\ c \in todo'
  <2>1. c \in Contracts /\ c \in Ids /\ loaded[c] = odcs[c] /\ loaded[c] \in Docs
    BY <1>2 DEF CleanInv, Contracts, TypeOK
  <2>2. c \notin torn
    BY <2>1 DEF FreezeAccept, Unreadable
  <2>3. payload'[c] = FrozenHistory(baseline[c], Snapshot(odcs[c]))
    BY <2>1, <2>2 DEF FreezeAccept, Payloads, LoadHistory
  <2>4. baseline[c] \in Seq(Snapshots) /\ Snapshot(odcs[c]) \in Snapshots
    BY <2>1 DEF TypeOK, Snapshots
  <2>. QED
    BY <2>1, <2>3, <2>4, FrozenEndsWith DEF FreezeAccept
<1>. QED
  BY <1>3, <1>4 DEF FreezeAccept, CleanInv, Stopped, tree, disk

\* Every other step keeps the history compatible and the last version equal to the contract.
LEMMA NextClean ==
  ASSUME ConcurrentEdits = FALSE, TypeOK, CalmInv, CleanInv, [Next]_vars
  PROVE  CleanInv'
<1>0. pc \in Stopped => \A c \in Ids : loaded[c] = NoFile
  BY DEF CleanInv
<1>1. ASSUME NEW c \in Ids, NEW content \in Docs \cup {NoFile, Invalid},
             EditContract(c, content)
      PROVE  CleanInv'
  BY <1>0, <1>1 DEF EditContract, MayEdit, Stopped, CleanInv, disk, work
<1>2. ASSUME NEW c \in Ids, EditRegistry(c) PROVE CleanInv'
  BY <1>0, <1>2 DEF EditRegistry, MayEdit, Stopped, CleanInv, disk, work
<1>3. ASSUME NEW c \in Ids, RestoreBaseline(c) PROVE CleanInv'
  BY <1>3 DEF RestoreBaseline, Stopped, CleanInv, tree, work
<1>4. CASE FreezeBegin
  BY <1>0, <1>4 DEF FreezeBegin, Stopped, Consistent, CleanInv, tree, disk
<1>5. ASSUME NEW c \in Ids, FreezeLoad(c) PROVE CleanInv'
  <2>1. errs' = FALSE => errs = FALSE
    BY <1>5, Zenon DEF FreezeLoad, TypeOK
  <2>2. c \in registered
    BY <1>5 DEF FreezeLoad, CleanInv
  <2>3. ASSUME NEW d \in Ids, loaded'[d] # NoFile
        PROVE  d \in registered /\ loaded'[d] = odcs[d]
    BY <1>5, <2>2, <2>3 DEF FreezeLoad, CleanInv, TypeOK
  <2>4. errs' = FALSE => Consistent'
    BY <1>5, <2>1 DEF FreezeLoad, CleanInv, Consistent, tree
  <2>. QED
    BY <1>5, <2>3, <2>4 DEF FreezeLoad, Stopped, CleanInv, tree, disk
<1>6. CASE Discard /\ pc' \in Stopped
  BY <1>6 DEF Discard, Stopped, CleanInv
<1>7. CASE FreezeAccept
  BY <1>7, AcceptClean
<1>8. ASSUME NEW c \in Ids, FreezeTruncate(c) PROVE CleanInv'
  BY <1>8 DEF FreezeTruncate, Stopped, CleanInv, Consistent, tree
<1>9. CASE FreezeFlush
  <2>1. writing \in Ids
    BY <1>9 DEF FreezeFlush, TypeOK
  <2>2. ASSUME NEW c \in registered
        PROVE  c \in todo' \/ (baseline'[c] = payload[c] /\ c \notin torn')
    BY <1>9, <2>1, <2>2 DEF FreezeFlush, CleanInv, TypeOK
  <2>. QED
    BY <1>9, <2>2 DEF FreezeFlush, Stopped, CleanInv, Consistent, tree
<1>10. CASE FreezeScan
  <2>1. Contracts = registered
    BY <1>10, LoadedAreRegistered DEF FreezeScan
  <2>2. ASSUME NEW c \in Ids, c \in registered
        PROVE  EndsWith(baseline[c], Snapshot(odcs[c])) /\ c \notin torn
    BY <1>10, <2>2 DEF FreezeScan, CleanInv
  <2>3. ASSUME NEW c \in Ids, c \notin registered
        PROVE  c \in todo' \/ (baseline[c] = <<>> /\ c \notin torn)
    BY <1>10, <2>1, <2>3 DEF FreezeScan, Stale
  <2>4. Consistent'
    BY <1>10 DEF FreezeScan, CleanInv, Consistent, tree
  <2>. QED
    BY <1>10, <2>2, <2>3, <2>4 DEF FreezeScan, Stopped, CleanInv, tree, disk, work
<1>11. ASSUME NEW c \in Ids, FreezeUnlink(c) PROVE CleanInv'
  <2>1. c \notin registered
    BY <1>11 DEF FreezeUnlink, CalmInv, Stopped
  <2>2. ASSUME NEW d \in Ids
        PROVE  IF d \in registered
               THEN EndsWith(baseline'[d], Snapshot(odcs[d])) /\ d \notin torn'
               ELSE d \in todo' \/ (baseline'[d] = <<>> /\ d \notin torn')
    BY <1>11, <2>1 DEF FreezeUnlink, CleanInv, TypeOK
  <2>. QED
    BY <1>11, <2>2 DEF FreezeUnlink, Stopped, CleanInv, Consistent, tree, work
<1>12. CASE UNCHANGED vars
  BY <1>12 DEF vars, Stopped, CleanInv, Consistent
<1>. QED
  BY <1>1, <1>2, <1>3, <1>4, <1>5, <1>6, <1>7, <1>8, <1>9, <1>10, <1>11, <1>12
     DEF Next, Author, Freeze, Crash, FreezeRaises, FreezeRefused, FreezeEnd, Exit, Stopped

\* While no one edits the tree during a freeze, a freeze that ends without an error
\* leaves a tree in which evolution-check finds nothing to report, whatever was on disk
\* when it began.
THEOREM FreezeLeavesNothingToReport ==
  ASSUME ConcurrentEdits = FALSE, OwnNumbersAgree
  PROVE  Spec => FreezeThenCheckClean
<1>1. Init => CalmInv /\ CleanInv
  BY DEF Init, CalmInv, CleanInv, Stopped
<1>2. IInv /\ CalmInv /\ CleanInv /\ [Next]_vars => CalmInv' /\ CleanInv'
  BY NextCalm, NextClean DEF IInv
<1>3. IInv /\ CalmInv /\ CleanInv /\ [Next]_vars => [FreezeEnd => CheckEvolutionOk]_vars
  <2> SUFFICES ASSUME IInv, CalmInv, CleanInv, FreezeEnd PROVE CheckEvolutionOk
    OBVIOUS
  <2>0. pc = "prune" /\ todo = {}
    BY DEF FreezeEnd
  <2>1. Consistent
    BY <2>0 DEF CleanInv
  <2>2. Stale(registered) = {}
    BY <2>0 DEF Stale, CleanInv
  <2>3. ASSUME NEW c \in registered
        PROVE  odcs[c] # Invalid /\ c \notin torn /\ EvaluateOk(baseline[c], Snapshot(odcs[c]))
    <3>1. /\ c \in Ids /\ baseline[c] \in Seq(Snapshots) /\ GoodHistory(baseline[c])
          /\ EndsWith(baseline[c], Snapshot(odcs[c])) /\ c \notin torn
      BY <2>0 DEF IInv, TypeOK, HistoriesGood, CleanInv
    <3>2. odcs[c] # Invalid
      <4>1. c \in Contracts
        BY <2>0, LoadedAreRegistered DEF IInv
      <4>2. odcs[c] = loaded[c] /\ loaded[c] \in Docs
        BY <4>1, <3>1 DEF Contracts, CleanInv, IInv, TypeOK
      <4>. QED
        BY <4>2, DocsAssumption
    <3>3. EvaluateOk(baseline[c], Snapshot(odcs[c]))
      BY <3>1, EndsWithEvaluates
    <3>. QED
      BY <3>1, <3>2, <3>3
  <2>. QED
    BY <2>1, <2>2, <2>3 DEF CheckEvolutionOk
<1>. QED
  BY <1>1, <1>2, <1>3, SpecIInv, PTL DEF Spec, FreezeThenCheckClean

-----------------------------------------------------------------------------
(* Refinement: the commands implement the append-only log *)

\* Every step of the commands is a step of the history log, or leaves the log alone.
LEMMA StepLog ==
  ASSUME TypeOK, CalmInv, [Next]_vars
  PROVE  [Log!Next]_<<registered, baseline>>
<1>1. CASE UNCHANGED <<registered, baseline>>
  BY <1>1
<1>2. ASSUME NEW c \in Ids, EditRegistry(c) PROVE Log!Next
  <2>1. registered' \in SUBSET Ids /\ UNCHANGED baseline
    BY <1>2 DEF EditRegistry, TypeOK, disk
  <2>2. Log!Register(registered')
    BY <2>1 DEF Log!Register
  <2>. QED
    BY <2>1, <2>2 DEF Log!Next
<1>3. CASE FreezeFlush
  <2>1. /\ writing \in Ids /\ Grows(baseline[writing], payload[writing])
        /\ baseline' = [baseline EXCEPT ![writing] = payload[writing]]
        /\ UNCHANGED registered
    BY <1>3 DEF FreezeFlush, CalmInv, TypeOK, tree
  <2>2. CASE payload[writing] = baseline[writing]
    BY <2>1, <2>2 DEF TypeOK
  <2>3. ASSUME NEW s \in Snapshots,
               payload[writing] = Append(baseline[writing], s),
               baseline[writing] # <<>> => StepOk(baseline[writing][Len(baseline[writing])], s),
               \A i \in DOMAIN baseline[writing] : NumbersAgree(baseline[writing][i], s)
        PROVE  Log!Next
    <3> DEFINE h == baseline[writing]
    <3>1. h \in Seq(Snapshots)
      BY <2>1 DEF TypeOK
    <3>2. h # <<>> => <<h[Len(h)], s>> \in Steps
      BY <2>3, <3>1 DEF Steps
    <3>3. \A i \in DOMAIN h : <<h[i], s>> \in Agreements
      BY <2>3, <3>1 DEF Agreements
    <3>4. Log!Record(writing, s)
      BY <2>1, <2>3, <3>2, <3>3 DEF Log!Record
    <3>. QED
      BY <2>1, <3>4 DEF Log!Next
  <2>. QED
    BY <2>1, <2>2, <2>3 DEF Grows
<1>4. ASSUME NEW c \in Ids, FreezeUnlink(c) PROVE Log!Next
  <2>1. /\ c \notin registered
        /\ baseline' = [baseline EXCEPT ![c] = <<>>]
        /\ UNCHANGED registered
    BY <1>4 DEF FreezeUnlink, Stopped, CalmInv, tree
  <2>2. Log!Drop(c)
    BY <2>1 DEF Log!Drop
  <2>. QED
    BY <2>2 DEF Log!Next
<1>. QED
  BY <1>1, <1>2, <1>3, <1>4
     DEF Next, Author, Freeze, Crash, vars, tree, EditContract, RestoreBaseline, FreezeBegin,
         FreezeLoad, FreezeRaises, FreezeRefused, FreezeAccept, FreezeTruncate, FreezeScan,
         FreezeEnd, disk

\* While no one edits the tree during a freeze, the commands implement an append-only log:
\* all that readers of the baselines see is admitted snapshots being added and
\* logs of unregistered contracts being dropped.
THEOREM EvolutionImplementsLog ==
  ASSUME ConcurrentEdits = FALSE
  PROVE  Spec => ImplementsLog
<1>1. Init => CalmInv
  BY DEF Init, CalmInv, Stopped
<1>2. Init => Log!Init
  BY DEF Init, Log!Init
<1>3. TypeOK /\ CalmInv /\ [Next]_vars => CalmInv'
  BY NextCalm
<1>4. TypeOK /\ CalmInv /\ [Next]_vars => [Log!Next]_<<registered, baseline>>
  BY StepLog
<1>. QED
  BY <1>1, <1>2, <1>3, <1>4, TypeCorrect, PTL DEF Spec, ImplementsLog, Log!Spec

=============================================================================
