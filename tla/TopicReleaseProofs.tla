-------------------------- MODULE TopicReleaseProofs --------------------------
(***************************************************************************)
(* Matching, building and overlapping patterns for any strings, and what   *)
(* follows for the maps that pass the gate.                                *)
(***************************************************************************)
EXTENDS TopicRelease, TLAPS

-----------------------------------------------------------------------------
(* Patterns *)

\* A placeholder is no literal, and a literal is no wildcard.
LEMMA LevelFacts ==
  /\ Literals \subseteq Values /\ Placeholders \subseteq Values /\ Values \subseteq Levels
  /\ Literals \cap Placeholders = {} /\ Plus \notin Values /\ Root \in Values
  BY LevelsAssumption DEF Values, Levels

\* Two patterns that match one topic overlap.
LEMMA CommonTopicOverlap ==
  ASSUME NEW p \in Seq(Levels), NEW q \in Seq(Levels), NEW t, Matches(p, t), Matches(q, t)
  PROVE  Overlap(p, q)
<1>0. Len(p) = Len(q)
  BY DEF Matches
<1>1. DOMAIN p = 1..Len(p) /\ DOMAIN q = 1..Len(p)
  BY <1>0
<1>2. ASSUME NEW i \in DOMAIN p
      PROVE  p[i] = q[i] \/ i \in Slots(p) \cup Slots(q)
  <2>1. i \notin Slots(p) => t[i] = p[i]
    BY DEF Matches
  <2>2. i \notin Slots(q) => t[i] = q[i]
    BY <1>1 DEF Matches
  <2>. QED
    BY <2>1, <2>2
<1>. QED
  BY <1>0, <1>2 DEF Overlap

\* Two well-formed patterns that overlap match a topic together.
LEMMA OverlapHasTopic ==
  ASSUME NEW p \in Seq(Levels), NEW q \in Seq(Levels), PatternOk(p), PatternOk(q), Overlap(p, q)
  PROVE  \E t \in [1..Len(p) -> Values] : Matches(p, t) /\ Matches(q, t)
<1> DEFINE t == [i \in 1..Len(p) |-> IF i \in Slots(p)
                                     THEN IF i \in Slots(q) THEN Root ELSE q[i]
                                     ELSE p[i]]
<1>1. DOMAIN p = 1..Len(p) /\ DOMAIN q = 1..Len(p) /\ Len(q) = Len(p) /\ Len(p) \in Nat
  BY DEF Overlap
<1>2. ASSUME NEW i \in 1..Len(p)
      PROVE  p[i] \in Values /\ q[i] \in Values
  <2>1. CASE i = 1
    BY <2>1, <1>1, LevelFacts DEF PatternOk
  <2>2. CASE i # 1
    BY <2>2, <1>1, LevelFacts DEF PatternOk
  <2>. QED
    BY <2>1, <2>2
<1>3. t \in [1..Len(p) -> Values]
  BY <1>2, LevelFacts
<1>4. t \in Seq(Values) /\ Len(t) = Len(p)
  BY <1>1, <1>3
<1>5. ASSUME NEW i \in 1..Len(p)
      PROVE  /\ IF i \in Slots(p) THEN t[i] \in Values ELSE t[i] = p[i]
             /\ IF i \in Slots(q) THEN t[i] \in Values ELSE t[i] = q[i]
  BY <1>1, <1>3 DEF Overlap
<1>6. Matches(p, t) /\ Matches(q, t)
  BY <1>1, <1>4, <1>5 DEF Matches
<1>. QED
  BY <1>3, <1>6

\* What build returns is a topic of the pattern.
LEMMA BuildMatches ==
  ASSUME NEW p \in Seq(Levels), NEW params \in [NamesOf(p) -> Values]
  PROVE  Build(p, params) \in Seq(Levels) /\ Matches(p, Build(p, params))
<1> DEFINE t == Build(p, params)
<1>1. DOMAIN p = 1..Len(p) /\ Len(p) \in Nat
  OBVIOUS
<1>2. ASSUME NEW i \in 1..Len(p)
      PROVE  /\ t[i] \in Levels
             /\ IF i \in Slots(p) THEN t[i] \in Values ELSE t[i] = p[i]
  <2>1. t[i] = IF i \in Slots(p) THEN params[p[i]] ELSE p[i]
    BY DEF Build
  <2>2. i \in Slots(p) => params[p[i]] \in Values
    BY DEF NamesOf
  <2>3. p[i] \in Levels
    BY <1>1
  <2>. QED
    BY <2>1, <2>2, <2>3, LevelFacts
<1>3. t = [i \in 1..Len(p) |-> t[i]]
  BY DEF Build
<1>4. t \in Seq(Levels) /\ Len(t) = Len(p)
  BY <1>1, <1>2, <1>3
<1>. QED
  BY <1>1, <1>2, <1>4 DEF Matches

\* match gives back the values build was called with.
LEMMA MatchInvertsBuild ==
  ASSUME NEW p \in Seq(Levels), PatternOk(p), NEW params \in [NamesOf(p) -> Values]
  PROVE  Params(p, Build(p, params)) = params
<1> DEFINE t == Build(p, params)
           last(n) == CHOOSE i \in Slots(p) : p[i] = n /\ \A j \in Slots(p) : p[j] = n => j <= i
<1>1. ASSUME NEW n \in NamesOf(p)
      PROVE  t[last(n)] = params[n]
  <2>1. PICK i \in Slots(p) : p[i] = n
    BY DEF NamesOf
  <2>2. \A j \in Slots(p) : p[j] = n => j = i
    BY <2>1 DEF PatternOk
  <2>3. i \in 1..Len(p) /\ i <= i
    BY DEF Slots
  <2>4. last(n) \in Slots(p) /\ p[last(n)] = n
    BY <2>1, <2>2, <2>3
  <2>5. last(n) = i
    BY <2>2, <2>4
  <2>. QED
    BY <2>1, <2>3, <2>5 DEF Build
<1>2. Params(p, t) = [n \in NamesOf(p) |-> t[last(n)]]
  BY DEF Params
<1>3. Params(p, t) = [n \in NamesOf(p) |-> params[n]]
  BY <1>1, <1>2
<1>. QED
  BY <1>3

\* A subscription delivers nothing but topics of its pattern, among valid topics.
LEMMA SubscriptionExact ==
  ASSUME NEW p \in Seq(Levels), PatternOk(p), NEW t \in Seq(Values),
         Delivers(Subscription(p), t)
  PROVE  Matches(p, t)
<1> DEFINE f == Subscription(p)
<1>1. /\ f = [i \in 1..Len(p) |-> IF i \in Slots(p) THEN Plus ELSE p[i]]
      /\ DOMAIN p = 1..Len(p) /\ Len(p) \in Nat
  BY DEF Subscription
<1>2. ASSUME NEW i \in 1..Len(p)
      PROVE  f[i] \in Levels
  BY <1>1, LevelsAssumption DEF Levels
<1>3. f \in Seq(Levels) /\ Len(f) = Len(p)
  BY <1>1, <1>2
<1>4. Len(t) = Len(p) /\ \A i \in 1..Len(p) : f[i] \in {Plus, t[i]} /\ t[i] \in Values
  BY <1>3 DEF Delivers
<1>5. ASSUME NEW i \in 1..Len(p), i \notin Slots(p)
      PROVE  t[i] = p[i]
  <2>1. f[i] = p[i]
    BY <1>1, <1>5
  <2>2. p[i] \in Literals
    BY <1>5, <1>1, LevelsAssumption DEF PatternOk, Slots
  <2>3. p[i] # Plus
    BY <2>2, LevelFacts
  <2>. QED
    BY <2>1, <2>3, <1>4
<1>. QED
  BY <1>1, <1>4, <1>5 DEF Matches

-----------------------------------------------------------------------------
(* Maps *)

\* A map of this specification is a sequence of entries with patterns.
LEMMA MapFacts ==
  ASSUME NEW map \in Maps
  PROVE  /\ map # NoMap /\ map # Unusable
         /\ DOMAIN map = 1..Len(map) /\ Len(map) \in Nat
         /\ \A i \in DOMAIN map : map[i].pattern \in Seq(Levels)
  BY ReleaseAssumption DEF Maps, IsMap

\* A valid map matches a topic at most once.
LEMMA OneHit ==
  ASSUME NEW map \in Maps, OverlapFree(map), NEW i \in DOMAIN map, NEW j \in DOMAIN map,
         NEW t, Matches(map[i].pattern, t), Matches(map[j].pattern, t)
  PROVE  i = j
<1>1. Overlap(map[i].pattern, map[j].pattern) /\ Overlap(map[j].pattern, map[i].pattern)
  BY MapFacts, CommonTopicOverlap
<1>2. i \in Nat /\ j \in Nat
  BY MapFacts
<1>. QED
  BY <1>1, <1>2 DEF OverlapFree

\* The entry TopicBuilder.entry returns.
LEMMA EntryFacts ==
  ASSUME NEW map, NEW c, HasEntry(map, c)
  PROVE  \E k \in DOMAIN map :
            EntriesFor(map, c) = {k} /\ EntryOf(map, c) = map[k] /\ map[k].contract = c
<1>1. PICK k \in DOMAIN map : EntriesFor(map, c) = {k}
  BY DEF HasEntry
<1>2. \A i : EntriesFor(map, c) = {i} => i = k
  BY <1>1
<1>3. (CHOOSE i \in DOMAIN map : EntriesFor(map, c) = {i}) = k
  BY <1>1, <1>2
<1>4. k \in EntriesFor(map, c)
  BY <1>1
<1>. QED
  BY <1>1, <1>3, <1>4 DEF EntryOf, EntriesFor

\* A valid map that holds the entry a topic was built from resolves it to that entry,
\* and gets it on the subscription of that entry's contract alone.
LEMMA HeldEntryResolves ==
  ASSUME NEW topics, NEW map \in Maps, MapOk(map, Registered, topics), NEW k \in DOMAIN map,
         NEW params \in [NamesOf(map[k].pattern) -> Values]
  PROVE  LET t == Build(map[k].pattern, params) IN
         /\ Hits(map, t) # {}
         /\ Resolved(map, t) = map[k]
         /\ Params(map[k].pattern, t) = params
         /\ \A c : HasEntry(map, c) /\ Delivers(Subscription(EntryOf(map, c).pattern), t)
                      => c = map[k].contract
<1> DEFINE p == map[k].pattern
           t == Build(p, params)
<1>1. /\ p \in Seq(Levels) /\ PatternOk(p) /\ OverlapFree(map)
      /\ \A i \in DOMAIN map : map[i].pattern \in Seq(Levels) /\ PatternOk(map[i].pattern)
  BY MapFacts DEF MapOk
<1>2. t \in Seq(Levels) /\ Matches(p, t)
  BY <1>1, BuildMatches
<1>3. Params(p, t) = params
  BY <1>1, MatchInvertsBuild
<1>4. Hits(map, t) = {k}
  BY <1>1, <1>2, OneHit DEF Hits
<1>5. Resolved(map, t) = map[k]
  <2>1. k \in Nat
    BY MapFacts
  <2>2. (CHOOSE i \in Hits(map, t) : \A j \in Hits(map, t) : i <= j) = k
    BY <1>4, <2>1
  <2>. QED
    BY <2>2 DEF Resolved
<1>6. t \in Seq(Values)
  <2>1. Len(t) = Len(p) /\ DOMAIN t = 1..Len(p) /\ DOMAIN p = 1..Len(p) /\ Len(p) \in Nat
    BY <1>1, <1>2 DEF Matches
  <2>2. ASSUME NEW i \in 1..Len(p)
        PROVE  t[i] \in Values
    <3>1. i \notin Slots(p) => t[i] = p[i] /\ p[i] \in Literals
      BY <1>1, <1>2, <2>1, LevelsAssumption DEF Matches, PatternOk, Slots
    <3>2. i \in Slots(p) => t[i] \in Values
      BY <1>2, <2>1 DEF Matches
    <3>. QED
      BY <3>1, <3>2, LevelFacts
  <2>. QED
    BY <1>2, <2>1, <2>2
<1>7. ASSUME NEW c, HasEntry(map, c), Delivers(Subscription(EntryOf(map, c).pattern), t)
      PROVE  c = map[k].contract
  <2>1. PICK j \in DOMAIN map : EntryOf(map, c) = map[j] /\ map[j].contract = c
    BY <1>7, EntryFacts
  <2>2. Matches(map[j].pattern, t)
    BY <1>1, <1>6, <1>7, <2>1, SubscriptionExact
  <2>3. j = k
    BY <1>1, <1>2, <2>2, OneHit
  <2>. QED
    BY <2>1, <2>3
<1>. QED
  BY <1>3, <1>4, <1>5, <1>7

-----------------------------------------------------------------------------
(* The type invariant *)

LEMMA TypeInit == Init => TypeOK
  BY DEF Init, TypeOK

LEMMA TypeStep == TypeOK /\ [Next]_vars => TypeOK'
<1> SUFFICES ASSUME TypeOK, [Next]_vars
             PROVE  TypeOK'
  OBVIOUS
<1> USE DEF TypeOK
<1>1. ASSUME NEW doc \in Authored \cup {NoMap, Unusable}, Edit(doc)
      PROVE  TypeOK'
  BY <1>1 DEF Edit, contracts, services, MessageOk
<1>2. CASE Generate
  BY <1>2 DEF Generate, contracts, services, MessageOk
<1>3. CASE GenerateKilled
  BY <1>3 DEF GenerateKilled, contracts, services, MessageOk
<1>4. CASE Release
  BY <1>4 DEF Release, NoDrift, contracts, services, MessageOk
<1>5. ASSUME NEW s \in Services, Start(s)
      PROVE  TypeOK'
  BY <1>5 DEF Start, Maps, contracts, MessageOk
<1>6. ASSUME NEW s \in Services, NEW map \in Overrides, StartFromYaml(s, map)
      PROVE  TypeOK'
  BY <1>6 DEF StartFromYaml, Maps, contracts, MessageOk
<1>7. ASSUME NEW s \in Services, NEW c \in Registered, Publish(s, c)
      PROVE  TypeOK'
  <2> DEFINE map == loaded[s]
             pattern == EntryOf(map, c).pattern
             message(params) == [topic |-> Build(pattern, params), contract |-> c,
                                 params |-> params, by |-> map, under |-> running[s]]
  <2>1. map \in Maps /\ HasEntry(map, c)
    BY <1>7 DEF Publish
  <2>2. PICK params \in [NamesOf(pattern) -> Levels] :
           CanBuild(pattern, params) /\ broker' = broker \cup {message(params)}
    BY <1>7 DEF Publish
  <2>3. params \in [NamesOf(pattern) -> Values]
    BY <2>2 DEF CanBuild
  <2>4. pattern \in Seq(Levels)
    BY <2>1, EntryFacts, MapFacts
  <2>5. Build(pattern, params) \in Seq(Levels)
    BY <2>3, <2>4, BuildMatches
  <2>6. MessageOk(message(params))
    BY <2>1, <2>3, <2>5 DEF MessageOk
  <2>7. \A m \in broker' : MessageOk(m)
    BY <2>2, <2>6
  <2>. QED
    BY <1>7, <2>7 DEF Publish, contracts, MessageOk
<1>8. ASSUME NEW m \in broker, Drop(m)
      PROVE  TypeOK'
  BY <1>8 DEF Drop, contracts, MessageOk
<1>9. CASE UNCHANGED vars
  BY <1>9 DEF vars, contracts, services, MessageOk
<1>10. ASSUME NEW d \in Declarations, Declare(d)
       PROVE  TypeOK'
  BY <1>10 DEF Declare, services, MessageOk
<1>11. CASE Freeze
  BY <1>11 DEF Freeze, services, MessageOk
<1>. QED
  BY <1>1, <1>2, <1>3, <1>4, <1>5, <1>6, <1>7, <1>8, <1>9, <1>10, <1>11 DEF Next

\* Documents, modules and messages stay in their types: a message in flight was built
\* from the entry of its contract, with valid values for its placeholders.
THEOREM TypeCorrect == Spec => []TypeOK
<1>1. Init => TypeOK
  BY TypeInit
<1>2. TypeOK /\ [Next]_vars => TypeOK'
  BY TypeStep
<1>. QED
  BY <1>1, <1>2, PTL DEF Spec

-----------------------------------------------------------------------------
(* What a release promises *)

\* A release holds a valid map or none.
ReleasedOk ==
  released # NoMap => released \in Authored /\ MapOk(released, Registered, TopicsOf(shipped))

LEMMA ReleaseStep == TypeOK /\ ReleasedOk /\ [Next]_vars => ReleasedOk'
<1> SUFFICES ASSUME TypeOK, ReleasedOk, [Next]_vars
             PROVE  ReleasedOk'
  OBVIOUS
<1>1. CASE Release
  BY <1>1 DEF Release, Validate, NoDrift, TypeOK, ReleasedOk, Maps
<1>2. CASE ~Release
  <2>1. released' = released /\ shipped' = shipped
    BY <1>2 DEF Next, Edit, Declare, Freeze, Generate, GenerateKilled, Start, StartFromYaml,
                Publish, Drop, vars
  <2>. QED
    BY <2>1 DEF ReleasedOk
<1>. QED
  BY <1>1, <1>2

LEMMA ReleasedOkMatchesOnce == TypeOK /\ ReleasedOk => ReleasedUnambiguous
<1> SUFFICES ASSUME TypeOK, ReleasedOk, released # NoMap,
                    NEW i \in DOMAIN released, NEW j \in DOMAIN released,
                    NEW t, Matches(released[i].pattern, t), Matches(released[j].pattern, t)
             PROVE  i = j
  BY DEF ReleasedUnambiguous
<1>1. released \in Maps /\ OverlapFree(released)
  BY DEF ReleasedOk, MapOk, Maps
<1>. QED
  BY <1>1, OneHit

\* Every map that passes the gate matches a topic at most once, for any alphabet of
\* levels, any length of pattern and any number of entries.
THEOREM ReleaseUnambiguous == Spec => []ReleasedUnambiguous
<1>1. Init => TypeOK /\ ReleasedOk
  BY TypeInit DEF Init, ReleasedOk
<1>2. (TypeOK /\ ReleasedOk) /\ [Next]_vars => (TypeOK /\ ReleasedOk)'
  BY TypeStep, ReleaseStep
<1>3. TypeOK /\ ReleasedOk => ReleasedUnambiguous
  BY ReleasedOkMatchesOnce
<1>. QED
  BY <1>1, <1>2, <1>3, PTL DEF Spec

\* The overlap check refuses only patterns that some topic matches together.
THEOREM OverlapExact == Spec => []OverlapIsReal
<1>1. TypeOK => OverlapIsReal
  BY MapFacts, OverlapHasTopic DEF OverlapIsReal
<1>. QED
  BY <1>1, TypeCorrect, PTL

-----------------------------------------------------------------------------
(* What services make of messages *)

\* A service with a valid map that holds the entry a message was built from.
LEMMA HolderIsRight ==
  ASSUME TypeOK, NEW s \in Services, NEW c \in Registered, NEW m \in broker,
         Delivered(s, c, m), Valid(loaded[s], running[s]),
         NEW k \in DOMAIN loaded[s],
         loaded[s][k].contract = m.contract,
         loaded[s][k].pattern = EntryOf(m.by, m.contract).pattern
  PROVE  Right(s, c, m)
<1> DEFINE map == loaded[s]
<1>1. map \in Maps /\ HasEntry(map, c) /\ Delivers(Subscription(EntryOf(map, c).pattern), m.topic)
  BY DEF TypeOK, Delivered
<1>2. m.params \in [NamesOf(map[k].pattern) -> Values] /\ m.topic = Build(map[k].pattern, m.params)
  BY DEF TypeOK, MessageOk
<1>3. /\ Hits(map, m.topic) # {} /\ Resolved(map, m.topic) = map[k]
      /\ Params(map[k].pattern, m.topic) = m.params /\ c = map[k].contract
  BY <1>1, <1>2, HeldEntryResolves DEF Valid
<1>. QED
  BY <1>3 DEF Right, Resolves, Resolution

\* Whatever else a valid map holds, and in whatever order, a service that has the
\* publisher's entry resolves the message to the publisher's contract and values.
THEOREM RoutingCorrect == Spec => []RoutedRight
<1>1. ASSUME TypeOK
      PROVE  RoutedRight
  <2> SUFFICES ASSUME NEW s \in Services, NEW c \in Registered, NEW m \in broker,
                      Delivered(s, c, m), Valid(loaded[s], running[s]),
                      EntryOf(m.by, m.contract) \in ToSet(loaded[s])
               PROVE  Right(s, c, m)
    BY DEF RoutedRight
  <2>1. PICK k \in DOMAIN loaded[s] : loaded[s][k] = EntryOf(m.by, m.contract)
    BY DEF ToSet
  <2>2. EntryOf(m.by, m.contract).contract = m.contract
    BY <1>1, EntryFacts DEF TypeOK, MessageOk
  <2>. QED
    BY <1>1, <2>1, <2>2, HolderIsRight
<1>. QED
  BY <1>1, TypeCorrect, PTL

\* Any two recorded declarations, in the order they were recorded.
RecordedOk == \A i, j \in DOMAIN recorded : i < j => Follows(recorded[i], recorded[j])

\* The policy compares neighbours; what it grants adds up.
LEMMA FollowsTransitive ==
  ASSUME NEW d \in Declarations, NEW e \in Declarations, NEW f \in Declarations,
         Follows(d, e), Follows(e, f)
  PROVE  Follows(d, f)
<1>1. ASSUME NEW c \in Registered
      PROVE  \/ f[c].major > d[c].major
             \/ f[c].major = d[c].major /\ d[c].topic \in {NoTopic, f[c].topic}
  <2>1. d[c].major \in Nat /\ e[c].major \in Nat /\ f[c].major \in Nat
    BY ReleaseAssumption
  <2>2. \/ e[c].major > d[c].major
        \/ e[c].major = d[c].major /\ d[c].topic \in {NoTopic, e[c].topic}
    BY DEF Follows
  <2>3. \/ f[c].major > e[c].major
        \/ f[c].major = e[c].major /\ e[c].topic \in {NoTopic, f[c].topic}
    BY DEF Follows
  <2>. QED
    BY <2>1, <2>2, <2>3
<1>. QED
  BY <1>1 DEF Follows

LEMMA InRange == ASSUME NEW n \in Nat, NEW i \in 1..n PROVE i = n \/ i < n
  OBVIOUS

LEMMA RecordedStep == TypeOK /\ RecordedOk /\ [Next]_vars => RecordedOk'
<1> SUFFICES ASSUME TypeOK, RecordedOk, [Next]_vars
             PROVE  RecordedOk'
  OBVIOUS
<1>1. CASE recorded' = recorded
  BY <1>1 DEF RecordedOk
<1>2. CASE Freeze /\ recorded' # recorded
  <2>1. /\ recorded' = Append(recorded, declared)
        /\ recorded # <<>> => Follows(recorded[Len(recorded)], declared)
    BY <1>2 DEF Freeze, Last
  <2>2. /\ recorded \in Seq(Declarations) /\ Len(recorded) \in Nat /\ declared \in Declarations
        /\ DOMAIN recorded = 1..Len(recorded)
    BY DEF TypeOK
  <2>3. /\ DOMAIN recorded' = 1..(Len(recorded) + 1)
        /\ recorded'[Len(recorded) + 1] = declared
        /\ \A i \in 1..Len(recorded) : recorded'[i] = recorded[i]
    BY <2>1, <2>2
  <2>4. ASSUME NEW i \in 1..Len(recorded)
        PROVE  Follows(recorded[i], declared)
    <3>1. /\ recorded[i] \in Declarations /\ recorded[Len(recorded)] \in Declarations
          /\ recorded # <<>> /\ i \in Nat /\ Len(recorded) \in DOMAIN recorded
      BY <2>2
    <3>2. CASE i = Len(recorded)
      BY <2>1, <3>1, <3>2
    <3>3. CASE i < Len(recorded)
      <4>1. Follows(recorded[i], recorded[Len(recorded)])
        BY <2>2, <3>1, <3>3 DEF RecordedOk
      <4>. QED
        BY <2>1, <2>2, <3>1, <4>1, FollowsTransitive
    <3>4. i = Len(recorded) \/ i < Len(recorded)
      BY <2>2, InRange
    <3>. QED
      BY ONLY <3>2, <3>3, <3>4
  <2>5. ASSUME NEW i \in DOMAIN recorded', NEW j \in DOMAIN recorded', i < j
        PROVE  Follows(recorded'[i], recorded'[j])
    <3>1. i \in 1..Len(recorded) /\ recorded'[i] = recorded[i]
      BY <2>2, <2>3, <2>5
    <3>2. CASE j \in 1..Len(recorded)
      BY <2>2, <2>3, <2>5, <3>1, <3>2 DEF RecordedOk
    <3>3. CASE j = Len(recorded) + 1
      BY <2>3, <2>4, <3>1, <3>3
    <3>. QED
      BY <2>2, <2>3, <3>2, <3>3
  <2>. QED
    BY <2>5 DEF RecordedOk, Follows
<1>3. CASE ~Freeze
  <2>1. recorded' = recorded
    BY <1>3 DEF Next, Edit, Declare, Generate, GenerateKilled, Release, Start, StartFromYaml,
                Publish, Drop, contracts, vars
  <2>. QED
    BY <1>1, <2>1
<1>. QED
  BY <1>1, <1>2, <1>3

\* Two recorded declarations of one major version name one topic.
LEMMA OneTopicPerMajor ==
  ASSUME TypeOK, RecordedOk, NEW d \in ToSet(recorded), NEW e \in ToSet(recorded),
         NEW c \in Registered, d[c].major = e[c].major,
         d[c].topic # NoTopic, e[c].topic # NoTopic
  PROVE  d[c].topic = e[c].topic
<1>1. PICK i \in DOMAIN recorded : recorded[i] = d
  BY DEF ToSet
<1>2. PICK j \in DOMAIN recorded : recorded[j] = e
  BY DEF ToSet
<1>3. /\ i \in Nat /\ j \in Nat
      /\ d[c].major \in Nat /\ e[c].major \in Nat
  BY <1>1, <1>2, ReleaseAssumption DEF TypeOK
<1>4. CASE i < j
  <2>1. Follows(d, e)
    BY <1>1, <1>2, <1>4 DEF RecordedOk
  <2>. QED
    BY <1>3, <2>1 DEF Follows
<1>5. CASE j < i
  <2>1. Follows(e, d)
    BY <1>1, <1>2, <1>5 DEF RecordedOk
  <2>. QED
    BY <1>3, <2>1 DEF Follows
<1>. QED
  BY <1>1, <1>2, <1>3, <1>4, <1>5

\* A valid map has one entry for a contract that binds its topic, with that topic.
LEMMA BoundEntry ==
  ASSUME NEW map, NEW under, Valid(map, under), NEW c \in Registered, under[c].topic # NoTopic
  PROVE  \E k \in DOMAIN map : EntriesFor(map, c) = {k} /\ map[k].pattern = under[c].topic
<1>1. c \in DOMAIN TopicsOf(under) /\ TopicsOf(under)[c] = under[c].topic
  BY DEF TopicsOf
<1>. QED
  BY <1>1 DEF Valid, MapOk, BindingsOk

\* A contract that binds its topic is resolved right between valid maps of any two recorded
\* declarations of one major version, through any number of moves of its topic.
THEOREM BoundRoutingCorrect == Spec => []BoundTopicsStable
<1>1. Init => TypeOK /\ RecordedOk
  BY TypeInit DEF Init, RecordedOk
<1>2. (TypeOK /\ RecordedOk) /\ [Next]_vars => (TypeOK /\ RecordedOk)'
  BY TypeStep, RecordedStep
<1>3. ASSUME TypeOK, RecordedOk
      PROVE  BoundTopicsStable
  <2> SUFFICES ASSUME NEW s \in Services, NEW c \in Registered, NEW m \in broker,
                      Delivered(s, c, m), Valid(loaded[s], running[s]), Valid(m.by, m.under),
                      running[s][m.contract].major = m.under[m.contract].major,
                      running[s][m.contract].topic # NoTopic,
                      m.under[m.contract].topic # NoTopic,
                      NEW d \in ToSet(recorded), NEW e \in ToSet(recorded),
                      d[m.contract] = running[s][m.contract],
                      e[m.contract] = m.under[m.contract]
               PROVE  Right(s, c, m)
    BY DEF BoundTopicsStable
  <2>1. HasEntry(m.by, m.contract)
    BY <1>3 DEF TypeOK, MessageOk
  <2>2. PICK n \in DOMAIN m.by : /\ EntryOf(m.by, m.contract) = m.by[n]
                                 /\ EntriesFor(m.by, m.contract) = {n}
                                 /\ m.by[n].contract = m.contract
    BY <2>1, EntryFacts
  <2>3. m.contract \in Registered
    BY <2>2 DEF Valid, MapOk
  <2>4. d[m.contract].topic = e[m.contract].topic
    BY <1>3, <2>3, OneTopicPerMajor
  <2>5. PICK k \in DOMAIN loaded[s] : /\ EntriesFor(loaded[s], m.contract) = {k}
                                      /\ loaded[s][k].pattern = d[m.contract].topic
    BY <2>3, BoundEntry
  <2>6. loaded[s][k].contract = m.contract
    BY <2>5 DEF EntriesFor
  <2>7. PICK i \in DOMAIN m.by : /\ EntriesFor(m.by, m.contract) = {i}
                                 /\ m.by[i].pattern = e[m.contract].topic
    BY <2>3, BoundEntry
  <2>8. EntryOf(m.by, m.contract).pattern = loaded[s][k].pattern
    BY <2>2, <2>4, <2>5, <2>7
  <2>. QED
    BY <1>3, <2>5, <2>6, <2>8, HolderIsRight
<1>. QED
  BY <1>1, <1>2, <1>3, PTL DEF Spec

=============================================================================
