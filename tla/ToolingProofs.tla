---------------------------- MODULE ToolingProofs -----------------------------
(***************************************************************************)
(* Proofs about generate and about the contracts it accepts.  Whatever      *)
(* earlier runs, kills and edits have left behind, a run that nobody edits  *)
(* under ends with the package and the outputs that its contracts describe: *)
(* the invariant says, phase by phase, how much of that a run has reached.  *)
(* A document the authoring rules accept can be rendered in every format.   *)
(***************************************************************************)
EXTENDS Generation, Authoring, TLAPS

\* What one output is once its contract has been written, or has failed.
Settled(fmt, i) ==
    IF <<i, contracts[i]>> \in Failing THEN outputs[fmt][i] \in {0, Partial}
    ELSE outputs[fmt][i] = contracts[i]

\* A run in progress: what it has still to do lies in what it was asked for.
RunOK ==
    /\ phase = "unlink" => left \subseteq Modules
    /\ phase = "write" => left \subseteq DOMAIN sources
    /\ phase = "outputs" => left \subseteq Ids /\ format \in pending

\* A run that no edit has overtaken works from the documents as they are, and on
\* nothing that an earlier run completed; one that was overtaken completes nothing.
AskedOK ==
    /\ asked = {} /\ phase # "idle" => current = {}
    /\ asked # {} =>
        /\ phase # "idle"
        /\ specs = contracts /\ sources = Sources(contracts, topics)
        /\ current \cap asked = {} /\ pending \subseteq asked
        /\ phase \in {"unlink", "write"} => "pydantic" \in asked /\ pending = asked \cap Formats

\* How far such a run has got with the package, and with the formats.
PackageOK ==
    asked # {} =>
        /\ phase = "unlink" => \A f \in Modules \ DOMAIN sources : models[f] # Absent => f \in left
        /\ phase = "write" =>
              /\ \A f \in Modules \ DOMAIN sources : models[f] = Absent
              /\ \A f \in DOMAIN sources \ left : models[f] = sources[f]
        /\ phase \in {"formats", "outputs"} /\ "pydantic" \in asked => NoDrift

FormatsOK ==
    asked # {} =>
        /\ \A fmt \in (asked \cap Formats) \ pending : \A i \in Ids : Settled(fmt, i)
        /\ phase = "outputs" =>
              \A i \in Ids : IF i \in left THEN outputs[format][i] = 0 ELSE Settled(format, i)

\* The run that writes a format has emptied its directory itself.
BasisOK ==
    /\ OutputsOfOneTree
    /\ phase = "outputs" => basis[format] = specs

IInv == TypeOK /\ RunOK /\ AskedOK /\ PackageOK /\ FormatsOK /\ BasisOK /\ CompletedIsCurrent

-----------------------------------------------------------------------------
(* The package that the documents describe *)

LEMMA RegisteredType == ASSUME NEW cs PROVE Registered(cs) \subseteq Ids
  BY DEF Registered

LEMMA SourcesNames ==
  ASSUME NEW cs, NEW t, NEW f
  PROVE  f \in DOMAIN Sources(cs, t) <=>
            \/ \E i \in Registered(cs) : f = ModuleOf[i]
            \/ f = Package
            \/ t # 0 /\ f = TopicMap
<1>1. DOMAIN Sources(cs, t) = {ModuleOf[i] : i \in Registered(cs)} \cup {Package}
                              \cup (IF t = 0 THEN {} ELSE {TopicMap})
  BY DEF Sources
<1>. QED
  BY <1>1

LEMMA SourcesType ==
  ASSUME NEW cs \in [Ids -> Revisions], NEW t \in TopicRevisions
  PROVE  /\ DOMAIN Sources(cs, t) \subseteq Modules
         /\ \A f \in DOMAIN Sources(cs, t) : Sources(cs, t)[f] \in Contents \ {Absent, Torn}
<1>1. DOMAIN Sources(cs, t) \subseteq Modules
  <2>1. \A i \in Registered(cs) : ModuleOf[i] \in Modules
    BY RegisteredType, GenerationAssumption
  <2>. QED
    BY <2>1, SourcesNames, GenerationAssumption
<1>2. ASSUME NEW f \in DOMAIN Sources(cs, t) PROVE Sources(cs, t)[f] \in Contents \ {Absent, Torn}
  <2>1. CASE f = TopicMap /\ t # 0
    <3>1. Sources(cs, t)[f] = Topics(t)
      BY <1>2, <2>1 DEF Sources
    <3>. QED
      BY <3>1, <2>1 DEF Contents, Topics, Absent, Torn
  <2>2. CASE ~(f = TopicMap /\ t # 0) /\ f = Package
    <3>1. Sources(cs, t)[f] = Exports(Registered(cs))
      BY <1>2, <2>2 DEF Sources
    <3>2. Exports(Registered(cs)) \in Contents
      BY RegisteredType DEF Contents
    <3>3. Exports(Registered(cs)).is = "package" /\ Absent.is = "absent" /\ Torn.is = "torn"
      BY DEF Exports, Absent, Torn
    <3>. QED
      BY <3>1, <3>2, <3>3
  <2>3. CASE ~(f = TopicMap /\ t # 0) /\ f # Package
    <3>. DEFINE i == CHOOSE j \in Registered(cs) : ModuleOf[j] = f
    <3>1. Sources(cs, t)[f] = Model(i, cs[i])
      BY <1>2, <2>3 DEF Sources
    <3>2. \E j \in Registered(cs) : ModuleOf[j] = f
      BY <1>2, <2>3, SourcesNames
    <3>3. i \in Registered(cs)
      BY <3>2
    <3>4. i \in Ids /\ cs[i] \in Revisions \ {0}
      BY <3>3 DEF Registered
    <3>. HIDE DEF i
    <3>. QED
      BY <3>1, <3>4 DEF Contents, Model, Absent, Torn
  <2>. QED
    BY <2>1, <2>2, <2>3
<1>. QED
  BY <1>1, <1>2

-----------------------------------------------------------------------------
(* Types *)

LEMMA InitInv == Init => IInv
<1> SUFFICES ASSUME Init PROVE IInv
  OBVIOUS
<1>1. contracts \in [Ids -> Revisions] /\ topics \in TopicRevisions
  <2>1. {0, 1} \subseteq Revisions /\ 0 \in TopicRevisions
    BY GenerationAssumption DEF Revisions, TopicRevisions
  <2>. QED
    BY <2>1 DEF Init
<1>2. /\ models \in [Modules -> Contents] /\ specs \in [Ids -> Revisions]
      /\ outputs \in [Formats -> [Ids -> Revisions \cup {Partial}]]
  BY GenerationAssumption DEF Init, Revisions, Contents
<1>3. TypeOK
  BY <1>1, <1>2 DEF Init, TypeOK, Phases, Targets
<1>4. BasisOK
  BY DEF Init, BasisOK, OutputsOfOneTree
<1>. QED
  BY <1>3, <1>4 DEF Init, IInv, RunOK, AskedOK, PackageOK, FormatsOK, CompletedIsCurrent

LEMMA TypeStep == TypeOK /\ RunOK /\ [Next]_vars => TypeOK'
<1> SUFFICES ASSUME TypeOK, RunOK, [Next]_vars PROVE TypeOK'
  OBVIOUS
<1>. USE DEF TypeOK
<1>1. ASSUME NEW i \in Ids, NEW r \in Revisions, EditContract(i, r) PROVE TypeOK'
  BY <1>1 DEF EditContract, files
<1>2. ASSUME NEW r \in TopicRevisions, EditTopics(r) PROVE TypeOK'
  BY <1>2 DEF EditTopics, files
<1>3. ASSUME NEW wanted \in (SUBSET Targets) \ {{}}, Start(wanted) PROVE TypeOK'
  <2>1. DOMAIN sources' \subseteq Modules /\ \A f \in DOMAIN sources' : sources'[f] \in Contents
    BY <1>3, SourcesType DEF Start
  <2>2. left' \subseteq Modules \cup Ids /\ phase' \in Phases
    BY <1>3 DEF Start, Phases
  <2>3. pending' \subseteq Formats /\ asked' \subseteq Targets /\ current' \subseteq Targets
    BY <1>3 DEF Start, Targets
  <2>. QED
    BY <1>3, <2>1, <2>2, <2>3 DEF Start, docs, files
<1>4. ASSUME NEW f \in Modules, Unlink(f) PROVE TypeOK'
  <2>1. models' \in [Modules -> Contents] /\ left' \subseteq Modules \cup Ids
    BY <1>4 DEF Unlink, Contents
  <2>. QED
    BY <1>4, <2>1 DEF Unlink, observers, docs
<1>5. ASSUME NEW f \in Modules, Write(f) PROVE TypeOK'
  BY <1>5 DEF Write, observers, docs, RunOK
<1>6. ASSUME NEW fmt \in Formats, Fresh(fmt) PROVE TypeOK'
  <2>1. outputs' \in [Formats -> [Ids -> Revisions \cup {Partial}]]
    BY <1>6, GenerationAssumption DEF Fresh, Revisions
  <2>2. left' \subseteq Modules \cup Ids
    BY <1>6, RegisteredType DEF Fresh
  <2>3. basis' \in [Formats -> [Ids -> Revisions]]
    BY <1>6 DEF Fresh
  <2>. QED
    BY <1>6, <2>1, <2>2, <2>3 DEF Fresh, docs, Phases, Targets
<1>7. ASSUME NEW i \in Ids, Output(i) PROVE TypeOK'
  <2>1. format \in Formats
    BY <1>7 DEF Output, RunOK
  <2>2. PICK content \in Revisions \cup {Partial} : outputs' = [outputs EXCEPT ![format][i] = content]
    <3>1. i \in Ids /\ specs[i] \in Revisions \cup {Partial} /\ outputs[format][i] \in Revisions \cup {Partial}
      BY <2>1
    <3>. QED
      BY <1>7, <3>1 DEF Output
  <2>3. outputs' \in [Formats -> [Ids -> Revisions \cup {Partial}]]
    BY <2>2
  <2>. QED
    BY <1>7, <2>3 DEF Output, observers, docs
<1>8. CASE BeginWrites
  BY <1>8 DEF BeginWrites, observers, docs, files, Phases
<1>9. CASE EndWrites
  BY <1>9 DEF EndWrites, observers, docs, files, Phases
<1>10. CASE EndFormat
  BY <1>10 DEF EndFormat, observers, docs, files, Phases, Targets
<1>11. ASSUME Exit PROVE /\ phase' \in Phases /\ specs' \in [Ids -> Revisions] /\ format' \in Targets
                         /\ DOMAIN sources' = {} /\ left' = {} /\ pending' = {} /\ asked' = {}
  BY <1>11, GenerationAssumption DEF Exit, Phases, Revisions, Targets
<1>12. CASE Finish
  BY <1>11, <1>12 DEF Finish, docs, files
<1>13. CASE Kill
  <2>1. models' \in [Modules -> Contents]
    <3>1. CASE models' = models
      BY <3>1
    <3>2. CASE \E f \in left : models' = [models EXCEPT ![f] = Torn]
      <4>1. PICK f \in left : models' = [models EXCEPT ![f] = Torn]
        BY <3>2
      <4>2. Torn \in Contents /\ models \in [Modules -> Contents]
        BY DEF Contents
      <4>. QED
        BY ONLY <4>1, <4>2
    <3>. QED
      BY <1>13, <3>1, <3>2 DEF Kill, files
  <2>2. outputs' \in [Formats -> [Ids -> Revisions \cup {Partial}]]
    <3>1. CASE UNCHANGED files \/ outputs' = outputs
      BY <3>1 DEF files
    <3>2. CASE phase = "outputs" /\ \E i \in left : outputs' = [outputs EXCEPT ![format][i] = Partial]
      BY <3>2 DEF RunOK
    <3>3. CASE \E fmt \in pending, gone \in SUBSET Ids :
                  outputs' = [outputs EXCEPT ![fmt] = [i \in Ids |-> IF i \in gone THEN 0 ELSE @[i]]]
      <4>1. PICK fmt \in pending, gone \in SUBSET Ids :
                  outputs' = [outputs EXCEPT ![fmt] = [i \in Ids |-> IF i \in gone THEN 0 ELSE @[i]]]
        BY <3>3
      <4>2. [i \in Ids |-> IF i \in gone THEN 0 ELSE outputs[fmt][i]] \in [Ids -> Revisions \cup {Partial}]
        BY GenerationAssumption DEF Revisions
      <4>. QED
        BY <4>1, <4>2
    <3>. QED
      BY <1>13, <3>1, <3>2, <3>3 DEF Kill
  <2>. QED
    BY <1>11, <1>13, <2>1, <2>2 DEF Kill, observers, docs
<1>14. CASE UNCHANGED vars
  BY <1>14 DEF vars, docs, files, run, observers
<1>. QED
  BY <1>1, <1>2, <1>3, <1>4, <1>5, <1>6, <1>7, <1>8, <1>9, <1>10, <1>12, <1>13, <1>14 DEF Next

-----------------------------------------------------------------------------
(* The steps of a run *)

LEMMA RunStep == TypeOK /\ RunOK /\ [Next]_vars => RunOK'
<1> SUFFICES ASSUME TypeOK, RunOK, [Next]_vars PROVE RunOK'
  OBVIOUS
<1>. USE DEF RunOK
<1>1. ASSUME NEW i \in Ids, NEW r \in Revisions, EditContract(i, r) PROVE RunOK'
  BY <1>1 DEF EditContract
<1>2. ASSUME NEW r \in TopicRevisions, EditTopics(r) PROVE RunOK'
  BY <1>2 DEF EditTopics
<1>3. ASSUME NEW wanted \in (SUBSET Targets) \ {{}}, Start(wanted) PROVE RunOK'
  BY <1>3 DEF Start
<1>4. ASSUME NEW f \in Modules, Unlink(f) \/ Write(f) PROVE RunOK'
  BY <1>4 DEF Unlink, Write
<1>5. ASSUME NEW fmt \in Formats, Fresh(fmt) PROVE RunOK'
  BY <1>5, RegisteredType DEF Fresh
<1>6. ASSUME NEW i \in Ids, Output(i) PROVE RunOK'
  BY <1>6 DEF Output
<1>7. CASE BeginWrites \/ EndWrites \/ EndFormat
  BY <1>7 DEF BeginWrites, EndWrites, EndFormat
<1>8. CASE Finish \/ Kill
  BY <1>8 DEF Finish, Kill, Exit
<1>9. CASE UNCHANGED vars
  BY <1>9 DEF vars, run
<1>. QED
  BY <1>1, <1>2, <1>3, <1>4, <1>5, <1>6, <1>7, <1>8, <1>9 DEF Next

LEMMA AskedStep == TypeOK /\ RunOK /\ AskedOK /\ [Next]_vars => AskedOK'
<1> SUFFICES ASSUME TypeOK, RunOK, AskedOK, [Next]_vars PROVE AskedOK'
  OBVIOUS
<1>. USE DEF AskedOK
<1>1. ASSUME NEW i \in Ids, NEW r \in Revisions, EditContract(i, r) PROVE AskedOK'
  BY <1>1 DEF EditContract
<1>2. ASSUME NEW r \in TopicRevisions, EditTopics(r) PROVE AskedOK'
  BY <1>2 DEF EditTopics
<1>3. ASSUME NEW wanted \in (SUBSET Targets) \ {{}}, Start(wanted) PROVE AskedOK'
  <2>1. /\ asked' = wanted /\ pending' = wanted \ {"pydantic"} /\ phase' \in {"unlink", "formats"}
        /\ specs' = contracts' /\ sources' = Sources(contracts', topics')
        /\ current' \cap asked' = {}
        /\ phase' = "unlink" => "pydantic" \in wanted
    BY <1>3 DEF Start, docs
  <2>2. wanted \ {"pydantic"} = wanted \cap Formats
    BY GenerationAssumption DEF Targets
  <2>. QED
    BY <2>1, <2>2
<1>4. ASSUME NEW f \in Modules, Unlink(f) \/ Write(f) PROVE AskedOK'
  BY <1>4 DEF Unlink, Write, docs, observers
<1>5. ASSUME NEW fmt \in Formats, Fresh(fmt) PROVE AskedOK'
  BY <1>5 DEF Fresh, docs
<1>6. ASSUME NEW i \in Ids, Output(i) PROVE AskedOK'
  BY <1>6 DEF Output, docs, observers
<1>7. CASE BeginWrites \/ EndWrites
  BY <1>7 DEF BeginWrites, EndWrites, docs, observers
<1>8. CASE EndFormat
  BY <1>8 DEF EndFormat, docs, observers
<1>9. CASE Finish \/ Kill
  BY <1>9 DEF Finish, Kill, Exit, observers
<1>10. CASE UNCHANGED vars
  BY <1>10 DEF vars, run, docs, observers
<1>. QED
  BY <1>1, <1>2, <1>3, <1>4, <1>5, <1>6, <1>7, <1>8, <1>9, <1>10 DEF Next

\* Of the steps of a run only those of the package touch it.
LEMMA DriftKept == ASSUME NoDrift, UNCHANGED <<docs, models>> PROVE NoDrift'
  BY DEF NoDrift, docs

LEMMA PackageStep == TypeOK /\ RunOK /\ AskedOK /\ PackageOK /\ [Next]_vars => PackageOK'
<1> SUFFICES ASSUME TypeOK, RunOK, AskedOK, PackageOK, [Next]_vars, asked' # {} PROVE PackageOK'
  BY DEF PackageOK
<1>. USE DEF PackageOK
<1>1. ASSUME NEW i \in Ids, NEW r \in Revisions, EditContract(i, r) PROVE PackageOK'
  BY <1>1 DEF EditContract
<1>2. ASSUME NEW r \in TopicRevisions, EditTopics(r) PROVE PackageOK'
  BY <1>2 DEF EditTopics
<1>3. ASSUME NEW wanted \in (SUBSET Targets) \ {{}}, Start(wanted) PROVE PackageOK'
  <2>1. /\ asked' = wanted /\ sources' = Sources(contracts, topics) /\ models' = models
        /\ phase' = "unlink" =>
              left' = {f \in Modules \ DOMAIN Sources(contracts, topics) : models[f] # Absent}
        /\ phase' = "unlink" \/ (phase' = "formats" /\ "pydantic" \notin wanted)
    BY <1>3 DEF Start, files
  <2>. QED
    BY <2>1
<1>4. ASSUME NEW f \in Modules, Unlink(f) PROVE PackageOK'
  <2>1. phase' = "unlink" /\ sources' = sources /\ left' = left \ {f} /\ models' = [models EXCEPT ![f] = Absent]
        /\ asked' = asked /\ phase = "unlink"
    BY <1>4 DEF Unlink
  <2>. QED
    BY <2>1 DEF TypeOK
<1>5. ASSUME NEW f \in Modules, Write(f) PROVE PackageOK'
  <2>1. phase' = "write" /\ sources' = sources /\ left' = left \ {f} /\ models' = [models EXCEPT ![f] = sources[f]]
        /\ asked' = asked /\ phase = "write" /\ f \in left
    BY <1>5 DEF Write
  <2>. QED
    BY <2>1 DEF TypeOK, RunOK
<1>6. CASE BeginWrites
  <2>1. /\ phase' = "write" /\ sources' = sources /\ left' = DOMAIN sources /\ models' = models
        /\ asked' = asked /\ phase = "unlink" /\ left = {}
    BY <1>6 DEF BeginWrites, files
  <2>. QED
    BY <2>1
<1>7. CASE EndWrites
  <2>1. /\ phase' = "formats" /\ left = {} /\ phase = "write" /\ asked # {}
        /\ UNCHANGED <<docs, models>>
    BY <1>7 DEF EndWrites, files
  <2>2. sources = Sources(contracts, topics)
    BY <2>1 DEF AskedOK
  <2>3. NoDrift
    BY <2>1, <2>2 DEF NoDrift
  <2>. QED
    BY <2>1, <2>3, DriftKept
<1>8. ASSUME phase \in {"formats", "outputs"}, phase' \in {"formats", "outputs"}, asked' = asked,
             UNCHANGED <<docs, models>>
      PROVE  PackageOK'
  BY <1>8, DriftKept
<1>9. ASSUME NEW fmt \in Formats, Fresh(fmt) PROVE PackageOK'
  BY <1>8, <1>9 DEF Fresh
<1>10. ASSUME NEW i \in Ids, Output(i) PROVE PackageOK'
  BY <1>8, <1>10 DEF Output
<1>11. CASE EndFormat
  BY <1>8, <1>11 DEF EndFormat, files
<1>12. CASE Finish \/ Kill
  BY <1>12 DEF Finish, Kill, Exit
<1>13. CASE UNCHANGED vars
  <2>1. UNCHANGED <<docs, models, sources, left, phase, asked>>
    BY <1>13 DEF vars, run, files
  <2>. QED
    BY <2>1, DriftKept
<1>. QED
  BY <1>1, <1>2, <1>3, <1>4, <1>5, <1>6, <1>7, <1>9, <1>10, <1>11, <1>12, <1>13 DEF Next

\* A format is settled as long as neither its documents nor its files change.
LEMMA SettledKept ==
  ASSUME NEW fmt, NEW i, Settled(fmt, i), contracts' = contracts, outputs'[fmt][i] = outputs[fmt][i]
  PROVE  Settled(fmt, i)'
  BY DEF Settled

LEMMA FormatsStep == TypeOK /\ RunOK /\ AskedOK /\ FormatsOK /\ [Next]_vars => FormatsOK'
<1> SUFFICES ASSUME TypeOK, RunOK, AskedOK, FormatsOK, [Next]_vars, asked' # {} PROVE FormatsOK'
  BY DEF FormatsOK
<1>. USE DEF FormatsOK
<1>1. ASSUME NEW i \in Ids, NEW r \in Revisions, EditContract(i, r) PROVE FormatsOK'
  BY <1>1 DEF EditContract
<1>2. ASSUME NEW r \in TopicRevisions, EditTopics(r) PROVE FormatsOK'
  BY <1>2 DEF EditTopics
<1>3. ASSUME NEW wanted \in (SUBSET Targets) \ {{}}, Start(wanted) PROVE FormatsOK'
  <2>1. asked' = wanted /\ pending' = wanted \ {"pydantic"} /\ phase' # "outputs"
    BY <1>3 DEF Start
  <2>. QED
    BY <2>1, GenerationAssumption
<1>4. ASSUME phase' # "outputs", UNCHANGED <<contracts, outputs, asked, pending>> PROVE FormatsOK'
  BY <1>4 DEF Settled
<1>5. ASSUME NEW f \in Modules, Unlink(f) \/ Write(f) PROVE FormatsOK'
  BY <1>4, <1>5 DEF Unlink, Write, docs
<1>6. CASE BeginWrites \/ EndWrites
  BY <1>4, <1>6 DEF BeginWrites, EndWrites, docs, files
<1>7. ASSUME NEW fmt \in Formats, Fresh(fmt) PROVE FormatsOK'
  <2>1. /\ phase' = "outputs" /\ format' = fmt /\ left' = Registered(specs) /\ fmt \in pending
        /\ outputs' = [outputs EXCEPT ![fmt] = [i \in Ids |-> 0]]
        /\ contracts' = contracts /\ asked' = asked /\ pending' = pending
    BY <1>7 DEF Fresh, docs
  <2>2. \A other \in (asked \cap Formats) \ pending : \A i \in Ids : Settled(other, i)'
    BY <2>1, SettledKept DEF TypeOK
  <2>3. ASSUME NEW i \in Ids PROVE IF i \in left' THEN outputs'[format'][i] = 0 ELSE Settled(format, i)'
    <3>1. outputs'[format'][i] = 0
      BY <2>1 DEF TypeOK
    <3>2. CASE i \notin left'
      <4>1. contracts[i] = 0
        BY <2>1, <3>2 DEF AskedOK, Registered
      <4>. QED
        BY <2>1, <3>1, <3>2, <4>1 DEF Settled
    <3>. QED
      BY <3>1, <3>2
  <2>. QED
    BY <2>1, <2>2, <2>3
<1>8. ASSUME NEW i \in Ids, Output(i) PROVE FormatsOK'
  <2>1. /\ phase = "outputs" /\ phase' = "outputs" /\ format' = format /\ i \in left /\ left' = left \ {i}
        /\ contracts' = contracts /\ asked' = asked /\ pending' = pending /\ format \in Formats
        /\ specs = contracts /\ outputs[format][i] = 0 /\ format \in pending
    BY <1>8 DEF Output, docs, RunOK, AskedOK, TypeOK
  <2>2. PICK content \in IF <<i, specs[i]>> \in Failing THEN {outputs[format][i], Partial} ELSE {specs[i]} :
           outputs' = [outputs EXCEPT ![format][i] = content]
    BY <1>8 DEF Output
  <2>3. \A fmt \in Formats, j \in Ids : fmt # format \/ j # i => outputs'[fmt][j] = outputs[fmt][j]
    BY <2>2 DEF TypeOK
  <2>4. outputs'[format][i] = content
    BY <2>1, <2>2 DEF TypeOK
  <2>5. Settled(format, i)'
    BY <2>1, <2>2, <2>4 DEF Settled
  <2>6. \A fmt \in (asked \cap Formats) \ pending : \A j \in Ids : Settled(fmt, j)'
    BY <2>1, <2>3, SettledKept
  <2>7. ASSUME NEW j \in Ids PROVE IF j \in left' THEN outputs'[format'][j] = 0 ELSE Settled(format, j)'
    <3>1. CASE j = i
      BY <3>1, <2>1, <2>5
    <3>2. CASE j # i
      BY <3>2, <2>1, <2>3, SettledKept
    <3>. QED
      BY <3>1, <3>2
  <2>. QED
    BY <2>1, <2>6, <2>7
<1>9. CASE EndFormat
  <2>1. /\ phase = "outputs" /\ left = {} /\ phase' = "formats" /\ pending' = pending \ {format}
        /\ UNCHANGED <<contracts, outputs, asked>>
    BY <1>9 DEF EndFormat, docs, files
  <2>2. \A i \in Ids : Settled(format, i)
    BY <2>1
  <2>3. \A fmt \in (asked' \cap Formats) \ pending' : \A i \in Ids : Settled(fmt, i)
    BY <2>1, <2>2
  <2>. QED
    BY <2>1, <2>3, SettledKept
<1>10. CASE Finish \/ Kill
  BY <1>10 DEF Finish, Kill, Exit
<1>11. CASE UNCHANGED vars
  <2>1. UNCHANGED <<contracts, outputs, asked, pending, phase, format, left>>
    BY <1>11 DEF vars, docs, files, run
  <2>. QED
    BY <2>1, SettledKept
<1>. QED
  BY <1>1, <1>2, <1>3, <1>5, <1>6, <1>7, <1>8, <1>9, <1>10, <1>11 DEF Next

-----------------------------------------------------------------------------
(* The run that a directory comes from *)

LEMMA BasisKept ==
  ASSUME BasisOK, basis' = basis, outputs' = outputs,
         phase' = "outputs" => phase = "outputs" /\ format' = format /\ specs' = specs
  PROVE  BasisOK'
  BY DEF BasisOK, OutputsOfOneTree

\* Files that are removed, or cut short, leave what remains of one run.
LEMMA BasisThinned ==
  ASSUME BasisOK, basis' = basis, phase' # "outputs",
         \A fmt \in Formats, i \in Ids : outputs'[fmt][i] \in {0, Partial, outputs[fmt][i]}
  PROVE  BasisOK'
  BY DEF BasisOK, OutputsOfOneTree

LEMMA BasisStep == TypeOK /\ RunOK /\ BasisOK /\ [Next]_vars => BasisOK'
<1> SUFFICES ASSUME TypeOK, RunOK, BasisOK, [Next]_vars PROVE BasisOK'
  OBVIOUS
<1>1. ASSUME NEW i \in Ids, NEW r \in Revisions, EditContract(i, r) PROVE BasisOK'
  BY <1>1, BasisKept DEF EditContract, files
<1>2. ASSUME NEW r \in TopicRevisions, EditTopics(r) PROVE BasisOK'
  BY <1>2, BasisKept DEF EditTopics, files
<1>3. ASSUME NEW wanted \in (SUBSET Targets) \ {{}}, Start(wanted) PROVE BasisOK'
  <2>1. phase' # "outputs" /\ basis' = basis /\ outputs' = outputs
    BY <1>3 DEF Start, files
  <2>. QED
    BY <2>1, BasisKept
<1>4. ASSUME NEW f \in Modules, Unlink(f) \/ Write(f) PROVE BasisOK'
  <2>1. phase' # "outputs" /\ basis' = basis /\ outputs' = outputs
    BY <1>4 DEF Unlink, Write, observers
  <2>. QED
    BY <2>1, BasisKept
<1>5. CASE BeginWrites \/ EndWrites \/ EndFormat
  <2>1. phase' # "outputs" /\ basis' = basis /\ outputs' = outputs
    BY <1>5 DEF BeginWrites, EndWrites, EndFormat, files, observers
  <2>. QED
    BY <2>1, BasisKept
<1>6. ASSUME NEW fmt \in Formats, Fresh(fmt) PROVE BasisOK'
  <2>1. /\ outputs' = [outputs EXCEPT ![fmt] = [i \in Ids |-> 0]]
        /\ basis' = [basis EXCEPT ![fmt] = specs] /\ format' = fmt /\ specs' = specs
    BY <1>6 DEF Fresh
  <2>2. basis'[format'] = specs'
    BY <2>1 DEF TypeOK
  <2>3. ASSUME NEW other \in Formats, NEW i \in Ids
        PROVE  outputs'[other][i] \in {0, Partial, basis'[other][i]}
    <3>1. CASE other = fmt
      BY <2>1, <3>1 DEF TypeOK
    <3>2. CASE other # fmt
      <4>1. outputs'[other] = outputs[other] /\ basis'[other] = basis[other]
        BY <2>1, <3>2 DEF TypeOK
      <4>. QED
        BY <4>1 DEF BasisOK, OutputsOfOneTree
    <3>. QED
      BY <3>1, <3>2
  <2>. QED
    BY <2>2, <2>3 DEF BasisOK, OutputsOfOneTree
<1>7. ASSUME NEW i \in Ids, Output(i) PROVE BasisOK'
  <2>1. /\ phase = "outputs" /\ format' = format /\ specs' = specs /\ basis' = basis
        /\ format \in Formats /\ basis[format] = specs
    BY <1>7 DEF Output, observers, RunOK, BasisOK, TypeOK
  <2>2. PICK content \in IF <<i, specs[i]>> \in Failing THEN {outputs[format][i], Partial} ELSE {specs[i]} :
           outputs' = [outputs EXCEPT ![format][i] = content]
    BY <1>7 DEF Output
  <2>3. outputs[format][i] \in {0, Partial, basis[format][i]}
    BY <2>1 DEF BasisOK, OutputsOfOneTree
  <2>4. content \in {0, Partial, basis[format][i]}
    BY <2>1, <2>2, <2>3
  <2>5. ASSUME NEW fmt \in Formats, NEW j \in Ids
        PROVE  outputs'[fmt][j] \in {0, Partial, basis'[fmt][j]}
    <3>1. CASE fmt = format /\ j = i
      BY <2>1, <2>2, <2>4, <3>1 DEF TypeOK
    <3>2. CASE ~(fmt = format /\ j = i)
      <4>1. outputs'[fmt][j] = outputs[fmt][j]
        BY <2>2, <3>2 DEF TypeOK
      <4>. QED
        BY <2>1, <4>1 DEF BasisOK, OutputsOfOneTree
    <3>. QED
      BY <3>1, <3>2
  <2>. QED
    BY <2>1, <2>5 DEF BasisOK, OutputsOfOneTree
<1>8. CASE Finish
  <2>1. phase' # "outputs" /\ basis' = basis /\ outputs' = outputs
    BY <1>8 DEF Finish, Exit, files
  <2>. QED
    BY <2>1, BasisKept
<1>9. CASE Kill
  <2>1. phase' # "outputs" /\ basis' = basis
    BY <1>9 DEF Kill, Exit, observers
  <2>2. ASSUME NEW fmt \in Formats, NEW i \in Ids
        PROVE  outputs'[fmt][i] \in {0, Partial, outputs[fmt][i]}
    <3>1. CASE outputs' = outputs
      BY <3>1
    <3>2. CASE phase = "outputs" /\ \E j \in left : outputs' = [outputs EXCEPT ![format][j] = Partial]
      BY <3>2 DEF RunOK, TypeOK
    <3>3. CASE \E other \in pending, gone \in SUBSET Ids :
                  outputs' = [outputs EXCEPT ![other] = [j \in Ids |-> IF j \in gone THEN 0 ELSE @[j]]]
      BY <3>3 DEF TypeOK
    <3>. QED
      BY <1>9, <3>1, <3>2, <3>3 DEF Kill, files
  <2>. QED
    BY <2>1, <2>2, BasisThinned
<1>10. CASE UNCHANGED vars
  BY <1>10, BasisKept DEF vars, files, run, observers
<1>. QED
  BY <1>1, <1>2, <1>3, <1>4, <1>5, <1>6, <1>7, <1>8, <1>9, <1>10 DEF Next

-----------------------------------------------------------------------------
(* What has been completed stays as it is while no document changes *)

LEMMA CompletedShape ==
  CompletedIsCurrent <=> /\ "pydantic" \in current => NoDrift
                         /\ \A fmt \in current \cap Formats, i \in Ids : Settled(fmt, i)
  BY DEF CompletedIsCurrent, Settled

LEMMA CompletedKept ==
  ASSUME CompletedIsCurrent, contracts' = contracts, topics' = topics, current' \subseteq current,
         "pydantic" \in current' => models' = models,
         \A fmt \in current' \cap Formats, i \in Ids : outputs'[fmt][i] = outputs[fmt][i]
  PROVE  CompletedIsCurrent'
<1>1. "pydantic" \in current' => NoDrift'
  BY CompletedShape, DriftKept DEF docs
<1>2. \A fmt \in current' \cap Formats, i \in Ids : Settled(fmt, i)'
  BY CompletedShape, SettledKept
<1>. QED
  BY <1>1, <1>2 DEF CompletedIsCurrent, Settled

LEMMA CompletedStep == IInv /\ [Next]_vars => CompletedIsCurrent'
<1> SUFFICES ASSUME IInv, [Next]_vars PROVE CompletedIsCurrent'
  OBVIOUS
<1>. USE DEF IInv
\* What a run works on, nothing of it counts as completed.
<1>a. ASSUME phase # "idle" PROVE current \cap pending = {}
  BY <1>a DEF AskedOK
<1>b. ASSUME phase \in {"unlink", "write"} PROVE "pydantic" \notin current
  BY <1>b DEF AskedOK
<1>1. ASSUME NEW i \in Ids, NEW r \in Revisions, EditContract(i, r) PROVE CompletedIsCurrent'
  BY <1>1 DEF EditContract, CompletedIsCurrent
<1>2. ASSUME NEW r \in TopicRevisions, EditTopics(r) PROVE CompletedIsCurrent'
  BY <1>2 DEF EditTopics, CompletedIsCurrent
<1>3. ASSUME NEW wanted \in (SUBSET Targets) \ {{}}, Start(wanted) PROVE CompletedIsCurrent'
  BY <1>3, CompletedKept DEF Start, docs, files
<1>4. ASSUME NEW f \in Modules, Unlink(f) \/ Write(f) PROVE CompletedIsCurrent'
  BY <1>4, <1>b, CompletedKept DEF Unlink, Write, docs, observers
<1>5. CASE BeginWrites \/ EndWrites \/ EndFormat
  BY <1>5, CompletedKept DEF BeginWrites, EndWrites, EndFormat, docs, files, observers
<1>6. ASSUME NEW fmt \in Formats, Fresh(fmt) PROVE CompletedIsCurrent'
  <2>1. \A other \in current' \cap Formats : outputs'[other] = outputs[other]
    BY <1>6, <1>a DEF Fresh, TypeOK
  <2>. QED
    BY <1>6, <2>1, CompletedKept DEF Fresh, docs
<1>7. ASSUME NEW i \in Ids, Output(i) PROVE CompletedIsCurrent'
  <2>1. format \notin current
    BY <1>7, <1>a DEF Output, RunOK
  <2>2. \A other \in current' \cap Formats : outputs'[other] = outputs[other]
    <3>1. \A other \in Formats : other # format => outputs'[other] = outputs[other]
      BY <1>7 DEF Output, TypeOK
    <3>2. current' = current
      BY <1>7 DEF Output, observers
    <3>. QED
      BY <2>1, <3>1, <3>2
  <2>. QED
    BY <1>7, <2>2, CompletedKept DEF Output, docs, observers
<1>8. CASE Finish
  <2>1. /\ phase = "formats" /\ pending = {} /\ current' = current \cup asked
        /\ UNCHANGED <<contracts, topics, models, outputs>>
    BY <1>8 DEF Finish, docs, files
  <2>2. "pydantic" \in current' => NoDrift
    BY <2>1, CompletedShape DEF PackageOK
  <2>3. \A fmt \in current' \cap Formats, i \in Ids : Settled(fmt, i)
    BY <2>1, CompletedShape DEF FormatsOK
  <2>4. "pydantic" \in current' => NoDrift'
    BY <2>1, <2>2, DriftKept DEF docs
  <2>5. \A fmt \in current' \cap Formats, i \in Ids : Settled(fmt, i)'
    BY <2>1, <2>3, SettledKept
  <2>. QED
    BY <2>4, <2>5 DEF CompletedIsCurrent, Settled
<1>9. CASE Kill
  <2>1. phase # "idle" /\ contracts' = contracts /\ topics' = topics /\ current' = current
    BY <1>9 DEF Kill, docs, observers
  <2>2. "pydantic" \in current => models' = models
    BY <1>9, <1>b DEF Kill, files
  <2>3. \A other \in current \cap Formats : outputs'[other] = outputs[other]
    <3>1. CASE outputs' = outputs
      BY <3>1
    <3>2. CASE phase = "outputs" /\ \E i \in left : outputs' = [outputs EXCEPT ![format][i] = Partial]
      BY <3>2, <1>a DEF RunOK, TypeOK
    <3>3. CASE \E fmt \in pending, gone \in SUBSET Ids :
                  outputs' = [outputs EXCEPT ![fmt] = [i \in Ids |-> IF i \in gone THEN 0 ELSE @[i]]]
      BY <3>3, <2>1, <1>a DEF TypeOK
    <3>. QED
      BY <1>9, <3>1, <3>2, <3>3 DEF Kill, files
  <2>. QED
    BY <2>1, <2>2, <2>3, CompletedKept
<1>10. CASE UNCHANGED vars
  BY <1>10, CompletedKept DEF vars, docs, files, observers
<1>. QED
  BY <1>1, <1>2, <1>3, <1>4, <1>5, <1>6, <1>7, <1>8, <1>9, <1>10 DEF Next

-----------------------------------------------------------------------------
(* Theorems *)

LEMMA Invariance == Spec => []IInv
<1>1. Init => IInv
  BY InitInv
<1>2. IInv /\ [Next]_vars => IInv'
  BY TypeStep, RunStep, AskedStep, PackageStep, FormatsStep, BasisStep, CompletedStep DEF IInv
<1>. QED
  BY <1>1, <1>2, PTL DEF Spec

\* Every variable of generate keeps its type, with kills and edits at any moment.
THEOREM TypeCorrect == Spec => []TypeOK
<1>1. IInv => TypeOK
  BY DEF IInv
<1>. QED
  BY <1>1, Invariance, PTL

\* generate.py: a run that ends without an edit under it leaves a package without drift and
\* outputs of no earlier revision, for any contracts, formats, failing writers and
\* whatever a killed run has left behind.
THEOREM RunsRepair == Spec => []CompletedIsCurrent
<1>1. IInv => CompletedIsCurrent
  BY DEF IInv
<1>. QED
  BY <1>1, Invariance, PTL

\* generate.py: the directory of a format holds what one run made of the contracts it had
\* loaded, for any contracts, formats and failing writers and with kills and edits at any
\* moment.
THEOREM OneTreePerFormat == Spec => []OutputsOfOneTree
<1>1. IInv => OutputsOfOneTree
  BY DEF IInv, BasisOK
<1>. QED
  BY <1>1, Invariance, PTL

-----------------------------------------------------------------------------
(* The authoring rules *)

ValueKinds == ScalarKinds \union {"json"}

\* types.py: each format's table has every kind of value, and every Python type is importable.
LEMMA TablesComplete ==
  /\ \A table \in Tables, k \in ValueKinds : k \in DOMAIN table
  /\ \A k \in ValueKinds : PyTypes[k] \in Builtins \/ (k \in DOMAIN PyTypes
        /\ PyTypes[k] \in {"datetime.date", "dict[str, Any]", "ContractBytes", "ContractTimestamp"})
<1>1. \A k \in ValueKinds : k \in DOMAIN PyTypes
  BY DEF ValueKinds, ScalarKinds, PyTypes
<1>2. \A k \in ValueKinds : k \in DOMAIN ProtoTypes
  BY DEF ValueKinds, ScalarKinds, ProtoTypes
<1>3. \A k \in ValueKinds : k \in DOMAIN AvroTypes
  BY DEF ValueKinds, ScalarKinds, AvroTypes
<1>4. \A k \in ValueKinds : k \in DOMAIN ArrowTypes
  BY DEF ValueKinds, ScalarKinds, ArrowTypes
<1>5. \A k \in ValueKinds : PyTypes[k] \in Builtins
        \union {"datetime.date", "dict[str, Any]", "ContractBytes", "ContractTimestamp"}
  <2>1. /\ PyTypes["string"] = "str" /\ PyTypes["bytes"] = "ContractBytes" /\ PyTypes["int"] = "int"
        /\ PyTypes["long"] = "int" /\ PyTypes["float"] = "float" /\ PyTypes["double"] = "float"
        /\ PyTypes["boolean"] = "bool" /\ PyTypes["timestamp"] = "ContractTimestamp"
        /\ PyTypes["date"] = "datetime.date" /\ PyTypes["json"] = "dict[str, Any]"
    BY DEF PyTypes
  <2>. QED
    BY <2>1 DEF ValueKinds, ScalarKinds, Builtins
<1>. QED
  BY <1>1, <1>2, <1>3, <1>4, <1>5 DEF Tables

\* A body the rules accept has a kind the tables know, a record or an array.
LEMMA CarriesKind ==
  ASSUME NEW body, Carries(body)
  PROVE  /\ Canonical(body.physical) \in ValueKinds \union {"record", "array"}
         /\ Canonical(body.physical) = "array" <=> body.logical = "array"
  BY DEF Carries, LogicalToKinds, ValueKinds, ScalarKinds

\* The kinds an accepted property may have.
LEMMA PropertyKinds ==
  ASSUME NEW p, NEW records, PropertyOk(p, records)
  PROVE  /\ Kind(p) = "array" => ItemKind(p) \in ValueKinds \union {"record"}
         /\ Kind(p) # "array" => Kind(p) \in ValueKinds \union {"record"} /\ ItemKind(p) = None
         /\ IsRecord(p) <=> ValueKind(p) = "record"
         /\ ValueKind(p) \in ValueKinds \union {"record"}
<1>1. Carries(p.body) /\ OfficialOk(p) /\ TypeOk(p, records)
  BY DEF PropertyOk, TypeOk
<1>2. Kind(p) = "array" => ItemKind(p) \in ValueKinds \union {"record"}
  BY <1>1 DEF TypeOk, ItemKinds, ValueKinds
<1>3. ASSUME Kind(p) # "array"
      PROVE  Kind(p) \in ValueKinds \union {"record"} /\ ItemKind(p) = None
  <2>1. p.body.logical # "array"
    BY <1>1, <1>3, CarriesKind DEF Kind
  <2>2. p.items = NoBody
    BY <1>1, <2>1 DEF OfficialOk
  <2>3. ItemKind(p) = None
    BY <2>2 DEF ItemKind, NoBody, Canonical, None
  <2>. QED
    BY <1>1, <1>3, <2>3, CarriesKind DEF Kind
<1>4. IsRecord(p) <=> ValueKind(p) = "record"
  BY <1>2, <1>3 DEF IsRecord, ValueKind, None
<1>. QED
  BY <1>2, <1>3, <1>4 DEF ValueKind

\* A record an accepted property holds is one of those allowed at its level.
LEMMA RecordAllowed ==
  ASSUME NEW p, NEW records, PropertyOk(p, records), IsRecord(p)
  PROVE  RecordBody(p) \in records /\ RecordFields(p) = RecordBody(p).props
<1>1. Canonical(RecordBody(p).physical) = "record"
  BY PropertyKinds DEF ValueKind, RecordBody, Kind, ItemKind
<1>2. ObjectOk(RecordBody(p), records)
  BY DEF PropertyOk, TypeOk, RecordBody
<1>. QED
  BY <1>1, <1>2 DEF ObjectOk, RecordFields

\* rules.py: a field of a record is no record.
LEMMA NoRecordInRecord ==
  ASSUME NEW p, PropertyOk(p, {}) PROVE ~IsRecord(p)
  BY RecordAllowed

\* Only a record has fields.
LEMMA FieldsOutsideRecords ==
  ASSUME NEW p, NEW records, PropertyOk(p, records), ~IsRecord(p) PROVE RecordFields(p) = <<>>
<1>1. Canonical(RecordBody(p).physical) # "record"
  BY DEF IsRecord, RecordBody, Kind, ItemKind
<1>. QED
  BY <1>1 DEF RecordFields

\* What an accepted document says of its properties, at both levels.
LEMMA TopLevel ==
  ASSUME NEW d, AcceptedDoc(d)
  PROVE  /\ PropertiesOk(d.props, {b \in Bodies(d.props) : Record(b)})
         /\ \A i \in DOMAIN d.props : PropertyOk(d.props[i], {b \in Bodies(d.props) : Record(b)})
         /\ \A i \in DOMAIN d.props : IsRecord(d.props[i]) => PropertiesOk(RecordFields(d.props[i]), {})
<1>1. PropertiesOk(d.props, {b \in Bodies(d.props) : Record(b)})
  BY DEF AcceptedDoc, Parses
<1>2. ASSUME NEW i \in DOMAIN d.props PROVE PropertyOk(d.props[i], {b \in Bodies(d.props) : Record(b)})
  BY <1>1 DEF PropertiesOk
<1>3. ASSUME NEW i \in DOMAIN d.props, IsRecord(d.props[i]) PROVE PropertiesOk(RecordFields(d.props[i]), {})
  <2> DEFINE p == d.props[i]
             records == {b \in Bodies(d.props) : Record(b)}
  <2>1. PropertyOk(p, records)
    BY <1>2
  <2>2. RecordBody(p) \in records /\ RecordFields(p) = RecordBody(p).props
    <3>. HIDE DEF p, records
    <3>. QED
      BY <1>3, <2>1, RecordAllowed DEF p
  <2>. QED
    BY <2>2 DEF Record
<1>. QED
  BY <1>1, <1>2, <1>3

\* A field of an accepted document passed the rules at its own level.
LEMMA FieldLevels ==
  ASSUME NEW d, AcceptedDoc(d), NEW p \in Fields(d)
  PROVE  \/ PropertyOk(p, {b \in Bodies(d.props) : Record(b)})
         \/ PropertyOk(p, {})
<1>1. CASE \E i \in DOMAIN d.props : p = d.props[i]
  BY <1>1, TopLevel
<1>2. CASE \E i \in DOMAIN d.props : \E j \in DOMAIN RecordFields(d.props[i]) : p = RecordFields(d.props[i])[j]
  <2>1. PICK i \in DOMAIN d.props : \E j \in DOMAIN RecordFields(d.props[i]) : p = RecordFields(d.props[i])[j]
    BY <1>2
  <2>2. PICK j \in DOMAIN RecordFields(d.props[i]) : p = RecordFields(d.props[i])[j]
    BY <2>1
  <2>3. IsRecord(d.props[i])
    <3>1. DOMAIN <<>> = {}
      OBVIOUS
    <3>. QED
      BY <2>2, <3>1, TopLevel, FieldsOutsideRecords
  <2>4. PropertiesOk(RecordFields(d.props[i]), {})
    BY <2>3, TopLevel
  <2>. QED
    BY <2>2, <2>4 DEF PropertiesOk
<1>. QED
  BY <1>1, <1>2 DEF Fields

\* The property, of any document.
LEMMA Renders == EveryFieldRenders
<1>. SUFFICES ASSUME AcceptedDoc(doc), NEW p \in Fields(doc)
              PROVE  /\ IsRecord(p) \/ \A table \in Tables : ValueKind(p) \in DOMAIN table
                     /\ ValueType(PyTypes, p) \in Builtins \union PyImports(doc) \union TypesDefined(doc)
                     /\ IsRecord(p) => \A j \in DOMAIN RecordFields(p) : ~IsRecord(RecordFields(p)[j])
  BY DEF EveryFieldRenders
<1> DEFINE top == {b \in Bodies(doc.props) : Record(b)}
<1>1. PropertyOk(p, top) \/ PropertyOk(p, {})
  BY FieldLevels
<1>. HIDE DEF top
<1>2. /\ IsRecord(p) \/ ValueKind(p) \in ValueKinds
      /\ ValueKind(p) \in {Kind(p), ItemKind(p)}
  BY <1>1, PropertyKinds DEF ValueKind
<1>3. IsRecord(p) \/ \A table \in Tables : ValueKind(p) \in DOMAIN table
  BY <1>2, TablesComplete
<1>4. ValueType(PyTypes, p) \in Builtins \union PyImports(doc) \union TypesDefined(doc)
  <2>1. CASE IsRecord(p)
    BY <2>1 DEF ValueType, TypesDefined
  <2>2. CASE ~IsRecord(p)
    <3>1. ValueType(PyTypes, p) = PyTypes[ValueKind(p)]
      BY <2>2 DEF ValueType
    <3>2. CASE PyTypes[ValueKind(p)] \in Builtins
      BY <3>1, <3>2
    <3>3. CASE PyTypes[ValueKind(p)] \notin Builtins
      <4>1. /\ ValueKind(p) \in DOMAIN PyTypes
            /\ PyTypes[ValueKind(p)] \in {"datetime.date", "dict[str, Any]", "ContractBytes", "ContractTimestamp"}
        BY <1>2, <2>2, <3>3, TablesComplete
      <4>2. ValueKind(p) \in {Kind(q) : q \in Fields(doc)} \union {ItemKind(q) : q \in Fields(doc)}
        BY <1>2
      <4>3. PyTypes[ValueKind(p)] \in PyImports(doc)
        BY <4>1, <4>2 DEF PyImports
      <4>. QED
        BY <3>1, <4>3
    <3>. QED
      BY <3>2, <3>3
  <2>. QED
    BY <2>1, <2>2
<1>5. ASSUME IsRecord(p), NEW j \in DOMAIN RecordFields(p)
      PROVE  ~IsRecord(RecordFields(p)[j])
  <2>1. PropertyOk(p, top)
    BY <1>1, <1>5, NoRecordInRecord
  <2>2. PropertiesOk(RecordFields(p), {})
    BY <1>5, <2>1, RecordAllowed DEF top, Record
  <2>. QED
    BY <1>5, <2>2, NoRecordInRecord DEF PropertiesOk
<1>. QED
  BY <1>3, <1>4, <1>5

\* pydantic_gen._bounds: a valid value is within its kind's range.
LEMMA ValidFits ==
  ASSUME NEW p, BoundsInRange(p), Kind(p) \in IntegerKinds, NEW v \in Int, Valid(p, v)
  PROVE  v \in Low(Kind(p))..High(Kind(p))
<1>1. Low(Kind(p)) \in Int /\ High(Kind(p)) \in Int
  BY WidthAssumption DEF Low, High
<1>2. ASSUME NEW b \in Bounds, b \in DOMAIN p.options
      PROVE  p.options[b] \in Int /\ Low(Kind(p)) <= p.options[b] /\ p.options[b] <= High(Kind(p))
  BY <1>1, <1>2 DEF BoundsInRange, Fits
<1>3. Low(Kind(p)) <= v
  <2>1. CASE DefaultLow(p)
    BY <1>1, <2>1 DEF Valid
  <2>2. CASE "minimum" \in DOMAIN p.options
    BY <1>1, <1>2, <2>2 DEF Valid, Bounds
  <2>3. CASE "exclusiveMinimum" \in DOMAIN p.options
    BY <1>1, <1>2, <2>3 DEF Valid, Bounds
  <2>. QED
    BY <2>1, <2>2, <2>3 DEF DefaultLow, Has
<1>4. v <= High(Kind(p))
  <2>1. CASE DefaultHigh(p)
    BY <1>1, <2>1 DEF Valid
  <2>2. CASE "maximum" \in DOMAIN p.options
    BY <1>1, <1>2, <2>2 DEF Valid, Bounds
  <2>3. CASE "exclusiveMaximum" \in DOMAIN p.options
    BY <1>1, <1>2, <2>3 DEF Valid, Bounds
  <2>. QED
    BY <2>1, <2>2, <2>3 DEF DefaultHigh, Has
<1>. QED
  BY <1>1, <1>3, <1>4

\* The property, of any document.
LEMMA ScalarFits == ScalarFitsWire
  BY ValidFits, ProbesAssumption DEF ScalarFitsWire, Fits
\* Every field of every contract the authoring rules accept renders in every format, for any edits.
THEOREM AcceptedRenders == AuthoringSpec => []EveryFieldRenders
  BY Renders, PTL
\* Every integer a generated model accepts fits the type on the wire, for any authored bounds.
THEOREM AcceptedFitsWire == AuthoringSpec => []ScalarFitsWire
  BY ScalarFits, PTL

===============================================================================
