------------------------------ MODULE Generation ------------------------------
(***************************************************************************)
(* `ss-contracts generate`: the models package (one module per contract,   *)
(* topic_map.py and __init__.py) and one directory per other format are    *)
(* rewritten file by file.  A run may be killed anywhere, a contract may   *)
(* fail in a format, and authors edit while it runs.  The drift gate       *)
(* compares the package with what the contracts say now.                   *)
(***************************************************************************)
EXTENDS Integers, FiniteSets

CONSTANTS Ids,          \* contract ids
          Modules,      \* file names of the package
          ModuleOf,     \* pydantic_gen.module_name, as a file name
          TopicMap,     \* topic_map.py
          Package,      \* __init__.py
          Formats,      \* the formats with a directory of their own
          MaxRevision,  \* bound on the revisions of a contract
          MaxTopics,    \* bound on the revisions of topics.yaml
          Unready,      \* <<id, revision>> that generation_errors refuses
          Failing       \* <<id, revision>> that a writer fails on

ASSUME GenerationAssumption ==
    /\ MaxRevision \in Nat \ {0} /\ MaxTopics \in Nat
    /\ ModuleOf \in [Ids -> Modules]
    /\ \A i, j \in Ids : ModuleOf[i] = ModuleOf[j] => i = j
    /\ TopicMap \in Modules /\ Package \in Modules /\ TopicMap # Package
    /\ \A i \in Ids : ModuleOf[i] # Package
    /\ "pydantic" \notin Formats
    /\ Unready \cup Failing \subseteq Ids \X (1..MaxRevision)

\* The revision of a contract and of topics.yaml; 0 is none.
Revisions == 0..MaxRevision
TopicRevisions == 0..MaxTopics

Absent == [is |-> "absent"]
Torn == [is |-> "torn"]
Model(i, r) == [is |-> "model", of |-> i, at |-> r]
Topics(r) == [is |-> "topics", at |-> r]
Exports(ids) == [is |-> "package", of |-> ids]
Contents ==
    {Absent, Torn} \cup {Model(i, r) : i \in Ids, r \in Revisions \ {0}}
    \cup {Topics(r) : r \in TopicRevisions \ {0}} \cup {Exports(ids) : ids \in SUBSET Ids}

VARIABLES
    contracts,  \* the revision of each contract in the registry
    topics,     \* the revision of topics.yaml
    models,     \* the package, committed
    outputs,    \* the file of each format and contract
    phase,      \* where the run is
    specs,      \* the contracts the run has loaded
    sources,    \* the package it has rendered
    left,       \* files or contracts the phase has still to do
    format,     \* the format it is writing
    pending,    \* formats still to write
    asked,      \* observer: formats the run was asked for, until an edit overtakes it
    current,    \* observer: formats completed with no edit since the run began
    basis       \* observer: the contracts that the run which last emptied a format had loaded

docs == <<contracts, topics>>
files == <<models, outputs>>
run == <<phase, specs, sources, left, format, pending, asked>>
observers == <<current, basis>>
vars == <<docs, files, run, observers>>

Phases == {"idle", "unlink", "write", "formats", "outputs"}
Targets == Formats \cup {"pydantic"}
Registered(cs) == {i \in Ids : cs[i] # 0}

-----------------------------------------------------------------------------
(* What the package should be *)

\* Mutant: every contract of the registry is rendered, loaded or not.
SourcesUnloaded(cs, t) ==
    LET named == {ModuleOf[i] : i \in Ids} \cup {Package} \cup IF t = 0 THEN {} ELSE {TopicMap}
    IN  [f \in named |->
            IF f = TopicMap /\ t # 0 THEN Topics(t)
            ELSE IF f = Package THEN Exports(Ids)
            ELSE LET i == CHOOSE i \in Ids : ModuleOf[i] = f IN Model(i, cs[i])]

\* model_sources and add_topic_map_source: the topic map is added last.
Sources(cs, t) ==
    LET named == {ModuleOf[i] : i \in Registered(cs)} \cup {Package}
                 \cup IF t = 0 THEN {} ELSE {TopicMap}
    IN  [f \in named |->
            IF f = TopicMap /\ t # 0 THEN Topics(t)
            ELSE IF f = Package THEN Exports(Registered(cs))
            ELSE LET i == CHOOSE i \in Registered(cs) : ModuleOf[i] = f IN Model(i, cs[i])]

\* No finding of model_drift.
NoDrift ==
    LET due == Sources(contracts, topics)
    IN  \A f \in Modules : models[f] = IF f \in DOMAIN due THEN due[f] ELSE Absent

\* Half of an output: a .proto without its .pb, or a torn file.
Partial == -1

TypeOK ==
    /\ contracts \in [Ids -> Revisions] /\ topics \in TopicRevisions
    /\ models \in [Modules -> Contents]
    /\ outputs \in [Formats -> [Ids -> Revisions \cup {Partial}]]
    /\ phase \in Phases
    /\ specs \in [Ids -> Revisions]
    /\ DOMAIN sources \subseteq Modules /\ \A f \in DOMAIN sources : sources[f] \in Contents
    /\ left \subseteq Modules \cup Ids
    /\ format \in Targets
    /\ pending \subseteq Formats /\ asked \subseteq Targets /\ current \subseteq Targets
    /\ basis \in [Formats -> [Ids -> Revisions]]

Init ==
    /\ contracts \in [Ids -> {0, 1}] /\ topics = 0
    /\ models = [f \in Modules |-> Absent]
    /\ outputs = [fmt \in Formats |-> [i \in Ids |-> 0]]
    /\ phase = "idle" /\ specs = [i \in Ids |-> 0] /\ sources = <<>>
    /\ left = {} /\ format = "pydantic" /\ pending = {}
    /\ asked = {} /\ current = {}
    /\ basis = [fmt \in Formats |-> specs]

-----------------------------------------------------------------------------
(* Authors *)

EditContract(i, r) ==
    /\ contracts' = [contracts EXCEPT ![i] = r]
    /\ current' = {} /\ asked' = {}
    /\ UNCHANGED <<topics, files, phase, specs, sources, left, format, pending, basis>>

EditTopics(r) ==
    /\ topics' = r
    /\ current' = {} /\ asked' = {}
    /\ UNCHANGED <<contracts, files, phase, specs, sources, left, format, pending, basis>>

-----------------------------------------------------------------------------
(* A run of generate *)

\* The process is gone, and what it had in memory with it.
Exit ==
    /\ phase' = "idle" /\ specs' = [i \in Ids |-> 0] /\ sources' = <<>>
    /\ left' = {} /\ format' = "pydantic" /\ pending' = {} /\ asked' = {}

\* load_contracts and the readiness of every contract: one finding and nothing is
\* written; otherwise the package is rendered in memory.
Start(wanted) ==
    /\ phase = "idle"
    /\ \A i \in Ids : <<i, contracts[i]>> \notin Unready
    /\ specs' = contracts /\ sources' = Sources(contracts, topics)
    /\ asked' = wanted /\ pending' = wanted \ {"pydantic"}
    /\ current' = current \ wanted
    /\ IF "pydantic" \in wanted
       THEN /\ phase' = "unlink"
            /\ left' = {f \in Modules \ DOMAIN Sources(contracts, topics) : models[f] # Absent}
       ELSE phase' = "formats" /\ left' = {}
    /\ UNCHANGED <<docs, files, format, basis>>

\* _write_models: stale modules go first.
Unlink(f) ==
    /\ phase = "unlink" /\ f \in left
    /\ models' = [models EXCEPT ![f] = Absent]
    /\ left' = left \ {f}
    /\ UNCHANGED <<docs, outputs, phase, specs, sources, format, pending, asked, observers>>

BeginWrites ==
    /\ phase = "unlink" /\ left = {}
    /\ phase' = "write" /\ left' = DOMAIN sources
    /\ UNCHANGED <<docs, files, specs, sources, format, pending, asked, observers>>

\* In the order of their names, __init__.py first.
Write(f) ==
    /\ phase = "write" /\ f \in left /\ (Package \in left => f = Package)
    /\ models' = [models EXCEPT ![f] = sources[f]]
    /\ left' = left \ {f}
    /\ UNCHANGED <<docs, outputs, phase, specs, sources, format, pending, asked, observers>>

EndWrites ==
    /\ phase = "write" /\ left = {}
    /\ phase' = "formats"
    /\ UNCHANGED <<docs, files, specs, sources, left, format, pending, asked, observers>>

\* Mutant: files of contracts that are still registered stay until they are rewritten.
FreshUnregistered(fmt) ==
    /\ phase = "formats" /\ fmt \in pending
    /\ outputs' = [outputs EXCEPT ![fmt] = [i \in Ids |-> IF specs[i] = 0 THEN 0 ELSE @[i]]]
    /\ phase' = "outputs" /\ format' = fmt
    /\ left' = Registered(specs) /\ basis' = [basis EXCEPT ![fmt] = specs]
    /\ UNCHANGED <<docs, models, specs, sources, pending, asked, current>>

\* _fresh_dir: every file of the format goes, then each contract is written.
Fresh(fmt) ==
    /\ phase = "formats" /\ fmt \in pending
    /\ outputs' = [outputs EXCEPT ![fmt] = [i \in Ids |-> 0]]
    /\ phase' = "outputs" /\ format' = fmt
    /\ left' = Registered(specs) /\ basis' = [basis EXCEPT ![fmt] = specs]
    /\ UNCHANGED <<docs, models, specs, sources, pending, asked, current>>

\* A writer that fails leaves what it found, or half of its files, and the run goes on.
Output(i) ==
    /\ phase = "outputs" /\ i \in left
    /\ \E content \in IF <<i, specs[i]>> \in Failing THEN {outputs[format][i], Partial} ELSE {specs[i]} :
          outputs' = [outputs EXCEPT ![format][i] = content]
    /\ left' = left \ {i}
    /\ UNCHANGED <<docs, models, phase, specs, sources, format, pending, asked, observers>>

EndFormat ==
    /\ phase = "outputs" /\ left = {}
    /\ phase' = "formats" /\ pending' = pending \ {format} /\ format' = "pydantic"
    /\ UNCHANGED <<docs, files, specs, sources, left, asked, observers>>

Finish ==
    /\ phase = "formats" /\ pending = {}
    /\ Exit
    /\ current' = current \cup asked
    /\ UNCHANGED <<docs, files, basis>>

\* The process dies between two steps, or half way through one of them.
Kill ==
    /\ phase # "idle" /\ Exit
    /\ \/ UNCHANGED files
       \/ /\ phase = "write" /\ outputs' = outputs
          /\ \E f \in left : (Package \in left => f = Package) /\ models' = [models EXCEPT ![f] = Torn]
       \/ /\ phase = "outputs" /\ models' = models
          /\ \E i \in left : outputs' = [outputs EXCEPT ![format][i] = Partial]
       \/ /\ phase = "formats" /\ models' = models
          /\ \E fmt \in pending, gone \in SUBSET Ids :
                outputs' = [outputs EXCEPT ![fmt] = [i \in Ids |-> IF i \in gone THEN 0 ELSE @[i]]]
    /\ UNCHANGED <<docs, observers>>

Next ==
    \/ \E i \in Ids, r \in Revisions : EditContract(i, r)
    \/ \E r \in TopicRevisions : EditTopics(r)
    \/ \E wanted \in (SUBSET Targets) \ {{}} : Start(wanted)
    \/ \E f \in Modules : Unlink(f) \/ Write(f)
    \/ \E fmt \in Formats : Fresh(fmt)
    \/ \E i \in Ids : Output(i)
    \/ BeginWrites \/ EndWrites \/ EndFormat \/ Finish \/ Kill

Spec == Init /\ [][Next]_vars

-----------------------------------------------------------------------------
(* Properties *)

\* A run that ends, on top of whatever earlier runs, kills and edits have left, makes
\* the gate pass and leaves no output of an earlier revision, even of a contract that
\* failed, as long as nobody edits a document meanwhile.
CompletedIsCurrent ==
    /\ "pydantic" \in current => NoDrift
    /\ \A fmt \in current \cap Formats, i \in Ids :
          IF <<i, contracts[i]>> \in Failing THEN outputs[fmt][i] \in {0, Partial}
          ELSE outputs[fmt][i] = contracts[i]

\* The directory of a format never holds files of two runs: whatever kills, failing
\* writers and edits come in between, each of its files is what one and the same run made
\* of the contracts it had loaded, or half of that (generate.py:108-114: the directory is
\* emptied before its first file is written).
OutputsOfOneTree ==
    \A fmt \in Formats, i \in Ids : outputs[fmt][i] \in {0, Partial, basis[fmt][i]}

=============================================================================
