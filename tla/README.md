# A formal model of ss-common

`ss-common` holds what several services share: the data contracts with their tooling
(`ss_contracts`) and the runtime kit of the services (`ss_kit`). This directory holds TLA+
specifications of the parts that carry state or a rule that is hard to test, TLC configurations
that check them on small instances, and TLAPS proofs of their main properties for every value of
the parameters. `PROJECT.json` lists the components, runs, hazards, findings and theorems, and
gives for every definition the lines of code it stands for.

Run a check with `tlc -config Evolution.cfg MCEvolution`, a proof with `tlapm EvolutionProofs.tla`.

## 1. Inventory

| Component | State it keeps | Operations | Talks to | Model |
| --- | --- | --- | --- | --- |
| Evolution policy (`evolution_policy.py`, `fingerprint.py`) | none | snapshot, classify a change, required bump, proto number rules | called by the next | full |
| evolution-freeze, evolution-check (`evolution.py`) | `contracts/evolution/<id>.json`: the history of each contract | freeze (read all, decide, write and prune), check | registry, ODCS files | full |
| Registry (`registry.py`) | `registry.yaml` and the ODCS files, edited by authors | load, consistency errors | every command | as the freeze uses it |
| Authoring rules (`rules.py`, `odcs.py`, `binding.py`, `types.py`, `gen/checker.py`) | none | findings about one document, readiness for the generators | registry | full |
| Renderers (`gen/`) | none | a type, a bound and names for each field, in each format | generation | types, bounds and names |
| Generation (`generate.py`) | the committed models package, one directory per format | generate, drift gate | registry, topic map | file by file |
| Golden fixtures, validate (`golden.py`, `validate.py`) | none | join every finding | registry, generation, topics | no |
| Topic map (`topics.py` in both packages, `mqtt.py`) | `topics.yaml`, the committed `topic_map.py`, the map of each service | check, generate, build, match, resolve, subscribe | broker, other services | full |
| Rate limiter (`security.py`) | buckets by client in order of use | check, evict | clock, settings | full, sequential and threaded |
| Web dependencies (`web/__init__.py`, `web/jwt.py`) | the limiter | API key, client key, rate limit for a request | FastAPI's thread pool | without JWT |
| Logging (`logging.py`) | root handlers, `_State`, a queue and a listener thread | configure, stop, write a line | every thread that logs, `atexit` | one configuring thread |
| Environment and settings (`env.py`, `settings.py`) | `os.environ` | parse, expand, layer `.env` files | every service at start | without typed getters |
| Hardware budget (`hw.py`) | none; reads `/proc` and cgroup files | memory, CPUs, number of parallel jobs | the machine | full |
| Plan integrity (`quality/plan_*.py`) | none; reads the plan, the registry and the records | parse, gate, summary with the next task | authors, `make ci` | full |
| Other gates, sidecar, paths, MQTT settings, generated models | none | one pass over a document, one HTTP call, construction of settings | | no |

The parts meet in files and calls. Authors edit `registry.yaml`, the ODCS documents and
`topics.yaml` by hand. The commands read them, write baselines and generated code, and gate what
is committed: `make ci` runs `contracts` (validate, then `generate --check`), `contracts-gen` and
`evolution-check`. Services import what was committed, load their settings from layered `.env`
files, and use the kit at run time from several threads.

What is hard here, and where:

- *crash and partial failure*: a freeze or a run of generate rewrites several files without a
  journal; it may die between two of them or half way through one (`evolution.py`, `generate.py`);
  a `.env` layer may be malformed after others have been read;
- *interleaving*: FastAPI calls the synchronous dependencies in a thread pool while `RateLimiter`
  takes no lock; threads log while the service stops or reconfigures logging; settings change
  between two questions of one request; the machine changes while its budget is computed;
- *stale reads*: the tree is edited while a command runs; a message is resolved with the map of
  another release; a bucket lives on when the rate changes;
- *long histories*: compatibility is checked between neighbouring snapshots, and consumers are any
  number of versions behind; tasks leave the plan one after the other while others still name them;
- *agreement of code written apart*: rules, type tables and generators; the gate's order of a plan
  and the summary's;
- *boundaries*: full tables, zero and negative rates, fractions of a token or of a build job,
  integer bounds at the width of the wire.

What makes each part correct: recorded histories conform to the policy and lose nothing; what a
gate accepts is usable; a topic means one contract to every service; a client is allowed its rate
and no more, in a bounded table; a record queued before a stop is written, in order; a load of the
environment is all or nothing and may be repeated; an accepted plan always has a next task.

## 2. Modules

| Module | Stands for | State and actions |
| --- | --- | --- |
| `EvolutionPolicy` | `evolution_policy.py`, `fingerprint.py` | operators: `Snapshot`, change classes, `FreezeRefuses`, proto number rules |
| `HistoryLog` | what `contracts/evolution` promises | an append-only log for each contract: `Record`, `Drop`, `Register` |
| `Evolution` | freeze and check over an edited tree | registry, ODCS files, baselines with a torn flag; a freeze of one step per file read, decision, truncation, flush and unlink; `Crash`, edits, `RestoreBaseline`; implements `HistoryLog` |
| `AuthoringRules` | the checks of one document, and of its readiness | `AcceptedDoc` and the predicates it is made of |
| `Rendering` | what each format makes of an accepted document | type tables, what a generated module imports and defines, default and explicit bounds |
| `Authoring` | an author in front of the gate | one document, edited attribute by attribute |
| `Topics` | `TopicEntry`, `TopicMap`, `topic_map_errors` | operators on patterns, topics and maps |
| `TopicRelease` | the life of a topic map | authored, committed, released and loaded maps, messages at the broker; versions and bound topics of the contracts, as declared and as recorded by evolution-freeze |
| `Generation` | `generate.py` | documents, the package, outputs, one run at a time; unlink, write, fresh directory, output, kill |
| `TokenBucket`, `RateTable` | `TokenBucket`, the `OrderedDict` of the limiter | operators `Refilled`, `Allows`, `Take`; `MoveToEnd`, `EvictOldest` |
| `RateLimiter` | `RateLimiter.check`, calls one after the other | order, buckets, clock, rate; `CheckNew`, `CheckKnown`, `SetRate`, `Tick` |
| `RequestGate` | a service with `api_key_dependency` and `rate_limit_dependency` | settings, and the requests under way with the four questions each asks them (the expected key, whether one is required, the switch, proxy trust), over the state of `RateLimiter` |
| `RateLimiterThreads` | the limiter under CPython threads | each call is cut into the steps between which another thread may run |
| `KitLogging` | `ss_kit.logging` | handlers, queues, listeners, the stream; a log call of two steps, which ends in a queue or, without a handler, at Python's handler of last resort; stop and configure as the steps of one calling thread |
| `EnvFiles` | the `.env` dialect and the fold over layers | operators: `Expand`, `ParseEnvText`, `Merge`, `Applied` |
| `Startup` | `load_layered_env` in a process | files, environment, the load layer by layer; launch, exit, child process, edits |
| `HwBudget` | `hw.py` | the machine, and a process that reads it file by file and divides; `MemJobs` |
| `PlanModel` | `plan_model.py` | the line reader as a fold, references, `RecordedIds` |
| `Plan` | `plan_integrity.py`, `plan_summary.py` | `Findings`, `NextTask`; authors edit plan and registry, `FinishTask` |

`Evolution` extends `EvolutionPolicy`; `RequestGate` extends `RateLimiter`, which rests on
`RateTable` and `TokenBucket`; `RateLimiterThreads` uses the same operators and compares itself
with what `RateLimiter` does in one step; `TopicRelease` extends `Topics`, `Authoring` extends
`Rendering` and `AuthoringRules`, `Startup` extends `EnvFiles`, `Plan` extends `PlanModel`. An `MC`
module gives the constants of a run their values. A definition whose comment begins with *Mutant*
is not part of a specification: it is a plausible bug, and each property is known to fail under
one of them.

How the data is abstracted. A document of `Evolution` is its version, binding and fields with the
attributes the policy compares; a fingerprint is an injective function of what it hashes. A document
of `Authoring` is the record of its attributes; whether a single name or version is well formed is
membership in a constant set. A level of a topic is a model value, in one of the classes that the
regular expressions tell apart (a placeholder's own text is also a valid value). Tokens are integers
in units of `1/Unit` of a token, so that fractional rates stay exact. A log record is the thread and
a number. A generated file is what it was rendered from. A value of a `.env` file is a sequence of
atoms and references. A line of the plan is the pattern it matches and what the pattern captures; an
id is the sequence of its words. A version of `TopicRelease` is its major number; a step to another
topic stands for one with the bump the policy asks for. Memory is counted in whole units and
`RamPerJob` is positive. The code divides floats (`hw.py:152-156`): for sizes and fractions far above the precision
of a double their error can move the result only where the remainder is exactly the share that is rounded up, so there
`MemJobs` holds both results.

## 3. Runs

Passing runs:

| Run | Shows |
| --- | --- |
| `evolution` | two contracts, documents of every change class, freezes killed anywhere, truncated baselines checked out again: histories conform, any two snapshots of a major version are compatible, no proto number is reused, nothing reviewed is lost, a successful freeze leaves evolution-check clean, an acceptable tree is recorded, and the whole implements `HistoryLog` |
| `authoring` | three contracts, any two edits: what is accepted has a type in every format, and integer fields that fit the wire |
| `topic_release` | three maps (valid, ambiguous, moved) and one of a site, a contract that moves its topic and changes its version, reviewed or not, messages across releases: routing is unambiguous, right between services that hold the same entry, and between reviewed releases of one major version |
| `generation` | two contracts, a topic map, a format whose writer can fail, kills and edits: a completed run repairs everything, and no directory mixes the files of two runs |
| `request_gate` | two requests under way, settings and rates that change between any two of their questions, room for two of three clients: only vouched addresses are in the table, which is the most recently seen clients, burst and refill hold, a refused call costs nothing |
| `rate_limiter_threads` | two threads, room for one: the table exceeds its bound by one at most; a check nothing overlaps is the atomic one |
| `logging` | two threads log during two configurations: queued records are written before a stop returns, in the order of each thread; behind a footer only the last resort writes; a stop returns |
| `startup` | three layers, two loads by a process or its child, an edit at any time: a load means what a definition without a fold says, is all or nothing, and may be repeated |
| `build_budget` | memory, limits and usage change between the reads: the budget fits, and is the largest that does up to a remainder at the share itself |
| `plan` | two plans, any two edits, tasks finished in between: a cycle is reported exactly when tasks wait on each other, the summary's next task is the first a reader meets, finishing it leaves an accepted plan |

Runs that find a violation. Each checks one sentence of the repository's own text:

| Run | The text | What happens |
| --- | --- | --- |
| `rate_limiter_raise` | check answers "False when the client is over its rate" | another thread evicts the client between `get` and `move_to_end`: `KeyError` |
| `authoring_items` | an integer field without an explicit bound gets the int32 or int64 range, so that a valid message fits the wire | the items of an integer array get no range |

Two weaker promises the models also show to have a limit, without a run of their own. With edits
during a freeze, a file that vanishes between `consistency_errors` and its load is skipped without
an error, and the freeze prunes the baseline of its registered contract (`registry.py:88`,
`evolution.py:172`): this is why `HistoryAppendOnly` and `ImplementsLog` are stated for authors who
wait for a freeze to end. And `stop_logging` stops the listener before it detaches the handler
(`logging.py:83-86`), so a record that another thread queues in between stays in an abandoned queue:
`DrainedWhenStopped` speaks of what was queued when the call began.

Bounds, and why they are enough for the case in question:

- `MaxHistory` = 3: with three snapshots two that are not neighbours are compared, and a number can be
  freed and come back. The documents cover each change class and each attribute. Two contracts are
  needed for a kill between a file that is written and one that is not.
- `MaxEdits` = 2 in `authoring`: a rule relates two attributes at most (a kind and its options, two
  names), and the documents to start from hold the arrays, records and pairs of records an edit
  can bring together. `IntHigh` = 1 and `LongHigh` = 3 put every bound at the edge of a kind.
- `MaxMessages` = 1: messages do not interact. The maps cover each kind of finding, a moved pattern,
  crossing placeholders, and a swap of two contracts; patterns have three levels. Three declarations (two topics in
  version 1, the second in version 2) hold every kind of step of the policy: a topic moved with and without a major bump, and
  taken back; histories end by themselves. One service is enough: it publishes under one release, starts again from
  another and receives its own message.
- `MaxRevision` = 2, `MaxTopics` = 1 in `generation`: an output of an earlier revision can survive, and
  the topic map can come and go. One format is enough because formats share no file.
- `MaxClients` = 2 with three clients in `request_gate`: the table fills, evicts, and an evicted client
  returns with a new bucket; `MaxTime` = 2 and rates of half a token and of one and a half a second leave fractions. Two `Calls`
  overtake each other, one with the key and a header or both without, while two settings differ in key, need, switch and trust.
  In the threaded module two threads, three clients and `MaxClients` = 1 are the least with which both
  find room; five `Objects` are more than two calls and the table can refer to.
- `MaxConfigs` = 2, `MaxRecords` = 2: a thread logs before and after a reconfiguration; `MaxLines` bounds footers.
- `MaxLoads` = 2, `MaxEdits` = 1, files of two lines in `startup`: a reference can look into its own file, the
  environment, an earlier layer and itself, and a second load meets what the first has set.
- `MaxChanges` = 1 in `build_budget`: every read can be stale by one change of any kind.
- `MaxPlanEdits` = 2 in `plan`: a cycle, a duplicate, a dangling name and a hidden heading are one or two lines away
  from the plans to start from, which hold two groups, two lanes and three tasks.

Deadlock is not checked in `authoring`, `build_budget` and `plan`: after the last edit, the end of the
reading or the last task there is nothing left to do. Symmetry is used in runs of invariants
and of action properties (calls in `request_gate`).

Fairness. `Evolution`: weak fairness of the freeze's own steps, a running command, with nothing
assumed of authors or of crashes. `KitLogging`: weak fairness of the calling thread inside a call and
of each listener thread, which the operating system schedules; nobody has to log or to call. The other
modules state no liveness.

Environment assumptions. A truncated baseline makes `json.loads` raise, and is repaired by checking
out the content last completed. The registry is read at one moment, as are all documents in
`Generation`; ids are unordered in `Evolution`, so every order of files is covered. Threads switch
between bytecodes, so a step of `RateLimiterThreads` is one read or write of a shared attribute or
one `OrderedDict` operation; its rate is constant. In `RequestGate` the limiter's own calls do not
overlap; everything else of a request may. In `TopicRelease` a freeze or a validation is one step, since `Evolution` has
their kills; registered contracts stay, since dropping one drops its history. Contract ids have distinct modules in `Generation`. One thread configures and stops logging,
and the stream is one (stderr) for all configurations. A child process inherits the environment and
runs while its parent waits. Usage and limits of the machine may change in any way.

## 4. Refinements

- `Evolution` implements `HistoryLog`: the baselines are the log and the registered contracts its
  active ones; `Follows` and `Agrees` are the version policy and the number rule as relations. Reading,
  deciding, truncating, crashing and restoring are invisible; a write of a file adds at most one entry.
- `RequestGate` is built on the state of `RateLimiter`: each step of a request is a check or leaves the limiter
  alone. That holds by the shape of the module and is no property of its own; the proofs use it
  (`GateIsLimiter`) to carry what is proved of the limiter over to the service.
- `LoneCheckIsAtomic` relates the threaded limiter to the sequential one where it can be related: a check
  that nothing overlaps does what one step of `RateLimiter` does. A full refinement does not hold, which
  `rate_limiter_raise` shows.

## 5. Proofs

Eight modules hold the theorems, one for each neighbourhood of the code: `EvolutionProofs`,
`ToolingProofs` (generate and the authoring rules), `TopicReleaseProofs`, `ReadersProofs` (the `.env`
loader and the plan), `KitProofs` (logging and the build budget), `RateTableProofs`, `RequestGateProofs`
(the limiter and the service) and `RateLimiterThreadsProofs`. Modules extended together have actions
of different names (`PlanNext`, `BudgetNext`, `AuthoringNext`).

For every value of the constants, from the assumptions named in the modules:

- `EvolutionProofs`. The invariant `IInv` is `TypeOK`, every baseline a *good history*, and so is every
  payload about to be written: a conforming history in which, in addition, any two snapshots agree
  on numbers and those of one major version have no breaking change between them. Conformance
  relates neighbours only, so it does not imply the pairwise facts by itself: the proof carries them,
  by the transitivity of *no breaking change* along versions that increase. From it follow `TypeCorrect`,
  `HistoriesConform`, `MajorVersionsCompatible` and `NumbersKeepTheirField`, with crashes and concurrent
  edits. `HistoryKept` adds `CalmInv`: what a freeze has read is still so, given that nobody edits
  meanwhile. `EvolutionImplementsLog` maps every step to a step of the log, from the same two invariants.
  `FreezeLeavesNothingToReport` adds `CleanInv`: what a freeze has loaded is what the files hold, each
  baseline it has written ends with that, and what it has pruned is gone. It has two hypotheses: nobody
  edits under a command (`ConcurrentEdits = FALSE`), and no document gives one number to two fields
  (`OwnNumbersAgree`). The latter is what the generators check of every document
  before validate passes (`gen/checker.py`, "used twice"); a first freeze does not (section 6).
- `RateTableProofs`, `RequestGateProofs`. `TableInv` says that the table is a suffix of the distinct
  clients in order of their last check; `AccountInv` that tokens granted and tokens left are paid for by
  the capacity and the refill. They give `TableBoundedLRU`, `GrantsBounded` and, as an action property,
  `RefusalsJustified`. `GateOK` is what the dependencies keep on their side: a request that has come past
  require_key is vouched, what a request under way has been told was so at some moment it has seen, and trust that is on has
  been noted. With it each step maps to a step of the limiter (lemma `GateIsLimiter`),
  so `ServiceKeepsLimits` follows from the theorems about the limiter; `TableVouched` adds that no step
  puts anything else into the table.
- `RateLimiterThreadsProofs`. `Live`: a thread that holds a bucket holds one that exists. `Excess`: the
  table and the threads that have found room and not yet stored together stay below
  `MaxClients + Cardinality(Threads)`; the table alone is not inductive, since a thread between its
  test and its store is a client to come. They give `ExcessBounded`. `Owned` and `Lone` follow a
  check no other has overlapped so far: at each of its steps the limiter differs from the table the check
  began with by exactly what an atomic check would have done up to there. `Owned` (no bucket serves two
  clients) is needed to see that the tokens such a check takes are those of its own entry. They give
  `LoneChecksAreAtomic`.
- `TopicReleaseProofs`. Lemmas about any patterns: two patterns that match one topic overlap, overlapping
  well-formed patterns match one together (so the check is exact), match inverts build, and a
  subscription delivers only its own topics. With the invariant that a release holds a valid map they
  give `ReleaseUnambiguous`, `OverlapExact` and `RoutingCorrect`. `BoundRoutingCorrect` needs more, because topics
  move: the policy compares neighbouring declarations only, and `RecordedOk` carries what it grants to any two
  (`FollowsTransitive`), so that two recorded declarations of one major version name one topic (`OneTopicPerMajor`).
- `ToolingProofs`. `CompletedIsCurrent` speaks of finished runs only. The invariant says how far a run
  that no edit has overtaken has got, phase by phase (`PackageOK`, `FormatsOK`), and that nothing
  a run works on counts as completed (`AskedOK`), so that a kill harms nothing that does. It gives
  `RunsRepair`. `OneTreePerFormat` adds `BasisOK`: the run that writes a directory has emptied it itself. `AcceptedRenders` and
  `AcceptedFitsWire` hold of any document, so no invariant is needed: the lemmas go rule by rule from what the
  checks of one property say (`CarriesKind`, `NoRecordInRecord`) to the two levels a document has
  (`FieldLevels`). They need that no type name is the absence of one (`NamesAssumption`), and of the wire only
  that its integers are in two's complement, of any width.
- `KitProofs`. `ConfigOK`: only the listener of the last configuration may run, and none when
  logging is stopped. `OrderOK`: what is in its queue comes after what is written, and what a thread
  holds in its hands comes after both; without the queues `ThreadOrder` is not inductive. `DrainOK`: what was due
  is written or lies before the sentinel of a listener that runs. They give `OrderKept`, and the action
  properties `StopDrains` and `QuietKept`. `HomelessOK` adds for the last resort that a record it is still to write has no handler
  left to go to: no listener that runs has a record of the same thread in its queue, which the last resort could overtake. For the budget, `ReadOK` says what the values read so far satisfy
  whatever the machine does next (what is available never exceeds the total, after each cap);
  `JobsFit` and `NoMoreJobsFit` then are facts about division, for any sizes and any reserve, and for either result at
  the share.
- `ReadersProofs`. Both readers fold a function over the lines of a file. What the fold yields is shown by
  induction over the lines, with a set in place of the induction theorem's operator: `NatSet` says that a set
  which holds 0 and every successor holds all numbers, and `ParseUnfolds` and `ReadUnfolds` unfold the fold
  one line at a time. For the loader, `LoadInv` says that what is merged is what the lines read so far mean
  (`Means`, a definition by the positions of the lines, not by a fold). It gives `AllOrNothing`, `ReloadChangesNothing` and
  `LoadMeansItsLayers`, from `StartupAssumption`, which says that files and environments are made of values. For the
  plan, `TasksRead` says where in the document each task of the reader comes from, so that ranks and
  positions are numbers; the gate's order then makes every earlier task of a lane come before every later one
  (`LaneBefore`), the order of the summary has one first task (`FirstTask`), and the two agree: `NextTaskIsFirst`.
  The depth-first search for cycles is a recursive function over all searches (what is to do, the path, what is done). By
  induction over the size of a search (nodes off the path, then what is to do) the function exists
  (`VisitIs`), and each search comes to what it should (`SearchComes`): what is explored stays a closed set without a
  knot (`Good`), and every node of the path leads to whatever is to do next (`Leads`), so that meeting it again
  closes a knot. `CyclesAreKnots` follows for tasks in any order.
  A finished task changes the document under the reader, so two readers are compared, of the plan and of what is
  left of it: line by line they stay alike (`Sim`: the same section, group, fence and open field, and the tasks of one
  are those of the other without one task), the lines of the finished task touching no other (`Within`). So the
  plan that is left has all tasks but that one (`WithoutReads`), and each part of the gate is taken in turn: a
  capability is served still or shipped, what waited for the task finds its id in the record, a knot of
  what is left was one before, the order of two tasks that are left is the order they had.
  `FinishedPlanAccepted` follows; it rests on `PlanAssumption`: ids are sequences of words, that of a task is not empty.

Only model-checked. Liveness (`AcceptedGetsRecorded`, `StopReturns`) is beyond the prover. The runs
`rate_limiter_raise` and `authoring_items` show that what they check is false.

## 6. Disagreements without a run

Where the code does something that a reader of it or of its documents would not expect, found while
modelling, for which no run is kept:

- The first freeze of a contract passes no proto number check (`evolution.py:161`); evolution-check
  rejects what it has recorded. The documents of `evolution` are ready for the generators, as validate
  requires, which excludes the case.
- A change that only a fingerprint sees (a reordering) becomes a second snapshot under the same version.
- Two threads that read a bucket before either writes it spend its one token twice (`security.py:70`).
- A contract with the id `topic-map` loses its module to the topic map (`generate.py:73`), and two
  contracts with one `className` collide in the package's `__init__` (`pydantic_gen.py:221-247`):
  no check compares contracts. `Generation` assumes distinct modules.
- Task ids of one word are not taken for references (`plan_model.py:20-21`), though
  `docs/guide/planning-workflow.md:52-54` asks for no second word: such a dependency is ignored.
- A record `NNNN-a-b-c.md` counts for every split into a known group and an id (`plan_model.py:182-196`).
- The order of a lane ranks the first appearance of a group only (`plan_integrity.py:177-182`); the
  properties of `Plan` about order therefore suppose that a lane keeps its groups together.
- A code fence that is never closed hides the tasks behind it from the reader, while the text checks read
  on (`plan_model.py:170-178`); `FinishKeepsAccepted` excepts such plans.
- The option `format` of an integer is accepted and emitted nowhere; `logicalTypeOptions` of array items are neither
  checked nor enforced; an explicit bound wider than the kind replaces its default.
- A record may be named as something its module imports (`ContractModel`, `Field`, `ClassVar`; `rules.py:61`,
  `checker.py:38-46`). Records are rendered first (`pydantic_gen.py:186-211`), so the message of a contract with a record
  `ContractModel` extends that record, though the module is to hold "one `ContractModel` subclass" (`pydantic_gen.py:3-4`).
- `docs/guide/planning-workflow.md:101` says "Take the first required task in the earliest group that has one". The
  summary sorts by group first (`plan_summary.py:33-42`): when the earliest group with a task to start has optional ones
  only, it names one of these, though a later group has a required one. `NextIsFirstInLine` says what the code does.
- `hw.py:17` says that a fractional job at or above the share of 0.8 is rounded up. A remainder of exactly 0.8 is cut off
  where the float falls below it: with 12 of 24 GiB available, 0.2 in reserve and 4 GiB a job, `24 * 0.2` is
  4.800000000000001 and the quotient 1.7999999999999998, so one job. (With 7 of 8 GiB and 3 GiB a job the same 1.8 becomes
  two.) `MemJobs` has both outcomes, and `BudgetIsLargest` and `NoMoreJobsFit` hold for either.
- Fields `a_b` and `a__b` are two names to every check (`rules.py:60`), and one JSON name to protoc: generate reports what
  protoc says of them, which is later than validate.
- A request without a key passes require_key when the settings change from a required key that is not configured to one that
  is configured and not required, between the two questions (`web/__init__.py:108`). Each setting alone would have refused it,
  or one with the key, so `TableOfVouched` speaks of moments.
- evolution-check accepts a declared step that nobody has recorded (`evolution.py:114-117`), so two releases without a
  freeze between them may bind two topics in one major version; `BoundTopicsStable` speaks of recorded declarations.
- Only the limit of the process's own cgroup is read: that of a parent slice is missed.
- A key without `=` hides the environment from references in its own file and counts as the default there,
  and as empty in later layers. `APP_ENV` set in a `.env` file chooses no layer of the first load, but of a second.

## 7. Not modelled

Layout and wording of models, schemas, log lines and reports; parsing of YAML and Markdown tables; regular
expressions beyond the classes they define; QoS and retain flags; HTTP calls of the sidecar; TLS settings; JWT
signatures; typed getters and masking of settings; golden fixtures: each is one computation without state
or order, or a library. The generated models are covered by what generates them.

What would come next: a second configuring thread in `KitLogging`, which would lose a listener
(`logging.py:109`); a limiter with a lock, shown to implement `RateLimiter`.
