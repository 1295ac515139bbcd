-------------------------------- MODULE Plan --------------------------------
(* The integrity gate over the capability registry, the forward plan and the  *)
(* task records (src/ss_kit/quality/plan_integrity.py), the summary that      *)
(* names the next task of a lane (plan_summary.py), and the people who edit   *)
(* the two documents and finish tasks along docs/guide/planning-workflow.md.  *)
EXTENDS PlanModel, FiniteSetsExt

CONSTANTS Registries,   \* registries the work may start from: sequences of rows
          Documents,    \* plans the work may start from: sequences of lines
          NewLines,     \* lines an author may insert
          MaxPlanEdits  \* bound on the edits of the two documents

PlanLines == NewLines \union UNION {{doc[i] : i \in DOMAIN doc} : doc \in Documents}
RowIds == UNION {{caps[i].id : i \in DOMAIN caps} : caps \in Registries}

VARIABLES registry, lines, records, finished, planEdits
planVars == <<registry, lines, records, finished, planEdits>>

Adhoc == <<"adhoc">>
Shipped == "shipped"
Planned == "planned"
Stalled == "stalled"   \* a status the specification does not know
Rows == [id : RowIds, status : {Shipped, Planned, Stalled}, evaluation : BOOLEAN, link : BOOLEAN]

\* Ids are sequences of words; that of a task has at least one (_TASK).
ASSUME PlanAssumption ==
    /\ Registries \subseteq Seq(Rows)
    /\ Documents \subseteq Seq(PlanLines)
    /\ \A l \in PlanLines : l.k = "task" => l.optional \in BOOLEAN /\ l.v \in Seq(ToSet(l.v)) \ {<<>>}
    /\ \A id \in RowIds : id \in Seq(ToSet(id))
Statuses == [s \in Sections |-> IF s = Agent THEN {<< <<"CLEAR">> >>, << <<"RUN", "NEEDED">> >>}
                                ELSE {<< <<"BLOCKED", "BY", "HUMAN">> >>, << <<"HUMAN-GATED">> >>}]
\* The six required fields no check looks into stand as the one field "other".
RequiredFields == {"serves", "agent status", "dependencies", "other"}

Raised(faults) == {f \in DOMAIN faults : faults[f]}
CapabilityIds(caps) == {caps[i].id : i \in DOMAIN caps}
OpenIds(tasks) == {tasks[i].id : i \in DOMAIN tasks}

RowFaults(caps, tasks, i) ==
    LET c == caps[i]
    IN  Raised([twice     |-> \E j \in 1..(i - 1) : caps[j].id = c.id,
                status    |-> c.status \notin {Shipped, Planned},
                evaluated |-> ~c.evaluation,
                linked    |-> c.status = Shipped /\ ~c.link,
                served    |-> c.status = Planned /\ \A j \in DOMAIN tasks : Serves(tasks[j]) # c.id])
IdentityFaults(caps, tasks, i) ==
    LET t == tasks[i]  s == Serves(t)
    IN  Raised([duplicate    |-> \E j \in 1..(i - 1) : tasks[j].id = t.id,
                lane         |-> t.section \notin Sections,
                group        |-> t.group = <<>>,
                noServes     |-> s = NoServes,
                unregistered |-> s # NoServes /\ s \notin CapabilityIds(caps),
                elsewhere    |-> s \in CapabilityIds(caps) /\ t.group # s])
MetadataFaults(t) ==
    Raised([missing  |-> \E f \in RequiredFields : Values(t.fields, f) = <<>>,
            noStep   |-> t.section = Human /\ Values(t.fields, "human step") = <<>>,
            humanStep |-> t.section = Agent /\ "human step" \in DOMAIN t.fields])
StatusFaults(t) ==
    LET s == Values(t.fields, "agent status")
    IN  Raised([laneStatus |-> s # <<>> /\ (t.section \in Sections => s \notin Statuses[t.section])])

(* _cycle_findings: depth-first search.  The graph is a dictionary: the last  *)
(* task of an id is its node.  A search is about to follow the dependencies   *)
(* todo of the last node of path; one that is explored (done) is skipped, one *)
(* on the path closes a cycle, any other is visited and then explored.  The   *)
(* loop over all ids is a search without a path.                              *)
Graph(tasks) ==
    [id \in OpenIds(tasks) |->
        StartDependencies(tasks[CHOOSE i \in DOMAIN tasks : tasks[i].id = id /\ \A j \in (i + 1)..Len(tasks) : tasks[j].id # id])
        \cap OpenIds(tasks)]
Searches(nodes) == [todo : SUBSET nodes, path : SUBSET nodes, done : SUBSET nodes, cycle : BOOLEAN]
Explore(graph, start) ==
    LET visit[s \in Searches(DOMAIN graph)] ==
            LET d == CHOOSE x \in s.todo : TRUE
                inner == visit[[todo |-> graph[d], path |-> s.path \union {d}, done |-> s.done, cycle |-> s.cycle]]
                Rest(done, cycle) == visit[[todo |-> s.todo \ {d}, path |-> s.path, done |-> done, cycle |-> cycle]]
            IN  IF s.todo = {} THEN s
                ELSE IF d \in s.done THEN Rest(s.done, s.cycle)
                ELSE IF d \in s.path THEN Rest(s.done, TRUE)
                ELSE Rest(inner.done \union {d}, inner.cycle)
    IN  visit[[todo |-> start, path |-> {}, done |-> {}, cycle |-> FALSE]]
\* Mutant: the search starts from the tasks that no other waits for.
HasCycleFromLast(tasks) ==
    LET graph == Graph(tasks)
    IN  Explore(graph, {id \in DOMAIN graph : \A d \in DOMAIN graph : id \notin graph[d]}).cycle
HasCycle(tasks) == Explore(Graph(tasks), OpenIds(tasks)).cycle

DependencyFaults(tasks, recorded, i) ==
    LET refs == DependencyReferences(tasks[i])
    IN  Raised([itself   |-> tasks[i].id \in refs,
                dangling |-> \E r \in refs : r # tasks[i].id /\ r \notin OpenIds(tasks) \union recorded])

\* A lane is the set of the positions its tasks have among all tasks.
Lane(tasks, section) == {i \in DOMAIN tasks : tasks[i].section = section}
Rank(caps, group) == CHOOSE i \in DOMAIN caps : caps[i].id = group /\ \A j \in 1..(i - 1) : caps[j].id # group
\* Mutant: the order never checked.
GroupsUnchecked(caps, tasks, lane) == TRUE

\* _section_order_findings: only the first appearance of a group in the lane is ranked.
GroupsInOrder(caps, tasks, lane) ==
    LET first == {i \in lane : tasks[i].group \in CapabilityIds(caps)
                               /\ \A j \in lane : j < i => tasks[j].group # tasks[i].group}
    IN  \A i, j \in first : i < j => Rank(caps, tasks[i].group) < Rank(caps, tasks[j].group)
OptionalLast(tasks, lane) ==
    \A i, j \in lane :
        i < j /\ tasks[i].group = tasks[j].group /\ tasks[i].optional => tasks[j].optional
OrderFaults(caps, tasks) ==
    Raised([groupOrder    |-> \E s \in Sections : ~GroupsInOrder(caps, tasks, Lane(tasks, s)),
            optionalOrder |-> \E s \in Sections : ~OptionalLast(tasks, Lane(tasks, s))])

\* _plan_text_findings reads every line, the fenced ones too.
TextFaults(doc) ==
    Raised([heading |-> \E i \in DOMAIN doc : doc[i].k = "malformed",
            history |-> \E i \in DOMAIN doc : doc[i].k = "history",
            noLane  |-> \E s \in Sections : \A i \in DOMAIN doc : doc[i].k = "section" => doc[i].v # s])

Recorded(caps, recs) == RecordedIds(recs, CapabilityIds(caps) \union {Adhoc})
TaskFaults(caps, tasks, recs, i) ==
    IdentityFaults(caps, tasks, i) \union MetadataFaults(tasks[i]) \union StatusFaults(tasks[i])
        \union DependencyFaults(tasks, Recorded(caps, recs), i)
\* integrity_findings: an empty registry is the only finding reported then.
Findings(caps, doc, recs) ==
    IF caps = <<>> THEN {"registry"}
    ELSE LET tasks == ReadTasks(doc)
         IN  (UNION {RowFaults(caps, tasks, i) : i \in DOMAIN caps})
             \union (UNION {TaskFaults(caps, tasks, recs, i) : i \in DOMAIN tasks})
             \union (IF HasCycle(tasks) THEN {"cycle"} ELSE {})
             \union OrderFaults(caps, tasks) \union TextFaults(doc)
Accepted == Findings(registry, lines, records) = {}
Tasks == ReadTasks(lines)

-----------------------------------------------------------------------------
(* The summary: a task is eligible when none of its start dependencies is     *)
(* open; the next of a lane is the first eligible one by registry order,      *)
(* required before optional, then document order.                             *)
OpenDependencies(task, tasks) == StartDependencies(task) \cap OpenIds(tasks)
Eligible(tasks, section) ==
    {i \in Lane(tasks, section) : OpenDependencies(tasks[i], tasks) = {}}
Before(caps, tasks, i, j) ==
    LET a == tasks[i]  b == tasks[j]
    IN  \/ Rank(caps, a.group) < Rank(caps, b.group)
        \/ a.group = b.group /\ ~a.optional /\ b.optional
        \/ a.group = b.group /\ a.optional = b.optional /\ i < j
NextTask(caps, tasks, section) ==
    CHOOSE i \in Eligible(tasks, section) : \A j \in Eligible(tasks, section) \ {i} : Before(caps, tasks, i, j)

-----------------------------------------------------------------------------
PlanInit ==
    /\ registry \in Registries /\ lines \in Documents
    /\ records = {} /\ finished = {} /\ planEdits = 0

EditPlan ==
    /\ planEdits < MaxPlanEdits
    /\ \/ \E i \in DOMAIN lines : lines' = RemoveAt(lines, i)
       \/ \E i \in 1..(Len(lines) + 1), l \in NewLines : lines' = InsertAt(lines, i, l)
    /\ planEdits' = planEdits + 1
    /\ UNCHANGED <<registry, records, finished>>

EditRegistry ==
    /\ planEdits < MaxPlanEdits
    /\ \E i \in DOMAIN registry :
          \/ registry' = RemoveAt(registry, i)
          \/ i < Len(registry) /\ registry' = [registry EXCEPT ![i] = registry[i + 1], ![i + 1] = registry[i]]
          \/ \E s \in {Shipped, Planned, Stalled} : registry' = [registry EXCEPT ![i].status = s]
          \/ registry' = [registry EXCEPT ![i].link = ~@]
          \/ registry' = [registry EXCEPT ![i].evaluation = ~@]
    /\ planEdits' = planEdits + 1
    /\ UNCHANGED <<lines, records, finished>>

(* The completion transition: the next task of a lane leaves the plan with    *)
(* the lines up to the following heading, a record is written for it, and a   *)
(* capability no other task serves is marked shipped with its link.           *)
Fenced(doc, i) == Cardinality({j \in 1..(i - 1) : doc[j].k = "fence"}) % 2 = 1
Headings(doc) == {i \in DOMAIN doc : doc[i].k \in HeadingKinds /\ ~Fenced(doc, i)}
WithoutTask(doc, id) ==
    LET from == CHOOSE i \in Headings(doc) : doc[i].k = "task" /\ doc[i].v = id
        to == Min({i \in Headings(doc) : i > from} \union {Len(doc) + 1})
    IN  SubSeq(doc, 1, from - 1) \o SubSeq(doc, to, Len(doc))
FinishTask ==
    /\ Accepted
    /\ \E section \in Sections :
       LET tasks == Tasks
           n == NextTask(registry, tasks, section)
           t == tasks[n]
           last == \A i \in DOMAIN tasks \ {n} : Serves(tasks[i]) # t.group
       IN  /\ Eligible(tasks, section) # {}
           /\ lines' = WithoutTask(lines, t.id)
           /\ records' = records \union {t.group \o t.id}
           /\ finished' = finished \union {t.id}
           /\ registry' = [i \in DOMAIN registry |->
                              IF registry[i].id = t.group /\ last
                              THEN [registry[i] EXCEPT !.status = Shipped, !.link = TRUE] ELSE registry[i]]
    /\ UNCHANGED planEdits

PlanNext == EditPlan \/ EditRegistry \/ FinishTask
PlanSpec == PlanInit /\ [][PlanNext]_planVars

-----------------------------------------------------------------------------
(* The gate reports a start-dependency cycle exactly when some set of open    *)
(* tasks waits on itself; so an accepted plan that is not empty always has a  *)
(* task plan_summary can name (plan_integrity.py:148-170, plan_summary.py).   *)
WaitsOnItself(tasks, set) ==
    set # {} /\ \A id \in set : \E d \in set : d \in Graph(tasks)[id]
CycleMeansStuck ==
    LET tasks == Tasks
    IN  /\ HasCycle(tasks) <=> \E set \in SUBSET OpenIds(tasks) : WaitsOnItself(tasks, set)
        /\ tasks # <<>> /\ (\A s \in Sections : Eligible(tasks, s) = {}) => ~Accepted

(* In an accepted plan whose lanes keep each group together, the next task    *)
(* by registry rank is the first eligible one a reader of the document meets: *)
(* the gate's ordering checks and the summary's sort agree.  It is not always *)
(* the task docs/guide/planning-workflow.md:101 asks for, the first required  *)
(* one: when the earliest group has optional tasks only, both name one of     *)
(* these (plan_summary.py:33-42).                                             *)
Together(tasks, lane) ==
    \A i, j, k \in lane :
        i < k /\ k < j /\ tasks[i].group = tasks[j].group => tasks[k].group = tasks[i].group
NextIsFirstInLine ==
    Accepted => \A s \in Sections :
        Together(Tasks, Lane(Tasks, s)) /\ Eligible(Tasks, s) # {}
            => NextTask(registry, Tasks, s) = Min(Eligible(Tasks, s))

(* Finishing the task the summary names leaves a plan the gate accepts: no    *)
(* dependency dangles, no capability is left unserved.  The one fault it may  *)
(* uncover is the order of groups that return later in their lane, of which   *)
(* the gate ranks the first appearance only.  (Plans in which a fence hides   *)
(* a heading from the gate are excepted: the reader never ends such a fence.) *)
NothingHidden(doc) == \A i \in DOMAIN doc : doc[i].k \in HeadingKinds => ~Fenced(doc, i)
FinishKeepsAccepted ==
    [][finished' # finished /\ NothingHidden(lines) =>
          Findings(registry', lines', records')
              \subseteq (IF \A s \in Sections : Together(Tasks, Lane(Tasks, s)) THEN {} ELSE {"groupOrder"})]_planVars
=============================================================================
