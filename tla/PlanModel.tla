----------------------------- MODULE PlanModel -----------------------------
(* The parsers of src/ss_kit/quality/plan_model.py.  An id is the sequence of *)
(* its hyphen-separated words; a field value is the sequence of its tokens:   *)
(* an id, a marker that ends the start prerequisites, or prose (<<>>).  A     *)
(* line is a record whose k names the pattern it matches; a line that matches *)
(* none has the kind "text".                                                  *)
EXTENDS Integers, Sequences, FiniteSets, SequencesExt, TLC

Agent == <<"agent">>
Human == <<"human">>
Sections == {Agent, Human}
Marker == <<"blocks:">>
Prose == <<>>
HeadingKinds == {"section", "group", "task"}

Values(fields, key) == IF key \in DOMAIN fields THEN fields[key] ELSE <<>>

\* _TASK_REFERENCE: only an id of two words or more is taken for a reference.
References(value) == {value[i] : i \in {j \in DOMAIN value : Len(value[j]) >= 2}}
BeforeMarker(value) ==
    SubSeq(value, 1, IF Contains(value, Marker)
                     THEN (CHOOSE i \in DOMAIN value : value[i] = Marker /\ \A j \in 1..(i - 1) : value[j] # Marker) - 1
                     ELSE Len(value))

NoServes == <<"no-serves">>
Serves(task) ==
    LET value == Values(task.fields, "serves")
    IN  IF value = <<>> \/ value[1] \in {Prose, Marker} THEN NoServes ELSE value[1]
DependencyReferences(task) == References(Values(task.fields, "dependencies"))
StartDependencies(task) == References(BeforeMarker(Values(task.fields, "dependencies")))

(* _PlanReader: current says whether a task is being read (it is the last one *)
(* of tasks), open is the field a continuation line extends.                  *)
Reader == [tasks |-> <<>>, section |-> <<>>, group |-> <<>>, current |-> FALSE,
           open |-> "", fenced |-> FALSE]

Heading(r, line) ==
    CASE line.k = "section" -> [r EXCEPT !.section = line.v, !.group = <<>>, !.current = FALSE, !.open = ""]
      [] line.k = "group"   -> [r EXCEPT !.group = line.v, !.current = FALSE, !.open = ""]
      [] line.k = "task"    ->
            [r EXCEPT !.tasks = Append(@, [id |-> line.v, section |-> r.section, group |-> r.group,
                                           optional |-> line.optional, fields |-> <<>>]),
                      !.current = TRUE, !.open = ""]

\* The first definition of a field wins; a continuation extends only the open field.
FieldLine(r, line) ==
    IF line.key \in DOMAIN Last(r.tasks).fields THEN [r EXCEPT !.open = ""]
    ELSE [r EXCEPT !.tasks[Len(r.tasks)].fields = (line.key :> line.v) @@ @, !.open = line.key]

Feed(r, line) ==
    IF line.k \in HeadingKinds THEN Heading(r, line)
    ELSE IF ~r.current THEN r
    ELSE IF line.k = "field" THEN FieldLine(r, line)
    ELSE IF line.k = "more" /\ r.open # "" THEN [r EXCEPT !.tasks[Len(r.tasks)].fields[r.open] = @ \o line.v]
    ELSE [r EXCEPT !.open = ""]

ReadLine(r, line) ==
    IF line.k = "fence" THEN [r EXCEPT !.fenced = ~@, !.open = ""]
    ELSE IF r.fenced THEN r ELSE Feed(r, line)
ReadTasks(lines) == FoldLeft(ReadLine, Reader, lines).tasks

\* Mutant: the prefix kept with the id.
RecordedIdsUncut(records, groups) == {r \in records : \E g \in groups : IsStrictPrefix(g, r)}

\* read_recorded_task_ids: what follows the name of a known group in a record's name.
RecordedIds(records, groups) ==
    {SubSeq(r[1], Len(r[2]) + 1, Len(r[1])) :
        r \in {q \in records \X groups : IsStrictPrefix(q[2], q[1])}}
=============================================================================
