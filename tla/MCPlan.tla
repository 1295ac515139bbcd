------------------------------- MODULE MCPlan -------------------------------
(* Two registries and two plans to start from, with capability a, optional    *)
(* work, a dependency between lanes and a task id of one word.                *)
EXTENDS Plan

CapA == <<"a">>
CapB == <<"b">>
XY == <<"x", "y">>
YX == <<"y", "x">>
Z == <<"z">>

Row(id, status) == [id |-> id, status |-> status, evaluation |-> TRUE, link |-> status = Shipped]
MCRegistries == {<<Row(CapA, Planned), Row(CapB, Shipped)>>}

SectionLine(s) == [k |-> "section", v |-> s]
GroupLine(g) == [k |-> "group", v |-> g]
TaskLine(id, optional) == [k |-> "task", v |-> id, optional |-> optional]
FieldOf(key, v) == [k |-> "field", key |-> key, v |-> v]
Kind(k) == [k |-> k]
None == << Prose >>

TaskText(id, optional, serves, status, deps) ==
    <<TaskLine(id, optional), FieldOf("serves", <<serves>>), FieldOf("agent status", status),
      FieldOf("dependencies", deps), FieldOf("other", None)>>
Clear == << <<"CLEAR">> >>
Gated == << <<"HUMAN-GATED">> >>
StepLine == FieldOf("human step", None)

\* The second task waits for the first; the human one for nothing.
Chain == <<SectionLine(Agent), GroupLine(CapA)>> \o TaskText(XY, FALSE, CapA, Clear, None)
         \o TaskText(YX, FALSE, CapA, Clear, <<XY>>)
         \o <<SectionLine(Human), GroupLine(CapB)>> \o TaskText(Z, FALSE, CapB, Gated, <<YX, Marker>>) \o <<StepLine>>
\* A required task, then optional work of the same group, interleaved with another group.
Groups == <<SectionLine(Human), SectionLine(Agent), GroupLine(CapA)>> \o TaskText(XY, FALSE, CapA, Clear, None)
          \o <<GroupLine(CapB)>> \o TaskText(Z, FALSE, CapB, Clear, None)
          \o <<GroupLine(CapA)>> \o TaskText(YX, TRUE, CapA, Clear, <<Marker, XY>>)
MCDocuments == {Chain, Groups}

MCNewLines ==
    {GroupLine(CapB), TaskLine(YX, FALSE), TaskLine(Z, TRUE), StepLine, FieldOf("dependencies", <<Z>>),
     FieldOf("serves", <<CapB>>), FieldOf("agent status", Gated), [k |-> "more", v |-> <<YX>>], Kind("fence"),
     Kind("malformed")}
=============================================================================
