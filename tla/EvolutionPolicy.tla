--------------------------- MODULE EvolutionPolicy ---------------------------
(***************************************************************************)
(* The evolution policy of ss_contracts.tooling.evolution_policy: what a   *)
(* contract snapshot records, the class of the change between two          *)
(* snapshots, the version bump each class needs, and the rule that a proto *)
(* field number never names two fields.                                    *)
(*                                                                         *)
(* A contract document is a record                                         *)
(*   version  <<major, minor, patch>>, the parsed MAJOR.MINOR.PATCH text   *)
(*   binding  message binding, a function from keys to values              *)
(*   fields   a function from field paths to field attributes              *)
(*   layout   what only the Avro schema sees (field order, namespace,      *)
(*            schema name), or NoLayout when the Avro hints are incomplete *)
(* Records nest one level (rules.py), so a path is a pair <<name, sub>>:   *)
(* <<f, Own>> is the message field f and <<f, s>> the field s of the       *)
(* record held by f.  Attributes of a field are                            *)
(*   type     logicalType, physicalType and items together                 *)
(*   required, options, binding                                            *)
(*   num      the proto field number, or NoNumber                          *)
(*   rec      recordName, or NoRecord for a field that holds no record     *)
(***************************************************************************)
EXTENDS Integers, Sequences

CONSTANTS Own,        \* second component of the path of a message field
          NoRecord,   \* recordName of a field that holds no record
          NoLayout    \* layout of a document with incomplete Avro hints

NoNumber == 0

Version == Nat \X Nat \X Nat

-----------------------------------------------------------------------------
(* Paths *)

IsNested(p) == p[2] # Own

Holder(p) == <<p[1], Own>>

FieldName(p) == IF IsNested(p) THEN p[2] ELSE p[1]

-----------------------------------------------------------------------------
(* Snapshots *)

\* The Avro parsing fingerprint: it moves with the names, types, requiredness
\* and record names of the fields and with the layout, and with nothing else.
\* The hash is injective here.
Fingerprint(doc) ==
    IF doc.layout = NoLayout
    THEN [layout |-> NoLayout, wire |-> <<>>]
    ELSE [layout |-> doc.layout,
          wire   |-> [p \in DOMAIN doc.fields |->
                        <<doc.fields[p].type, doc.fields[p].required, doc.fields[p].rec>>]]

Snapshot(doc) ==
    [version |-> doc.version, binding |-> doc.binding,
     fields |-> doc.fields, fingerprints |-> Fingerprint(doc)]

-----------------------------------------------------------------------------
(* Change classes *)

CHANGE_IDENTICAL == "identical"
CHANGE_BACKWARD  == "backward"
CHANGE_BREAKING  == "breaking"

BindingBreaks(old, new) ==
    \E k \in DOMAIN old : k \notin DOMAIN new \/ old[k] # new[k]

BindingGrows(old, new) == \E k \in DOMAIN new : k \notin DOMAIN old

FieldBreaks(old, new) ==
    \/ old.type # new.type
    \/ old.required # new.required
    \/ old.num # new.num
    \/ old.rec # new.rec
    \/ BindingBreaks(old.binding, new.binding)

FieldGrows(old, new) ==
    \/ old.options # new.options
    \/ BindingGrows(old.binding, new.binding)

\* Mutant: the fields of a record are not classified.
ComparedTopOnly(old, new, p) == ~IsNested(p)

\* _classify_fields reaches a nested path only through a field that holds a
\* record on both sides.
Compared(old, new, p) ==
    IsNested(p) =>
        /\ Holder(p) \in DOMAIN old /\ old[Holder(p)].rec # NoRecord
        /\ Holder(p) \in DOMAIN new /\ new[Holder(p)].rec # NoRecord

RemovesField(old, new) ==
    \E p \in DOMAIN old : Compared(old, new, p) /\ p \notin DOMAIN new

ChangesField(old, new) ==
    \E p \in DOMAIN old \cap DOMAIN new :
        Compared(old, new, p) /\ FieldBreaks(old[p], new[p])

RequiresMore(old, new) ==
    \E p \in DOMAIN new \ DOMAIN old : Compared(old, new, p) /\ new[p].required

FieldsBreak(old, new) ==
    \/ RemovesField(old, new)
    \/ ChangesField(old, new)
    \/ RequiresMore(old, new)

FieldsGrow(old, new) ==
    \E p \in DOMAIN new :
        /\ Compared(old, new, p)
        /\ p \in DOMAIN old => FieldGrows(old[p], new[p])

Breaks(older, newer) ==
    \/ FieldsBreak(older.fields, newer.fields)
    \/ BindingBreaks(older.binding, newer.binding)

\* The most severe class noted, as ChangeReport.note keeps it.
ClassifyChange(older, newer) ==
    IF Breaks(older, newer)
    THEN CHANGE_BREAKING
    ELSE IF \/ FieldsGrow(older.fields, newer.fields)
            \/ BindingGrows(older.binding, newer.binding)
    THEN CHANGE_BACKWARD
    ELSE CHANGE_IDENTICAL

-----------------------------------------------------------------------------
(* Version bumps *)

VersionLess(u, v) ==
    \/ u[1] < v[1]
    \/ u[1] = v[1] /\ u[2] < v[2]
    \/ u[1] = v[1] /\ u[2] = v[2] /\ u[3] < v[3]

MinorLess(u, v) == u[1] < v[1] \/ (u[1] = v[1] /\ u[2] < v[2])

VersionPolicyOk(old, new, change) ==
    \/ change = CHANGE_IDENTICAL /\ ~VersionLess(new, old)
    \/ change = CHANGE_BACKWARD  /\ VersionLess(old, new) /\ MinorLess(old, new)
    \/ change = CHANGE_BREAKING  /\ VersionLess(old, new) /\ old[1] < new[1]

\* _step_errors is empty: the bump between two snapshots fits their change.
StepOk(older, newer) ==
    VersionPolicyOk(older.version, newer.version, ClassifyChange(older, newer))

\* _history_errors is empty: every adjacent pair is a conforming step.
HistoryOk(history) ==
    \A i \in 1..(Len(history) - 1) : StepOk(history[i], history[i + 1])

-----------------------------------------------------------------------------
(* Proto field numbers *)

\* A number is scoped to the message or to one record type.
Scope(fields, p) == IF IsNested(p) THEN fields[Holder(p)].rec ELSE Own

NumberedFields(fields) ==
    {<<Scope(fields, p), fields[p].num, FieldName(p)>> :
        p \in {q \in DOMAIN fields : fields[q].num # NoNumber}}

\* No number of one snapshot names another field in the other snapshot.
NumbersAgree(s, t) ==
    \A a \in NumberedFields(s.fields), b \in NumberedFields(t.fields) :
        a[1] = b[1] /\ a[2] = b[2] => a[3] = b[3]

\* Mutant: only neighbouring snapshots are compared.
ProtoNumbersOkNeighbours(snapshots) ==
    \A i, j \in DOMAIN snapshots : j = i + 1 => NumbersAgree(snapshots[i], snapshots[j])

\* proto_number_errors is empty: each (scope, number) keeps its first owner.
ProtoNumbersOk(snapshots) ==
    \A i, j \in DOMAIN snapshots : NumbersAgree(snapshots[i], snapshots[j])

-----------------------------------------------------------------------------
(* What freeze and check decide about one contract *)

\* evaluate: the current snapshot against its reviewed history.
EvaluateOk(history, current) ==
    /\ history # <<>>
    /\ StepOk(history[Len(history)], current)
    /\ HistoryOk(history)
    /\ ProtoNumbersOk(Append(history, current))

\* Mutant: a release without a change of the contract is not recorded.
NeedsFreezeOnChange(history, current) ==
    history # <<>> /\ ClassifyChange(history[Len(history)], current) # CHANGE_IDENTICAL

\* freeze_baselines compares whole snapshots, fingerprints included.
NeedsFreeze(history, current) ==
    history # <<>> /\ history[Len(history)] # current

\* Mutant: the version policy is left to evolution-check.
FreezeRefusesNumbersOnly(history, current) ==
    NeedsFreeze(history, current) /\ ~ProtoNumbersOk(Append(history, current))

FreezeRefuses(history, current) ==
    /\ NeedsFreeze(history, current)
    /\ \/ ~StepOk(history[Len(history)], current)
       \/ ~ProtoNumbersOk(Append(history, current))

FrozenHistory(history, current) ==
    IF history = <<>> \/ NeedsFreeze(history, current)
    THEN Append(history, current)
    ELSE history

-----------------------------------------------------------------------------
(* What consumers rely on *)

\* The authoring rules admit a field inside a record only.
WellFormed(fields) ==
    \A p \in DOMAIN fields :
        IsNested(p) => /\ Holder(p) \in DOMAIN fields
                       /\ fields[Holder(p)].rec # NoRecord

\* A reader built from one snapshot decodes what a writer of another sends:
\* they agree on every field both know, and the reader requires no field that
\* the writer never sends (in a record the writer does send).
CanRead(reader, writer) ==
    /\ \A p \in DOMAIN reader.fields \cap DOMAIN writer.fields :
          /\ reader.fields[p].type = writer.fields[p].type
          /\ reader.fields[p].required = writer.fields[p].required
          /\ reader.fields[p].num = writer.fields[p].num
          /\ reader.fields[p].rec = writer.fields[p].rec
    /\ \A p \in DOMAIN reader.fields \ DOMAIN writer.fields :
          (IsNested(p) => Holder(p) \in DOMAIN writer.fields)
              => ~reader.fields[p].required
    /\ \A k \in DOMAIN reader.binding \cap DOMAIN writer.binding :
          reader.binding[k] = writer.binding[k]

=============================================================================
