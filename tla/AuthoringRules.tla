--------------------------- MODULE AuthoringRules ---------------------------
(* What makes a contract document acceptable (src/ss_contracts/tooling):      *)
(* types.py, rules.py, binding.py, the normalization of odcs.py and the       *)
(* readiness checks of gen/checker.py.  A check that only looks at the shape  *)
(* of one value (a name, a version, a package) is membership in a constant    *)
(* set of well-formed values, or of header keys that are as they should be.   *)
EXTENDS Integers, Sequences

CONSTANTS SnakeNames,     \* well-formed field names
          ReservedNames,  \* names Python, proto3, Pydantic or a generated module uses
          PascalNames     \* well-formed type names

None == "none"
ASSUME NamesAssumption == None \notin PascalNames

NoBody == [logical |-> None, physical |-> None, props |-> <<>>]

LogicalToKinds ==
    [string    |-> {"string", "bytes"},
     integer   |-> {"int", "long"},
     number    |-> {"float", "double"},
     boolean   |-> {"boolean"},
     timestamp |-> {"timestamp"},
     date      |-> {"date"},
     object    |-> {"json", "record"},
     array     |-> {"array"}]
ScalarKinds == {"string", "bytes", "int", "long", "float", "double", "boolean", "timestamp", "date"}
\* Mutant: arrays nest.
ItemKindsArrays == ScalarKinds \union {"json", "record", "array"}
ItemKinds == ScalarKinds \union {"json", "record"}
NumericKinds == {"int", "long", "float", "double"}
Canonical(physical) == CASE physical = "integer" -> "int" [] physical = "bool" -> "boolean" [] OTHER -> physical

Bounds == {"minimum", "maximum", "exclusiveMinimum", "exclusiveMaximum"}
SupportedOptions ==
    [l \in DOMAIN LogicalToKinds |->
        CASE l = "string"    -> {"minLength", "maxLength", "pattern", "format"}
          [] l = "integer"   -> Bounds \union {"multipleOf", "format"}
          [] l = "number"    -> Bounds \union {"multipleOf"}
          [] l = "array"     -> {"minItems", "maxItems"}
          [] l = "timestamp" -> {"timezone"}
          [] OTHER           -> {}]

(* A property is [name, described, required, body, items, rname, options,     *)
(* binding, number]; body and items are [logical, physical, props], options   *)
(* maps keys to values (timezone: 0 is false).                                *)
Kind(p) == Canonical(p.body.physical)
ItemKind(p) == Canonical(p.items.physical)
IsRecord(p) == "record" \in {Kind(p), ItemKind(p)}
ValueKind(p) == IF Kind(p) = "array" THEN ItemKind(p) ELSE Kind(p)
RecordBody(p) == IF Kind(p) = "array" THEN p.items ELSE p.body
RecordFields(p) == IF Canonical(RecordBody(p).physical) = "record" THEN RecordBody(p).props ELSE <<>>

\* The official schema allows items under an array and properties under an object only.
OfficialOk(p) ==
    /\ p.items # NoBody => p.body.logical = "array"
    /\ p.body.props # <<>> => p.body.logical = "object"

Carries(body) ==
    /\ body.logical \in DOMAIN LogicalToKinds
    /\ Canonical(body.physical) \in LogicalToKinds[body.logical]
\* records: the bodies that make a record at this level.
ObjectOk(body, records) ==
    /\ Canonical(body.physical) = "json" => body.props = <<>>
    /\ Canonical(body.physical) = "record" => body \in records
TypeOk(p, records) ==
    /\ Carries(p.body)
    /\ Kind(p) = "array" => ItemKind(p) \in ItemKinds /\ Carries(p.items) /\ ObjectOk(p.items, records)
    /\ Kind(p) # "array" => ObjectOk(p.body, records)

RecordNameOk(p) == IF IsRecord(p) THEN p.rname \in PascalNames ELSE p.rname = None
OptionsOk(p) ==
    /\ DOMAIN p.options \subseteq SupportedOptions[p.body.logical]
    /\ "timezone" \in DOMAIN p.options => p.options["timezone"] # 0

MessageKeys == {"timeBase", "frame", "modality", "mqttTopic"}
FieldKeys == {"timeBase", "frame", "unit", "modality"}
\* binding_errors: known keys; a value that breaks the rule of its key is "bad".
BindingOk(binding, allowed) ==
    DOMAIN binding \subseteq allowed /\ \A k \in DOMAIN binding : binding[k] # "bad"
UnitOk(p) == "unit" \in DOMAIN p.binding => ValueKind(p) \in NumericKinds

PropertyOk(p, records) ==
    /\ p.name \in SnakeNames \ ReservedNames
    /\ p.described
    /\ p.required \in {"true", "false"}
    /\ OfficialOk(p) /\ TypeOk(p, records) /\ RecordNameOk(p) /\ OptionsOk(p)
    /\ BindingOk(p.binding, FieldKeys) /\ UnitOk(p)
PropertiesOk(props, records) ==
    /\ props # <<>>
    /\ \A i \in DOMAIN props : PropertyOk(props[i], records)
    /\ \A i, j \in DOMAIN props : props[i].name = props[j].name => i = j
\* Records nest one level: inside one there is no body that makes a record.
Record(body) == PropertiesOk(body.props, {})
Bodies(props) == {props[i].body : i \in DOMAIN props} \union {props[i].items : i \in DOMAIN props}

RecordNamesOnce(props) ==
    \A i, j \in DOMAIN props : props[i].rname # None /\ props[i].rname = props[j].rname => i = j

HeaderKeys == {"apiVersion", "id", "version", "status", "purpose", "one object", "ascii"}
\* parse_contract: the official schema and the ss rules.
Parses(doc) ==
    /\ doc.header = HeaderKeys
    /\ BindingOk(doc.binding, MessageKeys)
    /\ PropertiesOk(doc.props, {b \in Bodies(doc.props) : Record(b)})
    /\ RecordNamesOnce(doc.props)

-----------------------------------------------------------------------------
(* Readiness: the type name of each format, the proto numbers of each message *)
(* and the reserved numbers and names, which bind the top level only.         *)
MaxFieldNumber == 536870911
UsableNumber(n) == n \in 1..MaxFieldNumber /\ n \notin 19000..19999
NumbersOk(props, reserved, reservedNames) ==
    /\ \A i \in DOMAIN props : UsableNumber(props[i].number) /\ props[i].number \notin reserved
                               /\ props[i].name \notin reservedNames
    /\ \A i, j \in DOMAIN props : props[i].number = props[j].number => i = j
FieldNumbersOk(doc) ==
    /\ NumbersOk(doc.props, doc.hints.reserved, doc.hints.reservedNames)
    /\ \A i \in DOMAIN doc.props :
          IsRecord(doc.props[i]) => NumbersOk(RecordFields(doc.props[i]), {}, {})
TypeNames == {"className", "recordName", "messageName"}   \* pydantic, avro, proto
TypeNamesOk(doc) ==
    \A key \in TypeNames :
        /\ doc.hints[key] \in PascalNames
        /\ \A i \in DOMAIN doc.props : IsRecord(doc.props[i]) => doc.props[i].rname # doc.hints[key]
Ready(doc) == doc.hints.packages /\ TypeNamesOk(doc) /\ FieldNumbersOk(doc)

AcceptedDoc(doc) == Parses(doc) /\ Ready(doc)
=============================================================================
