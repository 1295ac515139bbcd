----------------------------- MODULE Rendering -----------------------------
(* What the generators make of an accepted contract, as far as another part   *)
(* can tell: the type each format gives a field, the names a generated module *)
(* needs, the bounds of the Pydantic model (src/ss_contracts/tooling/gen).    *)
EXTENDS AuthoringRules

CONSTANTS IntHigh, LongHigh            \* the largest int and long of the wire, of two's complement
ASSUME WidthAssumption == IntHigh \in Nat /\ LongHigh \in Nat

PyTypes ==
    [string |-> "str", bytes |-> "ContractBytes", int |-> "int", long |-> "int", float |-> "float",
     double |-> "float", boolean |-> "bool", timestamp |-> "ContractTimestamp", date |-> "datetime.date",
     json |-> "dict[str, Any]"]
ProtoTypes ==
    [string |-> "string", bytes |-> "bytes", int |-> "int32", long |-> "int64", float |-> "float",
     double |-> "double", boolean |-> "bool", timestamp |-> "Timestamp", date |-> "string", json |-> "Struct"]
AvroTypes ==
    [string |-> "string", bytes |-> "bytes", int |-> "int", long |-> "long", float |-> "float",
     double |-> "double", boolean |-> "boolean", timestamp |-> "timestamp-micros", date |-> "date", json |-> "string"]
ArrowTypes ==
    [string |-> "large_string", bytes |-> "large_binary", int |-> "int32", long |-> "int64", float |-> "float32",
     double |-> "float64", boolean |-> "bool", timestamp |-> "timestamp", date |-> "date32", json |-> "large_string"]
Tables == {PyTypes, ProtoTypes, AvroTypes, ArrowTypes}

ValueType(table, p) == IF IsRecord(p) THEN p.rname ELSE table[ValueKind(p)]

\* The fields of the message and of its records, one level down.
Fields(doc) ==
    {doc.props[i] : i \in DOMAIN doc.props}
    \union UNION {{RecordFields(doc.props[i])[j] : j \in DOMAIN RecordFields(doc.props[i])} : i \in DOMAIN doc.props}

PyImports(doc) ==
    LET kinds == {Kind(p) : p \in Fields(doc)} \union {ItemKind(p) : p \in Fields(doc)}
    IN  {t \in {"datetime.date", "dict[str, Any]", "ContractBytes", "ContractTimestamp"} :
            \E k \in kinds : k \in DOMAIN PyTypes /\ PyTypes[k] = t}
\* The generated module defines a class for each record and for the message.
TypesDefined(doc) == {p.rname : p \in {q \in Fields(doc) : IsRecord(q)}} \union {doc.hints.className}

-----------------------------------------------------------------------------
(* The constraints of a field: the range of its integer kind, each side only  *)
(* where no bound of the contract takes its place.                            *)
High(kind) == IF kind = "int" THEN IntHigh ELSE LongHigh
Low(kind) == -High(kind) - 1
IntegerKinds == {"int", "long"}

Has(p, keys) == DOMAIN p.options \intersect keys # {}
\* Mutant: any explicit bound removes the default of both sides.
DefaultLowEither(p) == Kind(p) \in IntegerKinds /\ ~Has(p, Bounds)
DefaultLow(p) == Kind(p) \in IntegerKinds /\ ~Has(p, {"minimum", "exclusiveMinimum"})
DefaultHigh(p) == Kind(p) \in IntegerKinds /\ ~Has(p, {"maximum", "exclusiveMaximum"})
\* The values the model lets pass, of the field or of one item of an array.
Valid(p, v) ==
    /\ DefaultLow(p) => v >= Low(Kind(p))
    /\ DefaultHigh(p) => v <= High(Kind(p))
    /\ "minimum" \in DOMAIN p.options => v >= p.options["minimum"]
    /\ "maximum" \in DOMAIN p.options => v <= p.options["maximum"]
    /\ "exclusiveMinimum" \in DOMAIN p.options => v > p.options["exclusiveMinimum"]
    /\ "exclusiveMaximum" \in DOMAIN p.options => v < p.options["exclusiveMaximum"]
Fits(kind, v) == kind \in IntegerKinds => v \in Low(kind)..High(kind)
=============================================================================
