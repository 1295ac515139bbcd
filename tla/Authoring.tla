----------------------------- MODULE Authoring -----------------------------
(* An author edits the attributes of a contract document; the rules and the   *)
(* readiness checks are the gate every command runs it through, and the       *)
(* generators rely on what the gate let pass.                                 *)
EXTENDS Rendering, FiniteSets, SequencesExt, TLC

CONSTANTS Documents,     \* documents to start from
          FieldNames, TypeNameTexts, TypePairs, Options, Bindings, Numbers,  \* what an author writes
          Probes,        \* integers a message may carry
          MaxEdits       \* bound on the edits of the document
ASSUME ProbesAssumption == Probes \subseteq Int

VARIABLES doc, edits
authoringVars == <<doc, edits>>

AuthoringInit == doc \in Documents /\ edits = 0

PropertyEdits(p) ==
    {[p EXCEPT !.name = n] : n \in FieldNames}
    \union {[p EXCEPT !.required = r] : r \in {"true", "false", "unset"}}
    \union {[p EXCEPT !.body.logical = t[1], !.body.physical = t[2]] : t \in TypePairs}
    \union {[p EXCEPT !.items.logical = t[1], !.items.physical = t[2]] : t \in TypePairs}
    \union {[p EXCEPT !.items = NoBody], [p EXCEPT !.options = <<>>]}
    \union {[p EXCEPT !.body.props = p.items.props, !.items.props = p.body.props]}
    \union {[p EXCEPT !.options = o @@ p.options] : o \in Options}
    \union {[p EXCEPT !.binding = b] : b \in Bindings}
    \union {[p EXCEPT !.rname = n] : n \in TypeNameTexts}
    \union {[p EXCEPT !.number = n] : n \in Numbers}

EditProperty ==
    \E i \in DOMAIN doc.props : \E q \in PropertyEdits(doc.props[i]) : doc' = [doc EXCEPT !.props[i] = q]
EditRecordProperty ==
    \E i \in DOMAIN doc.props :
        \/ \E j \in DOMAIN doc.props[i].items.props : \E q \in PropertyEdits(doc.props[i].items.props[j]) :
              doc' = [doc EXCEPT !.props[i].items.props[j] = q]
        \/ \E j \in DOMAIN doc.props[i].body.props : \E q \in PropertyEdits(doc.props[i].body.props[j]) :
              doc' = [doc EXCEPT !.props[i].body.props[j] = q]
\* A property is removed, or moved into the record another property holds.
MoveProperty ==
    \E i \in DOMAIN doc.props :
        \/ doc' = [doc EXCEPT !.props = RemoveAt(@, i)]
        \/ \E k \in DOMAIN doc.props \ {i} :
              doc' = [doc EXCEPT !.props = RemoveAt([@ EXCEPT ![k].items.props = Append(@, doc.props[i])], i)]
EditMessage ==
    \/ \E k \in HeaderKeys : doc' = [doc EXCEPT !.header = @ \ {k}]
    \/ \E b \in Bindings : doc' = [doc EXCEPT !.binding = b]
    \/ \E key \in TypeNames, n \in TypeNameTexts : doc' = [doc EXCEPT !.hints[key] = n]
    \/ \E n \in Numbers : doc' = [doc EXCEPT !.hints.reserved = @ \union {n}]
    \/ \E n \in FieldNames : doc' = [doc EXCEPT !.hints.reservedNames = @ \union {n}]
    \/ doc' = [doc EXCEPT !.hints.packages = FALSE]

AuthoringNext ==
    /\ edits < MaxEdits /\ edits' = edits + 1
    /\ EditProperty \/ EditRecordProperty \/ MoveProperty \/ EditMessage
AuthoringSpec == AuthoringInit /\ [][AuthoringNext]_authoringVars

-----------------------------------------------------------------------------
Builtins == {"str", "int", "float", "bool"}

(* Every field of an accepted contract, at either level, has a type in every  *)
(* format; the records of a record are refused, so the generators, which look *)
(* one level down, render all there is; and every type name a generated       *)
(* module uses is imported or defined there (rules.py, types.py and the       *)
(* tables of pydantic_gen.py, proto.py, avro.py and parquet.py agree).        *)
EveryFieldRenders ==
    AcceptedDoc(doc) => \A p \in Fields(doc) :
        /\ IsRecord(p) \/ \A table \in Tables : ValueKind(p) \in DOMAIN table
        /\ ValueType(PyTypes, p) \in Builtins \union PyImports(doc) \union TypesDefined(doc)
        /\ IsRecord(p) => \A j \in DOMAIN RecordFields(p) : ~IsRecord(RecordFields(p)[j])

(* A message field of an integer kind whose own bounds lie in the range of    *)
(* the kind accepts no value the wire cannot carry, whichever of the four     *)
(* bounds the contract gives (pydantic_gen.py:118-128, types.py:43-44).       *)
BoundsInRange(p) == \A b \in Bounds \intersect DOMAIN p.options : Fits(Kind(p), p.options[b])
ScalarFitsWire ==
    AcceptedDoc(doc) => \A p \in Fields(doc) :
        BoundsInRange(p) /\ Kind(p) # "array" => \A v \in Probes : Valid(p, v) => Fits(Kind(p), v)

(* docs/impl/current/contracts.md:102-103: integer fields without an explicit *)
(* bound get the int32 or int64 range, so a message valid in Python also fits *)
(* the wire type.                                                             *)
ValidFitsWire ==
    AcceptedDoc(doc) => \A p \in Fields(doc) :
        ~Has(p, Bounds) => \A v \in Probes : Valid(p, v) => Fits(ValueKind(p), v)
=============================================================================
