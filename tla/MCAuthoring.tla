---------------------------- MODULE MCAuthoring ----------------------------
(* One contract with a plain field, an array and an array of records, and one *)
(* with a record and one with two, of which one may move into the other;      *)
(* integers of two and three bits.                                            *)
EXTENDS Authoring

MCFieldNames == {"level", "count", "str", "Level"}
MCSnakeNames == MCFieldNames \ {"Level"}
MCReservedNames == {"str"}
MCTypeNameTexts == {"Reading", "Point", "Track", "point", None}
MCPascalNames == {"Reading", "Point", "Track"}
Pairs == UNION {{<<l, k>> : k \in LogicalToKinds[l]} : l \in DOMAIN LogicalToKinds}
MCTypePairs == Pairs \union {<<"integer", "integer">>, <<"boolean", "bool">>, <<"time", "int">>, <<"string", "int">>}
MCOptions == {("minimum" :> 0), ("maximum" :> 1), ("exclusiveMinimum" :> -3), ("exclusiveMaximum" :> 1),
              ("minItems" :> 1), ("format" :> 1), ("timezone" :> 0)}
MCBindings == {<<>>, ("unit" :> "m"), ("frame" :> "bad"), ("mqttTopic" :> "ss/a")}
MCNumbers == {0, 1, 2, 19000}
MCProbes == -9..9

Body(logical, physical, props) == [logical |-> logical, physical |-> physical, props |-> props]
Property(name, number, body, items, rname) ==
    [name |-> name, described |-> TRUE, required |-> "true", body |-> body, items |-> items, rname |-> rname,
     options |-> <<>>, binding |-> <<>>, number |-> number]
Contract(props) ==
    [header |-> HeaderKeys, binding |-> <<>>, props |-> props,
     hints |-> [className |-> "Reading", recordName |-> "Reading", messageName |-> "Reading", packages |-> TRUE,
                reserved |-> {}, reservedNames |-> {}]]
IntField(name, number) == Property(name, number, Body("integer", "int", <<>>), NoBody, None)
Listed(name, number, body, rname) == Property(name, number, Body("array", "array", <<>>), body, rname)
Rec(props) == Body("object", "record", props)

MCDocuments ==
    {Contract(<<IntField("count", 1), Listed("level", 2, Rec(<<IntField("level", 1), IntField("count", 2)>>), "Point")>>),
     Contract(<<Listed("count", 1, Body("string", "string", <<>>), None),
                Property("level", 2, Rec(<<IntField("level", 1)>>), NoBody, "Point")>>),
     Contract(<<Property("count", 2, Rec(<<IntField("count", 1)>>), NoBody, "Track"),
                Listed("level", 3, Rec(<<IntField("level", 1)>>), "Point")>>)}
=============================================================================
