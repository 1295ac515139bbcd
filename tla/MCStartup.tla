------------------------------ MODULE MCStartup -------------------------------
(* Files and environments for loading .env layers. *)
EXTENDS Startup

CONSTANTS A, B, x, y, dev, prod, root, local

Assign(key, kind, text) == [key |-> key, kind |-> kind, text |-> text]
To(name, default) == [ref |-> name, default |-> default]

\* Assignments that refer to each other, to themselves and to nothing.
L1 == Assign(A, "expand", <<To(B, <<y>>)>>)
L2 == Assign(B, "expand", <<x>>)
L3 == Assign(B, "expand", <<To(A, <<>>), x>>)
L4 == Assign(A, "literal", <<To(B, <<>>)>>)
L5 == Assign(A, "bare", <<>>)
L6 == Assign(B, "expand", <<>>)
L7 == Assign(AppEnv, "expand", <<prod>>)
L8 == Assign(A, "expand", <<To(A, <<>>), y>>)

Singles == {<<l>> : l \in {L1, L2, L3, L4, L5, L7}}
Pairs == {<<L1, L2>>, <<L2, L1>>, <<L5, L3>>, <<L4, L3>>, <<L6, L1>>, <<L2, L8>>, <<L3, L7>>}

ContentsValue == Singles \cup Pairs \cup {Absent, Malformed}

NamesValue == {A, B, AppEnv}
PackageNamesValue == {<<dev>>, <<prod>>}
RootFilesValue == << <<root>>, <<local>> >>
DefaultNameValue == <<dev>>

EnvironmentsValue == {<<>>, B :> <<y>>, A :> <<>> @@ AppEnv :> <<prod>>}

FirstFilesValue ==
    {f \in [PackageNamesValue \cup {<<root>>, <<local>>} -> ContentsValue] :
        /\ f[<<prod>>] = <<L2>> /\ f[<<dev>>] \in {<<L1, L2>>, <<L5>>}}

===============================================================================
