----------------------------- MODULE MCEvolution -----------------------------
(* Documents for model checking the evolution commands. *)
EXTENDS Evolution, TLC

NoBinding == <<>>

Plain(required, num) ==
    [type |-> "t", required |-> required, num |-> num, rec |-> NoRecord,
     options |-> "o", binding |-> NoBinding]

Record(num, name) ==
    [type |-> "record", required |-> FALSE, num |-> num, rec |-> name,
     options |-> "o", binding |-> NoBinding]

Doc(version, binding, fields, layout) ==
    [version |-> version, binding |-> binding, fields |-> fields, layout |-> layout]

\* The message field a and, next to it, what a contract may evolve into.
A == <<"a", Own>> :> Plain(TRUE, 1)
R == A @@ <<"r", Own>> :> Record(2, "R") @@ <<"r", "s">> :> Plain(TRUE, 1)

B == <<"b", Own>>
C == <<"c", Own>>

\* Documents that follow each other by additions, removals, records and bindings, some
\* of them under versions that do not admit the change.  Their numbers pass the
\* generators, as `ss-contracts validate` requires.
ReadyDocs ==
    { Doc(<<1, 0, 0>>, NoBinding, A, "l1"),
      Doc(<<1, 1, 0>>, NoBinding, A @@ B :> Plain(FALSE, 2), "l1"),          \* optional field
      Doc(<<1, 1, 0>>, NoBinding, A @@ B :> Plain(TRUE, 2), "l1"),           \* required field
      Doc(<<2, 0, 0>>, NoBinding, A @@ B :> Plain(TRUE, 2), "l1"),
      Doc(<<1, 1, 0>>, NoBinding, A @@ C :> Plain(FALSE, 2), "l1"),          \* number 2 again
      Doc(<<2, 1, 0>>, NoBinding, A @@ C :> Plain(FALSE, 2), "l1"),
      Doc(<<1, 1, 0>>, NoBinding, R, "l1"),                                  \* a record
      Doc(<<1, 2, 0>>, NoBinding, R @@ <<"r", "x">> :> Plain(FALSE, 2), "l1"),
      Doc(<<1, 2, 0>>, NoBinding, R @@ <<"r", "x">> :> Plain(TRUE, 2), "l1"),
      Doc(<<1, 2, 0>>, "k" :> "v", A, "l1"),                                 \* a binding
      Doc(<<2, 0, 1>>, NoBinding, A, NoLayout),                              \* fields removed
      Doc(<<1, 2, 0>>, NoBinding, <<"a", Own>> :> [Plain(TRUE, 1) EXCEPT !.options = "p"], "l1") }

\* The second contract is written once and then only removed or broken.
Other == Doc(<<1, 0, 0>>, NoBinding, A, "l1")

AuthoredValue == ({"c1"} \X ReadyDocs) \cup {<<"c2", Other>>}

===============================================================================
