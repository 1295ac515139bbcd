------------------------------- MODULE EnvFiles -------------------------------
(***************************************************************************)
(* The .env dialect of ss_kit.env.  A value is a sequence of tokens: an    *)
(* atom stands for literal text, a record [ref, default] for the text      *)
(* ${ref:-default}; <<>> is the empty string.  A file is a sequence of     *)
(* assignments (comments and lines without a key leave no trace), or       *)
(* Malformed when one of its quotes is never closed, or Absent.            *)
(***************************************************************************)
EXTENDS Integers, SequencesExt

CONSTANTS Names,      \* variable names
          Atoms,      \* pieces of literal text
          Bare,       \* the value None of a key without `=`
          Malformed,  \* a file with an unterminated quoted value
          Absent      \* no such file

Ref == [ref : Names, default : Seq(Atoms)]
Value == Seq(Atoms \cup Ref)
Line == [key : Names, kind : {"expand", "literal", "bare"}, text : Value]

NoValues == <<>>

\* {**under, **values}: `values @@ under`, with the definition of @@ in sight.
Over(values, under) ==
    [k \in DOMAIN values \cup DOMAIN under |->
        IF k \in DOMAIN values THEN values[k] ELSE under[k]]

Found(name, defined, environ) ==
    IF name \in DOMAIN defined THEN defined[name]
    ELSE IF name \in DOMAIN environ THEN environ[name] ELSE Bare

\* _expand: one pass, so that a reference inside a found value stays as it is.
Expand(text, defined, environ) ==
    FlattenSeq([i \in DOMAIN text |->
        IF text[i] \in Atoms THEN <<text[i]>>
        ELSE LET found == Found(text[i].ref, defined, environ)
             IN  IF found = Bare THEN text[i].default ELSE found])

LineValue(line, defined, environ) ==
    CASE line.kind = "bare"    -> Bare
      [] line.kind = "literal" -> line.text
      [] line.kind = "expand"  -> Expand(line.text, defined, environ)

Assigned(line, values, environ) ==
    Over([k \in {line.key} |-> LineValue(line, values, environ)], values)

ParseEnvText(lines, environ) ==
    FoldLeft(LAMBDA values, line : Assigned(line, values, environ), NoValues, lines)

Text(value) == IF value = Bare THEN <<>> ELSE value

\* Mutant: earlier layers hide the environment.
ContextLayersFirst(merged, environ) ==
    Over([k \in DOMAIN merged |-> Text(merged[k])], environ)

\* What a layer expands against: the environment before earlier layers.
Context(merged, environ) ==
    Over(environ, [k \in DOMAIN merged |-> Text(merged[k])])

Merge(merged, lines, environ) ==
    Over(ParseEnvText(lines, Context(merged, environ)), merged)

\* Mutant: a variable that is set but empty counts as not set.
AppliedOverEmpty(merged, environ) ==
    [k \in {j \in DOMAIN merged : j \notin DOMAIN environ \/ environ[j] = <<>>} |-> Text(merged[k])]

Applied(merged, environ) == [k \in DOMAIN merged \ DOMAIN environ |-> Text(merged[k])]

===============================================================================
