------------------------------- MODULE Startup --------------------------------
(***************************************************************************)
(* load_layered_env in a process that a supervisor starts: the layers are  *)
(* chosen by APP_ENV, read one after the other while operators may edit    *)
(* the files, and applied together.  A process may load more than once     *)
(* (every settings module that is imported does), and a child process      *)
(* inherits the environment.                                               *)
(***************************************************************************)
EXTENDS EnvFiles

CONSTANTS AppEnv,       \* APP_ENV_VAR
          DefaultName,  \* DEFAULT_APP_ENV
          PackageNames, \* names of files in package_env_dir
          RootFiles,    \* ROOT_ENV_FILES
          Environments, \* what a supervisor may start a process with
          Contents,     \* what a file may hold
          FirstFiles,   \* the files there may be at first
          MaxLines,     \* bound: assignments of a file
          MaxLoads,     \* bound: loads of one process
          MaxEdits      \* bound: edits

Paths == PackageNames \cup ToSet(RootFiles)

ASSUME StartupAssumption ==
    /\ AppEnv \in Names /\ Bare \notin Value
    /\ \A e \in Environments : /\ e = [k \in DOMAIN e |-> e[k]] /\ DOMAIN e \subseteq Names
                               /\ \A k \in DOMAIN e : e[k] \in Value
    /\ MaxLines \in Nat /\ MaxLoads \in Nat /\ MaxEdits \in Nat
    /\ \A c \in Contents \ {Absent, Malformed} : c \in Seq(Line) /\ Len(c) <= MaxLines
    /\ RootFiles \in Seq(ToSet(RootFiles)) /\ FirstFiles \subseteq [Paths -> Contents]

VARIABLES
    files,    \* content of each file
    environ,  \* os.environ of the process
    pc,       \* "down", "up" or "load"
    layers,   \* paths the load has not read yet
    merged,   \* what it has read so far
    loads,    \* loads the process has begun
    edits,    \* edits so far
    read,     \* observer: what this load has read, path and content
    before,   \* observer: the environment when this load began
    done      \* observer: what the last load that succeeded has read

load == <<layers, merged, read, before>>
vars == <<files, environ, pc, layers, merged, loads, edits, read, before, done>>

None == <<>>

Init ==
    /\ files \in FirstFiles
    /\ environ = None /\ pc = "down"
    /\ layers = <<>> /\ merged = None /\ loads = 0 /\ edits = 0
    /\ read = <<>> /\ before = None /\ done = <<>>

-----------------------------------------------------------------------------
Launch(e) ==
    /\ pc = "down"
    /\ pc' = "up" /\ environ' = e
    /\ UNCHANGED <<files, load, loads, edits, done>>

Edit(p, content) ==
    /\ edits < MaxEdits /\ edits' = edits + 1
    /\ files' = [files EXCEPT ![p] = content]
    /\ UNCHANGED <<environ, pc, load, loads, done>>

\* `app_env or env.get(APP_ENV_VAR) or DEFAULT_APP_ENV`, <<>> for no app_env.
LayerName(appEnv) ==
    IF appEnv # <<>> THEN appEnv
    ELSE IF AppEnv \in DOMAIN environ /\ environ[AppEnv] # <<>> THEN environ[AppEnv]
    ELSE DefaultName

\* A package layer that does not exist is skipped like any absent file.
EnvLayers(appEnv) ==
    (IF LayerName(appEnv) \in PackageNames THEN <<LayerName(appEnv)>> ELSE <<>>) \o RootFiles

LoadBegin(appEnv) ==
    /\ pc = "up" /\ loads < MaxLoads
    /\ pc' = "load" /\ loads' = loads + 1
    /\ layers' = EnvLayers(appEnv)
    /\ merged' = NoValues
    /\ read' = <<>> /\ before' = environ
    /\ UNCHANGED <<files, environ, edits, done>>

\* Mutant: each layer is applied as soon as it is read.
ReadLayerApplying ==
    /\ pc = "load" /\ layers # <<>> /\ files[Head(layers)] # Malformed
    /\ LET lines == IF files[Head(layers)] = Absent THEN <<>> ELSE files[Head(layers)]
       IN  /\ merged' = Merge(merged, lines, environ)
           /\ environ' = Over(environ, Applied(ParseEnvText(lines, Context(merged, environ)), environ))
           /\ read' = Append(read, <<Head(layers), lines>>)
    /\ layers' = Tail(layers)
    /\ UNCHANGED <<files, pc, loads, edits, before, done>>

ReadLayer ==
    /\ pc = "load" /\ layers # <<>> /\ files[Head(layers)] # Malformed
    /\ LET lines == IF files[Head(layers)] = Absent THEN <<>> ELSE files[Head(layers)]
       IN  /\ merged' = Merge(merged, lines, environ)
           /\ read' = Append(read, <<Head(layers), lines>>)
    /\ layers' = Tail(layers)
    /\ UNCHANGED <<files, environ, pc, loads, edits, before, done>>

EndLoad ==
    /\ pc' = "up" /\ layers' = <<>> /\ merged' = NoValues
    /\ read' = <<>> /\ before' = None

\* ValueError: the caller of load_layered_env decides; the process may go on.
ReadRaises ==
    /\ pc = "load" /\ layers # <<>> /\ files[Head(layers)] = Malformed
    /\ EndLoad
    /\ UNCHANGED <<files, environ, loads, edits, done>>

Apply ==
    /\ pc = "load" /\ layers = <<>>
    /\ environ' = Over(Applied(merged, environ), environ)
    /\ done' = read
    /\ EndLoad
    /\ UNCHANGED <<files, loads, edits>>

\* The process ends, or starts a child with its environment and waits for it.
Exit ==
    /\ pc = "up"
    /\ pc' = "down" /\ environ' = None /\ loads' = 0 /\ done' = <<>>
    /\ UNCHANGED <<files, load, edits>>

Spawn ==
    /\ pc = "up" /\ loads > 0
    /\ loads' = 0
    /\ UNCHANGED <<files, environ, pc, load, edits, done>>

Next ==
    \/ \E e \in Environments : Launch(e)
    \/ \E p \in Paths, c \in Contents : Edit(p, c)
    \/ \E n \in PackageNames \cup {<<>>} : LoadBegin(n)
    \/ ReadLayer \/ ReadRaises \/ Apply
    \/ Exit \/ Spawn

Spec == Init /\ [][Next]_vars

-----------------------------------------------------------------------------
(* What a load means, said without a fold: by positions in what was read. *)

Lines(l) == read[l][2]
Positions == {p \in (1..Len(read)) \X (1..MaxLines) : p[2] <= Len(Lines(p[1]))}

\* The last of the positions P that assigns k.
LastOf(P, k) ==
    CHOOSE p \in P : /\ Lines(p[1])[p[2]].key = k
                     /\ \A q \in P : Lines(q[1])[q[2]].key = k
                            => q[1] < p[1] \/ (q[1] = p[1] /\ q[2] <= p[2])

Assigns(P, k) == \E p \in P : Lines(p[1])[p[2]].key = k

\* The value each position assigns: a reference is the value defined above it in
\* the file, else the variable, else the value of the last earlier layer, else the
\* default.  A key without a value counts as undefined in its own file and as empty in later layers.
Meaning[p \in Positions] ==
    LET line  == Lines(p[1])[p[2]]
        above == {q \in Positions : q[1] = p[1] /\ q[2] < p[2]}
        lower == {q \in Positions : q[1] < p[1]}
        OfRef(r) ==
            IF Assigns(above, r.ref)
            THEN IF Meaning[LastOf(above, r.ref)] = Bare THEN r.default
                 ELSE Meaning[LastOf(above, r.ref)]
            ELSE IF r.ref \in DOMAIN before THEN before[r.ref]
            ELSE IF Assigns(lower, r.ref) THEN Text(Meaning[LastOf(lower, r.ref)])
            ELSE r.default
    IN  CASE line.kind = "bare"    -> Bare
          [] line.kind = "literal" -> line.text
          [] line.kind = "expand"  ->
                FlattenSeq([i \in DOMAIN line.text |->
                    IF line.text[i] \in Atoms THEN <<line.text[i]>> ELSE OfRef(line.text[i])])

-----------------------------------------------------------------------------
(* Properties *)

\* env.py: a load sets exactly the variables its files assign and the environment
\* lacks, each to what the last assignment of the highest layer means, where that
\* meaning looks up references in the file, then the environment, then the layers
\* below (the fold over dictionaries in load_env_files computes that).
LoadMeansLayers ==
    [][Apply =>
        /\ DOMAIN environ' = DOMAIN before
                \cup {k \in Names : Assigns(Positions, k)}
        /\ \A k \in DOMAIN environ' :
             environ'[k] = IF k \in DOMAIN before THEN before[k]
                           ELSE Text(Meaning[LastOf(Positions, k)])]_vars

\* kit.md: "Loading parses every layer before applying changes": the environment stays
\* what it was when the load began until every layer has been read without an error.
LoadAllOrNothing == pc = "load" => environ = before

\* A process, or a child of it, that loads the same files again keeps every value:
\* a reference to a variable the first load set does not pile up.
ReloadKeeps ==
    [][Apply /\ read = done => environ' = environ]_vars

===============================================================================
