------------------------------ MODULE Evolution ------------------------------
(***************************************************************************)
(* `ss-contracts evolution-freeze` and `evolution-check` over a contracts  *)
(* tree that authors edit: registry.yaml, the ODCS files and the committed *)
(* baselines contracts/evolution/<id>.json.                                *)
(*                                                                         *)
(* A freeze is a process of several steps: it reads the registry, finds    *)
(* inconsistencies, loads each ODCS file, decides about every contract,    *)
(* then rewrites the baseline files one by one (each write truncates the   *)
(* file first) and unlinks the stale ones.  It may be killed between any   *)
(* two of them, and authors may edit the tree while it runs.  No other     *)
(* program writes baselines.  The ids are unordered here, so a loop may    *)
(* take them in any order: every order of file names is covered.           *)
(***************************************************************************)
EXTENDS EvolutionPolicy

CONSTANTS Ids,              \* contract ids
          Docs,             \* documents the ODCS loader accepts
          NoFile,           \* the ODCS file is missing
          Invalid,          \* the ODCS file is rejected by load_contract
          NoId,             \* no baseline is being written
          Authored,         \* which documents authors write for which contract
          MaxHistory,       \* bound: no freeze starts once a history is this long
          ConcurrentEdits,  \* whether the tree is edited while a freeze runs
          MayCrash          \* whether a freeze may be killed

ASSUME DocsAssumption ==
    /\ NoFile \notin Docs /\ Invalid \notin Docs /\ NoFile # Invalid
    /\ \A d \in Docs : d.version \in Version /\ WellFormed(d.fields)

ASSUME EvolutionAssumption ==
    /\ NoId \notin Ids
    /\ Authored \subseteq Ids \X Docs
    /\ MaxHistory \in Nat
    /\ ConcurrentEdits \in BOOLEAN
    /\ MayCrash \in BOOLEAN

VARIABLES
    registered,  \* keys of registry.yaml
    odcs,        \* content of each contract's ODCS file
    baseline,    \* last complete history written to each baseline; <<>> if none
    torn,        \* baselines whose file is truncated and not yet rewritten
    pc,          \* where the freeze is, or how the last one ended
    entries,     \* the registry the freeze has read
    errs,        \* whether loading has found an error
    loaded,      \* documents the freeze has loaded
    payload,     \* histories the freeze is about to write
    todo,        \* contracts the current loop of the freeze has left
    writing      \* the baseline whose file is open for writing

tree == <<registered, odcs>>
disk == <<baseline, torn>>
work == <<entries, errs, loaded, payload, writing>>
vars == <<registered, odcs, baseline, torn, pc, entries, errs, loaded, payload,
          todo, writing>>

Snapshots == {Snapshot(d) : d \in Docs}

TypeOK ==
    /\ registered \in SUBSET Ids
    /\ odcs \in [Ids -> Docs \cup {NoFile, Invalid}]
    /\ baseline \in [Ids -> Seq(Snapshots)]
    /\ torn \in SUBSET Ids
    /\ pc \in {"idle", "killed", "load", "write", "prune"}
    /\ entries \in SUBSET Ids
    /\ errs \in BOOLEAN
    /\ loaded \in [Ids -> Docs \cup {NoFile}]
    /\ payload \in [Ids -> Seq(Snapshots)]
    /\ todo \in SUBSET Ids
    /\ writing \in Ids \cup {NoId}

Init ==
    /\ registered = {}
    /\ odcs = [c \in Ids |-> NoFile]
    /\ baseline = [c \in Ids |-> <<>>]
    /\ torn = {}
    /\ pc = "idle"
    /\ entries = {}
    /\ errs = FALSE
    /\ loaded = [c \in Ids |-> NoFile]
    /\ payload = [c \in Ids |-> <<>>]
    /\ todo = {}
    /\ writing = NoId

-----------------------------------------------------------------------------
(* Authors and version control *)

\* No freeze runs.
Stopped == {"idle", "killed"}

MayEdit == pc \in Stopped \/ ConcurrentEdits

EditContract(c, content) ==
    /\ MayEdit
    /\ content \in Docs => <<c, content>> \in Authored
    /\ odcs' = [odcs EXCEPT ![c] = content]
    /\ UNCHANGED <<registered, disk, pc, work, todo>>

EditRegistry(c) ==
    /\ MayEdit
    /\ registered' = IF c \in registered THEN registered \ {c} ELSE registered \cup {c}
    /\ UNCHANGED <<odcs, disk, pc, work, todo>>

\* A truncated baseline is checked out again.
RestoreBaseline(c) ==
    /\ pc \in Stopped /\ c \in torn
    /\ torn' = torn \ {c}
    /\ UNCHANGED <<tree, baseline, pc, work, todo>>

-----------------------------------------------------------------------------
(* Registry.consistency_errors and load_contracts *)

Consistent ==
    /\ \A c \in registered : odcs[c] # NoFile
    /\ \A c \in Ids : odcs[c] # NoFile => c \in registered

FreezeBegin ==
    /\ pc \in Stopped
    /\ \A c \in Ids : Len(baseline[c]) < MaxHistory
    /\ pc' = "load"
    /\ entries' = registered
    /\ errs' = ~Consistent
    /\ todo' = registered
    /\ UNCHANGED <<tree, disk, loaded, payload, writing>>

\* Mutant: a file that does not validate is loaded all the same.
FreezeLoadUnchecked(c) ==
    /\ pc = "load" /\ c \in todo
    /\ todo' = todo \ {c}
    /\ loaded' = [loaded EXCEPT ![c] = odcs[c]]
    /\ UNCHANGED <<tree, disk, pc, entries, errs, payload, writing>>

\* An entry whose file has vanished since the consistency check is skipped
\* without an error.
FreezeLoad(c) ==
    /\ pc = "load" /\ c \in todo
    /\ todo' = todo \ {c}
    /\ errs' = (errs \/ odcs[c] = Invalid)
    /\ loaded' = IF odcs[c] = Invalid THEN loaded ELSE [loaded EXCEPT ![c] = odcs[c]]
    /\ UNCHANGED <<tree, disk, pc, entries, payload, writing>>

-----------------------------------------------------------------------------
(* freeze_baselines *)

\* The process ends and its memory with it.
Discard ==
    /\ entries' = {}
    /\ errs' = FALSE
    /\ loaded' = [c \in Ids |-> NoFile]
    /\ payload' = [c \in Ids |-> <<>>]
    /\ todo' = {}
    /\ writing' = NoId

Exit == pc' = "idle" /\ Discard

Contracts == {c \in Ids : loaded[c] # NoFile}

\* Mutant: a truncated baseline reads as one without history.
UnreadableIgnored == FALSE

\* json.loads raises on a truncated baseline.
Unreadable == Contracts \cap torn # {}

LoadHistory(c) == IF c \in torn THEN <<>> ELSE baseline[c]

\* The command dies before it writes.
FreezeRaises ==
    /\ pc = "load" /\ todo = {}
    /\ Unreadable
    /\ Exit
    /\ UNCHANGED <<tree, disk>>

Refused ==
    errs \/ \E c \in Contracts : FreezeRefuses(LoadHistory(c), Snapshot(loaded[c]))

FreezeRefused ==
    /\ pc = "load" /\ todo = {}
    /\ ~Unreadable
    /\ Refused
    /\ Exit
    /\ UNCHANGED <<tree, disk>>

Payloads ==
    [c \in Ids |-> IF c \in Contracts
                   THEN FrozenHistory(LoadHistory(c), Snapshot(loaded[c]))
                   ELSE <<>>]

FreezeAccept ==
    /\ pc = "load" /\ todo = {}
    /\ ~Unreadable
    /\ ~Refused
    /\ pc' = "write"
    /\ payload' = Payloads
    /\ todo' = Contracts
    /\ UNCHANGED <<tree, disk, entries, errs, loaded, writing>>

FreezeTruncate(c) ==
    /\ pc = "write" /\ writing = NoId /\ c \in todo
    /\ writing' = c
    /\ torn' = torn \cup {c}
    /\ UNCHANGED <<tree, baseline, pc, entries, errs, loaded, payload, todo>>

FreezeFlush ==
    /\ pc = "write" /\ writing # NoId
    /\ baseline' = [baseline EXCEPT ![writing] = payload[writing]]
    /\ torn' = torn \ {writing}
    /\ todo' = todo \ {writing}
    /\ writing' = NoId
    /\ UNCHANGED <<tree, pc, entries, errs, loaded, payload>>

Stale(ids) == {c \in Ids : (baseline[c] # <<>> \/ c \in torn) /\ c \notin ids}

\* Mutant: stale baselines stay.
FreezeScanNothing ==
    /\ pc = "write" /\ writing = NoId /\ todo = {}
    /\ pc' = "prune"
    /\ todo' = {}
    /\ UNCHANGED <<tree, disk, work>>

FreezeScan ==
    /\ pc = "write" /\ writing = NoId /\ todo = {}
    /\ pc' = "prune"
    /\ todo' = Stale(Contracts)
    /\ UNCHANGED <<tree, disk, work>>

FreezeUnlink(c) ==
    /\ pc = "prune" /\ c \in todo
    /\ baseline' = [baseline EXCEPT ![c] = <<>>]
    /\ torn' = torn \ {c}
    /\ todo' = todo \ {c}
    /\ UNCHANGED <<tree, pc, work>>

FreezeEnd ==
    /\ pc = "prune" /\ todo = {}
    /\ Exit
    /\ UNCHANGED <<tree, disk>>

Crash ==
    /\ MayCrash /\ pc \notin Stopped
    /\ pc' = "killed" /\ Discard
    /\ UNCHANGED <<tree, disk>>

-----------------------------------------------------------------------------
Freeze ==
    \/ \E c \in Ids : FreezeLoad(c)
    \/ FreezeRaises
    \/ FreezeRefused
    \/ FreezeAccept
    \/ \E c \in Ids : FreezeTruncate(c)
    \/ FreezeFlush
    \/ FreezeScan
    \/ \E c \in Ids : FreezeUnlink(c)
    \/ FreezeEnd

Author ==
    \/ \E c \in Ids, content \in Docs \cup {NoFile, Invalid} : EditContract(c, content)
    \/ \E c \in Ids : EditRegistry(c)
    \/ \E c \in Ids : RestoreBaseline(c)

Next == Author \/ FreezeBegin \/ Freeze \/ Crash

Spec == Init /\ [][Next]_vars

\* A running command keeps being scheduled; authors need do nothing.
FairSpec == Spec /\ WF_vars(Freeze)

-----------------------------------------------------------------------------
(* evolution-check, which only reads *)

CheckEvolutionOk ==
    /\ Consistent
    /\ \A c \in registered :
          /\ odcs[c] # Invalid
          /\ c \notin torn
          /\ EvaluateOk(baseline[c], Snapshot(odcs[c]))
    /\ Stale(registered) = {}

-----------------------------------------------------------------------------
(* Properties *)

\* Every step of every recorded history conforms to the version policy,
\* whatever edits, crashes and restores happened since the first freeze.
HistoryConforms == \A c \in Ids : HistoryOk(baseline[c])

\* Any two recorded snapshots of one major version can read each other, in both
\* directions and however many freezes lie between them: a consumer several
\* versions behind keeps working until the major version moves.
SameMajorCompatible ==
    \A c \in Ids : \A i, j \in DOMAIN baseline[c] :
        baseline[c][i].version[1] = baseline[c][j].version[1]
            => CanRead(baseline[c][i], baseline[c][j])

\* A proto number recorded for a field of the message or of one record names no
\* other field in any other recorded snapshot, even after the field was removed
\* and the major version moved.
NumbersNeverReused ==
    \A c \in Ids : \A i, j \in DOMAIN baseline[c] :
        i # j => NumbersAgree(baseline[c][i], baseline[c][j])

\* A baseline of a registered contract only ever grows at its end: no freeze,
\* crash or recovery drops or rewrites a reviewed snapshot.
HistoryAppendOnly ==
    [][\A c \in registered :
         /\ Len(baseline[c]) <= Len(baseline'[c])
         /\ \A i \in DOMAIN baseline[c] : baseline'[c][i] = baseline[c][i]]_vars

\* When a freeze succeeds, evolution-check finds nothing to report.
FreezeThenCheckClean == [][FreezeEnd => CheckEvolutionOk]_vars

\* What evolution-check accepts for the contracts that have a baseline.
Acceptable ==
    /\ Consistent
    /\ \A c \in registered :
          /\ odcs[c] # Invalid
          /\ c \notin torn
          /\ baseline[c] # <<>> => EvaluateOk(baseline[c], Snapshot(odcs[c]))

Recorded ==
    /\ pc = "idle"
    /\ \A c \in registered : /\ odcs[c] \in Docs /\ baseline[c] # <<>>
                              /\ baseline[c][Len(baseline[c])] = Snapshot(odcs[c])
    /\ \A c \in Ids \ registered : baseline[c] = <<>>

\* A freeze started on a tree that evolution-check accepts is not refused: unless it
\* is killed, it ends with every contract's current snapshot recorded and nothing
\* else on disk.
AcceptedGetsRecorded ==
    (pc = "load" /\ todo = entries /\ errs = FALSE /\ Acceptable)
        ~> (Recorded \/ pc = "killed")

\* The version policy and the proto number rule between two snapshots, as relations.
Steps == {p \in Snapshots \X Snapshots : StepOk(p[1], p[2])}
Agreements == {p \in Snapshots \X Snapshots : NumbersAgree(p[1], p[2])}

Log == INSTANCE HistoryLog
           WITH Contracts <- Ids, Entries <- Snapshots, Follows <- Steps,
                Agrees <- Agreements, active <- registered, log <- baseline

\* The baselines are a log of reviewed snapshots, in which each write of a file adds at
\* most one that the policy admits, and only what is not registered is dropped: reading,
\* deciding, truncating, crashing and restoring in between are invisible.
ImplementsLog == Log!Spec

=============================================================================
