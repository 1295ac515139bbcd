------------------------------ MODULE HistoryLog ------------------------------
(***************************************************************************)
(* What contracts/evolution promises its readers: for each contract an     *)
(* append-only log of reviewed snapshots.  A new entry follows the last    *)
(* one by the version policy and agrees with all earlier ones on numbers;  *)
(* only the log of a contract that is not registered may be dropped.       *)
(***************************************************************************)
EXTENDS Integers, Sequences

CONSTANTS Contracts,  \* contract ids
          Entries,    \* snapshots
          Follows,    \* the steps the version policy admits
          Agrees      \* pairs of snapshots that give no number to two fields

VARIABLES active,     \* registered contracts
          log         \* the history of each contract

Init ==
    /\ active = {}
    /\ log = [c \in Contracts |-> <<>>]

Record(c, s) ==
    /\ log' = [log EXCEPT ![c] = Append(@, s)]
    /\ UNCHANGED active
    /\ log[c] # <<>> => <<log[c][Len(log[c])], s>> \in Follows
    /\ \A i \in DOMAIN log[c] : <<log[c][i], s>> \in Agrees

Drop(c) ==
    /\ c \notin active
    /\ log' = [log EXCEPT ![c] = <<>>]
    /\ UNCHANGED active

Register(ids) ==
    /\ active' = ids
    /\ UNCHANGED log

Next ==
    \/ \E c \in Contracts, s \in Entries : Record(c, s)
    \/ \E c \in Contracts : Drop(c)
    \/ \E ids \in SUBSET Contracts : Register(ids)

Spec == Init /\ [][Next]_<<active, log>>

===============================================================================
