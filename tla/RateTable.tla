------------------------------ MODULE RateTable ------------------------------
(***************************************************************************)
(* The keys of RateLimiter.buckets, an OrderedDict, as a sequence without  *)
(* repetitions whose first element is the least recently seen client.      *)
(***************************************************************************)
EXTENDS TokenBucket, Sequences

CONSTANT MaxClients  \* max_clients

ASSUME MaxClientsAssumption == MaxClients \in Nat \ {0}

Members(s) == {s[i] : i \in 1..Len(s)}

\* No key occurs twice, as in every dict.
Distinct(s) == \A i, j \in 1..Len(s) : i # j => s[i] # s[j]

\* The sequence without its element k, if it has one.
Without(s, k) ==
    IF k \in Members(s)
    THEN LET p == CHOOSE i \in 1..Len(s) : s[i] = k
         IN  [i \in 1..(Len(s) - 1) |-> IF i < p THEN s[i] ELSE s[i + 1]]
    ELSE s

MoveToEnd(s, k) == Append(Without(s, k), k)

\* evict_oldest drops the oldest keys until one more fits.
EvictOldest(s) ==
    IF Len(s) < MaxClients THEN s ELSE SubSeq(s, Len(s) - MaxClients + 2, Len(s))

=============================================================================
