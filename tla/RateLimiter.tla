----------------------------- MODULE RateLimiter -----------------------------
(***************************************************************************)
(* ss_kit.security.RateLimiter when its calls do not overlap (an asyncio   *)
(* service, or callers that hold a lock): one token bucket per client key  *)
(* in a bounded least-recently-used table, an OrderedDict whose keys are   *)
(* `order`, oldest first.  RateLimiterThreads has the overlapping calls.   *)
(***************************************************************************)
EXTENDS RateTable

CONSTANTS Keys,        \* client keys
          NoBucket,    \* the key is not in the table
          Rates,       \* the (per_second, burst) pairs settings may take
          MaxTime      \* bound on the clock

ASSUME RateLimiterAssumption ==
    /\ Rates \subseteq Int \X Int /\ Rates # {}
    /\ MaxTime \in Nat
    /\ NoBucket \notin Bucket

VARIABLES
    order,      \* keys of the table, least recently seen first
    bucket,     \* the bucket of each key, or NoBucket
    rate,       \* what the rate provider returns now
    now,        \* the monotonic clock
    uses,       \* observer: every key ever seen, by its latest use
    granted,    \* observer: calls allowed since the key's bucket was created
    created,    \* observer: when the key's bucket was created
    lastGrant   \* observer: when the key was last allowed, or its bucket created

observers == <<uses, granted, created, lastGrant>>
vars == <<order, bucket, rate, now, uses, granted, created, lastGrant>>

TypeOK ==
    /\ order \in Seq(Keys)
    /\ bucket \in [Keys -> Bucket \cup {NoBucket}]
    /\ rate \in Rates
    /\ now \in Nat
    /\ uses \in Seq(Keys)
    /\ granted \in [Keys -> Nat]
    /\ created \in [Keys -> Nat]
    /\ lastGrant \in [Keys -> Nat]

Init ==
    /\ order = <<>>
    /\ bucket = [k \in Keys |-> NoBucket]
    /\ rate \in Rates
    /\ now = 0
    /\ uses = <<>>
    /\ granted = [k \in Keys |-> 0]
    /\ created = [k \in Keys |-> 0]
    /\ lastGrant = [k \in Keys |-> 0]

-----------------------------------------------------------------------------
\* A value per key: `v` for k, unchanged for the other keys of the table and
\* `none` for those that left it.
Update(f, k, v, table, none) ==
    [j \in Keys |-> IF j = k THEN v ELSE IF j \in Members(table) THEN f[j] ELSE none]

\* The call bucket.allow(now) and what the observers see of it.
Allow(k, b, table) ==
    LET tokens == Refilled(b, Elapsed(b, now))
        grants == IF Allows(tokens) THEN 1 ELSE 0
        fresh  == bucket[k] = NoBucket
    IN  /\ bucket' = Update(bucket, k, Take(b, tokens, now), table, NoBucket)
        /\ granted' = Update(granted, k, (IF fresh THEN 0 ELSE granted[k]) + grants, table, 0)
        /\ created' = Update(created, k, IF fresh THEN now ELSE created[k], table, 0)
        /\ lastGrant' = Update(lastGrant, k,
                               IF fresh \/ grants = 1 THEN now ELSE lastGrant[k], table, 0)
        /\ uses' = MoveToEnd(uses, k)

\* check() for a client that has no bucket: make room, create one, ask it.
CheckNew(k) ==
    /\ bucket[k] = NoBucket
    /\ order' = Append(EvictOldest(order), k)
    /\ Allow(k, NewBucket(rate, now), order')
    /\ UNCHANGED <<rate, now>>

\* Mutant: a returning client keeps its place in the table.
CheckKnownInPlace(k) ==
    /\ bucket[k] # NoBucket
    /\ order' = order
    /\ Allow(k, bucket[k], order')
    /\ UNCHANGED <<rate, now>>

\* check() for a client in the table: move it to the young end, ask its bucket.
CheckKnown(k) ==
    /\ bucket[k] # NoBucket
    /\ order' = MoveToEnd(order, k)
    /\ Allow(k, bucket[k], order')
    /\ UNCHANGED <<rate, now>>

\* Settings change; existing buckets keep the rate they were created with.
SetRate(r) ==
    /\ rate' = r
    /\ UNCHANGED <<order, bucket, now, observers>>

Tick ==
    /\ now < MaxTime
    /\ now' = now + 1
    /\ UNCHANGED <<order, bucket, rate, observers>>

Next ==
    \/ \E k \in Keys : CheckNew(k) \/ CheckKnown(k)
    \/ \E r \in Rates : SetRate(r)
    \/ Tick

Spec == Init /\ [][Next]_vars

-----------------------------------------------------------------------------
(* Properties *)

\* The table holds exactly the MaxClients most recently seen clients (all of them
\* while there are fewer), in the order they were last seen: the bound is never
\* exceeded and a recent client is never evicted before an older one.
TableIsMostRecent ==
    /\ Len(order) = AtMost(MaxClients, Len(uses))
    /\ \A i \in 1..Len(order) : order[i] = uses[Len(uses) - Len(order) + i]
    /\ \A k \in Keys : (bucket[k] # NoBucket) <=> (k \in Members(order))

\* A client is never allowed more calls than its burst and the refill of the
\* time since its bucket was created add up to.
GrantBound ==
    \A k \in Keys : bucket[k] # NoBucket =>
        granted[k] * Unit <= bucket[k].capacity + (now - created[k]) * bucket[k].refill

\* A client is refused only while less than one token has been refilled since it
\* was last allowed: refused calls do not push its next turn away.
RefusedOnlyWhenSpent ==
    [][\A k \in Keys :
         CheckKnown(k) /\ granted'[k] = granted[k]
            => (now - lastGrant[k]) * bucket[k].refill < Unit]_vars

=============================================================================
