-------------------------- MODULE RateLimiterThreads --------------------------
(***************************************************************************)
(* ss_kit.security.RateLimiter called by several threads at once, as a     *)
(* FastAPI service calls it: rate_limit_dependency returns a plain (not    *)
(* async) function, which FastAPI runs in its thread pool, and check()     *)
(* takes no lock.                                                          *)
(*                                                                         *)
(* CPython may switch threads where a call returns (get, len, popitem,     *)
(* _rate, move_to_end, _clock, max, min), where a Python function is       *)
(* entered and where a loop jumps back; between two of these a thread runs *)
(* alone.  Each action below is the code between two such points, so a     *)
(* result it keeps in `call` may be stale when the next action uses it.    *)
(* Buckets are objects: threads and table entries hold references to them. *)
(***************************************************************************)
EXTENDS RateTable, FiniteSets

CONSTANTS Threads, Keys,
          Objects,             \* as many buckets as can be alive at once
          NoKey, NoObject, NoBucket, NoView,
          Rate,                \* (per_second, burst)
          MaxTime              \* bound on the clock

ASSUME RateLimiterThreadsAssumption ==
    /\ IsFiniteSet(Threads) /\ Threads # {}
    /\ Rate \in Int \X Int
    /\ MaxTime \in Nat
    /\ NoKey \notin Keys /\ NoObject \notin Objects /\ NoBucket \notin Bucket

VARIABLES
    order,    \* keys of the table, least recently seen first
    entry,    \* the bucket object each key of the table refers to
    heap,     \* the buckets themselves
    call,     \* per thread: where its check() is and what it has read
    now,      \* the monotonic clock
    before    \* observer: the table as a check found it, while nothing overlaps it

vars == <<order, entry, heap, call, now, before>>

Steps == {"idle", "test", "pop", "create", "store", "touch", "clock",
          "elapsed", "refill", "take"}

Call == [at : Steps, key : Keys \cup {NoKey}, obj : Objects \cup {NoObject},
         clock : Nat, value : Nat, raised : BOOLEAN]

Idle == [at |-> "idle", key |-> NoKey, obj |-> NoObject, clock |-> 0, value |-> 0,
         raised |-> FALSE]

TypeOK ==
    /\ order \in Seq(Keys)
    /\ entry \in [Keys -> Objects \cup {NoObject}]
    /\ heap \in [Objects -> Bucket \cup {NoBucket}]
    /\ call \in [Threads -> Call]
    /\ now \in Nat
    /\ \A k \in Keys : k \in Members(order) <=> entry[k] # NoObject
    /\ Distinct(order)

Init ==
    /\ order = <<>>
    /\ entry = [k \in Keys |-> NoObject]
    /\ heap = [o \in Objects |-> NoBucket]
    /\ call = [t \in Threads |-> Idle]
    /\ now = 0
    /\ before = [t \in Threads |-> NoView]

-----------------------------------------------------------------------------
(* What the steps share *)

\* The table as keys and bucket values.
View == [order |-> order,
         buckets |-> [k \in Keys |-> IF entry[k] = NoObject THEN NoBucket
                                     ELSE heap[entry[k]]]]

\* A step of t overlaps the checks of the other threads.
Overlaps(t) ==
    before' = [u \in Threads |->
                 IF u = t /\ call'[t].at # "idle" THEN before[u] ELSE NoView]

At(t, step) == call[t].at = step

\* The buckets that t or the table still refers to after a step.
Referenced(o) == (\E t \in Threads : call'[t].obj = o) \/ (\E k \in Keys : entry'[k] = o)

\* A bucket that nothing refers to is gone.
Collect(h) == [o \in Objects |-> IF Referenced(o) THEN h[o] ELSE NoBucket]

Forget == heap' = Collect(heap)

\* The check of t ends without a result.
Raise(t) == call' = [call EXCEPT ![t] = [Idle EXCEPT !.raised = TRUE]]

-----------------------------------------------------------------------------
(* check() and evict_oldest() *)

\* self.buckets.get(key)
Get(t, k) ==
    /\ At(t, "idle")
    /\ call' = [call EXCEPT ![t] =
                  [Idle EXCEPT !.key = k, !.obj = entry[k],
                               !.at = IF entry[k] = NoObject THEN "test" ELSE "touch"]]
    /\ before' = [u \in Threads |->
                    IF u = t /\ \A v \in Threads \ {t} : At(v, "idle") THEN View ELSE NoView]
    /\ UNCHANGED <<order, entry, heap, now>>

\* Mutant: the table may fill up to one more than its bound.
EvictTestLate(t) ==
    /\ At(t, "test")
    /\ call' = [call EXCEPT ![t].at = IF Len(order) > MaxClients THEN "pop" ELSE "create"]
    /\ Overlaps(t)
    /\ UNCHANGED <<order, entry, heap, now>>

\* while self.buckets and len(self.buckets) >= self.max_clients
EvictTest(t) ==
    /\ At(t, "test")
    /\ call' = [call EXCEPT ![t].at = IF Len(order) >= MaxClients THEN "pop" ELSE "create"]
    /\ Overlaps(t)
    /\ UNCHANGED <<order, entry, heap, now>>

\* self.buckets.popitem(last=False), which raises KeyError on an empty table.
EvictPop(t) ==
    /\ At(t, "pop")
    /\ IF order = <<>>
       THEN Raise(t) /\ UNCHANGED <<order, entry>>
       ELSE /\ order' = Tail(order)
            /\ entry' = [entry EXCEPT ![Head(order)] = NoObject]
            /\ call' = [call EXCEPT ![t].at = "test"]
    /\ Forget
    /\ Overlaps(t)
    /\ UNCHANGED now

\* Memory that no bucket uses (a run's Objects always has some).
FreeObject == CHOOSE o \in Objects : heap[o] = NoBucket

\* self._new_bucket()
Create(t) ==
    /\ At(t, "create")
    /\ \E o \in Objects : heap[o] = NoBucket
    /\ heap' = [heap EXCEPT ![FreeObject] = NewBucket(Rate, now)]
    /\ call' = [call EXCEPT ![t].at = "store", ![t].obj = FreeObject]
    /\ Overlaps(t)
    /\ UNCHANGED <<order, entry, now>>

\* Mutant: a check that finds its key stored meanwhile adds it once more.
StoreAgain(t) ==
    /\ At(t, "store")
    /\ order' = Append(order, call[t].key)
    /\ entry' = [entry EXCEPT ![call[t].key] = call[t].obj]
    /\ call' = [call EXCEPT ![t].at = "clock"]
    /\ Forget
    /\ Overlaps(t)
    /\ UNCHANGED now

\* bucket = self.buckets[key] = ..., which replaces a bucket stored meanwhile.
Store(t) ==
    /\ At(t, "store")
    /\ order' = IF call[t].key \in Members(order) THEN order ELSE Append(order, call[t].key)
    /\ entry' = [entry EXCEPT ![call[t].key] = call[t].obj]
    /\ call' = [call EXCEPT ![t].at = "clock"]
    /\ Forget
    /\ Overlaps(t)
    /\ UNCHANGED now

\* Mutant: a returning client keeps its place.
TouchInPlace(t) ==
    /\ At(t, "touch")
    /\ call' = [call EXCEPT ![t].at = "clock"]
    /\ Overlaps(t)
    /\ UNCHANGED <<order, entry, heap, now>>

\* self.buckets.move_to_end(key), which raises KeyError if the key was evicted.
Touch(t) ==
    /\ At(t, "touch")
    /\ IF entry[call[t].key] = NoObject
       THEN Raise(t) /\ UNCHANGED order
       ELSE /\ order' = MoveToEnd(order, call[t].key)
            /\ call' = [call EXCEPT ![t].at = "clock"]
    /\ UNCHANGED <<entry, now>>
    /\ Forget
    /\ Overlaps(t)

-----------------------------------------------------------------------------
(* bucket.allow(self._clock()) *)

ReadClock(t) ==
    /\ At(t, "clock")
    /\ call' = [call EXCEPT ![t].at = "elapsed", ![t].clock = now]
    /\ Overlaps(t)
    /\ UNCHANGED <<order, entry, heap, now>>

\* max(0.0, now - self.last_ts)
ReadElapsed(t) ==
    /\ At(t, "elapsed")
    /\ call' = [call EXCEPT ![t].at = "refill",
                            ![t].value = Elapsed(heap[call[t].obj], call[t].clock)]
    /\ Overlaps(t)
    /\ UNCHANGED <<order, entry, heap, now>>

\* min(self.capacity, self.tokens + elapsed * self.refill_rate)
ReadTokens(t) ==
    /\ At(t, "refill")
    /\ call' = [call EXCEPT ![t].at = "take",
                            ![t].value = Refilled(heap[call[t].obj], call[t].value)]
    /\ Overlaps(t)
    /\ UNCHANGED <<order, entry, heap, now>>

\* The tokens computed above overwrite whatever the bucket holds now.
TakeToken(t) ==
    /\ At(t, "take")
    /\ UNCHANGED <<order, entry, now>>
    /\ call' = [call EXCEPT ![t] = Idle]
    /\ LET c == call[t]
           h == [heap EXCEPT ![c.obj] = Take(heap[c.obj], c.value, c.clock)]
       IN  heap' = Collect(h)
    /\ Overlaps(t)

Tick ==
    /\ now < MaxTime
    /\ now' = now + 1
    /\ UNCHANGED <<order, entry, heap, call, before>>

Check(t) ==
    \/ EvictTest(t) \/ EvictPop(t) \/ Create(t) \/ Store(t) \/ Touch(t)
    \/ ReadClock(t) \/ ReadElapsed(t) \/ ReadTokens(t) \/ TakeToken(t)

Next ==
    \/ \E t \in Threads, k \in Keys : Get(t, k)
    \/ \E t \in Threads : Check(t)
    \/ Tick

Spec == Init /\ [][Next]_vars

-----------------------------------------------------------------------------
(* Properties *)

\* However the checks interleave, the table exceeds max_clients by at most one
\* client for each thread beyond the first: a thread stores one client at most
\* for each time it finds room.
TableExcessBounded == Len(order) <= MaxClients + Cardinality(Threads) - 1

\* What check() does to the table when nothing overlaps it, as RateLimiter has it.
CheckedOnce(view, k, clock) ==
    LET kept  == IF k \in Members(view.order) THEN view.order ELSE EvictOldest(view.order)
        found == IF view.buckets[k] = NoBucket THEN NewBucket(Rate, clock)
                 ELSE view.buckets[k]
        asked == Take(found, Refilled(found, Elapsed(found, clock)), clock)
    IN  [order |-> MoveToEnd(kept, k),
         buckets |-> [j \in Keys |-> IF j = k THEN asked
                                    ELSE IF j \in Members(kept) THEN view.buckets[j]
                                    ELSE NoBucket]]

\* A check that no other thread's check overlaps never raises and changes the
\* table exactly as one step of RateLimiter does, also in a table that overlapping
\* checks have left oversized.
LoneCheckIsAtomic ==
    [][\A t \in Threads :
         before[t] # NoView /\ ~At(t, "idle") /\ call'[t].at = "idle"
            => /\ ~call'[t].raised
               /\ View' = CheckedOnce(before[t], call[t].key, call[t].clock)]_vars

\* check() answers False "when the client is over its rate" and True otherwise: it
\* returns an answer and does not raise.
ChecksAnswer == \A t \in Threads : ~call[t].raised

=============================================================================
