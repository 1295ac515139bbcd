----------------------- MODULE RateLimiterThreadsProofs -----------------------
(***************************************************************************)
(* Proofs about overlapping checks, for every number of threads, clients   *)
(* and table entries.                                                      *)
(***************************************************************************)
EXTENDS RateLimiterThreads, RateTableProofs, FiniteSetTheorems

HasBucket == {"store", "touch", "clock", "elapsed", "refill", "take"}

\* What a thread or the table refers to is alive.
Live ==
    /\ \A t \in Threads : ~At(t, "idle") => call[t].key \in Keys
    /\ \A t \in Threads : call[t].at \in HasBucket =>
          call[t].obj \in Objects /\ heap[call[t].obj] \in Bucket
    /\ \A k \in Keys : entry[k] # NoObject => heap[entry[k]] \in Bucket

\* Threads that have found room and not yet used it.
Pending == {t \in Threads : call[t].at \in {"create", "store"}}

Excess == Len(order) + Cardinality(Pending) < MaxClients + Cardinality(Threads)

IInv == TypeOK /\ Live /\ Excess

-----------------------------------------------------------------------------
(* Values stay in their types *)

LEMMA NewBucketType ==
  ASSUME NEW t \in Nat PROVE NewBucket(Rate, t) \in Bucket
  BY RateLimiterThreadsAssumption, UnitAssumption DEF NewBucket, Capacity, AtLeast, Bucket

LEMMA ElapsedType ==
  ASSUME NEW b \in Bucket, NEW t \in Nat PROVE Elapsed(b, t) \in Nat
  BY DEF Elapsed, AtLeast, Bucket

LEMMA RefilledType ==
  ASSUME NEW b \in Bucket, NEW e \in Nat PROVE Refilled(b, e) \in Nat
<1>1. b.capacity \in Nat /\ b.tokens \in Nat /\ b.refill \in Nat
  BY DEF Bucket
<1>2. e * b.refill \in Nat
  BY <1>1
<1>. QED
  BY <1>1, <1>2 DEF Refilled, AtMost

LEMMA TakeType ==
  ASSUME NEW b \in Bucket, NEW n \in Nat, NEW t \in Nat PROVE Take(b, n, t) \in Bucket
<1>1. (IF Allows(n) THEN n - Unit ELSE n) \in Nat
  BY UnitAssumption DEF Allows
<1>. QED
  BY <1>1 DEF Take, Bucket

-----------------------------------------------------------------------------
(* Threads between the test and the store *)

LEMMA PendingFinite ==
  /\ IsFiniteSet(Pending) /\ Cardinality(Pending) \in Nat
  /\ Cardinality(Threads) \in Nat /\ Cardinality(Pending) <= Cardinality(Threads)
<1>1. Pending \subseteq Threads /\ IsFiniteSet(Threads)
  BY RateLimiterThreadsAssumption DEF Pending
<1>. QED
  BY <1>1, FS_Subset, FS_CardinalityType

LEMMA PendingFinitePrimed ==
  /\ IsFiniteSet(Pending') /\ Cardinality(Pending') \in Nat
  /\ Cardinality(Pending') <= Cardinality(Threads)
<1>1. Pending' \subseteq Threads /\ IsFiniteSet(Threads)
  BY RateLimiterThreadsAssumption DEF Pending
<1>. QED
  BY <1>1, FS_Subset, FS_CardinalityType

\* A step that stores nothing and starts no store keeps the excess.
LEMMA ExcessKept ==
  ASSUME Excess, TypeOK, Len(order') \in Nat, Len(order') <= Len(order), Pending' \subseteq Pending
  PROVE  Excess'
<1>1. Cardinality(Pending') <= Cardinality(Pending)
  BY PendingFinite, FS_Subset
<1>2. Cardinality(Pending) \in Nat /\ Cardinality(Pending') \in Nat
      /\ Cardinality(Threads) \in Nat /\ MaxClients \in Nat /\ Len(order) \in Nat
  BY PendingFinite, PendingFinitePrimed, MaxClientsAssumption DEF TypeOK
<1>. QED
  BY <1>1, <1>2 DEF Excess

-----------------------------------------------------------------------------
(* One step of one thread *)

\* A step of t that leaves t with the call c, keeps the table a table and every
\* bucket alive that something still refers to, keeps the invariant.
LEMMA StepKeeps ==
  ASSUME IInv, NEW t \in Threads, NEW c \in Call, call' = [call EXCEPT ![t] = c],
         order' \in Seq(Keys), Distinct(order'),
         entry' \in [Keys -> Objects \cup {NoObject}],
         \A k \in Keys : k \in Members(order') <=> entry'[k] # NoObject,
         heap' \in [Objects -> Bucket \cup {NoBucket}], now' \in Nat,
         c.at # "idle" => c.key \in Keys,
         c.at \in HasBucket => c.obj \in Objects /\ heap'[c.obj] \in Bucket,
         \A o \in Objects : Referenced(o) /\ heap[o] \in Bucket => heap'[o] \in Bucket,
         \A k \in Keys : entry'[k] # NoObject =>
            entry'[k] = entry[k] \/ heap'[entry'[k]] \in Bucket,
         Excess'
  PROVE  IInv'
<1>1. call' \in [Threads -> Call] /\ call'[t] = c
      /\ \A u \in Threads \ {t} : call'[u] = call[u]
  BY DEF IInv, TypeOK
<1>2. TypeOK'
  BY <1>1 DEF TypeOK
<1>3. ASSUME NEW u \in Threads
      PROVE  /\ call'[u].at # "idle" => call'[u].key \in Keys
             /\ call'[u].at \in HasBucket =>
                   call'[u].obj \in Objects /\ heap'[call'[u].obj] \in Bucket
  <2>1. CASE u = t
    BY <1>1, <2>1
  <2>2. CASE u # t
    <3>1. call'[u] = call[u]
      BY <1>1, <2>2
    <3>2. call[u].at # "idle" => call[u].key \in Keys
      BY DEF IInv, Live, At
    <3>3. ASSUME call[u].at \in HasBucket
          PROVE  call[u].obj \in Objects /\ heap'[call[u].obj] \in Bucket
      <4>1. call[u].obj \in Objects /\ heap[call[u].obj] \in Bucket
        BY <3>3 DEF IInv, Live
      <4>2. Referenced(call[u].obj)
        BY <3>1 DEF Referenced
      <4>. QED
        BY <4>1, <4>2
    <3>. QED
      BY <3>1, <3>2, <3>3
  <2>. QED
    BY <2>1, <2>2
<1>4. ASSUME NEW k \in Keys, entry'[k] # NoObject
      PROVE  heap'[entry'[k]] \in Bucket
  <2>1. CASE entry'[k] = entry[k]
    <3>1. heap[entry'[k]] \in Bucket /\ entry'[k] \in Objects
      BY <1>4, <2>1 DEF IInv, Live, TypeOK
    <3>2. Referenced(entry'[k])
      BY DEF Referenced
    <3>. QED
      BY <3>1, <3>2
  <2>. QED
    BY <1>4, <2>1
<1>5. Live'
  BY <1>3, <1>4 DEF Live, At
<1>. QED
  BY <1>2, <1>5 DEF IInv

\* A step that only moves t on in the code, with what it has read.
LEMMA MoveKeeps ==
  ASSUME IInv, NEW t \in Threads, NEW c \in Call, call' = [call EXCEPT ![t] = c],
         UNCHANGED <<order, entry, heap, now>>,
         c.at # "idle" => c.key \in Keys,
         c.at \in HasBucket => c.obj \in Objects /\ heap[c.obj] \in Bucket,
         c.at = "store" => call[t].at = "store",
         c.at = "create" => Len(order) < MaxClients
  PROVE  IInv'
<1>1. call'[t] = c /\ \A u \in Threads \ {t} : call'[u] = call[u]
  BY DEF IInv, TypeOK
<1>2. Excess'
  <2>1. CASE c.at = "create"
    BY <2>1, PendingFinitePrimed, PendingFinite, MaxClientsAssumption
       DEF Excess, IInv, TypeOK
  <2>2. CASE c.at # "create"
    <3>1. Pending' \subseteq Pending
      BY <1>1, <2>2 DEF Pending
    <3>2. Len(order') \in Nat /\ Len(order') <= Len(order)
      BY DEF IInv, TypeOK
    <3>. QED
      BY <3>1, <3>2, ExcessKept DEF IInv
  <2>. QED
    BY <2>1, <2>2
<1>. QED
  BY <1>2, StepKeeps DEF IInv, TypeOK, Live

\* Forgetting what nothing refers to keeps every bucket that something does.
LEMMA ForgetFacts ==
  ASSUME TypeOK, Forget
  PROVE  /\ heap' \in [Objects -> Bucket \cup {NoBucket}]
         /\ \A o \in Objects : Referenced(o) => heap'[o] = heap[o]
  BY DEF Forget, Collect, TypeOK

\* A check that ends, with an answer or a KeyError, holds nothing.
LEMMA IdleCall ==
  Idle \in Call /\ [Idle EXCEPT !.raised = TRUE] \in Call
  /\ Idle.at = "idle" /\ [Idle EXCEPT !.raised = TRUE].at = "idle"
  BY DEF Idle, Call, Steps

LEMMA GetIInv ==
  ASSUME IInv, NEW t \in Threads, NEW k \in Keys, Get(t, k) PROVE IInv'
<1> DEFINE c == [Idle EXCEPT !.key = k, !.obj = entry[k],
                             !.at = IF entry[k] = NoObject THEN "test" ELSE "touch"]
<1>1. c \in Call /\ c.key = k /\ c.obj = entry[k]
      /\ c.at = IF entry[k] = NoObject THEN "test" ELSE "touch"
  BY DEF Idle, Call, Steps, IInv, TypeOK
<1>2. call' = [call EXCEPT ![t] = c]
  BY DEF Get
<1>3. entry[k] # NoObject => entry[k] \in Objects /\ heap[entry[k]] \in Bucket
  BY DEF IInv, TypeOK, Live
<1>. HIDE DEF c
<1>. QED
  BY <1>1, <1>2, <1>3, MoveKeeps DEF Get, HasBucket

LEMMA EvictTestIInv ==
  ASSUME IInv, NEW t \in Threads, EvictTest(t) PROVE IInv'
<1> DEFINE c == [call[t] EXCEPT !.at = IF Len(order) >= MaxClients THEN "pop" ELSE "create"]
<1>1. c \in Call /\ c.key = call[t].key
      /\ c.at = IF Len(order) >= MaxClients THEN "pop" ELSE "create"
  BY DEF Call, Steps, IInv, TypeOK
<1>2. call' = [call EXCEPT ![t] = c]
  BY DEF EvictTest, IInv, TypeOK
<1>3. call[t].key \in Keys
  BY DEF EvictTest, At, IInv, Live
<1>4. c.at = "create" => Len(order) < MaxClients
  BY <1>1, MaxClientsAssumption DEF IInv, TypeOK
<1>. HIDE DEF c
<1>. QED
  BY <1>1, <1>2, <1>3, <1>4, MoveKeeps DEF EvictTest, HasBucket

LEMMA EvictPopIInv ==
  ASSUME IInv, NEW t \in Threads, EvictPop(t) PROVE IInv'
<1>1. /\ heap' \in [Objects -> Bucket \cup {NoBucket}]
      /\ \A o \in Objects : Referenced(o) => heap'[o] = heap[o]
  BY ForgetFacts DEF EvictPop, IInv
<1>2. CASE order = <<>>
  <2> DEFINE c == [Idle EXCEPT !.raised = TRUE]
  <2>1. call' = [call EXCEPT ![t] = c] /\ UNCHANGED <<order, entry, now>>
    BY <1>2 DEF EvictPop, Raise
  <2>2. c \in Call /\ c.at = "idle"
    BY IdleCall
  <2>. HIDE DEF c
  <2>3. Pending' \subseteq Pending
    BY <2>1, <2>2 DEF Pending, IInv, TypeOK
  <2>4. Excess'
    BY <2>1, <2>3, ExcessKept DEF IInv, TypeOK
  <2>. QED
    BY <1>1, <2>1, <2>2, <2>4, StepKeeps DEF IInv, TypeOK, HasBucket
<1>3. CASE order # <<>>
  <2> DEFINE c == [call[t] EXCEPT !.at = "test"]
  <2>1. /\ call' = [call EXCEPT ![t] = c] /\ now' = now /\ order' = Tail(order)
        /\ entry' = [entry EXCEPT ![Head(order)] = NoObject]
    BY <1>3 DEF EvictPop, IInv, TypeOK
  <2>2. c \in Call /\ c.at = "test" /\ c.key \in Keys
    BY DEF EvictPop, At, IInv, TypeOK, Live, Call, Steps
  <2>. HIDE DEF c
  <2>3. /\ order' \in Seq(Keys) /\ Distinct(order') /\ Len(order') = Len(order) - 1
        /\ Head(order) \in Keys /\ Members(order') = Members(order) \ {Head(order)}
    BY <1>3, <2>1, TailFacts DEF IInv, TypeOK
  <2>4. /\ entry' \in [Keys -> Objects \cup {NoObject}]
        /\ \A k \in Keys : entry'[k] = IF k = Head(order) THEN NoObject ELSE entry[k]
    BY <2>1, <2>3 DEF IInv, TypeOK
  <2>5. \A k \in Keys : k \in Members(order') <=> entry'[k] # NoObject
    BY <2>3, <2>4 DEF IInv, TypeOK
  <2>6. Pending' \subseteq Pending
    BY <2>1, <2>2 DEF Pending, IInv, TypeOK
  <2>7. Excess'
    <3>1. Len(order) \in Nat /\ Len(order') \in Nat
      BY <2>3 DEF IInv, TypeOK
    <3>. QED
      BY <2>3, <2>6, <3>1, ExcessKept DEF IInv
  <2>. QED
    BY <1>1, <2>1, <2>2, <2>3, <2>4, <2>5, <2>7, StepKeeps DEF IInv, TypeOK, HasBucket
<1>. QED
  BY <1>2, <1>3

LEMMA CreateIInv ==
  ASSUME IInv, NEW t \in Threads, Create(t) PROVE IInv'
<1> DEFINE o == FreeObject
           b == NewBucket(Rate, now)
           c == [call[t] EXCEPT !.at = "store", !.obj = o]
<1>1. o \in Objects /\ b \in Bucket
  BY NewBucketType DEF Create, FreeObject, IInv, TypeOK
<1>2. c \in Call /\ c.at = "store" /\ c.obj = o /\ c.key \in Keys
  BY <1>1 DEF Create, At, IInv, TypeOK, Live, Call, Steps
<1>3. /\ call' = [call EXCEPT ![t] = c] /\ heap' = [heap EXCEPT ![o] = b]
      /\ UNCHANGED <<order, entry, now>>
  BY DEF Create, IInv, TypeOK
<1>. HIDE DEF o, b, c
<1>4. /\ heap' \in [Objects -> Bucket \cup {NoBucket}] /\ heap'[o] \in Bucket
      /\ \A x \in Objects : heap[x] \in Bucket => heap'[x] \in Bucket
  BY <1>1, <1>3 DEF IInv, TypeOK
<1>5. Pending' \subseteq Pending
  <2>1. call[t].at = "create"
    BY DEF Create, At
  <2>. QED
    BY <1>2, <1>3, <2>1 DEF Pending, IInv, TypeOK
<1>6. Excess'
  BY <1>3, <1>5, ExcessKept DEF IInv, TypeOK
<1>. QED
  BY <1>1, <1>2, <1>3, <1>4, <1>6, StepKeeps DEF IInv, TypeOK, HasBucket

LEMMA StoreIInv ==
  ASSUME IInv, NEW t \in Threads, Store(t) PROVE IInv'
<1> DEFINE k == call[t].key
           o == call[t].obj
           c == [call[t] EXCEPT !.at = "clock"]
<1>1. /\ call[t].at = "store" /\ k \in Keys /\ o \in Objects /\ heap[o] \in Bucket
      /\ o # NoObject
  BY RateLimiterThreadsAssumption DEF Store, At, IInv, Live, HasBucket
<1>2. c \in Call /\ c.at = "clock" /\ c.obj = o /\ c.key = k
  BY DEF IInv, TypeOK, Call, Steps
<1>3. /\ call' = [call EXCEPT ![t] = c] /\ entry' = [entry EXCEPT ![k] = o]
      /\ order' = IF k \in Members(order) THEN order ELSE Append(order, k)
      /\ now' = now
  BY DEF Store, IInv, TypeOK
<1>4. /\ heap' \in [Objects -> Bucket \cup {NoBucket}]
      /\ \A x \in Objects : Referenced(x) => heap'[x] = heap[x]
  BY ForgetFacts DEF Store, IInv
<1>. HIDE DEF k, o, c
<1>5. /\ order' \in Seq(Keys) /\ Distinct(order') /\ Len(order') <= Len(order) + 1
      /\ Len(order') \in Nat /\ Members(order') = Members(order) \cup {k}
  <2>1. CASE k \in Members(order)
    BY <1>3, <2>1 DEF IInv, TypeOK
  <2>2. CASE k \notin Members(order)
    BY <1>1, <1>3, <2>2, AppendFacts DEF IInv, TypeOK
  <2>. QED
    BY <2>1, <2>2
<1>6. /\ entry' \in [Keys -> Objects \cup {NoObject}]
      /\ \A j \in Keys : entry'[j] = IF j = k THEN o ELSE entry[j]
  BY <1>1, <1>3 DEF IInv, TypeOK
<1>7. \A j \in Keys : j \in Members(order') <=> entry'[j] # NoObject
  BY <1>1, <1>5, <1>6 DEF IInv, TypeOK
<1>8. call'[t] = c
  BY <1>3 DEF IInv, TypeOK
<1>9. heap'[o] \in Bucket
  <2>1. Referenced(o)
    BY <1>2, <1>8 DEF Referenced
  <2>. QED
    BY <1>1, <1>4, <2>1
<1>10. Excess'
  <2>1. t \in Pending /\ Pending' = Pending \ {t}
    BY <1>1, <1>2, <1>3 DEF Pending, IInv, TypeOK
  <2>2. Cardinality(Pending') = Cardinality(Pending) - 1
    BY <2>1, PendingFinite, FS_RemoveElement
  <2>3. Len(order) \in Nat
    BY DEF IInv, TypeOK
  <2>. QED
    BY <1>5, <2>2, <2>3, PendingFinite, MaxClientsAssumption DEF Excess, IInv
<1>. QED
  BY <1>1, <1>2, <1>3, <1>4, <1>5, <1>6, <1>7, <1>9, <1>10, StepKeeps
     DEF IInv, TypeOK, HasBucket

LEMMA TouchIInv ==
  ASSUME IInv, NEW t \in Threads, Touch(t) PROVE IInv'
<1> DEFINE k == call[t].key
<1>1. /\ call[t].at = "touch" /\ k \in Keys
      /\ call[t].obj \in Objects /\ heap[call[t].obj] \in Bucket
  BY DEF Touch, At, IInv, Live, HasBucket
<1>2. /\ heap' \in [Objects -> Bucket \cup {NoBucket}]
      /\ \A x \in Objects : Referenced(x) => heap'[x] = heap[x]
      /\ UNCHANGED <<entry, now>>
  BY ForgetFacts DEF Touch, IInv
<1>3. CASE entry[k] = NoObject
  <2> DEFINE c == [Idle EXCEPT !.raised = TRUE]
  <2>1. call' = [call EXCEPT ![t] = c] /\ order' = order
    BY <1>3 DEF Touch, Raise
  <2>2. c \in Call /\ c.at = "idle"
    BY IdleCall
  <2>. HIDE DEF c
  <2>3. Pending' \subseteq Pending
    BY <2>1, <2>2 DEF Pending, IInv, TypeOK
  <2>4. Excess'
    BY <2>1, <2>3, ExcessKept DEF IInv, TypeOK
  <2>. QED
    BY <1>2, <2>1, <2>2, <2>4, StepKeeps DEF IInv, TypeOK, HasBucket
<1>4. CASE entry[k] # NoObject
  <2> DEFINE c == [call[t] EXCEPT !.at = "clock"]
  <2>1. call' = [call EXCEPT ![t] = c] /\ order' = MoveToEnd(order, k)
    BY <1>4 DEF Touch, IInv, TypeOK
  <2>2. c \in Call /\ c.at = "clock" /\ c.obj = call[t].obj /\ c.key = k
    BY DEF IInv, TypeOK, Call, Steps
  <2>3. k \in Members(order)
    BY <1>1, <1>4 DEF IInv, TypeOK
  <2>4. /\ order' \in Seq(Keys) /\ Distinct(order') /\ Len(order') = Len(order)
        /\ Members(order') = Members(order)
    <3>1. order \in Seq(Keys) /\ Distinct(order)
      BY DEF IInv, TypeOK
    <3>. HIDE DEF k
    <3>2. Members(order) \cup {k} = Members(order)
      BY <2>3
    <3>. QED
      BY <1>1, <2>1, <2>3, <3>1, <3>2, MoveToEndFacts
  <2>. HIDE DEF c, k
  <2>5. Pending' \subseteq Pending
    BY <2>1, <2>2 DEF Pending, IInv, TypeOK
  <2>6. Excess'
    <3>1. Len(order) \in Nat
      BY DEF IInv, TypeOK
    <3>. QED
      BY <2>4, <2>5, <3>1, ExcessKept DEF IInv
  <2>7. heap'[c.obj] \in Bucket
    <3>1. call'[t] = c
      BY <2>1 DEF IInv, TypeOK
    <3>2. Referenced(c.obj)
      BY <3>1 DEF Referenced
    <3>. QED
      BY <1>1, <1>2, <2>2, <3>2
  <2>. QED
    BY <1>1, <1>2, <2>1, <2>2, <2>4, <2>6, <2>7, StepKeeps DEF IInv, TypeOK, HasBucket
<1>. QED
  BY <1>3, <1>4

\* The bucket of a check in allow().
LEMMA AskedBucket ==
  ASSUME IInv, NEW t \in Threads, call[t].at \in {"clock", "elapsed", "refill", "take"}
  PROVE  /\ call[t] \in Call /\ call[t].key \in Keys /\ call[t].clock \in Nat
         /\ call[t].value \in Nat
         /\ call[t].obj \in Objects /\ heap[call[t].obj] \in Bucket
  BY DEF IInv, TypeOK, Live, At, HasBucket, Call

LEMMA ReadClockIInv ==
  ASSUME IInv, NEW t \in Threads, ReadClock(t) PROVE IInv'
<1> DEFINE c == [call[t] EXCEPT !.at = "elapsed", !.clock = now]
<1>1. call' = [call EXCEPT ![t] = c]
  BY DEF ReadClock, IInv, TypeOK
<1>2. c \in Call /\ c.at = "elapsed" /\ c.obj = call[t].obj /\ c.key = call[t].key
  BY DEF IInv, TypeOK, Call, Steps
<1>. HIDE DEF c
<1>. QED
  BY <1>1, <1>2, AskedBucket, MoveKeeps DEF ReadClock, At, HasBucket

LEMMA ReadElapsedIInv ==
  ASSUME IInv, NEW t \in Threads, ReadElapsed(t) PROVE IInv'
<1> DEFINE e == Elapsed(heap[call[t].obj], call[t].clock)
           c == [call[t] EXCEPT !.at = "refill", !.value = e]
<1>1. call' = [call EXCEPT ![t] = c]
  BY DEF ReadElapsed, IInv, TypeOK
<1>2. e \in Nat
  BY AskedBucket, ElapsedType DEF ReadElapsed, At
<1>. HIDE DEF e
<1>3. c \in Call /\ c.at = "refill" /\ c.obj = call[t].obj /\ c.key = call[t].key
  BY <1>2 DEF IInv, TypeOK, Call, Steps
<1>. HIDE DEF c
<1>. QED
  BY <1>1, <1>3, AskedBucket, MoveKeeps DEF ReadElapsed, At, HasBucket

LEMMA ReadTokensIInv ==
  ASSUME IInv, NEW t \in Threads, ReadTokens(t) PROVE IInv'
<1> DEFINE e == Refilled(heap[call[t].obj], call[t].value)
           c == [call[t] EXCEPT !.at = "take", !.value = e]
<1>1. call' = [call EXCEPT ![t] = c]
  BY DEF ReadTokens, IInv, TypeOK
<1>2. e \in Nat
  BY AskedBucket, RefilledType DEF ReadTokens, At
<1>. HIDE DEF e
<1>3. c \in Call /\ c.at = "take" /\ c.obj = call[t].obj /\ c.key = call[t].key
  BY <1>2 DEF IInv, TypeOK, Call, Steps
<1>. HIDE DEF c
<1>. QED
  BY <1>1, <1>3, AskedBucket, MoveKeeps DEF ReadTokens, At, HasBucket

LEMMA TakeTokenIInv ==
  ASSUME IInv, NEW t \in Threads, TakeToken(t) PROVE IInv'
<1> DEFINE o == call[t].obj
           b == Take(heap[o], call[t].value, call[t].clock)
           h == [heap EXCEPT ![o] = b]
<1>1. o \in Objects /\ b \in Bucket
  BY AskedBucket, TakeType DEF TakeToken, At
<1>2. /\ heap' = Collect(h) /\ call' = [call EXCEPT ![t] = Idle]
      /\ UNCHANGED <<order, entry, now>>
  BY DEF TakeToken
<1>3. /\ h \in [Objects -> Bucket \cup {NoBucket}]
      /\ \A x \in Objects : heap[x] \in Bucket => h[x] \in Bucket
  <2>. HIDE DEF b, o
  <2>. QED
    BY <1>1 DEF IInv, TypeOK
<1>. HIDE DEF h, b, o
<1>5. /\ heap' \in [Objects -> Bucket \cup {NoBucket}]
      /\ \A x \in Objects : Referenced(x) => heap'[x] = h[x]
  BY <1>2, <1>3 DEF Collect, IInv, TypeOK
<1>6. \A x \in Objects : Referenced(x) /\ heap[x] \in Bucket => heap'[x] \in Bucket
  BY <1>3, <1>5
<1>7. Pending' \subseteq Pending
  BY <1>2, IdleCall DEF Pending, IInv, TypeOK
<1>8. Excess'
  BY <1>2, <1>7, ExcessKept DEF IInv, TypeOK
<1>. QED
  BY <1>2, <1>5, <1>6, <1>8, IdleCall, StepKeeps DEF IInv, TypeOK, HasBucket

-----------------------------------------------------------------------------
(* The theorems *)

LEMMA InitIInv == Init => IInv
<1> SUFFICES ASSUME Init PROVE IInv
  OBVIOUS
<1>1. TypeOK
  BY IdleCall DEF Init, TypeOK, Members, Distinct
<1>2. Live
  BY IdleCall DEF Init, Live, At, HasBucket
<1>3. Pending = {}
  BY IdleCall DEF Init, Pending
<1>4. Cardinality(Threads) \in Nat
  BY PendingFinite
<1>5. Excess
  BY <1>3, <1>4, FS_EmptySet, MaxClientsAssumption DEF Init, Excess
<1>. QED
  BY <1>1, <1>2, <1>5 DEF IInv

LEMMA NextIInv == IInv /\ [Next]_vars => IInv'
<1> SUFFICES ASSUME IInv, [Next]_vars PROVE IInv'
  OBVIOUS
<1>1. CASE UNCHANGED vars
  BY <1>1 DEF vars, IInv, TypeOK, Live, Excess, Pending, At
<1>2. CASE Tick
  BY <1>2 DEF Tick, IInv, TypeOK, Live, Excess, Pending, At
<1>3. ASSUME NEW t \in Threads, NEW k \in Keys, Get(t, k) PROVE IInv'
  BY <1>3, GetIInv
<1>4. ASSUME NEW t \in Threads, Check(t) PROVE IInv'
  BY <1>4, EvictTestIInv, EvictPopIInv, CreateIInv, StoreIInv, TouchIInv, ReadClockIInv,
     ReadElapsedIInv, ReadTokensIInv, TakeTokenIInv DEF Check
<1>. QED
  BY <1>1, <1>2, <1>3, <1>4 DEF Next

\* The invariant the theorems follow from: a thread that has found room holds
\* the place of one client until it has stored one.
THEOREM SpecIInv == Spec => []IInv
  BY InitIInv, NextIInv, PTL DEF Spec

\* The table stays a table and every check finds a live bucket in the state it
\* works on, however the checks interleave.
THEOREM TypeCorrect == Spec => []TypeOK
<1>1. IInv => TypeOK
  BY DEF IInv
<1>. QED
  BY <1>1, SpecIInv, PTL

\* With any number of threads the table exceeds max_clients by less than that
\* number.
THEOREM ExcessBounded == Spec => []TableExcessBounded
<1>1. IInv => TableExcessBounded
  BY PendingFinite, MaxClientsAssumption DEF IInv, TypeOK, Excess, TableExcessBounded
<1>. QED
  BY <1>1, SpecIInv, PTL


-----------------------------------------------------------------------------
(* Buckets belong to one client *)

Owned ==
    /\ \A j, k \in Keys : entry[j] = entry[k] /\ entry[j] # NoObject => j = k
    /\ \A t \in Threads, k \in Keys :
          call[t].at \in HasBucket /\ entry[k] = call[t].obj => call[t].key = k
    /\ \A t, u \in Threads :
          call[t].at \in HasBucket /\ call[u].at \in HasBucket /\ call[t].obj = call[u].obj
            => call[t].key = call[u].key

\* A step of t after which t works on the bucket it had, or on none.
LEMMA OwnedKept ==
  ASSUME Owned, IInv, NEW t \in Threads, NEW c, call' = [call EXCEPT ![t] = c],
         c.at \in HasBucket => call[t].at \in HasBucket /\ c.obj = call[t].obj
                               /\ c.key = call[t].key,
         \A k \in Keys : entry'[k] \in {entry[k], NoObject}
  PROVE  Owned'
<1>1. call'[t] = c /\ \A u \in Threads \ {t} : call'[u] = call[u]
  BY DEF IInv, TypeOK
<1>2. \A u \in Threads : call'[u].at \in HasBucket =>
          call[u].at \in HasBucket /\ call'[u].obj = call[u].obj /\ call'[u].key = call[u].key
  BY <1>1
<1>3. \A u \in Threads : call[u].at \in HasBucket => call[u].obj # NoObject
  BY RateLimiterThreadsAssumption DEF IInv, Live
<1>. QED
  BY <1>2, <1>3 DEF Owned

LEMMA OwnedStep == Owned /\ IInv /\ [Next]_vars => Owned'
<1>. SUFFICES ASSUME Owned, IInv, [Next]_vars PROVE Owned'
  OBVIOUS
<1>1. ASSUME NEW t \in Threads, NEW k \in Keys, Get(t, k) PROVE Owned'
  <2> DEFINE c == [Idle EXCEPT !.key = k, !.obj = entry[k],
                               !.at = IF entry[k] = NoObject THEN "test" ELSE "touch"]
  <2>1. c.key = k /\ c.obj = entry[k] /\ c.at = IF entry[k] = NoObject THEN "test" ELSE "touch"
    BY DEF Idle
  <2>2. call' = [call EXCEPT ![t] = c] /\ entry' = entry
    BY <1>1 DEF Get
  <2>. HIDE DEF c
  <2>3. call'[t] = c /\ \A u \in Threads \ {t} : call'[u] = call[u]
    BY <2>2 DEF IInv, TypeOK
  <2>4. call'[t].at \in HasBucket => call'[t].key = k /\ call'[t].obj = entry[k] /\ entry[k] # NoObject
    BY <2>1, <2>3 DEF HasBucket
  <2>. QED
    BY <2>2, <2>3, <2>4 DEF Owned
<1>2. ASSUME NEW t \in Threads, EvictTest(t) PROVE Owned'
  <2>1. PICK c : call' = [call EXCEPT ![t] = c] /\ c.at \in {"pop", "create"} /\ entry' = entry
    <3> DEFINE c == [call[t] EXCEPT !.at = IF Len(order) >= MaxClients THEN "pop" ELSE "create"]
    <3>1. call' = [call EXCEPT ![t] = c] /\ c.at \in {"pop", "create"}
      BY <1>2 DEF EvictTest, IInv, TypeOK, Call
    <3>. QED
      BY <1>2, <3>1 DEF EvictTest
  <2>. QED
    BY <2>1, OwnedKept DEF HasBucket
<1>3. ASSUME NEW t \in Threads, EvictPop(t) PROVE Owned'
  <2>1. PICK c : call' = [call EXCEPT ![t] = c] /\ c.at \in {"idle", "test"}
    <3>1. CASE order = <<>>
      BY <1>3, <3>1, IdleCall DEF EvictPop, Raise
    <3>2. CASE order # <<>>
      <4> DEFINE c == [call[t] EXCEPT !.at = "test"]
      <4>1. call' = [call EXCEPT ![t] = c] /\ c.at = "test"
        BY <1>3, <3>2 DEF EvictPop, IInv, TypeOK, Call
      <4>. QED
        BY <4>1
    <3>. QED
      BY <3>1, <3>2
  <2>2. \A k \in Keys : entry'[k] \in {entry[k], NoObject}
    BY <1>3 DEF EvictPop, IInv, TypeOK
  <2>. QED
    BY <2>1, <2>2, OwnedKept DEF HasBucket
<1>4. ASSUME NEW t \in Threads, Create(t) PROVE Owned'
  <2>1. PICK o : o = FreeObject
    OBVIOUS
  <2>2. o \in Objects /\ heap[o] = NoBucket
    BY <1>4, <2>1 DEF Create, FreeObject
  <2> DEFINE c == [call[t] EXCEPT !.at = "store", !.obj = o]
  <2>3. call' = [call EXCEPT ![t] = c] /\ entry' = entry
    BY <1>4, <2>1 DEF Create, IInv, TypeOK
  <2>4. c.obj = o
    BY DEF IInv, TypeOK, Call
  <2>. HIDE DEF c
  <2>5. call'[t] = c /\ \A u \in Threads \ {t} : call'[u] = call[u]
    BY <2>3 DEF IInv, TypeOK
  <2>6. \A k \in Keys : entry[k] # o
    BY <2>2, RateLimiterThreadsAssumption DEF IInv, Live
  <2>7. \A u \in Threads : call[u].at \in HasBucket => call[u].obj # o
    BY <2>2, RateLimiterThreadsAssumption DEF IInv, Live
  <2>. QED
    BY <2>3, <2>4, <2>5, <2>6, <2>7 DEF Owned
<1>5. ASSUME NEW t \in Threads, Store(t) PROVE Owned'
  <2>1. call[t].at \in HasBucket /\ call[t].key \in Keys
    BY <1>5 DEF Store, At, HasBucket, IInv, Live
  <2>2. PICK o, k : o = call[t].obj /\ k = call[t].key
    OBVIOUS
  <2> DEFINE c == [call[t] EXCEPT !.at = "clock"]
  <2>3. call' = [call EXCEPT ![t] = c] /\ entry' = [entry EXCEPT ![k] = o]
    BY <1>5, <2>2 DEF Store, IInv, TypeOK
  <2>4. c.obj = o /\ c.key = k
    BY <2>2 DEF IInv, TypeOK, Call
  <2>. HIDE DEF c
  <2>5. call'[t] = c /\ \A u \in Threads \ {t} : call'[u] = call[u]
    BY <2>3 DEF IInv, TypeOK
  <2>6. \A j \in Keys : entry'[j] = IF j = k THEN o ELSE entry[j]
    BY <2>1, <2>2, <2>3 DEF IInv, TypeOK
  <2>7. \A u \in Threads : call'[u].at \in HasBucket =>
            call[u].at \in HasBucket /\ call'[u].obj = call[u].obj /\ call'[u].key = call[u].key
    BY <2>1, <2>2, <2>4, <2>5
  <2>. QED
    BY <2>1, <2>2, <2>6, <2>7 DEF Owned
<1>6. ASSUME NEW t \in Threads, Touch(t) PROVE Owned'
  <2>1. call[t].at \in HasBucket /\ entry' = entry
    BY <1>6 DEF Touch, At, HasBucket
  <2>2. CASE entry[call[t].key] = NoObject
    BY <1>6, <2>1, <2>2, IdleCall, OwnedKept DEF Touch, Raise, HasBucket
  <2>3. CASE entry[call[t].key] # NoObject
    <3> DEFINE c == [call[t] EXCEPT !.at = "clock"]
    <3>1. call' = [call EXCEPT ![t] = c] /\ c.obj = call[t].obj /\ c.key = call[t].key
      BY <1>6, <2>3 DEF Touch, IInv, TypeOK, Call
    <3>. HIDE DEF c
    <3>. QED
      BY <2>1, <3>1, OwnedKept
  <2>. QED
    BY <2>2, <2>3
<1>7. ASSUME NEW t \in Threads, ReadClock(t) \/ ReadElapsed(t) \/ ReadTokens(t) PROVE Owned'
  <2>1. call[t].at \in HasBucket /\ entry' = entry
    BY <1>7 DEF ReadClock, ReadElapsed, ReadTokens, At, HasBucket
  <2>2. PICK c : call' = [call EXCEPT ![t] = c] /\ c.obj = call[t].obj /\ c.key = call[t].key
    <3>1. call \in [Threads -> Call]
      BY DEF IInv, TypeOK
    <3>2. CASE ReadClock(t)
      <4> DEFINE c == [call[t] EXCEPT !.at = "elapsed", !.clock = now]
      <4>1. call' = [call EXCEPT ![t] = c]
        BY <3>1, <3>2 DEF ReadClock
      <4>2. c.obj = call[t].obj /\ c.key = call[t].key
        BY <3>1 DEF Call
      <4>. HIDE DEF c
      <4>. QED
        BY <4>1, <4>2
    <3>3. CASE ReadElapsed(t)
      <4> DEFINE c == [call[t] EXCEPT !.at = "refill", !.value = Elapsed(heap[call[t].obj], call[t].clock)]
      <4>1. call' = [call EXCEPT ![t] = c]
        BY <3>1, <3>3 DEF ReadElapsed
      <4>2. c.obj = call[t].obj /\ c.key = call[t].key
        BY <3>1 DEF Call
      <4>. HIDE DEF c
      <4>. QED
        BY <4>1, <4>2
    <3>4. CASE ReadTokens(t)
      <4> DEFINE c == [call[t] EXCEPT !.at = "take", !.value = Refilled(heap[call[t].obj], call[t].value)]
      <4>1. call' = [call EXCEPT ![t] = c]
        BY <3>1, <3>4 DEF ReadTokens
      <4>2. c.obj = call[t].obj /\ c.key = call[t].key
        BY <3>1 DEF Call
      <4>. HIDE DEF c
      <4>. QED
        BY <4>1, <4>2
    <3>. QED
      BY <1>7, <3>2, <3>3, <3>4
  <2>. QED
    BY <2>1, <2>2, OwnedKept
<1>8. ASSUME NEW t \in Threads, TakeToken(t) PROVE Owned'
  BY <1>8, IdleCall, OwnedKept DEF TakeToken, HasBucket
<1>9. CASE Tick \/ UNCHANGED vars
  BY <1>9 DEF Tick, vars, Owned
<1>. QED
  BY <1>1, <1>2, <1>3, <1>4, <1>5, <1>6, <1>7, <1>8, <1>9 DEF Next, Check

-----------------------------------------------------------------------------
(* A check that nothing overlaps *)

BucketOf(k) == IF entry[k] = NoObject THEN NoBucket ELSE heap[entry[k]]

\* v is a table as a check may find it.
IsView(v) ==
    /\ v.order \in Seq(Keys) /\ Distinct(v.order)
    /\ \A k \in Keys : /\ v.buckets[k] \in Bucket \cup {NoBucket}
                       /\ k \in Members(v.order) <=> v.buckets[k] # NoBucket

\* s is what is left of the full table while the oldest keys are evicted.
EvictedFrom(s, full) ==
    /\ Len(s) <= Len(full)
    /\ Len(full) < MaxClients => Len(s) = Len(full)
    /\ Len(full) >= MaxClients => Len(s) >= MaxClients - 1
    /\ \A i \in 1..Len(s) : s[i] = full[i + (Len(full) - Len(s))]

Kept(v, k) == IF k \in Members(v.order) THEN v.order ELSE EvictOldest(v.order)

\* The check of t began with the table v and makes room for its key.
Evicting(v, t) ==
    /\ call[t].key \notin Members(v.order)
    /\ EvictedFrom(order, v.order)
    /\ \A j \in Keys : BucketOf(j) = IF j \in Members(order) THEN v.buckets[j] ELSE NoBucket
    /\ At(t, "pop") => Len(order) >= MaxClients
    /\ At(t, "create") \/ At(t, "store") => Len(order) < MaxClients
    /\ At(t, "store") => \E n \in Nat : heap[call[t].obj] = NewBucket(Rate, n)

\* It has found its key.
Touching(v, t) ==
    /\ call[t].key \in Members(v.order)
    /\ order = v.order /\ entry[call[t].key] = call[t].obj
    /\ \A j \in Keys : BucketOf(j) = v.buckets[j]

\* Its key is the youngest and it asks for a token.
Asking(v, t) ==
    /\ order = MoveToEnd(Kept(v, call[t].key), call[t].key)
    /\ entry[call[t].key] = call[t].obj
    /\ \A j \in Keys \ {call[t].key} :
          BucketOf(j) = IF j \in Members(Kept(v, call[t].key)) THEN v.buckets[j] ELSE NoBucket
    /\ IF v.buckets[call[t].key] = NoBucket
       THEN \E n \in Nat : heap[call[t].obj] = NewBucket(Rate, n)
       ELSE heap[call[t].obj] = v.buckets[call[t].key]
    /\ At(t, "refill") => call[t].value = Elapsed(heap[call[t].obj], call[t].clock)
    /\ At(t, "take") => call[t].value = Refilled(heap[call[t].obj],
                                          Elapsed(heap[call[t].obj], call[t].clock))

Lone(v, t) ==
    /\ \A u \in Threads \ {t} : At(u, "idle")
    /\ ~At(t, "idle")
    /\ IsView(v)
    /\ call[t].at \in {"test", "pop", "create", "store"} => Evicting(v, t)
    /\ At(t, "touch") => Touching(v, t)
    /\ call[t].at \in {"clock", "elapsed", "refill", "take"} => Asking(v, t)

LoneInv == \A t \in Threads : before[t] # NoView => Lone(before[t], t)

\* An eviction that has made room has evicted as CheckedOnce does.
LEMMA EvictedIsKept ==
  ASSUME NEW K, NEW s \in Seq(K), NEW full \in Seq(K), EvictedFrom(s, full), Len(s) < MaxClients
  PROVE  s = EvictOldest(full)
<1>1. Len(s) \in Nat /\ Len(full) \in Nat /\ MaxClients \in Nat \ {0}
  BY MaxClientsAssumption
<1>2. CASE Len(full) < MaxClients
  <2>1. Len(s) = Len(full) /\ \A i \in 1..Len(s) : s[i] = full[i]
    BY <1>1, <1>2 DEF EvictedFrom
  <2>. QED
    BY <1>2, <2>1 DEF EvictOldest
<1>3. CASE ~(Len(full) < MaxClients)
  <2> DEFINE m == Len(full) - MaxClients + 2
  <2>1. Len(s) = MaxClients - 1 /\ Len(full) - m + 1 = Len(s)
    BY <1>1, <1>3 DEF EvictedFrom
  <2>2. m \in 1..(Len(full) + 1) /\ m - 1 = Len(full) - Len(s)
    BY <1>1, <1>3, <2>1
  <2>3. EvictOldest(full) = SubSeq(full, m, Len(full))
    BY <1>3 DEF EvictOldest
  <2>. HIDE DEF m
  <2>4. /\ SubSeq(full, m, Len(full)) \in Seq(K)
        /\ Len(SubSeq(full, m, Len(full))) = Len(s)
        /\ \A i \in 1..Len(s) : SubSeq(full, m, Len(full))[i] = full[i + (m - 1)]
    BY <1>1, <2>1, <2>2
  <2>5. PICK r : r = SubSeq(full, m, Len(full))
    OBVIOUS
  <2>6. \A i \in 1..Len(s) : s[i] = r[i]
    BY <1>1, <2>2, <2>4, <2>5 DEF EvictedFrom
  <2>7. r \in Seq(K) /\ Len(r) = Len(s)
    BY <2>4, <2>5
  <2>8. r = s
    BY <2>6, <2>7
  <2>. QED
    BY <2>3, <2>5, <2>8
<1>. QED
  BY <1>2, <1>3

\* What is left after evictions was there before them.
LEMMA EvictedMembers ==
  ASSUME NEW K, NEW s \in Seq(K), NEW full \in Seq(K), EvictedFrom(s, full)
  PROVE  Members(s) \subseteq Members(full)
<1>1. ASSUME NEW i \in 1..Len(s) PROVE s[i] \in Members(full)
  <2>1. i + (Len(full) - Len(s)) \in 1..Len(full)
    BY DEF EvictedFrom
  <2>2. s[i] = full[i + (Len(full) - Len(s))]
    BY DEF EvictedFrom
  <2>. QED
    BY <2>1, <2>2 DEF Members
<1>. QED
  BY <1>1 DEF Members

\* Evicting one more.
LEMMA EvictedTail ==
  ASSUME NEW K, NEW s \in Seq(K), NEW full \in Seq(K), EvictedFrom(s, full),
         Len(s) >= MaxClients
  PROVE  s # <<>> /\ EvictedFrom(Tail(s), full)
<1>1. Len(s) \in Nat /\ Len(full) \in Nat /\ MaxClients \in Nat \ {0} /\ Len(s) >= 1
  BY MaxClientsAssumption
<1>2. /\ Len(Tail(s)) = Len(s) - 1
      /\ \A i \in 1..(Len(s) - 1) : Tail(s)[i] = s[i + 1]
  BY <1>1
<1>3. ASSUME NEW i \in 1..Len(Tail(s))
      PROVE  Tail(s)[i] = full[i + (Len(full) - Len(Tail(s)))]
  <2>1. i + 1 \in 1..Len(s) /\ Tail(s)[i] = s[i + 1]
    BY <1>1, <1>2
  <2>2. s[i + 1] = full[(i + 1) + (Len(full) - Len(s))]
    BY <2>1 DEF EvictedFrom
  <2>3. (i + 1) + (Len(full) - Len(s)) = i + (Len(full) - Len(Tail(s)))
    <3>1. PICK a, b, d : a = Len(s) /\ b = Len(full) /\ d = Len(Tail(s))
      OBVIOUS
    <3>2. i \in Int /\ a \in Int /\ b \in Int /\ d = a - 1
      BY <1>1, <1>2, <3>1
    <3>3. (i + 1) + (b - a) = i + (b - d)
      BY <3>2
    <3>. QED
      BY <3>1, <3>3
  <2>. QED
    BY <2>1, <2>2, <2>3
<1>4. Len(Tail(s)) <= Len(full) /\ Len(full) >= MaxClients
      /\ Len(Tail(s)) >= MaxClients - 1
  BY <1>1, <1>2 DEF EvictedFrom
<1>5. s # <<>>
  BY <1>1
<1>6. Len(full) < MaxClients => Len(Tail(s)) = Len(full)
  BY <1>1, <1>4
<1>7. EvictedFrom(Tail(s), full)
  BY <1>3, <1>4, <1>6, Zenon DEF EvictedFrom
<1>. QED
  BY <1>5, <1>7

\* A check that begins while the others are idle.
LEMMA GetLone ==
  ASSUME IInv, NEW t \in Threads, NEW k \in Keys, Get(t, k),
         \A u \in Threads \ {t} : At(u, "idle"), NEW v, v = View
  PROVE  Lone(v, t)'
<1> DEFINE c == [Idle EXCEPT !.key = k, !.obj = entry[k],
                             !.at = IF entry[k] = NoObject THEN "test" ELSE "touch"]
<1>1. c.key = k /\ c.obj = entry[k] /\ c.at = IF entry[k] = NoObject THEN "test" ELSE "touch"
  BY DEF Idle
<1>2. call' = [call EXCEPT ![t] = c] /\ UNCHANGED <<order, entry, heap>>
  BY DEF Get
<1>. HIDE DEF c
<1>3. call'[t] = c /\ \A u \in Threads \ {t} : call'[u] = call[u]
  BY <1>2 DEF IInv, TypeOK
<1>4. /\ v.order = order /\ \A j \in Keys : v.buckets[j] = BucketOf(j)
  BY DEF View, BucketOf
<1>5. \A j \in Keys : /\ BucketOf(j) \in Bucket \cup {NoBucket}
                      /\ BucketOf(j) # NoBucket <=> j \in Members(order)
  BY RateLimiterThreadsAssumption DEF BucketOf, IInv, TypeOK, Live
<1>6. IsView(v)
  BY <1>4, <1>5 DEF IsView, IInv, TypeOK
<1>7. \A j \in Keys : BucketOf(j)' = BucketOf(j)
  BY <1>2 DEF BucketOf
<1>8. CASE entry[k] = NoObject
  <2>1. k \notin Members(order)
    BY <1>8 DEF IInv, TypeOK
  <2>2. EvictedFrom(order, order)
    <3>1. order \in Seq(Keys) /\ MaxClients \in Nat
      BY MaxClientsAssumption DEF IInv, TypeOK
    <3>. QED
      BY <3>1 DEF EvictedFrom
  <2>3. call'[t].at = "test" /\ call'[t].key = k
    BY <1>1, <1>3, <1>8
  <2>4. Evicting(v, t)'
    BY <1>2, <1>4, <1>5, <1>7, <2>1, <2>2, <2>3 DEF Evicting, At
  <2>. QED
    BY <1>3, <1>6, <2>3, <2>4 DEF Lone, At
<1>9. CASE entry[k] # NoObject
  <2>1. k \in Members(order)
    BY <1>9 DEF IInv, TypeOK
  <2>2. call'[t].at = "touch" /\ call'[t].key = k /\ call'[t].obj = entry[k]
    BY <1>1, <1>3, <1>9
  <2>3. Touching(v, t)'
    BY <1>2, <1>4, <1>7, <2>1, <2>2 DEF Touching
  <2>. QED
    BY <1>3, <1>6, <2>2, <2>3 DEF Lone, At
<1>. QED
  BY <1>8, <1>9

\* The loop's test, by a check alone in the limiter.
LEMMA EvictTestLone ==
  ASSUME IInv, NEW t \in Threads, NEW v, Lone(v, t), EvictTest(t)
  PROVE  Lone(v, t)'
<1> DEFINE c == [call[t] EXCEPT !.at = IF Len(order) >= MaxClients THEN "pop" ELSE "create"]
<1>1. call' = [call EXCEPT ![t] = c] /\ UNCHANGED <<order, entry, heap>>
  BY DEF EvictTest, IInv, TypeOK
<1>2. c.key = call[t].key /\ c.at = IF Len(order) >= MaxClients THEN "pop" ELSE "create"
  BY DEF IInv, TypeOK, Call
<1>. HIDE DEF c
<1>3. call'[t] = c /\ \A u \in Threads \ {t} : call'[u] = call[u]
  BY <1>1 DEF IInv, TypeOK
<1>4. Evicting(v, t)
  BY DEF EvictTest, At, Lone
<1>5. \A j \in Keys : BucketOf(j)' = BucketOf(j)
  BY <1>1 DEF BucketOf
<1>6. Len(order) \in Nat /\ MaxClients \in Nat
  BY MaxClientsAssumption DEF IInv, TypeOK
<1>7. call'[t].key = call[t].key /\ call'[t].at = IF Len(order) >= MaxClients THEN "pop" ELSE "create"
  BY <1>2, <1>3
<1>8. Evicting(v, t)'
  BY <1>1, <1>4, <1>5, <1>6, <1>7 DEF Evicting, At
<1>. QED
  BY <1>3, <1>7, <1>8 DEF Lone, At

\* One eviction, by a check alone in the limiter.
LEMMA EvictPopLone ==
  ASSUME IInv, NEW t \in Threads, NEW v, Lone(v, t), EvictPop(t)
  PROVE  Lone(v, t)'
<1>1. /\ Evicting(v, t) /\ Len(order) >= MaxClients /\ order \in Seq(Keys)
      /\ v.order \in Seq(Keys) /\ Distinct(order)
  BY DEF EvictPop, At, Lone, Evicting, IsView, IInv, TypeOK
<1>2. order # <<>> /\ EvictedFrom(Tail(order), v.order)
  BY <1>1, EvictedTail DEF Evicting
<1> DEFINE c == [call[t] EXCEPT !.at = "test"]
<1>3. /\ call' = [call EXCEPT ![t] = c] /\ order' = Tail(order)
      /\ entry' = [entry EXCEPT ![Head(order)] = NoObject]
  BY <1>2 DEF EvictPop, IInv, TypeOK
<1>4. c.key = call[t].key /\ c.at = "test"
  BY DEF IInv, TypeOK, Call
<1>. HIDE DEF c
<1>5. call'[t] = c /\ \A u \in Threads \ {t} : call'[u] = call[u]
  BY <1>3 DEF IInv, TypeOK
<1>6. Members(order') = Members(order) \ {Head(order)} /\ Head(order) \in Keys
  BY <1>1, <1>2, <1>3, TailFacts
<1>7. \A j \in Keys : entry'[j] = IF j = Head(order) THEN NoObject ELSE entry[j]
  BY <1>3, <1>6 DEF IInv, TypeOK
<1>8. \A o \in Objects : Referenced(o) => heap'[o] = heap[o]
  BY ForgetFacts DEF EvictPop, IInv
<1>9. ASSUME NEW j \in Keys
      PROVE  BucketOf(j)' = IF j \in Members(order') THEN v.buckets[j] ELSE NoBucket
  <2>1. BucketOf(j) = IF j \in Members(order) THEN v.buckets[j] ELSE NoBucket
    BY <1>1 DEF Evicting
  <2>2. CASE entry'[j] = NoObject
    <3>1. j = Head(order) \/ j \notin Members(order)
      BY <1>7, <2>2 DEF IInv, TypeOK
    <3>. QED
      BY <1>6, <2>2, <3>1 DEF BucketOf
  <2>3. CASE entry'[j] # NoObject
    <3>1. entry'[j] = entry[j] /\ entry[j] \in Objects /\ j \in Members(order')
      BY <1>6, <1>7, <2>3 DEF IInv, TypeOK
    <3>2. heap'[entry'[j]] = heap[entry[j]]
      BY <1>8, <3>1 DEF Referenced
    <3>. QED
      BY <1>6, <2>1, <2>3, <3>1, <3>2 DEF BucketOf
  <2>. QED
    BY <2>2, <2>3
<1>10. call'[t].at = "test" /\ call'[t].key = call[t].key
  BY <1>4, <1>5
<1>11. Evicting(v, t)'
  BY <1>1, <1>2, <1>3, <1>9, <1>10 DEF Evicting, At
<1>. QED
  BY <1>5, <1>10, <1>11 DEF Lone, At

\* A new bucket, by a check alone in the limiter.
LEMMA CreateLone ==
  ASSUME IInv, NEW t \in Threads, NEW v, Lone(v, t), Create(t)
  PROVE  Lone(v, t)'
<1>1. PICK o : o = FreeObject
  OBVIOUS
<1>2. o \in Objects /\ heap[o] = NoBucket
  BY <1>1 DEF Create, FreeObject
<1> DEFINE c == [call[t] EXCEPT !.at = "store", !.obj = o]
<1>3. /\ call' = [call EXCEPT ![t] = c] /\ UNCHANGED <<order, entry>>
      /\ heap' = [heap EXCEPT ![o] = NewBucket(Rate, now)]
  BY <1>1 DEF Create, IInv, TypeOK
<1>4. c.key = call[t].key /\ c.at = "store" /\ c.obj = o
  BY DEF IInv, TypeOK, Call
<1>. HIDE DEF c
<1>5. call'[t] = c /\ \A u \in Threads \ {t} : call'[u] = call[u]
  BY <1>3 DEF IInv, TypeOK
<1>6. Evicting(v, t) /\ Len(order) < MaxClients
  BY DEF Create, At, Lone, Evicting
<1>7. \A x \in Objects : heap'[x] = IF x = o THEN NewBucket(Rate, now) ELSE heap[x]
  BY <1>2, <1>3 DEF IInv, TypeOK
<1>8. \A j \in Keys : BucketOf(j)' = BucketOf(j)
  BY <1>2, <1>3, <1>7, RateLimiterThreadsAssumption DEF BucketOf, IInv, TypeOK, Live
<1>9. call'[t].at = "store" /\ call'[t].key = call[t].key /\ call'[t].obj = o
  BY <1>4, <1>5
<1>10. \E n \in Nat : heap'[o] = NewBucket(Rate, n)
  BY <1>2, <1>7 DEF IInv, TypeOK
<1>11. Evicting(v, t)'
  BY <1>3, <1>6, <1>8, <1>9, <1>10 DEF Evicting, At
<1>. QED
  BY <1>5, <1>9, <1>11 DEF Lone, At

\* Its entry in the table, by a check alone in the limiter.
LEMMA StoreLone ==
  ASSUME IInv, NEW t \in Threads, NEW v, Lone(v, t), Store(t)
  PROVE  Lone(v, t)'
<1>1. PICK o, k : o = call[t].obj /\ k = call[t].key
  OBVIOUS
<1>2. o \in Objects /\ k \in Keys /\ o # NoObject
  BY <1>1, RateLimiterThreadsAssumption DEF Store, At, IInv, Live, HasBucket
<1>3. /\ Evicting(v, t) /\ Len(order) < MaxClients /\ order \in Seq(Keys) /\ Distinct(order)
      /\ v.order \in Seq(Keys) /\ k \notin Members(v.order)
      /\ \E n \in Nat : heap[o] = NewBucket(Rate, n)
  BY <1>1 DEF Store, At, Lone, Evicting, IsView, IInv, TypeOK
<1>4. k \notin Members(order) /\ order = EvictOldest(v.order)
  BY <1>3, EvictedIsKept, EvictedMembers DEF Evicting
<1> DEFINE c == [call[t] EXCEPT !.at = "clock"]
<1>5. /\ call' = [call EXCEPT ![t] = c] /\ entry' = [entry EXCEPT ![k] = o]
      /\ order' = Append(order, k)
  BY <1>1, <1>4 DEF Store, IInv, TypeOK
<1>6. c.key = k /\ c.at = "clock" /\ c.obj = o
  BY <1>1 DEF IInv, TypeOK, Call
<1>. HIDE DEF c
<1>7. /\ call'[t].at = "clock" /\ call'[t].key = k /\ call'[t].obj = o
      /\ \A u \in Threads \ {t} : call'[u] = call[u]
  BY <1>5, <1>6 DEF IInv, TypeOK
<1>8. order' = MoveToEnd(Kept(v, k), k)
  BY <1>3, <1>4, <1>5, WithoutAbsent DEF MoveToEnd, Kept
<1>9. \A x \in Objects : Referenced(x) => heap'[x] = heap[x]
  BY ForgetFacts DEF Store, IInv
<1>10. \A j \in Keys : entry'[j] = IF j = k THEN o ELSE entry[j]
  BY <1>2, <1>5 DEF IInv, TypeOK
<1>11. heap'[o] = heap[o]
  BY <1>2, <1>9, <1>10 DEF Referenced
<1>12. ASSUME NEW j \in Keys \ {k}
       PROVE  BucketOf(j)' = IF j \in Members(Kept(v, k)) THEN v.buckets[j] ELSE NoBucket
  <2>1. entry'[j] = entry[j]
    BY <1>10
  <2>2. entry[j] # NoObject => heap'[entry[j]] = heap[entry[j]]
    BY <1>9, <2>1 DEF Referenced, IInv, TypeOK
  <2>3. BucketOf(j)' = BucketOf(j)
    BY <2>1, <2>2 DEF BucketOf
  <2>4. Kept(v, k) = order
    BY <1>3, <1>4 DEF Kept
  <2>. QED
    BY <1>3, <2>3, <2>4 DEF Evicting
<1>13. v.buckets[k] = NoBucket
  BY <1>2, <1>3 DEF Lone, IsView
<1>14. Asking(v, t)'
  <2>1. \E n \in Nat : heap'[o] = NewBucket(Rate, n)
    BY <1>3, <1>11
  <2>2. entry'[k] = o
    BY <1>2, <1>10
  <2>3. \A j \in Keys \ {k} :
           BucketOf(j)' = IF j \in Members(Kept(v, k)) THEN v.buckets[j] ELSE NoBucket
    BY <1>12
  <2>. QED
    BY <1>7, <1>8, <1>13, <2>1, <2>2, <2>3 DEF Asking, At
<1>. QED
  BY <1>7, <1>14 DEF Lone, At

\* move_to_end, by a check alone in the limiter.
LEMMA TouchLone ==
  ASSUME IInv, NEW t \in Threads, NEW v, Lone(v, t), Touch(t)
  PROVE  Lone(v, t)'
<1>1. PICK o, k : o = call[t].obj /\ k = call[t].key
  OBVIOUS
<1>2. o \in Objects /\ k \in Keys /\ o # NoObject
  BY <1>1, RateLimiterThreadsAssumption DEF Touch, At, IInv, Live, HasBucket
<1>3. /\ Touching(v, t) /\ k \in Members(v.order) /\ order = v.order /\ entry[k] = o
  BY <1>1 DEF Touch, At, Lone, Touching
<1> DEFINE c == [call[t] EXCEPT !.at = "clock"]
<1>4. /\ call' = [call EXCEPT ![t] = c] /\ entry' = entry /\ order' = MoveToEnd(order, k)
  BY <1>1, <1>2, <1>3 DEF Touch, IInv, TypeOK
<1>5. c.key = k /\ c.at = "clock" /\ c.obj = o
  BY <1>1 DEF IInv, TypeOK, Call
<1>. HIDE DEF c
<1>6. /\ call'[t].at = "clock" /\ call'[t].key = k /\ call'[t].obj = o
      /\ \A u \in Threads \ {t} : call'[u] = call[u]
  BY <1>4, <1>5 DEF IInv, TypeOK
<1>7. \A x \in Objects : Referenced(x) => heap'[x] = heap[x]
  BY ForgetFacts DEF Touch, IInv
<1>8. ASSUME NEW j \in Keys PROVE BucketOf(j)' = BucketOf(j)
  <2>1. entry[j] # NoObject => heap'[entry[j]] = heap[entry[j]]
    BY <1>4, <1>7 DEF Referenced, IInv, TypeOK
  <2>. QED
    BY <1>4, <2>1 DEF BucketOf
<1>9. Kept(v, k) = v.order
  BY <1>3 DEF Kept
<1>10. /\ heap'[o] = v.buckets[k] /\ v.buckets[k] # NoBucket
       /\ \A j \in Keys : j \in Members(v.order) <=> v.buckets[j] # NoBucket
  <2>1. heap'[o] = BucketOf(k)'
    BY <1>2, <1>3, <1>4 DEF BucketOf
  <2>. QED
    BY <1>1, <1>2, <1>3, <1>8, <2>1 DEF Touching, Lone, IsView
<1>11. \A j \in Keys \ {k} :
          BucketOf(j)' = IF j \in Members(Kept(v, k)) THEN v.buckets[j] ELSE NoBucket
  BY <1>3, <1>8, <1>9, <1>10 DEF Touching
<1>12. Asking(v, t)'
  BY <1>3, <1>4, <1>6, <1>9, <1>10, <1>11 DEF Asking, At
<1>. QED
  BY <1>6, <1>12 DEF Lone, At

\* The steps of allow() that only read.
LEMMA ReadLone ==
  ASSUME IInv, NEW t \in Threads, NEW v, Lone(v, t),
         ReadClock(t) \/ ReadElapsed(t) \/ ReadTokens(t)
  PROVE  Lone(v, t)'
<1>1. call[t] \in Call /\ call \in [Threads -> Call] /\ UNCHANGED <<order, entry, heap>>
  BY DEF ReadClock, ReadElapsed, ReadTokens, IInv, TypeOK
<1>2. PICK c : /\ call' = [call EXCEPT ![t] = c] /\ c.obj = call[t].obj /\ c.key = call[t].key
               /\ c.at \in {"elapsed", "refill", "take"}
               /\ c.at = "refill" => c.value = Elapsed(heap[c.obj], c.clock)
               /\ c.at = "take" => c.value = Refilled(heap[c.obj], Elapsed(heap[c.obj], c.clock))
  <2>1. CASE ReadClock(t)
    <3> DEFINE c == [call[t] EXCEPT !.at = "elapsed", !.clock = now]
    <3>1. call' = [call EXCEPT ![t] = c]
      BY <1>1, <2>1 DEF ReadClock
    <3>2. c.obj = call[t].obj /\ c.key = call[t].key /\ c.at = "elapsed"
      BY <1>1 DEF Call
    <3>. HIDE DEF c
    <3>. QED
      BY <3>1, <3>2
  <2>2. CASE ReadElapsed(t)
    <3> DEFINE e == Elapsed(heap[call[t].obj], call[t].clock)
               c == [call[t] EXCEPT !.at = "refill", !.value = e]
    <3>1. call' = [call EXCEPT ![t] = c]
      BY <1>1, <2>2 DEF ReadElapsed
    <3>2. /\ c.obj = call[t].obj /\ c.key = call[t].key /\ c.at = "refill"
          /\ c.clock = call[t].clock /\ c.value = e
      BY <1>1 DEF Call
    <3>. HIDE DEF c
    <3>. QED
      BY <3>1, <3>2
  <2>3. CASE ReadTokens(t)
    <3> DEFINE e == Refilled(heap[call[t].obj], call[t].value)
               c == [call[t] EXCEPT !.at = "take", !.value = e]
    <3>1. call' = [call EXCEPT ![t] = c]
      BY <1>1, <2>3 DEF ReadTokens
    <3>2. /\ c.obj = call[t].obj /\ c.key = call[t].key /\ c.at = "take"
          /\ c.clock = call[t].clock /\ c.value = e
      BY <1>1 DEF Call
    <3>. HIDE DEF c
    <3>3. call[t].value = Elapsed(heap[call[t].obj], call[t].clock)
      BY <2>3 DEF ReadTokens, At, Lone, Asking
    <3>. QED
      BY <3>1, <3>2, <3>3
  <2>. QED
    BY <2>1, <2>2, <2>3
<1>3. call'[t] = c /\ \A u \in Threads \ {t} : call'[u] = call[u]
  BY <1>1, <1>2
<1>4. Asking(v, t)
  BY DEF ReadClock, ReadElapsed, ReadTokens, At, Lone
<1>5. \A j \in Keys : BucketOf(j)' = BucketOf(j)
  BY <1>1 DEF BucketOf
<1>6. Asking(v, t)'
  BY <1>1, <1>2, <1>3, <1>4, <1>5 DEF Asking, At
<1>. QED
  BY <1>2, <1>3, <1>6 DEF Lone, At

\* A bucket created a moment ago is as full as one created now.
LEMMA NewBucketTake ==
  ASSUME NEW n \in Nat, NEW m \in Nat, NEW b, b = NewBucket(Rate, n), NEW d, d = NewBucket(Rate, m)
  PROVE  Take(b, Refilled(b, Elapsed(b, m)), m) = Take(d, Refilled(d, Elapsed(d, m)), m)
<1>1. b \in Bucket /\ d \in Bucket
  BY NewBucketType
<1>2. /\ b.capacity = b.tokens /\ d.capacity = b.capacity /\ d.tokens = b.tokens
      /\ d.refill = b.refill
  BY DEF NewBucket
<1>3. ASSUME NEW x \in Bucket, x.capacity = x.tokens PROVE Refilled(x, Elapsed(x, m)) = x.tokens
  <2>1. PICK e \in Nat : e = Elapsed(x, m)
    BY ElapsedType
  <2>2. x.tokens \in Nat /\ x.refill \in Nat
    BY DEF Bucket
  <2>3. e * x.refill \in Nat
    BY <2>2
  <2>. QED
    BY <1>3, <2>1, <2>2, <2>3 DEF Refilled, AtMost
<1>4. Refilled(b, Elapsed(b, m)) = b.tokens /\ Refilled(d, Elapsed(d, m)) = b.tokens
  BY <1>1, <1>2, <1>3
<1>5. PICK x : x = IF Allows(b.tokens) THEN b.tokens - Unit ELSE b.tokens
  OBVIOUS
<1>6. [b EXCEPT !.tokens = x, !.last = m] = [d EXCEPT !.tokens = x, !.last = m]
  BY <1>1, <1>2 DEF Bucket
<1>. QED
  BY <1>4, <1>5, <1>6 DEF Take

\* The last step of a check that nothing has overlapped.
LEMMA TakeTokenLone ==
  ASSUME IInv, Owned, NEW t \in Threads, NEW v, Lone(v, t), TakeToken(t)
  PROVE  ~call'[t].raised /\ View' = CheckedOnce(v, call[t].key, call[t].clock)
<1>1. PICK o, k, m : o = call[t].obj /\ k = call[t].key /\ m = call[t].clock
  OBVIOUS
<1>2. /\ o \in Objects /\ k \in Keys /\ o # NoObject /\ m \in Nat /\ heap[o] \in Bucket
      /\ call[t].at = "take"
  BY <1>1, AskedBucket, RateLimiterThreadsAssumption DEF TakeToken, At
<1>3. /\ Asking(v, t) /\ entry[k] = o /\ IsView(v)
      /\ order = MoveToEnd(Kept(v, k), k)
  BY <1>1 DEF TakeToken, At, Lone, Asking
<1>4. PICK b : b = Take(heap[o], call[t].value, m)
  OBVIOUS
<1>5. /\ heap' = Collect([heap EXCEPT ![o] = b]) /\ call' = [call EXCEPT ![t] = Idle]
      /\ UNCHANGED <<order, entry, now>>
  BY <1>1, <1>4 DEF TakeToken
<1>6. ~call'[t].raised
  BY <1>5 DEF IInv, TypeOK, Idle
<1>7. \A x \in Objects : Referenced(x) => heap'[x] = IF x = o THEN b ELSE heap[x]
  BY <1>2, <1>5 DEF Collect, IInv, TypeOK
<1>8. BucketOf(k)' = b
  BY <1>2, <1>3, <1>5, <1>7 DEF BucketOf, Referenced
<1>9. ASSUME NEW j \in Keys \ {k} PROVE BucketOf(j)' = BucketOf(j)
  <2>1. entry[j] # o
    BY <1>2, <1>3 DEF Owned
  <2>2. entry[j] # NoObject => heap'[entry[j]] = heap[entry[j]]
    BY <1>5, <1>7, <2>1 DEF Referenced, IInv, TypeOK
  <2>. QED
    BY <1>5, <2>2 DEF BucketOf
<1>10. PICK found : found = IF v.buckets[k] = NoBucket THEN NewBucket(Rate, m) ELSE v.buckets[k]
  OBVIOUS
<1>11. b = Take(found, Refilled(found, Elapsed(found, m)), m)
  <2>1. b = Take(heap[o], Refilled(heap[o], Elapsed(heap[o], m)), m)
    BY <1>1, <1>2, <1>3, <1>4 DEF Asking, At
  <2>2. CASE v.buckets[k] = NoBucket
    <3>1. PICK n \in Nat : heap[o] = NewBucket(Rate, n)
      BY <1>1, <1>3, <2>2 DEF Asking
    <3>2. found = NewBucket(Rate, m)
      BY <1>10, <2>2
    <3>. QED
      BY <1>2, <2>1, <3>1, <3>2, NewBucketTake
  <2>3. CASE v.buckets[k] # NoBucket
    BY <1>1, <1>3, <1>10, <2>1, <2>3 DEF Asking
  <2>. QED
    BY <2>2, <2>3
<1>12. \A j \in Keys : BucketOf(j)' = IF j = k THEN b
                                     ELSE IF j \in Members(Kept(v, k)) THEN v.buckets[j]
                                     ELSE NoBucket
  BY <1>1, <1>3, <1>8, <1>9 DEF Asking
<1>13. View' = [order |-> order', buckets |-> [j \in Keys |-> BucketOf(j)']]
  BY DEF View, BucketOf
<1>14. CheckedOnce(v, k, m) =
         [order |-> MoveToEnd(Kept(v, k), k),
          buckets |-> [j \in Keys |-> IF j = k THEN Take(found, Refilled(found, Elapsed(found, m)), m)
                                     ELSE IF j \in Members(Kept(v, k)) THEN v.buckets[j]
                                     ELSE NoBucket]]
  BY <1>10 DEF CheckedOnce, Kept
<1>15. View' = CheckedOnce(v, k, m)
  BY <1>3, <1>5, <1>11, <1>12, <1>13, <1>14
<1>. QED
  BY <1>1, <1>6, <1>15

\* A lone check that evicts or touches finds what it needs.
LEMMA LoneGoesOn ==
  ASSUME IInv, NEW t \in Threads, NEW v, Lone(v, t), EvictPop(t) \/ Touch(t)
  PROVE  call'[t].at # "idle"
<1>1. CASE EvictPop(t)
  <2>1. order # <<>>
    <3>1. Len(order) >= MaxClients /\ order \in Seq(Keys) /\ MaxClients \in Nat \ {0}
      BY <1>1, MaxClientsAssumption DEF EvictPop, At, Lone, Evicting, IInv, TypeOK
    <3>. QED
      BY <3>1
  <2>2. call'[t].at = "test"
    BY <1>1, <2>1 DEF EvictPop, IInv, TypeOK, Call
  <2>. QED
    BY <2>2
<1>2. CASE Touch(t)
  <2>1. entry[call[t].key] # NoObject
    BY <1>2, RateLimiterThreadsAssumption DEF Touch, At, Lone, Touching, IInv, Live, HasBucket
  <2>2. call'[t].at = "clock"
    BY <1>2, <2>1 DEF Touch, IInv, TypeOK, Call
  <2>. QED
    BY <2>2
<1>. QED
  BY <1>1, <1>2

\* Every step, of the lone check or of one that joins it.
LEMMA LoneStep == LoneInv /\ IInv /\ [Next]_vars => LoneInv'
<1>. SUFFICES ASSUME LoneInv, IInv, [Next]_vars, NEW u \in Threads, before'[u] # NoView
              PROVE  Lone(before[u], u)' 
  BY DEF LoneInv
<1>1. PICK v : v = before'[u]
  OBVIOUS
<1>2. SUFFICES Lone(v, u)'
  BY <1>1 DEF Lone, IsView, Evicting, Touching, Asking
<1>3. ASSUME NEW t \in Threads, NEW k \in Keys, Get(t, k) PROVE Lone(v, u)'
  <2>1. before'[u] = IF u = t /\ \A w \in Threads \ {t} : At(w, "idle") THEN View ELSE NoView
    BY <1>3 DEF Get
  <2>. QED
    BY <1>1, <1>3, <2>1, GetLone
<1>4. ASSUME NEW t \in Threads, Check(t) PROVE Lone(v, u)'
  <2>1. Overlaps(t)
    BY <1>4 DEF Check, EvictTest, EvictPop, Create, Store, Touch, ReadClock, ReadElapsed,
                ReadTokens, TakeToken
  <2>2. u = t /\ call'[t].at # "idle" /\ before'[t] = before[t]
    BY <2>1 DEF Overlaps
  <2>3. Lone(v, t)
    BY <1>1, <2>2 DEF LoneInv
  <2>4. ~TakeToken(t)
    BY <2>2, IdleCall DEF TakeToken, IInv, TypeOK
  <2>. QED
    BY <1>4, <2>2, <2>3, <2>4, EvictTestLone, EvictPopLone, CreateLone, StoreLone, TouchLone,
       ReadLone DEF Check
<1>5. CASE Tick \/ UNCHANGED vars
  <2>1. UNCHANGED <<order, entry, heap, call, before>>
    BY <1>5 DEF Tick, vars
  <2>2. Lone(v, u)
    BY <1>1, <2>1 DEF LoneInv
  <2>. QED
    BY <2>1, <2>2 DEF Lone, Evicting, Touching, Asking, BucketOf, At
<1>. QED
  BY <1>3, <1>4, <1>5 DEF Next

LoneIInv == IInv /\ Owned /\ LoneInv

\* rate_limit.py: for any threads and clients, a check no other check overlaps has done, at each of
\* its steps, exactly its part of one atomic check.
THEOREM SpecLone == Spec => []LoneIInv
<1>1. Init => LoneIInv
  <2>1. Init => Owned
    BY IdleCall DEF Init, Owned, HasBucket
  <2>2. Init => LoneInv
    BY DEF Init, LoneInv
  <2>. QED
    BY <2>1, <2>2, InitIInv DEF LoneIInv
<1>2. LoneIInv /\ [Next]_vars => LoneIInv'
  BY NextIInv, OwnedStep, LoneStep DEF LoneIInv
<1>. QED
  BY <1>1, <1>2, PTL DEF Spec

\* The step that returns leaves the table that one atomic check leaves.
LEMMA LoneCheckStep ==
  ASSUME LoneIInv, Next, NEW t \in Threads, before[t] # NoView, ~At(t, "idle"),
         call'[t].at = "idle"
  PROVE  ~call'[t].raised /\ View' = CheckedOnce(before[t], call[t].key, call[t].clock)
<1>1. PICK v : v = before[t] /\ Lone(v, t)
  BY DEF LoneIInv, LoneInv
<1>2. \A u \in Threads \ {t} : At(u, "idle")
  BY <1>1 DEF Lone
<1>3. ASSUME NEW u \in Threads, NEW k \in Keys, Get(u, k) PROVE FALSE
  <2>1. u # t
    BY <1>3 DEF Get
  <2>2. call'[t] = call[t]
    BY <1>3, <2>1 DEF Get, LoneIInv, IInv, TypeOK
  <2>. QED
    BY <2>2 DEF At
<1>4. ASSUME NEW u \in Threads, Check(u) PROVE u = t
  <2>1. ~At(u, "idle")
    BY <1>4 DEF Check, EvictTest, EvictPop, Create, Store, Touch, ReadClock, ReadElapsed,
                ReadTokens, TakeToken, At
  <2>. QED
    BY <1>2, <2>1
<1>5. Check(t)
  <2>1. ~Tick
    BY DEF Tick, At
  <2>. QED
    BY <1>3, <1>4, <2>1 DEF Next
<1>6. CASE TakeToken(t)
  BY <1>1, <1>6, TakeTokenLone DEF LoneIInv
<1>7. CASE ~TakeToken(t)
  <2>1. EvictTest(t) \/ Create(t) \/ Store(t) \/ ReadClock(t) \/ ReadElapsed(t) \/ ReadTokens(t)
    BY <1>1, <1>5, <1>7, LoneGoesOn DEF Check, LoneIInv
  <2>2. Lone(v, t)'
    BY <1>1, <2>1, EvictTestLone, CreateLone, StoreLone, ReadLone DEF LoneIInv
  <2>. QED
    BY <2>2 DEF Lone, At
<1>. QED
  BY <1>6, <1>7

\* A check that no other check overlaps neither raises nor differs from the atomic check of
\* RateLimiter, for any threads, clients and table size.
THEOREM LoneChecksAreAtomic == Spec => LoneCheckIsAtomic
<1>1. LoneIInv /\ Next => 
        \A t \in Threads :
         before[t] # NoView /\ ~At(t, "idle") /\ call'[t].at = "idle"
            => /\ ~call'[t].raised
               /\ View' = CheckedOnce(before[t], call[t].key, call[t].clock)
  BY LoneCheckStep
<1>. QED
  BY <1>1, SpecLone, PTL DEF Spec, LoneCheckIsAtomic

===============================================================================
