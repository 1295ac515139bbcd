-------------------------- MODULE RequestGateProofs ---------------------------
(***************************************************************************)
(* Proofs about the rate limiter and the service it guards, for every set   *)
(* of clients, every table size, every rate, any requests and settings:     *)
(* the limiter keeps its table and its rates; the guarded service drives it *)
(* as RateLimiter says; nothing but vouched addresses reaches the table.    *)
(***************************************************************************)
EXTENDS RequestGate, RateTableProofs

-----------------------------------------------------------------------------
(* One bucket *)

LEMMA Distributes == \A a, b, r \in Int : (a + b) * r = a * r + b * r
  OBVIOUS

LEMMA TimesNat == \A a, b \in Nat : a * b \in Nat
  OBVIOUS

\* What a bucket's owner is owed: it never had more tokens than its capacity and
\* its refill, and since it was last allowed it lost none of them.
Account(b, grants, born, grant) ==
    /\ b.tokens <= b.capacity /\ Unit <= b.capacity
    /\ born <= grant /\ grant <= b.last
    /\ grants * Unit + b.tokens <= b.capacity + (b.last - born) * b.refill
    /\ b.tokens = b.capacity \/ (b.last - grant) * b.refill <= b.tokens

\* A new bucket is full.
LEMMA NewBucketAccount ==
  ASSUME NEW r \in Int \X Int, NEW t \in Nat
  PROVE  NewBucket(r, t) \in Bucket /\ Account(NewBucket(r, t), 0, t, t)
<1> DEFINE b == NewBucket(r, t)
<1>1. /\ b \in Bucket /\ b.tokens = b.capacity /\ Unit <= b.capacity /\ b.last = t
  BY UnitAssumption DEF NewBucket, Capacity, AtLeast, Bucket
<1>2. (b.last - t) * b.refill = 0
  BY <1>1 DEF Bucket
<1>. QED
  BY <1>1, <1>2, UnitAssumption DEF Account, Bucket

\* allow() keeps the account.
LEMMA AllowAccount ==
  ASSUME NEW b \in Bucket, NEW g \in Nat, NEW born \in Nat, NEW grant \in Nat,
         NEW t \in Nat, b.last <= t, Account(b, g, born, grant)
  PROVE  LET tokens == Refilled(b, Elapsed(b, t))
             c == Take(b, tokens, t)
         IN  /\ c \in Bucket /\ c.last = t
             /\ c.capacity = b.capacity /\ c.refill = b.refill
             /\ Allows(tokens) => Account(c, g + 1, born, t)
             /\ ~Allows(tokens) => /\ Account(c, g, born, grant)
                                   /\ (t - grant) * b.refill < Unit
<1> DEFINE e == t - b.last
           tokens == Refilled(b, Elapsed(b, t))
           c == Take(b, tokens, t)
           r == b.refill
<1>0. /\ b.capacity \in Nat /\ b.tokens \in Nat /\ r \in Nat /\ b.last \in Nat
      /\ e \in Nat /\ Unit \in Nat \ {0} /\ e * r \in Nat
  BY UnitAssumption, TimesNat DEF Bucket
<1>1. Elapsed(b, t) = e
  BY <1>0 DEF Elapsed, AtLeast
<1>2. /\ tokens \in Nat /\ tokens <= b.capacity /\ tokens <= b.tokens + e * r
      /\ tokens = b.capacity \/ tokens = b.tokens + e * r
  BY <1>0, <1>1 DEF Refilled, AtMost, Account
<1>3. /\ c \in Bucket /\ c.last = t /\ c.capacity = b.capacity /\ c.refill = r
      /\ c.tokens = IF tokens >= Unit THEN tokens - Unit ELSE tokens
  <2>. HIDE DEF tokens
  <2>1. /\ (IF tokens >= Unit THEN tokens - Unit ELSE tokens) \in Nat
        /\ c = [b EXCEPT !.tokens = IF tokens >= Unit THEN tokens - Unit ELSE tokens,
                         !.last = t]
    BY <1>0, <1>2 DEF Take, Allows
  <2>. QED
    BY <2>1 DEF Bucket
<1>4. (t - born) * r = (b.last - born) * r + e * r
  <2>1. t - born = (b.last - born) + e
    BY <1>0
  <2>. QED
    BY <1>0, <2>1, Distributes
<1>5. (t - grant) * r = (b.last - grant) * r + e * r
  <2>1. t - grant = (b.last - grant) + e
    BY <1>0
  <2>. QED
    BY <1>0, <2>1, Distributes
<1>6. (t - t) * r = 0
  BY <1>0
<1>7. g * Unit \in Nat /\ (g + 1) * Unit = g * Unit + Unit
  BY <1>0, TimesNat, Distributes
<1>8. (b.last - born) * r \in Int /\ (b.last - grant) * r \in Int
  BY <1>0
<1>9. CASE Allows(tokens)
  <2>1. tokens >= Unit /\ c.tokens = tokens - Unit
    BY <1>3, <1>9 DEF Allows
  <2>. HIDE DEF tokens, c, r, e
  <2>2. (g + 1) * Unit + c.tokens <= b.capacity + (t - born) * r
    BY <1>0, <1>2, <1>4, <1>7, <1>8, <2>1 DEF Account, r
  <2>3. c.tokens <= b.capacity /\ (t - t) * r <= c.tokens
    BY <1>0, <1>2, <1>6, <2>1
  <2>4. Account(c, g + 1, born, t)
    BY <1>0, <1>3, <2>2, <2>3 DEF Account
  <2>. QED
    BY <1>3, <1>9, <2>4 DEF tokens, c, r
<1>10. CASE ~Allows(tokens)
  <2>1. tokens < Unit /\ c.tokens = tokens
    BY <1>0, <1>2, <1>3, <1>10 DEF Allows
  <2>. HIDE DEF tokens, c, r, e
  <2>2. tokens = b.tokens + e * r /\ b.tokens # b.capacity
    BY <1>0, <1>2, <2>1 DEF Account
  <2>3. (t - grant) * r <= tokens
    BY <1>0, <1>5, <1>8, <2>2 DEF Account, r
  <2>4. g * Unit + c.tokens <= b.capacity + (t - born) * r
    BY <1>0, <1>4, <1>7, <1>8, <2>1, <2>2 DEF Account, r
  <2>5. Account(c, g, born, grant)
    BY <1>0, <1>2, <1>3, <2>1, <2>3, <2>4 DEF Account
  <2>6. (t - grant) * r \in Int
    BY <1>0
  <2>7. (t - grant) * r < Unit
    BY <1>0, <1>2, <2>1, <2>3, <2>6
  <2>. QED
    BY <1>3, <1>10, <2>5, <2>7 DEF tokens, c, r
<1>. QED
  BY <1>3, <1>9, <1>10

-----------------------------------------------------------------------------
(* The table is the end of the clients by latest use *)

\* s is the end of u.
Suffix(s, u) ==
    /\ Len(s) <= Len(u)
    /\ \A i \in 1..Len(s) : s[i] = u[Len(u) - Len(s) + i]

TableInv ==
    /\ Distinct(uses) /\ Distinct(order)
    /\ Len(order) = AtMost(MaxClients, Len(uses))
    /\ Suffix(order, uses)
    /\ \A k \in Keys : (bucket[k] # NoBucket) <=> (k \in Members(order))

\* A suffix of a sequence without repetitions has none.
LEMMA SuffixDistinct ==
  ASSUME NEW s \in Seq(Keys), NEW u \in Seq(Keys), Distinct(u), Suffix(s, u)
  PROVE  Distinct(s)
  BY DEF Distinct, Suffix

\* A key of the table moves to the end of both.
LEMMA KnownSuffix ==
  ASSUME NEW s \in Seq(Keys), NEW u \in Seq(Keys), NEW k \in Members(s),
         Distinct(s), Distinct(u), Suffix(s, u)
  PROVE  /\ Suffix(MoveToEnd(s, k), MoveToEnd(u, k))
         /\ Len(MoveToEnd(s, k)) = Len(s) /\ Len(MoveToEnd(u, k)) = Len(u)
<1>1. PICK p \in 1..Len(s) : s[p] = k
  BY DEF Members
<1> DEFINE n == Len(s)
           m == Len(u)
           q == m - n + p
           sw == Without(s, k)
           uw == Without(u, k)
<1>2. n \in Nat /\ m \in Nat /\ n <= m /\ q \in 1..m /\ u[q] = k /\ k \in Keys
  BY <1>1 DEF Suffix
<1>3. /\ sw \in Seq(Keys) /\ Len(sw) = n - 1
      /\ \A i \in 1..(n - 1) : sw[i] = IF i < p THEN s[i] ELSE s[i + 1]
  BY <1>1, WithoutAt
<1>4. /\ uw \in Seq(Keys) /\ Len(uw) = m - 1
      /\ \A i \in 1..(m - 1) : uw[i] = IF i < q THEN u[i] ELSE u[i + 1]
  BY <1>2, WithoutAt
<1>. HIDE DEF sw, uw
<1>5. /\ Len(Append(sw, k)) = n /\ Len(Append(uw, k)) = m
      /\ \A i \in 1..(n - 1) : Append(sw, k)[i] = sw[i]
      /\ \A i \in 1..(m - 1) : Append(uw, k)[i] = uw[i]
      /\ Append(sw, k)[n] = k /\ Append(uw, k)[m] = k
  BY <1>2, <1>3, <1>4
<1>6. ASSUME NEW i \in 1..n PROVE Append(sw, k)[i] = Append(uw, k)[m - n + i]
  <2>1. CASE i = n
    BY <1>2, <1>5, <2>1
  <2>2. CASE i # n
    <3>1. i \in 1..(n - 1) /\ m - n + i \in 1..(m - 1)
      BY <1>2, <2>2
    <3>2. sw[i] = IF i < p THEN s[i] ELSE s[i + 1]
      BY <1>3, <3>1
    <3>3. uw[m - n + i] = IF i < p THEN u[m - n + i] ELSE u[m - n + (i + 1)]
      <4>1. uw[m - n + i] = IF m - n + i < q THEN u[m - n + i] ELSE u[(m - n + i) + 1]
        BY <1>4, <3>1
      <4>2. (m - n + i < q <=> i < p) /\ (m - n + i) + 1 = m - n + (i + 1)
        BY <1>2
      <4>. HIDE DEF q
      <4>. QED
        BY <4>1, <4>2
    <3>4. s[i] = u[m - n + i] /\ s[i + 1] = u[m - n + (i + 1)]
      BY <1>2, <3>1 DEF Suffix
    <3>5. sw[i] = uw[m - n + i]
      BY <3>2, <3>3, <3>4
    <3>6. Append(sw, k)[i] = sw[i] /\ Append(uw, k)[m - n + i] = uw[m - n + i]
      BY <1>5, <3>1
    <3>. QED
      BY <3>5, <3>6
  <2>. QED
    BY <2>1, <2>2
<1>7. Suffix(Append(sw, k), Append(uw, k))
  <2> DEFINE x == Append(sw, k)
             y == Append(uw, k)
  <2>1. Len(x) = n /\ Len(y) = m /\ \A i \in 1..n : x[i] = y[m - n + i]
    BY <1>5, <1>6
  <2>. HIDE DEF x, y
  <2>2. Suffix(x, y)
    BY <1>2, <2>1 DEF Suffix
  <2>. QED
    BY <2>2 DEF x, y
<1>8. MoveToEnd(s, k) = Append(sw, k) /\ MoveToEnd(u, k) = Append(uw, k)
  BY DEF MoveToEnd, sw, uw
<1>. QED
  BY <1>5, <1>7, <1>8

\* A new key is appended to both; the table first loses its head when full.
LEMMA NewSuffix ==
  ASSUME NEW s \in Seq(Keys), NEW u \in Seq(Keys), NEW k \in Keys,
         k \notin Members(s), Distinct(s), Distinct(u), Suffix(s, u),
         Len(s) = AtMost(MaxClients, Len(u))
  PROVE  LET t == Append(EvictOldest(s), k)
         IN  /\ t \in Seq(Keys) /\ Suffix(t, MoveToEnd(u, k))
             /\ Len(t) = AtMost(MaxClients, Len(MoveToEnd(u, k)))
             /\ Members(t) \subseteq Members(s) \cup {k} /\ k \in Members(t)
<1>a. PICK n \in Nat : n = Len(s)
  OBVIOUS
<1>b. PICK m \in Nat : m = Len(u)
  OBVIOUS
<1>c. n <= m /\ \A i \in 1..n : s[i] = u[m - n + i]
  BY <1>a, <1>b DEF Suffix
<1>d. MaxClients \in Nat \ {0} /\ n = IF MaxClients <= m THEN MaxClients ELSE m
  BY <1>a, <1>b, RateLimiterAssumption, MaxClientsAssumption DEF AtMost
<1>e. /\ n <= m /\ n <= MaxClients /\ MaxClients \in Nat \ {0}
      /\ (n < MaxClients => n = m)
  <2>1. n <= m
    BY <1>c
  <2>. QED
    BY <2>1, <1>d
<1>0. /\ n = Len(s) /\ m = Len(u) /\ n <= m /\ n <= MaxClients
      /\ MaxClients \in Nat \ {0} /\ (n < MaxClients => n = m)
      /\ \A i \in 1..n : s[i] = u[m - n + i]
  BY <1>a, <1>b, <1>c, <1>e
<1> DEFINE e == EvictOldest(s)
           t == Append(e, k)
           v == MoveToEnd(u, k)
<1>2. CASE n < MaxClients
  <2>1. e = s /\ Members(u) = Members(s)
    <3>1. n = m /\ \A i \in 1..n : s[i] = u[i]
      BY <1>0, <1>2
    <3>. QED
      BY <1>0, <1>2, <3>1 DEF EvictOldest, Members
  <2>2. v = Append(u, k)
    BY <2>1, WithoutAbsent DEF MoveToEnd
  <2>3. /\ t \in Seq(Keys) /\ Len(t) = n + 1 /\ t[n + 1] = k
        /\ \A i \in 1..n : t[i] = s[i]
        /\ Len(v) = m + 1 /\ v[m + 1] = k /\ \A i \in 1..m : v[i] = u[i]
    BY <1>0, <2>1, <2>2
  <2>. HIDE DEF t, v
  <2>4. Suffix(t, v) /\ Len(t) = AtMost(MaxClients, Len(v))
    <3>1. n = m /\ Len(t) = n + 1 /\ Len(v) = n + 1
      BY <1>0, <1>2, <2>3
    <3>2. \A i \in 1..n : t[i] = v[i]
      BY <1>0, <2>3, <3>1
    <3>3. \A i \in 1..(n + 1) : t[i] = v[i] /\ (n + 1) - (n + 1) + i = i
      BY <1>0, <2>3, <3>1, <3>2
    <3>. QED
      BY <1>0, <1>2, <3>1, <3>3 DEF Suffix, AtMost
  <2>5. Members(t) \subseteq Members(s) \cup {k} /\ k \in Members(t)
    <3>1. ASSUME NEW i \in 1..(n + 1) PROVE t[i] \in Members(s) \cup {k}
      <4>1. i # n + 1 => i \in 1..n /\ t[i] = s[i]
        BY <1>0, <2>3
      <4>. QED
        BY <1>0, <2>3, <4>1 DEF Members
    <3>2. n + 1 \in 1..(n + 1)
      BY <1>0
    <3>. QED
      BY <2>3, <3>1, <3>2 DEF Members
  <2>. QED
    BY <2>3, <2>4, <2>5 DEF t, v, e
<1>3. CASE n = MaxClients
  <2>1. /\ e \in Seq(Keys) /\ Len(e) = n - 1
        /\ \A i \in 1..(n - 1) : e[i] = s[i + 1]
    <3>1. e = SubSeq(s, 2, n)
      BY <1>0, <1>3 DEF EvictOldest
    <3>. QED
      BY <1>0, <1>3, <3>1
  <2>2. /\ t \in Seq(Keys) /\ Len(t) = n /\ t[n] = k
        /\ \A i \in 1..(n - 1) : t[i] = s[i + 1]
    <3>. HIDE DEF e
    <3>. QED
      BY <1>0, <1>3, <2>1 DEF t
  <2>3. /\ Len(v) \in Nat /\ Len(v) >= m /\ n <= Len(v) /\ v[Len(v)] = k
        /\ \A i \in 1..(n - 1) : v[Len(v) - n + i] = u[m - n + (i + 1)]
    <3>1. CASE k \notin Members(u)
      <4>1. v = Append(u, k)
        BY <3>1, WithoutAbsent DEF MoveToEnd
      <4>2. /\ Len(v) = m + 1 /\ v[m + 1] = k /\ \A i \in 1..m : v[i] = u[i]
        BY <1>0, <4>1
      <4>. HIDE DEF v
      <4>3. ASSUME NEW i \in 1..(n - 1)
            PROVE  v[Len(v) - n + i] = u[m - n + (i + 1)]
        <5>0. Len(v) = m + 1
          BY <4>2
        <5>1. Len(v) - n + i = m - n + (i + 1) /\ m - n + (i + 1) \in 1..m
          BY <1>e, <5>0
        <5>. QED
          BY <4>2, <5>1
      <4>. QED
        BY <1>0, <4>2, <4>3
    <3>2. CASE k \in Members(u)
      <4>1. PICK q \in 1..m : u[q] = k
        BY <1>0, <3>2 DEF Members
      <4> DEFINE w == Without(u, k)
      <4>2. /\ w \in Seq(Keys) /\ Len(w) = m - 1
            /\ \A i \in 1..(m - 1) : w[i] = IF i < q THEN u[i] ELSE u[i + 1]
        <5>1. q \in 1..Len(u) /\ u[q] = k
          BY <1>0, <4>1
        <5>2. /\ Without(u, u[q]) \in Seq(Keys)
              /\ Len(Without(u, u[q])) = Len(u) - 1
              /\ \A i \in 1..(Len(u) - 1) :
                    Without(u, u[q])[i] = IF i < q THEN u[i] ELSE u[i + 1]
          BY <5>1, WithoutAt
        <5>. QED
          BY <1>0, <5>1, <5>2
      <4>3. q <= m - n
        <5>1. ASSUME q > m - n PROVE FALSE
          <6>1. q - (m - n) \in 1..n /\ m - n + (q - (m - n)) = q
            BY <1>e, <5>1
          <6>2. s[q - (m - n)] = k
            BY <1>0, <4>1, <6>1
          <6>. QED
            BY <1>0, <6>1, <6>2 DEF Members
        <5>. QED
          BY <1>0, <4>1, <5>1
      <4>4. v = Append(w, k)
        BY DEF MoveToEnd
      <4>. HIDE DEF w
      <4>5. Len(v) = m /\ v[m] = k /\ \A i \in 1..(m - 1) : v[i] = w[i]
        BY <1>0, <4>1, <4>2, <4>4
      <4>. HIDE DEF v
      <4>6. ASSUME NEW i \in 1..(n - 1)
            PROVE  v[Len(v) - n + i] = u[m - n + (i + 1)]
        <5>1. /\ m - n + i \in 1..(m - 1) /\ ~(m - n + i < q)
              /\ (m - n + i) + 1 = m - n + (i + 1)
          BY <1>0, <4>1, <4>3
        <5>2. w[m - n + i] = u[(m - n + i) + 1]
          BY <4>2, <5>1
        <5>. QED
          BY <4>5, <5>1, <5>2
      <4>. QED
        BY <1>0, <4>5, <4>6
    <3>. QED
      BY <3>1, <3>2
  <2>. HIDE DEF t, v
  <2>4. ASSUME NEW i \in 1..n PROVE t[i] = v[Len(v) - n + i]
    <3>1. CASE i = n
      BY <1>0, <2>2, <2>3, <3>1
    <3>2. CASE i # n
      <4>1. i \in 1..(n - 1) /\ i + 1 \in 1..n
        BY <1>0, <3>2
      <4>2. t[i] = s[i + 1] /\ s[i + 1] = u[m - n + (i + 1)]
        BY <1>0, <2>2, <4>1
      <4>. QED
        BY <2>3, <4>1, <4>2
    <3>. QED
      BY <3>1, <3>2
  <2>5. Suffix(t, v) /\ Len(t) = AtMost(MaxClients, Len(v))
    BY <1>0, <1>3, <2>2, <2>3, <2>4 DEF Suffix, AtMost
  <2>6. Members(t) \subseteq Members(s) \cup {k} /\ k \in Members(t)
    <3>1. ASSUME NEW i \in 1..n PROVE t[i] \in Members(s) \cup {k}
      <4>1. i # n => i + 1 \in 1..n /\ i \in 1..(n - 1)
        BY <1>e
      <4>2. i # n => t[i] = s[i + 1]
        BY <2>2, <4>1
      <4>. QED
        BY <1>0, <2>2, <4>1, <4>2 DEF Members
    <3>2. n \in 1..n
      BY <1>0, <1>3
    <3>. QED
      BY <2>2, <3>1, <3>2 DEF Members
  <2>. QED
    BY <2>2, <2>5, <2>6 DEF t, v, e
<1>. QED
  BY <1>0, <1>2, <1>3

-----------------------------------------------------------------------------
(* The inductive invariant *)

AccountInv ==
    \A k \in Keys : bucket[k] # NoBucket =>
        bucket[k].last <= now /\ Account(bucket[k], granted[k], created[k], lastGrant[k])

IInv == TypeOK /\ TableInv /\ AccountInv

LEMMA InitIInv == Init => IInv
<1> SUFFICES ASSUME Init PROVE IInv
  OBVIOUS
<1>1. TypeOK
  BY DEF Init, TypeOK
<1>2. TableInv
  BY RateLimiterAssumption, MaxClientsAssumption DEF Init, TableInv, Distinct, AtMost, Suffix, Members
<1>3. AccountInv
  BY DEF Init, AccountInv
<1>. QED
  BY <1>1, <1>2, <1>3 DEF IInv

\* What a call of allow on bucket b leaves, whoever created b.
LEMMA AllowStep ==
  ASSUME NEW k \in Keys, NEW b \in Bucket, NEW table, TypeOK, AccountInv, now' = now,
         Allow(k, b, table), b.last <= now,
         IF bucket[k] = NoBucket
         THEN Account(b, 0, now, now)
         ELSE b = bucket[k]
  PROVE  /\ bucket' \in [Keys -> Bucket \cup {NoBucket}]
         /\ granted' \in [Keys -> Nat] /\ created' \in [Keys -> Nat]
         /\ lastGrant' \in [Keys -> Nat]
         /\ AccountInv'
         /\ \A j \in Keys : bucket'[j] # NoBucket <=>
                j = k \/ (j \in Members(table) /\ bucket[j] # NoBucket)
<1> DEFINE tokens == Refilled(b, Elapsed(b, now))
           c == Take(b, tokens, now)
           g == IF bucket[k] = NoBucket THEN 0 ELSE granted[k]
           born == IF bucket[k] = NoBucket THEN now ELSE created[k]
           grant == IF bucket[k] = NoBucket THEN now ELSE lastGrant[k]
           g2 == g + (IF Allows(tokens) THEN 1 ELSE 0)
           grant2 == IF bucket[k] = NoBucket \/ Allows(tokens) THEN now ELSE lastGrant[k]
<1>1. g \in Nat /\ born \in Nat /\ grant \in Nat /\ now \in Nat
  BY DEF TypeOK
<1>2. Account(b, g, born, grant)
  BY DEF AccountInv
<1>3. /\ c \in Bucket /\ c.last = now
      /\ Allows(tokens) => Account(c, g + 1, born, now)
      /\ ~Allows(tokens) => Account(c, g, born, grant)
  BY <1>1, <1>2, AllowAccount
<1>4. /\ bucket' = Update(bucket, k, c, table, NoBucket)
      /\ granted' = Update(granted, k, g2, table, 0)
      /\ created' = Update(created, k, born, table, 0)
      /\ lastGrant' = Update(lastGrant, k, grant2, table, 0)
  BY DEF Allow
<1>. HIDE DEF tokens, c
<1>5. g2 \in Nat /\ grant2 \in Nat
  BY <1>1 DEF TypeOK
<1>6. Account(c, g2, born, grant2)
  <2>1. CASE Allows(tokens)
    BY <1>3, <2>1
  <2>2. CASE ~Allows(tokens)
    <3>1. g2 = g /\ grant2 = grant
      BY <1>1, <2>2
    <3>. QED
      BY <1>3, <2>2, <3>1
  <2>. QED
    BY <2>1, <2>2
<1>. HIDE DEF g2, grant2, born, g, grant
<1>7. /\ bucket' \in [Keys -> Bucket \cup {NoBucket}]
      /\ granted' \in [Keys -> Nat] /\ created' \in [Keys -> Nat]
      /\ lastGrant' \in [Keys -> Nat]
  BY <1>1, <1>3, <1>4, <1>5 DEF Update, TypeOK
<1>8. AccountInv'
  <2> SUFFICES ASSUME NEW j \in Keys, bucket'[j] # NoBucket
               PROVE  /\ bucket'[j].last <= now
                      /\ Account(bucket'[j], granted'[j], created'[j], lastGrant'[j])
    BY DEF AccountInv, Account
  <2>1. CASE j = k
    <3>1. /\ bucket'[j] = c /\ granted'[j] = g2 /\ created'[j] = born
          /\ lastGrant'[j] = grant2
      BY <1>4, <2>1 DEF Update
    <3>. QED
      BY <1>1, <1>3, <1>6, <3>1
  <2>2. CASE j # k
    <3>1. /\ bucket'[j] = bucket[j] /\ granted'[j] = granted[j]
          /\ created'[j] = created[j] /\ lastGrant'[j] = lastGrant[j]
      BY <1>4, <2>2 DEF Update
    <3>. QED
      BY <3>1 DEF AccountInv
  <2>. QED
    BY <2>1, <2>2
<1>9. c # NoBucket
  BY <1>3, RateLimiterAssumption, MaxClientsAssumption
<1>. QED
  BY <1>4, <1>7, <1>8, <1>9 DEF Update

LEMMA CheckNewIInv ==
  ASSUME IInv, NEW k \in Keys, CheckNew(k) PROVE IInv'
<1> DEFINE b == NewBucket(rate, now)
<1>1. /\ TypeOK /\ TableInv /\ AccountInv /\ bucket[k] = NoBucket
      /\ rate' = rate /\ now' = now /\ rate \in Int \X Int /\ now \in Nat
  BY RateLimiterAssumption, MaxClientsAssumption DEF IInv, TypeOK, CheckNew
<1>2. b \in Bucket /\ Account(b, 0, now, now) /\ b.last <= now
  <2>1. b \in Bucket /\ Account(b, 0, now, now) /\ b.last = now
    BY <1>1, NewBucketAccount DEF NewBucket
  <2>. QED
    BY <1>1, <2>1
<1>3. Allow(k, b, order') /\ order' = Append(EvictOldest(order), k)
  BY DEF CheckNew
<1>4. /\ bucket' \in [Keys -> Bucket \cup {NoBucket}]
      /\ granted' \in [Keys -> Nat] /\ created' \in [Keys -> Nat]
      /\ lastGrant' \in [Keys -> Nat]
      /\ AccountInv'
      /\ \A j \in Keys : bucket'[j] # NoBucket <=>
             j = k \/ (j \in Members(order') /\ bucket[j] # NoBucket)
  <2>. HIDE DEF b
  <2>. QED
    BY <1>1, <1>2, <1>3, AllowStep
<1>5. uses' = MoveToEnd(uses, k)
  BY <1>3 DEF Allow
<1>6. /\ order \in Seq(Keys) /\ uses \in Seq(Keys) /\ Distinct(order) /\ Distinct(uses)
      /\ Suffix(order, uses) /\ Len(order) = AtMost(MaxClients, Len(uses))
      /\ k \notin Members(order)
  BY <1>1 DEF TypeOK, TableInv
<1>7. uses' \in Seq(Keys) /\ Distinct(uses')
  BY <1>5, <1>6, MoveToEndFacts
<1>8. /\ order' \in Seq(Keys) /\ Suffix(order', uses')
      /\ Len(order') = AtMost(MaxClients, Len(uses'))
      /\ Members(order') \subseteq Members(order) \cup {k} /\ k \in Members(order')
  BY <1>3, <1>5, <1>6, NewSuffix
<1>9. Distinct(order')
  BY <1>7, <1>8, SuffixDistinct
<1>10. TableInv'
  BY <1>1, <1>4, <1>7, <1>8, <1>9 DEF TableInv
<1>11. TypeOK'
  BY <1>1, <1>4, <1>7, <1>8 DEF TypeOK
<1>. QED
  BY <1>4, <1>10, <1>11 DEF IInv

LEMMA CheckKnownIInv ==
  ASSUME IInv, NEW k \in Keys, CheckKnown(k) PROVE IInv'
<1>1. /\ TypeOK /\ TableInv /\ AccountInv /\ bucket[k] # NoBucket
      /\ rate' = rate /\ now' = now /\ now \in Nat
      /\ Allow(k, bucket[k], order') /\ order' = MoveToEnd(order, k)
  BY DEF IInv, TypeOK, CheckKnown
<1>2. bucket[k] \in Bucket /\ bucket[k].last <= now
  BY <1>1 DEF TypeOK, AccountInv
<1>3. /\ bucket' \in [Keys -> Bucket \cup {NoBucket}]
      /\ granted' \in [Keys -> Nat] /\ created' \in [Keys -> Nat]
      /\ lastGrant' \in [Keys -> Nat]
      /\ AccountInv'
      /\ \A j \in Keys : bucket'[j] # NoBucket <=>
             j = k \/ (j \in Members(order') /\ bucket[j] # NoBucket)
  BY <1>1, <1>2, AllowStep
<1>4. uses' = MoveToEnd(uses, k)
  BY <1>1 DEF Allow
<1>5. /\ order \in Seq(Keys) /\ uses \in Seq(Keys) /\ Distinct(order) /\ Distinct(uses)
      /\ Suffix(order, uses) /\ Len(order) = AtMost(MaxClients, Len(uses))
      /\ k \in Members(order)
  BY <1>1 DEF TypeOK, TableInv
<1>6. /\ uses' \in Seq(Keys) /\ Distinct(uses')
      /\ order' \in Seq(Keys) /\ Distinct(order') /\ Members(order') = Members(order) \cup {k}
  BY <1>1, <1>4, <1>5, MoveToEndFacts
<1>7. Suffix(order', uses') /\ Len(order') = Len(order) /\ Len(uses') = Len(uses)
  BY <1>1, <1>4, <1>5, KnownSuffix
<1>8. TableInv'
  BY <1>1, <1>3, <1>5, <1>6, <1>7 DEF TableInv
<1>9. TypeOK'
  BY <1>1, <1>3, <1>6 DEF TypeOK
<1>. QED
  BY <1>3, <1>8, <1>9 DEF IInv

LEMMA NextIInv == IInv /\ [Next]_vars => IInv'
<1> SUFFICES ASSUME IInv, [Next]_vars PROVE IInv'
  OBVIOUS
<1>1. ASSUME NEW r \in Rates, SetRate(r) PROVE IInv'
  BY <1>1 DEF SetRate, IInv, TypeOK, TableInv, AccountInv, observers, Distinct, Suffix, Members,
              Account
<1>2. CASE Tick
  <2>1. /\ order' = order /\ bucket' = bucket /\ rate' = rate /\ uses' = uses
        /\ granted' = granted /\ created' = created /\ lastGrant' = lastGrant
        /\ now' = now + 1
    BY <1>2 DEF Tick, observers
  <2>2. TypeOK' /\ TableInv'
    BY <2>1 DEF IInv, TypeOK, TableInv
  <2>3. AccountInv'
    <3> SUFFICES ASSUME NEW k \in Keys, bucket[k] # NoBucket
                 PROVE  /\ bucket[k].last <= now + 1
                        /\ Account(bucket[k], granted[k], created[k], lastGrant[k])
      BY <2>1 DEF AccountInv
    <3>1. bucket[k] \in Bucket /\ now \in Nat
      BY DEF IInv, TypeOK
    <3>2. bucket[k].last \in Nat /\ bucket[k].last <= now
      BY <3>1 DEF IInv, AccountInv, Bucket
    <3>. QED
      BY <3>1, <3>2 DEF IInv, AccountInv
  <2>. QED
    BY <2>2, <2>3 DEF IInv
<1>3. CASE UNCHANGED vars
  BY <1>3 DEF vars, IInv, TypeOK, TableInv, AccountInv
<1>. QED
  BY <1>1, <1>2, <1>3, CheckNewIInv, CheckKnownIInv DEF Next

\* The inductive invariant holds in every reachable state.
THEOREM SpecIInv == Spec => []IInv
  BY InitIInv, NextIInv, PTL DEF Spec

\* The limiter keeps its types.
THEOREM TypeCorrect == Spec => []TypeOK
<1>1. IInv => TypeOK
  BY DEF IInv
<1>. QED
  BY <1>1, SpecIInv, PTL

\* The table is always the MaxClients most recently seen clients.
THEOREM TableBoundedLRU == Spec => []TableIsMostRecent
<1>1. IInv => TableIsMostRecent
  BY DEF IInv, TableInv, Suffix, TableIsMostRecent
<1>. QED
  BY <1>1, SpecIInv, PTL

\* No client is allowed more than its burst and its refill.
THEOREM GrantsBounded == Spec => []GrantBound
<1>1. IInv => GrantBound
  <2> SUFFICES ASSUME IInv, NEW k \in Keys, bucket[k] # NoBucket
               PROVE  granted[k] * Unit
                        <= bucket[k].capacity + (now - created[k]) * bucket[k].refill
    BY DEF GrantBound
  <2> PICK b : b = bucket[k]
    OBVIOUS
  <2>1. /\ b \in Bucket /\ now \in Nat /\ granted[k] \in Nat /\ created[k] \in Nat
        /\ b.last <= now /\ Account(b, granted[k], created[k], lastGrant[k])
    BY DEF IInv, TypeOK, AccountInv
  <2>2. /\ b.tokens \in Nat /\ b.refill \in Nat /\ b.last \in Nat /\ b.capacity \in Nat
        /\ Unit \in Nat
    BY <2>1, UnitAssumption DEF Bucket
  <2>3. (now - created[k]) * b.refill
           = (b.last - created[k]) * b.refill + (now - b.last) * b.refill
    <3>1. now - created[k] = (b.last - created[k]) + (now - b.last)
      BY <2>1, <2>2
    <3>2. b.last - created[k] \in Int /\ now - b.last \in Int
      BY <2>1, <2>2
    <3>. QED
      BY <2>2, <3>1, <3>2, Distributes
  <2>4. (now - b.last) * b.refill \in Nat /\ granted[k] * Unit \in Nat
    <3>1. now - b.last \in Nat
      BY <2>1, <2>2
    <3>. QED
      BY <2>1, <2>2, <3>1, TimesNat
  <2>5. granted[k] * Unit + b.tokens <= b.capacity + (b.last - created[k]) * b.refill
    BY <2>1 DEF Account
  <2>6. (b.last - created[k]) * b.refill \in Int
    BY <2>1, <2>2
  <2>. QED
    BY <2>2, <2>3, <2>4, <2>5, <2>6
<1>. QED
  BY <1>1, SpecIInv, PTL

\* A client is refused only within one token's refill of its last permission.
THEOREM RefusalsJustified == Spec => RefusedOnlyWhenSpent
<1> DEFINE Justified == \A k \in Keys :
              CheckKnown(k) /\ granted'[k] = granted[k]
                 => (now - lastGrant[k]) * bucket[k].refill < Unit
<1>1. IInv /\ [Next]_vars => [Justified]_vars
  <2> SUFFICES ASSUME IInv, NEW k \in Keys, CheckKnown(k), granted'[k] = granted[k]
               PROVE  (now - lastGrant[k]) * bucket[k].refill < Unit
    OBVIOUS
  <2>1. /\ bucket[k] \in Bucket /\ now \in Nat /\ granted[k] \in Nat
        /\ created[k] \in Nat /\ lastGrant[k] \in Nat /\ bucket[k].last <= now
        /\ Account(bucket[k], granted[k], created[k], lastGrant[k])
    BY DEF IInv, TypeOK, AccountInv, CheckKnown
  <2> DEFINE tokens == Refilled(bucket[k], Elapsed(bucket[k], now))
  <2>2. granted'[k] = granted[k] + (IF Allows(tokens) THEN 1 ELSE 0)
    BY DEF CheckKnown, Allow, Update
  <2>3. ~Allows(tokens)
    <3>. HIDE DEF tokens
    <3>. QED
      BY <2>1, <2>2
  <2>. QED
    BY <2>1, <2>3, AllowAccount
<1>. QED
  BY <1>1, SpecIInv, PTL DEF Spec, RefusedOnlyWhenSpent

-----------------------------------------------------------------------------
(* The guarded service *)

Called == [req : Request, at : Stages, expected : Secrets \cup {NoKey}, seen : SUBSET Settings]

\* What the dependencies keep on their side: require_key saw the key it compares with
\* come from the settings in force meanwhile, and who is past it is vouched.
GateOK ==
    /\ settings \in Settings
    /\ call \in [Calls -> Called \cup {NoCall}]
    /\ settings.trust => proxied
    /\ \A c \in Calls : At(c, "asked") =>
          settings \in call[c].seen /\ \E s \in call[c].seen : s.expected = call[c].expected
    /\ \A c \in Calls : call[c] # NoCall /\ call[c].at # "asked" =>
          <<call[c].req.peer, call[c].req.forwarded>> \in vouched

\* A call that goes on, and one that ends, leave the others alone.
LEMMA Moved ==
  ASSUME GateOK, NEW c \in Calls, call[c] \in Called, NEW stage \in Stages, Goes(c, stage)
  PROVE  /\ call' \in [Calls -> Called \cup {NoCall}]
         /\ call'[c].at = stage /\ call'[c].req = call[c].req
         /\ \A d \in Calls \ {c} : call'[d] = call[d]
<1> DEFINE new == [call[c] EXCEPT !.at = stage, !.seen = {}]
<1>1. new \in Called /\ new.at = stage /\ new.req = call[c].req
  BY DEF Called
<1>2. call' = [call EXCEPT ![c] = new]
  BY DEF Goes
<1>. HIDE DEF new
<1>. QED
  BY <1>1, <1>2 DEF GateOK

LEMMA Ended ==
  ASSUME GateOK, NEW c \in Calls, Ends(c)
  PROVE  /\ call' \in [Calls -> Called \cup {NoCall}] /\ call'[c] = NoCall
         /\ \A d \in Calls \ {c} : call'[d] = call[d]
  BY DEF Ends, GateOK

\* A call past require_key keeps what is known of it, once it is vouched.
LEMMA MovedOK ==
  ASSUME GateOK, NEW c \in Calls, call[c] \in Called, NEW stage \in {"past", "limited"}, Goes(c, stage),
         UNCHANGED <<settings, proxied>>, vouched \subseteq vouched',
         <<call[c].req.peer, call[c].req.forwarded>> \in vouched'
  PROVE  GateOK'
<1>1. /\ call' \in [Calls -> Called \cup {NoCall}]
      /\ call'[c].at = stage /\ call'[c].req = call[c].req
      /\ \A d \in Calls \ {c} : call'[d] = call[d]
  BY Moved DEF Stages
<1>2. \A d \in Calls : At(d, "asked")' =>
         settings' \in call'[d].seen /\ \E s \in call'[d].seen : s.expected = call'[d].expected
  BY <1>1 DEF GateOK, At
<1>3. \A d \in Calls : call'[d] # NoCall /\ call'[d].at # "asked" =>
         <<call'[d].req.peer, call'[d].req.forwarded>> \in vouched'
  BY <1>1 DEF GateOK
<1>. QED
  BY <1>1, <1>2, <1>3 DEF GateOK

LEMMA ClientKeyType ==
  ASSUME NEW r \in Request PROVE ClientKey(r) \in Keys
  BY GateAssumption DEF ClientKey

LEMMA GateInitOK == GateInit => GateOK
  BY DEF GateInit, GateOK, At

LEMMA GateNextOK == GateOK /\ [GateNext]_<<vars, gate>> => GateOK'
<1> SUFFICES ASSUME GateOK, [GateNext]_<<vars, gate>> PROVE GateOK'
  OBVIOUS
<1>1. ASSUME NEW c \in Calls, NEW r \in Request, AskExpected(c, r) PROVE GateOK'
  <2> DEFINE new == [req |-> r, at |-> "asked", expected |-> settings.expected, seen |-> {settings}]
  <2>1. new \in Called /\ new # NoCall
    BY GateAssumption DEF GateOK, Called, Stages
  <2>2. call' = [call EXCEPT ![c] = new] /\ UNCHANGED <<settings, vouched, proxied>>
    BY <1>1 DEF AskExpected
  <2>3. call'[c] = new /\ \A d \in Calls \ {c} : call'[d] = call[d]
    BY <2>2 DEF GateOK
  <2>4. call' \in [Calls -> Called \cup {NoCall}]
    BY <2>1, <2>2 DEF GateOK
  <2>5. new.at = "asked" /\ settings \in new.seen /\ new.expected = settings.expected
    OBVIOUS
  <2>. HIDE DEF new
  <2>. QED
    BY <2>2, <2>3, <2>4, <2>5 DEF GateOK, At
<1>2. ASSUME NEW c \in Calls, RequireApiKey(c) PROVE GateOK'
  <2>1. call[c] \in Called /\ call[c] # NoCall /\ call[c].at = "asked" /\ settings \in call[c].seen
    BY <1>2 DEF RequireApiKey, At, GateOK
  <2>2. UNCHANGED <<settings, proxied>> /\ vouched \subseteq vouched'
    BY <1>2 DEF RequireApiKey
  <2>3. CASE CheckApiKey(call[c].req.key, call[c].expected, settings.required) = 200
    <3>1. PICK s \in call[c].seen : s.expected = call[c].expected
      BY <2>1 DEF GateOK, At
    <3>2. Vouches(call[c].req, call[c].seen)
      <4>1. call[c].req.key \in Secrets \cup {NoKey} /\ call[c].expected \in Secrets \cup {NoKey}
        BY <2>1, GateAssumption DEF Called
      <4>2. CASE call[c].expected = NoKey
        BY <2>1, <2>3, <3>1, <4>2 DEF CheckApiKey, Vouches
      <4>3. CASE call[c].expected # NoKey
        BY <2>3, <3>1, <4>1, <4>3 DEF CheckApiKey, Vouches
      <4>. QED
        BY <4>2, <4>3
    <3>3. Goes(c, "past") /\ vouched' = vouched \cup {<<call[c].req.peer, call[c].req.forwarded>>}
      BY <1>2, <2>3, <3>2 DEF RequireApiKey
    <3>. QED
      BY <2>1, <2>2, <3>3, MovedOK
  <2>4. CASE CheckApiKey(call[c].req.key, call[c].expected, settings.required) # 200
    <3>1. Ends(c)
      BY <1>2, <2>4 DEF RequireApiKey
    <3>. QED
      BY <2>2, <3>1, Ended DEF GateOK, At
  <2>. QED
    BY <2>3, <2>4
<1>3. ASSUME NEW c \in Calls, AskEnabled(c) PROVE GateOK'
  <2>1. call[c] \in Called /\ call[c] # NoCall /\ call[c].at = "past" /\ UNCHANGED <<settings, vouched, proxied>>
    BY <1>3 DEF AskEnabled, At, GateOK
  <2>2. CASE Goes(c, "limited")
    <3>1. <<call[c].req.peer, call[c].req.forwarded>> \in vouched'
      BY <2>1 DEF GateOK
    <3>. QED
      BY <2>1, <2>2, <3>1, MovedOK
  <2>3. CASE Ends(c)
    BY <2>1, <2>3, Ended DEF GateOK, At
  <2>. QED
    BY <1>3, <2>2, <2>3 DEF AskEnabled
<1>4. ASSUME NEW c \in Calls, RateLimit(c) PROVE GateOK'
  BY <1>4, Ended DEF RateLimit, GateOK, At
<1>5. ASSUME NEW s \in Settings, SetSettings(s) PROVE GateOK'
  <2>1. settings' = s /\ proxied' = (proxied \/ s.trust) /\ vouched' = vouched
    BY <1>5 DEF SetSettings
  <2>2. ASSUME NEW c \in Calls
        PROVE  /\ At(c, "asked") => call'[c] = [call[c] EXCEPT !.seen = @ \cup {s}]
               /\ ~At(c, "asked") => call'[c] = call[c]
    BY <1>5 DEF SetSettings
  <2>3. ASSUME NEW c \in Calls, At(c, "asked")
        PROVE  /\ call'[c] \in Called /\ call'[c] # NoCall /\ call'[c].at = "asked"
               /\ call'[c].seen = call[c].seen \cup {s} /\ call'[c].expected = call[c].expected
    <3>1. call[c] \in Called
      BY <2>3 DEF At, GateOK
    <3> DEFINE new == [call[c] EXCEPT !.seen = @ \cup {s}]
    <3>2. new \in Called
      BY <3>1 DEF Called
    <3>3. call'[c] = new
      BY <2>2, <2>3
    <3>4. call'[c] \in Called
      BY <3>2, <3>3
    <3>. QED
      BY <2>2, <2>3, <3>1, <3>4, GateAssumption DEF At, Called
  <2>4. call' \in [Calls -> Called \cup {NoCall}]
    <3>1. \A c \in Calls : call'[c] \in Called \cup {NoCall}
      BY <2>2, <2>3 DEF GateOK
    <3>2. call' = [c \in Calls |-> call'[c]]
      BY <1>5 DEF SetSettings
    <3>. QED
      BY <3>1, <3>2
  <2>5. ASSUME NEW c \in Calls PROVE At(c, "asked")' <=> At(c, "asked")
    BY <2>2, <2>3 DEF At
  <2>6. \A c \in Calls : At(c, "asked")' =>
           s \in call'[c].seen /\ \E x \in call'[c].seen : x.expected = call'[c].expected
    BY <2>3, <2>5 DEF GateOK
  <2>7. \A c \in Calls : call'[c] # NoCall /\ call'[c].at # "asked" =>
           <<call'[c].req.peer, call'[c].req.forwarded>> \in vouched
    BY <2>2, <2>3 DEF GateOK
  <2>8. s \in Settings /\ (s.trust => proxied')
    BY <2>1
  <2>. QED
    BY <2>1, <2>4, <2>6, <2>7, <2>8 DEF GateOK
<1>6. CASE Outside
  BY <1>6 DEF Outside, gate, GateOK, At
<1>7. CASE UNCHANGED <<vars, gate>>
  BY <1>7 DEF gate, GateOK, At
<1>. QED
  BY <1>1, <1>2, <1>3, <1>4, <1>5, <1>6, <1>7 DEF GateNext

\* Every step of the service is a step of the limiter, or leaves it alone.
LEMMA GateStep == GateOK /\ [GateNext]_<<vars, gate>> => [Next]_vars
<1> SUFFICES ASSUME GateOK, GateNext PROVE [Next]_vars
  BY DEF vars
<1>1. ASSUME NEW c \in Calls, RateLimit(c) PROVE Next
  <2>1. call[c].req \in Request
    BY <1>1 DEF RateLimit, At, GateOK, Called
  <2>. QED
    BY <1>1, <2>1, ClientKeyType DEF RateLimit, Next
<1>2. ASSUME NEW c \in Calls, NEW r \in Request, AskExpected(c, r) PROVE UNCHANGED vars
  BY <1>2 DEF AskExpected
<1>3. ASSUME NEW c \in Calls, RequireApiKey(c) \/ AskEnabled(c) PROVE UNCHANGED vars
  BY <1>3 DEF RequireApiKey, AskEnabled
<1>4. ASSUME NEW s \in Settings, SetSettings(s) PROVE UNCHANGED vars
  BY <1>4 DEF SetSettings
<1>5. CASE Outside
  BY <1>5 DEF Outside, Next
<1>. QED
  BY <1>1, <1>2, <1>3, <1>4, <1>5 DEF GateNext

\* The dependencies touch the limiter through its calls only.
LEMMA GateIsLimiter == GateSpec => Spec
<1>1. GateInit => Init
  BY DEF GateInit
<1>. QED
  BY <1>1, GateInitOK, GateNextOK, GateStep, PTL DEF GateSpec, Spec

\* What the limiter promises, the service keeps: the table of the most recently seen
\* clients and the bound on what each of them is granted.
THEOREM ServiceKeepsLimits ==
  GateSpec => [](TypeOK /\ TableIsMostRecent /\ GrantBound)
  BY GateIsLimiter, TypeCorrect, TableBoundedLRU, GrantsBounded, PTL

-----------------------------------------------------------------------------
(* Who is in the table *)

\* A check puts its client into the table and nobody else.
LEMMA CheckMembers ==
  ASSUME IInv, NEW k \in Keys, CheckNew(k) \/ CheckKnown(k)
  PROVE  Members(order') \subseteq Members(order) \cup {k}
<1>1. order \in Seq(Keys) /\ Distinct(order)
  BY DEF IInv, TypeOK, TableInv
<1>2. CASE CheckNew(k)
  <2>1. EvictOldest(order) \in Seq(Keys) /\ Members(EvictOldest(order)) \subseteq Members(order)
    BY <1>1, MaxClientsAssumption DEF EvictOldest, Members
  <2>. HIDE DEF EvictOldest
  <2>2. Members(Append(EvictOldest(order), k)) \subseteq Members(EvictOldest(order)) \cup {k}
    BY <2>1 DEF Members
  <2>. QED
    BY <1>2, <2>1, <2>2 DEF CheckNew
<1>3. CASE CheckKnown(k)
  BY <1>1, <1>3, MoveToEndFacts DEF CheckKnown
<1>. QED
  BY <1>2, <1>3

LEMMA VouchedNext ==
  IInv /\ GateOK /\ TableOfVouched /\ [GateNext]_<<vars, gate>> => TableOfVouched'
<1> SUFFICES ASSUME IInv, GateOK, TableOfVouched, [GateNext]_<<vars, gate>>
             PROVE  TableOfVouched'
  OBVIOUS
<1>1. ASSUME NEW c \in Calls, RateLimit(c) PROVE TableOfVouched'
  <2> DEFINE r == call[c].req
             k == ClientKey(r)
  <2>1. r \in Request /\ <<r.peer, r.forwarded>> \in vouched
    BY <1>1 DEF RateLimit, At, GateOK, Called
  <2>2. k \in Keys /\ vouched' = vouched /\ proxied' = proxied
    BY <1>1, <2>1, ClientKeyType DEF RateLimit
  <2>3. \/ k = r.peer
        \/ r.peer = NoHost /\ k = UNKNOWN_CLIENT
        \/ proxied /\ k = r.forwarded
    BY DEF ClientKey, GateOK
  <2>4. Members(order') \subseteq Members(order) \cup {k}
    BY <1>1, <2>2, CheckMembers DEF RateLimit
  <2>. HIDE DEF k, r
  <2>. QED
    BY <2>1, <2>2, <2>3, <2>4 DEF TableOfVouched
<1>2. ASSUME NEW c \in Calls, NEW r \in Request, AskExpected(c, r) PROVE TableOfVouched'
  BY <1>2 DEF AskExpected, TableOfVouched, vars
<1>3. ASSUME NEW c \in Calls, RequireApiKey(c) \/ AskEnabled(c) PROVE TableOfVouched'
  <2>1. order' = order /\ vouched \subseteq vouched' /\ proxied' = proxied
    BY <1>3 DEF RequireApiKey, AskEnabled, vars
  <2>. QED
    BY <2>1 DEF TableOfVouched
<1>4. ASSUME NEW s \in Settings, SetSettings(s) PROVE TableOfVouched'
  BY <1>4 DEF SetSettings, TableOfVouched, vars
<1>5. CASE Outside
  BY <1>5 DEF Outside, gate, Tick, SetRate, TableOfVouched
<1>6. CASE UNCHANGED <<vars, gate>>
  BY <1>6 DEF vars, gate, TableOfVouched
<1>. QED
  BY <1>1, <1>2, <1>3, <1>4, <1>5, <1>6 DEF GateNext

\* Whatever requests are under way and however the settings change between what they
\* ask, the table holds only addresses of requests whose key was the configured one
\* meanwhile, or which came while there was none and while none was required.
THEOREM TableVouched == GateSpec => []TableOfVouched
<1>1. GateInit => TableOfVouched
  BY DEF GateInit, Init, TableOfVouched, Members
<1>2. GateSpec => []IInv
  BY GateIsLimiter, SpecIInv
<1>. QED
  BY <1>1, <1>2, GateInitOK, GateNextOK, VouchedNext, PTL DEF GateSpec

===============================================================================
