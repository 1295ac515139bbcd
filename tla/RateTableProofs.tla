--------------------------- MODULE RateTableProofs ---------------------------
(***************************************************************************)
(* What the operations of the table do to a sequence without repetitions.  *)
(***************************************************************************)
EXTENDS RateTable, TLAPS

\* Removing an element that occurs once closes the gap it leaves.
LEMMA WithoutAt ==
  ASSUME NEW K, NEW s \in Seq(K), Distinct(s), NEW p \in 1..Len(s)
  PROVE  /\ Without(s, s[p]) \in Seq(K)
         /\ Len(Without(s, s[p])) = Len(s) - 1
         /\ \A i \in 1..(Len(s) - 1) :
               Without(s, s[p])[i] = IF i < p THEN s[i] ELSE s[i + 1]
<1> DEFINE q == CHOOSE i \in 1..Len(s) : s[i] = s[p]
           w == [i \in 1..(Len(s) - 1) |-> IF i < p THEN s[i] ELSE s[i + 1]]
<1>1. q = p
  BY DEF Distinct
<1>2. Without(s, s[p]) = [i \in 1..(Len(s) - 1) |-> IF i < q THEN s[i] ELSE s[i + 1]]
  BY DEF Without, Members
<1>3. Without(s, s[p]) = w
  BY <1>1, <1>2
<1>4. Len(s) - 1 \in Nat /\ \A i \in 1..(Len(s) - 1) : w[i] \in K
  OBVIOUS
<1>5. w \in Seq(K) /\ Len(w) = Len(s) - 1
  BY <1>4
<1>. QED
  BY <1>3, <1>5

\* A key that is not there is not removed.
LEMMA WithoutAbsent ==
  ASSUME NEW s, NEW k, k \notin Members(s)
  PROVE  Without(s, k) = s
  BY DEF Without

\* Moving a key to the end keeps a sequence free of repetitions.
LEMMA MoveToEndFacts ==
  ASSUME NEW K, NEW s \in Seq(K), NEW k \in K, Distinct(s)
  PROVE  /\ MoveToEnd(s, k) \in Seq(K) /\ Distinct(MoveToEnd(s, k))
         /\ Members(MoveToEnd(s, k)) = Members(s) \cup {k}
         /\ Len(MoveToEnd(s, k)) = IF k \in Members(s) THEN Len(s) ELSE Len(s) + 1
<1>1. CASE k \in Members(s)
  <2>1. PICK p \in 1..Len(s) : s[p] = k
    BY <1>1 DEF Members
  <2> DEFINE w == Without(s, k)
  <2>2. /\ w \in Seq(K) /\ Len(w) = Len(s) - 1
        /\ \A i \in 1..(Len(s) - 1) : w[i] = IF i < p THEN s[i] ELSE s[i + 1]
    BY <2>1, WithoutAt
  <2>3. \A i \in 1..Len(w) : w[i] # k
    BY <2>1, <2>2 DEF Distinct
  <2>4. Distinct(w)
    BY <2>2 DEF Distinct
  <2>5. Members(w) = Members(s) \ {k}
    <3>1. ASSUME NEW j \in 1..Len(s), s[j] # k
          PROVE  \E i \in 1..Len(w) : w[i] = s[j]
      <4>1. CASE j < p
        BY <2>2, <4>1
      <4>2. CASE j > p
        <5>1. j - 1 \in 1..Len(w) /\ w[j - 1] = s[j]
          BY <2>2, <4>2
        <5>. QED
          BY <5>1
      <4>. QED
        BY <2>1, <3>1, <4>1, <4>2
    <3>2. \A i \in 1..Len(w) : \E j \in 1..Len(s) : w[i] = s[j]
      BY <2>2
    <3>. HIDE DEF w
    <3>3. ASSUME NEW x PROVE x \in Members(w) <=> x \in Members(s) /\ x # k
      BY <2>3, <3>1, <3>2 DEF Members
    <3>. QED
      BY <3>3
  <2>. HIDE DEF w
  <2>6. /\ Append(w, k) \in Seq(K) /\ Len(Append(w, k)) = Len(s)
        /\ \A i \in 1..Len(w) : Append(w, k)[i] = w[i]
        /\ Append(w, k)[Len(s)] = k
    BY <2>2
  <2>7. Distinct(Append(w, k))
    BY <2>2, <2>3, <2>4, <2>6 DEF Distinct
  <2>8. Members(Append(w, k)) = Members(w) \cup {k}
    BY <2>2, <2>6 DEF Members
  <2>. QED
    BY <1>1, <2>5, <2>6, <2>7, <2>8 DEF MoveToEnd, w
<1>2. CASE k \notin Members(s)
  <2>1. MoveToEnd(s, k) = Append(s, k)
    BY <1>2, WithoutAbsent DEF MoveToEnd
  <2>2. /\ Append(s, k) \in Seq(K) /\ Len(Append(s, k)) = Len(s) + 1
        /\ \A i \in 1..Len(s) : Append(s, k)[i] = s[i]
        /\ Append(s, k)[Len(s) + 1] = k
    OBVIOUS
  <2>. QED
    BY <1>2, <2>1, <2>2 DEF Distinct, Members
<1>. QED
  BY <1>1, <1>2

\* Evicting the oldest key takes it, and it alone, out of the table.
LEMMA TailFacts ==
  ASSUME NEW K, NEW s \in Seq(K), Distinct(s), s # <<>>
  PROVE  /\ Tail(s) \in Seq(K) /\ Distinct(Tail(s)) /\ Len(Tail(s)) = Len(s) - 1
         /\ Head(s) \in K /\ Members(Tail(s)) = Members(s) \ {Head(s)}
<1>1. /\ Tail(s) \in Seq(K) /\ Len(Tail(s)) = Len(s) - 1 /\ Len(s) >= 1
      /\ Head(s) = s[1] /\ \A i \in 1..(Len(s) - 1) : Tail(s)[i] = s[i + 1]
  OBVIOUS
<1>2. Distinct(Tail(s))
  BY <1>1 DEF Distinct
<1>3. ASSUME NEW x \in Members(s), x # Head(s)
      PROVE  x \in Members(Tail(s))
  <2>1. PICK j \in 1..Len(s) : s[j] = x
    BY DEF Members
  <2>2. j - 1 \in 1..Len(Tail(s)) /\ Tail(s)[j - 1] = x
    BY <1>1, <1>3, <2>1
  <2>. QED
    BY <2>2 DEF Members
<1>4. ASSUME NEW x \in Members(Tail(s))
      PROVE  x \in Members(s) /\ x # Head(s)
  <2>1. PICK i \in 1..(Len(s) - 1) : s[i + 1] = x
    BY <1>1, <1>4 DEF Members
  <2>. QED
    BY <1>1, <2>1 DEF Members, Distinct
<1>5. \A x : x \in Members(Tail(s)) <=> x \in Members(s) /\ x # Head(s)
  BY <1>3, <1>4
<1>. QED
  BY <1>1, <1>2, <1>5

\* A new key goes to the young end.
LEMMA AppendFacts ==
  ASSUME NEW K, NEW s \in Seq(K), NEW k \in K, Distinct(s), k \notin Members(s)
  PROVE  /\ Append(s, k) \in Seq(K) /\ Distinct(Append(s, k))
         /\ Len(Append(s, k)) = Len(s) + 1
         /\ Members(Append(s, k)) = Members(s) \cup {k}
<1>1. Append(s, k) = MoveToEnd(s, k)
  BY WithoutAbsent DEF MoveToEnd
<1>. QED
  BY <1>1, MoveToEndFacts

=============================================================================
