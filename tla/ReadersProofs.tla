---------------------------- MODULE ReadersProofs -----------------------------
(***************************************************************************)
(* Proofs about two readers of line-oriented files in ss_kit: the loader of *)
(* the .env layers a service starts from, and the reader of the forward     *)
(* plan behind the integrity gate and the summary.  Both fold a function    *)
(* over the lines of a file, and the gate searches the tasks by recursion;  *)
(* what the folds and the search yield is shown by induction.               *)
(***************************************************************************)
EXTENDS Startup, Plan,
        WellFoundedInduction, FiniteSetTheorems, SequenceTheorems, TLAPS

(* Numbers *)

\* A nonempty set of numbers has a least one.
LEMMA NatMin ==
  ASSUME NEW S, S \subseteq Nat, S # {}
  PROVE  \E m \in S : \A x \in S : m <= x
<1> DEFINE R == {ss \in Nat \X Nat : ss[1] < ss[2]}
<1>1. IsWellFoundedOn(R, Nat)
  BY NatLessThanWellFounded DEF OpToRel
<1>2. \A x, y \in Nat : <<y, x>> \in R <=> y < x
  OBVIOUS
<1>. HIDE DEF R
<1>3. PICK m \in S : \A y \in S : <<y, m>> \notin R
  BY <1>1, WFMin
<1>4. ASSUME NEW x \in S PROVE m <= x
  <2>1. x \in Nat /\ m \in Nat /\ <<x, m>> \notin R
    BY <1>3
  <2>2. ~(x < m)
    BY <1>2, <2>1
  <2>. QED
    BY <2>1, <2>2
<1>. QED
  BY <1>4

\* A set that holds 0 and, with each number, the next one holds them all: induction, over data,
\* with a set in place of the operator that the provers cannot instantiate.
LEMMA NatSet ==
  ASSUME NEW S, 0 \in S, \A n \in Nat : n \in S => n + 1 \in S
  PROVE  \A n \in Nat : n \in S
<1>1. SUFFICES ASSUME Nat \ S # {} PROVE FALSE
  OBVIOUS
<1>2. PICK m \in Nat \ S : \A x \in Nat \ S : m <= x
  BY <1>1, NatMin
<1>3. m # 0 /\ m - 1 \in Nat /\ m - 1 \in S
  BY <1>2
<1>. QED
  BY <1>2, <1>3

\* A nonempty bounded set of numbers has a greatest one.
LEMMA NatMax ==
  ASSUME NEW S, S \subseteq Nat, S # {}, NEW b \in Nat, \A x \in S : x <= b
  PROVE  \E m \in S : \A x \in S : x <= m
<1> DEFINE U == {n \in Nat : \A x \in S : x <= n}
<1>1. U \subseteq Nat /\ b \in U
  OBVIOUS
<1>2. PICK m \in U : \A n \in U : m <= n
  BY <1>1, NatMin
<1>3. m \in S
  <2>1. SUFFICES ASSUME m \notin S PROVE FALSE
    OBVIOUS
  <2>2. \A x \in S : x \in Nat /\ x <= m /\ x # m
    BY <2>1
  <2>3. m # 0 /\ \A x \in S : x <= m - 1
    <3>1. m \in Nat /\ \E x \in S : TRUE
      OBVIOUS
    <3>. HIDE DEF U
    <3>. QED
      BY <2>2, <3>1
  <2>4. m - 1 \in U
    BY <2>3
  <2>. QED
    BY <1>2, <2>3, <2>4
<1>. QED
  BY <1>2, <1>3

(* Positions *)

Earlier(q, p) == q[1] < p[1] \/ (q[1] = p[1] /\ q[2] < p[2])

\* Of some positions one comes first.
LEMMA FirstPosition ==
  ASSUME NEW D, D \subseteq Nat \X Nat, D # {}
  PROVE  \E p \in D : \A q \in D : ~Earlier(q, p)
<1> DEFINE L == {q[1] : q \in D}
<1>1. L \subseteq Nat /\ L # {}
  OBVIOUS
<1>2. PICK l \in L : \A x \in L : l <= x
  BY <1>1, NatMin
<1> DEFINE I == {q[2] : q \in {r \in D : r[1] = l}}
<1>3. I \subseteq Nat /\ I # {}
  BY <1>2
<1>4. PICK i \in I : \A x \in I : i <= x
  BY <1>3, NatMin
<1>5. PICK p \in D : p[1] = l /\ p[2] = i
  BY <1>4
<1>6. ASSUME NEW q \in D, Earlier(q, p) PROVE FALSE
  BY <1>2, <1>4, <1>5, <1>6 DEF Earlier
<1>. QED
  BY <1>5, <1>6

\* Of some positions in finitely many files of finitely many lines one comes last.
LEMMA LastPosition ==
  ASSUME NEW D, D \subseteq Nat \X Nat, D # {}, NEW a \in Nat, NEW b \in Nat,
         \A q \in D : q[1] <= a /\ q[2] <= b
  PROVE  \E p \in D : \A q \in D : q[1] < p[1] \/ (q[1] = p[1] /\ q[2] <= p[2])
<1> DEFINE L == {q[1] : q \in D}
<1>1. L \subseteq Nat /\ L # {} /\ \A x \in L : x <= a
  OBVIOUS
<1>2. PICK l \in L : \A x \in L : x <= l
  BY <1>1, NatMax
<1> DEFINE I == {q[2] : q \in {r \in D : r[1] = l}}
<1>3. I \subseteq Nat /\ I # {} /\ \A x \in I : x <= b
  BY <1>2
<1>4. PICK i \in I : \A x \in I : x <= i
  BY <1>3, NatMax
<1>5. PICK p \in D : p[1] = l /\ p[2] = i
  BY <1>4
<1>6. ASSUME NEW q \in D PROVE q[1] < p[1] \/ (q[1] = p[1] /\ q[2] <= p[2])
  <2>1. q[1] \in L /\ q[1] <= l
    BY <1>2
  <2>2. q[1] = l => q[2] \in I
    OBVIOUS
  <2>3. q[1] \in Nat /\ l \in Nat
    OBVIOUS
  <2>. QED
    BY <1>4, <1>5, <2>1, <2>2, <2>3
<1>. QED
  BY <1>5, <1>6

(* What was read *)

ReadOf == Seq(Paths \X Seq(Line))

Pos(rd) == {p \in (1..Len(rd)) \X (1..MaxLines) : p[2] <= Len(rd[p[1]][2])}

LineAt(rd, p) == rd[p[1]][2][p[2]]

AssignsIn(P, k, rd) == \E p \in P : LineAt(rd, p).key = k

IsLast(p, P, k, rd) ==
    /\ LineAt(rd, p).key = k
    /\ \A q \in P : LineAt(rd, q).key = k => q[1] < p[1] \/ (q[1] = p[1] /\ q[2] <= p[2])

LastIn(P, k, rd) == CHOOSE p \in P : IsLast(p, P, k, rd)

\* Only one position is the last that assigns a key.
LEMMA LastIs ==
  ASSUME NEW rd, NEW P, P \subseteq Nat \X Nat, NEW k, NEW p \in P, IsLast(p, P, k, rd)
  PROVE  LastIn(P, k, rd) = p
<1>1. ASSUME NEW q \in P, IsLast(q, P, k, rd) PROVE q = p
  <2>1. p \in Nat \X Nat /\ q \in Nat \X Nat
    OBVIOUS
  <2>2. p[1] = q[1] /\ p[2] = q[2]
    BY <1>1, <2>1 DEF IsLast
  <2>. QED
    BY <2>1, <2>2
<1>. QED
  BY <1>1 DEF LastIn

\* A key assigned within some positions has a last line that assigns it.
LEMMA LastExists ==
  ASSUME MaxLines \in Nat, NEW rd, Len(rd) \in Nat, NEW P, P \subseteq Pos(rd), NEW k, AssignsIn(P, k, rd)
  PROVE  LastIn(P, k, rd) \in P /\ IsLast(LastIn(P, k, rd), P, k, rd)
<1> DEFINE D == {p \in P : LineAt(rd, p).key = k}
<1>1. D \subseteq Nat \X Nat /\ D # {} /\ \A q \in D : q[1] <= Len(rd) /\ q[2] <= MaxLines
  BY DEF AssignsIn, Pos
<1>2. PICK p \in D : \A q \in D : q[1] < p[1] \/ (q[1] = p[1] /\ q[2] <= p[2])
  BY <1>1, LastPosition
<1>3. p \in P /\ IsLast(p, P, k, rd)
  BY <1>2 DEF IsLast
<1>. QED
  BY <1>3 DEF LastIn

\* What position p means when the positions before it mean f (see Meaning).
Above(p, rd) == {q \in Pos(rd) : q[1] = p[1] /\ q[2] < p[2]}
Lower(p, rd) == {q \in Pos(rd) : q[1] < p[1]}

RefMeans(f, r, p, rd, env) ==
    IF AssignsIn(Above(p, rd), r.ref, rd)
    THEN IF f[LastIn(Above(p, rd), r.ref, rd)] = Bare THEN r.default
         ELSE f[LastIn(Above(p, rd), r.ref, rd)]
    ELSE IF r.ref \in DOMAIN env THEN env[r.ref]
    ELSE IF AssignsIn(Lower(p, rd), r.ref, rd) THEN Text(f[LastIn(Lower(p, rd), r.ref, rd)])
    ELSE r.default

LineMeans(f, p, rd, env) ==
    CASE LineAt(rd, p).kind = "bare"    -> Bare
      [] LineAt(rd, p).kind = "literal" -> LineAt(rd, p).text
      [] LineAt(rd, p).kind = "expand"  ->
            FlattenSeq([i \in DOMAIN LineAt(rd, p).text |->
                IF LineAt(rd, p).text[i] \in Atoms THEN <<LineAt(rd, p).text[i]>>
                ELSE RefMeans(f, LineAt(rd, p).text[i], p, rd, env)])

Means(f, rd, env) == f = [p \in Pos(rd) |-> LineMeans(f, p, rd, env)]

\* What was read up to p, and what the positions before it mean, are the same.
SameUpTo(p, f, rd, g, rd2) ==
    /\ Len(rd) \in Nat /\ Len(rd2) \in Nat
    /\ p \in Pos(rd) /\ p[1] <= Len(rd2) /\ \A l \in 1..p[1] : rd2[l] = rd[l]
    /\ \A q \in Pos(rd) : Earlier(q, p) => f[q] = g[q]

\* What a line means depends on the lines before it only.
LEMMA LineMeansSame ==
  ASSUME MaxLines \in Nat, NEW p, NEW f, NEW rd, NEW g, NEW rd2, NEW env,
         SameUpTo(p, f, rd, g, rd2)
  PROVE  LineMeans(f, p, rd, env) = LineMeans(g, p, rd2, env)
<1>0. /\ Len(rd) \in Nat /\ Len(rd2) \in Nat
      /\ p \in Pos(rd) /\ p[1] <= Len(rd2) /\ \A l \in 1..p[1] : rd2[l] = rd[l]
      /\ \A q \in Pos(rd) : Earlier(q, p) => f[q] = g[q]
  BY DEF SameUpTo
<1>1. p \in Nat \X Nat /\ p[1] \in 1..p[1] /\ LineAt(rd, p) = LineAt(rd2, p)
  BY <1>0 DEF Pos, LineAt
<1>2. ASSUME NEW q, q[1] \in Nat, q[1] <= p[1] PROVE q \in Pos(rd) <=> q \in Pos(rd2)
  <2>1. CASE q[1] \in 1..p[1]
    <3>1. rd[q[1]] = rd2[q[1]] /\ p[1] <= Len(rd)
      BY <1>0, <2>1 DEF Pos
    <3>. QED
      BY <1>0, <1>1, <2>1, <3>1 DEF Pos
  <2>2. CASE q[1] \notin 1..p[1]
    BY <1>0, <1>1, <1>2, <2>2 DEF Pos
  <2>. QED
    BY <2>1, <2>2
<1>3. Above(p, rd) = Above(p, rd2) /\ Lower(p, rd) = Lower(p, rd2)
  <2>1. \A q : q \in Pos(rd) \/ q \in Pos(rd2) => q[1] \in Nat
    BY DEF Pos
  <2>. QED
    BY <1>1, <1>2, <2>1 DEF Above, Lower
<1>4. \A q \in Above(p, rd) \cup Lower(p, rd) : LineAt(rd, q) = LineAt(rd2, q)
  <2>1. \A q \in Above(p, rd) \cup Lower(p, rd) : q[1] \in 1..p[1]
    BY <1>0, <1>1 DEF Above, Lower, Pos
  <2>. QED
    BY <1>0, <2>1 DEF LineAt
<1>5. ASSUME NEW k, NEW P, P \subseteq Above(p, rd) \cup Lower(p, rd)
      PROVE  AssignsIn(P, k, rd) = AssignsIn(P, k, rd2) /\ LastIn(P, k, rd) = LastIn(P, k, rd2)
  <2>1. \A q \in P : IsLast(q, P, k, rd) <=> IsLast(q, P, k, rd2)
    BY <1>4, <1>5 DEF IsLast
  <2>2. AssignsIn(P, k, rd) = AssignsIn(P, k, rd2)
    BY <1>4, <1>5 DEF AssignsIn
  <2>. QED
    BY <2>1, <2>2 DEF LastIn
<1>6. ASSUME NEW k, NEW P, P \subseteq Above(p, rd) \cup Lower(p, rd), AssignsIn(P, k, rd)
      PROVE  f[LastIn(P, k, rd)] = g[LastIn(P, k, rd)]
  <2>1. P \subseteq Pos(rd)
    BY <1>6 DEF Above, Lower
  <2>2. LastIn(P, k, rd) \in P
    BY <1>0, <1>6, <2>1, LastExists
  <2>. QED
    BY <1>0, <1>6, <2>1, <2>2 DEF Earlier, Above, Lower
<1>7. ASSUME NEW r PROVE RefMeans(f, r, p, rd, env) = RefMeans(g, r, p, rd2, env)
  <2>1. /\ AssignsIn(Above(p, rd), r.ref, rd) = AssignsIn(Above(p, rd2), r.ref, rd2)
        /\ LastIn(Above(p, rd), r.ref, rd) = LastIn(Above(p, rd2), r.ref, rd2)
        /\ AssignsIn(Lower(p, rd), r.ref, rd) = AssignsIn(Lower(p, rd2), r.ref, rd2)
        /\ LastIn(Lower(p, rd), r.ref, rd) = LastIn(Lower(p, rd2), r.ref, rd2)
    BY <1>3, <1>5
  <2>2. /\ AssignsIn(Above(p, rd), r.ref, rd)
              => f[LastIn(Above(p, rd), r.ref, rd)] = g[LastIn(Above(p, rd), r.ref, rd)]
        /\ AssignsIn(Lower(p, rd), r.ref, rd)
              => f[LastIn(Lower(p, rd), r.ref, rd)] = g[LastIn(Lower(p, rd), r.ref, rd)]
    BY <1>6
  <2>. QED
    BY <2>1, <2>2 DEF RefMeans
<1>. QED
  BY <1>1, <1>7 DEF LineMeans

\* The files that were read have one meaning.
LEMMA MeansUnique ==
  ASSUME MaxLines \in Nat, NEW rd, Len(rd) \in Nat, NEW env, NEW f, NEW g,
         Means(f, rd, env), Means(g, rd, env)
  PROVE  f = g
<1> DEFINE D == {p \in Pos(rd) : f[p] # g[p]}
<1>1. SUFFICES ASSUME D # {} PROVE FALSE
  BY DEF Means
<1>2. D \subseteq Nat \X Nat
  BY DEF Pos
<1>3. PICK p \in D : \A q \in D : ~Earlier(q, p)
  BY <1>1, <1>2, FirstPosition
<1>4. p \in Pos(rd) /\ p[1] <= Len(rd) /\ \A q \in Pos(rd) : Earlier(q, p) => f[q] = g[q]
  BY <1>3 DEF Pos
<1>5. LineMeans(f, p, rd, env) = LineMeans(g, p, rd, env)
  BY <1>4, LineMeansSame DEF SameUpTo
<1>. QED
  BY <1>3, <1>5 DEF Means

(* The fold over the content of a file *)

\* A greatest element is the maximum.
LEMMA MaxIs ==
  ASSUME NEW S, S \subseteq Int, NEW m \in S, \A y \in S : y <= m
  PROVE  Max(S) = m
<1>1. \A x \in S : (\A y \in S : x >= y) => x = m
  OBVIOUS
<1>2. \A y \in S : m >= y
  OBVIOUS
<1>. QED
  BY <1>1, <1>2 DEF Max

\* The fold over the lines of a file, line by line.
LEMMA ParseUnfolds ==
  ASSUME NEW content, NEW n \in Nat, DOMAIN content = 1..n, NEW env
  PROVE  \E p : /\ p[0] = NoValues
                /\ \A i \in 1..n : p[i] = Assigned(content[i], p[i - 1], env)
                /\ ParseEnvText(content, env) = p[n]
<1> DEFINE F(g, s) == IF s = {} THEN NoValues ELSE Assigned(content[Max(s)], g[s \ {Max(s)}], env)
           iter == CHOOSE g : g = [s \in SUBSET (1..n) |-> F(g, s)]
           Exists(m) == \E g : g = [s \in SUBSET (1..m) |-> F(g, s)]
           E == {m \in Nat : Exists(m)}
<1>1. ParseEnvText(content, env) = iter[1..n]
  BY DEF ParseEnvText, FoldLeft, MapThenFoldSet, Assigned
<1>2. n \in E
  <2>1. 0 \in E
    <3> DEFINE g == [s \in SUBSET (1..0) |-> NoValues]
    <3>1. SUBSET (1..0) = {{}}
      OBVIOUS
    <3>2. g = [s \in SUBSET (1..0) |-> F(g, s)]
      BY <3>1
    <3>. QED
      BY <3>2
  <2>2. ASSUME NEW m \in Nat, m \in E PROVE m + 1 \in E
    <3>1. PICK g : g = [s \in SUBSET (1..m) |-> F(g, s)]
      BY <2>2
    <3> DEFINE h == [s \in SUBSET (1..(m + 1)) |->
                       IF m + 1 \in s THEN Assigned(content[m + 1], g[s \ {m + 1}], env) ELSE g[s]]
    <3>2. ASSUME NEW s \in SUBSET (1..(m + 1)) PROVE h[s] = F(h, s)
      <4>1. CASE m + 1 \in s
        <5>1. Max(s) = m + 1
          <6>1. s \subseteq Int /\ \A y \in s : y <= m + 1
            OBVIOUS
          <6>. QED
            BY <4>1, <6>1, MaxIs
        <5>2. s \ {m + 1} \in SUBSET (1..m)
          OBVIOUS
        <5>3. h[s \ {m + 1}] = g[s \ {m + 1}]
          BY <5>2
        <5>. QED
          BY <4>1, <5>1, <5>3
      <4>2. CASE m + 1 \notin s
        <5>1. s \in SUBSET (1..m) /\ s \ {Max(s)} \in SUBSET (1..m)
          <6>1. \A y \in s : y \in 1..m
            BY <4>2
          <6>. QED
            BY <6>1
        <5>2. h[s] = g[s] /\ h[s \ {Max(s)}] = g[s \ {Max(s)}]
          BY <4>2, <5>1
        <5>3. g[s] = F(g, s)
          BY <3>1, <5>1
        <5>. QED
          BY <5>2, <5>3
      <4>. QED
        BY <4>1, <4>2
    <3>3. h = [s \in SUBSET (1..(m + 1)) |-> F(h, s)]
      BY <3>2
    <3>. HIDE DEF h
    <3>4. Exists(m + 1)
      BY <3>3
    <3>. HIDE DEF Exists
    <3>. QED
      BY <3>4
  <2>. HIDE DEF E
  <2>. QED
    BY <2>1, <2>2, NatSet
<1>3. iter = [s \in SUBSET (1..n) |-> F(iter, s)]
  BY <1>2
<1>. HIDE DEF iter, E
<1> DEFINE p == [i \in 0..n |-> iter[1..i]]
<1>4. p[0] = NoValues
  <2>1. 1..0 = {} /\ {} \in SUBSET (1..n)
    OBVIOUS
  <2>. QED
    BY <1>3, <2>1
<1>5. ASSUME NEW i \in 1..n PROVE p[i] = Assigned(content[i], p[i - 1], env)
  <2>1. 1..i \in SUBSET (1..n) /\ 1..i # {}
    OBVIOUS
  <2>2. Max(1..i) = i
    <3>1. 1..i \subseteq Int /\ i \in 1..i /\ \A y \in 1..i : y <= i
      OBVIOUS
    <3>. QED
      BY <3>1, MaxIs
  <2>3. (1..i) \ {i} = 1..(i - 1)
    OBVIOUS
  <2>4. iter[1..i] = F(iter, 1..i)
    BY <1>3, <2>1
  <2>5. p[i] = iter[1..i] /\ p[i - 1] = iter[1..(i - 1)]
    OBVIOUS
  <2>. HIDE DEF p
  <2>. QED
    BY <2>1, <2>2, <2>3, <2>4, <2>5
<1>6. p[n] = iter[1..n]
  OBVIOUS
<1>. HIDE DEF p
<1>. QED
  BY <1>1, <1>4, <1>5, <1>6

(* Dictionaries *)

\* A dictionary laid over another keeps its own values and adds the other's.
LEMMA OverFacts ==
  ASSUME NEW f, NEW g
  PROVE  /\ DOMAIN Over(f, g) = DOMAIN f \cup DOMAIN g
         /\ \A k \in DOMAIN f : Over(f, g)[k] = f[k]
         /\ \A k \in DOMAIN g \ DOMAIN f : Over(f, g)[k] = g[k]
BY DEF Over

\* A line sets its key and removes none.
LEMMA AssignedKeys ==
  ASSUME NEW line, NEW values, NEW env
  PROVE  DOMAIN Assigned(line, values, env) = {line.key} \cup DOMAIN values
BY DEF Assigned, Over

\* The key of a line gets the value of the line.
LEMMA AssignedKey ==
  ASSUME NEW line, NEW values, NEW env
  PROVE  Assigned(line, values, env)[line.key] = LineValue(line, values, env)
BY DEF Assigned, Over

\* The other keys keep theirs.
LEMMA AssignedOther ==
  ASSUME NEW line, NEW values, NEW env, NEW k \in DOMAIN values, k # line.key
  PROVE  Assigned(line, values, env)[k] = values[k]
BY DEF Assigned, Over

\* The dictionary d holds for each key of the first i lines the value w of its last line.
Holds(d, content, w, i) ==
    /\ DOMAIN d = {content[j].key : j \in 1..i}
    /\ \A k \in DOMAIN d : \E j \in 1..i :
          /\ content[j].key = k /\ d[k] = w[j]
          /\ \A h \in (j + 1)..i : content[h].key # k

\* One more line: the dictionary still holds the value of the last line of each key.
LEMMA HoldsNext ==
  ASSUME NEW i \in Nat, NEW content, NEW w, NEW d, NEW env, Holds(d, content, w, i),
         w[i + 1] = LineValue(content[i + 1], d, env)
  PROVE  Holds(Assigned(content[i + 1], d, env), content, w, i + 1)
<1>0. PICK e : e = Assigned(content[i + 1], d, env)
  OBVIOUS
<1>1. /\ DOMAIN e = {content[i + 1].key} \cup DOMAIN d
      /\ e[content[i + 1].key] = LineValue(content[i + 1], d, env)
      /\ \A k \in DOMAIN d : k # content[i + 1].key => e[k] = d[k]
  <2>1. DOMAIN e = {content[i + 1].key} \cup DOMAIN d
    BY <1>0, AssignedKeys
  <2>2. e[content[i + 1].key] = LineValue(content[i + 1], d, env)
    BY <1>0, AssignedKey
  <2>3. ASSUME NEW k \in DOMAIN d, k # content[i + 1].key PROVE e[k] = d[k]
    BY <1>0, <2>3, AssignedOther
  <2>. QED
    BY <2>1, <2>2, <2>3
<1>2. 1..(i + 1) = (1..i) \cup {i + 1}
  OBVIOUS
<1>3. DOMAIN e = {content[j].key : j \in 1..(i + 1)}
  BY <1>1, <1>2 DEF Holds
<1>4. ASSUME NEW k \in DOMAIN e
      PROVE  \E j \in 1..(i + 1) : /\ content[j].key = k /\ e[k] = w[j]
                                    /\ \A h \in (j + 1)..(i + 1) : content[h].key # k
  <2>1. CASE k = content[i + 1].key
    BY <1>1, <2>1
  <2>2. CASE k # content[i + 1].key
    <3>1. PICK j \in 1..i : /\ content[j].key = k /\ d[k] = w[j]
                            /\ \A h \in (j + 1)..i : content[h].key # k
      BY <1>1, <2>2 DEF Holds
    <3>2. \A h \in (j + 1)..(i + 1) : h \in (j + 1)..i \/ h = i + 1
      OBVIOUS
    <3>3. k \in DOMAIN d
      BY <1>1, <2>2
    <3>. QED
      BY <1>1, <2>2, <3>1, <3>2, <3>3
  <2>. QED
    BY <2>1, <2>2
<1>. QED
  BY <1>0, <1>3, <1>4 DEF Holds

\* m holds for each key that was read what the last position that assigns it means.
Reads(m, f, rd) ==
    /\ \A k : k \in DOMAIN m <=> AssignsIn(Pos(rd), k, rd)
    /\ \A k \in DOMAIN m : m[k] = f[LastIn(Pos(rd), k, rd)]

\* The positions of a layer that is read next.
LEMMA NextLayer ==
  ASSUME NEW rd \in ReadOf, NEW path, NEW content \in Seq(Line), Len(content) <= MaxLines,
         MaxLines \in Nat
  PROVE  LET n == Len(rd) + 1 rd2 == Append(rd, <<path, content>>) IN
         /\ Len(rd2) = n /\ \A l \in 1..Len(rd) : rd2[l] = rd[l]
         /\ Pos(rd2) = Pos(rd) \cup {<<n, j>> : j \in 1..Len(content)}
         /\ \A p \in Pos(rd) : p[1] \in 1..Len(rd) /\ LineAt(rd2, p) = LineAt(rd, p)
         /\ \A j \in 1..Len(content) : LineAt(rd2, <<n, j>>) = content[j]
<1> DEFINE n == Len(rd) + 1
           rd2 == Append(rd, <<path, content>>)
<1>1. /\ Len(rd2) = n /\ Len(rd) \in Nat /\ rd2[n] = <<path, content>>
      /\ \A l \in 1..Len(rd) : rd2[l] = rd[l]
  BY DEF ReadOf
<1>. HIDE DEF rd2
<1>2. \A p \in Pos(rd) : p[1] \in 1..Len(rd) /\ LineAt(rd2, p) = LineAt(rd, p)
  BY <1>1 DEF Pos, LineAt
<1>3. \A j \in 1..Len(content) : LineAt(rd2, <<n, j>>) = content[j]
  BY <1>1 DEF LineAt
<1>4. ASSUME NEW p \in Pos(rd2) PROVE p \in Pos(rd) \cup {<<n, j>> : j \in 1..Len(content)}
  <2>1. p \in (1..n) \X (1..MaxLines) /\ p[2] <= Len(rd2[p[1]][2])
    BY <1>1 DEF Pos
  <2>2. CASE p[1] = n
    BY <1>1, <2>1, <2>2
  <2>3. CASE p[1] # n
    <3>1. p[1] \in 1..Len(rd)
      BY <1>1, <2>1, <2>3
    <3>. QED
      BY <1>1, <2>1, <3>1 DEF Pos
  <2>. QED
    BY <2>2, <2>3
<1>5. ASSUME NEW p \in Pos(rd) PROVE p \in Pos(rd2)
  <2>1. p \in (1..Len(rd)) \X (1..MaxLines) /\ p[2] <= Len(rd[p[1]][2])
    BY DEF Pos
  <2>2. p \in (1..n) \X (1..MaxLines) /\ rd2[p[1]] = rd[p[1]]
    BY <1>1, <2>1
  <2>. QED
    BY <1>1, <2>1, <2>2 DEF Pos
<1>6. ASSUME NEW j \in 1..Len(content) PROVE <<n, j>> \in Pos(rd2)
  <2>1. <<n, j>> \in (1..n) \X (1..MaxLines)
    BY <1>1
  <2>2. rd2[n][2] = content
    BY <1>1
  <2>. QED
    BY <1>1, <2>1, <2>2 DEF Pos
<1>7. Pos(rd2) = Pos(rd) \cup {<<n, j>> : j \in 1..Len(content)}
  BY <1>4, <1>5, <1>6
<1>. QED
  BY <1>1, <1>2, <1>3, <1>7 DEF rd2

\* A line is expanded against the lines above it, the environment and the layers below.
Expanding(i, content, rd, rd2, f, d, m) ==
    /\ rd \in ReadOf /\ content \in Seq(Line) /\ Len(content) <= MaxLines /\ i \in 1..Len(content)
    /\ \E path : rd2 = Append(rd, <<path, content>>)
    /\ \E w : /\ Holds(d, content, w, i - 1)
              /\ \A j \in 1..(i - 1) : w[j] = f[<<Len(rd) + 1, j>>]
    /\ Reads(m, f, rd)

\* Its value is what its position means.
LEMMA LineIsMeaning ==
  ASSUME MaxLines \in Nat, Bare \notin Value,
         NEW env, \A k \in DOMAIN env : env[k] # Bare,
         NEW i, NEW content, NEW rd, NEW rd2, NEW f, NEW d, NEW m,
         Expanding(i, content, rd, rd2, f, d, m)
  PROVE  LineValue(content[i], d, Context(m, env)) = LineMeans(f, <<Len(rd) + 1, i>>, rd2, env)
<1>0. /\ rd \in ReadOf /\ content \in Seq(Line) /\ Len(content) <= MaxLines /\ i \in 1..Len(content)
      /\ Reads(m, f, rd)
  BY DEF Expanding
<1>n. PICK n : n = Len(rd) + 1
  OBVIOUS
<1>w. PICK w : Holds(d, content, w, i - 1) /\ \A j \in 1..(i - 1) : w[j] = f[<<n, j>>]
  BY <1>n DEF Expanding
<1> DEFINE p == <<n, i>>
           new == {<<n, j>> : j \in 1..Len(content)}
<1>1. /\ Len(rd2) = n /\ Len(rd) \in Nat /\ n = Len(rd) + 1
      /\ Pos(rd2) = Pos(rd) \cup new
      /\ \A q \in Pos(rd) : q[1] \in 1..Len(rd) /\ LineAt(rd2, q) = LineAt(rd, q)
      /\ \A j \in 1..Len(content) : LineAt(rd2, <<n, j>>) = content[j]
  <2>1. Len(rd) \in Nat
    BY <1>0 DEF ReadOf
  <2>2. PICK path : rd2 = Append(rd, <<path, content>>)
    BY DEF Expanding
  <2>. QED
    BY <1>0, <1>n, <2>1, <2>2, NextLayer
<1>2. Above(p, rd2) = {<<n, j>> : j \in 1..(i - 1)}
  <2>1. \A q \in Pos(rd) : q[1] # n
    BY <1>1
  <2>2. Above(p, rd2) = {q \in new : q[2] < i}
    BY <1>1, <2>1 DEF Above
  <2>3. Len(content) \in Nat /\ i \in 1..Len(content)
    BY <1>0
  <2>. QED
    BY <2>2, <2>3
<1>3. Lower(p, rd2) = Pos(rd)
  <2>1. \A q \in Pos(rd) : q[1] < n
    BY <1>1
  <2>2. \A q \in new : ~(q[1] < n)
    BY <1>1
  <2>. QED
    BY <1>1, <2>1, <2>2 DEF Lower
<1>. HIDE DEF p, new
<1>4. ASSUME NEW k, k \in DOMAIN d
      PROVE  AssignsIn(Above(p, rd2), k, rd2) /\ f[LastIn(Above(p, rd2), k, rd2)] = d[k]
  <2>1. PICK j \in 1..(i - 1) : /\ content[j].key = k /\ d[k] = w[j]
                                /\ \A h \in (j + 1)..(i - 1) : content[h].key # k
    BY <1>4, <1>w DEF Holds
  <2>2. PICK a : a = <<n, j>>
    OBVIOUS
  <2>3. a \in Above(p, rd2) /\ Above(p, rd2) \subseteq Nat \X Nat
    BY <1>1, <1>2, <2>2
  <2>4. \A h \in 1..(i - 1) : LineAt(rd2, <<n, h>>) = content[h]
    BY <1>0, <1>1
  <2>5. IsLast(a, Above(p, rd2), k, rd2)
    <3>1. ASSUME NEW q \in Above(p, rd2), LineAt(rd2, q).key = k
          PROVE  q[1] = a[1] /\ q[2] <= a[2]
      <4>1. PICK h \in 1..(i - 1) : q = <<n, h>>
        BY <1>2
      <4>2. content[h].key = k
        BY <2>4, <3>1, <4>1
      <4>3. h <= j
        BY <2>1, <4>2
      <4>. QED
        BY <2>2, <4>1, <4>3
    <3>2. LineAt(rd2, a).key = k
      BY <2>1, <2>2, <2>4
    <3>. QED
      BY <3>1, <3>2 DEF IsLast
  <2>6. LastIn(Above(p, rd2), k, rd2) = a
    BY <2>3, <2>5, LastIs
  <2>. QED
    BY <1>w, <2>1, <2>2, <2>3, <2>5, <2>6 DEF IsLast, AssignsIn
<1>5. ASSUME NEW k, k \notin DOMAIN d PROVE ~AssignsIn(Above(p, rd2), k, rd2)
  <2>1. \A h \in 1..(i - 1) : LineAt(rd2, <<n, h>>).key # k
    BY <1>0, <1>1, <1>5, <1>w DEF Holds
  <2>. QED
    BY <1>2, <2>1 DEF AssignsIn
<1>6. ASSUME NEW k
      PROVE  /\ AssignsIn(Lower(p, rd2), k, rd2) <=> k \in DOMAIN m
             /\ k \in DOMAIN m => f[LastIn(Lower(p, rd2), k, rd2)] = m[k]
  <2>1. AssignsIn(Pos(rd), k, rd2) = AssignsIn(Pos(rd), k, rd)
    BY <1>1 DEF AssignsIn
  <2>2. \A q \in Pos(rd) : IsLast(q, Pos(rd), k, rd2) <=> IsLast(q, Pos(rd), k, rd)
    BY <1>1 DEF IsLast
  <2>3. LastIn(Pos(rd), k, rd2) = LastIn(Pos(rd), k, rd)
    BY <2>2 DEF LastIn
  <2>. QED
    BY <1>0, <1>3, <2>1, <2>3 DEF Reads
<1>7. ASSUME NEW r
      PROVE  (IF Found(r.ref, d, Context(m, env)) = Bare THEN r.default
              ELSE Found(r.ref, d, Context(m, env))) = RefMeans(f, r, p, rd2, env)
  <2>1. CASE r.ref \in DOMAIN d
    <3>1. Found(r.ref, d, Context(m, env)) = d[r.ref]
      BY <2>1 DEF Found
    <3>. QED
      BY <1>4, <2>1, <3>1 DEF RefMeans
  <2>2. CASE r.ref \notin DOMAIN d
    <3>1. Context(m, env) = [k \in DOMAIN env \cup DOMAIN m |->
                               IF k \in DOMAIN env THEN env[k] ELSE Text(m[k])]
      BY DEF Context, Over
    <3>2. ~AssignsIn(Above(p, rd2), r.ref, rd2)
      BY <1>5, <2>2
    <3>3. CASE r.ref \in DOMAIN env
      <4>1. Found(r.ref, d, Context(m, env)) = env[r.ref]
        BY <2>2, <3>1, <3>3 DEF Found
      <4>. QED
        BY <3>2, <3>3, <4>1 DEF RefMeans
    <3>4. CASE r.ref \notin DOMAIN env /\ r.ref \in DOMAIN m
      <4>1. Found(r.ref, d, Context(m, env)) = Text(m[r.ref])
        BY <2>2, <3>1, <3>4 DEF Found
      <4>2. Text(m[r.ref]) # Bare
        <5>1. <<>> \in Value
          BY DEF Value
        <5>. QED
          BY <5>1 DEF Text
      <4>3. /\ AssignsIn(Lower(p, rd2), r.ref, rd2)
            /\ f[LastIn(Lower(p, rd2), r.ref, rd2)] = m[r.ref]
        BY <1>6, <3>4
      <4>. QED
        BY <3>2, <3>4, <4>1, <4>2, <4>3 DEF RefMeans
    <3>5. CASE r.ref \notin DOMAIN env /\ r.ref \notin DOMAIN m
      <4>1. Found(r.ref, d, Context(m, env)) = Bare
        BY <2>2, <3>1, <3>5 DEF Found
      <4>2. ~AssignsIn(Lower(p, rd2), r.ref, rd2)
        BY <1>6, <3>5
      <4>. QED
        BY <3>2, <3>5, <4>1, <4>2 DEF RefMeans
    <3>. QED
      BY <3>3, <3>4, <3>5
  <2>. QED
    BY <2>1, <2>2
<1>8. LineAt(rd2, p) = content[i] /\ content[i] \in Line
  BY <1>0, <1>1 DEF p
<1>9. content[i].kind \in {"expand", "literal", "bare"}
  BY <1>8 DEF Line
<1>10. Expand(content[i].text, d, Context(m, env))
         = FlattenSeq([h \in DOMAIN content[i].text |->
               IF content[i].text[h] \in Atoms THEN <<content[i].text[h]>>
               ELSE RefMeans(f, content[i].text[h], p, rd2, env)])
  BY <1>7 DEF Expand
<1>11. LineValue(content[i], d, Context(m, env)) = LineMeans(f, p, rd2, env)
  <2>1. CASE content[i].kind = "bare"
    BY <1>8, <2>1 DEF LineValue, LineMeans
  <2>2. CASE content[i].kind = "literal"
    BY <1>8, <2>2 DEF LineValue, LineMeans
  <2>3. CASE content[i].kind = "expand"
    BY <1>8, <1>10, <2>3 DEF LineValue, LineMeans
  <2>. QED
    BY <1>9, <2>1, <2>2, <2>3
<1>. QED
  BY <1>n, <1>11 DEF p

\* Reading one more layer keeps the dictionary in step with the meaning.
LEMMA LayerRead ==
  ASSUME NEW rd \in ReadOf, NEW path, NEW content \in Seq(Line), Len(content) <= MaxLines,
         MaxLines \in Nat, Bare \notin Value,
         NEW env, \A k \in DOMAIN env : env[k] # Bare,
         NEW f, NEW m, Means(f, rd, env), Reads(m, f, rd)
  PROVE  \E g : /\ Means(g, Append(rd, <<path, content>>), env)
                /\ Reads(Merge(m, content, env), g, Append(rd, <<path, content>>))
<1>0. PICK n, rd2 : n = Len(rd) + 1 /\ rd2 = Append(rd, <<path, content>>)
  OBVIOUS
<1> DEFINE new == {<<n, j>> : j \in 1..Len(content)}
<1>1. /\ Len(rd2) = n /\ Len(rd) \in Nat /\ n = Len(rd) + 1
      /\ Pos(rd2) = Pos(rd) \cup new
      /\ \A q \in Pos(rd) : q[1] \in 1..Len(rd) /\ LineAt(rd2, q) = LineAt(rd, q)
      /\ \A j \in 1..Len(content) : LineAt(rd2, <<n, j>>) = content[j]
      /\ \A l \in 1..Len(rd) : rd2[l] = rd[l]
  <2>1. Len(rd) \in Nat
    BY DEF ReadOf
  <2>. QED
    BY <1>0, <2>1, NextLayer
<1>2. Len(content) \in Nat /\ DOMAIN content = 1..Len(content)
  OBVIOUS
<1>3. PICK ctx : ctx = Context(m, env)
  OBVIOUS
<1>4. PICK d : /\ d[0] = NoValues
               /\ \A i \in 1..Len(content) : d[i] = Assigned(content[i], d[i - 1], ctx)
               /\ ParseEnvText(content, ctx) = d[Len(content)]
  BY <1>2, ParseUnfolds
<1> DEFINE w == [j \in 1..Len(content) |-> LineValue(content[j], d[j - 1], ctx)]
<1>5. PICK g : g = [p \in Pos(rd2) |-> IF p[1] = n THEN w[p[2]] ELSE f[p]]
  OBVIOUS
<1>6. /\ \A j \in 1..Len(content) : g[<<n, j>>] = w[j]
      /\ \A p \in Pos(rd) : g[p] = f[p]
  <2>1. \A p \in Pos(rd) : p \in Pos(rd2) /\ p[1] # n
    BY <1>1
  <2>2. \A j \in 1..Len(content) : <<n, j>> \in Pos(rd2)
    BY <1>1
  <2>. HIDE DEF w, new
  <2>. QED
    BY <1>5, <2>1, <2>2
<1>7. \A j \in 1..Len(content) : w[j] = LineValue(content[j], d[j - 1], ctx)
  OBVIOUS
<1>. HIDE DEF w, new
<1>8. \A i \in Nat : i <= Len(content) => Holds(d[i], content, w, i)
  <2> DEFINE S == {i \in Nat : i <= Len(content) => Holds(d[i], content, w, i)}
  <2>1. 0 \in S
    <3>1. DOMAIN NoValues = {}
      BY DEF NoValues
    <3>. QED
      BY <1>4, <3>1 DEF Holds
  <2>2. ASSUME NEW i \in Nat, i \in S PROVE i + 1 \in S
    <3>1. SUFFICES ASSUME i + 1 <= Len(content) PROVE Holds(d[i + 1], content, w, i + 1)
      OBVIOUS
    <3>2. i <= Len(content) /\ i + 1 \in 1..Len(content) /\ (i + 1) - 1 = i
      BY <1>2, <3>1
    <3>3. Holds(d[i], content, w, i)
      BY <2>2, <3>2
    <3>4. w[i + 1] = LineValue(content[i + 1], d[i], ctx)
      BY <1>7, <3>2
    <3>5. d[i + 1] = Assigned(content[i + 1], d[i], ctx)
      BY <1>4, <3>2
    <3>. QED
      BY <3>3, <3>4, <3>5, HoldsNext
  <2>. HIDE DEF S
  <2>3. \A i \in Nat : i \in S
    BY <2>1, <2>2, NatSet
  <2>. QED
    BY <2>3 DEF S
<1>9. Means(g, rd2, env)
  <2>1. ASSUME NEW p \in Pos(rd) PROVE g[p] = LineMeans(g, p, rd2, env)
    <3>1. p[1] \in 1..Len(rd) /\ \A l \in 1..p[1] : rd2[l] = rd[l]
      BY <1>1
    <3>2. LineMeans(f, p, rd, env) = LineMeans(g, p, rd2, env)
      <4>1. Len(rd2) \in Nat /\ p[1] <= Len(rd2)
        BY <1>1, <3>1
      <4>2. \A q \in Pos(rd) : Earlier(q, p) => f[q] = g[q]
        BY <1>6
      <4>3. Len(rd) \in Nat /\ \A l \in 1..p[1] : rd2[l] = rd[l]
        BY <1>1, <3>1
      <4>. QED
        BY <4>1, <4>2, <4>3, LineMeansSame DEF SameUpTo
    <3>. QED
      BY <1>6, <3>2 DEF Means
  <2>2. ASSUME NEW i \in 1..Len(content) PROVE g[<<n, i>>] = LineMeans(g, <<n, i>>, rd2, env)
    <3>1. i - 1 \in Nat /\ i - 1 <= Len(content)
      BY <1>2
    <3>2. Holds(d[i - 1], content, w, i - 1)
      BY <1>8, <3>1
    <3>3. \A j \in 1..(i - 1) : w[j] = g[<<n, j>>]
      BY <1>2, <1>6
    <3>4. Reads(m, g, rd)
      <4>1. ASSUME NEW k \in DOMAIN m PROVE LastIn(Pos(rd), k, rd) \in Pos(rd)
        BY <1>1, LastExists DEF Reads
      <4>. QED
        BY <1>6, <4>1 DEF Reads
    <3>5. LineValue(content[i], d[i - 1], ctx) = LineMeans(g, <<n, i>>, rd2, env)
      <4>1. PICK e : e = d[i - 1]
        OBVIOUS
      <4>2. Holds(e, content, w, i - 1)
        BY <3>2, <4>1
      <4>3. Expanding(i, content, rd, rd2, g, e, m)
        BY <1>0, <3>3, <3>4, <4>2 DEF Expanding
      <4>4. LineValue(content[i], e, Context(m, env)) = LineMeans(g, <<Len(rd) + 1, i>>, rd2, env)
        BY <4>3, LineIsMeaning, SMTT(60)
      <4>. QED
        BY <1>0, <1>3, <4>1, <4>4
    <3>. QED
      BY <1>6, <1>7, <3>5
  <2>3. \A p \in Pos(rd2) : g[p] = LineMeans(g, p, rd2, env)
    BY <1>1, <2>1, <2>2 DEF new
  <2>. QED
    BY <1>5, <2>3 DEF Means
<1>10. PICK b, m2 : b = d[Len(content)] /\ m2 = Merge(m, content, env)
  OBVIOUS
<1>11. /\ DOMAIN m2 = DOMAIN b \cup DOMAIN m
       /\ \A k \in DOMAIN b : m2[k] = b[k]
       /\ \A k \in DOMAIN m \ DOMAIN b : m2[k] = m[k]
  <2>1. m2 = Over(b, m)
    BY <1>3, <1>4, <1>10 DEF Merge
  <2>. QED
    BY <2>1 DEF Over
<1>12. Holds(b, content, w, Len(content))
  BY <1>2, <1>8, <1>10
<1>13. ASSUME NEW k \in DOMAIN b
       PROVE  AssignsIn(Pos(rd2), k, rd2) /\ b[k] = g[LastIn(Pos(rd2), k, rd2)]
  <2>1. PICK j \in 1..Len(content) : /\ content[j].key = k /\ b[k] = w[j]
                                   /\ \A h \in (j + 1)..Len(content) : content[h].key # k
    BY <1>12 DEF Holds
  <2>2. PICK a : a = <<n, j>>
    OBVIOUS
  <2>3. a \in Pos(rd2) /\ LineAt(rd2, a).key = k
    BY <1>1, <2>1, <2>2 DEF new
  <2>4. ASSUME NEW q \in Pos(rd2), LineAt(rd2, q).key = k
        PROVE  q[1] < a[1] \/ (q[1] = a[1] /\ q[2] <= a[2])
    <3>1. CASE q \in Pos(rd)
      BY <1>1, <2>2, <3>1
    <3>2. CASE q \in new
      <4>1. PICK h \in 1..Len(content) : q = <<n, h>>
        BY <3>2 DEF new
      <4>2. content[h].key = k
        BY <1>1, <2>4, <4>1
      <4>3. h <= j
        BY <1>2, <2>1, <4>2
      <4>. QED
        BY <2>2, <4>1, <4>3
    <3>. QED
      BY <1>1, <3>1, <3>2
  <2>5. IsLast(a, Pos(rd2), k, rd2) /\ Pos(rd2) \subseteq Nat \X Nat
    BY <2>3, <2>4 DEF IsLast, Pos
  <2>6. LastIn(Pos(rd2), k, rd2) = a
    BY <2>3, <2>5, LastIs
  <2>. QED
    BY <1>6, <2>1, <2>2, <2>3, <2>6 DEF AssignsIn
<1>14. ASSUME NEW k, k \notin DOMAIN b
       PROVE  /\ AssignsIn(Pos(rd2), k, rd2) <=> AssignsIn(Pos(rd), k, rd)
              /\ AssignsIn(Pos(rd), k, rd)
                   => LastIn(Pos(rd2), k, rd2) = LastIn(Pos(rd), k, rd)
  <2>1. \A q \in new : LineAt(rd2, q).key # k
    BY <1>1, <1>12, <1>14 DEF new, Holds
  <2>2. AssignsIn(Pos(rd2), k, rd2) <=> AssignsIn(Pos(rd), k, rd)
    BY <1>1, <2>1 DEF AssignsIn
  <2>3. ASSUME AssignsIn(Pos(rd), k, rd)
        PROVE  LastIn(Pos(rd2), k, rd2) = LastIn(Pos(rd), k, rd)
    <3>1. PICK a : a = LastIn(Pos(rd), k, rd)
      OBVIOUS
    <3>2. a \in Pos(rd) /\ IsLast(a, Pos(rd), k, rd)
      BY <1>1, <2>3, <3>1, LastExists
    <3>3. a \in Pos(rd2) /\ IsLast(a, Pos(rd2), k, rd2) /\ Pos(rd2) \subseteq Nat \X Nat
      BY <1>1, <2>1, <3>2 DEF IsLast, Pos
    <3>. QED
      BY <3>1, <3>3, LastIs
  <2>. QED
    BY <2>2, <2>3
<1>15. ASSUME NEW k \in DOMAIN m, k \notin DOMAIN b
       PROVE  m[k] = g[LastIn(Pos(rd2), k, rd2)]
  <2>1. AssignsIn(Pos(rd), k, rd) /\ m[k] = f[LastIn(Pos(rd), k, rd)]
    BY DEF Reads
  <2>2. LastIn(Pos(rd), k, rd) \in Pos(rd)
    BY <1>1, <2>1, LastExists
  <2>. QED
    BY <1>6, <1>14, <1>15, <2>1, <2>2
<1>16. Reads(m2, g, rd2)
  <2>1. ASSUME NEW k PROVE k \in DOMAIN m2 <=> AssignsIn(Pos(rd2), k, rd2)
    <3>1. CASE k \in DOMAIN b
      BY <1>11, <1>13, <3>1
    <3>2. CASE k \notin DOMAIN b
      BY <1>11, <1>14, <3>2 DEF Reads
    <3>. QED
      BY <3>1, <3>2
  <2>2. ASSUME NEW k \in DOMAIN m2 PROVE m2[k] = g[LastIn(Pos(rd2), k, rd2)]
    BY <1>11, <1>13, <1>15
  <2>. QED
    BY <2>1, <2>2 DEF Reads
<1>. QED
  BY <1>0, <1>9, <1>10, <1>16

-----------------------------------------------------------------------------
(* The state of a load *)

EnvironOK ==
    /\ environ = [k \in DOMAIN environ |-> environ[k]]
    /\ \A k \in DOMAIN environ : environ[k] # Bare

Loading ==
    /\ environ = before
    /\ layers \in Seq(Paths) /\ read \in ReadOf
    /\ \E f : Means(f, read, before) /\ Reads(merged, f, read)

DoneSet ==
    /\ pc = "down" => done = <<>>
    /\ \A k : AssignsIn(Pos(done), k, done) => k \in DOMAIN environ

LoadInv ==
    /\ files \in [Paths -> Contents]
    /\ EnvironOK
    /\ pc = "load" => Loading
    /\ DoneSet

\* Nothing is read before the first load.
LEMMA LoadInvInit == Init => LoadInv
<1>. SUFFICES ASSUME Init PROVE LoadInv
  OBVIOUS
<1>1. files \in [Paths -> Contents]
  BY StartupAssumption DEF Init
<1>2. EnvironOK
  BY DEF Init, None, EnvironOK
<1>3. DoneSet
  BY DEF Init, DoneSet, AssignsIn, Pos
<1>. QED
  BY <1>1, <1>2, <1>3 DEF LoadInv, Init

\* A dictionary read from a file has names for keys.
LEMMA KeysAreNames ==
  ASSUME NEW rd \in ReadOf, NEW k, AssignsIn(Pos(rd), k, rd)
  PROVE  k \in Names
<1>1. PICK p \in Pos(rd) : LineAt(rd, p).key = k
  BY DEF AssignsIn
<1>2. p[1] \in 1..Len(rd) /\ p[2] \in 1..MaxLines /\ p[2] <= Len(rd[p[1]][2])
  BY DEF Pos
<1>3. rd[p[1]] \in Paths \X Seq(Line)
  BY <1>2 DEF ReadOf
<1>4. LineAt(rd, p) \in Line
  BY <1>2, <1>3, StartupAssumption DEF LineAt
<1>. QED
  BY <1>1, <1>4 DEF Line

\* Each step of a load keeps: what is merged is what the lines read so far mean.
LEMMA LoadInvStep == LoadInv /\ [Next]_vars => LoadInv'
<1>. SUFFICES ASSUME LoadInv, [Next]_vars PROVE LoadInv'
  OBVIOUS
<1>. USE DEF load
<1>1. ASSUME NEW e \in Environments, Launch(e) PROVE LoadInv'
  <2>1. EnvironOK'
    <3>1. e = [k \in DOMAIN e |-> e[k]] /\ \A k \in DOMAIN e : e[k] # Bare
      BY StartupAssumption
    <3>. QED
      BY <1>1, <3>1 DEF Launch, EnvironOK
  <2>2. DoneSet'
    BY <1>1 DEF LoadInv, Launch, DoneSet, AssignsIn, Pos
  <2>. QED
    BY <1>1, <2>1, <2>2 DEF LoadInv, Launch
<1>2. ASSUME NEW p \in Paths, NEW c \in Contents, Edit(p, c) PROVE LoadInv'
  <2>1. files' \in [Paths -> Contents]
    BY <1>2 DEF LoadInv, Edit
  <2>2. Loading' <=> Loading
    BY <1>2 DEF Edit, Loading
  <2>. QED
    BY <1>2, <2>1, <2>2 DEF LoadInv, Edit, EnvironOK, DoneSet
<1>3. ASSUME NEW a \in PackageNames \cup {<<>>}, LoadBegin(a) PROVE LoadInv'
  <2>1. layers' \in Seq(Paths)
    <3>1. RootFiles \in Seq(Paths)
      BY StartupAssumption DEF Paths
    <3>2. \A x \in PackageNames : <<x>> \in Seq(Paths)
      BY DEF Paths
    <3>. QED
      BY <1>3, <3>1, <3>2 DEF LoadBegin, EnvLayers
  <2>2. Len(<<>>) = 0 /\ Pos(<<>>) = {}
    BY DEF Pos
  <2>3. Means([p \in {} |-> 0], <<>>, environ) /\ Reads(NoValues, [p \in {} |-> 0], <<>>)
    <3>1. DOMAIN NoValues = {}
      BY DEF NoValues
    <3>. QED
      BY <2>2, <3>1 DEF Means, Reads, AssignsIn
  <2>4. Loading'
    BY <1>3, <2>1, <2>3 DEF LoadBegin, Loading, ReadOf
  <2>. QED
    BY <1>3, <2>4 DEF LoadInv, LoadBegin, EnvironOK, DoneSet
<1>4. CASE ReadLayer
  <2>1. PICK content : /\ content = (IF files[Head(layers)] = Absent THEN <<>> ELSE files[Head(layers)])
                     /\ merged' = Merge(merged, content, environ)
                     /\ read' = Append(read, <<Head(layers), content>>)
    BY <1>4 DEF ReadLayer
  <2>2. Loading /\ pc = "load" /\ layers # <<>> /\ files[Head(layers)] # Malformed
    BY <1>4 DEF ReadLayer, LoadInv
  <2>3. Head(layers) \in Paths /\ Tail(layers) \in Seq(Paths)
    BY <2>2 DEF Loading
  <2>4. content \in Seq(Line) /\ Len(content) <= MaxLines
    BY <2>1, <2>2, <2>3, StartupAssumption DEF LoadInv
  <2>5. read' \in ReadOf
    <3>1. read \in ReadOf
      BY <2>2 DEF Loading
    <3>2. <<Head(layers), content>> \in Paths \X Seq(Line)
      BY <2>3, <2>4
    <3>. QED
      BY <2>1, <3>1, <3>2 DEF ReadOf
  <2>6. PICK f : Means(f, read, before) /\ Reads(merged, f, read)
    BY <2>2 DEF Loading
  <2>7. before = environ /\ read \in ReadOf /\ \A k \in DOMAIN environ : environ[k] # Bare
    BY <2>2 DEF Loading, LoadInv, EnvironOK
  <2>8. \E g : Means(g, read', before) /\ Reads(merged', g, read')
    BY <2>1, <2>4, <2>6, <2>7, StartupAssumption, LayerRead
  <2>9. Loading'
    BY <1>4, <2>3, <2>5, <2>7, <2>8 DEF ReadLayer, Loading
  <2>. QED
    BY <1>4, <2>9 DEF LoadInv, ReadLayer, EnvironOK, DoneSet
<1>5. CASE ReadRaises
  BY <1>5 DEF LoadInv, ReadRaises, EndLoad, EnvironOK, DoneSet
<1>6. CASE Apply
  <2>1. Loading /\ pc = "load"
    BY <1>6 DEF Apply, LoadInv
  <2>2. environ' = Over(Applied(merged, environ), environ)
    BY <1>6 DEF Apply
  <2>3. EnvironOK'
    <3>1. \A v : Text(v) # Bare
      <4>1. <<>> \in Value
        BY DEF Value
      <4>. QED
        BY <4>1, StartupAssumption DEF Text
    <3>2. /\ DOMAIN Applied(merged, environ) = DOMAIN merged \ DOMAIN environ
          /\ \A k \in DOMAIN merged \ DOMAIN environ : Applied(merged, environ)[k] = Text(merged[k])
      BY DEF Applied
    <3>. QED
      BY <2>2, <3>1, <3>2 DEF Over, LoadInv, EnvironOK
  <2>4. DOMAIN environ' = DOMAIN merged \cup DOMAIN environ
    BY <2>2 DEF Over, Applied
  <2>5. DoneSet'
    BY <1>6, <2>1, <2>4 DEF Apply, EndLoad, DoneSet, Loading, Reads
  <2>. QED
    BY <1>6, <2>3, <2>5 DEF LoadInv, Apply, EndLoad
<1>7. CASE Exit
  BY <1>7 DEF LoadInv, Exit, None, EnvironOK, DoneSet, AssignsIn, Pos
<1>8. CASE Spawn
  BY <1>8 DEF LoadInv, Spawn, EnvironOK, DoneSet
<1>9. CASE UNCHANGED vars
  BY <1>9 DEF LoadInv, vars, EnvironOK, Loading, DoneSet
<1>. QED
  BY <1>1, <1>2, <1>3, <1>4, <1>5, <1>6, <1>7, <1>8, <1>9 DEF Next

\* dotenv.py: at every step of a load the merged values are those the lines read so far mean,
\* later lines over earlier ones, whatever is edited between two files.
THEOREM LoadIsConsistent == Spec => []LoadInv
<1>. QED
  BY LoadInvInit, LoadInvStep, PTL DEF Spec

\* load_env_files: the environment of a load that fails is the one it began with, for any files
\* and any edits while it runs.
THEOREM AllOrNothing == Spec => []LoadAllOrNothing
<1>1. LoadInv => LoadAllOrNothing
  BY DEF LoadInv, Loading, LoadAllOrNothing
<1>. QED
  BY <1>1, LoadIsConsistent, PTL

\* A second load of the same lines sets what the first one set.
LEMMA ReloadKeepsStep == LoadInv /\ Apply /\ read = done => environ' = environ
<1>. SUFFICES ASSUME LoadInv, Apply, read = done PROVE environ' = environ
  OBVIOUS
<1>1. Loading
  BY DEF Apply, LoadInv
<1>2. DOMAIN merged \subseteq DOMAIN environ
  BY <1>1 DEF LoadInv, Loading, Reads, DoneSet
<1>3. DOMAIN Applied(merged, environ) = {}
  BY <1>2 DEF Applied
<1>4. environ' = [k \in DOMAIN environ |-> environ[k]]
  BY <1>3 DEF Apply, Over
<1>. QED
  BY <1>4 DEF LoadInv, EnvironOK

\* load_env_files is idempotent: with the same files, a load into the environment of an earlier
\* load changes nothing, expansions included.
THEOREM ReloadChangesNothing == Spec => ReloadKeeps
<1>. QED
  BY ReloadKeepsStep, LoadIsConsistent, PTL DEF ReloadKeeps

\* The lines read have one meaning only.
LEMMA MeaningIs ==
  ASSUME NEW f, Means(f, read, before), read \in ReadOf
  PROVE  Meaning = f
<1>1. Positions = Pos(read)
  BY DEF Positions, Lines, Pos
<1>2. Meaning = CHOOSE g : g = [p \in Pos(read) |-> LineMeans(g, p, read, before)]
  BY <1>1 DEF Meaning, LineMeans, RefMeans, LineAt, Lines, Above, Lower, LastOf, LastIn, IsLast,
              Assigns, AssignsIn
<1>3. Means(Meaning, read, before)
  BY <1>2 DEF Means
<1>4. Len(read) \in Nat
  BY DEF ReadOf
<1>. QED
  BY <1>3, <1>4, MeansUnique, StartupAssumption

\* What a load applies: the caller's environment first, then the last line that assigns a key.
LEMMA LoadMeansLayersStep ==
  ASSUME LoadInv, Apply
  PROVE  /\ DOMAIN environ' = DOMAIN before
               \cup {k \in Names : Assigns(Positions, k)}
         /\ \A k \in DOMAIN environ' :
              environ'[k] = IF k \in DOMAIN before THEN before[k]
                            ELSE Text(Meaning[LastOf(Positions, k)])
<1>1. Loading /\ environ' = Over(Applied(merged, environ), environ)
  BY DEF Apply, LoadInv
<1>2. PICK f : Means(f, read, before) /\ Reads(merged, f, read)
  BY <1>1 DEF Loading
<1>3. Meaning = f /\ environ = before
  BY <1>1, <1>2, MeaningIs DEF Loading
<1>4. Positions = Pos(read)
  BY DEF Positions, Lines, Pos
<1>5. \A k : Assigns(Positions, k) <=> AssignsIn(Pos(read), k, read)
  BY <1>4 DEF Assigns, AssignsIn, Lines, LineAt
<1>6. ASSUME NEW k PROVE LastOf(Positions, k) = LastIn(Pos(read), k, read)
  BY <1>4 DEF LastOf, LastIn, IsLast, Lines, LineAt
<1>7. DOMAIN merged = {k \in Names : Assigns(Positions, k)}
  <2>1. \A k : AssignsIn(Pos(read), k, read) => k \in Names
    BY <1>1, KeysAreNames DEF Loading
  <2>. QED
    BY <1>2, <1>5, <2>1 DEF Reads
<1>8. \A k \in DOMAIN merged : merged[k] = Meaning[LastOf(Positions, k)]
  BY <1>2, <1>3, <1>6 DEF Reads
<1>9. environ' = [k \in (DOMAIN merged \ DOMAIN environ) \cup DOMAIN environ |->
                    IF k \in DOMAIN merged \ DOMAIN environ THEN Text(merged[k]) ELSE environ[k]]
  BY <1>1 DEF Over, Applied
<1>. QED
  BY <1>3, <1>7, <1>8, <1>9

\* load_env_files: a value of the caller wins over every file, a later layer over an earlier one,
\* and a reference means what had been assigned above it, for any files and any number of lines.
THEOREM LoadMeansItsLayers == Spec => LoadMeansLayers
<1>. QED
  BY LoadMeansLayersStep, LoadIsConsistent, PTL DEF LoadMeansLayers

-----------------------------------------------------------------------------
(* The plan *)

\* The fold over the lines of the plan, line by line.
LEMMA ReadUnfolds ==
  ASSUME NEW doc, NEW n \in Nat, DOMAIN doc = 1..n
  PROVE  \E p : /\ p[0] = Reader
                /\ \A i \in 1..n : p[i] = ReadLine(p[i - 1], doc[i])
                /\ ReadTasks(doc) = p[n].tasks
<1> DEFINE F(g, s) == IF s = {} THEN Reader ELSE ReadLine(g[s \ {Max(s)}], doc[Max(s)])
           iter == CHOOSE g : g = [s \in SUBSET (1..n) |-> F(g, s)]
           Exists(m) == \E g : g = [s \in SUBSET (1..m) |-> F(g, s)]
           E == {m \in Nat : Exists(m)}
<1>1. ReadTasks(doc) = iter[1..n].tasks
  BY DEF ReadTasks, FoldLeft, MapThenFoldSet
<1>2. n \in E
  <2>1. 0 \in E
    <3> DEFINE g == [s \in SUBSET (1..0) |-> Reader]
    <3>1. SUBSET (1..0) = {{}}
      OBVIOUS
    <3>2. g = [s \in SUBSET (1..0) |-> F(g, s)]
      BY <3>1
    <3>. QED
      BY <3>2
  <2>2. ASSUME NEW m \in Nat, m \in E PROVE m + 1 \in E
    <3>1. PICK g : g = [s \in SUBSET (1..m) |-> F(g, s)]
      BY <2>2
    <3> DEFINE h == [s \in SUBSET (1..(m + 1)) |->
                       IF m + 1 \in s THEN ReadLine(g[s \ {m + 1}], doc[m + 1]) ELSE g[s]]
    <3>2. ASSUME NEW s \in SUBSET (1..(m + 1)) PROVE h[s] = F(h, s)
      <4>1. CASE m + 1 \in s
        <5>1. Max(s) = m + 1
          <6>1. s \subseteq Int /\ \A y \in s : y <= m + 1
            OBVIOUS
          <6>. QED
            BY <4>1, <6>1, MaxIs
        <5>2. s \ {m + 1} \in SUBSET (1..m)
          OBVIOUS
        <5>3. h[s \ {m + 1}] = g[s \ {m + 1}]
          BY <5>2
        <5>. QED
          BY <4>1, <5>1, <5>3
      <4>2. CASE m + 1 \notin s
        <5>1. s \in SUBSET (1..m) /\ s \ {Max(s)} \in SUBSET (1..m)
          <6>1. \A y \in s : y \in 1..m
            BY <4>2
          <6>. QED
            BY <6>1
        <5>2. h[s] = g[s] /\ h[s \ {Max(s)}] = g[s \ {Max(s)}]
          BY <4>2, <5>1
        <5>3. g[s] = F(g, s)
          BY <3>1, <5>1
        <5>. QED
          BY <5>2, <5>3
      <4>. QED
        BY <4>1, <4>2
    <3>3. h = [s \in SUBSET (1..(m + 1)) |-> F(h, s)]
      BY <3>2
    <3>. HIDE DEF h
    <3>4. Exists(m + 1)
      BY <3>3
    <3>. HIDE DEF Exists
    <3>. QED
      BY <3>4
  <2>. HIDE DEF E
  <2>. QED
    BY <2>1, <2>2, NatSet
<1>3. iter = [s \in SUBSET (1..n) |-> F(iter, s)]
  BY <1>2
<1>. HIDE DEF iter, E
<1> DEFINE p == [i \in 0..n |-> iter[1..i]]
<1>4. p[0] = Reader
  <2>1. 1..0 = {} /\ {} \in SUBSET (1..n)
    OBVIOUS
  <2>. QED
    BY <1>3, <2>1
<1>5. ASSUME NEW i \in 1..n PROVE p[i] = ReadLine(p[i - 1], doc[i])
  <2>1. 1..i \in SUBSET (1..n) /\ 1..i # {}
    OBVIOUS
  <2>2. Max(1..i) = i
    <3>1. 1..i \subseteq Int /\ i \in 1..i /\ \A y \in 1..i : y <= i
      OBVIOUS
    <3>. QED
      BY <3>1, MaxIs
  <2>3. (1..i) \ {i} = 1..(i - 1)
    OBVIOUS
  <2>4. iter[1..i] = F(iter, 1..i)
    BY <1>3, <2>1
  <2>5. p[i] = iter[1..i] /\ p[i - 1] = iter[1..(i - 1)]
    OBVIOUS
  <2>. HIDE DEF p
  <2>. QED
    BY <2>1, <2>2, <2>3, <2>4, <2>5
<1>6. p[n] = iter[1..n]
  OBVIOUS
<1>. HIDE DEF p
<1>. QED
  BY <1>1, <1>4, <1>5, <1>6

\* A fence line opens a fence or closes one; any other leaves it.
LEMMA FencedNext ==
  ASSUME NEW doc, NEW i \in Nat \ {0}
  PROVE  IF doc[i].k = "fence" THEN Fenced(doc, i + 1) <=> ~Fenced(doc, i)
                               ELSE Fenced(doc, i + 1) <=> Fenced(doc, i)
<1> DEFINE F(m) == {j \in 1..(m - 1) : doc[j].k = "fence"}
<1>1. IsFiniteSet(F(i)) /\ Cardinality(F(i)) \in Nat
  <2>1. IsFiniteSet(1..(i - 1))
    BY FS_Interval
  <2>2. IsFiniteSet(F(i))
    BY <2>1, FS_Subset
  <2>. QED
    BY <2>2, FS_CardinalityType
<1>2. CASE doc[i].k = "fence"
  <2>1. F(i + 1) = F(i) \cup {i} /\ i \notin F(i)
    BY <1>2
  <2>. HIDE DEF F
  <2>2. Cardinality(F(i + 1)) = Cardinality(F(i)) + 1
    BY <1>1, <2>1, FS_AddElement
  <2>3. \A c \in Nat : ((c + 1) % 2 = 1) <=> ~(c % 2 = 1)
    OBVIOUS
  <2>4. (Cardinality(F(i + 1)) % 2 = 1) <=> ~(Cardinality(F(i)) % 2 = 1)
    BY <1>1, <2>2, <2>3
  <2>. QED
    BY <1>2, <2>4 DEF Fenced, F
<1>3. CASE doc[i].k # "fence"
  <2>1. F(i + 1) = F(i)
    BY <1>3
  <2>. HIDE DEF F
  <2>2. (Cardinality(F(i + 1)) % 2 = 1) <=> (Cardinality(F(i)) % 2 = 1)
    BY <2>1
  <2>. QED
    BY <1>3, <2>2 DEF Fenced, F
<1>. QED
  BY <1>2, <1>3

\* A task as the reader makes it: a record, headed by one of the first n lines.
ReadFrom(t, doc, n) ==
    /\ t = [id |-> t.id, section |-> t.section, group |-> t.group,
            optional |-> t.optional, fields |-> t.fields]
    /\ t.optional \in BOOLEAN
    /\ \E p \in 1..n : doc[p].k = "task" /\ doc[p].v = t.id /\ ~Fenced(doc, p)

TasksFrom(tasks, doc, n) ==
    \E m \in Nat : /\ tasks = [i \in 1..m |-> tasks[i]]
                   /\ \A i \in 1..m : ReadFrom(tasks[i], doc, n)

IsReader(r) ==
    r = [tasks |-> r.tasks, section |-> r.section, group |-> r.group,
         current |-> r.current, open |-> r.open, fenced |-> r.fenced]

ReaderAt(r, doc, n) ==
    /\ IsReader(r)
    /\ TasksFrom(r.tasks, doc, n)
    /\ r.fenced \in BOOLEAN /\ (r.fenced <=> Fenced(doc, n + 1))

\* A task read from the first n lines is read from one more.
LEMMA StillFrom ==
  ASSUME NEW t, NEW doc, NEW n \in Nat, ReadFrom(t, doc, n)
  PROVE  ReadFrom(t, doc, n + 1)
  BY DEF ReadFrom

\* The same for a sequence of tasks.
LEMMA TasksKept ==
  ASSUME NEW tasks, NEW doc, NEW n \in Nat, TasksFrom(tasks, doc, n)
  PROVE  TasksFrom(tasks, doc, n + 1)
<1>1. PICK m \in Nat : /\ tasks = [i \in 1..m |-> tasks[i]]
                       /\ \A i \in 1..m : ReadFrom(tasks[i], doc, n)
  BY DEF TasksFrom
<1>3. \A i \in 1..m : ReadFrom(tasks[i], doc, n + 1)
  BY <1>1, StillFrom
<1>. QED
  BY <1>1, <1>3 DEF TasksFrom

\* A task read from line n + 1 joins the tasks.
LEMMA TaskAppended ==
  ASSUME NEW tasks, NEW doc, NEW n \in Nat, TasksFrom(tasks, doc, n),
         NEW t, ReadFrom(t, doc, n + 1)
  PROVE  TasksFrom(Append(tasks, t), doc, n + 1)
<1>1. PICK m \in Nat : /\ tasks = [i \in 1..m |-> tasks[i]]
                       /\ \A i \in 1..m : ReadFrom(tasks[i], doc, n)
  BY DEF TasksFrom
<1> DEFINE S == {tasks[i] : i \in 1..m} \cup {t}
           more == Append(tasks, t)
<1>2. tasks \in [1..m -> S] /\ t \in S
  <2>1. tasks = [i \in 1..m |-> tasks[i]]
    BY <1>1
  <2>2. \A i \in 1..m : tasks[i] \in S
    OBVIOUS
  <2>. QED
    BY <2>1, <2>2
<1>. HIDE DEF S
<1>3. more \in Seq(S) /\ DOMAIN more = 1..(m + 1) /\ more[m + 1] = t
      /\ \A i \in 1..m : more[i] = tasks[i]
  BY <1>2
<1>. HIDE DEF more
<1>4. more = [i \in 1..(m + 1) |-> more[i]]
  BY <1>3
<1>5. \A i \in 1..m : ReadFrom(tasks[i], doc, n + 1)
  BY <1>1, StillFrom
<1>6. \A i \in 1..(m + 1) : ReadFrom(more[i], doc, n + 1)
  BY <1>3, <1>5
<1>7. m + 1 \in Nat
  OBVIOUS
<1>8. TasksFrom(more, doc, n + 1)
  BY <1>4, <1>6, <1>7 DEF TasksFrom
<1>. QED
  BY <1>8 DEF more

\* A field line changes the fields of a task and nothing that places it.
LEMMA TaskExtended ==
  ASSUME NEW tasks, NEW doc, NEW n \in Nat, TasksFrom(tasks, doc, n), NEW k, NEW v
  PROVE  TasksFrom([tasks EXCEPT ![k].fields = v], doc, n + 1)
<1>1. PICK m \in Nat : /\ tasks = [i \in 1..m |-> tasks[i]]
                       /\ \A i \in 1..m : ReadFrom(tasks[i], doc, n)
  BY DEF TasksFrom
<1> DEFINE new == [tasks EXCEPT ![k].fields = v]
<1>2. new = [i \in 1..m |-> new[i]]
  BY <1>1
<1>3. ASSUME NEW i \in 1..m PROVE ReadFrom(new[i], doc, n + 1)
  <2>1. ReadFrom(tasks[i], doc, n)
    BY <1>1
  <2>2. CASE i # k
    <3>1. new[i] = tasks[i]
      BY <1>1, <2>2
    <3>. QED
      BY <2>1, <3>1 DEF ReadFrom
  <2>3. CASE i = k
    <3>1. new[i] = [tasks[i] EXCEPT !.fields = v]
      BY <1>1, <2>3
    <3>2. /\ new[i] = [id |-> tasks[i].id, section |-> tasks[i].section, group |-> tasks[i].group,
                       optional |-> tasks[i].optional, fields |-> v]
      BY <2>1, <3>1 DEF ReadFrom
    <3>. HIDE DEF new
    <3>. QED
      BY <2>1, <3>2 DEF ReadFrom
  <2>. QED
    BY <2>2, <2>3
<1>. QED
  BY <1>2, <1>3 DEF TasksFrom

\* A heading outside a fence: the reader is where the document says.
LEMMA HeadingReads ==
  ASSUME NEW doc, NEW n \in Nat, NEW r, ReaderAt(r, doc, n), ~Fenced(doc, n + 1),
         doc[n + 1].k \in HeadingKinds,
         doc[n + 1].k = "task" => doc[n + 1].optional \in BOOLEAN
  PROVE  ReaderAt(Heading(r, doc[n + 1]), doc, n + 1)
<1> DEFINE l == doc[n + 1]
           h == Heading(r, l)
<1>0. ~Fenced(doc, (n + 1) + 1) /\ r.fenced \in BOOLEAN /\ ~r.fenced
  <2>1. n + 1 \in Nat \ {0} /\ doc[n + 1].k # "fence"
    BY DEF HeadingKinds
  <2>2. ~Fenced(doc, (n + 1) + 1)
    BY <2>1, FencedNext
  <2>. QED
    BY <2>2 DEF ReaderAt
<1>1. IsReader(r)
  BY DEF ReaderAt
<1>2. CASE l.k = "section"
  <2>1. h = [r EXCEPT !.section = l.v, !.group = <<>>, !.current = FALSE, !.open = ""]
    BY <1>2 DEF Heading
  <2>. HIDE DEF h
  <2>2. IsReader(h) /\ h.tasks = r.tasks /\ h.fenced = r.fenced
    BY <1>1, <2>1 DEF IsReader
  <2>3. TasksFrom(r.tasks, doc, n + 1)
    BY TasksKept DEF ReaderAt
  <2>4. ReaderAt(h, doc, n + 1)
    BY <1>0, <2>2, <2>3 DEF ReaderAt
  <2>. QED
    BY <2>4 DEF h
<1>3. CASE l.k = "group"
  <2>1. h = [r EXCEPT !.group = l.v, !.current = FALSE, !.open = ""]
    BY <1>3 DEF Heading
  <2>. HIDE DEF h
  <2>2. IsReader(h) /\ h.tasks = r.tasks /\ h.fenced = r.fenced
    BY <1>1, <2>1 DEF IsReader
  <2>3. TasksFrom(r.tasks, doc, n + 1)
    BY TasksKept DEF ReaderAt
  <2>4. ReaderAt(h, doc, n + 1)
    BY <1>0, <2>2, <2>3 DEF ReaderAt
  <2>. QED
    BY <2>4 DEF h
<1>4. CASE l.k = "task"
  <2> DEFINE t == [id |-> l.v, section |-> r.section, group |-> r.group,
                   optional |-> l.optional, fields |-> <<>>]
  <2>1. h = [r EXCEPT !.tasks = Append(r.tasks, t), !.current = TRUE, !.open = ""]
    BY <1>4 DEF Heading
  <2>2. ReadFrom(t, doc, n + 1)
    BY <1>4 DEF ReadFrom
  <2>. HIDE DEF t, h
  <2>3. IsReader(h) /\ h.tasks = Append(r.tasks, t) /\ h.fenced = r.fenced
    BY <1>1, <2>1 DEF IsReader
  <2>4. TasksFrom(Append(r.tasks, t), doc, n + 1)
    BY <2>2, TaskAppended DEF ReaderAt
  <2>5. ReaderAt(h, doc, n + 1)
    BY <1>0, <2>3, <2>4 DEF ReaderAt
  <2>. QED
    BY <2>5 DEF h
<1>. QED
  BY <1>2, <1>3, <1>4 DEF HeadingKinds

\* A field of the k-th task is given the value v.
WithField(tasks, k, v) == [tasks EXCEPT ![k].fields = v]

\* A reader whose list of tasks may change in its fields, and whose open field may close.
LEMMA ReaderSteps ==
  ASSUME NEW doc, NEW n \in Nat, NEW r, ReaderAt(r, doc, n), NEW h, IsReader(h),
         h.fenced \in BOOLEAN, h.fenced <=> Fenced(doc, (n + 1) + 1),
         \/ h.tasks = r.tasks
         \/ \E k, v : h.tasks = WithField(r.tasks, k, v)
  PROVE  ReaderAt(h, doc, n + 1)
<1>1. TasksFrom(r.tasks, doc, n)
  BY DEF ReaderAt
<1>2. CASE h.tasks = r.tasks
  BY <1>1, <1>2, TasksKept DEF ReaderAt
<1>3. ASSUME NEW k, NEW v, h.tasks = WithField(r.tasks, k, v)
      PROVE  ReaderAt(h, doc, n + 1)
  <2>1. TasksFrom([r.tasks EXCEPT ![k].fields = v], doc, n + 1)
    BY <1>1, TaskExtended
  <2>. QED
    BY <1>3, <2>1 DEF ReaderAt, WithField
<1>. QED
  BY <1>2, <1>3

\* The same for every line outside a fence.
LEMMA FeedReads ==
  ASSUME NEW doc, NEW n \in Nat, NEW r, ReaderAt(r, doc, n), ~Fenced(doc, n + 1),
         doc[n + 1].k # "fence",
         doc[n + 1].k = "task" => doc[n + 1].optional \in BOOLEAN
  PROVE  ReaderAt(Feed(r, doc[n + 1]), doc, n + 1)
<1> DEFINE l == doc[n + 1]
<1>0. ~Fenced(doc, (n + 1) + 1) /\ r.fenced \in BOOLEAN /\ ~r.fenced /\ IsReader(r)
  <2>1. n + 1 \in Nat \ {0}
    OBVIOUS
  <2>. QED
    BY <2>1, FencedNext DEF ReaderAt
<1>1. CASE l.k \in HeadingKinds
  BY <1>1, HeadingReads DEF Feed
<1>2. CASE l.k \notin HeadingKinds
  <2>1. PICK h : h = Feed(r, l)
    OBVIOUS
  <2>2. \/ h = r
        \/ h = [r EXCEPT !.open = ""]
        \/ \E k, v, o : h = [r EXCEPT !.tasks = WithField(r.tasks, k, v), !.open = o]
        \/ \E k, v : h = [r EXCEPT !.tasks = WithField(r.tasks, k, v)]
    <3>1. CASE ~r.current
      BY <1>2, <2>1, <3>1 DEF Feed
    <3>2. CASE r.current /\ l.k = "field"
      <4>1. h = FieldLine(r, l)
        BY <1>2, <2>1, <3>2 DEF Feed
      <4>. QED
        BY <4>1 DEF FieldLine, WithField
    <3>3. CASE r.current /\ l.k # "field" /\ l.k = "more" /\ r.open # ""
      <4>1. h = [r EXCEPT !.tasks[Len(r.tasks)].fields[r.open] = @ \o l.v]
        BY <1>2, <2>1, <3>3 DEF Feed
      <4>. QED
        BY <4>1 DEF WithField
    <3>4. CASE r.current /\ l.k # "field" /\ ~(l.k = "more" /\ r.open # "")
      BY <1>2, <2>1, <3>4 DEF Feed
    <3>. QED
      BY <3>1, <3>2, <3>3, <3>4
  <2>3. IsReader(h) /\ h.fenced = r.fenced
    BY <1>0, <2>2 DEF IsReader
  <2>4. \/ h.tasks = r.tasks
        \/ \E k, v : h.tasks = WithField(r.tasks, k, v)
    <3>1. CASE h = r \/ h = [r EXCEPT !.open = ""]
      BY <1>0, <3>1 DEF IsReader
    <3>2. CASE \E k, v, o : h = [r EXCEPT !.tasks = WithField(r.tasks, k, v), !.open = o]
      <4>1. PICK k, v, o : h = [r EXCEPT !.tasks = WithField(r.tasks, k, v), !.open = o]
        BY <3>2
      <4>2. h.tasks = WithField(r.tasks, k, v)
        BY <1>0, <4>1 DEF IsReader
      <4>. QED
        BY <4>2
    <3>3. CASE \E k, v : h = [r EXCEPT !.tasks = WithField(r.tasks, k, v)]
      <4>1. PICK k, v : h = [r EXCEPT !.tasks = WithField(r.tasks, k, v)]
        BY <3>3
      <4>2. h.tasks = WithField(r.tasks, k, v)
        BY <1>0, <4>1 DEF IsReader
      <4>. QED
        BY <4>2
    <3>. QED
      BY <2>2, <3>1, <3>2, <3>3
  <2>5. ReaderAt(h, doc, n + 1)
    BY <1>0, <2>3, <2>4, ReaderSteps
  <2>. QED
    BY <2>1, <2>5
<1>. QED
  BY <1>1, <1>2

\* The same for every line.
LEMMA LineReads ==
  ASSUME NEW doc, NEW n \in Nat, NEW r, ReaderAt(r, doc, n),
         doc[n + 1].k = "task" => doc[n + 1].optional \in BOOLEAN
  PROVE  ReaderAt(ReadLine(r, doc[n + 1]), doc, n + 1)
<1> DEFINE l == doc[n + 1]
<1>0. /\ IsReader(r) /\ r.fenced \in BOOLEAN /\ (r.fenced <=> Fenced(doc, n + 1))
      /\ n + 1 \in Nat \ {0}
  BY DEF ReaderAt
<1>1. CASE l.k = "fence"
  <2>1. PICK h : h = [r EXCEPT !.fenced = ~r.fenced, !.open = ""]
    OBVIOUS
  <2>2. h = ReadLine(r, l)
    BY <1>1, <2>1 DEF ReadLine
  <2>3. IsReader(h) /\ h.tasks = r.tasks /\ h.fenced = ~r.fenced
    BY <1>0, <2>1 DEF IsReader
  <2>4. Fenced(doc, (n + 1) + 1) <=> ~Fenced(doc, n + 1)
    BY <1>0, <1>1, FencedNext
  <2>5. ReaderAt(h, doc, n + 1)
    BY <1>0, <2>3, <2>4, ReaderSteps
  <2>. QED
    BY <2>2, <2>5
<1>2. CASE l.k # "fence" /\ r.fenced
  <2>1. ReadLine(r, l) = r
    BY <1>2 DEF ReadLine
  <2>2. Fenced(doc, (n + 1) + 1) <=> Fenced(doc, n + 1)
    BY <1>0, <1>2, FencedNext
  <2>3. ReaderAt(r, doc, n + 1)
    BY <1>0, <2>2, ReaderSteps
  <2>. QED
    BY <2>1, <2>3
<1>3. CASE l.k # "fence" /\ ~r.fenced
  <2>1. ReadLine(r, l) = Feed(r, l)
    BY <1>3 DEF ReadLine
  <2>. QED
    BY <1>0, <1>3, <2>1, FeedReads
<1>. QED
  BY <1>0, <1>1, <1>2, <1>3

\* The reader line by line.
LEMMA ReaderRuns ==
  ASSUME NEW doc \in Seq(PlanLines)
  PROVE  \E p : /\ p[0] = Reader
                /\ \A i \in 1..Len(doc) : p[i] = ReadLine(p[i - 1], doc[i])
                /\ \A i \in 0..Len(doc) : ReaderAt(p[i], doc, i)
                /\ ReadTasks(doc) = p[Len(doc)].tasks
<1> DEFINE n == Len(doc)
<1>1. n \in Nat /\ DOMAIN doc = 1..n /\ \A i \in 1..n : doc[i].k = "task" => doc[i].optional \in BOOLEAN
  BY PlanAssumption
<1>2. PICK p : /\ p[0] = Reader
               /\ \A i \in 1..n : p[i] = ReadLine(p[i - 1], doc[i])
               /\ ReadTasks(doc) = p[n].tasks
  BY <1>1, ReadUnfolds
<1> DEFINE S == {i \in Nat : i <= n => ReaderAt(p[i], doc, i)}
<1>. HIDE DEF n
<1>3. 0 \in S
  <2>1. PICK r : r = Reader
    OBVIOUS
  <2>2. IsReader(r) /\ r.tasks = <<>> /\ r.fenced = FALSE
    BY <2>1 DEF Reader, IsReader
  <2>3. TasksFrom(<<>>, doc, 0)
    <3>1. <<>> = [i \in 1..0 |-> <<>>[i]] /\ \A i \in 1..0 : ReadFrom(<<>>[i], doc, 0)
      OBVIOUS
    <3>. QED
      BY <3>1 DEF TasksFrom
  <2>4. ~Fenced(doc, 0 + 1)
    <3>1. {j \in 1..((0 + 1) - 1) : doc[j].k = "fence"} = {}
      OBVIOUS
    <3>2. Cardinality({}) % 2 # 1
      BY FS_EmptySet
    <3>. QED
      BY <3>1, <3>2 DEF Fenced
  <2>5. ReaderAt(r, doc, 0)
    BY <2>2, <2>3, <2>4 DEF ReaderAt
  <2>. QED
    BY <1>2, <2>1, <2>5
<1>4. ASSUME NEW i \in Nat, i \in S PROVE i + 1 \in S
  <2>1. SUFFICES ASSUME i + 1 <= n PROVE ReaderAt(p[i + 1], doc, i + 1)
    OBVIOUS
  <2>2. i + 1 \in 1..n /\ (i + 1) - 1 = i
    BY <1>1, <2>1
  <2>3. p[i + 1] = ReadLine(p[i], doc[i + 1])
    BY <1>2, <2>2
  <2>4. ReaderAt(p[i], doc, i)
    BY <1>1, <1>4, <2>1
  <2>5. doc[i + 1].k = "task" => doc[i + 1].optional \in BOOLEAN
    BY <1>1, <2>2
  <2>. QED
    BY <2>3, <2>4, <2>5, LineReads
<1>. HIDE DEF S
<1>5. \A i \in Nat : i \in S
  BY <1>1, <1>3, <1>4, NatSet
<1>6. \A i \in 0..n : ReaderAt(p[i], doc, i)
  BY <1>1, <1>5 DEF S
<1>. QED
  BY <1>1, <1>2, <1>6 DEF n

\* Every task that is read is headed by a line outside the fences.
LEMMA TasksRead ==
  ASSUME NEW doc \in Seq(PlanLines)
  PROVE  TasksFrom(ReadTasks(doc), doc, Len(doc))
<1>1. PICK p : /\ p[0] = Reader
               /\ \A i \in 1..Len(doc) : p[i] = ReadLine(p[i - 1], doc[i])
               /\ \A i \in 0..Len(doc) : ReaderAt(p[i], doc, i)
               /\ ReadTasks(doc) = p[Len(doc)].tasks
  BY ReaderRuns
<1>2. Len(doc) \in 0..Len(doc)
  OBVIOUS
<1>3. ReaderAt(p[Len(doc)], doc, Len(doc))
  BY <1>1, <1>2
<1>. QED
  BY <1>1, <1>3 DEF ReaderAt

\* The rank of a registered group is the position of its first row.
LEMMA RankIs ==
  ASSUME NEW caps, NEW n \in Nat, DOMAIN caps = 1..n, NEW g \in CapabilityIds(caps)
  PROVE  Rank(caps, g) \in 1..n /\ caps[Rank(caps, g)].id = g
<1> DEFINE D == {i \in 1..n : caps[i].id = g}
<1>1. D \subseteq Nat /\ D # {}
  BY DEF CapabilityIds
<1>2. PICK m \in D : \A i \in D : m <= i
  BY <1>1, NatMin
<1>3. /\ m \in DOMAIN caps /\ caps[m].id = g
      /\ \A j \in 1..(m - 1) : caps[j].id # g
  <2>1. ASSUME NEW j \in 1..(m - 1) PROVE caps[j].id # g
    BY <1>2
  <2>. QED
    BY <1>2, <2>1
<1>4. Rank(caps, g) \in DOMAIN caps /\ caps[Rank(caps, g)].id = g
  BY <1>3 DEF Rank
<1>. QED
  BY <1>4

\* The tasks of a set whose groups are registered.
RankedTasks(caps, tasks, set) ==
    /\ \E n \in Nat : DOMAIN caps = 1..n
    /\ set \subseteq Nat
    /\ \A i \in set : tasks[i].group \in CapabilityIds(caps) /\ tasks[i].optional \in BOOLEAN

\* Two tasks of one rank belong to one capability.
LEMMA RanksDiffer ==
  ASSUME NEW caps, NEW tasks, NEW set, RankedTasks(caps, tasks, set), NEW i \in set, NEW j \in set
  PROVE  /\ Rank(caps, tasks[i].group) \in Nat /\ Rank(caps, tasks[j].group) \in Nat
         /\ Rank(caps, tasks[i].group) = Rank(caps, tasks[j].group)
              => tasks[i].group = tasks[j].group
<1>1. PICK n \in Nat : DOMAIN caps = 1..n
  BY DEF RankedTasks
<1>2. tasks[i].group \in CapabilityIds(caps) /\ tasks[j].group \in CapabilityIds(caps)
  BY DEF RankedTasks
<1>3. /\ Rank(caps, tasks[i].group) \in 1..n /\ caps[Rank(caps, tasks[i].group)].id = tasks[i].group
      /\ Rank(caps, tasks[j].group) \in 1..n /\ caps[Rank(caps, tasks[j].group)].id = tasks[j].group
  BY <1>1, <1>2, RankIs
<1>. QED
  BY <1>3

\* Of two tasks only one comes before the other in plan_summary's order.
LEMMA BeforeOneWay ==
  ASSUME NEW caps, NEW tasks, NEW set, RankedTasks(caps, tasks, set), NEW i \in set, NEW j \in set,
         Before(caps, tasks, i, j)
  PROVE  ~Before(caps, tasks, j, i)
<1>1. /\ Rank(caps, tasks[i].group) \in Nat /\ Rank(caps, tasks[j].group) \in Nat
      /\ Rank(caps, tasks[i].group) = Rank(caps, tasks[j].group)
            => tasks[i].group = tasks[j].group
  BY RanksDiffer
<1>2. i \in Nat /\ j \in Nat
  BY DEF RankedTasks
<1>. QED
  BY <1>1, <1>2 DEF Before

\* Among ranked tasks one comes before all others.
LEMMA FirstTask ==
  ASSUME NEW caps, NEW tasks, NEW set, RankedTasks(caps, tasks, set), set # {}
  PROVE  \E m \in set : \A j \in set \ {m} : Before(caps, tasks, m, j)
<1> DEFINE R(i) == Rank(caps, tasks[i].group)
           L == {R(i) : i \in set}
<1>0. /\ set \subseteq Nat
      /\ \A i \in set : R(i) \in Nat /\ tasks[i].optional \in BOOLEAN
      /\ \A i, j \in set : R(i) = R(j) => tasks[i].group = tasks[j].group
  <2>1. \A i, j \in set :
           /\ R(i) \in Nat /\ R(j) \in Nat
           /\ R(i) = R(j) => tasks[i].group = tasks[j].group
    BY RanksDiffer
  <2>2. set \subseteq Nat /\ \A i \in set : tasks[i].optional \in BOOLEAN
    BY DEF RankedTasks
  <2>. HIDE DEF R
  <2>. QED
    BY <2>1, <2>2
<1>. HIDE DEF R
<1>1. PICK l \in L : \A x \in L : l <= x
  <2>1. L \subseteq Nat /\ L # {}
    BY <1>0
  <2>. HIDE DEF L
  <2>. QED
    BY <2>1, NatMin
<1> DEFINE S == {i \in set : R(i) = l}
           Q == IF \E i \in S : ~tasks[i].optional THEN {i \in S : ~tasks[i].optional} ELSE S
<1>2. Q \subseteq S /\ Q # {} /\ S # {}
  BY <1>1
<1>3. PICK m \in Q : \A x \in Q : m <= x
  <2>1. Q \subseteq Nat
    BY <1>0, <1>2
  <2>. HIDE DEF Q
  <2>. QED
    BY <1>2, <2>1, NatMin
<1>4. ASSUME NEW j \in set \ {m} PROVE Before(caps, tasks, m, j)
  <2>1. m \in set /\ R(m) = l
    BY <1>2
  <2>2. l <= R(j) /\ l \in Nat /\ R(j) \in Nat /\ m \in Nat /\ j \in Nat
    BY <1>0, <1>1
  <2>3. CASE R(j) # l
    <3>1. R(m) < R(j)
      BY <2>1, <2>2, <2>3
    <3>. QED
      BY <3>1 DEF Before, R
  <2>4. CASE R(j) = l /\ j \in Q
    <3>1. m < j /\ tasks[m].group = tasks[j].group
      <4>1. m < j
        BY <1>3, <2>2, <2>4
      <4>2. tasks[m].group = tasks[j].group
        BY <1>0, <2>1, <2>4
      <4>. QED
        BY <4>1, <4>2
    <3>2. tasks[m].optional = tasks[j].optional \/ (~tasks[m].optional /\ tasks[j].optional)
      BY <1>0, <2>1, <2>4
    <3>. QED
      BY <3>1, <3>2 DEF Before
  <2>5. CASE R(j) = l /\ j \notin Q
    <3>1. tasks[m].group = tasks[j].group
      BY <1>0, <2>1, <2>5
    <3>2. ~tasks[m].optional /\ tasks[j].optional
      BY <2>5
    <3>. QED
      BY <3>1, <3>2 DEF Before
  <2>. QED
    BY <2>3, <2>4, <2>5
<1>. QED
  BY <1>2, <1>4

\* The eligible task before all others is the one plan_summary names.
LEMMA NextTaskIs ==
  ASSUME NEW caps, NEW tasks, NEW section, RankedTasks(caps, tasks, Eligible(tasks, section)),
         NEW m \in Eligible(tasks, section),
         \A j \in Eligible(tasks, section) \ {m} : Before(caps, tasks, m, j)
  PROVE  NextTask(caps, tasks, section) = m
<1> DEFINE E == Eligible(tasks, section)
<1>1. ASSUME NEW i \in E, \A j \in E \ {i} : Before(caps, tasks, i, j) PROVE i = m
  BY <1>1, BeforeOneWay
<1>. HIDE DEF E
<1>2. (CHOOSE i \in E : \A j \in E \ {i} : Before(caps, tasks, i, j)) = m
  BY <1>1 DEF E
<1>. QED
  BY <1>2 DEF NextTask, E

\* In a lane in order whose groups stay together, an earlier task comes before a later one.
LaneInOrder(caps, tasks, lane) ==
    /\ RankedTasks(caps, tasks, lane)
    /\ GroupsInOrder(caps, tasks, lane)
    /\ OptionalLast(tasks, lane)
    /\ Together(tasks, lane)

\* f is the first task of its lane with the group of task i.
Opens(tasks, lane, f, i) ==
    /\ f \in lane /\ f <= i /\ tasks[f].group = tasks[i].group
    /\ \A j \in lane : j < f => tasks[j].group # tasks[f].group

\* Each group of a lane has a task that opens it.
LEMMA FirstOfGroup ==
  ASSUME NEW tasks, NEW lane, lane \subseteq Nat, NEW i \in lane
  PROVE  \E f : Opens(tasks, lane, f, i)
<1> DEFINE D == {j \in lane : tasks[j].group = tasks[i].group}
<1>1. D \subseteq Nat /\ D # {}
  OBVIOUS
<1>2. PICK f \in D : \A j \in D : f <= j
  BY <1>1, NatMin
<1>3. Opens(tasks, lane, f, i)
  BY <1>2 DEF Opens
<1>. QED
  BY <1>3

\* In a lane the gate accepts, an earlier task comes before a later one in plan_summary's order.
LEMMA LaneBefore ==
  ASSUME NEW caps, NEW tasks, NEW lane, LaneInOrder(caps, tasks, lane),
         NEW i \in lane, NEW j \in lane, i < j
  PROVE  Before(caps, tasks, i, j)
<1>0. /\ RankedTasks(caps, tasks, lane) /\ lane \subseteq Nat
      /\ tasks[i].group \in CapabilityIds(caps) /\ tasks[j].group \in CapabilityIds(caps)
      /\ tasks[i].optional \in BOOLEAN /\ tasks[j].optional \in BOOLEAN
  BY DEF LaneInOrder, RankedTasks
<1>1. CASE tasks[i].group = tasks[j].group
  <2>1. tasks[i].optional => tasks[j].optional
    BY <1>1 DEF LaneInOrder, OptionalLast
  <2>2. tasks[i].optional = tasks[j].optional \/ (~tasks[i].optional /\ tasks[j].optional)
    BY <1>0, <2>1
  <2>. QED
    BY <1>1, <2>2 DEF Before
<1>2. CASE tasks[i].group # tasks[j].group
  <2>1. PICK f : Opens(tasks, lane, f, i)
    BY <1>0, FirstOfGroup
  <2>2. PICK g : Opens(tasks, lane, g, j)
    BY <1>0, FirstOfGroup
  <2>3. f \in Nat /\ g \in Nat /\ i \in Nat /\ j \in Nat /\ f # g
    BY <1>0, <1>2, <2>1, <2>2 DEF Opens
  <2>4. f < g
    <3>1. SUFFICES ASSUME g < f PROVE FALSE
      BY <2>3
    <3>2. g < i /\ i < j /\ tasks[g].group = tasks[j].group
      BY <2>1, <2>2, <2>3, <3>1 DEF Opens
    <3>3. tasks[i].group = tasks[g].group
      BY <2>2, <3>2 DEF Opens, LaneInOrder, Together
    <3>. QED
      BY <1>2, <2>2, <3>3 DEF Opens
  <2>5. Rank(caps, tasks[f].group) < Rank(caps, tasks[g].group)
    BY <1>0, <2>1, <2>2, <2>4 DEF Opens, LaneInOrder, GroupsInOrder
  <2>. QED
    BY <2>1, <2>2, <2>5 DEF Before, Opens
<1>. QED
  BY <1>1, <1>2

PlanTyped == registry \in Seq(Rows) /\ lines \in Seq(PlanLines)

\* A fault that is not raised did not occur.
LEMMA NoneRaised ==
  ASSUME NEW faults, Raised(faults) = {}, NEW f \in DOMAIN faults
  PROVE  ~faults[f]
  BY DEF Raised

\* What the gate has seen to when it finds nothing.
LEMMA AcceptedGroups ==
  ASSUME Accepted, NEW i \in DOMAIN Tasks
  PROVE  Tasks[i].group \in CapabilityIds(registry) /\ Tasks[i].section \in Sections
<1> DEFINE s == Serves(Tasks[i])
<1>1. IdentityFaults(registry, Tasks, i) = {}
  <2>1. registry # <<>>
    BY DEF Accepted, Findings
  <2>2. UNION {TaskFaults(registry, Tasks, records, j) : j \in DOMAIN Tasks} = {}
    BY <2>1 DEF Accepted, Findings, Tasks
  <2>. QED
    BY <2>2 DEF TaskFaults
<1> DEFINE faults == [duplicate    |-> \E j \in 1..(i - 1) : Tasks[j].id = Tasks[i].id,
                      lane         |-> Tasks[i].section \notin Sections,
                      group        |-> Tasks[i].group = <<>>,
                      noServes     |-> s = NoServes,
                      unregistered |-> s # NoServes /\ s \notin CapabilityIds(registry),
                      elsewhere    |-> s \in CapabilityIds(registry) /\ Tasks[i].group # s]
<1>2. Raised(faults) = {}
  BY <1>1 DEF IdentityFaults
<1>3. {"lane", "noServes", "unregistered", "elsewhere"} \subseteq DOMAIN faults
  OBVIOUS
<1>4. /\ faults["lane"] = (Tasks[i].section \notin Sections)
      /\ faults["noServes"] = (s = NoServes)
      /\ faults["unregistered"] = (s # NoServes /\ s \notin CapabilityIds(registry))
      /\ faults["elsewhere"] = (s \in CapabilityIds(registry) /\ Tasks[i].group # s)
  OBVIOUS
<1>. HIDE DEF faults
<1>5. ~faults["lane"] /\ ~faults["noServes"] /\ ~faults["unregistered"] /\ ~faults["elsewhere"]
  BY <1>2, <1>3, NoneRaised
<1>. QED
  BY <1>4, <1>5

\* A plan the gate accepts has its groups in order in every lane.
LEMMA AcceptedOrder ==
  ASSUME Accepted, NEW s \in Sections
  PROVE  GroupsInOrder(registry, Tasks, Lane(Tasks, s)) /\ OptionalLast(Tasks, Lane(Tasks, s))
<1>1. registry # <<>>
  BY DEF Accepted, Findings
<1>2. OrderFaults(registry, Tasks) = {}
  BY <1>1 DEF Accepted, Findings, Tasks
<1> DEFINE faults == [groupOrder    |-> \E x \in Sections : ~GroupsInOrder(registry, Tasks, Lane(Tasks, x)),
                      optionalOrder |-> \E x \in Sections : ~OptionalLast(Tasks, Lane(Tasks, x))]
<1>3. Raised(faults) = {}
  BY <1>2 DEF OrderFaults
<1>4. {"groupOrder", "optionalOrder"} \subseteq DOMAIN faults
  OBVIOUS
<1>5. /\ faults["groupOrder"] = (\E x \in Sections : ~GroupsInOrder(registry, Tasks, Lane(Tasks, x)))
      /\ faults["optionalOrder"] = (\E x \in Sections : ~OptionalLast(Tasks, Lane(Tasks, x)))
  OBVIOUS
<1>. HIDE DEF faults
<1>6. ~faults["groupOrder"] /\ ~faults["optionalOrder"]
  BY <1>3, <1>4, NoneRaised
<1>. QED
  BY <1>5, <1>6

\* All tasks of an accepted plan belong to a capability of the registry.
LEMMA AcceptedRanked ==
  ASSUME PlanTyped, Accepted, NEW set \in SUBSET DOMAIN Tasks
  PROVE  RankedTasks(registry, Tasks, set)
<1>1. \E n \in Nat : DOMAIN registry = 1..n
  BY DEF PlanTyped
<1>2. TasksFrom(Tasks, lines, Len(lines))
  BY TasksRead DEF PlanTyped, Tasks
<1>3. DOMAIN Tasks \subseteq Nat /\ \A i \in DOMAIN Tasks : Tasks[i].optional \in BOOLEAN
  BY <1>2 DEF TasksFrom, ReadFrom
<1>4. \A i \in set : Tasks[i].group \in CapabilityIds(registry)
  BY AcceptedGroups
<1>. QED
  BY <1>1, <1>3, <1>4 DEF RankedTasks

\* The next task of a lane is an eligible one.
LEMMA NextIsEligible ==
  ASSUME PlanTyped, Accepted, NEW s, Eligible(Tasks, s) # {}
  PROVE  NextTask(registry, Tasks, s) \in Eligible(Tasks, s)
<1>1. RankedTasks(registry, Tasks, Eligible(Tasks, s))
  BY AcceptedRanked DEF Eligible, Lane
<1>2. PICK m \in Eligible(Tasks, s) :
           \A j \in Eligible(Tasks, s) \ {m} : Before(registry, Tasks, m, j)
  BY <1>1, FirstTask
<1>3. NextTask(registry, Tasks, s) = m
  BY <1>1, <1>2, NextTaskIs
<1>. QED
  BY <1>3

\* The property, from the types alone.
LEMMA NextFirstInLine == PlanTyped => NextIsFirstInLine
<1> SUFFICES ASSUME PlanTyped, Accepted, NEW s \in Sections,
                    Together(Tasks, Lane(Tasks, s)), Eligible(Tasks, s) # {}
             PROVE  NextTask(registry, Tasks, s) = Min(Eligible(Tasks, s))
  BY DEF NextIsFirstInLine
<1> DEFINE E == Eligible(Tasks, s)
           lane == Lane(Tasks, s)
<1>1. E \subseteq lane /\ lane \in SUBSET DOMAIN Tasks
  BY DEF Eligible, Lane
<1>2. RankedTasks(registry, Tasks, lane) /\ RankedTasks(registry, Tasks, E)
  <2>1. E \in SUBSET DOMAIN Tasks
    BY <1>1
  <2>. QED
    BY <1>1, <2>1, AcceptedRanked
<1>3. LaneInOrder(registry, Tasks, lane)
  BY <1>2, AcceptedOrder DEF LaneInOrder
<1>4. E \subseteq Nat
  BY <1>2 DEF RankedTasks
<1>. HIDE DEF E, lane
<1>5. PICK m \in E : \A j \in E : m <= j
  BY <1>4, NatMin DEF E
<1>6. ASSUME NEW j \in E \ {m} PROVE Before(registry, Tasks, m, j)
  <2>1. m < j /\ m \in lane /\ j \in lane
    BY <1>1, <1>4, <1>5
  <2>. QED
    BY <1>3, <2>1, LaneBefore
<1>7. NextTask(registry, Tasks, s) = m
  BY <1>2, <1>5, <1>6, NextTaskIs DEF E
<1>8. Min(E) = m
  <2>1. \A x \in E : (\A y \in E : x <= y) => x = m
    BY <1>4, <1>5
  <2>. QED
    BY <1>5, <2>1 DEF Min
<1>. QED
  BY <1>7, <1>8 DEF E

\* Every task of an accepted plan can be cut out of it.
LEMMA WithoutTyped ==
  ASSUME NEW doc \in Seq(PlanLines), NEW i \in DOMAIN ReadTasks(doc)
  PROVE  WithoutTask(doc, ReadTasks(doc)[i].id) \in Seq(PlanLines)
<1> DEFINE id == ReadTasks(doc)[i].id
           n == Len(doc)
<1>1. n \in Nat /\ DOMAIN doc = 1..n /\ \A p \in 1..n : doc[p] \in PlanLines
  OBVIOUS
<1>2. PICK p \in 1..n : doc[p].k = "task" /\ doc[p].v = id /\ ~Fenced(doc, p)
  <2>1. TasksFrom(ReadTasks(doc), doc, n)
    BY TasksRead
  <2>2. ReadFrom(ReadTasks(doc)[i], doc, n)
    BY <2>1 DEF TasksFrom
  <2>. QED
    BY <2>2 DEF ReadFrom
<1>. HIDE DEF id, n
<1>3. p \in Headings(doc)
  BY <1>1, <1>2 DEF Headings, HeadingKinds
<1>4. PICK from : from = CHOOSE q \in Headings(doc) : doc[q].k = "task" /\ doc[q].v = id
  OBVIOUS
<1>5. from \in 1..n
  <2>1. from \in Headings(doc)
    BY <1>2, <1>3, <1>4
  <2>. QED
    BY <1>1, <2>1 DEF Headings
<1> DEFINE after == {q \in Headings(doc) : q > from} \union {n + 1}
<1>6. PICK to : to = Min(after)
  OBVIOUS
<1>7. to \in 1..(n + 1)
  <2>1. after \subseteq 1..(n + 1) /\ after # {} /\ after \subseteq Nat
    BY <1>1 DEF Headings
  <2>. HIDE DEF after
  <2>2. PICK m \in after : \A q \in after : m <= q
    BY <2>1, NatMin
  <2>3. Min(after) \in after
    BY <2>2 DEF Min
  <2>. QED
    BY <1>6, <2>1, <2>3
<1>8. WithoutTask(doc, id) = SubSeq(doc, 1, from - 1) \o SubSeq(doc, to, n)
  BY <1>4, <1>6 DEF WithoutTask, n
<1>9. SubSeq(doc, 1, from - 1) \in Seq(PlanLines) /\ SubSeq(doc, to, n) \in Seq(PlanLines)
  <2>1. \A q \in 1..(from - 1) : doc[q] \in PlanLines
    BY <1>1, <1>5
  <2>2. \A q \in to..n : doc[q] \in PlanLines
    BY <1>1, <1>7
  <2>3. from - 1 \in Int /\ to \in Int /\ n \in Int /\ 1 \in Int
    BY <1>1, <1>5, <1>7
  <2>4. SubSeq(doc, 1, from - 1) \in Seq(PlanLines)
    BY <2>1, <2>3, SubSeqProperties
  <2>5. SubSeq(doc, to, n) \in Seq(PlanLines)
    BY <2>2, <2>3, SubSeqProperties
  <2>. QED
    BY <2>4, <2>5
<1>10. WithoutTask(doc, id) \in Seq(PlanLines)
  BY <1>8, <1>9, ConcatProperties
<1>. QED
  BY <1>10 DEF id

\* A sequence without one element.
LEMMA RemoveTyped ==
  ASSUME NEW S, NEW s \in Seq(S), NEW i \in DOMAIN s
  PROVE  RemoveAt(s, i) \in Seq(S)
<1>1. i \in 1..Len(s) /\ Len(s) \in Nat /\ \A q \in 1..Len(s) : s[q] \in S
  OBVIOUS
<1>2. SubSeq(s, 1, i - 1) \in Seq(S) /\ SubSeq(s, i + 1, Len(s)) \in Seq(S)
  BY <1>1, SubSeqProperties
<1>. QED
  BY <1>2, ConcatProperties DEF RemoveAt

\* A sequence with one element more.
LEMMA InsertTyped ==
  ASSUME NEW S, NEW s \in Seq(S), NEW i \in 1..(Len(s) + 1), NEW e \in S
  PROVE  InsertAt(s, i, e) \in Seq(S)
<1>1. Len(s) \in Nat /\ \A q \in 1..Len(s) : s[q] \in S
  OBVIOUS
<1>2. SubSeq(s, 1, i - 1) \in Seq(S) /\ SubSeq(s, i, Len(s)) \in Seq(S)
  BY <1>1, SubSeqProperties
<1>3. SubSeq(s, 1, i - 1) \o <<e>> \in Seq(S)
  BY <1>2, ConcatProperties
<1>. QED
  BY <1>2, <1>3, ConcatProperties DEF InsertAt

\* Edits and finished tasks leave a document of plan lines.
LEMMA NextPlanTyped == PlanTyped /\ [PlanNext]_planVars => PlanTyped'
<1> SUFFICES ASSUME PlanTyped, [PlanNext]_planVars PROVE PlanTyped'
  OBVIOUS
<1>0. registry \in Seq(Rows) /\ lines \in Seq(PlanLines)
  BY DEF PlanTyped
<1>1. CASE EditPlan
  <2>1. registry' = registry
    BY <1>1 DEF EditPlan
  <2>2. ASSUME NEW i \in DOMAIN lines, lines' = RemoveAt(lines, i) PROVE lines' \in Seq(PlanLines)
    BY <1>0, <2>2, RemoveTyped
  <2>3. ASSUME NEW i \in 1..(Len(lines) + 1), NEW l \in NewLines, lines' = InsertAt(lines, i, l)
        PROVE  lines' \in Seq(PlanLines)
    <3>1. l \in PlanLines
      BY DEF PlanLines
    <3>. QED
      BY <1>0, <2>3, <3>1, InsertTyped
  <2>. QED
    BY <1>0, <1>1, <2>1, <2>2, <2>3 DEF EditPlan, PlanTyped
<1>2. CASE EditRegistry
  <2>1. lines' = lines
    BY <1>2 DEF EditRegistry
  <2>2. PICK i \in DOMAIN registry :
          \/ registry' = RemoveAt(registry, i)
          \/ i < Len(registry) /\ registry' = [registry EXCEPT ![i] = registry[i + 1], ![i + 1] = registry[i]]
          \/ \E s \in {Shipped, Planned, Stalled} : registry' = [registry EXCEPT ![i].status = s]
          \/ registry' = [registry EXCEPT ![i].link = ~registry[i].link]
          \/ registry' = [registry EXCEPT ![i].evaluation = ~registry[i].evaluation]
    BY <1>2 DEF EditRegistry
  <2>3. /\ i \in 1..Len(registry) /\ registry[i] \in Rows
        /\ i < Len(registry) => i + 1 \in DOMAIN registry /\ registry[i + 1] \in Rows
    BY <1>0
  <2>4. CASE registry' = RemoveAt(registry, i)
    BY <1>0, <2>1, <2>4, RemoveTyped DEF PlanTyped
  <2>5. CASE i < Len(registry) /\ registry' = [registry EXCEPT ![i] = registry[i + 1], ![i + 1] = registry[i]]
    BY <1>0, <2>1, <2>3, <2>5 DEF PlanTyped
  <2>6. CASE \E row \in Rows : registry' = [registry EXCEPT ![i] = row]
    BY <1>0, <2>1, <2>6 DEF PlanTyped
  <2>7. ASSUME NEW s \in {Shipped, Planned, Stalled}, registry' = [registry EXCEPT ![i].status = s]
        PROVE  \E row \in Rows : registry' = [registry EXCEPT ![i] = row]
    <3>1. [registry[i] EXCEPT !.status = s] \in Rows
      BY <2>3 DEF Rows
    <3>. QED
      BY <2>7, <3>1
  <2>8. CASE registry' = [registry EXCEPT ![i].link = ~registry[i].link]
    <3>1. [registry[i] EXCEPT !.link = ~registry[i].link] \in Rows
      BY <2>3 DEF Rows
    <3>. QED
      BY <2>6, <2>8, <3>1
  <2>9. CASE registry' = [registry EXCEPT ![i].evaluation = ~registry[i].evaluation]
    <3>1. [registry[i] EXCEPT !.evaluation = ~registry[i].evaluation] \in Rows
      BY <2>3 DEF Rows
    <3>. QED
      BY <2>6, <2>9, <3>1
  <2>. QED
    BY <2>2, <2>4, <2>5, <2>6, <2>7, <2>8, <2>9
<1>3. CASE FinishTask
  <2>1. Accepted
    BY <1>3 DEF FinishTask
  <2>2. PICK section \in Sections :
           LET n == NextTask(registry, Tasks, section)
               t == Tasks[n]
               last == \A i \in DOMAIN Tasks \ {n} : Serves(Tasks[i]) # t.group
           IN  /\ Eligible(Tasks, section) # {}
               /\ lines' = WithoutTask(lines, t.id)
               /\ registry' = [i \in DOMAIN registry |->
                                  IF registry[i].id = t.group /\ last
                                  THEN [registry[i] EXCEPT !.status = Shipped, !.link = TRUE] ELSE registry[i]]
    BY <1>3 DEF FinishTask
  <2> DEFINE n == NextTask(registry, Tasks, section)
  <2>3. n \in DOMAIN Tasks
    BY <2>1, <2>2, NextIsEligible DEF Eligible, Lane
  <2>4. lines' \in Seq(PlanLines)
    BY <1>0, <2>2, <2>3, WithoutTyped DEF Tasks
  <2>5. registry' \in Seq(Rows)
    <3>1. ASSUME NEW i \in DOMAIN registry
          PROVE  [registry[i] EXCEPT !.status = Shipped, !.link = TRUE] \in Rows /\ registry[i] \in Rows
      <4>1. registry[i] \in Rows
        BY <1>0
      <4>. QED
        BY <4>1 DEF Rows
    <3>2. DOMAIN registry = 1..Len(registry) /\ Len(registry) \in Nat
      BY <1>0
    <3>3. registry' \in [1..Len(registry) -> Rows]
      BY <2>2, <3>1, <3>2
    <3>. QED
      BY <3>2, <3>3
  <2>. QED
    BY <2>4, <2>5 DEF PlanTyped
<1>4. CASE UNCHANGED planVars
  BY <1>4 DEF planVars, PlanTyped
<1>. QED
  BY <1>1, <1>2, <1>3, <1>4 DEF PlanNext

\* In an accepted plan whose lanes keep each group together, the next task is the first
\* eligible one of the lane.
THEOREM NextTaskIsFirst == PlanSpec => []NextIsFirstInLine
<1>1. PlanInit => PlanTyped
  BY PlanAssumption DEF PlanInit, PlanTyped
<1>2. PlanTyped /\ [PlanNext]_planVars => PlanTyped'
  BY NextPlanTyped
<1>3. PlanTyped => NextIsFirstInLine
  BY NextFirstInLine
<1>. QED
  BY <1>1, <1>2, <1>3, PTL DEF PlanSpec

-----------------------------------------------------------------------------
(* The search for cycles.  It is defined by recursion, so it is first shown   *)
(* to be well defined, by induction over the size of what is left to search,  *)
(* and then, by the same induction, to come to what it should.                *)

\* One step of a search, in terms of the searches it calls.
Pick(s) == CHOOSE x \in s.todo : TRUE
Inner(graph, s) == [todo |-> graph[Pick(s)], path |-> s.path \union {Pick(s)}, done |-> s.done, cycle |-> s.cycle]
Rest(s, seen, cycle) == [todo |-> s.todo \ {Pick(s)}, path |-> s.path, done |-> seen, cycle |-> cycle]
After(s, r) ==
    IF Pick(s) \in s.done THEN Rest(s, s.done, s.cycle)
    ELSE IF Pick(s) \in s.path THEN Rest(s, s.done, TRUE)
    ELSE Rest(s, r.done \union {Pick(s)}, r.cycle)
Loop(graph, v, s) == IF s.todo = {} THEN s ELSE v[After(s, v[Inner(graph, s)])]
IsVisit(graph, v) == v = [s \in Searches(DOMAIN graph) |-> Loop(graph, v, s)]
Visit(graph) == CHOOSE v : IsVisit(graph, v)

LEMMA ExploreIs ==
  ASSUME NEW graph, NEW start
  PROVE  Explore(graph, start) = Visit(graph)[[todo |-> start, path |-> {}, done |-> {}, cycle |-> FALSE]]
<1> DEFINE Old(v, s) ==
              LET d     == CHOOSE x \in s.todo : TRUE
                  inner == v[[todo |-> graph[d], path |-> s.path \union {d}, done |-> s.done, cycle |-> s.cycle]]
                  More(seen, cycle) == v[[todo |-> s.todo \ {d}, path |-> s.path, done |-> seen, cycle |-> cycle]]
              IN  IF s.todo = {} THEN s
                  ELSE IF d \in s.done THEN More(s.done, s.cycle)
                  ELSE IF d \in s.path THEN More(s.done, TRUE)
                  ELSE More(inner.done \union {d}, inner.cycle)
<1>1. \A v, s : Old(v, s) = Loop(graph, v, s)
  BY DEF Loop, After, Rest, Inner, Pick
<1>2. Explore(graph, start) = (CHOOSE v : v = [s \in Searches(DOMAIN graph) |-> Old(v, s)])[[todo |-> start, path |-> {}, done |-> {}, cycle |-> FALSE]]
  BY DEF Explore
<1>. HIDE DEF Old
<1>3. \A v : (v = [s \in Searches(DOMAIN graph) |-> Old(v, s)]) <=> IsVisit(graph, v)
  BY <1>1 DEF IsVisit
<1>. QED
  BY <1>2, <1>3 DEF Visit

\* Every search that follows is smaller: a path it has not left is longer, or less is to do.
GraphOk(graph) == IsFiniteSet(DOMAIN graph) /\ graph \in [DOMAIN graph -> SUBSET DOMAIN graph]
Size(graph, s) ==
    Cardinality(DOMAIN graph \ s.path) * (Cardinality(DOMAIN graph) + 1) + Cardinality(s.todo)
Smaller(graph, m) == {s \in Searches(DOMAIN graph) : Size(graph, s) < m}

LEMMA SizeType ==
  ASSUME NEW graph, GraphOk(graph), NEW s \in Searches(DOMAIN graph)
  PROVE  /\ Size(graph, s) \in Nat
         /\ Size(graph, s) < (Cardinality(DOMAIN graph) + 1) * (Cardinality(DOMAIN graph) + 1)
<1>1. /\ s.todo \in SUBSET DOMAIN graph /\ DOMAIN graph \ s.path \in SUBSET DOMAIN graph
      /\ IsFiniteSet(DOMAIN graph)
  BY DEF Searches, GraphOk
<1>2. PICK a, b, n : a = Cardinality(DOMAIN graph \ s.path) /\ b = Cardinality(s.todo) /\ n = Cardinality(DOMAIN graph)
  OBVIOUS
<1>3. a \in Nat /\ b \in Nat /\ n \in Nat /\ a <= n /\ b <= n
  BY <1>1, <1>2, FS_Subset, FS_CardinalityType
<1>4. \A x, y, z \in Nat : x <= z /\ y <= z => x * (z + 1) + y \in Nat /\ x * (z + 1) + y < (z + 1) * (z + 1)
  <2> SUFFICES ASSUME NEW x \in Nat, NEW y \in Nat, NEW z \in Nat, x <= z, y <= z
               PROVE  x * (z + 1) + y \in Nat /\ x * (z + 1) + y < (z + 1) * (z + 1)
    OBVIOUS
  <2>1. x * (z + 1) \in Nat /\ x * (z + 1) <= z * (z + 1)
    OBVIOUS
  <2>2. (z + 1) * (z + 1) = z * (z + 1) + (z + 1) /\ z * (z + 1) \in Nat
    OBVIOUS
  <2>. QED
    BY <2>1, <2>2
<1>5. a * (n + 1) + b \in Nat /\ a * (n + 1) + b < (n + 1) * (n + 1)
  BY <1>3, <1>4
<1>. QED
  BY <1>2, <1>5 DEF Size

LEMMA LessOne ==
  ASSUME NEW S, IsFiniteSet(S), NEW x \in S
  PROVE  IsFiniteSet(S \ {x}) /\ Cardinality(S \ {x}) = Cardinality(S) - 1
<1>1. IsFiniteSet(S \ {x}) /\ Cardinality(S \ {x}) = IF x \in S THEN Cardinality(S) - 1 ELSE Cardinality(S)
  BY FS_RemoveElement
<1>. QED
  BY <1>1

LEMMA PickIn == ASSUME NEW s, s.todo # {} PROVE Pick(s) \in s.todo
  BY DEF Pick

LEMMA InnerSmaller ==
  ASSUME NEW graph, GraphOk(graph), NEW s \in Searches(DOMAIN graph), s.todo # {}
  PROVE  /\ Inner(graph, s) \in Searches(DOMAIN graph)
         /\ Pick(s) \notin s.path => Size(graph, Inner(graph, s)) < Size(graph, s)
<1> DEFINE N == DOMAIN graph
<1>0. PICK d, t : d = Pick(s) /\ t = Inner(graph, s)
  OBVIOUS
<1>1. /\ d \in s.todo /\ d \in N /\ graph[d] \in SUBSET N
      /\ s.todo \in SUBSET N /\ s.path \in SUBSET N /\ s.done \in SUBSET N /\ s.cycle \in BOOLEAN
  BY <1>0, PickIn DEF Searches, GraphOk
<1>2. t = [todo |-> graph[d], path |-> s.path \union {d}, done |-> s.done, cycle |-> s.cycle]
  BY <1>0 DEF Inner
<1>3. t \in Searches(N) /\ t.todo = graph[d] /\ t.path = s.path \union {d}
  BY <1>1, <1>2 DEF Searches
<1>4. ASSUME d \notin s.path PROVE Size(graph, t) < Size(graph, s)
  <2>1. PICK a, b, c, e, n : /\ a = Cardinality(N \ s.path) /\ b = Cardinality(s.todo) /\ n = Cardinality(N)
                             /\ c = Cardinality(N \ t.path) /\ e = Cardinality(t.todo)
    OBVIOUS
  <2>2. /\ N \ s.path \in SUBSET N /\ N \ t.path = (N \ s.path) \ {d} /\ d \in N \ s.path
        /\ IsFiniteSet(N)
    BY <1>1, <1>3, <1>4 DEF GraphOk
  <2>3. a \in Nat /\ b \in Nat /\ c \in Nat /\ e \in Nat /\ n \in Nat /\ a = c + 1 /\ e <= n
    <3>1. IsFiniteSet(N \ s.path) /\ IsFiniteSet(s.todo) /\ IsFiniteSet(t.todo) /\ Cardinality(t.todo) <= n
      BY <1>1, <1>3, <2>1, <2>2, FS_Subset
    <3>2. IsFiniteSet(N \ t.path) /\ c = a - 1
      BY <2>1, <2>2, <3>1, LessOne
    <3>3. a \in Nat /\ b \in Nat /\ c \in Nat /\ e \in Nat /\ n \in Nat
      BY <2>1, <2>2, <3>1, <3>2, FS_CardinalityType
    <3>. QED
      BY <2>1, <3>1, <3>2, <3>3
  <2>4. c * (n + 1) + e < a * (n + 1) + b
    <3>1. \A x, y \in Nat : (x + 1) * (y + 1) = x * (y + 1) + (y + 1) /\ x * (y + 1) \in Nat
      <4>1. \A x, z \in Nat : (x + 1) * z = x * z + z /\ x * z \in Nat
        OBVIOUS
      <4>2. \A y \in Nat : y + 1 \in Nat
        OBVIOUS
      <4>. QED
        BY <4>1, <4>2
    <3>2. a * (n + 1) = c * (n + 1) + (n + 1) /\ c * (n + 1) \in Nat
      BY <2>3, <3>1
    <3>3. PICK x, y : x = a * (n + 1) /\ y = c * (n + 1)
      OBVIOUS
    <3>4. y + e < x + b
      BY <2>3, <3>2, <3>3
    <3>. QED
      BY <3>3, <3>4
  <2>. QED
    BY <2>1, <2>4 DEF Size
<1>. QED
  BY <1>0, <1>3, <1>4

LEMMA AfterSmaller ==
  ASSUME NEW graph, GraphOk(graph), NEW s \in Searches(DOMAIN graph), s.todo # {},
         NEW r, Pick(s) \in s.done \/ Pick(s) \in s.path \/ r \in Searches(DOMAIN graph)
  PROVE  /\ After(s, r) \in Searches(DOMAIN graph)
         /\ Size(graph, After(s, r)) < Size(graph, s)
<1> DEFINE N == DOMAIN graph
<1>0. PICK d, t : d = Pick(s) /\ t = After(s, r)
  OBVIOUS
<1>1. /\ d \in s.todo /\ d \in N
      /\ s.todo \in SUBSET N /\ s.path \in SUBSET N /\ s.done \in SUBSET N /\ s.cycle \in BOOLEAN
      /\ d \in s.done \/ d \in s.path \/ (r.done \in SUBSET N /\ r.cycle \in BOOLEAN)
  BY <1>0, PickIn DEF Searches
<1>2. t \in Searches(N) /\ t.todo = s.todo \ {d} /\ t.path = s.path
  <2>1. t = IF d \in s.done THEN [todo |-> s.todo \ {d}, path |-> s.path, done |-> s.done, cycle |-> s.cycle]
            ELSE IF d \in s.path THEN [todo |-> s.todo \ {d}, path |-> s.path, done |-> s.done, cycle |-> TRUE]
            ELSE [todo |-> s.todo \ {d}, path |-> s.path, done |-> r.done \union {d}, cycle |-> r.cycle]
    BY <1>0 DEF After, Rest
  <2>2. CASE d \in s.done
    BY <1>1, <2>1, <2>2 DEF Searches
  <2>3. CASE d \notin s.done /\ d \in s.path
    BY <1>1, <2>1, <2>3 DEF Searches
  <2>4. CASE d \notin s.done /\ d \notin s.path
    BY <1>1, <2>1, <2>4 DEF Searches
  <2>. QED
    BY <2>2, <2>3, <2>4
<1>3. Size(graph, t) < Size(graph, s)
  <2>1. IsFiniteSet(s.todo) /\ IsFiniteSet(N \ s.path) /\ IsFiniteSet(N)
    <3>1. N \ s.path \in SUBSET N
      OBVIOUS
    <3>. QED
      BY <1>1, <3>1, FS_Subset DEF GraphOk
  <2>2. PICK a, b, n : a = Cardinality(N \ s.path) /\ b = Cardinality(s.todo) /\ n = Cardinality(N)
    OBVIOUS
  <2>3. Cardinality(t.todo) = b - 1
    BY <1>1, <1>2, <2>1, <2>2, LessOne
  <2>4. a * (n + 1) + (b - 1) < a * (n + 1) + b
    <3>1. a \in Nat /\ b \in Nat /\ n \in Nat
      BY <2>1, <2>2, FS_CardinalityType
    <3>2. PICK x : x = a * (n + 1)
      OBVIOUS
    <3>3. x \in Nat
      BY <3>1, <3>2
    <3>4. x + (b - 1) < x + b
      BY <3>1, <3>3
    <3>. QED
      BY <3>2, <3>4
  <2>. QED
    BY <1>2, <2>2, <2>3, <2>4 DEF Size
<1>. QED
  BY <1>0, <1>2, <1>3

LEMMA LoopSame ==
  ASSUME NEW graph, GraphOk(graph), NEW m \in Nat, NEW s \in Smaller(graph, m + 1), NEW v, NEW w,
         \A x \in Smaller(graph, m) : v[x] = w[x] /\ v[x] \in Searches(DOMAIN graph)
  PROVE  Loop(graph, v, s) = Loop(graph, w, s) /\ Loop(graph, v, s) \in Searches(DOMAIN graph)
<1>0. s \in Searches(DOMAIN graph) /\ Size(graph, s) < m + 1
  BY DEF Smaller
<1>1. CASE s.todo = {}
  BY <1>0, <1>1 DEF Loop
<1>2. CASE s.todo # {}
  <2> DEFINE a == v[Inner(graph, s)]
             b == w[Inner(graph, s)]
  <2>1. \/ a = b /\ a \in Searches(DOMAIN graph)
        \/ Pick(s) \in s.done \/ Pick(s) \in s.path
    <3>1. CASE Pick(s) \notin s.path
      <4>1. Inner(graph, s) \in Smaller(graph, m)
        <5>1. Inner(graph, s) \in Searches(DOMAIN graph) /\ Size(graph, Inner(graph, s)) < Size(graph, s)
          BY <1>0, <1>2, <3>1, InnerSmaller
        <5>2. Size(graph, s) \in Nat /\ Size(graph, Inner(graph, s)) \in Nat
          BY <1>0, <5>1, SizeType
        <5>. QED
          BY <1>0, <5>1, <5>2 DEF Smaller
      <4>. QED
        BY <4>1
    <3>. QED
      BY <3>1
  <2>2. After(s, a) = After(s, b)
    BY <2>1 DEF After
  <2>3. After(s, a) \in Smaller(graph, m)
    <3>1. After(s, a) \in Searches(DOMAIN graph) /\ Size(graph, After(s, a)) < Size(graph, s)
      BY <1>0, <1>2, <2>1, AfterSmaller
    <3>2. Size(graph, s) \in Nat /\ Size(graph, After(s, a)) \in Nat
      BY <1>0, <3>1, SizeType
    <3>. QED
      BY <1>0, <3>1, <3>2 DEF Smaller
  <2>4. Loop(graph, v, s) = v[After(s, a)] /\ Loop(graph, w, s) = w[After(s, b)]
    BY <1>2 DEF Loop
  <2>. QED
    BY <2>2, <2>3, <2>4
<1>. QED
  BY <1>1, <1>2

\* So the function the search is defined as exists.
LEMMA VisitIs == ASSUME NEW graph, GraphOk(graph) PROVE IsVisit(graph, Visit(graph))
<1> DEFINE All == Searches(DOMAIN graph)
           Solves(g, m) == \A s \in Smaller(graph, m) : g[s] = Loop(graph, g, s) /\ g[s] \in All
           E == {m \in Nat : \E g : Solves(g, m)}
<1>1. 0 \in E
  <2>1. Smaller(graph, 0) = {}
    BY SizeType DEF Smaller
  <2>. QED
    BY <2>1
<1>2. ASSUME NEW m \in Nat, m \in E PROVE m + 1 \in E
  <2>1. PICK g : Solves(g, m)
    BY <1>2
  <2> DEFINE h == [s \in Smaller(graph, m + 1) |-> Loop(graph, g, s)]
  <2>2. ASSUME NEW x \in Smaller(graph, m) PROVE g[x] = h[x] /\ g[x] \in All
    <3>1. x \in Smaller(graph, m + 1)
      BY SizeType DEF Smaller
    <3>. QED
      BY <2>1, <3>1
  <2>3. ASSUME NEW s \in Smaller(graph, m + 1) PROVE h[s] = Loop(graph, h, s) /\ h[s] \in All
    <3>. HIDE DEF h
    <3>1. Loop(graph, g, s) = Loop(graph, h, s) /\ Loop(graph, g, s) \in All
      BY <2>2, LoopSame
    <3>2. h[s] = Loop(graph, g, s)
      BY DEF h
    <3>. QED
      BY <3>1, <3>2
  <2>. HIDE DEF h
  <2>4. Solves(h, m + 1)
    BY <2>3
  <2>. QED
    BY <2>4
<1>. HIDE DEF E
<1>3. \A m \in Nat : m \in E
  BY <1>1, <1>2, NatSet
<1>4. PICK m \in Nat : All = Smaller(graph, m)
  <2>1. PICK n \in Nat : n = (Cardinality(DOMAIN graph) + 1) * (Cardinality(DOMAIN graph) + 1)
    <3>1. Cardinality(DOMAIN graph) \in Nat
      BY FS_CardinalityType DEF GraphOk
    <3>. QED
      BY <3>1
  <2>2. All = Smaller(graph, n)
    BY <2>1, SizeType DEF Smaller
  <2>. QED
    BY <2>2
<1>5. PICK g : Solves(g, m)
  BY <1>3 DEF E
<1> DEFINE h == [s \in All |-> g[s]]
<1>6. ASSUME NEW x \in Smaller(graph, m) PROVE g[x] = h[x] /\ g[x] \in All
  BY <1>4, <1>5, <1>6
<1>7. ASSUME NEW s \in All PROVE g[s] = Loop(graph, h, s)
  <2>. HIDE DEF h
  <2>1. s \in Smaller(graph, m) /\ s \in Smaller(graph, m + 1)
    BY <1>4, SizeType DEF Smaller
  <2>2. Loop(graph, g, s) = Loop(graph, h, s)
    BY <1>6, <2>1, LoopSame
  <2>. QED
    BY <1>5, <2>1, <2>2
<1>8. h = [s \in All |-> Loop(graph, h, s)]
  <2> DEFINE k == [s \in All |-> Loop(graph, h, s)]
  <2>. HIDE DEF h
  <2>1. \A s \in All : k[s] = g[s]
    BY <1>7
  <2>2. h \in [All -> {g[s] : s \in All}] /\ \A s \in All : h[s] = g[s]
    BY DEF h
  <2>3. k = [s \in All |-> k[s]] /\ h = [s \in All |-> h[s]]
    BY <2>2
  <2>. QED
    BY <2>1, <2>2, <2>3
<1>. HIDE DEF h
<1>9. IsVisit(graph, h)
  BY <1>8 DEF IsVisit
<1>. QED
  BY <1>9 DEF Visit

\* A set of nodes that waits on itself, and what the search keeps: the explored nodes form a
\* closed set without such a knot, and every node of the path leads to all that is to do.
Knot(graph, W) == W # {} /\ \A y \in W : graph[y] \cap W # {}
Knotted(graph) == \E W \in SUBSET DOMAIN graph : Knot(graph, W)
Good(graph, seen) ==
    (\A x \in seen : graph[x] \subseteq seen) /\ \A W \in SUBSET seen : ~Knot(graph, W)
Leads(graph, path, todo) ==
    \A x \in path, d \in todo : \E W \in SUBSET DOMAIN graph :
        x \in W /\ \A y \in W : graph[y] \cap (W \union {d}) # {}
\* What the search s comes to when its result is r.
Comes(graph, s, r) ==
    /\ r \in Searches(DOMAIN graph)
    /\ r.cycle /\ Leads(graph, s.path, s.todo) => s.cycle \/ Knotted(graph)
    /\ ~r.cycle => /\ ~s.cycle
                   /\ s.done \subseteq r.done /\ s.todo \subseteq r.done
                   /\ Good(graph, s.done) => Good(graph, r.done)

LEMMA LeadsOn ==
  ASSUME NEW graph, GraphOk(graph), NEW path \in SUBSET DOMAIN graph, NEW todo \in SUBSET DOMAIN graph,
         NEW d \in todo, Leads(graph, path, todo)
  PROVE  /\ Leads(graph, path \union {d}, graph[d])
         /\ d \in path => Knotted(graph)
<1>1. ASSUME NEW x \in path \union {d}, NEW e \in graph[d]
      PROVE  \E W \in SUBSET DOMAIN graph : x \in W /\ \A y \in W : graph[y] \cap (W \union {e}) # {}
  <2>1. CASE x = d
    <3>1. {d} \in SUBSET DOMAIN graph /\ x \in {d} /\ \A y \in {d} : graph[y] \cap ({d} \union {e}) # {}
      BY <2>1
    <3>. QED
      BY <3>1
  <2>2. CASE x \in path
    <3>1. PICK W \in SUBSET DOMAIN graph : x \in W /\ \A y \in W : graph[y] \cap (W \union {d}) # {}
      BY <2>2 DEF Leads
    <3>2. \A y \in W \union {d} : graph[y] \cap ((W \union {d}) \union {e}) # {}
      BY <3>1
    <3>3. W \union {d} \in SUBSET DOMAIN graph /\ x \in W \union {d}
      BY <3>1
    <3>. QED
      BY <3>2, <3>3
  <2>. QED
    BY <2>1, <2>2
<1>2. ASSUME d \in path PROVE Knotted(graph)
  <2>1. PICK W \in SUBSET DOMAIN graph : d \in W /\ \A y \in W : graph[y] \cap (W \union {d}) # {}
    BY <1>2 DEF Leads
  <2>2. W \union {d} = W
    BY <2>1
  <2>. QED
    BY <2>1, <2>2 DEF Knotted, Knot
<1>. QED
  BY <1>1, <1>2 DEF Leads

LEMMA GoodOn ==
  ASSUME NEW graph, NEW seen, NEW d, Good(graph, seen), graph[d] \subseteq seen
  PROVE  Good(graph, seen \union {d})
<1>1. \A x \in seen \union {d} : graph[x] \subseteq seen \union {d}
  BY DEF Good
<1>2. ASSUME NEW W \in SUBSET (seen \union {d}), Knot(graph, W) PROVE FALSE
  <2> DEFINE V == W \cap seen
  <2>1. \A y \in W : graph[y] \subseteq seen
    BY DEF Good
  <2>2. \A y \in W : graph[y] \cap V # {}
    BY <1>2, <2>1 DEF Knot
  <2>3. V # {} /\ \A y \in V : graph[y] \cap V # {}
    <3>1. PICK y \in W : TRUE
      BY <1>2 DEF Knot
    <3>2. graph[y] \cap V # {}
      BY <2>2
    <3>. QED
      BY <2>2, <3>2
  <2>. HIDE DEF V
  <2>4. V \in SUBSET seen /\ Knot(graph, V)
    BY <2>3 DEF Knot, V
  <2>. QED
    BY <2>4 DEF Good
<1>. QED
  BY <1>1, <1>2 DEF Good

\* Every search comes to what it should: one without a cycle has explored all it had to do and
\* found no knot, one with a cycle has found a knot.
LEMMA SearchStep ==
  ASSUME NEW graph, GraphOk(graph), NEW v, IsVisit(graph, v), NEW m \in Nat,
         \A x \in Smaller(graph, m) : Comes(graph, x, v[x]),
         NEW s \in Smaller(graph, m + 1)
  PROVE  Comes(graph, s, v[s])
<1> DEFINE N == DOMAIN graph
<1>0. s \in Searches(N) /\ Size(graph, s) < m + 1 /\ v[s] = Loop(graph, v, s)
  BY DEF Smaller, IsVisit
<1>1. CASE s.todo = {}
  BY <1>0, <1>1 DEF Loop, Comes
<1>2. CASE s.todo # {}
  <2>1. PICK d : d = Pick(s) /\ d \in s.todo
    BY <1>2, PickIn
  <2>2. /\ s.todo \in SUBSET N /\ s.path \in SUBSET N /\ s.done \in SUBSET N /\ s.cycle \in BOOLEAN
        /\ d \in N /\ graph[d] \in SUBSET N
    BY <1>0, <2>1 DEF Searches, GraphOk
  <2>3. PICK t : t = Inner(graph, s)
    OBVIOUS
  <2>4. /\ t.todo = graph[d] /\ t.path = s.path \union {d} /\ t.done = s.done /\ t.cycle = s.cycle
    BY <2>1, <2>3 DEF Inner
  <2>5. PICK q : q = v[t]
    OBVIOUS
  <2>6. PICK u : u = After(s, q)
    OBVIOUS
  <2>7. PICK r : r = v[u] /\ r = v[s]
    BY <1>0, <1>2, <2>3, <2>5, <2>6 DEF Loop
  <2>8. d \notin s.path => Comes(graph, t, q)
    <3>1. SUFFICES ASSUME d \notin s.path PROVE t \in Smaller(graph, m)
      BY <2>5
    <3>2. t \in Searches(N) /\ Size(graph, t) < Size(graph, s)
      BY <1>0, <1>2, <2>1, <2>3, <3>1, InnerSmaller
    <3>3. Size(graph, s) \in Nat /\ Size(graph, t) \in Nat
      BY <1>0, <3>2, SizeType
    <3>. QED
      BY <1>0, <3>2, <3>3 DEF Smaller
  <2>9. Comes(graph, u, r)
    <3>1. Pick(s) \in s.done \/ Pick(s) \in s.path \/ q \in Searches(N)
      BY <2>1, <2>8 DEF Comes
    <3>2. u \in Searches(N) /\ Size(graph, u) < Size(graph, s)
      BY <1>0, <1>2, <2>6, <3>1, AfterSmaller
    <3>3. Size(graph, s) \in Nat /\ Size(graph, u) \in Nat
      BY <1>0, <3>2, SizeType
    <3>4. u \in Smaller(graph, m)
      BY <1>0, <3>2, <3>3 DEF Smaller
    <3>. QED
      BY <2>7, <3>4
  <2>10. /\ r \in Searches(N)
         /\ u.todo = s.todo \ {d} /\ u.path = s.path
         /\ d \in s.done => u.done = s.done /\ u.cycle = s.cycle
         /\ d \notin s.done /\ d \in s.path => u.cycle
         /\ d \notin s.done /\ d \notin s.path => u.done = q.done \union {d} /\ u.cycle = q.cycle
    <3>1. r \in Searches(N)
      BY <2>9 DEF Comes
    <3>2. CASE d \in s.done
      BY <2>1, <2>6, <3>1, <3>2 DEF After, Rest
    <3>3. CASE d \notin s.done /\ d \in s.path
      BY <2>1, <2>6, <3>1, <3>3 DEF After, Rest
    <3>4. CASE d \notin s.done /\ d \notin s.path
      BY <2>1, <2>6, <3>1, <3>4 DEF After, Rest
    <3>. QED
      BY <3>2, <3>3, <3>4
  <2>11. ASSUME Leads(graph, s.path, s.todo)
         PROVE  /\ Leads(graph, u.path, u.todo) /\ Leads(graph, t.path, t.todo)
                /\ d \in s.path => Knotted(graph)
    <3>1. Leads(graph, u.path, u.todo)
      BY <2>10, <2>11 DEF Leads
    <3>2. Leads(graph, s.path \union {d}, graph[d]) /\ (d \in s.path => Knotted(graph))
      BY <2>1, <2>2, <2>11, LeadsOn
    <3>. QED
      BY <2>4, <3>1, <3>2
  <2>12. ASSUME r.cycle, Leads(graph, s.path, s.todo) PROVE s.cycle \/ Knotted(graph)
    <3>1. u.cycle \/ Knotted(graph)
      BY <2>9, <2>11, <2>12 DEF Comes
    <3>2. CASE d \in s.done
      BY <2>10, <3>1, <3>2
    <3>3. CASE d \in s.path
      BY <2>11, <2>12, <3>3
    <3>4. CASE d \notin s.done /\ d \notin s.path
      <4>1. q.cycle \/ Knotted(graph)
        BY <2>10, <3>1, <3>4
      <4>2. q.cycle => t.cycle \/ Knotted(graph)
        BY <2>8, <2>11, <2>12, <3>4 DEF Comes
      <4>. QED
        BY <2>4, <4>1, <4>2
    <3>. QED
      BY <3>2, <3>3, <3>4
  <2>13. ASSUME ~r.cycle
         PROVE  /\ ~s.cycle /\ s.done \subseteq r.done /\ s.todo \subseteq r.done
                /\ Good(graph, s.done) => Good(graph, r.done)
    <3>1. /\ ~u.cycle /\ u.done \subseteq r.done /\ s.todo \ {d} \subseteq r.done
          /\ Good(graph, u.done) => Good(graph, r.done)
      BY <2>9, <2>10, <2>13 DEF Comes
    <3>2. CASE d \in s.done
      BY <2>10, <3>1, <3>2
    <3>3. CASE d \notin s.done
      <4>1. d \notin s.path
        BY <2>10, <3>1, <3>3
      <4>2. u.done = q.done \union {d} /\ ~q.cycle
        BY <2>10, <3>1, <3>3, <4>1
      <4>3. /\ ~s.cycle /\ s.done \subseteq q.done /\ graph[d] \subseteq q.done
            /\ Good(graph, s.done) => Good(graph, q.done)
        BY <2>4, <2>8, <4>1, <4>2 DEF Comes
      <4>4. Good(graph, q.done) => Good(graph, u.done)
        <5>1. PICK e : e = q.done
          OBVIOUS
        <5>2. Good(graph, e) => Good(graph, e \union {d})
          BY <4>3, <5>1, GoodOn
        <5>. QED
          BY <4>2, <5>1, <5>2
      <4>. QED
        BY <3>1, <4>2, <4>3, <4>4
    <3>. QED
      BY <3>2, <3>3
  <2>14. Comes(graph, s, r)
    BY <2>10, <2>12, <2>13 DEF Comes
  <2>. QED
    BY <2>7, <2>14
<1>. QED
  BY <1>1, <1>2

LEMMA SearchComes ==
  ASSUME NEW graph, GraphOk(graph), NEW s \in Searches(DOMAIN graph)
  PROVE  Comes(graph, s, Visit(graph)[s])
<1>0. PICK v : v = Visit(graph) /\ IsVisit(graph, v)
  BY VisitIs
<1> DEFINE E == {m \in Nat : \A x \in Smaller(graph, m) : Comes(graph, x, v[x])}
<1>1. 0 \in E
  <2>1. Smaller(graph, 0) = {}
    BY SizeType DEF Smaller
  <2>. QED
    BY <2>1
<1>2. \A m \in Nat : m \in E => m + 1 \in E
  BY <1>0, SearchStep
<1>. HIDE DEF E
<1>3. \A m \in Nat : m \in E
  BY <1>1, <1>2, NatSet
<1>4. Size(graph, s) + 1 \in Nat /\ s \in Smaller(graph, Size(graph, s) + 1)
  BY SizeType DEF Smaller
<1>5. Comes(graph, s, v[s])
  BY <1>3, <1>4 DEF E
<1>. QED
  BY <1>0, <1>5

LEMMA ExploreFindsKnots ==
  ASSUME NEW graph, GraphOk(graph)
  PROVE  Explore(graph, DOMAIN graph).cycle <=> Knotted(graph)
<1> DEFINE N == DOMAIN graph
<1>1. PICK s : s = [todo |-> N, path |-> {}, done |-> {}, cycle |-> FALSE]
  OBVIOUS
<1>2. s \in Searches(N) /\ s.todo = N /\ s.path = {} /\ s.done = {} /\ ~s.cycle
  BY <1>1 DEF Searches
<1>3. PICK r : r = Explore(graph, N) /\ r = Visit(graph)[s]
  BY <1>1, ExploreIs
<1>4. Comes(graph, s, r)
  BY <1>2, <1>3, SearchComes
<1>5. r.cycle => Knotted(graph)
  BY <1>2, <1>4 DEF Comes, Leads
<1>6. ASSUME ~r.cycle PROVE ~Knotted(graph)
  <2>1. Good(graph, {})
    BY DEF Good, Knot
  <2>2. N \subseteq r.done /\ Good(graph, r.done)
    BY <1>2, <1>4, <1>6, <2>1 DEF Comes
  <2>. QED
    BY <2>2 DEF Good, Knotted
<1>. QED
  BY <1>3, <1>5, <1>6

-----------------------------------------------------------------------------
(* The gate and the summary: no accepted plan is stuck *)

\* The graph of the tasks is finite, and its nodes wait for what a task of that id waits for.
LEMMA GraphIs ==
  ASSUME NEW tasks, NEW m \in Nat, tasks = [i \in 1..m |-> tasks[i]]
  PROVE  /\ DOMAIN Graph(tasks) = OpenIds(tasks) /\ GraphOk(Graph(tasks))
         /\ \A id \in OpenIds(tasks) : \E i \in DOMAIN tasks :
               Graph(tasks)[id] = OpenDependencies(tasks[i], tasks)
<1>1. DOMAIN tasks = 1..m /\ Len(tasks) = m
  <2>1. tasks \in Seq({tasks[i] : i \in 1..m}) /\ DOMAIN tasks = 1..m
    OBVIOUS
  <2>. QED
    BY <2>1
<1>2. IsFiniteSet(OpenIds(tasks))
  <2> DEFINE f == [i \in 1..m |-> tasks[i].id]
  <2>1. IsFiniteSet(1..m)
    BY FS_Interval
  <2>2. OpenIds(tasks) = {f[i] : i \in 1..m}
    BY <1>1 DEF OpenIds
  <2>3. f \in Surjection(1..m, OpenIds(tasks))
    BY <2>2 DEF Surjection
  <2>. QED
    BY <2>1, <2>3, FS_Surjection
<1>3. ASSUME NEW id \in OpenIds(tasks)
      PROVE  \E i \in DOMAIN tasks : tasks[i].id = id /\ \A j \in (i + 1)..Len(tasks) : tasks[j].id # id
  <2> DEFINE At == {i \in 1..m : tasks[i].id = id}
  <2>1. At # {} /\ At \subseteq Nat /\ \A i \in At : i <= m
    BY <1>1 DEF OpenIds
  <2>2. PICK i \in At : \A j \in At : j <= i
    BY <2>1, NatMax
  <2>3. \A j \in (i + 1)..m : tasks[j].id # id
    BY <2>2
  <2>. QED
    BY <1>1, <2>2, <2>3
<1>4. ASSUME NEW id \in OpenIds(tasks)
      PROVE  \E i \in DOMAIN tasks : Graph(tasks)[id] = OpenDependencies(tasks[i], tasks)
  <2>1. PICK i : i = CHOOSE h \in DOMAIN tasks : tasks[h].id = id /\ \A j \in (h + 1)..Len(tasks) : tasks[j].id # id
    OBVIOUS
  <2>2. i \in DOMAIN tasks
    BY <1>3, <2>1
  <2>3. Graph(tasks)[id] = OpenDependencies(tasks[i], tasks)
    BY <2>1 DEF Graph, OpenDependencies
  <2>. QED
    BY <2>2, <2>3
<1>5. Graph(tasks) \in [OpenIds(tasks) -> SUBSET OpenIds(tasks)]
  BY DEF Graph
<1>. QED
  BY <1>2, <1>4, <1>5 DEF GraphOk

\* The gate's cycle finding means what it says, and an accepted plan is never stuck.
LEMMA CycleStuck == PlanTyped => CycleMeansStuck
<1> SUFFICES ASSUME PlanTyped PROVE CycleMeansStuck
  OBVIOUS
<1>1. PICK m \in Nat : Tasks = [i \in 1..m |-> Tasks[i]]
  <2>1. TasksFrom(Tasks, lines, Len(lines))
    BY TasksRead DEF PlanTyped, Tasks
  <2>. QED
    BY <2>1 DEF TasksFrom
<1>2. PICK graph : graph = Graph(Tasks)
  OBVIOUS
<1>3. /\ DOMAIN graph = OpenIds(Tasks) /\ GraphOk(graph)
      /\ \A id \in OpenIds(Tasks) : \E i \in DOMAIN Tasks : graph[id] = OpenDependencies(Tasks[i], Tasks)
  BY <1>1, <1>2, GraphIs
<1>4. HasCycle(Tasks) <=> Knotted(graph)
  BY <1>2, <1>3, ExploreFindsKnots DEF HasCycle
<1>5. \A set \in SUBSET OpenIds(Tasks) : WaitsOnItself(Tasks, set) <=> Knot(graph, set)
  BY <1>2 DEF WaitsOnItself, Knot
<1>6. HasCycle(Tasks) <=> \E set \in SUBSET OpenIds(Tasks) : WaitsOnItself(Tasks, set)
  BY <1>3, <1>4, <1>5 DEF Knotted
<1>7. ASSUME Tasks # <<>>, \A s \in Sections : Eligible(Tasks, s) = {}, Accepted PROVE FALSE
  <2>1. ASSUME NEW i \in DOMAIN Tasks PROVE OpenDependencies(Tasks[i], Tasks) # {}
    BY <1>7, AcceptedGroups DEF Eligible, Lane
  <2>2. OpenIds(Tasks) # {}
    <3>1. 1 \in DOMAIN Tasks
      BY <1>1, <1>7
    <3>. QED
      BY <3>1 DEF OpenIds
  <2>3. \A id \in OpenIds(Tasks) : graph[id] # {} /\ graph[id] \subseteq OpenIds(Tasks)
    BY <1>3, <2>1 DEF OpenDependencies
  <2>4. Knotted(graph)
    BY <1>3, <2>2, <2>3 DEF Knotted, Knot
  <2>5. ~HasCycle(Tasks)
    BY <1>7 DEF Accepted, Findings, Tasks
  <2>. QED
    BY <1>4, <2>4, <2>5
<1>. QED
  BY <1>6, <1>7 DEF CycleMeansStuck

(* The gate reports a start-dependency cycle exactly when some set of open    *)
(* tasks waits on itself, and so no accepted plan with tasks leaves the       *)
(* summary without one to name, in whatever order the search meets the tasks  *)
(* (plan_integrity.py:142-170, plan_summary.py).                              *)
THEOREM CyclesAreKnots == PlanSpec => []CycleMeansStuck
<1>1. PlanInit => PlanTyped
  BY PlanAssumption DEF PlanInit, PlanTyped
<1>2. PlanTyped /\ [PlanNext]_planVars => PlanTyped'
  BY NextPlanTyped
<1>3. PlanTyped => CycleMeansStuck
  BY CycleStuck
<1>. QED
  BY <1>1, <1>2, <1>3, PTL DEF PlanSpec

-----------------------------------------------------------------------------
(* Finishing a task.  The reader of the plan without the lines of one task    *)
(* and the reader of the whole plan are compared line by line: they differ in *)
(* that task only.  Then every part of the gate that found nothing before     *)
(* finds nothing after.                                                       *)

\* The tasks without the k-th.
Skip(k, j) == IF j < k THEN j ELSE j + 1
Dropped(tasks, m, k) == [j \in 1..(m - 1) |-> tasks[Skip(k, j)]]

\* Tasks are a sequence of length m.
Listed(tasks, m) == tasks = [i \in 1..m |-> tasks[i]]

\* Its domain and its length.
LEMMA ListedIs ==
  ASSUME NEW tasks, NEW m \in Nat, Listed(tasks, m)
  PROVE  DOMAIN tasks = 1..m /\ Len(tasks) = m /\ \A S : (\A i \in 1..m : tasks[i] \in S) => tasks \in Seq(S)
<1>1. DOMAIN tasks = 1..m
  BY DEF Listed
<1>2. \A S : (\A i \in 1..m : tasks[i] \in S) => tasks \in Seq(S)
  BY DEF Listed
<1>3. tasks \in Seq({tasks[i] : i \in 1..m})
  BY <1>2
<1>4. Len(tasks) = m
  BY <1>1, <1>3
<1>. QED
  BY <1>1, <1>2, <1>4

\* What is left without the k-th is a sequence too.
LEMMA DroppedListed ==
  ASSUME NEW tasks, NEW m \in Nat, Listed(tasks, m), NEW k \in 1..m, NEW d, d = Dropped(tasks, m, k)
  PROVE  /\ m - 1 \in Nat /\ Listed(d, m - 1)
         /\ \A j \in 1..(m - 1) : d[j] = tasks[Skip(k, j)] /\ Skip(k, j) \in 1..m
<1>1. m - 1 \in Nat
  OBVIOUS
<1>2. \A j \in 1..(m - 1) : Skip(k, j) \in 1..m
  BY DEF Skip
<1>3. \A j \in 1..(m - 1) : d[j] = tasks[Skip(k, j)]
  BY DEF Dropped
<1>4. Listed(d, m - 1)
  BY DEF Listed, Dropped
<1>. QED
  BY <1>1, <1>2, <1>3, <1>4

Joined(tasks, t) == Append(tasks, t)

\* One task more.
LEMMA AppendListed ==
  ASSUME NEW tasks, NEW m \in Nat, Listed(tasks, m), NEW t, NEW more, more = Joined(tasks, t)
  PROVE  /\ Listed(more, m + 1) /\ more[m + 1] = t
         /\ \A i \in 1..m : more[i] = tasks[i]
<1> DEFINE S == {tasks[i] : i \in 1..m} \union {t}
<1>1. tasks \in Seq(S) /\ Len(tasks) = m /\ t \in S
  BY ListedIs
<1>. HIDE DEF S
<1>2. more \in Seq(S) /\ Len(more) = m + 1 /\ more[m + 1] = t /\ \A i \in 1..m : more[i] = tasks[i]
  BY <1>1 DEF Joined
<1>3. Listed(more, m + 1)
  BY <1>2 DEF Listed
<1>. QED
  BY <1>2, <1>3

\* A task that joins after the k-th joins what is left without it.
LEMMA DroppedAppend ==
  ASSUME NEW tasks, NEW m \in Nat, Listed(tasks, m), NEW k \in 1..m, NEW t
  PROVE  Dropped(Joined(tasks, t), m + 1, k) = Joined(Dropped(tasks, m, k), t)
<1>1. PICK a, d, b, e : /\ a = Joined(tasks, t) /\ d = Dropped(tasks, m, k)
                        /\ b = Joined(d, t) /\ e = Dropped(a, m + 1, k)
  OBVIOUS
<1>2. Listed(a, m + 1) /\ a[m + 1] = t /\ \A i \in 1..m : a[i] = tasks[i]
  BY <1>1, AppendListed
<1>3. m - 1 \in Nat /\ Listed(d, m - 1) /\ \A j \in 1..(m - 1) : d[j] = tasks[Skip(k, j)] /\ Skip(k, j) \in 1..m
  BY <1>1, DroppedListed
<1>4. Listed(b, (m - 1) + 1) /\ b[(m - 1) + 1] = t /\ \A j \in 1..(m - 1) : b[j] = d[j]
  BY <1>1, <1>3, AppendListed
<1>5. e = [j \in 1..((m + 1) - 1) |-> a[Skip(k, j)]]
  BY <1>1 DEF Dropped
<1>6. (m - 1) + 1 = m /\ (m + 1) - 1 = m /\ Skip(k, m) = m + 1
  BY DEF Skip
<1>7. \A j \in 1..m : e[j] = b[j]
  <2>1. ASSUME NEW j \in 1..(m - 1) PROVE e[j] = b[j]
    BY <1>2, <1>3, <1>4, <1>5, <1>6
  <2>2. e[m] = b[m]
    BY <1>2, <1>4, <1>5, <1>6
  <2>3. \A j \in 1..m : j \in 1..(m - 1) \/ j = m
    OBVIOUS
  <2>. QED
    BY <2>1, <2>2, <2>3
<1>8. e = [j \in 1..m |-> e[j]] /\ b = [j \in 1..m |-> b[j]]
  BY <1>4, <1>5, <1>6 DEF Listed
<1>9. e = b
  BY <1>7, <1>8
<1>. QED
  BY <1>1, <1>9

\* A field of one task changes no other task.
LEMMA FieldListed ==
  ASSUME NEW tasks, NEW m \in Nat, Listed(tasks, m), NEW q, NEW w, NEW f, f = WithField(tasks, q, w)
  PROVE  Listed(f, m) /\ \A i \in 1..m : i # q => f[i] = tasks[i]
<1>1. DOMAIN tasks = 1..m
  BY ListedIs
<1>2. f = [i \in 1..m |-> IF i = q THEN [tasks[i] EXCEPT !.fields = w] ELSE tasks[i]]
  BY <1>1 DEF WithField, Listed
<1>3. Listed(f, m)
  BY <1>2 DEF Listed
<1>. QED
  BY <1>2, <1>3

\* And of that one its fields only.
LEMMA FieldChanged ==
  ASSUME NEW tasks, NEW m \in Nat, Listed(tasks, m), NEW q \in 1..m, NEW w, NEW f, f = WithField(tasks, q, w)
  PROVE  f[q] = [tasks[q] EXCEPT !.fields = w]
<1>1. DOMAIN tasks = 1..m
  BY ListedIs
<1>. QED
  BY <1>1 DEF WithField, Listed

\* A field of the last task, when another one is left out.
LEMMA DroppedField ==
  ASSUME NEW tasks, NEW m \in Nat, Listed(tasks, m), NEW k \in 1..(m - 1), NEW w
  PROVE  Dropped(WithField(tasks, m, w), m, k) = WithField(Dropped(tasks, m, k), m - 1, w)
<1>1. PICK a, d, b, e : /\ a = WithField(tasks, m, w) /\ d = Dropped(tasks, m, k)
                        /\ b = WithField(d, m - 1, w) /\ e = Dropped(a, m, k)
  OBVIOUS
<1>0. m \in 1..m /\ k \in 1..m /\ m - 1 \in 1..(m - 1) /\ Skip(k, m - 1) = m
      /\ \A j \in 1..(m - 1) : j # m - 1 => Skip(k, j) # m /\ Skip(k, j) \in 1..m
  BY DEF Skip
<1>2. Listed(a, m) /\ a[m] = [tasks[m] EXCEPT !.fields = w] /\ \A i \in 1..m : i # m => a[i] = tasks[i]
  <2>1. a[m] = [tasks[m] EXCEPT !.fields = w]
    BY <1>0, <1>1, FieldChanged
  <2>2. Listed(a, m) /\ \A i \in 1..m : i # m => a[i] = tasks[i]
    BY <1>1, FieldListed
  <2>. QED
    BY <2>1, <2>2
<1>3. m - 1 \in Nat /\ Listed(d, m - 1) /\ \A j \in 1..(m - 1) : d[j] = tasks[Skip(k, j)]
  BY <1>0, <1>1, DroppedListed
<1>4. Listed(b, m - 1) /\ b[m - 1] = [d[m - 1] EXCEPT !.fields = w] /\ \A i \in 1..(m - 1) : i # m - 1 => b[i] = d[i]
  <2>1. b[m - 1] = [d[m - 1] EXCEPT !.fields = w]
    BY <1>0, <1>1, <1>3, FieldChanged
  <2>2. Listed(b, m - 1) /\ \A i \in 1..(m - 1) : i # m - 1 => b[i] = d[i]
    BY <1>1, <1>3, FieldListed
  <2>. QED
    BY <2>1, <2>2
<1>5. Listed(e, m - 1) /\ \A j \in 1..(m - 1) : e[j] = a[Skip(k, j)]
  <2>1. m \in Nat /\ k \in 1..m /\ Listed(a, m) /\ e = Dropped(a, m, k)
    BY <1>0, <1>1, <1>2
  <2>. QED
    BY ONLY <2>1, DroppedListed
<1>6. \A j \in 1..(m - 1) : e[j] = b[j]
  <2>1. d[m - 1] = tasks[m] /\ e[m - 1] = a[m]
    BY <1>0, <1>3, <1>5
  <2>2. e[m - 1] = b[m - 1]
    BY <1>2, <1>4, <2>1
  <2>3. ASSUME NEW j \in 1..(m - 1), j # m - 1 PROVE e[j] = b[j]
    BY <1>0, <1>2, <1>3, <1>4, <1>5, <2>3
  <2>. QED
    BY <2>2, <2>3
<1>7. e = b
  BY <1>4, <1>5, <1>6 DEF Listed
<1>. QED
  BY <1>1, <1>7

\* Two readers that have met the same tasks but one, the task id, which one of them has as its k-th.
Alike(r, s) ==
    /\ IsReader(r) /\ IsReader(s)
    /\ s.section = r.section /\ s.group = r.group /\ s.current = r.current
    /\ s.open = r.open /\ s.fenced = r.fenced
Without(tasks, others, m, k, id) ==
    /\ Listed(tasks, m) /\ k \in 1..m /\ others = Dropped(tasks, m, k)
    /\ tasks[k].id = id
Sim(r, s, m, k, id) ==
    /\ Alike(r, s) /\ Without(r.tasks, s.tasks, m, k, id)
    /\ r.current => k \in 1..(m - 1)

\* They stay so when they do the same.
LEMMA SimSame ==
  ASSUME NEW r, NEW s, NEW m \in Nat, NEW k, NEW id, Sim(r, s, m, k, id), NEW h, NEW g,
         Alike(h, g), h.tasks = r.tasks, g.tasks = s.tasks, h.current = r.current \/ h.current = FALSE
  PROVE  \E n \in Nat : Sim(h, g, n, k, id)
<1>1. Sim(h, g, m, k, id)
  BY DEF Sim
<1>. QED
  BY <1>1

\* They stay so when both give the last task a field.
LEMMA SimField ==
  ASSUME NEW r, NEW s, NEW m \in Nat, NEW k, NEW id, Sim(r, s, m, k, id), NEW h, NEW g, r.current,
         Alike(h, g), NEW w, h.tasks = WithField(r.tasks, m, w), g.tasks = WithField(s.tasks, m - 1, w)
  PROVE  \E n \in Nat : Sim(h, g, n, k, id)
<1>1. PICK tasks, others, new : tasks = r.tasks /\ others = s.tasks /\ new = h.tasks
  OBVIOUS
<1>2. Listed(tasks, m) /\ k \in 1..m /\ others = Dropped(tasks, m, k) /\ tasks[k].id = id /\ k \in 1..(m - 1)
  BY <1>1 DEF Sim, Without
<1>3. g.tasks = Dropped(new, m, k)
  <2>1. Dropped(WithField(tasks, m, w), m, k) = WithField(Dropped(tasks, m, k), m - 1, w)
    BY <1>2, DroppedField
  <2>. QED
    BY <1>1, <1>2, <2>1
<1>4. Listed(new, m) /\ new[k] = tasks[k]
  <2>1. m \in Nat /\ Listed(tasks, m) /\ k \in 1..m /\ k # m /\ new = WithField(tasks, m, w)
    BY <1>1, <1>2
  <2>2. Listed(new, m) /\ \A i \in 1..m : i # m => new[i] = tasks[i]
    BY ONLY <2>1, FieldListed
  <2>. QED
    BY <2>1, <2>2
<1>5. Sim(h, g, m, k, id)
  BY <1>1, <1>2, <1>3, <1>4 DEF Sim, Without
<1>. QED
  BY <1>5

\* They stay so when both read one task more.
LEMMA SimJoined ==
  ASSUME NEW r, NEW s, NEW m \in Nat, NEW k, NEW id, Without(r.tasks, s.tasks, m, k, id), NEW h, NEW g,
         Alike(h, g), NEW t, h.tasks = Joined(r.tasks, t), g.tasks = Joined(s.tasks, t)
  PROVE  \E n \in Nat : Sim(h, g, n, k, id)
<1>1. PICK tasks, others, new : tasks = r.tasks /\ others = s.tasks /\ new = h.tasks
  OBVIOUS
<1>2. Listed(tasks, m) /\ k \in 1..m /\ others = Dropped(tasks, m, k) /\ tasks[k].id = id
  BY <1>1 DEF Without
<1>3. g.tasks = Dropped(new, m + 1, k)
  <2>1. Dropped(Joined(tasks, t), m + 1, k) = Joined(Dropped(tasks, m, k), t)
    BY <1>2, DroppedAppend
  <2>. QED
    BY <1>1, <1>2, <2>1
<1>4. Listed(new, m + 1) /\ new[k] = tasks[k]
  <2>1. new = Joined(tasks, t)
    BY <1>1
  <2>. QED
    BY <1>2, <2>1, AppendListed
<1>5. m + 1 \in Nat /\ k \in 1..(m + 1) /\ k \in 1..((m + 1) - 1)
  BY <1>2
<1>6. Sim(h, g, m + 1, k, id)
  BY <1>1, <1>2, <1>3, <1>4, <1>5 DEF Sim, Without
<1>. QED
  BY <1>5, <1>6

\* They stay so over a heading, which ends the task being read.
LEMMA SimHeading ==
  ASSUME NEW r, NEW s, NEW m \in Nat, NEW k, NEW id, Without(r.tasks, s.tasks, m, k, id),
         IsReader(r), IsReader(s), s.section = r.section, s.group = r.group, s.fenced = r.fenced,
         NEW l, l.k \in HeadingKinds
  PROVE  \E n \in Nat : Sim(Heading(r, l), Heading(s, l), n, k, id)
<1>1. PICK h, g : h = Heading(r, l) /\ g = Heading(s, l)
  OBVIOUS
<1>2. IsReader(r) /\ IsReader(s) /\ s.section = r.section /\ s.group = r.group /\ s.fenced = r.fenced
  OBVIOUS
<1>3. CASE l.k = "section"
  <2>1. h = [r EXCEPT !.section = l.v, !.group = <<>>, !.current = FALSE, !.open = ""]
    BY <1>1, <1>3 DEF Heading
  <2>2. g = [s EXCEPT !.section = l.v, !.group = <<>>, !.current = FALSE, !.open = ""]
    BY <1>1, <1>3 DEF Heading
  <2>3. IsReader(h) /\ h.section = l.v /\ h.group = <<>> /\ h.current = FALSE /\ h.open = "" /\ h.fenced = r.fenced /\ h.tasks = r.tasks
    BY <1>2, <2>1 DEF IsReader
  <2>4. IsReader(g) /\ g.section = l.v /\ g.group = <<>> /\ g.current = FALSE /\ g.open = "" /\ g.fenced = s.fenced /\ g.tasks = s.tasks
    BY <1>2, <2>2 DEF IsReader
  <2>5. Alike(h, g)
    BY <1>2, <2>3, <2>4 DEF Alike
  <2>6. \E n \in Nat : Sim(h, g, n, k, id)
    BY <2>3, <2>4, <2>5 DEF Sim
  <2>. QED
    BY <1>1, <2>6
<1>4. CASE l.k = "group"
  <2>1. h = [r EXCEPT !.group = l.v, !.current = FALSE, !.open = ""]
    BY <1>1, <1>4 DEF Heading
  <2>2. g = [s EXCEPT !.group = l.v, !.current = FALSE, !.open = ""]
    BY <1>1, <1>4 DEF Heading
  <2>3. IsReader(h) /\ h.section = r.section /\ h.group = l.v /\ h.current = FALSE /\ h.open = "" /\ h.fenced = r.fenced /\ h.tasks = r.tasks
    BY <1>2, <2>1 DEF IsReader
  <2>4. IsReader(g) /\ g.section = s.section /\ g.group = l.v /\ g.current = FALSE /\ g.open = "" /\ g.fenced = s.fenced /\ g.tasks = s.tasks
    BY <1>2, <2>2 DEF IsReader
  <2>5. Alike(h, g)
    BY <1>2, <2>3, <2>4 DEF Alike
  <2>6. \E n \in Nat : Sim(h, g, n, k, id)
    BY <2>3, <2>4, <2>5 DEF Sim
  <2>. QED
    BY <1>1, <2>6
<1>5. CASE l.k = "task"
  <2>0. PICK t : t = [id |-> l.v, section |-> r.section, group |-> r.group, optional |-> l.optional, fields |-> <<>>]
    OBVIOUS
  <2>1. h = [r EXCEPT !.tasks = Joined(r.tasks, t), !.current = TRUE, !.open = ""]
    BY <1>1, <1>5, <2>0 DEF Heading, Joined
  <2>2. g = [s EXCEPT !.tasks = Joined(s.tasks, t), !.current = TRUE, !.open = ""]
    BY <1>1, <1>2, <1>5, <2>0 DEF Heading, Joined
  <2>3. IsReader(h) /\ h.section = r.section /\ h.group = r.group /\ h.current = TRUE /\ h.open = "" /\ h.fenced = r.fenced /\ h.tasks = Joined(r.tasks, t)
    BY <1>2, <2>1 DEF IsReader
  <2>4. IsReader(g) /\ g.section = s.section /\ g.group = s.group /\ g.current = TRUE /\ g.open = "" /\ g.fenced = s.fenced /\ g.tasks = Joined(s.tasks, t)
    BY <1>2, <2>2 DEF IsReader
  <2>5. Alike(h, g)
    BY <1>2, <2>3, <2>4 DEF Alike
  <2>6. \E n \in Nat : Sim(h, g, n, k, id)
    BY <2>3, <2>4, <2>5, SimJoined
  <2>. QED
    BY <1>1, <2>6
<1>. QED
  BY <1>3, <1>4, <1>5 DEF HeadingKinds

\* They stay so over every line outside a fence.
LEMMA SimFeed ==
  ASSUME NEW r, NEW s, NEW m \in Nat, NEW k, NEW id, Sim(r, s, m, k, id), NEW l
  PROVE  \E n \in Nat : Sim(Feed(r, l), Feed(s, l), n, k, id)
<1>1. PICK h, g : h = Feed(r, l) /\ g = Feed(s, l)
  OBVIOUS
<1>2. /\ IsReader(r) /\ IsReader(s)
      /\ s.section = r.section /\ s.group = r.group /\ s.current = r.current
      /\ s.open = r.open /\ s.fenced = r.fenced
  BY DEF Sim, Alike
<1>3. CASE l.k \in HeadingKinds
  BY <1>2, <1>3, SimHeading DEF Feed, Sim
<1>4. CASE l.k \notin HeadingKinds /\ ~r.current
  BY <1>2, <1>4 DEF Feed
<1>5. CASE l.k \notin HeadingKinds /\ r.current
  <2>1. r.current /\ s.current
    BY <1>2, <1>5
  <2>2. Len(r.tasks) = m /\ Len(s.tasks) = m - 1 /\ Last(r.tasks) = r.tasks[m] /\ Last(s.tasks) = r.tasks[m]
        /\ s.tasks[m - 1] = r.tasks[m]
    <3>1. Listed(r.tasks, m) /\ k \in 1..m /\ s.tasks = Dropped(r.tasks, m, k) /\ k \in 1..(m - 1)
      BY <2>1 DEF Sim, Without
    <3>2. Listed(s.tasks, m - 1) /\ m - 1 \in Nat /\ \A j \in 1..(m - 1) : s.tasks[j] = r.tasks[Skip(k, j)]
      BY <3>1, DroppedListed
    <3>3. Len(r.tasks) = m /\ Len(s.tasks) = m - 1
      BY <3>1, <3>2, ListedIs
    <3>4. m - 1 \in 1..(m - 1) /\ Skip(k, m - 1) = m
      BY <3>1 DEF Skip
    <3>. QED
      BY <3>2, <3>3, <3>4 DEF Last
  <2>3. \/ h = [r EXCEPT !.open = ""] /\ g = [s EXCEPT !.open = ""]
        \/ \E w, o : /\ h = [r EXCEPT !.tasks = WithField(r.tasks, m, w), !.open = o]
                     /\ g = [s EXCEPT !.tasks = WithField(s.tasks, m - 1, w), !.open = o]
        \/ \E w : /\ h = [r EXCEPT !.tasks = WithField(r.tasks, m, w)]
                  /\ g = [s EXCEPT !.tasks = WithField(s.tasks, m - 1, w)]
    <3>1. CASE l.k = "field" /\ l.key \in DOMAIN Last(r.tasks).fields
      <4>1. h = FieldLine(r, l) /\ g = FieldLine(s, l)
        BY <1>1, <1>5, <2>1, <3>1 DEF Feed
      <4>. QED
        BY <2>2, <3>1, <4>1 DEF FieldLine
    <3>2. CASE l.k = "field" /\ l.key \notin DOMAIN Last(r.tasks).fields
      <4>1. h = FieldLine(r, l) /\ g = FieldLine(s, l)
        BY <1>1, <1>5, <2>1, <3>2 DEF Feed
      <4>2. PICK w : w = (l.key :> l.v) @@ r.tasks[m].fields
        OBVIOUS
      <4>3. h = [r EXCEPT !.tasks = WithField(r.tasks, m, w), !.open = l.key]
        BY <2>2, <3>2, <4>1, <4>2 DEF FieldLine, WithField
      <4>4. g = [s EXCEPT !.tasks = WithField(s.tasks, m - 1, w), !.open = l.key]
        BY <2>2, <3>2, <4>1, <4>2 DEF FieldLine, WithField
      <4>. QED
        BY <4>3, <4>4
    <3>3. CASE l.k # "field" /\ l.k = "more" /\ r.open # ""
      <4>1. PICK w : w = [r.tasks[m].fields EXCEPT ![r.open] = @ \o l.v]
        OBVIOUS
      <4>2. h = [r EXCEPT !.tasks[Len(r.tasks)].fields[r.open] = @ \o l.v]
        BY <1>1, <1>5, <2>1, <3>3 DEF Feed
      <4>3. g = [s EXCEPT !.tasks[Len(s.tasks)].fields[s.open] = @ \o l.v]
        BY <1>1, <1>2, <1>5, <2>1, <3>3 DEF Feed
      <4>4. h = [r EXCEPT !.tasks = WithField(r.tasks, m, w)]
        BY <2>2, <4>1, <4>2 DEF WithField
      <4>5. g = [s EXCEPT !.tasks = WithField(s.tasks, m - 1, w)]
        BY <1>2, <2>2, <4>1, <4>3 DEF WithField
      <4>. QED
        BY <4>4, <4>5
    <3>4. CASE l.k # "field" /\ ~(l.k = "more" /\ r.open # "")
      BY <1>1, <1>2, <1>5, <2>1, <3>4 DEF Feed
    <3>. QED
      BY <3>1, <3>2, <3>3, <3>4
  <2>4. CASE h = [r EXCEPT !.open = ""] /\ g = [s EXCEPT !.open = ""]
    <3>1. IsReader(h) /\ h.section = r.section /\ h.group = r.group /\ h.current = r.current /\ h.open = "" /\ h.fenced = r.fenced /\ h.tasks = r.tasks
      BY <1>2, <2>4 DEF IsReader
    <3>2. IsReader(g) /\ g.section = s.section /\ g.group = s.group /\ g.current = s.current /\ g.open = "" /\ g.fenced = s.fenced /\ g.tasks = s.tasks
      BY <1>2, <2>4 DEF IsReader
    <3>3. Alike(h, g)
      BY <1>2, <3>1, <3>2 DEF Alike
    <3>4. \E n \in Nat : Sim(h, g, n, k, id)
      BY <3>1, <3>2, <3>3, SimSame
    <3>. QED
      BY <1>1, <3>4
  <2>5. ASSUME NEW w, NEW o, h = [r EXCEPT !.tasks = WithField(r.tasks, m, w), !.open = o],
               g = [s EXCEPT !.tasks = WithField(s.tasks, m - 1, w), !.open = o]
        PROVE  \E n \in Nat : Sim(h, g, n, k, id)
    <3>1. IsReader(h) /\ h.section = r.section /\ h.group = r.group /\ h.current = r.current /\ h.open = o /\ h.fenced = r.fenced
          /\ h.tasks = WithField(r.tasks, m, w)
      BY <1>2, <2>5 DEF IsReader
    <3>2. IsReader(g) /\ g.section = s.section /\ g.group = s.group /\ g.current = s.current /\ g.open = o /\ g.fenced = s.fenced
          /\ g.tasks = WithField(s.tasks, m - 1, w)
      BY <1>2, <2>5 DEF IsReader
    <3>3. Alike(h, g)
      BY <1>2, <3>1, <3>2 DEF Alike
    <3>. QED
      BY <2>1, <3>1, <3>2, <3>3, SimField
  <2>6. ASSUME NEW w, h = [r EXCEPT !.tasks = WithField(r.tasks, m, w)],
               g = [s EXCEPT !.tasks = WithField(s.tasks, m - 1, w)]
        PROVE  \E n \in Nat : Sim(h, g, n, k, id)
    <3>1. IsReader(h) /\ h.section = r.section /\ h.group = r.group /\ h.current = r.current /\ h.open = r.open /\ h.fenced = r.fenced
          /\ h.tasks = WithField(r.tasks, m, w)
      BY <1>2, <2>6 DEF IsReader
    <3>2. IsReader(g) /\ g.section = s.section /\ g.group = s.group /\ g.current = s.current /\ g.open = s.open /\ g.fenced = s.fenced
          /\ g.tasks = WithField(s.tasks, m - 1, w)
      BY <1>2, <2>6 DEF IsReader
    <3>3. Alike(h, g)
      BY <1>2, <3>1, <3>2 DEF Alike
    <3>. QED
      BY <2>1, <3>1, <3>2, <3>3, SimField
  <2>. QED
    BY <1>1, <2>3, <2>4, <2>5, <2>6
<1>. QED
  BY <1>3, <1>4, <1>5

\* They stay so over every line.
LEMMA SimLine ==
  ASSUME NEW r, NEW s, NEW m \in Nat, NEW k, NEW id, Sim(r, s, m, k, id), NEW l
  PROVE  \E n \in Nat : Sim(ReadLine(r, l), ReadLine(s, l), n, k, id)
<1>2. /\ IsReader(r) /\ IsReader(s)
      /\ s.section = r.section /\ s.group = r.group /\ s.current = r.current
      /\ s.open = r.open /\ s.fenced = r.fenced
  BY DEF Sim, Alike
<1>3. CASE l.k = "fence"
  <2>1. PICK h, g : h = ReadLine(r, l) /\ g = ReadLine(s, l)
    OBVIOUS
  <2>2. h = [r EXCEPT !.fenced = ~r.fenced, !.open = ""] /\ g = [s EXCEPT !.fenced = ~s.fenced, !.open = ""]
    BY <1>3, <2>1 DEF ReadLine
  <2>3. IsReader(h) /\ h.section = r.section /\ h.group = r.group /\ h.current = r.current /\ h.open = "" /\ h.tasks = r.tasks
        /\ h.fenced = ~r.fenced
    BY <1>2, <2>2 DEF IsReader
  <2>4. IsReader(g) /\ g.section = s.section /\ g.group = s.group /\ g.current = s.current /\ g.open = "" /\ g.tasks = s.tasks
        /\ g.fenced = ~s.fenced
    BY <1>2, <2>2 DEF IsReader
  <2>5. Alike(h, g)
    BY <1>2, <2>3, <2>4 DEF Alike
  <2>6. \E n \in Nat : Sim(h, g, n, k, id)
    BY <2>3, <2>4, <2>5, SimSame
  <2>. QED
    BY <2>1, <2>6
<1>4. CASE l.k # "fence" /\ r.fenced
  BY <1>2, <1>4 DEF ReadLine
<1>5. CASE l.k # "fence" /\ ~r.fenced
  BY <1>2, <1>5, SimFeed DEF ReadLine
<1>. QED
  BY <1>3, <1>4, <1>5

\* A reader between the heading of the task id and the next heading, r0 before it.
Shape(t) ==
    t = [id |-> t.id, section |-> t.section, group |-> t.group, optional |-> t.optional, fields |-> t.fields]
Within(r, r0, m, id) ==
    /\ IsReader(r) /\ r.section = r0.section /\ r.group = r0.group
    /\ Without(r.tasks, r0.tasks, m, m, id) /\ Shape(r.tasks[m])

\* The heading of a task begins its lines.
LEMMA WithinStarts ==
  ASSUME NEW r, IsReader(r), NEW m \in Nat, Listed(r.tasks, m), NEW l, l.k = "task"
  PROVE  Within(Heading(r, l), r, m + 1, l.v)
<1>1. PICK h, t, tasks : /\ h = Heading(r, l) /\ tasks = r.tasks
                         /\ t = [id |-> l.v, section |-> r.section, group |-> r.group, optional |-> l.optional, fields |-> <<>>]
  OBVIOUS
<1>2. h = [r EXCEPT !.tasks = Joined(tasks, t), !.current = TRUE, !.open = ""]
  BY <1>1 DEF Heading, Joined
<1>3. IsReader(h) /\ h.section = r.section /\ h.group = r.group /\ h.tasks = Joined(tasks, t)
  BY <1>2 DEF IsReader
<1>4. PICK new : new = Joined(tasks, t) /\ new = h.tasks
  BY <1>3
<1>5. Listed(new, m + 1) /\ new[m + 1] = t /\ \A i \in 1..m : new[i] = tasks[i]
  <2>1. m \in Nat /\ Listed(tasks, m) /\ new = Joined(tasks, t)
    BY <1>1, <1>4
  <2>. QED
    BY ONLY <2>1, AppendListed
<1>6. m + 1 \in Nat /\ m + 1 \in 1..(m + 1) /\ (m + 1) - 1 = m /\ \A j \in 1..m : Skip(m + 1, j) = j
  BY DEF Skip
<1>7. tasks = Dropped(new, m + 1, m + 1)
  <2>1. Dropped(new, m + 1, m + 1) = [j \in 1..m |-> new[Skip(m + 1, j)]]
    BY <1>6 DEF Dropped
  <2>2. [j \in 1..m |-> new[Skip(m + 1, j)]] = [j \in 1..m |-> tasks[j]]
    BY <1>5, <1>6
  <2>3. tasks = [j \in 1..m |-> tasks[j]]
    BY <1>1 DEF Listed
  <2>. QED
    BY <2>1, <2>2, <2>3
<1>8. Shape(t) /\ t.id = l.v
  BY <1>1 DEF Shape
<1>9. Within(h, r, m + 1, l.v)
  BY <1>1, <1>3, <1>4, <1>5, <1>6, <1>7, <1>8 DEF Within, Without
<1>. QED
  BY <1>1, <1>9

\* A field of the task itself: the others stay what they were.
LEMMA WithinField ==
  ASSUME NEW tasks, NEW others, NEW m \in Nat, NEW id, Without(tasks, others, m, m, id), Shape(tasks[m]), NEW w,
         NEW new, new = WithField(tasks, m, w)
  PROVE  Without(new, others, m, m, id) /\ Shape(new[m])
<1>1. Listed(tasks, m) /\ m \in 1..m /\ others = Dropped(tasks, m, m) /\ tasks[m].id = id
  BY DEF Without
<1>2. Listed(new, m) /\ \A i \in 1..m : i # m => new[i] = tasks[i]
  BY <1>1, FieldListed
<1>3. new[m] = [tasks[m] EXCEPT !.fields = w]
  BY <1>1, FieldChanged
<1>4. Shape(new[m]) /\ new[m].id = id
  <2>1. PICK t : t = tasks[m]
    OBVIOUS
  <2>2. Shape(t) /\ t.id = id
    BY <1>1, <2>1
  <2>3. PICK u : u = [t EXCEPT !.fields = w]
    OBVIOUS
  <2>4. Shape(u) /\ u.id = id
    BY <2>2, <2>3 DEF Shape
  <2>5. new[m] = u
    BY <1>3, <2>1, <2>3
  <2>. QED
    BY <2>4, <2>5
<1>5. others = Dropped(new, m, m)
  <2>1. \A j \in 1..(m - 1) : Skip(m, j) = j /\ j \in 1..m /\ j # m
    BY DEF Skip
  <2>2. \A j \in 1..(m - 1) : new[Skip(m, j)] = tasks[Skip(m, j)]
    BY <1>2, <2>1
  <2>3. Dropped(new, m, m) = Dropped(tasks, m, m)
    BY <2>2 DEF Dropped
  <2>. QED
    BY <1>1, <2>3
<1>. QED
  BY <1>1, <1>2, <1>4, <1>5 DEF Without

\* The lines of the task change that task only.
LEMMA WithinLine ==
  ASSUME NEW r, NEW r0, NEW m \in Nat, NEW id, Within(r, r0, m, id), NEW l, l.k \notin HeadingKinds
  PROVE  Within(ReadLine(r, l), r0, m, id)
<1>1. PICK h : h = ReadLine(r, l)
  OBVIOUS
<1>2. IsReader(r) /\ Len(r.tasks) = m
  <2>1. Listed(r.tasks, m)
    BY DEF Within, Without
  <2>. QED
    BY <2>1, ListedIs DEF Within
<1>3. \/ h = r
      \/ h = [r EXCEPT !.fenced = ~r.fenced, !.open = ""]
      \/ h = [r EXCEPT !.open = ""]
      \/ \E w, o : h = [r EXCEPT !.tasks = WithField(r.tasks, m, w), !.open = o]
      \/ \E w : h = [r EXCEPT !.tasks = WithField(r.tasks, m, w)]
  <2>1. CASE l.k = "fence"
    BY <1>1, <2>1 DEF ReadLine
  <2>2. CASE l.k # "fence" /\ (r.fenced \/ ~r.current)
    BY <1>1, <2>2 DEF ReadLine, Feed
  <2>3. CASE l.k # "fence" /\ ~r.fenced /\ r.current
    <3>1. CASE l.k = "field"
      <4>1. h = FieldLine(r, l)
        BY <1>1, <2>3, <3>1 DEF ReadLine, Feed
      <4>. QED
        BY <1>2, <4>1 DEF FieldLine, WithField
    <3>2. CASE l.k # "field" /\ l.k = "more" /\ r.open # ""
      <4>1. h = [r EXCEPT !.tasks[Len(r.tasks)].fields[r.open] = @ \o l.v]
        BY <1>1, <2>3, <3>2 DEF ReadLine, Feed
      <4>. QED
        BY <1>2, <4>1 DEF WithField
    <3>3. CASE l.k # "field" /\ ~(l.k = "more" /\ r.open # "")
      BY <1>1, <2>3, <3>3 DEF ReadLine, Feed
    <3>. QED
      BY <3>1, <3>2, <3>3
  <2>. QED
    BY <2>1, <2>2, <2>3
<1>4. CASE h = r
  BY <1>1, <1>4
<1>5. CASE h = [r EXCEPT !.fenced = ~r.fenced, !.open = ""]
  <2>1. IsReader(h) /\ h.section = r.section /\ h.group = r.group /\ h.tasks = r.tasks
    BY <1>2, <1>5 DEF IsReader
  <2>. QED
    BY <1>1, <2>1 DEF Within
<1>6. CASE h = [r EXCEPT !.open = ""]
  <2>1. IsReader(h) /\ h.section = r.section /\ h.group = r.group /\ h.tasks = r.tasks
    BY <1>2, <1>6 DEF IsReader
  <2>. QED
    BY <1>1, <2>1 DEF Within
<1>7. ASSUME NEW w, IsReader(h) /\ h.section = r.section /\ h.group = r.group /\ h.tasks = WithField(r.tasks, m, w)
      PROVE  Within(h, r0, m, id)
  <2>1. Without(h.tasks, r0.tasks, m, m, id) /\ Shape(h.tasks[m])
    <3>1. PICK tasks, others, new : tasks = r.tasks /\ others = r0.tasks /\ new = h.tasks
      OBVIOUS
    <3>2. m \in Nat /\ Without(tasks, others, m, m, id) /\ Shape(tasks[m]) /\ new = WithField(tasks, m, w)
      BY <1>7, <3>1 DEF Within
    <3>3. Without(new, others, m, m, id) /\ Shape(new[m])
      BY ONLY <3>2, WithinField
    <3>. QED
      BY <3>1, <3>3
  <2>. QED
    BY <1>7, <2>1 DEF Within
<1>8. ASSUME NEW w, NEW o, h = [r EXCEPT !.tasks = WithField(r.tasks, m, w), !.open = o]
      PROVE  Within(h, r0, m, id)
  <2>1. IsReader(h) /\ h.section = r.section /\ h.group = r.group /\ h.tasks = WithField(r.tasks, m, w)
    BY <1>2, <1>8 DEF IsReader
  <2>. QED
    BY <1>7, <2>1
<1>9. ASSUME NEW w, h = [r EXCEPT !.tasks = WithField(r.tasks, m, w)]
      PROVE  Within(h, r0, m, id)
  <2>1. IsReader(h) /\ h.section = r.section /\ h.group = r.group /\ h.tasks = WithField(r.tasks, m, w)
    BY <1>2, <1>9 DEF IsReader
  <2>. QED
    BY <1>7, <2>1
<1>. QED
  BY <1>1, <1>3, <1>4, <1>5, <1>6, <1>8, <1>9

\* Cutting the section of a task out of a document: what is left, and where it comes from.
Cut(doc, from, to) == SubSeq(doc, 1, from - 1) \o SubSeq(doc, to, Len(doc))
CutAt(doc, id, from, to) ==
    /\ from \in 1..Len(doc) /\ doc[from].k = "task" /\ doc[from].v = id /\ ~Fenced(doc, from)
    /\ to \in (from + 1)..(Len(doc) + 1)
    /\ \A q \in (from + 1)..(to - 1) : doc[q].k \notin HeadingKinds
    /\ to <= Len(doc) => doc[to].k \in HeadingKinds /\ ~Fenced(doc, to)

\* What WithoutTask leaves out: the lines of the task up to the heading that follows.
LEMMA CutIs ==
  ASSUME NEW doc \in Seq(PlanLines), NothingHidden(doc), NEW id,
         \E p \in 1..Len(doc) : doc[p].k = "task" /\ doc[p].v = id
  PROVE  \E from, to : /\ CutAt(doc, id, from, to)
                       /\ WithoutTask(doc, id) = Cut(doc, from, to)
<1>1. PICK n : n = Len(doc)
  OBVIOUS
<1>2. n \in Nat /\ DOMAIN doc = 1..n
  BY <1>1
<1>3. \A q \in 1..n : doc[q].k \in HeadingKinds => q \in Headings(doc) /\ ~Fenced(doc, q)
  BY <1>2 DEF NothingHidden, Headings
<1>4. Headings(doc) \subseteq 1..n /\ \A q \in Headings(doc) : doc[q].k \in HeadingKinds /\ ~Fenced(doc, q)
  BY <1>2 DEF Headings
<1>5. PICK from : from = CHOOSE q \in Headings(doc) : doc[q].k = "task" /\ doc[q].v = id
  OBVIOUS
<1>6. from \in 1..n /\ doc[from].k = "task" /\ doc[from].v = id /\ ~Fenced(doc, from)
  <2>1. PICK p \in Headings(doc) : doc[p].k = "task" /\ doc[p].v = id
    BY <1>1, <1>3 DEF HeadingKinds
  <2>2. from \in Headings(doc) /\ doc[from].k = "task" /\ doc[from].v = id
    BY <1>5, <2>1
  <2>. QED
    BY <1>4, <2>2
<1> DEFINE after == {q \in Headings(doc) : q > from} \union {n + 1}
<1>7. PICK to : to = Min(after)
  OBVIOUS
<1>8. to \in after /\ \A q \in after : to <= q
  <2>1. after # {} /\ after \subseteq Nat
    BY <1>2, <1>4
  <2>. HIDE DEF after
  <2>2. PICK m \in after : \A q \in after : m <= q
    BY <2>1, NatMin
  <2>. QED
    BY <1>7, <2>2 DEF Min
<1>9. to \in (from + 1)..(n + 1)
  BY <1>2, <1>4, <1>6, <1>8
<1>10. ASSUME NEW q \in (from + 1)..(to - 1) PROVE doc[q].k \notin HeadingKinds
  <2>1. q \in 1..n /\ q > from /\ ~(to <= q)
    BY <1>2, <1>6, <1>9
  <2>2. q \notin Headings(doc)
    BY <1>8, <2>1
  <2>. QED
    BY <1>3, <2>1, <2>2
<1>11. to <= n => doc[to].k \in HeadingKinds /\ ~Fenced(doc, to)
  <2>1. to <= n => to # n + 1
    BY <1>2, <1>9
  <2>2. to <= n => to \in Headings(doc)
    BY <1>8, <2>1
  <2>. QED
    BY <1>4, <2>2
<1>12. WithoutTask(doc, id) = SubSeq(doc, 1, from - 1) \o SubSeq(doc, to, n)
  BY <1>1, <1>5, <1>7 DEF WithoutTask
<1>13. WithoutTask(doc, id) = Cut(doc, from, to)
  BY <1>1, <1>12 DEF Cut
<1>14. CutAt(doc, id, from, to)
  BY <1>1, <1>6, <1>9, <1>10, <1>11 DEF CutAt
<1>. QED
  BY <1>13, <1>14

\* The lines that are left.
IsCut(doc, from, to, c, cut) ==
    /\ cut \in Seq(PlanLines) /\ Len(cut) = c
    /\ \A i \in 1..(from - 1) : cut[i] = doc[i]
    /\ \A i \in from..c : cut[i] = doc[i + (to - from)]

\* What is left, line by line.
LEMMA CutLines ==
  ASSUME NEW doc, doc \in Seq(PlanLines), NEW n, n = Len(doc), NEW from, from \in 1..n,
         NEW to, to \in (from + 1)..(n + 1), NEW c, c = n - (to - from),
         NEW cut, cut = Cut(doc, from, to)
  PROVE  IsCut(doc, from, to, c, cut)
<1>1. n \in Nat /\ n = Len(doc)
  OBVIOUS
<1>2. PICK a, b : a = SubSeq(doc, 1, from - 1) /\ b = SubSeq(doc, to, n)
  OBVIOUS
<1>3. /\ a \in Seq(PlanLines) /\ Len(a) = from - 1 /\ \A i \in 1..(from - 1) : a[i] = doc[i]
  <2>1. 1 \in Int /\ from - 1 \in Int /\ \A i \in 1..(from - 1) : doc[i] \in PlanLines
    BY <1>1
  <2>. QED
    BY <1>2, <2>1, SubSeqProperties
<1>4. /\ b \in Seq(PlanLines) /\ Len(b) = n - to + 1 /\ \A i \in 1..(n - to + 1) : b[i] = doc[to + i - 1]
  <2>1. to \in Int /\ n \in Int /\ (\A i \in to..n : doc[i] \in PlanLines)
    BY <1>1
  <2>2. b \in Seq(PlanLines) /\ Len(b) = IF to <= n THEN n - to + 1 ELSE 0
    BY <1>2, <2>1, SubSeqProperties
  <2>3. n - to + 1 \in Nat /\ (~(to <= n) => n - to + 1 = 0)
    BY <1>1
  <2>4. Len(b) = n - to + 1
    BY <2>2, <2>3
  <2>5. \A i \in 1..(n - to + 1) : b[i] = doc[to + i - 1]
    BY <1>2, <2>1, <2>4, SubSeqProperties
  <2>. QED
    BY <2>2, <2>4, <2>5
<1>5. /\ cut \in Seq(PlanLines) /\ Len(cut) = Len(a) + Len(b)
      /\ \A i \in 1..(Len(a) + Len(b)) : cut[i] = IF i <= Len(a) THEN a[i] ELSE b[i - Len(a)]
  <2>1. a \in Seq(PlanLines) /\ b \in Seq(PlanLines) /\ cut = a \o b
    BY <1>1, <1>2, <1>3, <1>4 DEF Cut
  <2>2. /\ a \o b \in Seq(PlanLines) /\ Len(a \o b) = Len(a) + Len(b)
        /\ \A i \in 1..(Len(a) + Len(b)) : (a \o b)[i] = IF i <= Len(a) THEN a[i] ELSE b[i - Len(a)]
    BY ONLY <2>1, ConcatProperties
  <2>. QED
    BY <2>1, <2>2
<1>6. Len(a) + Len(b) = c
  BY <1>1, <1>3, <1>4
<1>7. ASSUME NEW i \in 1..(from - 1) PROVE cut[i] = doc[i]
  <2>1. i \in 1..(Len(a) + Len(b)) /\ i <= Len(a)
    BY <1>1, <1>3, <1>4
  <2>. QED
    BY <1>3, <1>5, <2>1
<1>8. ASSUME NEW i \in from..c PROVE cut[i] = doc[i + (to - from)]
  <2>1. i \in 1..(Len(a) + Len(b)) /\ ~(i <= Len(a)) /\ i - Len(a) = i - from + 1
    BY <1>1, <1>3, <1>6
  <2>2. i - from + 1 \in 1..(n - to + 1) /\ to + (i - from + 1) - 1 = i + (to - from)
    BY <1>1
  <2>3. cut[i] = b[i - from + 1]
    BY <1>5, <2>1
  <2>. QED
    BY <1>4, <2>2, <2>3
<1>. QED
  BY <1>1, <1>5, <1>6, <1>7, <1>8 DEF IsCut

\* The reader of what is left meets all tasks but that one.
LEMMA WithoutReads ==
  ASSUME NEW doc \in Seq(PlanLines), NothingHidden(doc), NEW id,
         \E p \in 1..Len(doc) : doc[p].k = "task" /\ doc[p].v = id
  PROVE  \E m \in Nat : \E k : Without(ReadTasks(doc), ReadTasks(WithoutTask(doc, id)), m, k, id)
<1>1. PICK from, to, cut : /\ CutAt(doc, id, from, to) /\ cut = WithoutTask(doc, id)
                           /\ cut = Cut(doc, from, to)
  BY CutIs
<1>2. PICK n : n = Len(doc) /\ n \in Nat
  OBVIOUS
<1>3. /\ from \in 1..n /\ to \in (from + 1)..(n + 1)
      /\ doc[from].k = "task" /\ doc[from].v = id /\ ~Fenced(doc, from)
      /\ \A q \in (from + 1)..(to - 1) : doc[q].k \notin HeadingKinds
      /\ to <= n => doc[to].k \in HeadingKinds /\ ~Fenced(doc, to)
  BY <1>1, <1>2 DEF CutAt
<1>4. PICK c : c = n - (to - from) /\ c \in Nat /\ from - 1 \in Nat /\ from - 1 <= c /\ (to = n + 1 => c = from - 1)
  BY <1>2, <1>3
<1>5. /\ cut \in Seq(PlanLines) /\ Len(cut) = c
      /\ \A i \in 1..(from - 1) : cut[i] = doc[i]
      /\ \A i \in from..c : cut[i] = doc[i + (to - from)]
  <2>1. /\ doc \in Seq(PlanLines) /\ n = Len(doc) /\ from \in 1..n /\ to \in (from + 1)..(n + 1)
        /\ c = n - (to - from) /\ cut = Cut(doc, from, to)
    BY <1>1, <1>2, <1>3, <1>4
  <2>2. IsCut(doc, from, to, c, cut)
    BY ONLY <2>1, CutLines
  <2>. QED
    BY <2>2 DEF IsCut
<1>6. PICK p : /\ p[0] = Reader
               /\ \A i \in 1..n : p[i] = ReadLine(p[i - 1], doc[i])
               /\ \A i \in 0..n : ReaderAt(p[i], doc, i)
               /\ ReadTasks(doc) = p[n].tasks
  BY <1>2, ReaderRuns
<1>7. PICK s : /\ s[0] = Reader
               /\ \A i \in 1..c : s[i] = ReadLine(s[i - 1], cut[i])
               /\ \A i \in 0..c : ReaderAt(s[i], cut, i)
               /\ ReadTasks(cut) = s[c].tasks
  BY <1>5, ReaderRuns
\* Before the section the two readers are one.
<1>8. s[from - 1] = p[from - 1]
  <2> DEFINE E == {i \in Nat : i <= from - 1 => s[i] = p[i]}
  <2>1. 0 \in E
    BY <1>6, <1>7
  <2>2. ASSUME NEW i \in Nat, i \in E PROVE i + 1 \in E
    <3>1. SUFFICES ASSUME i + 1 <= from - 1 PROVE s[i + 1] = p[i + 1]
      OBVIOUS
    <3>2. i + 1 \in 1..n /\ i + 1 \in 1..c /\ i + 1 \in 1..(from - 1) /\ (i + 1) - 1 = i /\ i <= from - 1
      BY <1>2, <1>3, <1>4, <3>1
    <3>3. s[i] = p[i]
      BY <2>2, <3>2
    <3>4. s[i + 1] = ReadLine(s[i], cut[i + 1]) /\ p[i + 1] = ReadLine(p[i], doc[i + 1])
      BY <1>6, <1>7, <3>2
    <3>. QED
      BY <1>5, <3>2, <3>3, <3>4
  <2>. HIDE DEF E
  <2>3. \A i \in Nat : i \in E
    BY <2>1, <2>2, NatSet
  <2>. QED
    BY <1>4, <2>3 DEF E
<1>9. PICK r0 : r0 = p[from - 1]
  OBVIOUS
<1>10. ReaderAt(r0, doc, from - 1) /\ IsReader(r0) /\ ~r0.fenced /\ r0.fenced = FALSE
  <2>1. from - 1 \in 0..n /\ (from - 1) + 1 = from
    BY <1>2, <1>3
  <2>2. ReaderAt(r0, doc, from - 1)
    BY <1>6, <1>9, <2>1
  <2>. QED
    BY <1>3, <2>1, <2>2 DEF ReaderAt
<1>11. PICK m \in Nat : Within(p[from], r0, m, id)
  <2>1. PICK x \in Nat : Listed(r0.tasks, x)
    BY <1>10 DEF ReaderAt, TasksFrom, Listed
  <2>2. p[from] = ReadLine(r0, doc[from])
    BY <1>3, <1>6, <1>9
  <2>3. p[from] = Heading(r0, doc[from])
    BY <1>3, <1>10, <2>2 DEF ReadLine, Feed, HeadingKinds
  <2>4. Within(Heading(r0, doc[from]), r0, x + 1, doc[from].v)
    BY <1>3, <1>10, <2>1, WithinStarts
  <2>5. x + 1 \in Nat
    OBVIOUS
  <2>. QED
    BY <1>3, <2>3, <2>4, <2>5
<1>12. Within(p[to - 1], r0, m, id)
  <2> DEFINE E == {i \in Nat : from + i <= to - 1 => Within(p[from + i], r0, m, id)}
  <2>1. 0 \in E
    BY <1>3, <1>11
  <2>2. ASSUME NEW i \in Nat, i \in E PROVE i + 1 \in E
    <3>1. SUFFICES ASSUME from + (i + 1) <= to - 1 PROVE Within(p[from + (i + 1)], r0, m, id)
      OBVIOUS
    <3>2. PICK q : q = from + (i + 1)
      OBVIOUS
    <3>3. q \in 1..n /\ q \in (from + 1)..(to - 1) /\ q - 1 = from + i /\ from + i <= to - 1
      BY <1>2, <1>3, <3>1, <3>2
    <3>4. Within(p[q - 1], r0, m, id)
      BY <2>2, <3>3
    <3>5. p[q] = ReadLine(p[q - 1], doc[q]) /\ doc[q].k \notin HeadingKinds
      BY <1>3, <1>6, <3>3
    <3>6. Within(ReadLine(p[q - 1], doc[q]), r0, m, id)
      BY <3>4, <3>5, WithinLine
    <3>. QED
      BY <3>2, <3>5, <3>6
  <2>. HIDE DEF E
  <2>3. \A i \in Nat : i \in E
    BY <2>1, <2>2, NatSet
  <2>4. to - 1 - from \in Nat /\ from + (to - 1 - from) = to - 1 /\ from + (to - 1 - from) <= to - 1
    BY <1>2, <1>3
  <2>5. to - 1 - from \in E
    BY <2>3, <2>4
  <2>. QED
    BY <2>4, <2>5 DEF E
<1>13. CASE to = n + 1
  <2>1. to - 1 = n /\ c = from - 1
    BY <1>2, <1>4, <1>13
  <2>2. Without(p[n].tasks, r0.tasks, m, m, id)
    BY <1>12, <2>1 DEF Within
  <2>3. ReadTasks(cut) = r0.tasks
    BY <1>7, <1>8, <1>9, <2>1
  <2>. QED
    BY <1>1, <1>6, <2>2, <2>3
<1>14. CASE to <= n
  <2>1. PICK r : r = p[to - 1]
    OBVIOUS
  <2>2. IsReader(r) /\ r.section = r0.section /\ r.group = r0.group /\ Without(r.tasks, r0.tasks, m, m, id)
    BY <1>12, <2>1 DEF Within
  <2>3. ~r.fenced /\ r.fenced = FALSE
    <3>1. to - 1 \in 0..n /\ (to - 1) + 1 = to
      BY <1>2, <1>3, <1>14
    <3>2. ReaderAt(r, doc, to - 1)
      BY <1>6, <2>1, <3>1
    <3>. QED
      BY <1>3, <1>14, <3>1, <3>2 DEF ReaderAt
  <2>4. from \in from..c /\ from \in 1..c /\ from + (to - from) = to /\ to \in 1..n
    BY <1>2, <1>3, <1>4, <1>14
  <2>5. p[to] = Heading(r, doc[to]) /\ s[from] = Heading(r0, doc[to])
    <3>1. p[to] = ReadLine(r, doc[to])
      BY <1>6, <2>1, <2>4
    <3>2. s[from] = ReadLine(r0, doc[to])
      BY <1>5, <1>7, <1>8, <1>9, <2>4
    <3>3. doc[to].k \in HeadingKinds /\ doc[to].k # "fence"
      BY <1>3, <1>14 DEF HeadingKinds
    <3>. QED
      BY <1>10, <2>3, <3>1, <3>2, <3>3 DEF ReadLine, Feed
  <2>6. \E x \in Nat : Sim(p[to], s[from], x, m, id)
    <3>1. \E x \in Nat : Sim(Heading(r, doc[to]), Heading(r0, doc[to]), x, m, id)
      BY <1>3, <1>10, <1>14, <2>2, <2>3, SimHeading
    <3>. QED
      BY <2>5, <3>1
  <2> DEFINE E == {i \in Nat : to + i <= n => \E x \in Nat : Sim(p[to + i], s[from + i], x, m, id)}
  <2>7. 0 \in E
    BY <1>3, <2>6
  <2>8. ASSUME NEW i \in Nat, i \in E PROVE i + 1 \in E
    <3>1. SUFFICES ASSUME to + (i + 1) <= n PROVE \E x \in Nat : Sim(p[to + (i + 1)], s[from + (i + 1)], x, m, id)
      OBVIOUS
    <3>2. PICK q, h : q = to + (i + 1) /\ h = from + (i + 1)
      OBVIOUS
    <3>3. /\ q \in 1..n /\ q - 1 = to + i /\ to + i <= n
          /\ h \in from..c /\ h \in 1..c /\ h - 1 = from + i /\ h + (to - from) = q
      BY <1>2, <1>3, <1>4, <3>1, <3>2
    <3>4. PICK x \in Nat : Sim(p[q - 1], s[h - 1], x, m, id)
      BY <2>8, <3>3
    <3>5. p[q] = ReadLine(p[q - 1], doc[q]) /\ s[h] = ReadLine(s[h - 1], doc[q])
      BY <1>5, <1>6, <1>7, <3>3
    <3>6. \E y \in Nat : Sim(ReadLine(p[q - 1], doc[q]), ReadLine(s[h - 1], doc[q]), y, m, id)
      BY <3>4, SimLine
    <3>. QED
      BY <3>2, <3>5, <3>6
  <2>. HIDE DEF E
  <2>9. \A i \in Nat : i \in E
    BY <2>7, <2>8, NatSet
  <2>10. n - to \in Nat /\ to + (n - to) = n /\ from + (n - to) = c
    <3>1. n \in Nat /\ from \in 1..n /\ to \in (from + 1)..(n + 1) /\ c = n - (to - from) /\ to <= n
      BY <1>2, <1>3, <1>4, <1>14
    <3>. QED
      BY ONLY <3>1
  <2>11. PICK x \in Nat : Sim(p[n], s[c], x, m, id)
    <3>1. n - to \in E
      BY <2>9, <2>10
    <3>. QED
      BY <1>2, <2>10, <3>1 DEF E
  <2>12. Without(p[n].tasks, s[c].tasks, x, m, id)
    BY <2>11 DEF Sim
  <2>. QED
    BY <1>1, <1>6, <1>7, <2>12
<1>. QED
  <2>1. to = n + 1 \/ to <= n
    BY <1>2, <1>3
  <2>. QED
    BY ONLY <2>1, <1>13, <1>14

\* Which faults an empty set of findings rules out.
LEMMA RowClean ==
  ASSUME NEW caps, NEW tasks, NEW i
  PROVE  RowFaults(caps, tasks, i) = {} <=>
           /\ ~\E j \in 1..(i - 1) : caps[j].id = caps[i].id
           /\ ~(caps[i].status \notin {Shipped, Planned})
           /\ ~(~caps[i].evaluation)
           /\ ~(caps[i].status = Shipped /\ ~caps[i].link)
           /\ ~(caps[i].status = Planned /\ \A j \in DOMAIN tasks : Serves(tasks[j]) # caps[i].id)
<1>1. PICK faults : faults = [twice     |-> \E j \in 1..(i - 1) : caps[j].id = caps[i].id,
                              status    |-> caps[i].status \notin {Shipped, Planned},
                              evaluated |-> ~caps[i].evaluation,
                              linked    |-> caps[i].status = Shipped /\ ~caps[i].link,
                              served    |-> caps[i].status = Planned /\ \A j \in DOMAIN tasks : Serves(tasks[j]) # caps[i].id]
  OBVIOUS
<1>2. RowFaults(caps, tasks, i) = Raised(faults)
  BY <1>1 DEF RowFaults
<1>3. DOMAIN faults = {"twice", "status", "evaluated", "linked", "served"}
  BY <1>1
<1>4. Raised(faults) = {} <=> ~faults["twice"] /\ ~faults["status"] /\ ~faults["evaluated"] /\ ~faults["linked"] /\ ~faults["served"]
  BY <1>3 DEF Raised
<1>. QED
  BY <1>1, <1>2, <1>4

\* The same for the identity of a task,
LEMMA IdentityClean ==
  ASSUME NEW caps, NEW tasks, NEW i
  PROVE  IdentityFaults(caps, tasks, i) = {} <=>
           /\ ~\E j \in 1..(i - 1) : tasks[j].id = tasks[i].id
           /\ ~(tasks[i].section \notin Sections)
           /\ ~(tasks[i].group = <<>>)
           /\ ~(Serves(tasks[i]) = NoServes)
           /\ ~(Serves(tasks[i]) # NoServes /\ Serves(tasks[i]) \notin CapabilityIds(caps))
           /\ ~(Serves(tasks[i]) \in CapabilityIds(caps) /\ tasks[i].group # Serves(tasks[i]))
<1>1. PICK faults : faults = [duplicate    |-> \E j \in 1..(i - 1) : tasks[j].id = tasks[i].id,
                              lane         |-> tasks[i].section \notin Sections,
                              group        |-> tasks[i].group = <<>>,
                              noServes     |-> Serves(tasks[i]) = NoServes,
                              unregistered |-> Serves(tasks[i]) # NoServes /\ Serves(tasks[i]) \notin CapabilityIds(caps),
                              elsewhere    |-> Serves(tasks[i]) \in CapabilityIds(caps) /\ tasks[i].group # Serves(tasks[i])]
  OBVIOUS
<1>2. IdentityFaults(caps, tasks, i) = Raised(faults)
  BY <1>1 DEF IdentityFaults
<1>3. DOMAIN faults = {"duplicate", "lane", "group", "noServes", "unregistered", "elsewhere"}
  BY <1>1
<1>4. Raised(faults) = {} <=> /\ ~faults["duplicate"] /\ ~faults["lane"] /\ ~faults["group"]
                              /\ ~faults["noServes"] /\ ~faults["unregistered"] /\ ~faults["elsewhere"]
  BY <1>3 DEF Raised
<1>. QED
  BY <1>1, <1>2, <1>4

\* for its dependencies,
LEMMA DependencyClean ==
  ASSUME NEW tasks, NEW recorded, NEW i
  PROVE  DependencyFaults(tasks, recorded, i) = {} <=>
           /\ ~(tasks[i].id \in DependencyReferences(tasks[i]))
           /\ ~\E r \in DependencyReferences(tasks[i]) : r # tasks[i].id /\ r \notin OpenIds(tasks) \union recorded
<1>1. PICK faults : faults = [itself   |-> tasks[i].id \in DependencyReferences(tasks[i]),
                              dangling |-> \E r \in DependencyReferences(tasks[i]) :
                                              r # tasks[i].id /\ r \notin OpenIds(tasks) \union recorded]
  OBVIOUS
<1>2. DependencyFaults(tasks, recorded, i) = Raised(faults)
  BY <1>1 DEF DependencyFaults
<1>3. DOMAIN faults = {"itself", "dangling"}
  BY <1>1
<1>4. Raised(faults) = {} <=> ~faults["itself"] /\ ~faults["dangling"]
  BY <1>3 DEF Raised
<1>. QED
  BY <1>1, <1>2, <1>4

\* for the order of the lanes,
LEMMA OrderClean ==
  ASSUME NEW caps, NEW tasks
  PROVE  /\ OrderFaults(caps, tasks) \subseteq {"groupOrder", "optionalOrder"}
         /\ "groupOrder" \notin OrderFaults(caps, tasks) <=> \A s \in Sections : GroupsInOrder(caps, tasks, Lane(tasks, s))
         /\ "optionalOrder" \notin OrderFaults(caps, tasks) <=> \A s \in Sections : OptionalLast(tasks, Lane(tasks, s))
<1>1. PICK faults : faults = [groupOrder    |-> \E s \in Sections : ~GroupsInOrder(caps, tasks, Lane(tasks, s)),
                              optionalOrder |-> \E s \in Sections : ~OptionalLast(tasks, Lane(tasks, s))]
  OBVIOUS
<1>2. OrderFaults(caps, tasks) = Raised(faults)
  BY <1>1 DEF OrderFaults
<1>3. DOMAIN faults = {"groupOrder", "optionalOrder"}
  BY <1>1
<1>4. faults["groupOrder"] = (\E s \in Sections : ~GroupsInOrder(caps, tasks, Lane(tasks, s)))
      /\ faults["optionalOrder"] = (\E s \in Sections : ~OptionalLast(tasks, Lane(tasks, s)))
  BY <1>1
<1>5. "groupOrder" \in OrderFaults(caps, tasks) <=> faults["groupOrder"]
  BY <1>2, <1>3 DEF Raised
<1>6. "optionalOrder" \in OrderFaults(caps, tasks) <=> faults["optionalOrder"]
  BY <1>2, <1>3 DEF Raised
<1>7. OrderFaults(caps, tasks) \subseteq {"groupOrder", "optionalOrder"}
  BY <1>2, <1>3 DEF Raised
<1>. QED
  BY <1>4, <1>5, <1>6, <1>7

\* and for the text.
LEMMA TextClean ==
  ASSUME NEW doc
  PROVE  TextFaults(doc) = {} <=>
           /\ ~\E i \in DOMAIN doc : doc[i].k = "malformed"
           /\ ~\E i \in DOMAIN doc : doc[i].k = "history"
           /\ ~\E s \in Sections : \A i \in DOMAIN doc : doc[i].k = "section" => doc[i].v # s
<1>1. PICK faults : faults = [heading |-> \E i \in DOMAIN doc : doc[i].k = "malformed",
                              history |-> \E i \in DOMAIN doc : doc[i].k = "history",
                              noLane  |-> \E s \in Sections : \A i \in DOMAIN doc : doc[i].k = "section" => doc[i].v # s]
  OBVIOUS
<1>2. TextFaults(doc) = Raised(faults)
  BY <1>1 DEF TextFaults
<1>3. DOMAIN faults = {"heading", "history", "noLane"}
  BY <1>1
<1>4. Raised(faults) = {} <=> ~faults["heading"] /\ ~faults["history"] /\ ~faults["noLane"]
  BY <1>3 DEF Raised
<1>. QED
  BY <1>1, <1>2, <1>4

\* The gate finds nothing, part by part.
LEMMA FindsNothing ==
  ASSUME NEW caps, NEW doc, NEW recs, NEW tasks, tasks = ReadTasks(doc), Findings(caps, doc, recs) = {}
  PROVE  /\ caps # <<>>
         /\ \A i \in DOMAIN caps : RowFaults(caps, tasks, i) = {}
         /\ \A i \in DOMAIN tasks : /\ IdentityFaults(caps, tasks, i) = {} /\ MetadataFaults(tasks[i]) = {}
                                    /\ StatusFaults(tasks[i]) = {}
                                    /\ DependencyFaults(tasks, Recorded(caps, recs), i) = {}
         /\ ~HasCycle(tasks) /\ OrderFaults(caps, tasks) = {} /\ TextFaults(doc) = {}
<1>1. caps # <<>>
  BY DEF Findings
<1>2. /\ UNION {RowFaults(caps, tasks, i) : i \in DOMAIN caps} = {}
      /\ UNION {TaskFaults(caps, tasks, recs, i) : i \in DOMAIN tasks} = {}
      /\ (IF HasCycle(tasks) THEN {"cycle"} ELSE {}) = {}
      /\ OrderFaults(caps, tasks) = {} /\ TextFaults(doc) = {}
  BY <1>1 DEF Findings
<1>3. \A i \in DOMAIN caps : RowFaults(caps, tasks, i) = {}
  BY <1>2
<1>4. \A i \in DOMAIN tasks : TaskFaults(caps, tasks, recs, i) = {}
  BY <1>2
<1>5. ~HasCycle(tasks)
  BY <1>2
<1>6. ASSUME NEW i \in DOMAIN tasks
      PROVE  /\ IdentityFaults(caps, tasks, i) = {} /\ MetadataFaults(tasks[i]) = {}
             /\ StatusFaults(tasks[i]) = {}
             /\ DependencyFaults(tasks, Recorded(caps, recs), i) = {}
  BY <1>4 DEF TaskFaults
<1>. QED
  BY <1>1, <1>2, <1>3, <1>5, <1>6

\* And the other way: when no part finds anything, only the order faults are left.
LEMMA FindsAtMost ==
  ASSUME NEW caps, NEW doc, NEW recs, NEW tasks, tasks = ReadTasks(doc), NEW rest, caps # <<>>,
         \A i \in DOMAIN caps : RowFaults(caps, tasks, i) = {},
         \A i \in DOMAIN tasks : /\ IdentityFaults(caps, tasks, i) = {} /\ MetadataFaults(tasks[i]) = {}
                                 /\ StatusFaults(tasks[i]) = {}
                                 /\ DependencyFaults(tasks, Recorded(caps, recs), i) = {},
         ~HasCycle(tasks), OrderFaults(caps, tasks) \subseteq rest, TextFaults(doc) = {}
  PROVE  Findings(caps, doc, recs) \subseteq rest
<1>1. \A i \in DOMAIN tasks : TaskFaults(caps, tasks, recs, i) = {}
  BY DEF TaskFaults
<1>2. /\ UNION {RowFaults(caps, tasks, i) : i \in DOMAIN caps} = {}
      /\ UNION {TaskFaults(caps, tasks, recs, i) : i \in DOMAIN tasks} = {}
      /\ (IF HasCycle(tasks) THEN {"cycle"} ELSE {}) = {}
  BY <1>1
<1>. QED
  BY <1>2 DEF Findings

\* Skipping keeps the order and leaves out the k-th only.
LEMMA SkipOrder ==
  ASSUME NEW m \in Nat, NEW k \in 1..m
  PROVE  /\ \A i, j \in 1..(m - 1) : i < j <=> Skip(k, i) < Skip(k, j)
         /\ \A j \in 1..m : j # k => \E q \in 1..(m - 1) : Skip(k, q) = j
         /\ \A q \in 1..(m - 1) : Skip(k, q) \in 1..m /\ Skip(k, q) # k
<1>1. ASSUME NEW j \in 1..m, j # k PROVE \E q \in 1..(m - 1) : Skip(k, q) = j
  <2>1. CASE j < k
    BY <2>1 DEF Skip
  <2>2. CASE j > k
    <3>1. j - 1 \in 1..(m - 1) /\ Skip(k, j - 1) = j
      BY <2>2 DEF Skip
    <3>. QED
      BY <3>1
  <2>. QED
    BY <1>1, <2>1, <2>2
<1>2. \A i, j \in 1..(m - 1) : i < j <=> Skip(k, i) < Skip(k, j)
  BY DEF Skip
<1>3. \A q \in 1..(m - 1) : Skip(k, q) \in 1..m /\ Skip(k, q) # k
  BY DEF Skip
<1>. QED
  BY <1>1, <1>2, <1>3

\* The registry once the capability of a task is shipped with its last task.
Shipping(caps, group, last) ==
    [i \in DOMAIN caps |-> IF caps[i].id = group /\ last
                           THEN [caps[i] EXCEPT !.status = Shipped, !.link = TRUE] ELSE caps[i]]
\* Other rows, the same ids.
SameRows(caps, others) ==
    /\ DOMAIN others = DOMAIN caps
    /\ \A i \in DOMAIN caps : others[i].id = caps[i].id

\* A row that is shipped gets its link, the others stay.
LEMMA ShippingRows ==
  ASSUME NEW caps \in Seq(Rows), NEW group, NEW last, NEW others, others = Shipping(caps, group, last)
  PROVE  /\ SameRows(caps, others)
         /\ \A i \in DOMAIN caps : /\ others[i].evaluation = caps[i].evaluation
                                   /\ IF caps[i].id = group /\ last THEN others[i].status = Shipped /\ others[i].link
                                      ELSE others[i] = caps[i]
<1>1. DOMAIN others = DOMAIN caps
  BY DEF Shipping
<1>2. ASSUME NEW i \in DOMAIN caps
      PROVE  /\ others[i].id = caps[i].id /\ others[i].evaluation = caps[i].evaluation
             /\ IF caps[i].id = group /\ last THEN others[i].status = Shipped /\ others[i].link
                ELSE others[i] = caps[i]
  <2>1. caps[i] \in Rows
    BY <1>2
  <2>2. others[i] = IF caps[i].id = group /\ last
                    THEN [caps[i] EXCEPT !.status = Shipped, !.link = TRUE] ELSE caps[i]
    BY <1>2 DEF Shipping
  <2>. QED
    BY <2>1, <2>2 DEF Rows
<1>. QED
  BY <1>1, <1>2 DEF SameRows

\* The same ids have the same ranks.
LEMMA SameIds ==
  ASSUME NEW caps, NEW n \in Nat, DOMAIN caps = 1..n, NEW others, SameRows(caps, others)
  PROVE  CapabilityIds(others) = CapabilityIds(caps) /\ \A g : Rank(others, g) = Rank(caps, g)
<1>1. CapabilityIds(others) = CapabilityIds(caps)
  BY DEF CapabilityIds, SameRows
<1>2. ASSUME NEW g PROVE Rank(others, g) = Rank(caps, g)
  <2>1. \A i \in 1..n : /\ others[i].id = caps[i].id
                         /\ \A j \in 1..(i - 1) : others[j].id = caps[j].id
    BY DEF SameRows
  <2>2. \A i \in 1..n : (others[i].id = g /\ \A j \in 1..(i - 1) : others[j].id # g)
                         <=> (caps[i].id = g /\ \A j \in 1..(i - 1) : caps[j].id # g)
    BY <2>1
  <2>. QED
    BY <2>2 DEF Rank, SameRows
<1>. QED
  BY <1>1, <1>2
\* The task k is finished: its row is shipped when no other task serves it.
Alone(tasks, k) == \A i \in DOMAIN tasks \ {k} : Serves(tasks[i]) # tasks[k].group
IsFinish(caps, others, tasks, rest, m, k) ==
    /\ caps \in Seq(Rows) /\ m \in Nat /\ k \in 1..m
    /\ Listed(tasks, m) /\ rest = Dropped(tasks, m, k)
    /\ others = Shipping(caps, tasks[k].group, Alone(tasks, k))

\* The tasks that are left.
LEMMA FinishTasks ==
  ASSUME NEW caps, NEW others, NEW tasks, NEW rest, NEW m, NEW k, IsFinish(caps, others, tasks, rest, m, k)
  PROVE  /\ DOMAIN tasks = 1..m /\ DOMAIN rest = 1..(m - 1) /\ Len(tasks) = m /\ Len(rest) = m - 1
         /\ m - 1 \in Nat /\ Listed(rest, m - 1)
         /\ \A q \in 1..(m - 1) : rest[q] = tasks[Skip(k, q)] /\ Skip(k, q) \in 1..m /\ Skip(k, q) # k
<1>1. m \in Nat /\ k \in 1..m /\ Listed(tasks, m) /\ rest = Dropped(tasks, m, k)
  BY DEF IsFinish
<1>2. m - 1 \in Nat /\ Listed(rest, m - 1) /\ \A q \in 1..(m - 1) : rest[q] = tasks[Skip(k, q)]
  BY ONLY <1>1, DroppedListed
<1>3. DOMAIN tasks = 1..m /\ Len(tasks) = m
  BY ONLY <1>1, ListedIs
<1>4. DOMAIN rest = 1..(m - 1) /\ Len(rest) = m - 1
  BY ONLY <1>2, ListedIs
<1>5. \A q \in 1..(m - 1) : Skip(k, q) \in 1..m /\ Skip(k, q) # k
  BY ONLY <1>1, SkipOrder
<1>. QED
  BY <1>2, <1>3, <1>4, <1>5

\* The rows of the registry are as good as they were.
LEMMA FinishRows ==
  ASSUME NEW caps, NEW others, NEW tasks, NEW rest, NEW m, NEW k, IsFinish(caps, others, tasks, rest, m, k),
         \A i \in DOMAIN caps : RowFaults(caps, tasks, i) = {}, Serves(tasks[k]) = tasks[k].group
  PROVE  /\ SameRows(caps, others)
         /\ \A i \in DOMAIN others : RowFaults(others, rest, i) = {}
<1>0. m \in Nat /\ k \in 1..m /\ caps \in Seq(Rows) /\ others = Shipping(caps, tasks[k].group, Alone(tasks, k))
  BY DEF IsFinish
<1>1. /\ SameRows(caps, others)
      /\ \A i \in DOMAIN caps : /\ others[i].evaluation = caps[i].evaluation
                                /\ IF caps[i].id = tasks[k].group /\ Alone(tasks, k)
                                   THEN others[i].status = Shipped /\ others[i].link
                                   ELSE others[i] = caps[i]
  BY ONLY <1>0, ShippingRows
<1>2. DOMAIN others = DOMAIN caps /\ \A i \in DOMAIN caps : others[i].id = caps[i].id
  BY <1>1 DEF SameRows
<1>3. /\ DOMAIN tasks = 1..m /\ DOMAIN rest = 1..(m - 1) /\ m \in Nat /\ k \in 1..m
      /\ \A q \in 1..(m - 1) : rest[q] = tasks[Skip(k, q)]
  BY <1>0, FinishTasks
<1>4. PICK n \in Nat : DOMAIN caps = 1..n
  BY <1>0
<1>5. SUFFICES ASSUME NEW i \in DOMAIN others PROVE RowFaults(others, rest, i) = {}
  BY <1>1
<1>6. /\ ~\E j \in 1..(i - 1) : caps[j].id = caps[i].id
      /\ ~(caps[i].status \notin {Shipped, Planned})
      /\ ~(~caps[i].evaluation)
      /\ ~(caps[i].status = Shipped /\ ~caps[i].link)
      /\ ~(caps[i].status = Planned /\ \A j \in DOMAIN tasks : Serves(tasks[j]) # caps[i].id)
  BY <1>2, RowClean
<1>7. ~\E j \in 1..(i - 1) : others[j].id = others[i].id
  BY <1>2, <1>4, <1>6
<1>8. /\ ~(others[i].status \notin {Shipped, Planned}) /\ ~(~others[i].evaluation)
      /\ ~(others[i].status = Shipped /\ ~others[i].link)
  BY <1>1, <1>2, <1>6
<1>9. ~(others[i].status = Planned /\ \A j \in DOMAIN rest : Serves(rest[j]) # others[i].id)
  <2>1. SUFFICES ASSUME others[i].status = Planned
                 PROVE  \E q \in DOMAIN rest : Serves(rest[q]) = others[i].id
    OBVIOUS
  <2>2. others[i] = caps[i] /\ ~(caps[i].id = tasks[k].group /\ Alone(tasks, k))
    BY <1>1, <1>2, <2>1 DEF Planned, Shipped
  <2>3. PICK j \in 1..m : j # k /\ Serves(tasks[j]) = caps[i].id
    <3>1. PICK h \in 1..m : Serves(tasks[h]) = caps[i].id
      BY <1>3, <1>6, <2>1, <2>2
    <3>2. CASE h = k
      BY <1>3, <2>2, <3>1, <3>2 DEF Alone
    <3>. QED
      BY <3>1, <3>2
  <2>4. PICK q \in 1..(m - 1) : Skip(k, q) = j
    BY <1>3, <2>3, SkipOrder
  <2>. QED
    BY <1>3, <2>2, <2>3, <2>4
<1>. QED
  BY <1>7, <1>8, <1>9, RowClean

\* The tasks that are left are as good as they were.
LEMMA FinishIdentity ==
  ASSUME NEW caps, NEW others, NEW tasks, NEW rest, NEW m, NEW k, IsFinish(caps, others, tasks, rest, m, k),
         CapabilityIds(others) = CapabilityIds(caps),
         \A i \in DOMAIN tasks : IdentityFaults(caps, tasks, i) = {},
         NEW q \in DOMAIN rest
  PROVE  IdentityFaults(others, rest, q) = {}
<1>1. /\ DOMAIN tasks = 1..m /\ DOMAIN rest = 1..(m - 1)
      /\ \A p \in 1..(m - 1) : rest[p] = tasks[Skip(k, p)] /\ Skip(k, p) \in 1..m
  BY FinishTasks
<1>2. m \in Nat /\ k \in 1..m
  BY DEF IsFinish
<1>3. PICK i \in 1..m : i = Skip(k, q) /\ rest[q] = tasks[i]
  BY <1>1
<1>4. /\ ~\E j \in 1..(i - 1) : tasks[j].id = tasks[i].id
      /\ ~(tasks[i].section \notin Sections)
      /\ ~(tasks[i].group = <<>>)
      /\ ~(Serves(tasks[i]) = NoServes)
      /\ ~(Serves(tasks[i]) # NoServes /\ Serves(tasks[i]) \notin CapabilityIds(caps))
      /\ ~(Serves(tasks[i]) \in CapabilityIds(caps) /\ tasks[i].group # Serves(tasks[i]))
  <2>1. IdentityFaults(caps, tasks, i) = {}
    BY <1>1
  <2>. QED
    BY ONLY <2>1, IdentityClean
<1>5. ~\E j \in 1..(q - 1) : rest[j].id = rest[q].id
  <2>1. SUFFICES ASSUME NEW j \in 1..(q - 1), rest[j].id = rest[q].id PROVE FALSE
    OBVIOUS
  <2>2. j \in 1..(m - 1) /\ q \in 1..(m - 1) /\ j < q
    BY <1>1, <1>2
  <2>3. Skip(k, j) < i /\ Skip(k, j) \in 1..m
    BY <1>2, <1>3, <2>2, SkipOrder
  <2>. QED
    BY <1>1, <1>3, <1>4, <2>1, <2>2, <2>3
<1>. QED
  BY <1>3, <1>4, <1>5, IdentityClean

\* The ids of an accepted plan are those of one task each.
OneEach(tasks) == \A i, j \in DOMAIN tasks : tasks[i].id = tasks[j].id => i = j

\* So the gate has seen to it.
LEMMA IdsDiffer ==
  ASSUME NEW tasks, NEW m \in Nat, DOMAIN tasks = 1..m, NEW caps,
         \A i \in DOMAIN tasks : IdentityFaults(caps, tasks, i) = {}
  PROVE  OneEach(tasks)
<1>1. ASSUME NEW i \in 1..m, NEW j \in 1..(i - 1) PROVE tasks[j].id # tasks[i].id
  BY IdentityClean
<1>2. ASSUME NEW i \in 1..m, NEW j \in 1..m, tasks[i].id = tasks[j].id, i # j PROVE FALSE
  <2>1. i \in 1..(j - 1) \/ j \in 1..(i - 1)
    BY <1>2
  <2>. QED
    BY <1>1, <1>2, <2>1
<1>. QED
  BY <1>2 DEF OneEach

\* One id is open no longer.
LEMMA FinishIds ==
  ASSUME NEW caps, NEW others, NEW tasks, NEW rest, NEW m, NEW k, IsFinish(caps, others, tasks, rest, m, k)
  PROVE  /\ OpenIds(rest) \subseteq OpenIds(tasks)
         /\ OpenIds(tasks) \subseteq OpenIds(rest) \union {tasks[k].id}
<1>1. /\ DOMAIN tasks = 1..m /\ DOMAIN rest = 1..(m - 1)
      /\ \A p \in 1..(m - 1) : rest[p] = tasks[Skip(k, p)] /\ Skip(k, p) \in 1..m
  BY FinishTasks
<1>2. m \in Nat /\ k \in 1..m
  BY DEF IsFinish
<1>3. \A j \in 1..m : j # k => \E q \in 1..(m - 1) : Skip(k, q) = j
  BY <1>2, SkipOrder
<1>4. OpenIds(rest) \subseteq OpenIds(tasks)
  BY <1>1 DEF OpenIds
<1>5. OpenIds(tasks) \subseteq OpenIds(rest) \union {tasks[k].id}
  BY <1>1, <1>3 DEF OpenIds
<1>. QED
  BY <1>4, <1>5

\* A record of a task of a group is found again under the name of the group.
LEMMA FinishRecorded ==
  ASSUME NEW caps, NEW others, CapabilityIds(others) = CapabilityIds(caps), NEW recs,
         NEW group \in CapabilityIds(caps), NEW S, group \in Seq(S), NEW id \in Seq(S) \ {<<>>}
  PROVE  Recorded(caps, recs) \union {id} \subseteq Recorded(others, recs \union {group \o id})
<1>1. PICK r : r = group \o id
  OBVIOUS
<1>2. r \in Seq(S) /\ Len(r) = Len(group) + Len(id) /\ Len(group) \in Nat /\ Len(id) \in Nat /\ Len(id) # 0
  BY <1>1
<1>3. SubSeq(r, 1, Len(group)) = group
  BY <1>1, <1>2
<1>4. SubSeq(r, Len(group) + 1, Len(r)) = id
  BY <1>1, <1>2
<1>5. IsStrictPrefix(group, r)
  <2>1. SubSeq(group, 1, Len(group)) = group
    OBVIOUS
  <2>2. Len(group) <= Len(r) /\ group # r
    BY <1>2
  <2>. QED
    BY <1>3, <2>1, <2>2 DEF IsStrictPrefix, IsPrefix
<1>6. PICK groups : groups = CapabilityIds(caps) \union {Adhoc}
  OBVIOUS
<1>7. <<r, group>> \in {q \in (recs \union {r}) \X groups : IsStrictPrefix(q[2], q[1])}
  BY <1>5, <1>6
<1>8. id \in RecordedIds(recs \union {r}, groups)
  BY <1>4, <1>7 DEF RecordedIds
<1>9. RecordedIds(recs, groups) \subseteq RecordedIds(recs \union {r}, groups)
  BY DEF RecordedIds
<1>. QED
  BY <1>1, <1>6, <1>8, <1>9 DEF Recorded

\* What a task waits for is open still, or recorded.
LEMMA FinishDependencies ==
  ASSUME NEW caps, NEW others, NEW tasks, NEW rest, NEW m, NEW k, IsFinish(caps, others, tasks, rest, m, k),
         NEW recorded, \A i \in DOMAIN tasks : DependencyFaults(tasks, recorded, i) = {},
         NEW more, recorded \union {tasks[k].id} \subseteq more,
         NEW q \in DOMAIN rest
  PROVE  DependencyFaults(rest, more, q) = {}
<1>1. /\ DOMAIN tasks = 1..m /\ DOMAIN rest = 1..(m - 1)
      /\ \A p \in 1..(m - 1) : rest[p] = tasks[Skip(k, p)] /\ Skip(k, p) \in 1..m
  BY FinishTasks
<1>2. PICK i \in 1..m : i = Skip(k, q) /\ rest[q] = tasks[i]
  BY <1>1
<1>3. /\ ~(tasks[i].id \in DependencyReferences(tasks[i]))
      /\ ~\E r \in DependencyReferences(tasks[i]) : r # tasks[i].id /\ r \notin OpenIds(tasks) \union recorded
  BY <1>1, DependencyClean
<1>4. OpenIds(tasks) \subseteq OpenIds(rest) \union {tasks[k].id}
  BY FinishIds
<1>5. /\ ~(rest[q].id \in DependencyReferences(rest[q]))
      /\ ~\E r \in DependencyReferences(rest[q]) : r # rest[q].id /\ r \notin OpenIds(rest) \union more
  BY <1>2, <1>3, <1>4
<1>. QED
  BY <1>5, DependencyClean
\* A knot of the tasks that are left was one before.
LEMMA GraphAt ==
  ASSUME NEW tasks, NEW m \in Nat, Listed(tasks, m), OneEach(tasks), NEW i \in 1..m
  PROVE  /\ DOMAIN Graph(tasks) = OpenIds(tasks) /\ GraphOk(Graph(tasks))
         /\ Graph(tasks)[tasks[i].id] = StartDependencies(tasks[i]) \intersect OpenIds(tasks)
<1>1. DOMAIN tasks = 1..m /\ Len(tasks) = m
  BY ListedIs
<1>2. DOMAIN Graph(tasks) = OpenIds(tasks) /\ GraphOk(Graph(tasks))
  BY GraphIs DEF Listed
<1>3. PICK id : id = tasks[i].id
  OBVIOUS
<1>4. \A h \in DOMAIN tasks : (tasks[h].id = id /\ \A j \in (h + 1)..Len(tasks) : tasks[j].id # id) <=> h = i
  <2>1. \A h \in 1..m : tasks[h].id = id <=> h = i
    BY <1>1, <1>3 DEF OneEach
  <2>2. \A h \in 1..m : \A j \in (h + 1)..m : j \in 1..m /\ j # h
    OBVIOUS
  <2>. QED
    BY <1>1, <2>1, <2>2
<1>5. PICK g : g = CHOOSE h \in DOMAIN tasks : tasks[h].id = id /\ \A j \in (h + 1)..Len(tasks) : tasks[j].id # id
  OBVIOUS
<1>6. g = i
  <2>1. \E h \in DOMAIN tasks : tasks[h].id = id /\ \A j \in (h + 1)..Len(tasks) : tasks[j].id # id
    BY <1>1, <1>4
  <2>2. g \in DOMAIN tasks /\ tasks[g].id = id /\ \A j \in (g + 1)..Len(tasks) : tasks[j].id # id
    BY <1>5, <2>1
  <2>. QED
    BY <1>4, <2>2
<1>7. id \in OpenIds(tasks)
  BY <1>1, <1>3 DEF OpenIds
<1>8. Graph(tasks)[id] = StartDependencies(tasks[g]) \intersect OpenIds(tasks)
  BY <1>5, <1>7 DEF Graph
<1>. QED
  BY <1>2, <1>3, <1>6, <1>8

\* No cycle arises where there was none.
LEMMA FinishCycles ==
  ASSUME NEW caps, NEW others, NEW tasks, NEW rest, NEW m, NEW k, IsFinish(caps, others, tasks, rest, m, k),
         OneEach(tasks), OneEach(rest), ~HasCycle(tasks)
  PROVE  ~HasCycle(rest)
<1>1. /\ DOMAIN tasks = 1..m /\ DOMAIN rest = 1..(m - 1) /\ m - 1 \in Nat /\ Listed(rest, m - 1)
      /\ \A p \in 1..(m - 1) : rest[p] = tasks[Skip(k, p)] /\ Skip(k, p) \in 1..m
  BY FinishTasks
<1>2. m \in Nat /\ k \in 1..m /\ Listed(tasks, m)
  BY DEF IsFinish
<1>3. OpenIds(rest) \subseteq OpenIds(tasks)
  BY FinishIds
<1>4. DOMAIN Graph(tasks) = OpenIds(tasks) /\ GraphOk(Graph(tasks))
  BY <1>2, GraphAt
<1>5. DOMAIN Graph(rest) = OpenIds(rest) /\ GraphOk(Graph(rest))
  BY <1>1, GraphIs DEF Listed
<1>6. ASSUME NEW id \in OpenIds(rest) PROVE Graph(rest)[id] \subseteq Graph(tasks)[id]
  <2>1. PICK q \in 1..(m - 1) : rest[q].id = id
    BY <1>1 DEF OpenIds
  <2>2. PICK i \in 1..m : rest[q] = tasks[i]
    BY <1>1
  <2>3. Graph(rest)[id] = StartDependencies(rest[q]) \intersect OpenIds(rest)
    BY <1>1, <2>1, GraphAt
  <2>4. Graph(tasks)[id] = StartDependencies(tasks[i]) \intersect OpenIds(tasks)
    BY <1>2, <2>1, <2>2, GraphAt
  <2>. QED
    BY <1>3, <2>2, <2>3, <2>4
<1>7. ~Knotted(Graph(tasks))
  BY <1>4, ExploreFindsKnots DEF HasCycle
<1>8. ~Knotted(Graph(rest))
  BY <1>3, <1>4, <1>5, <1>6, <1>7 DEF Knotted, Knot
<1>. QED
  BY <1>5, <1>8, ExploreFindsKnots DEF HasCycle

\* The lanes that are left are in order, and so are their groups where none returned.
LEMMA FinishLanes ==
  ASSUME NEW caps, NEW others, NEW tasks, NEW rest, NEW m, NEW k, IsFinish(caps, others, tasks, rest, m, k),
         NEW s, NEW q \in Lane(rest, s)
  PROVE  /\ q \in 1..(m - 1) /\ Skip(k, q) \in Lane(tasks, s) /\ rest[q] = tasks[Skip(k, q)]
         /\ \A p \in Lane(rest, s) : p < q <=> Skip(k, p) < Skip(k, q)
<1>1. /\ DOMAIN tasks = 1..m /\ DOMAIN rest = 1..(m - 1)
      /\ \A p \in 1..(m - 1) : rest[p] = tasks[Skip(k, p)] /\ Skip(k, p) \in 1..m
  BY FinishTasks
<1>2. m \in Nat /\ k \in 1..m
  BY DEF IsFinish
<1>3. \A i, j \in 1..(m - 1) : i < j <=> Skip(k, i) < Skip(k, j)
  BY <1>2, SkipOrder
<1>. QED
  BY <1>1, <1>3 DEF Lane

\* Required tasks still come before optional ones.
LEMMA FinishOptional ==
  ASSUME NEW caps, NEW others, NEW tasks, NEW rest, NEW m, NEW k, IsFinish(caps, others, tasks, rest, m, k),
         NEW s, OptionalLast(tasks, Lane(tasks, s))
  PROVE  OptionalLast(rest, Lane(rest, s))
<1>1. SUFFICES ASSUME NEW i \in Lane(rest, s), NEW j \in Lane(rest, s), i < j,
                      rest[i].group = rest[j].group, rest[i].optional
               PROVE  rest[j].optional
  BY DEF OptionalLast
<1>2. /\ Skip(k, i) \in Lane(tasks, s) /\ rest[i] = tasks[Skip(k, i)]
      /\ Skip(k, j) \in Lane(tasks, s) /\ rest[j] = tasks[Skip(k, j)] /\ Skip(k, i) < Skip(k, j)
  BY <1>1, FinishLanes
<1>. QED
  BY <1>1, <1>2 DEF OptionalLast

\* Groups that stay together are still ranked in the order of the registry.
LEMMA FinishGroups ==
  ASSUME NEW caps, NEW others, NEW tasks, NEW rest, NEW m, NEW k, IsFinish(caps, others, tasks, rest, m, k),
         \A g : Rank(others, g) = Rank(caps, g),
         NEW s, LaneInOrder(caps, tasks, Lane(tasks, s))
  PROVE  GroupsInOrder(others, rest, Lane(rest, s))
<1>1. SUFFICES ASSUME NEW i \in Lane(rest, s), NEW j \in Lane(rest, s), i < j,
                      rest[i].group # rest[j].group
               PROVE  Rank(others, rest[i].group) < Rank(others, rest[j].group)
  BY DEF GroupsInOrder
<1>2. /\ Skip(k, i) \in Lane(tasks, s) /\ rest[i] = tasks[Skip(k, i)]
      /\ Skip(k, j) \in Lane(tasks, s) /\ rest[j] = tasks[Skip(k, j)] /\ Skip(k, i) < Skip(k, j)
  BY <1>1, FinishLanes
<1>3. Before(caps, tasks, Skip(k, i), Skip(k, j))
  BY <1>2, LaneBefore
<1>4. Rank(caps, tasks[Skip(k, i)].group) < Rank(caps, tasks[Skip(k, j)].group)
  BY <1>1, <1>2, <1>3 DEF Before
<1>. QED
  BY <1>2, <1>4

\* Cutting a task out of the text leaves every section and brings in no line.
LEMMA FinishText ==
  ASSUME NEW doc \in Seq(PlanLines), NothingHidden(doc), NEW id,
         \E p \in 1..Len(doc) : doc[p].k = "task" /\ doc[p].v = id, TextFaults(doc) = {},
         NEW left, left = WithoutTask(doc, id)
  PROVE  TextFaults(left) = {}
<1>1. PICK from, to : CutAt(doc, id, from, to) /\ left = Cut(doc, from, to)
  BY CutIs
<1>2. PICK n, c : n \in Nat /\ n = Len(doc) /\ DOMAIN doc = 1..n /\ c = n - (to - from)
  OBVIOUS
<1>3. /\ from \in 1..n /\ to \in (from + 1)..(n + 1) /\ doc[from].k = "task"
      /\ \A q \in (from + 1)..(to - 1) : doc[q].k \notin HeadingKinds
  BY <1>1, <1>2 DEF CutAt
<1>4. IsCut(doc, from, to, c, left)
  BY ONLY <1>1, <1>2, <1>3, doc \in Seq(PlanLines), CutLines
<1>5. /\ left \in Seq(PlanLines) /\ Len(left) = c /\ DOMAIN left = 1..c /\ c \in Nat
      /\ \A i \in 1..(from - 1) : left[i] = doc[i]
      /\ \A i \in from..c : left[i] = doc[i + (to - from)]
  BY <1>2, <1>3, <1>4 DEF IsCut
<1>6. \A i \in 1..c : \E j \in 1..n : left[i] = doc[j]
  <2>1. SUFFICES ASSUME NEW i \in 1..c PROVE \E j \in 1..n : left[i] = doc[j]
    OBVIOUS
  <2>2. CASE i < from
    BY <1>2, <1>3, <1>5, <2>2
  <2>3. CASE i >= from
    <3>1. i + (to - from) \in 1..n /\ i \in from..c
      BY <1>2, <1>3, <1>5, <2>3
    <3>. QED
      BY <1>5, <3>1
  <2>. QED
    BY <1>3, <1>5, <2>2, <2>3
<1>7. ASSUME NEW j \in 1..n, doc[j].k = "section" PROVE \E i \in 1..c : left[i] = doc[j]
  <2>1. j < from \/ j >= to
    <3>1. SUFFICES ASSUME j >= from, j < to PROVE FALSE
      BY <1>3
    <3>2. CASE j = from
      BY <1>3, <1>7, <3>2
    <3>3. CASE j # from
      <4>1. j \in (from + 1)..(to - 1)
        BY <1>3, <3>1, <3>3
      <4>. QED
        BY <1>3, <1>7, <4>1 DEF HeadingKinds
    <3>. QED
      BY <3>2, <3>3
  <2>2. CASE j < from
    <3>1. j \in 1..(from - 1) /\ j \in 1..c
      BY <1>2, <1>3, <2>2
    <3>. QED
      BY <1>5, <3>1
  <2>3. CASE j >= to
    <3>1. j - (to - from) \in from..c /\ j - (to - from) \in 1..c /\ (j - (to - from)) + (to - from) = j
      BY <1>2, <1>3, <2>3
    <3>. QED
      BY <1>5, <3>1
  <2>. QED
    BY <2>1, <2>2, <2>3
<1>8. /\ ~\E i \in 1..n : doc[i].k = "malformed"
      /\ ~\E i \in 1..n : doc[i].k = "history"
      /\ ~\E s \in Sections : \A i \in 1..n : doc[i].k = "section" => doc[i].v # s
  BY <1>2, TextClean
<1>9. /\ ~\E i \in 1..c : left[i].k = "malformed"
      /\ ~\E i \in 1..c : left[i].k = "history"
  BY <1>6, <1>8
<1>10. ASSUME NEW s \in Sections PROVE \E i \in 1..c : left[i].k = "section" /\ left[i].v = s
  <2>1. PICK j \in 1..n : doc[j].k = "section" /\ doc[j].v = s
    BY <1>8
  <2>2. PICK i \in 1..c : left[i] = doc[j]
    BY <1>7, <2>1
  <2>. QED
    BY <2>1, <2>2
<1>11. /\ ~\E i \in DOMAIN left : left[i].k = "malformed"
       /\ ~\E i \in DOMAIN left : left[i].k = "history"
       /\ ~\E s \in Sections : \A i \in DOMAIN left : left[i].k = "section" => left[i].v # s
  BY <1>5, <1>9, <1>10
<1>. QED
  BY <1>11, TextClean

\* A finished task: what the gate found, and what it finds then.
LEMMA FinishFinds ==
  ASSUME NEW caps, NEW doc, NEW recs, Findings(caps, doc, recs) = {},
         NEW tasks, tasks = ReadTasks(doc), NEW left, NEW rest, rest = ReadTasks(left),
         NEW others, NEW m, NEW k, IsFinish(caps, others, tasks, rest, m, k), TextFaults(left) = {},
         \A i \in 1..m : tasks[i].group \in CapabilityIds(caps) /\ Serves(tasks[i]) = tasks[i].group,
         NEW S, tasks[k].group \in Seq(S), tasks[k].id \in Seq(S) \ {<<>>},
         NEW faults, OrderFaults(others, rest) \subseteq faults
  PROVE  Findings(others, left, recs \union {tasks[k].group \o tasks[k].id}) \subseteq faults
<1>1. /\ caps # <<>>
      /\ \A i \in DOMAIN caps : RowFaults(caps, tasks, i) = {}
      /\ \A i \in DOMAIN tasks : /\ IdentityFaults(caps, tasks, i) = {} /\ MetadataFaults(tasks[i]) = {}
                                 /\ StatusFaults(tasks[i]) = {}
                                 /\ DependencyFaults(tasks, Recorded(caps, recs), i) = {}
      /\ ~HasCycle(tasks)
  BY FindsNothing
<1>2. /\ DOMAIN tasks = 1..m /\ DOMAIN rest = 1..(m - 1) /\ m - 1 \in Nat
      /\ \A p \in 1..(m - 1) : rest[p] = tasks[Skip(k, p)] /\ Skip(k, p) \in 1..m
  BY FinishTasks
<1>3. m \in Nat /\ k \in 1..m /\ caps \in Seq(Rows)
  BY DEF IsFinish
<1>4. SameRows(caps, others) /\ \A i \in DOMAIN others : RowFaults(others, rest, i) = {}
  <2>1. Serves(tasks[k]) = tasks[k].group
    BY <1>3
  <2>2. \A i \in DOMAIN caps : RowFaults(caps, tasks, i) = {}
    BY <1>1
  <2>. QED
    BY <2>1, <2>2, FinishRows
<1>5. CapabilityIds(others) = CapabilityIds(caps)
  BY <1>3, <1>4, SameIds
<1>6. others # <<>>
  <2>1. Len(caps) \in Nat /\ Len(caps) # 0 /\ DOMAIN caps = 1..Len(caps)
    BY <1>1, <1>3
  <2>2. 1 \in DOMAIN others
    BY <1>4, <2>1 DEF SameRows
  <2>. QED
    BY <2>2
<1>7. \A i \in DOMAIN tasks : IdentityFaults(caps, tasks, i) = {}
  BY <1>1
<1>8. \A q \in DOMAIN rest : IdentityFaults(others, rest, q) = {}
  BY <1>5, <1>7, FinishIdentity
<1>9. ~HasCycle(rest)
  <2>1. OneEach(tasks)
    BY <1>2, <1>3, <1>7, IdsDiffer
  <2>2. OneEach(rest)
    BY <1>2, <1>8, IdsDiffer
  <2>. QED
    BY <1>1, <2>1, <2>2, FinishCycles
<1>10. PICK recs2, more : recs2 = recs \union {tasks[k].group \o tasks[k].id} /\ more = Recorded(others, recs2)
  OBVIOUS
<1>11. Recorded(caps, recs) \union {tasks[k].id} \subseteq more
  <2>1. tasks[k].group \in CapabilityIds(caps)
    BY <1>3
  <2>. QED
    BY <1>5, <1>10, <2>1, FinishRecorded
<1>12. \A q \in DOMAIN rest : DependencyFaults(rest, more, q) = {}
  <2>1. \A i \in DOMAIN tasks : DependencyFaults(tasks, Recorded(caps, recs), i) = {}
    BY <1>1
  <2>. QED
    BY <1>11, <2>1, FinishDependencies
<1>13. \A q \in DOMAIN rest : MetadataFaults(rest[q]) = {} /\ StatusFaults(rest[q]) = {}
  BY <1>1, <1>2
<1>14. \A q \in DOMAIN rest : /\ IdentityFaults(others, rest, q) = {} /\ MetadataFaults(rest[q]) = {}
                              /\ StatusFaults(rest[q]) = {}
                              /\ DependencyFaults(rest, more, q) = {}
  BY <1>8, <1>12, <1>13
<1>15. /\ rest = ReadTasks(left) /\ others # <<>> /\ \A i \in DOMAIN others : RowFaults(others, rest, i) = {}
       /\ \A q \in DOMAIN rest : /\ IdentityFaults(others, rest, q) = {} /\ MetadataFaults(rest[q]) = {}
                                 /\ StatusFaults(rest[q]) = {}
                                 /\ DependencyFaults(rest, Recorded(others, recs2), q) = {}
       /\ ~HasCycle(rest) /\ OrderFaults(others, rest) \subseteq faults /\ TextFaults(left) = {}
  BY <1>4, <1>6, <1>9, <1>10, <1>14
<1>16. Findings(others, left, recs2) \subseteq faults
  BY ONLY <1>15, FindsAtMost
<1>. QED
  BY <1>10, <1>16
\* Every task the gate accepts stands under the capability it serves.
LEMMA AcceptedServes ==
  ASSUME Accepted, NEW i \in DOMAIN Tasks
  PROVE  Tasks[i].group \in CapabilityIds(registry) /\ Serves(Tasks[i]) = Tasks[i].group
<1>1. IdentityFaults(registry, Tasks, i) = {}
  BY FindsNothing DEF Accepted, Tasks
<1>2. Serves(Tasks[i]) \in CapabilityIds(registry) /\ Tasks[i].group = Serves(Tasks[i])
  BY ONLY <1>1, IdentityClean
<1>. QED
  BY <1>2

\* The order faults a finished task may uncover.
LEMMA FinishOrder ==
  ASSUME PlanTyped, Accepted, NEW rest, NEW others, NEW m, NEW k,
         IsFinish(registry, others, Tasks, rest, m, k)
  PROVE  OrderFaults(others, rest)
           \subseteq (IF \A s \in Sections : Together(Tasks, Lane(Tasks, s)) THEN {} ELSE {"groupOrder"})
<1>1. /\ OrderFaults(others, rest) \subseteq {"groupOrder", "optionalOrder"}
      /\ "groupOrder" \notin OrderFaults(others, rest) <=> \A s \in Sections : GroupsInOrder(others, rest, Lane(rest, s))
      /\ "optionalOrder" \notin OrderFaults(others, rest) <=> \A s \in Sections : OptionalLast(rest, Lane(rest, s))
  BY OrderClean
<1>2. \A s \in Sections : OptionalLast(rest, Lane(rest, s))
  BY AcceptedOrder, FinishOptional
<1>3. ASSUME \A s \in Sections : Together(Tasks, Lane(Tasks, s)), NEW s \in Sections
      PROVE  GroupsInOrder(others, rest, Lane(rest, s))
  <2>1. Lane(Tasks, s) \in SUBSET DOMAIN Tasks
    BY DEF Lane
  <2>2. LaneInOrder(registry, Tasks, Lane(Tasks, s))
    BY <1>3, <2>1, AcceptedOrder, AcceptedRanked DEF LaneInOrder
  <2>3. SameRows(registry, others) /\ \E n \in Nat : DOMAIN registry = 1..n
    <3>1. registry \in Seq(Rows) /\ others = Shipping(registry, Tasks[k].group, Alone(Tasks, k))
      BY DEF IsFinish
    <3>2. SameRows(registry, others)
      BY ONLY <3>1, ShippingRows
    <3>. QED
      BY <3>1, <3>2
  <2>4. \A g : Rank(others, g) = Rank(registry, g)
    BY <2>3, SameIds
  <2>. QED
    BY <2>2, <2>4, FinishGroups
<1>. QED
  BY <1>1, <1>2, <1>3

\* The step that finishes the next task of a lane.
LEMMA FinishStep ==
  ASSUME PlanTyped, FinishTask, NothingHidden(lines)
  PROVE  Findings(registry', lines', records')
           \subseteq (IF \A s \in Sections : Together(Tasks, Lane(Tasks, s)) THEN {} ELSE {"groupOrder"})
<1>1. Accepted /\ registry \in Seq(Rows) /\ lines \in Seq(PlanLines)
  BY DEF FinishTask, PlanTyped
<1>2. PICK k :
         /\ \E section \in Sections : Eligible(Tasks, section) # {} /\ k = NextTask(registry, Tasks, section)
         /\ lines' = WithoutTask(lines, Tasks[k].id)
         /\ records' = records \union {Tasks[k].group \o Tasks[k].id}
         /\ registry' = Shipping(registry, Tasks[k].group, Alone(Tasks, k))
  <2>1. PICK section \in Sections :
           /\ Eligible(Tasks, section) # {}
           /\ lines' = WithoutTask(lines, Tasks[NextTask(registry, Tasks, section)].id)
           /\ records' = records \union {Tasks[NextTask(registry, Tasks, section)].group
                                         \o Tasks[NextTask(registry, Tasks, section)].id}
           /\ registry' = Shipping(registry, Tasks[NextTask(registry, Tasks, section)].group,
                                   Alone(Tasks, NextTask(registry, Tasks, section)))
    BY DEF FinishTask, Shipping, Alone
  <2>. QED
    BY <2>1
<1>3. k \in DOMAIN Tasks
  BY <1>1, <1>2, NextIsEligible DEF Eligible, Lane
<1>4. ReadFrom(Tasks[k], lines, Len(lines))
  BY <1>1, <1>3, TasksRead DEF TasksFrom, Tasks
<1>5. PICK p \in 1..Len(lines) : lines[p].k = "task" /\ lines[p].v = Tasks[k].id
  BY <1>4 DEF ReadFrom
<1>6. PICK m, h : m \in Nat /\ Without(Tasks, ReadTasks(lines'), m, h, Tasks[k].id)
  BY <1>1, <1>2, <1>5, WithoutReads DEF Tasks
<1>7. m \in Nat /\ Listed(Tasks, m) /\ DOMAIN Tasks = 1..m /\ h \in 1..m
  BY <1>6, ListedIs DEF Without
<1>8. h = k
  <2>1. \A i \in DOMAIN Tasks : IdentityFaults(registry, Tasks, i) = {}
    BY <1>1, FindsNothing DEF Accepted, Tasks
  <2>2. OneEach(Tasks)
    BY <1>7, <2>1, IdsDiffer
  <2>. QED
    BY <1>3, <1>6, <1>7, <2>2 DEF OneEach, Without
<1>9. IsFinish(registry, registry', Tasks, ReadTasks(lines'), m, k)
  BY <1>1, <1>2, <1>6, <1>7, <1>8 DEF IsFinish, Without
<1>10. TextFaults(lines') = {}
  <2>1. TextFaults(lines) = {}
    BY <1>1, FindsNothing DEF Accepted
  <2>. QED
    BY <1>1, <1>2, <1>5, <2>1, FinishText
<1>11. \A i \in 1..m : Tasks[i].group \in CapabilityIds(registry) /\ Serves(Tasks[i]) = Tasks[i].group
  BY <1>1, <1>7, AcceptedServes
<1>12. PICK group, id : group = Tasks[k].group /\ id = Tasks[k].id
  OBVIOUS
<1>13. group \in Seq(ToSet(group))
  <2>1. PICK i \in DOMAIN registry : registry[i].id = group
    BY <1>3, <1>7, <1>11, <1>12 DEF CapabilityIds
  <2>2. registry[i] \in Rows
    BY <1>1, <2>1
  <2>. QED
    BY <2>1, <2>2, PlanAssumption DEF Rows
<1>14. id \in Seq(ToSet(id)) \ {<<>>}
  BY <1>1, <1>5, <1>12, PlanAssumption
<1>15. PICK S : S = ToSet(group) \union ToSet(id)
  OBVIOUS
<1>16. group \in Seq(S) /\ id \in Seq(S) \ {<<>>}
  BY <1>13, <1>14, <1>15
<1>17. PICK faults : faults = IF \A s \in Sections : Together(Tasks, Lane(Tasks, s)) THEN {} ELSE {"groupOrder"}
  OBVIOUS
<1>18. OrderFaults(registry', ReadTasks(lines')) \subseteq faults
  BY <1>1, <1>9, <1>17, FinishOrder
<1>19. Findings(registry, lines, records) = {} /\ Tasks = ReadTasks(lines)
  BY <1>1 DEF Accepted, Tasks
<1>20. Findings(registry', lines', records \union {group \o id}) \subseteq faults
  BY <1>9, <1>10, <1>11, <1>12, <1>16, <1>18, <1>19, FinishFinds
<1>. QED
  BY <1>2, <1>12, <1>17, <1>20

(* Finishing the task the summary names leaves a plan the gate accepts, but   *)
(* for the order of groups that return later in their lane, for any registry, *)
(* any plan and any history of edits (plan_model.py's reader, both documents  *)
(* and the records that plan_integrity.py compares).                          *)
THEOREM FinishedPlanAccepted == PlanSpec => FinishKeepsAccepted
<1>1. PlanInit => PlanTyped
  BY PlanAssumption DEF PlanInit, PlanTyped
<1>2. PlanTyped /\ [PlanNext]_planVars => PlanTyped'
  BY NextPlanTyped
<1>3. PlanTyped /\ [PlanNext]_planVars
      => [finished' # finished /\ NothingHidden(lines) =>
             Findings(registry', lines', records')
               \subseteq (IF \A s \in Sections : Together(Tasks, Lane(Tasks, s)) THEN {} ELSE {"groupOrder"})]_planVars
  <2>1. [PlanNext]_planVars /\ finished' # finished => FinishTask
    BY DEF PlanNext, planVars, EditPlan, EditRegistry
  <2>. QED
    BY <2>1, FinishStep
<1>. QED
  BY <1>1, <1>2, <1>3, PTL DEF PlanSpec, FinishKeepsAccepted
===============================================================================
