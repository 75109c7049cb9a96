------------------------------- MODULE TreeProofs -------------------------------
(***************************************************************************)
(* Theorems about the tree of suites and the page that shows it, for any   *)
(* number of suites, cases and requests.                                   *)
(***************************************************************************)
EXTENDS SuitesPage, FiniteSetTheorems, WellFoundedInduction, TLAPS

-------------------------------------------------------------------------------
\* Least elements

LEMMA LeastNat ==
  ASSUME NEW N \in SUBSET Nat, N # {}
  PROVE  \E n \in N : \A m \in N : n <= m
  <1>1. PICK n \in N : \A m \in N : ~(<<m, n>> \in OpToRel(<, Nat))
    BY NatLessThanWellFounded, WFMin
  <1>2. \A m \in N : ~(m < n)
    BY <1>1 DEF OpToRel
  <1>3. QED
    BY <1>2

\* Of some sets of suites, one that no other suite extends to another of them.
LEMMA Fullest ==
  ASSUME NEW B \in SUBSET (SUBSET Suites), B # {}
  PROVE  \E met \in B : \A s \in Suites \ met : met \cup {s} \notin B
  <1> DEFINE Rest(met) == Cardinality(Suites \ met)
             N == {Rest(met) : met \in B}
  <1>1. \A met \in SUBSET Suites : IsFiniteSet(Suites \ met) /\ Rest(met) \in Nat
    BY SuitesAssumption, FS_Difference, FS_CardinalityType
  <1>2. N \in SUBSET Nat /\ N # {}
    BY <1>1
  <1>3. PICK n \in N : \A m \in N : n <= m
    BY <1>2, LeastNat
  <1>4. PICK met \in B : n = Rest(met)
    OBVIOUS
  <1>5. ASSUME NEW s \in Suites \ met, met \cup {s} \in B PROVE FALSE
    <2>1. Suites \ (met \cup {s}) = (Suites \ met) \ {s}
      OBVIOUS
    <2>2. Rest(met \cup {s}) = Rest(met) - 1
      <3>1. IsFiniteSet(Suites \ met) /\ s \in Suites \ met
        BY <1>1
      <3>2. Cardinality((Suites \ met) \ {s}) = Cardinality(Suites \ met) - 1
        BY ONLY <3>1, FS_RemoveElement
      <3>3. QED
        BY <2>1, <3>2
    <2>3. n <= Rest(met \cup {s}) /\ Rest(met) \in Nat
      BY <1>1, <1>3, <1>5
    <2> HIDE DEF Rest
    <2>4. QED
      BY <1>4, <2>2, <2>3
  <1>6. QED
    BY <1>5

-------------------------------------------------------------------------------
\* ancestorChain

Edges == [Suites -> Suites \cup {Top}]

\* q goes up from s along the edges, by suites that are not in `met`, each once, as
\* long as it can.
IsClimb(edges, met, s, q) ==
  /\ q \in Seq(Suites)
  /\ Len(q) = 0 <=> s \in met
  /\ Len(q) # 0 => q[1] = s
  /\ \A i \in 1 .. Len(q) : q[i] \notin met
  /\ \A i, j \in 1 .. Len(q) : q[i] = q[j] => i = j
  /\ \A i \in 1 .. Len(q) :
       IF i < Len(q) THEN edges[q[i]] = q[i + 1]
       ELSE \/ edges[q[i]] = Top \/ edges[q[i]] \in met
            \/ \E k \in 1 .. Len(q) : edges[q[i]] = q[k]

LEMMA ClimbEnds ==
  ASSUME NEW edges \in Edges, NEW met \in SUBSET Suites, NEW s \in Suites
  PROVE  /\ s \in met => IsClimb(edges, met, s, <<>>)
         /\ s \notin met /\ edges[s] = Top => IsClimb(edges, met, s, <<s>>)
  BY DEF IsClimb

LEMMA ClimbGoesOn ==
  ASSUME NEW edges \in Edges, NEW met \in SUBSET Suites, NEW s \in Suites \ met,
         edges[s] # Top, NEW q, IsClimb(edges, met \cup {s}, edges[s], q)
  PROVE  IsClimb(edges, met, s, <<s>> \o q)
  <1> DEFINE p == <<s>> \o q
  <1>1. /\ p \in Seq(Suites) /\ Len(p) = Len(q) + 1 /\ Len(q) \in Nat
        /\ p[1] = s /\ \A i \in 1 .. Len(q) : p[i + 1] = q[i]
    BY DEF IsClimb
  <1> HIDE DEF p
  <1>2. \A i \in 1 .. Len(p) : i = 1 \/ (i - 1 \in 1 .. Len(q) /\ p[i] = q[i - 1])
    BY <1>1
  <1>3. \A i \in 1 .. Len(q) : q[i] \notin met /\ q[i] # s
    BY DEF IsClimb
  <1>4. \A i \in 1 .. Len(p) : p[i] \notin met
    BY <1>1, <1>2, <1>3
  <1>5. \A i, j \in 1 .. Len(p) : p[i] = p[j] => i = j
    <2>1. \A i, j \in 1 .. Len(q) : q[i] = q[j] => i = j
      BY DEF IsClimb
    <2>2. SUFFICES ASSUME NEW i \in 1 .. Len(p), NEW j \in 1 .. Len(p), p[i] = p[j]
                   PROVE  i = j
      OBVIOUS
    <2>3. \A k \in 1 .. Len(p) : k # 1 => k - 1 \in 1 .. Len(q) /\ p[k] = q[k - 1] /\ p[k] # s
      BY <1>2, <1>3
    <2>4. CASE i # 1 /\ j # 1
      <3>1. i - 1 = j - 1
        BY <2>1, <2>2, <2>3, <2>4
      <3>2. QED
        BY <3>1
    <2>5. CASE i = 1 \/ j = 1
      BY <1>1, <2>2, <2>3, <2>5
    <2>6. QED
      BY <2>4, <2>5
  <1>6. ASSUME NEW i \in 1 .. Len(p)
        PROVE  IF i < Len(p) THEN edges[p[i]] = p[i + 1]
               ELSE \/ edges[p[i]] = Top \/ edges[p[i]] \in met
                    \/ \E k \in 1 .. Len(p) : edges[p[i]] = p[k]
    <2>1. CASE i = 1 /\ Len(q) = 0
      <3>1. edges[s] \in met \cup {s}
        BY <2>1 DEF IsClimb
      <3>2. QED
        BY <1>1, <2>1, <3>1
    <2>2. CASE i = 1 /\ Len(q) # 0
      <3>1. q[1] = edges[s]
        BY <2>2 DEF IsClimb
      <3>2. QED
        BY <1>1, <2>2, <3>1
    <2>3. CASE i # 1
      <3>1. i - 1 \in 1 .. Len(q) /\ p[i] = q[i - 1]
        BY <1>2, <2>3
      <3>2. IF i - 1 < Len(q) THEN edges[q[i - 1]] = q[(i - 1) + 1]
            ELSE \/ edges[q[i - 1]] = Top \/ edges[q[i - 1]] \in met \cup {s}
                 \/ \E k \in 1 .. Len(q) : edges[q[i - 1]] = q[k]
        BY <3>1 DEF IsClimb
      <3>3. CASE i < Len(p)
        <4>1. i \in 1 .. Len(q) /\ edges[p[i]] = q[i]
          BY <1>1, <3>1, <3>2, <3>3
        <4>2. QED
          BY <1>1, <3>3, <4>1
      <3>4. CASE ~(i < Len(p))
        <4>1. \/ edges[p[i]] = Top \/ edges[p[i]] \in met \cup {s}
              \/ \E k \in 1 .. Len(q) : edges[p[i]] = q[k]
          BY <1>1, <3>1, <3>2, <3>4
        <4>2. ASSUME NEW k \in 1 .. Len(q), edges[p[i]] = q[k]
              PROVE  \E m \in 1 .. Len(p) : edges[p[i]] = p[m]
          <5>1. k + 1 \in 1 .. Len(p) /\ p[k + 1] = q[k]
            BY <1>1
          <5>2. QED
            BY <4>2, <5>1
        <4>3. 1 \in 1 .. Len(p) /\ p[1] = s
          BY <1>1
        <4>4. QED
          BY <3>4, <4>1, <4>2, <4>3
      <3>5. QED
        BY <3>3, <3>4
    <2>4. QED
      BY <2>1, <2>2, <2>3
  <1>7. IsClimb(edges, met, s, p)
    BY <1>1, <1>4, <1>5, <1>6 DEF IsClimb
  <1>8. QED
    BY <1>7 DEF p

LEMMA OneClimb ==
  ASSUME NEW edges \in Edges, NEW met \in SUBSET Suites, NEW s \in Suites,
         NEW p, IsClimb(edges, met, s, p), NEW q, IsClimb(edges, met, s, q)
  PROVE  p = q
  <1>1. p \in Seq(Suites) /\ q \in Seq(Suites) /\ Len(p) \in Nat /\ Len(q) \in Nat
    BY DEF IsClimb
  <1>2. ASSUME NEW i \in 1 .. Len(p), i \in 1 .. Len(q) PROVE p[i] = q[i]
    <2> DEFINE N == {k \in 1 .. Len(p) : k <= Len(q) /\ p[k] # q[k]}
    <2>1. SUFFICES ASSUME N # {} PROVE FALSE
      BY <1>1, <1>2
    <2>2. PICK k \in N : \A m \in N : k <= m
      <3>1. N \in SUBSET Nat
        BY <1>1
      <3> HIDE DEF N
      <3>2. QED
        BY <2>1, <3>1, LeastNat
    <2>3. k # 1
      BY <1>1 DEF IsClimb
    <2>4. k - 1 \in 1 .. Len(p) /\ k - 1 < Len(p) /\ k - 1 < Len(q) /\ k - 1 \in 1 .. Len(q)
      BY <1>1, <2>3
    <2>5. p[k - 1] = q[k - 1]
      BY <2>2, <2>4
    <2>6. edges[p[k - 1]] = p[(k - 1) + 1] /\ edges[q[k - 1]] = q[(k - 1) + 1]
      BY <2>4 DEF IsClimb
    <2>7. QED
      BY <2>4, <2>5, <2>6
  <1>3. ASSUME NEW a, IsClimb(edges, met, s, a), NEW b, IsClimb(edges, met, s, b),
               Len(a) < Len(b), \A i \in 1 .. Len(a) : a[i] = b[i]
        PROVE  FALSE
    <2>1. Len(a) \in Nat /\ Len(b) \in Nat /\ b \in Seq(Suites)
      BY <1>3 DEF IsClimb
    <2>2. Len(a) # 0
      BY <1>3, <2>1 DEF IsClimb
    <2> DEFINE n == Len(a)
    <2>3. n \in 1 .. Len(a) /\ n \in 1 .. Len(b) /\ n + 1 \in 1 .. Len(b)
      BY <1>3, <2>1, <2>2
    <2>4. \/ edges[a[n]] = Top \/ edges[a[n]] \in met
          \/ \E k \in 1 .. n : edges[a[n]] = a[k]
      BY <1>3, <2>3 DEF IsClimb
    <2>5. edges[b[n]] = b[n + 1]
      BY <1>3, <2>3 DEF IsClimb
    <2>6. b[n + 1] \notin met /\ b[n + 1] # Top
      BY <1>3, <2>1, <2>3, TreeAssumption DEF IsClimb
    <2>7. \A k \in 1 .. n : b[k] # b[n + 1]
      BY <1>3, <2>1, <2>3 DEF IsClimb
    <2>8. QED
      BY <1>3, <2>3, <2>4, <2>5, <2>6, <2>7
  <1>4. Len(p) = Len(q)
    BY <1>1, <1>2, <1>3
  <1>5. QED
    BY <1>1, <1>2, <1>4

\* What ancestorChain defines recursively.
Climbs(edges, f) ==
  f = [met \in SUBSET Suites |->
         [s \in Suites |->
            IF s \in met THEN <<>>
            ELSE <<s>> \o IF edges[s] = Top THEN <<>>
                          ELSE f[met \cup {s}][edges[s]]]]

LEMMA EachHasClimb ==
  ASSUME NEW edges \in Edges, NEW met \in SUBSET Suites, NEW s \in Suites
  PROVE  \E q : IsClimb(edges, met, s, q)
  <1> DEFINE B == {x \in SUBSET Suites : \E r \in Suites : ~\E q : IsClimb(edges, x, r, q)}
  <1>1. SUFFICES ASSUME B # {} PROVE FALSE
    OBVIOUS
  <1>2. PICK x \in B : \A r \in Suites \ x : x \cup {r} \notin B
    <2>1. B \in SUBSET (SUBSET Suites)
      OBVIOUS
    <2> HIDE DEF B
    <2>2. QED
      BY <1>1, <2>1, Fullest
  <1>3. PICK r \in Suites : ~\E q : IsClimb(edges, x, r, q)
    OBVIOUS
  <1>4. r \notin x /\ edges[r] # Top
    BY <1>3, ClimbEnds
  <1>5. edges[r] \in Suites
    BY <1>4 DEF Edges
  <1>6. x \cup {r} \notin B /\ x \cup {r} \in SUBSET Suites
    BY <1>2, <1>4
  <1>7. PICK q : IsClimb(edges, x \cup {r}, edges[r], q)
    BY <1>5, <1>6
  <1>8. IsClimb(edges, x, r, <<r>> \o q)
    BY <1>4, <1>7, ClimbGoesOn
  <1>9. QED
    BY <1>3, <1>8

LEMMA ClimbsExist ==
  ASSUME NEW edges \in Edges
  PROVE  \E f : Climbs(edges, f)
  <1> DEFINE C(met, s) == CHOOSE q : IsClimb(edges, met, s, q)
             f == [met \in SUBSET Suites |-> [s \in Suites |-> C(met, s)]]
  <1>1. ASSUME NEW met \in SUBSET Suites, NEW s \in Suites
        PROVE  IsClimb(edges, met, s, C(met, s))
    BY EachHasClimb
  <1> HIDE DEF C
  <1>2. ASSUME NEW met \in SUBSET Suites, NEW s \in Suites
        PROVE  C(met, s) = IF s \in met THEN <<>>
                 ELSE <<s>> \o IF edges[s] = Top THEN <<>> ELSE f[met \cup {s}][edges[s]]
    <2>1. CASE s \in met
      <3>1. IsClimb(edges, met, s, C(met, s)) /\ IsClimb(edges, met, s, <<>>)
        BY <1>1, <2>1, ClimbEnds
      <3>2. C(met, s) = <<>>
        BY ONLY <3>1, OneClimb, edges \in Edges, met \in SUBSET Suites, s \in Suites
      <3>3. QED
        BY <2>1, <3>2
    <2>2. CASE s \notin met /\ edges[s] = Top
      <3>0. IsClimb(edges, met, s, C(met, s)) /\ IsClimb(edges, met, s, <<s>>)
        BY <1>1, <2>2, ClimbEnds
      <3>1. C(met, s) = <<s>>
        BY ONLY <3>0, OneClimb, edges \in Edges, met \in SUBSET Suites, s \in Suites
      <3>2. <<s>> \o <<>> = <<s>>
        OBVIOUS
      <3>3. QED
        BY <2>2, <3>1, <3>2
    <2>3. CASE s \notin met /\ edges[s] # Top
      <3>1. edges[s] \in Suites /\ met \cup {s} \in SUBSET Suites
        BY <2>3 DEF Edges
      <3>2. IsClimb(edges, met, s, <<s>> \o C(met \cup {s}, edges[s]))
        BY <1>1, <2>3, <3>1, ClimbGoesOn
      <3>3. C(met, s) = <<s>> \o C(met \cup {s}, edges[s])
        BY <1>1, <3>2, OneClimb
      <3>4. f[met \cup {s}][edges[s]] = C(met \cup {s}, edges[s])
        BY <3>1
      <3>5. QED
        BY <2>3, <3>3, <3>4
    <2>4. QED
      BY <2>1, <2>2, <2>3
  <1>3. Climbs(edges, f)
    <2> DEFINE g == [met \in SUBSET Suites |-> [s \in Suites |->
                 IF s \in met THEN <<>>
                 ELSE <<s>> \o IF edges[s] = Top THEN <<>>
                               ELSE f[met \cup {s}][edges[s]]]]
    <2>1. \A met \in SUBSET Suites : f[met] = g[met]
      BY <1>2
    <2>2. f = g
      BY <2>1
    <2>3. QED
      BY <2>2 DEF Climbs
  <1>4. QED
    BY <1>3

LEMMA ClimbsClimb ==
  ASSUME NEW edges \in Edges, NEW f, Climbs(edges, f), NEW met \in SUBSET Suites,
         NEW s \in Suites
  PROVE  IsClimb(edges, met, s, f[met][s])
  <1> DEFINE B == {x \in SUBSET Suites : \E r \in Suites : ~IsClimb(edges, x, r, f[x][r])}
  <1>1. SUFFICES ASSUME B # {} PROVE FALSE
    OBVIOUS
  <1>2. PICK x \in B : \A r \in Suites \ x : x \cup {r} \notin B
    <2>1. B \in SUBSET (SUBSET Suites)
      OBVIOUS
    <2> HIDE DEF B
    <2>2. QED
      BY <1>1, <2>1, Fullest
  <1>3. PICK r \in Suites : ~IsClimb(edges, x, r, f[x][r])
    OBVIOUS
  <1>4. f[x][r] = IF r \in x THEN <<>>
                  ELSE <<r>> \o IF edges[r] = Top THEN <<>> ELSE f[x \cup {r}][edges[r]]
    <2> DEFINE G(y) == [t \in Suites |->
                          IF t \in y THEN <<>>
                          ELSE <<t>> \o IF edges[t] = Top THEN <<>> ELSE f[y \cup {t}][edges[t]]]
    <2>1. f = [y \in SUBSET Suites |-> G(y)]
      BY DEF Climbs
    <2>2. x \in SUBSET Suites
      BY <1>2
    <2>3. f[x] = G(x)
      <3> HIDE DEF G
      <3>1. QED
        BY ONLY <2>1, <2>2
    <2>4. f[x][r] = G(x)[r]
      BY ONLY <2>3
    <2>5. QED
      BY <2>4
  <1>5. <<r>> \o <<>> = <<r>>
    OBVIOUS
  <1>6. r \notin x /\ edges[r] # Top
    BY <1>3, <1>4, <1>5, ClimbEnds
  <1>7. edges[r] \in Suites /\ x \cup {r} \notin B /\ x \cup {r} \in SUBSET Suites
    BY <1>2, <1>6 DEF Edges
  <1>8. IsClimb(edges, x \cup {r}, edges[r], f[x \cup {r}][edges[r]])
    BY <1>7
  <1>9. IsClimb(edges, x, r, <<r>> \o f[x \cup {r}][edges[r]])
    BY <1>6, <1>8, ClimbGoesOn
  <1>10. QED
    BY <1>3, <1>4, <1>6, <1>9

\* The recursion of ancestorChain is well defined, whatever cycles the edges have, and
\* climbs as far as it can.
LEMMA AncestorChainClimbs ==
  ASSUME NEW edges \in Edges, NEW s \in Suites
  PROVE  IsClimb(edges, {}, s, ancestorChain(edges, s))
  <1> DEFINE f == CHOOSE g : Climbs(edges, g)
  <1>1. Climbs(edges, f)
    BY ClimbsExist
  <1>2. ancestorChain(edges, s) = f[{}][s]
    BY DEF ancestorChain, Climbs
  <1> HIDE DEF f
  <1>3. QED
    BY <1>1, <1>2, ClimbsClimb

Closed(edges, T) == \A x \in T \cap Suites : edges[x] # Top => edges[x] \in T

\* Chain is the least set with s that the edges do not leave, and the length of
\* ancestorChain is its size: nothing else is needed of the recursion.
LEMMA ChainIsLeast ==
  ASSUME NEW edges \in Edges, NEW s \in Suites
  PROVE  /\ s \in Chain(edges, s) /\ Chain(edges, s) \subseteq Suites
         /\ Closed(edges, Chain(edges, s))
         /\ \A T : s \in T /\ Closed(edges, T) => Chain(edges, s) \subseteq T
         /\ Len(ancestorChain(edges, s)) = Cardinality(Chain(edges, s))
         /\ IsFiniteSet(Chain(edges, s))
  <1> DEFINE q == ancestorChain(edges, s)
             n == Len(q)
             C == Chain(edges, s)
  <1>1. IsClimb(edges, {}, s, q) /\ C = {q[i] : i \in 1 .. n}
    BY AncestorChainClimbs DEF Chain
  <1> HIDE DEF q, C
  <1>2. q \in Seq(Suites) /\ n \in Nat /\ n # 0 /\ q[1] = s /\ 1 \in 1 .. n
    BY <1>1 DEF IsClimb
  <1>3. s \in C /\ C \subseteq Suites
    BY <1>1, <1>2
  <1>4. Closed(edges, C)
    <2>1. SUFFICES ASSUME NEW i \in 1 .. n, edges[q[i]] # Top PROVE edges[q[i]] \in C
      BY <1>1 DEF Closed
    <2>2. IF i < n THEN edges[q[i]] = q[i + 1]
          ELSE \E k \in 1 .. n : edges[q[i]] = q[k]
      BY <1>1, <2>1 DEF IsClimb
    <2>3. i < n => i + 1 \in 1 .. n
      BY <1>2
    <2>4. QED
      BY <1>1, <2>2, <2>3
  <1>5. ASSUME NEW T, s \in T, Closed(edges, T) PROVE C \subseteq T
    <2> DEFINE N == {i \in 1 .. n : q[i] \notin T}
    <2>1. SUFFICES ASSUME N # {} PROVE FALSE
      BY <1>1
    <2>2. PICK i \in N : \A m \in N : i <= m
      <3>1. N \in SUBSET Nat
        BY <1>2
      <3> HIDE DEF N
      <3>2. QED
        BY <2>1, <3>1, LeastNat
    <2>3. i - 1 \in 1 .. n /\ i - 1 < n /\ i - 1 \notin N /\ (i - 1) + 1 = i
      BY <1>2, <1>5, <2>2
    <2>4. q[i - 1] \in T /\ q[i - 1] \in Suites /\ edges[q[i - 1]] = q[(i - 1) + 1]
      BY <1>1, <1>2, <2>3 DEF IsClimb
    <2>5. q[i] \in Suites /\ q[i] # Top
      BY <1>2, TreeAssumption
    <2>6. QED
      BY <1>5, <2>3, <2>4, <2>5 DEF Closed
  <1>6. n = Cardinality(C) /\ IsFiniteSet(C)
    <2>1. q \in Bijection(1 .. n, C)
      <3>1. q \in [1 .. n -> C] /\ \A i, j \in 1 .. n : q[i] = q[j] => i = j
        BY <1>1, <1>2 DEF IsClimb
      <3>2. QED
        BY <1>1, <3>1 DEF Bijection, Injection, Surjection, IsInjective
    <2>2. IsFiniteSet(1 .. n) /\ Cardinality(1 .. n) = n
      BY <1>2, FS_Interval
    <2>3. ExistsBijection(1 .. n, C)
      BY <2>1 DEF ExistsBijection
    <2>4. QED
      BY <2>2, <2>3, FS_Bijection
  <1>7. QED
    BY <1>3, <1>4, <1>5, <1>6 DEF q, C

-------------------------------------------------------------------------------
\* Chains

LEMMA ChainOfMember ==
  ASSUME NEW edges \in Edges, NEW s \in Suites, NEW x \in Chain(edges, s)
  PROVE  Chain(edges, x) \subseteq Chain(edges, s)
  <1>1. x \in Suites /\ Closed(edges, Chain(edges, s))
    BY ChainIsLeast
  <1>2. QED
    BY <1>1, ChainIsLeast

LEMMA ChainOfRoot ==
  ASSUME NEW edges \in Edges, NEW s \in Suites, edges[s] = Top
  PROVE  Chain(edges, s) = {s} /\ Cardinality(Chain(edges, s)) = 1
  <1>1. Closed(edges, {s})
    BY DEF Closed
  <1>2. Chain(edges, s) = {s}
    BY <1>1, ChainIsLeast
  <1>3. QED
    BY <1>2, FS_Singleton

LEMMA ChainOfParent ==
  ASSUME NEW edges \in Edges, NEW s \in Suites, edges[s] # Top
  PROVE  /\ edges[s] \in Suites /\ edges[s] \in Chain(edges, s)
         /\ Chain(edges, s) = {s} \cup Chain(edges, edges[s])
  <1>1. edges[s] \in Suites
    BY DEF Edges
  <1>2. s \in Chain(edges, s) /\ edges[s] \in Chain(edges, s)
    BY ChainIsLeast DEF Closed
  <1>3. Chain(edges, edges[s]) \subseteq Chain(edges, s)
    BY <1>2, ChainOfMember
  <1>4. Closed(edges, {s} \cup Chain(edges, edges[s]))
    <2>1. edges[s] \in Chain(edges, edges[s]) /\ Closed(edges, Chain(edges, edges[s]))
      BY <1>1, ChainIsLeast
    <2>2. QED
      BY <2>1 DEF Closed
  <1>5. Chain(edges, s) \subseteq {s} \cup Chain(edges, edges[s])
    BY <1>4, ChainIsLeast
  <1>6. QED
    BY <1>1, <1>2, <1>3, <1>5

\* Edges that are not on a chain do not matter to it.
LEMMA ChainAgrees ==
  ASSUME NEW edges \in Edges, NEW other \in Edges, NEW s \in Suites,
         \A x \in Chain(edges, s) : other[x] = edges[x]
  PROVE  Chain(other, s) = Chain(edges, s)
  <1>1. Chain(other, s) \subseteq Chain(edges, s)
    <2>1. s \in Chain(edges, s) /\ Closed(other, Chain(edges, s))
      BY ChainIsLeast DEF Closed
    <2>2. QED
      BY <2>1, ChainIsLeast
  <1>2. Chain(edges, s) \subseteq Chain(other, s)
    <2>1. s \in Chain(other, s) /\ Closed(other, Chain(other, s))
      BY ChainIsLeast
    <2>2. Closed(edges, Chain(other, s))
      BY <1>1, <2>1 DEF Closed
    <2>3. QED
      BY <2>1, <2>2, ChainIsLeast
  <1>3. QED
    BY <1>1, <1>2

\* One can go up from s to the top.
Rooted(edges, s) == \E x \in Chain(edges, s) : edges[x] = Top

\* Then s is not on a cycle.
LEMMA RootedLeaves ==
  ASSUME NEW edges \in Edges, NEW s \in Suites, Rooted(edges, s), edges[s] # Top
  PROVE  s \notin Chain(edges, edges[s])
  <1>1. SUFFICES ASSUME s \in Chain(edges, edges[s]) PROVE FALSE
    OBVIOUS
  <1>2. PICK y \in Chain(edges, s) : edges[y] = Top
    BY DEF Rooted
  <1> DEFINE T == {x \in Suites : s \in Chain(edges, x)}
  <1>3. Closed(edges, T)
    <2>1. SUFFICES ASSUME NEW x \in Suites, s \in Chain(edges, x), edges[x] # Top
                   PROVE  edges[x] \in Suites /\ s \in Chain(edges, edges[x])
      BY DEF Closed
    <2>2. edges[x] \in Suites /\ Chain(edges, x) = {x} \cup Chain(edges, edges[x])
      BY <2>1, ChainOfParent
    <2>3. QED
      BY <1>1, <2>1, <2>2
  <1>4. s \in T
    BY ChainIsLeast
  <1>5. y \in T
    BY <1>3, <1>4, ChainIsLeast
  <1>6. Chain(edges, y) = {y}
    BY <1>2, <1>5, ChainOfRoot
  <1>7. QED
    BY <1>2, <1>5, <1>6

LEMMA RootedAbove ==
  ASSUME NEW edges \in Edges, NEW s \in Suites, edges[s] # Top
  PROVE  /\ Rooted(edges, s) <=> Rooted(edges, edges[s])
         /\ Rooted(edges, s) =>
              Cardinality(Chain(edges, s)) = Cardinality(Chain(edges, edges[s])) + 1
  <1>1. edges[s] \in Suites /\ Chain(edges, s) = {s} \cup Chain(edges, edges[s])
    BY ChainOfParent
  <1>2. Rooted(edges, s) <=> Rooted(edges, edges[s])
    BY <1>1 DEF Rooted
  <1>3. ASSUME Rooted(edges, s)
        PROVE  Cardinality(Chain(edges, s)) = Cardinality(Chain(edges, edges[s])) + 1
    <2>1. s \notin Chain(edges, edges[s]) /\ IsFiniteSet(Chain(edges, edges[s]))
      BY <1>1, <1>3, RootedLeaves, ChainIsLeast
    <2>2. Cardinality(Chain(edges, edges[s]) \cup {s}) = Cardinality(Chain(edges, edges[s])) + 1
      BY ONLY <2>1, FS_AddElement
    <2>3. Chain(edges, s) = Chain(edges, edges[s]) \cup {s}
      BY <1>1
    <2>4. QED
      BY <2>2, <2>3
  <1>4. QED
    BY <1>2, <1>3

LEMMA ChainSize ==
  ASSUME NEW edges \in Edges, NEW s \in Suites
  PROVE  Cardinality(Chain(edges, s)) \in 1 .. Cardinality(Suites)
  <1>1. s \in Chain(edges, s) /\ Chain(edges, s) \subseteq Suites
    BY ChainIsLeast
  <1>2. /\ IsFiniteSet(Chain(edges, s)) /\ Cardinality(Suites) \in Nat
        /\ Cardinality(Chain(edges, s)) \in Nat
        /\ Cardinality(Chain(edges, s)) <= Cardinality(Suites)
    BY <1>1, SuitesAssumption, ChainIsLeast, FS_Subset, FS_CardinalityType
  <1>3. Cardinality(Chain(edges, s)) # 0
    BY <1>1, <1>2, FS_EmptySet
  <1>4. QED
    BY <1>2, <1>3

-------------------------------------------------------------------------------
\* Shown

\* A suite of level n has n suites above it, up to the top.
OnLevel(n) == {s \in suites : Rooted(parent, s) /\ Cardinality(Chain(parent, s)) = n + 1}

Levels(g) ==
  g = [n \in Nat |-> IF n = 0 THEN Children(Top) ELSE UNION {Children(s) : s \in g[n - 1]}]

RowsAreEdges ==
  /\ suites \subseteq Suites /\ parent \in Edges
  /\ \A s \in suites : parent[s] \in suites \cup {Top}

LEMMA FirstLevel ==
  ASSUME RowsAreEdges
  PROVE  OnLevel(0) = Children(Top)
  <1>1. ASSUME NEW s \in suites
        PROVE  Rooted(parent, s) /\ Cardinality(Chain(parent, s)) = 0 + 1 <=> parent[s] = Top
    <2>1. s \in Suites /\ parent \in Edges
      BY DEF RowsAreEdges
    <2>2. CASE parent[s] = Top
      BY <2>1, <2>2, ChainOfRoot DEF Rooted
    <2>3. CASE parent[s] # Top
      <3>1. parent[s] \in Suites
        BY <2>1, <2>3, ChainOfParent
      <3>2. Cardinality(Chain(parent, parent[s])) \in 1 .. Cardinality(Suites)
        BY <2>1, <3>1, ChainSize
      <3>3. Rooted(parent, s) =>
              Cardinality(Chain(parent, s)) = Cardinality(Chain(parent, parent[s])) + 1
        BY <2>1, <2>3, RootedAbove
      <3>4. Cardinality(Suites) \in Nat
        BY SuitesAssumption, FS_CardinalityType
      <3>5. QED
        BY <2>3, <3>2, <3>3, <3>4
    <2>4. QED
      BY <2>2, <2>3
  <1>2. QED
    BY <1>1 DEF OnLevel, Children

LEMMA NextLevel ==
  ASSUME RowsAreEdges, NEW n \in Nat \ {0}
  PROVE  OnLevel(n) = UNION {Children(s) : s \in OnLevel(n - 1)}
  <1>1. ASSUME NEW k \in suites
        PROVE  k \in OnLevel(n) <=> parent[k] \in OnLevel(n - 1)
    <2>1. k \in Suites /\ parent \in Edges /\ parent[k] \in suites \cup {Top}
      BY DEF RowsAreEdges
    <2>2. CASE parent[k] = Top
      <3>1. Cardinality(Chain(parent, k)) = 1
        BY <2>1, <2>2, ChainOfRoot
      <3>2. k \notin OnLevel(n) /\ Top \notin suites
        BY <3>1, TreeAssumption DEF OnLevel, RowsAreEdges
      <3>3. QED
        BY <2>2, <3>2 DEF OnLevel
    <2>3. CASE parent[k] # Top
      <3>1. parent[k] \in Suites
        BY <2>1, <2>3, ChainOfParent
      <3>2. Cardinality(Chain(parent, parent[k])) \in Nat
        BY <2>1, <3>1, ChainIsLeast, FS_CardinalityType
      <3>3. /\ Rooted(parent, k) <=> Rooted(parent, parent[k])
            /\ Rooted(parent, k) =>
                 Cardinality(Chain(parent, k)) = Cardinality(Chain(parent, parent[k])) + 1
        BY <2>1, <2>3, RootedAbove
      <3>4. Rooted(parent, k) => (Cardinality(Chain(parent, k)) = n + 1 <=>
                                  Cardinality(Chain(parent, parent[k])) = (n - 1) + 1)
        BY <3>2, <3>3
      <3>5. QED
        BY <2>1, <2>3, <3>3, <3>4 DEF OnLevel
    <2>4. QED
      BY <2>2, <2>3
  <1>2. OnLevel(n) \subseteq suites /\ OnLevel(n - 1) \subseteq suites
    BY DEF OnLevel
  <1>3. \A k : k \in UNION {Children(s) : s \in OnLevel(n - 1)} <=>
               k \in suites /\ parent[k] \in OnLevel(n - 1)
    BY DEF Children
  <1>4. QED
    BY <1>1, <1>2, <1>3

LEMMA LevelsExist ==
  ASSUME RowsAreEdges
  PROVE  Levels([n \in Nat |-> OnLevel(n)])
  <1> DEFINE g == [n \in Nat |-> OnLevel(n)]
             h == [n \in Nat |-> IF n = 0 THEN Children(Top)
                                 ELSE UNION {Children(s) : s \in g[n - 1]}]
  <1>1. ASSUME NEW n \in Nat PROVE g[n] = h[n]
    <2>1. CASE n = 0
      BY <2>1, FirstLevel
    <2>2. CASE n # 0
      <3>1. n - 1 \in Nat /\ g[n - 1] = OnLevel(n - 1)
        BY <2>2
      <3>2. h[n] = UNION {Children(s) : s \in g[n - 1]}
        BY <2>2
      <3> HIDE DEF h
      <3>3. QED
        BY <2>2, <3>1, <3>2, NextLevel
    <2>3. QED
      BY <2>1, <2>2
  <1>2. g = h
    BY <1>1
  <1>3. QED
    BY <1>2 DEF Levels

LEMMA LevelsAreOne ==
  ASSUME RowsAreEdges, NEW g, Levels(g), NEW n \in Nat
  PROVE  g[n] = OnLevel(n)
  <1> DEFINE N == {m \in Nat : g[m] # OnLevel(m)}
  <1>1. SUFFICES ASSUME N # {} PROVE FALSE
    OBVIOUS
  <1>2. PICK m \in N : \A k \in N : m <= k
    <2>1. N \in SUBSET Nat
      OBVIOUS
    <2> HIDE DEF N
    <2>2. QED
      BY <1>1, <2>1, LeastNat
  <1>3. g[m] = IF m = 0 THEN Children(Top) ELSE UNION {Children(s) : s \in g[m - 1]}
    BY DEF Levels
  <1>4. m # 0
    BY <1>2, <1>3, FirstLevel
  <1>5. m - 1 \in Nat /\ g[m - 1] = OnLevel(m - 1)
    BY <1>2, <1>4
  <1>6. OnLevel(m) = UNION {Children(s) : s \in OnLevel(m - 1)}
    BY <1>4, NextLevel
  <1>7. QED
    BY <1>2, <1>3, <1>4, <1>5, <1>6

\* The assembled tree shows the suites from which one can go up to the top.
LEMMA ShownIsRooted ==
  ASSUME RowsAreEdges
  PROVE  Shown = {s \in suites : Rooted(parent, s)}
  <1> DEFINE g == CHOOSE f : Levels(f)
             M == Cardinality(Suites)
  <1>1. Levels(g)
    BY LevelsExist
  <1>2. Shown = UNION {g[n] : n \in 0 .. M}
    BY DEF Shown, Levels
  <1> HIDE DEF g
  <1>3. M \in Nat
    BY SuitesAssumption, FS_CardinalityType
  <1>4. \A n \in 0 .. M : g[n] = OnLevel(n)
    BY <1>1, <1>3, LevelsAreOne
  <1>5. ASSUME NEW s \in suites, Rooted(parent, s)
        PROVE  \E n \in 0 .. M : s \in OnLevel(n)
    <2>1. Cardinality(Chain(parent, s)) \in 1 .. M
      BY ChainSize DEF RowsAreEdges
    <2> DEFINE n == Cardinality(Chain(parent, s)) - 1
    <2>2. n \in 0 .. M /\ Cardinality(Chain(parent, s)) = n + 1
      BY <1>3, <2>1
    <2>3. s \in OnLevel(n)
      BY <1>5, <2>2 DEF OnLevel
    <2>4. QED
      BY <2>2, <2>3
  <1>6. \A n \in 0 .. M : OnLevel(n) \subseteq {s \in suites : Rooted(parent, s)}
    BY DEF OnLevel
  <1>7. QED
    BY <1>2, <1>4, <1>5, <1>6

-------------------------------------------------------------------------------
\* Types

\* Only the requests change.
Quiet == UNCHANGED <<tree, outdated, raced, branchMoved>>

Sent == [phase : Phases, job : Jobs]

LEMMA SentIs ==
  ASSUME TypeOK, NEW r \in Reqs, req[r].phase \in Phases
  PROVE  req[r] \in Sent /\ req[r].job \in Jobs
  BY DEF TypeOK, Sent, Phases, Unsent, Done

LEMMA JobParts ==
  ASSUME NEW job \in Jobs
  PROVE  /\ job.op = "createSuite" => job.parent \in Suites \cup {Top} /\ "parent" \in DOMAIN job
         /\ job.op = "updateSuite" => /\ job.suite \in Suites /\ "suite" \in DOMAIN job
                                      /\ job.parent \in Suites \cup {Top, Same}
                                      /\ "parent" \in DOMAIN job
         /\ job.op = "removeSuite" => job.suite \in Suites /\ "suite" \in DOMAIN job
         /\ job.op = "createCase" => job.suite \in Suites /\ "suite" \in DOMAIN job
         /\ job.op = "updateCase" => /\ job.case \in Cases /\ "case" \in DOMAIN job
                                     /\ job.suite \in Suites \cup {Same}
                                     /\ "suite" \in DOMAIN job
         /\ job.op = "removeCase" => job.case \in Cases /\ "case" \in DOMAIN job
  BY DEF Jobs

LEMMA LogAdds ==
  ASSUME NEW CONSTANT action, NEW target, Log(action, target), NEW CONSTANT a
  PROVE  Logged(a)' = IF a = action THEN Logged(a) \cup {target} ELSE Logged(a)
  <1> DEFINE e == [action |-> action, target |-> target]
  <1>1. audit' = audit \cup {e} /\ e.action = action /\ e.target = target
    BY DEF Log
  <1>2. Logged(a)' = {x.target : x \in {f \in audit' : f.action = a}}
    BY DEF Logged
  <1> HIDE DEF e
  <1>3. CASE a = action
    <2>1. {f \in audit' : f.action = a} = {f \in audit : f.action = a} \cup {e}
      BY <1>1, <1>3
    <2>2. QED
      BY <1>1, <1>2, <1>3, <2>1 DEF Logged
  <1>4. CASE a # action
    <2>1. {f \in audit' : f.action = a} = {f \in audit : f.action = a}
      BY <1>1, <1>4
    <2>2. QED
      BY <1>2, <1>4, <2>1 DEF Logged
  <1>5. QED
    BY <1>3, <1>4

LEMMA MadeTypes ==
  ASSUME TypeOK
  PROVE  /\ MadeSuites \subseteq Suites /\ MadeCases \subseteq Cases
         /\ RowsAreEdges /\ cases \subseteq Cases
  <1>1. MadeSuites \subseteq Suites /\ MadeCases \subseteq Cases
    BY DEF TypeOK, Records, MadeSuites, MadeCases, Logged
  <1>2. QED
    BY <1>1 DEF TypeOK, RowsAreEdges, Edges

\* What the delete of s takes along: s, and each suite together with those in it.
LEMMA CascadeIsBelow ==
  ASSUME TypeOK, NEW s \in suites
  PROVE  /\ s \in Cascade(s) /\ Cascade(s) \subseteq suites
         /\ \A k \in suites : parent[k] \in Cascade(s) => k \in Cascade(s)
         /\ \A k \in Cascade(s) \ {s} : parent[k] \in Cascade(s)
  <1>1. RowsAreEdges
    BY MadeTypes
  <1>2. s \in Suites /\ s \in Chain(parent, s) /\ Top \notin suites
    BY <1>1, ChainIsLeast, TreeAssumption DEF RowsAreEdges
  <1>3. ASSUME NEW k \in suites, parent[k] # Top
        PROVE  parent[k] \in suites /\ Chain(parent, k) = {k} \cup Chain(parent, parent[k])
    <2>1. k \in Suites /\ parent \in Edges
      BY <1>1 DEF RowsAreEdges
    <2>2. QED
      BY <1>1, <1>3, <2>1, ChainOfParent DEF RowsAreEdges
  <1>4. ASSUME NEW k \in suites, parent[k] = Top PROVE Chain(parent, k) = {k}
    <2>1. k \in Suites /\ parent \in Edges
      BY <1>1 DEF RowsAreEdges
    <2>2. QED
      BY <1>4, <2>1, ChainOfRoot
  <1>5. QED
    BY <1>2, <1>3, <1>4 DEF Cascade

\* A request starts, goes on to its next statement, or is over.
LEMMA RequestSteps ==
  ASSUME TypeOK, [Next]_vars
  PROVE  \/ UNCHANGED vars
         \/ \E r \in Reqs, job \in Jobs : Receive(r, job)
         \/ \E r \in Reqs : /\ req[r].phase \in Phases
                            /\ \/ Refuse(r)
                               \/ \E phase \in Phases : Pass(r, phase)
                               \/ Finish(r) /\ (\/ CreateSuite(r) \/ UpdateSuite(r)
                                                \/ RemoveSuite(r) \/ CreateCase(r)
                                                \/ UpdateCase(r) \/ RemoveCase(r))
  <1>1. SUFFICES ASSUME NEW r \in Reqs, Serve(r)
                 PROVE  /\ req[r].phase \in Phases
                        /\ \/ Refuse(r)
                           \/ \E phase \in Phases : Pass(r, phase)
                           \/ Finish(r) /\ (\/ CreateSuite(r) \/ UpdateSuite(r)
                                            \/ RemoveSuite(r) \/ CreateCase(r)
                                            \/ UpdateCase(r) \/ RemoveCase(r))
    BY DEF Next
  <1> USE DEF Phases, At
  <1>2. CASE JudgeNew(r) \/ FindSuite(r) \/ JudgeMove(r) \/ FindRemoved(r)
    BY <1>2 DEF JudgeNew, FindSuite, JudgeMove, FindRemoved
  <1>3. CASE FindForCase(r) \/ JudgeCaseSuite(r)
    BY <1>3 DEF FindForCase, JudgeCaseSuite
  <1>4. CASE CreateSuite(r)
    BY <1>4 DEF CreateSuite
  <1>5. CASE UpdateSuite(r)
    BY <1>5 DEF UpdateSuite
  <1>6. CASE RemoveSuite(r)
    BY <1>6 DEF RemoveSuite
  <1>7. CASE CreateCase(r)
    BY <1>7 DEF CreateCase, WriteCase
  <1>8. CASE UpdateCase(r)
    BY <1>8 DEF UpdateCase, WriteCase
  <1>9. CASE RemoveCase(r)
    BY <1>9 DEF RemoveCase
  <1>10. QED
    BY <1>1, <1>2, <1>3, <1>4, <1>5, <1>6, <1>7, <1>8, <1>9 DEF Serve, ServeSuite, ServeCase

TreeTypes ==
  /\ suites \subseteq MadeSuites /\ cases \subseteq MadeCases
  /\ parent \in [Suites -> Suites \cup {Top}]
  /\ suiteOf \in [Cases -> Suites \cup {Top}]
  /\ audit \subseteq Records
  /\ outdated \subseteq Reqs
  /\ raced \in BOOLEAN /\ branchMoved \in BOOLEAN
  /\ \A s \in suites : parent[s] \in suites \cup {Top}
  /\ \A c \in cases : suiteOf[c] \in suites

LEMMA LoggedTypes ==
  ASSUME TypeOK, NEW action, NEW target, Log(action, target),
         [action |-> action, target |-> target] \in Records
  PROVE  audit' \subseteq Records
  BY DEF Log, TypeOK

LEMMA CreateSuiteTypes ==
  ASSUME TypeOK, NEW r \in Reqs, CreateSuite(r)
  PROVE  TreeTypes'
  <1> DEFINE p == req[r].job.parent
  <1>1. CASE p \notin suites \cup {Top}
    BY <1>1 DEF CreateSuite, Refuse, tree, TypeOK, TreeTypes, MadeSuites, MadeCases, Logged
  <1>2. CASE p \in suites \cup {Top}
    <2>1. PICK s \in Suites \ MadeSuites :
            /\ suites' = suites \cup {s} /\ parent' = [parent EXCEPT ![s] = p]
            /\ Log("SUITE_CREATED", s) /\ Wrote(r, FALSE)
            /\ UNCHANGED <<cases, suiteOf, branchMoved>>
      BY <1>2 DEF CreateSuite
    <2>2. MadeSuites' = MadeSuites \cup {s} /\ MadeCases' = MadeCases
      BY <2>1, LogAdds DEF MadeSuites, MadeCases
    <2>3. audit' \subseteq Records
      BY <2>1, LoggedTypes DEF Records
    <2>4. outdated' \subseteq Reqs /\ raced' \in BOOLEAN /\ branchMoved' \in BOOLEAN
      BY <2>1 DEF Wrote, TypeOK
    <2>5. suites \subseteq Suites
      BY MadeTypes DEF RowsAreEdges
    <2>6. parent' \in [Suites -> Suites \cup {Top}]
      BY <1>2, <2>1, <2>5 DEF TypeOK
    <2>7. \A k \in suites' : parent'[k] \in suites' \cup {Top}
      BY <1>2, <2>1, <2>5 DEF TypeOK
    <2>8. QED
      BY <2>1, <2>2, <2>3, <2>4, <2>6, <2>7 DEF TypeOK, TreeTypes
  <1>3. QED
    BY <1>1, <1>2

LEMMA UpdateSuiteTypes ==
  ASSUME TypeOK, NEW r \in Reqs, UpdateSuite(r)
  PROVE  TreeTypes'
  <1> DEFINE s == req[r].job.suite
             p == IF req[r].job.parent = Same THEN parent[s] ELSE req[r].job.parent
  <1>1. CASE s \notin suites \/ p \notin suites \cup {Top}
    BY <1>1 DEF UpdateSuite, Refuse, tree, TypeOK, TreeTypes, MadeSuites, MadeCases, Logged
  <1>2. CASE s \in suites /\ p \in suites \cup {Top}
    <2>1. /\ parent' = [parent EXCEPT ![s] = p]
          /\ branchMoved' = (branchMoved \/ (p # parent[s] /\ p # Top /\ Children(s) # {}))
          /\ Log("SUITE_UPDATED", s) /\ Wrote(r, p # parent[s])
          /\ UNCHANGED <<suites, cases, suiteOf>>
      BY <1>2 DEF UpdateSuite
    <2>2. MadeSuites' = MadeSuites /\ MadeCases' = MadeCases
      BY <2>1, LogAdds DEF MadeSuites, MadeCases
    <2>3. suites \subseteq Suites
      BY MadeTypes DEF RowsAreEdges
    <2>4. audit' \subseteq Records
      BY <1>2, <2>1, <2>3, LoggedTypes DEF Records
    <2>5. outdated' \subseteq Reqs /\ raced' \in BOOLEAN /\ branchMoved' \in BOOLEAN
      BY <2>1 DEF Wrote, TypeOK
    <2> HIDE DEF p, s
    <2>6. parent' \in [Suites -> Suites \cup {Top}]
      BY <1>2, <2>1, <2>3 DEF TypeOK
    <2>7. \A k \in suites' : parent'[k] \in suites' \cup {Top}
      BY <1>2, <2>1, <2>3 DEF TypeOK
    <2>8. QED
      BY <2>1, <2>2, <2>4, <2>5, <2>6, <2>7 DEF TypeOK, TreeTypes
  <1>3. QED
    BY <1>1, <1>2

LEMMA RemoveSuiteTypes ==
  ASSUME TypeOK, NEW r \in Reqs, RemoveSuite(r)
  PROVE  TreeTypes'
  <1> DEFINE s == req[r].job.suite
  <1>1. CASE s \notin suites
    BY <1>1 DEF RemoveSuite, Refuse, tree, TypeOK, TreeTypes, MadeSuites, MadeCases, Logged
  <1>2. CASE s \in suites
    <2>1. /\ suites' = suites \ Cascade(s)
          /\ cases' = {c \in cases : suiteOf[c] \notin Cascade(s)}
          /\ Log("SUITE_DELETED", s)
          /\ UNCHANGED <<parent, suiteOf, outdated, raced, branchMoved>>
      BY <1>2 DEF RemoveSuite
    <2>2. MadeSuites' = MadeSuites /\ MadeCases' = MadeCases
      BY <2>1, LogAdds DEF MadeSuites, MadeCases
    <2>3. suites \subseteq Suites
      BY MadeTypes DEF RowsAreEdges
    <2>4. audit' \subseteq Records
      BY <1>2, <2>1, <2>3, LoggedTypes DEF Records
    <2>5. \A k \in suites' : parent'[k] \in suites' \cup {Top}
      BY <1>2, <2>1, CascadeIsBelow DEF TypeOK
    <2>6. \A c \in cases' : suiteOf'[c] \in suites'
      BY <2>1 DEF TypeOK
    <2>7. QED
      BY <2>1, <2>2, <2>4, <2>5, <2>6 DEF TypeOK, TreeTypes
  <1>3. QED
    BY <1>1, <1>2

LEMMA WriteCaseTypes ==
  ASSUME TypeOK, NEW r \in Reqs, NEW c \in Cases, NEW s,
         NEW CONSTANT action \in {"CASE_CREATED", "CASE_UPDATED"}, WriteCase(r, c, s, action),
         action = "CASE_CREATED" \/ c \in MadeCases
  PROVE  TreeTypes'
  <1>1. CASE s \notin suites
    BY <1>1 DEF WriteCase, Refuse, tree, TypeOK, TreeTypes, MadeSuites, MadeCases, Logged
  <1>2. CASE s \in suites
    <2>1. /\ cases' = cases \cup {c} /\ suiteOf' = [suiteOf EXCEPT ![c] = s]
          /\ Log(action, c) /\ UNCHANGED <<suites, parent, outdated, raced, branchMoved>>
      BY <1>2 DEF WriteCase
    <2>2. MadeSuites' = MadeSuites /\ MadeCases' \subseteq MadeCases \cup {c}
          /\ MadeCases \subseteq MadeCases' /\ c \in MadeCases'
      BY <2>1, LogAdds DEF MadeSuites, MadeCases
    <2>3. audit' \subseteq Records
      BY <2>1, LoggedTypes DEF Records
    <2>4. suites \subseteq Suites /\ cases \subseteq Cases
      BY MadeTypes DEF RowsAreEdges
    <2>5. suiteOf' \in [Cases -> Suites \cup {Top}]
      BY <1>2, <2>1, <2>4 DEF TypeOK
    <2>6. \A d \in cases' : suiteOf'[d] \in suites'
      BY <1>2, <2>1, <2>4 DEF TypeOK
    <2>7. QED
      BY <2>1, <2>2, <2>3, <2>5, <2>6 DEF TypeOK, TreeTypes
  <1>3. QED
    BY <1>1, <1>2

LEMMA RemoveCaseTypes ==
  ASSUME TypeOK, NEW r \in Reqs, RemoveCase(r)
  PROVE  TreeTypes'
  <1> DEFINE c == req[r].job.case
  <1>1. CASE c \notin cases
    BY <1>1 DEF RemoveCase, Refuse, tree, TypeOK, TreeTypes, MadeSuites, MadeCases, Logged
  <1>2. CASE c \in cases
    <2>1. /\ cases' = cases \ {c} /\ Log("CASE_DELETED", c)
          /\ UNCHANGED <<suites, parent, suiteOf, outdated, raced, branchMoved>>
      BY <1>2 DEF RemoveCase
    <2>2. MadeSuites' = MadeSuites /\ MadeCases' = MadeCases
      BY <2>1, LogAdds DEF MadeSuites, MadeCases
    <2>3. audit' \subseteq Records
      BY <1>2, <2>1, MadeTypes, LoggedTypes DEF Records
    <2>4. QED
      BY <2>1, <2>2, <2>3 DEF TypeOK, TreeTypes
  <1>3. QED
    BY <1>1, <1>2

LEMMA LoggedAtFirst ==
  ASSUME Init
  PROVE  /\ MadeSuites = suites /\ MadeCases = cases
         /\ Logged("SUITE_DELETED") = {} /\ Logged("CASE_DELETED") = {}
  <1>1. \A e : e \in audit <=> \/ e \in [action : {"SUITE_CREATED"}, target : suites]
                               \/ e \in [action : {"CASE_CREATED"}, target : cases]
    BY DEF Init
  <1>2. ASSUME NEW s \in suites PROVE s \in MadeSuites
    <2>1. [action |-> "SUITE_CREATED", target |-> s] \in audit
      BY <1>1
    <2>2. QED
      BY <2>1 DEF MadeSuites, Logged
  <1>3. ASSUME NEW c \in cases PROVE c \in MadeCases
    <2>1. [action |-> "CASE_CREATED", target |-> c] \in audit
      BY <1>1
    <2>2. QED
      BY <2>1 DEF MadeCases, Logged
  <1>4. \A e \in audit : \/ e.action = "SUITE_CREATED" /\ e.target \in suites
                         \/ e.action = "CASE_CREATED" /\ e.target \in cases
    BY <1>1
  <1>5. MadeSuites \subseteq suites /\ MadeCases \subseteq cases
    BY <1>4 DEF MadeSuites, MadeCases, Logged
  <1>6. Logged("SUITE_DELETED") = {} /\ Logged("CASE_DELETED") = {}
    BY <1>4 DEF Logged
  <1>7. QED
    BY <1>2, <1>3, <1>5, <1>6

LEMMA TypeInit == Init => TypeOK
  <1> SUFFICES ASSUME Init PROVE TypeOK
    OBVIOUS
  <1>1. MadeSuites = suites /\ MadeCases = cases
    BY LoggedAtFirst
  <1>2. audit \subseteq Records
    BY DEF Init, Records
  <1>3. suites \subseteq Suites /\ cases \subseteq Cases
    BY DEF Init
  <1>4. \A c \in cases : suiteOf[c] \in suites
    BY <1>3 DEF Init
  <1>5. QED
    BY <1>1, <1>2, <1>3, <1>4 DEF Init, TypeOK

LEMMA TypeStep == TypeOK /\ [Next]_vars => TypeOK'
  <1> SUFFICES ASSUME TypeOK, [Next]_vars PROVE TypeOK'
    OBVIOUS
  <1>1. req' \in [Reqs -> Sent \cup {Unsent, Done}]
    <2>1. req \in [Reqs -> Sent \cup {Unsent, Done}]
      BY DEF TypeOK, Sent
    <2>2. ASSUME NEW r \in Reqs, req[r].phase \in Phases, NEW phase \in Phases, Pass(r, phase)
          PROVE  req' \in [Reqs -> Sent \cup {Unsent, Done}]
      <3>1. req[r] \in Sent
        BY <2>2, SentIs
      <3>2. [req[r] EXCEPT !.phase = phase] \in Sent
        BY <3>1 DEF Sent
      <3>3. QED
        BY <2>1, <2>2, <3>2 DEF Pass
    <2>3. ASSUME NEW r \in Reqs, NEW job \in Jobs, Receive(r, job)
          PROVE  req' \in [Reqs -> Sent \cup {Unsent, Done}]
      <3>1. [phase |-> "find", job |-> job] \in Sent
        BY DEF Sent, Phases
      <3>2. QED
        BY <2>1, <2>3, <3>1 DEF Receive
    <2>4. ASSUME NEW r \in Reqs, Refuse(r) \/ Finish(r)
          PROVE  req' \in [Reqs -> Sent \cup {Unsent, Done}]
      BY <2>1, <2>4 DEF Refuse, Finish
    <2>5. CASE UNCHANGED vars
      BY <2>1, <2>5 DEF vars
    <2>6. QED
      BY <2>2, <2>3, <2>4, <2>5, RequestSteps
  <1>2. TreeTypes'
    <2>1. CASE Quiet
      BY <2>1 DEF Quiet, tree, TypeOK, TreeTypes, MadeSuites, MadeCases, Logged
    <2>2. CASE UNCHANGED vars
      BY <2>1, <2>2 DEF vars, Quiet, tree
    <2>3. ASSUME NEW r \in Reqs, CreateCase(r) PROVE TreeTypes'
      BY <2>3, WriteCaseTypes DEF CreateCase
    <2>4. ASSUME NEW r \in Reqs, UpdateCase(r) PROVE TreeTypes'
      <3> DEFINE c == req[r].job.case
                 s == IF req[r].job.suite = Same THEN suiteOf[c] ELSE req[r].job.suite
      <3>1. CASE c \notin cases
        <4>1. Quiet
          BY <2>4, <3>1 DEF UpdateCase, Refuse, Quiet
        <4>2. QED
          BY <2>1, <4>1
      <3>2. CASE c \in cases
        <4>1. WriteCase(r, c, s, "CASE_UPDATED") /\ c \in MadeCases /\ c \in Cases
          BY <2>4, <3>2, MadeTypes DEF UpdateCase, TypeOK
        <4> HIDE DEF c, s
        <4>2. QED
          BY <4>1, WriteCaseTypes
      <3>3. QED
        BY <3>1, <3>2
    <2>5. \A r \in Reqs, job \in Jobs : Receive(r, job) => Quiet
      BY DEF Receive, Quiet
    <2>6. \A r \in Reqs : Refuse(r) \/ (\E phase \in Phases : Pass(r, phase)) => Quiet
      BY DEF Refuse, Pass, Quiet
    <2>7. QED
      BY <2>1, <2>2, <2>3, <2>4, <2>5, <2>6, RequestSteps, CreateSuiteTypes,
         UpdateSuiteTypes, RemoveSuiteTypes, RemoveCaseTypes
  <1>3. QED
    BY <1>1, <1>2 DEF TypeOK, TreeTypes, Sent

\* Rows name rows that exist, and the log and the requests what there can be.
THEOREM TypeCorrect == Spec => []TypeOK
  BY TypeInit, TypeStep, PTL DEF Spec

-------------------------------------------------------------------------------
\* What a step does to the rows and their log

SuiteAdded(s, p) ==
  /\ suites' = suites \cup {s} /\ parent' = [parent EXCEPT ![s] = p]
  /\ Log("SUITE_CREATED", s) /\ UNCHANGED <<cases, suiteOf>>

SuiteMoved(s, p) ==
  /\ parent' = [parent EXCEPT ![s] = p]
  /\ Log("SUITE_UPDATED", s) /\ UNCHANGED <<suites, cases, suiteOf>>

SuitesRemoved(s) ==
  /\ suites' = suites \ Cascade(s) /\ cases' = {c \in cases : suiteOf[c] \notin Cascade(s)}
  /\ Log("SUITE_DELETED", s) /\ UNCHANGED <<parent, suiteOf>>

CaseWritten(c, s) ==
  /\ cases' = cases \cup {c} /\ suiteOf' = [suiteOf EXCEPT ![c] = s]
  /\ \/ c \notin MadeCases /\ Log("CASE_CREATED", c)
     \/ c \in cases /\ Log("CASE_UPDATED", c)
  /\ UNCHANGED <<suites, parent>>

CaseRemoved(c) ==
  /\ cases' = cases \ {c} /\ Log("CASE_DELETED", c) /\ UNCHANGED <<suites, parent, suiteOf>>

LEMMA RowSteps ==
  ASSUME TypeOK, [Next]_vars
  PROVE  \/ UNCHANGED tree
         \/ \E s \in Suites \ MadeSuites, p \in suites \cup {Top} : SuiteAdded(s, p)
         \/ \E s \in suites, p \in suites \cup {Top} : SuiteMoved(s, p)
         \/ \E s \in suites : SuitesRemoved(s)
         \/ \E c \in Cases, s \in suites : CaseWritten(c, s)
         \/ \E c \in cases : CaseRemoved(c)
  <1> DEFINE Goal == \/ UNCHANGED tree
                     \/ \E s \in Suites \ MadeSuites, p \in suites \cup {Top} : SuiteAdded(s, p)
                     \/ \E s \in suites, p \in suites \cup {Top} : SuiteMoved(s, p)
                     \/ \E s \in suites : SuitesRemoved(s)
                     \/ \E c \in Cases, s \in suites : CaseWritten(c, s)
                     \/ \E c \in cases : CaseRemoved(c)
  <1>1. ASSUME NEW r \in Reqs, CreateSuite(r) PROVE Goal
    BY <1>1 DEF CreateSuite, Refuse, SuiteAdded
  <1>2. ASSUME NEW r \in Reqs, UpdateSuite(r) PROVE Goal
    <2> DEFINE s == req[r].job.suite
               p == IF req[r].job.parent = Same THEN parent[s] ELSE req[r].job.parent
    <2>1. CASE s \notin suites \/ p \notin suites \cup {Top}
      BY <1>2, <2>1 DEF UpdateSuite, Refuse
    <2>2. CASE s \in suites /\ p \in suites \cup {Top}
      <3>1. SuiteMoved(s, p)
        BY <1>2, <2>2 DEF UpdateSuite, SuiteMoved
      <3> HIDE DEF s, p
      <3>2. QED
        BY <2>2, <3>1
    <2>3. QED
      BY <2>1, <2>2
  <1>3. ASSUME NEW r \in Reqs, RemoveSuite(r) PROVE Goal
    BY <1>3 DEF RemoveSuite, Refuse, SuitesRemoved
  <1>4. ASSUME NEW r \in Reqs, CreateCase(r) PROVE Goal
    BY <1>4 DEF CreateCase, WriteCase, Refuse, CaseWritten
  <1>5. ASSUME NEW r \in Reqs, UpdateCase(r) PROVE Goal
    <2> DEFINE c == req[r].job.case
               s == IF req[r].job.suite = Same THEN suiteOf[c] ELSE req[r].job.suite
    <2>1. CASE c \notin cases \/ s \notin suites
      BY <1>5, <2>1 DEF UpdateCase, WriteCase, Refuse
    <2>2. CASE c \in cases /\ s \in suites
      <3>1. CaseWritten(c, s) /\ c \in Cases
        BY <1>5, <2>2, MadeTypes DEF UpdateCase, WriteCase, CaseWritten
      <3> HIDE DEF c, s
      <3>2. QED
        BY <2>2, <3>1
    <2>3. QED
      BY <2>1, <2>2
  <1>6. ASSUME NEW r \in Reqs, RemoveCase(r) PROVE Goal
    BY <1>6 DEF RemoveCase, Refuse, CaseRemoved
  <1>7. UNCHANGED vars => UNCHANGED tree
    BY DEF vars, tree
  <1>8. \A r \in Reqs, job \in Jobs : Receive(r, job) => UNCHANGED tree
    BY DEF Receive
  <1>9. \A r \in Reqs : Refuse(r) \/ (\E phase \in Phases : Pass(r, phase)) => UNCHANGED tree
    BY DEF Refuse, Pass
  <1> HIDE DEF Goal
  <1>10. Goal
    <2>1. UNCHANGED tree => Goal
      BY DEF Goal
    <2>2. QED
      BY <2>1, <1>1, <1>2, <1>3, <1>4, <1>5, <1>6, <1>7, <1>8, <1>9, RequestSteps
  <1>11. QED
    BY <1>10 DEF Goal

-------------------------------------------------------------------------------
\* What is gone

DeletedSuites == Logged("SUITE_DELETED")
DeletedCases  == Logged("CASE_DELETED")
GoneSuites == MadeSuites \ suites
GoneCases  == MadeCases \ cases

\* Rows name what was made, and only what was made is deleted.
NamesAreMade ==
  /\ \A s \in MadeSuites : parent[s] \in MadeSuites \cup {Top}
  /\ DeletedSuites \subseteq GoneSuites /\ DeletedCases \subseteq GoneCases

\* A suite that is gone was deleted or lost with its parent, and there is an end to
\* the latter; a case that is gone was deleted or lost with its suite.
LossesTraced ==
  /\ \A s \in GoneSuites \ DeletedSuites : parent[s] \in GoneSuites
  /\ \A s \in GoneSuites : Chain(parent, s) \cap DeletedSuites # {}
  /\ \A c \in GoneCases \ DeletedCases : suiteOf[c] \in GoneSuites

LossInv == NamesAreMade /\ LossesTraced

LEMMA LossInit == Init => LossInv
  <1> SUFFICES ASSUME Init PROVE LossInv
    OBVIOUS
  <1>1. /\ MadeSuites = suites /\ MadeCases = cases
        /\ DeletedSuites = {} /\ DeletedCases = {}
    BY LoggedAtFirst DEF DeletedSuites, DeletedCases
  <1>2. \A s \in suites : parent[s] \in suites \cup {Top}
    BY DEF Init
  <1>3. QED
    BY <1>1, <1>2 DEF LossInv, NamesAreMade, LossesTraced, GoneSuites, GoneCases

\* The suites that are gone keep their parents, so what explains their loss stays.
LEMMA ExplainedStays ==
  ASSUME TypeOK, TypeOK', LossesTraced, DeletedSuites \subseteq DeletedSuites',
         \A s \in GoneSuites : parent'[s] = parent[s], NEW s \in GoneSuites
  PROVE  Chain(parent', s) \cap DeletedSuites' # {}
  <1>1. /\ parent \in Edges /\ parent' \in Edges /\ GoneSuites \subseteq Suites /\ s \in Suites
    BY MadeTypes DEF TypeOK, Edges, GoneSuites
  <1>2. SUFFICES ASSUME Chain(parent', s) \cap DeletedSuites' = {} PROVE FALSE
    OBVIOUS
  <1> DEFINE T == Chain(parent', s) \cap GoneSuites
  <1>3. s \in T /\ Closed(parent', T)
    <2>1. s \in Chain(parent', s) /\ Closed(parent', Chain(parent', s))
      BY <1>1, ChainIsLeast
    <2>2. \A x \in T : x \notin DeletedSuites
      BY <1>2
    <2>3. QED
      BY <2>1, <2>2 DEF Closed, LossesTraced
  <1>4. Closed(parent, T)
    BY <1>3 DEF Closed
  <1>5. Chain(parent, s) \subseteq T
    BY <1>1, <1>3, <1>4, ChainIsLeast
  <1>6. QED
    BY <1>2, <1>5 DEF LossesTraced

LEMMA LossStep == TypeOK /\ TypeOK' /\ LossInv /\ [Next]_vars => LossInv'
  <1> SUFFICES ASSUME TypeOK, TypeOK', NamesAreMade, LossesTraced, [Next]_vars PROVE LossInv'
    BY DEF LossInv
  <1> USE DEF LossInv, NamesAreMade, LossesTraced
  <1>1. /\ MadeSuites \subseteq Suites /\ MadeCases \subseteq Cases /\ cases \subseteq MadeCases
        /\ suites \subseteq MadeSuites /\ suites \subseteq Suites
        /\ parent \in Edges /\ suiteOf \in [Cases -> Suites \cup {Top}]
    BY MadeTypes DEF TypeOK, Edges, RowsAreEdges
  <1> USE DEF MadeSuites, MadeCases, DeletedSuites, DeletedCases
  <1>2. CASE UNCHANGED tree
    <2>1. UNCHANGED <<MadeSuites, MadeCases, DeletedSuites, DeletedCases, suites, cases, parent, suiteOf>>
      BY <1>2 DEF tree, Logged
    <2> HIDE DEF MadeSuites, MadeCases, DeletedSuites, DeletedCases
    <2>2. QED
      BY <2>1 DEF GoneSuites, GoneCases
  <1>3. ASSUME NEW s \in Suites \ MadeSuites, NEW p \in suites \cup {Top}, SuiteAdded(s, p)
        PROVE  LossInv'
    <2>1. /\ MadeSuites' = MadeSuites \cup {s} /\ MadeCases' = MadeCases
          /\ DeletedSuites' = DeletedSuites /\ DeletedCases' = DeletedCases
      BY <1>3, LogAdds DEF SuiteAdded
    <2> HIDE DEF MadeSuites, MadeCases, DeletedSuites, DeletedCases
    <2>2. /\ suites' = suites \cup {s} /\ parent'[s] = p /\ UNCHANGED <<cases, suiteOf>>
          /\ \A k \in MadeSuites : parent'[k] = parent[k]
      BY <1>1, <1>3 DEF SuiteAdded, Edges
    <2>3. GoneSuites' = GoneSuites /\ GoneCases' = GoneCases
      BY <2>1, <2>2 DEF GoneSuites, GoneCases
    <2>4. \A k \in GoneSuites : Chain(parent', k) \cap DeletedSuites' # {}
      BY <2>1, <2>2, ExplainedStays DEF GoneSuites
    <2>5. NamesAreMade'
      BY <1>1, <2>1, <2>2, <2>3
    <2>6. \A k \in GoneSuites \ DeletedSuites : parent'[k] \in GoneSuites
      BY <2>2 DEF GoneSuites
    <2>7. QED
      BY <2>1, <2>2, <2>3, <2>4, <2>5, <2>6
  <1>4. ASSUME NEW s \in suites, NEW p \in suites \cup {Top}, SuiteMoved(s, p)
        PROVE  LossInv'
    <2>1. /\ MadeSuites' = MadeSuites /\ MadeCases' = MadeCases
          /\ DeletedSuites' = DeletedSuites /\ DeletedCases' = DeletedCases
      BY <1>4, LogAdds DEF SuiteMoved
    <2> HIDE DEF MadeSuites, MadeCases, DeletedSuites, DeletedCases
    <2>2. /\ parent'[s] = p /\ UNCHANGED <<suites, cases, suiteOf>>
          /\ \A k \in MadeSuites : k # s => parent'[k] = parent[k]
      BY <1>1, <1>4 DEF SuiteMoved, Edges
    <2>3. GoneSuites' = GoneSuites /\ GoneCases' = GoneCases
      BY <2>1, <2>2 DEF GoneSuites, GoneCases
    <2>4. \A k \in GoneSuites : Chain(parent', k) \cap DeletedSuites' # {}
      BY <2>1, <2>2, ExplainedStays DEF GoneSuites
    <2>5. NamesAreMade'
      BY <1>1, <2>1, <2>2, <2>3
    <2>6. \A k \in GoneSuites \ DeletedSuites : parent'[k] \in GoneSuites
      BY <2>2 DEF GoneSuites
    <2>7. QED
      BY <2>1, <2>2, <2>3, <2>4, <2>5, <2>6
  <1>5. ASSUME NEW s \in suites, SuitesRemoved(s) PROVE LossInv'
    <2>1. /\ MadeSuites' = MadeSuites /\ MadeCases' = MadeCases
          /\ DeletedSuites' = DeletedSuites \cup {s} /\ DeletedCases' = DeletedCases
      BY <1>5, LogAdds DEF SuitesRemoved
    <2> HIDE DEF MadeSuites, MadeCases, DeletedSuites, DeletedCases
    <2>2. /\ suites' = suites \ Cascade(s) /\ UNCHANGED <<parent, suiteOf>>
          /\ cases' = {c \in cases : suiteOf[c] \notin Cascade(s)}
      BY <1>5 DEF SuitesRemoved
    <2>3. /\ s \in Cascade(s) /\ Cascade(s) \subseteq suites
          /\ \A k \in Cascade(s) \ {s} : parent[k] \in Cascade(s)
      BY CascadeIsBelow
    <2>4. GoneSuites' = GoneSuites \cup Cascade(s)
      BY <1>1, <2>1, <2>2, <2>3 DEF GoneSuites
    <2>5. \A k \in Cascade(s) : Chain(parent', k) \cap DeletedSuites' # {}
      BY <2>1, <2>2 DEF Cascade
    <2>6. \A k \in GoneSuites : Chain(parent', k) \cap DeletedSuites' # {}
      BY <2>1, <2>2
    <2>7. \A c \in GoneCases' : c \in GoneCases \/ suiteOf[c] \in Cascade(s)
      BY <2>1, <2>2 DEF GoneCases
    <2>8. NamesAreMade'
      BY <1>1, <2>1, <2>2, <2>3, <2>4 DEF GoneCases, GoneSuites
    <2>9. QED
      BY <2>1, <2>2, <2>3, <2>4, <2>5, <2>6, <2>7, <2>8
  <1>6. ASSUME NEW c \in Cases, NEW s \in suites, CaseWritten(c, s) PROVE LossInv'
    <2>1. /\ MadeSuites' = MadeSuites /\ DeletedSuites' = DeletedSuites
          /\ DeletedCases' = DeletedCases
          /\ MadeCases' = MadeCases \cup {c} /\ (c \in cases \/ c \notin MadeCases)
      <3>1. CASE c \notin MadeCases /\ Log("CASE_CREATED", c)
        BY <3>1, LogAdds
      <3>2. CASE c \in cases /\ Log("CASE_UPDATED", c)
        BY <1>1, <3>2, LogAdds
      <3>3. QED
        BY <1>6, <3>1, <3>2 DEF CaseWritten
    <2> HIDE DEF MadeSuites, MadeCases, DeletedSuites, DeletedCases
    <2>2. /\ cases' = cases \cup {c} /\ UNCHANGED <<suites, parent>>
          /\ \A d \in Cases : d # c => suiteOf'[d] = suiteOf[d]
      BY <1>1, <1>6 DEF CaseWritten
    <2>3. GoneSuites' = GoneSuites /\ GoneCases' = GoneCases /\ c \notin GoneCases
      BY <2>1, <2>2 DEF GoneSuites, GoneCases
    <2>4. \A d \in GoneCases : suiteOf'[d] = suiteOf[d]
      BY <1>1, <2>2, <2>3 DEF GoneCases
    <2>5. QED
      BY <2>1, <2>2, <2>3, <2>4
  <1>7. ASSUME NEW c \in cases, CaseRemoved(c) PROVE LossInv'
    <2>1. /\ MadeSuites' = MadeSuites /\ MadeCases' = MadeCases
          /\ DeletedSuites' = DeletedSuites /\ DeletedCases' = DeletedCases \cup {c}
      BY <1>7, LogAdds DEF CaseRemoved
    <2> HIDE DEF MadeSuites, MadeCases, DeletedSuites, DeletedCases
    <2>2. cases' = cases \ {c} /\ UNCHANGED <<suites, parent, suiteOf>>
      BY <1>7 DEF CaseRemoved
    <2>3. GoneSuites' = GoneSuites /\ GoneCases' = GoneCases \cup {c}
      BY <1>1, <2>1, <2>2 DEF GoneSuites, GoneCases
    <2>4. QED
      BY <2>1, <2>2, <2>3
  <1>8. QED
    BY <1>2, <1>3, <1>4, <1>5, <1>6, <1>7, RowSteps

LEMMA LossInvariant == Spec => [](TypeOK /\ LossInv)
  <1>1. Init => TypeOK /\ LossInv
    BY TypeInit, LossInit
  <1>2. TypeOK /\ LossInv /\ [Next]_vars => (TypeOK /\ LossInv)'
    BY TypeStep, LossStep
  <1>3. QED
    BY <1>1, <1>2, PTL DEF Spec

\* Of a suite or case that is gone, the log has the deletion of itself or of a suite it
\* was in when it disappeared, whatever creates, moves and cascading deletes raced.
THEOREM NothingVanishes == Spec => []LossesAreLogged
  <1>1. TypeOK /\ LossInv => LossesAreLogged
    BY MadeTypes DEF LossInv, NamesAreMade, LossesTraced, LossesAreLogged, GoneSuites,
                     GoneCases, DeletedSuites, DeletedCases
  <1>2. QED
    BY <1>1, LossInvariant, PTL

-------------------------------------------------------------------------------
\* What is judged

JobsKnown == \A r \in Reqs : req[r].phase \in Phases => Known(req[r].job)

\* What was judged of the parent that r is about to write is still so.
JudgedRightly(r) ==
  LET s == req[r].job.suite  p == req[r].job.parent
  IN /\ At(r, "commit", "createSuite") =>
          p = Top \/ Cardinality(Chain(parent, p)) < MAX_SUITE_DEPTH
     /\ At(r, "commit", "updateSuite") =>
          \/ p \in {Same, Top, parent[s]}
          \/ Cardinality(Chain(parent, p)) < MAX_SUITE_DEPTH /\ s \notin Chain(parent, p)

SuitesRooted == ~raced => \A s \in suites : Rooted(parent, s)

SuitesShallow ==
  ~raced /\ ~branchMoved =>
    \A s \in suites : Cardinality(Chain(parent, s)) <= MAX_SUITE_DEPTH

JudgeInv ==
  /\ JobsKnown
  /\ \A r \in Reqs \ outdated : JudgedRightly(r)
  /\ SuitesRooted
  /\ SuitesShallow

LEMMA JudgeInit == Init => JudgeInv
  <1> SUFFICES ASSUME Init PROVE JudgeInv
    OBVIOUS
  <1>1. TypeOK /\ RowsAreEdges
    BY TypeInit, MadeTypes
  <1>2. \A r \in Reqs : req[r].phase = "unsent"
    BY DEF Init, Unsent
  <1>3. JobsKnown /\ \A r \in Reqs : JudgedRightly(r)
    BY <1>2 DEF JobsKnown, JudgedRightly, At, Phases
  <1>4. Shown = suites
    BY DEF Init
  <1>5. SuitesRooted
    BY <1>1, <1>4, ShownIsRooted DEF SuitesRooted
  <1>6. \A s \in suites : Cardinality(Chain(parent, s)) <= MAX_SUITE_DEPTH
    <2>1. SUFFICES ASSUME NEW s \in suites
                   PROVE  Cardinality(Chain(parent, s)) <= MAX_SUITE_DEPTH
      OBVIOUS
    <2>2. s \in Suites /\ parent \in Edges
      BY <1>1 DEF RowsAreEdges
    <2>3. Len(ancestorChain(parent, s)) <= MAX_SUITE_DEPTH
      BY DEF Init
    <2>4. QED
      BY <2>2, <2>3, ChainIsLeast
  <1>7. QED
    BY <1>3, <1>5, <1>6 DEF JudgeInv, SuitesShallow

LEMMA OneRequest ==
  ASSUME TypeOK, NEW r \in Reqs, Serve(r)
  PROVE  /\ \A q \in Reqs \ {r} : req'[q] = req[q]
         /\ ~Quiet => req'[r] = Done
         /\ req'[r] = Done \/ req'[r].job = req[r].job
         /\ req'[r] # Unsent
         /\ req[r].phase \in Phases
  <1> USE DEF Phases, At, Done, Unsent
  <1>1. CASE JudgeNew(r) \/ FindSuite(r) \/ JudgeMove(r) \/ FindRemoved(r)
    <2>1. req[r].phase \in Phases /\ (Refuse(r) \/ \E phase \in Phases : Pass(r, phase))
      BY <1>1 DEF JudgeNew, FindSuite, JudgeMove, FindRemoved
    <2>2. QED
      BY <2>1, SentIs DEF Refuse, Finish, Pass, Quiet, TypeOK, Sent
  <1>2. CASE FindForCase(r) \/ JudgeCaseSuite(r)
    <2>1. req[r].phase \in Phases /\ (Refuse(r) \/ \E phase \in Phases : Pass(r, phase))
      BY <1>2 DEF FindForCase, JudgeCaseSuite
    <2>2. QED
      BY <2>1, SentIs DEF Refuse, Finish, Pass, Quiet, TypeOK, Sent
  <1>3. CASE CreateSuite(r)
    <2>1. Finish(r) /\ req[r].phase \in Phases
      BY <1>3 DEF CreateSuite, Refuse
    <2>2. QED
      BY <2>1 DEF Finish, TypeOK
  <1>4. CASE UpdateSuite(r)
    BY <1>4 DEF UpdateSuite, Refuse, Finish, TypeOK
  <1>5. CASE RemoveSuite(r)
    BY <1>5 DEF RemoveSuite, Refuse, Finish, TypeOK
  <1>6. CASE CreateCase(r)
    BY <1>6 DEF CreateCase, WriteCase, Refuse, Finish, TypeOK
  <1>7. CASE UpdateCase(r)
    BY <1>7 DEF UpdateCase, WriteCase, Refuse, Finish, TypeOK
  <1>8. CASE RemoveCase(r)
    BY <1>8 DEF RemoveCase, Refuse, Finish, TypeOK
  <1>9. QED
    BY <1>1, <1>2, <1>3, <1>4, <1>5, <1>6, <1>7, <1>8 DEF Serve, ServeSuite, ServeCase

LEMMA JobsStayKnown ==
  ASSUME TypeOK, JobsKnown, [Next]_vars
  PROVE  JobsKnown'
  <1>1. MadeSuites \subseteq MadeSuites' /\ MadeCases \subseteq MadeCases'
    <2>1. audit \subseteq audit'
      BY RowSteps DEF tree, SuiteAdded, SuiteMoved, SuitesRemoved, CaseWritten, CaseRemoved, Log
    <2>2. QED
      BY <2>1 DEF MadeSuites, MadeCases, Logged
  <1>2. \A job : Known(job) => Known(job)'
    BY <1>1 DEF Known
  <1>3. ASSUME NEW q \in Reqs, req'[q].phase \in Phases
        PROVE  Known(req'[q].job)
    <2>1. CASE UNCHANGED vars
      BY <1>3, <2>1 DEF vars, JobsKnown
    <2>2. ASSUME NEW r \in Reqs, NEW job \in Jobs, Receive(r, job)
          PROVE  Known(req'[q].job)
      BY <1>3, <2>2 DEF Receive, TypeOK, JobsKnown
    <2>3. ASSUME NEW r \in Reqs, Serve(r)
          PROVE  Known(req'[q].job)
      <3>1. req'[q] = Done \/ (req'[q].job = req[q].job /\ (q = r \/ req'[q] = req[q]))
        BY <2>3, OneRequest
      <3>2. Done.phase \notin Phases
        BY DEF Done, Phases
      <3>3. QED
        BY <1>3, <2>3, <3>1, <3>2, OneRequest DEF JobsKnown
    <2>4. QED
      BY <2>1, <2>2, <2>3 DEF Next
  <1>4. QED
    BY <1>2, <1>3 DEF JobsKnown

\* Two ways in which a request that commits is not concerned.
LEMMA DoneIsRight ==
  ASSUME NEW r \in Reqs, req'[r].phase # "commit" PROVE JudgedRightly(r)'
  BY DEF JudgedRightly, At

LEMMA SameIsRight ==
  ASSUME NEW r \in Reqs, req'[r] = req[r], parent' = parent, JudgedRightly(r)
  PROVE  JudgedRightly(r)'
  BY DEF JudgedRightly, At

\* Who judges and passes has judged rightly.
LEMMA JudgesRightly ==
  ASSUME TypeOK, JobsKnown, NEW r \in Reqs, Serve(r), Quiet
  PROVE  JudgedRightly(r)'
  <1>1. parent' = parent /\ parent \in Edges
    BY DEF Quiet, tree, TypeOK, Edges
  <1>2. SUFFICES ASSUME req'[r].phase = "commit" PROVE JudgedRightly(r)'
    BY DoneIsRight
  <1>3. Done.phase # "commit" /\ suites \subseteq Suites
    BY MadeTypes DEF Done, RowsAreEdges
  <1>4. ASSUME NEW p, UsableForNew(p)
        PROVE  Cardinality(Chain(parent, p)) < MAX_SUITE_DEPTH
    <2>1. p \in Suites /\ ~(Len(ancestorChain(parent, p)) >= MAX_SUITE_DEPTH)
      BY <1>3, <1>4 DEF UsableForNew, exceedsMaxDepth
    <2>2. Len(ancestorChain(parent, p)) = Cardinality(Chain(parent, p))
      BY <1>1, <2>1, ChainIsLeast
    <2>3. Cardinality(Chain(parent, p)) \in Nat
      BY <1>1, <2>1, ChainIsLeast, FS_CardinalityType
    <2>4. QED
      BY <2>1, <2>2, <2>3 DEF MAX_SUITE_DEPTH
  <1>5. Refuse(r) => req'[r] = Done
    BY DEF Refuse, Finish, TypeOK
  <1>6. \A phase \in Phases : req[r].phase \in Phases /\ Pass(r, phase) =>
                                 req'[r].job = req[r].job /\ req'[r].phase = phase
    BY SentIs DEF Pass, TypeOK, Sent
  <1>7. CASE JudgeNew(r)
    <2> DEFINE p == req[r].job.parent
    <2>1. req[r].job.op = "createSuite" /\ req'[r].job = req[r].job
          /\ (p = Top \/ UsableForNew(p))
      BY <1>2, <1>3, <1>5, <1>6, <1>7 DEF JudgeNew, At, Phases
    <2>2. QED
      BY <1>1, <1>4, <2>1 DEF JudgedRightly, At
  <1>8. CASE FindSuite(r)
    <2>1. /\ req[r].job.op = "updateSuite" /\ req'[r].job = req[r].job
          /\ req[r].job.parent \in {Same, Top, parent[req[r].job.suite]}
      BY <1>2, <1>3, <1>5, <1>6, <1>8 DEF FindSuite, At, Phases
    <2>2. QED
      BY <1>1, <2>1 DEF JudgedRightly, At
  <1>9. CASE JudgeMove(r)
    <2>1. /\ req[r].job.op = "updateSuite" /\ req'[r].job = req[r].job
          /\ UsableForMove(req[r].job.suite, req[r].job.parent)
      BY <1>2, <1>3, <1>5, <1>6, <1>9 DEF JudgeMove, At, Phases
    <2>2. /\ UsableForNew(req[r].job.parent)
          /\ req[r].job.suite \notin Chain(parent, req[r].job.parent)
      BY <2>1 DEF UsableForMove, createsCycle
    <2>3. QED
      BY <1>1, <1>4, <2>1, <2>2 DEF JudgedRightly, At
  <1>10. CASE FindRemoved(r) \/ FindForCase(r) \/ JudgeCaseSuite(r)
    <2>1. /\ req[r].phase \in Phases /\ (Refuse(r) \/ \E phase \in Phases : Pass(r, phase))
          /\ req[r].job.op \notin {"createSuite", "updateSuite"}
      BY <1>10 DEF FindRemoved, FindForCase, JudgeCaseSuite, At, Phases
    <2>2. req'[r].job = req[r].job
      BY <1>2, <1>3, <1>5, <1>6, <2>1
    <2>3. QED
      BY <2>1, <2>2 DEF JudgedRightly, At
  <1>11. CASE CreateSuite(r) \/ UpdateSuite(r) \/ RemoveSuite(r)
    BY <1>2, <1>3, <1>5, <1>11 DEF CreateSuite, UpdateSuite, RemoveSuite, Finish, TypeOK
  <1>12. CASE CreateCase(r) \/ UpdateCase(r) \/ RemoveCase(r)
    BY <1>2, <1>3, <1>5, <1>12 DEF CreateCase, UpdateCase, RemoveCase, WriteCase, Finish, TypeOK
  <1>13. QED
    BY <1>7, <1>8, <1>9, <1>10, <1>11, <1>12 DEF Serve, ServeSuite, ServeCase

\* A suite that is made is on no chain yet.
LEMMA MakingKeeps ==
  ASSUME TypeOK, TypeOK', NamesAreMade, JobsKnown, SuitesRooted, SuitesShallow,
         \A q \in Reqs \ outdated : JudgedRightly(q),
         NEW r \in Reqs, CreateSuite(r), req[r].job.parent \in suites \cup {Top}
  PROVE  /\ \A q \in Reqs \ (outdated' \cup {r}) : req'[q] = req[q] => JudgedRightly(q)'
         /\ SuitesRooted' /\ SuitesShallow'
  <1> DEFINE p == req[r].job.parent
  <1>1. PICK s \in Suites \ MadeSuites :
          /\ suites' = suites \cup {s} /\ parent' = [parent EXCEPT ![s] = p]
          /\ Wrote(r, FALSE) /\ branchMoved' = branchMoved
    BY DEF CreateSuite
  <1>2. /\ parent \in Edges /\ parent' \in Edges /\ suites \subseteq MadeSuites
        /\ MadeSuites \subseteq Suites /\ suites \subseteq Suites /\ p \in MadeSuites \cup {Top}
    BY MadeTypes DEF TypeOK, Edges
  <1>3. /\ parent'[s] = p /\ \A k \in MadeSuites : parent'[k] = parent[k]
        /\ outdated' = outdated /\ raced' = (raced \/ r \in outdated)
    BY <1>1, <1>2 DEF Wrote, Edges
  <1>4. ASSUME NEW k \in MadeSuites
        PROVE  Chain(parent', k) = Chain(parent, k) /\ Chain(parent, k) \subseteq MadeSuites
    <2>1. k \in Suites /\ Closed(parent, MadeSuites)
      BY <1>2 DEF Closed, NamesAreMade
    <2>2. Chain(parent, k) \subseteq MadeSuites
      BY <1>2, <2>1, ChainIsLeast
    <2>3. \A x \in Chain(parent, k) : parent'[x] = parent[x]
      BY <1>3, <2>2
    <2>4. QED
      BY <1>2, <2>1, <2>2, <2>3, ChainAgrees
  <1>5. \A k \in MadeSuites : Rooted(parent', k) <=> Rooted(parent, k)
    BY <1>3, <1>4 DEF Rooted
  <1>6. ASSUME NEW q \in Reqs \ (outdated' \cup {r}), req'[q] = req[q]
        PROVE  JudgedRightly(q)'
    <2> DEFINE t == req[q].job.suite
               u == req[q].job.parent
    <2>1. JudgedRightly(q)
      BY <1>3, <1>6
    <2>2. CASE At(q, "commit", "createSuite")
      <3>1. u \in MadeSuites \cup {Top} /\ req[q].job.op # "updateSuite"
        <4>1. /\ req[q].phase \in Phases /\ req[q].job.op = "createSuite"
              /\ req[q].job \in Jobs /\ Known(req[q].job)
          BY <2>2, SentIs DEF At, Phases, JobsKnown
        <4>2. u \in Suites \cup {Top} /\ "parent" \in DOMAIN req[q].job
          BY <4>1, JobParts
        <4>3. QED
          BY <4>1, <4>2, TreeAssumption DEF Known
      <3>2. u = Top \/ Cardinality(Chain(parent', u)) < MAX_SUITE_DEPTH
        BY <1>4, <2>1, <2>2, <3>1 DEF JudgedRightly
      <3>3. QED
        BY <1>6, <3>1, <3>2 DEF JudgedRightly, At
    <2>3. CASE At(q, "commit", "updateSuite")
      <3>1. /\ t \in MadeSuites /\ u \in MadeSuites \cup {Top, Same}
            /\ req[q].job.op # "createSuite"
        <4>1. /\ req[q].phase \in Phases /\ req[q].job.op = "updateSuite"
              /\ req[q].job \in Jobs /\ Known(req[q].job)
          BY <2>3, SentIs DEF At, Phases, JobsKnown
        <4>2. /\ t \in Suites /\ "suite" \in DOMAIN req[q].job
              /\ u \in Suites \cup {Top, Same} /\ "parent" \in DOMAIN req[q].job
          BY <4>1, JobParts
        <4>3. QED
          BY <4>1, <4>2, TreeAssumption DEF Known
      <3>2. \/ u \in {Same, Top, parent'[t]}
            \/ Cardinality(Chain(parent', u)) < MAX_SUITE_DEPTH /\ t \notin Chain(parent', u)
        BY <1>3, <1>4, <2>1, <2>3, <3>1 DEF JudgedRightly
      <3>3. QED
        BY <1>6, <3>1, <3>2 DEF JudgedRightly, At
    <2>4. QED
      BY <1>6, <2>2, <2>3 DEF JudgedRightly, At
  <1>7. ASSUME ~raced' PROVE ~raced /\ r \notin outdated /\ Rooted(parent', s)
    <2>1. ~raced /\ r \notin outdated
      BY <1>3, <1>7
    <2>2. CASE p = Top
      <3>1. s \in Chain(parent', s) /\ parent'[s] = Top
        BY <1>1, <1>2, <1>3, <2>2, ChainIsLeast
      <3>2. Rooted(parent', s)
        BY ONLY <3>1 DEF Rooted
      <3>3. QED
        BY <2>1, <3>2
    <2>3. CASE p # Top
      <3>1. p \in suites /\ p \in MadeSuites
        BY <1>2, <2>3
      <3>2. Rooted(parent', p)
        BY <1>5, <2>1, <3>1 DEF SuitesRooted
      <3>3. QED
        BY <1>1, <1>2, <1>3, <2>1, <2>3, <3>2, RootedAbove
    <2>4. QED
      BY <2>1, <2>2, <2>3
  <1>8. SuitesRooted'
    BY <1>1, <1>2, <1>5, <1>7 DEF SuitesRooted
  <1>9. ASSUME ~raced' PROVE Cardinality(Chain(parent', s)) <= MAX_SUITE_DEPTH
    <2>1. s \in Suites
      BY <1>1
    <2>2. CASE p = Top
      BY <1>2, <1>3, <2>1, <2>2, ChainOfRoot DEF MAX_SUITE_DEPTH
    <2>3. CASE p # Top
      <3>1. p \in MadeSuites /\ p \in Suites
        BY <1>2, <2>3
      <3>2. Cardinality(Chain(parent, p)) < MAX_SUITE_DEPTH
        BY <1>7, <1>9, <2>3 DEF JudgedRightly, CreateSuite
      <3>3. Cardinality(Chain(parent', s)) = Cardinality(Chain(parent', p)) + 1
        BY <1>2, <1>3, <1>7, <1>9, <2>1, <2>3, RootedAbove
      <3>4. Cardinality(Chain(parent, p)) \in Nat /\ Chain(parent', p) = Chain(parent, p)
        BY <1>2, <1>4, <3>1, ChainIsLeast, FS_CardinalityType
      <3>5. QED
        BY <3>2, <3>3, <3>4 DEF MAX_SUITE_DEPTH
    <2>4. QED
      BY <2>2, <2>3
  <1>10. SuitesShallow'
    BY <1>1, <1>2, <1>3, <1>4, <1>9 DEF SuitesShallow
  <1>11. QED
    BY <1>6, <1>8, <1>10

\* Moving s under p, when one cannot go up from p to s, leaves nothing off the tree.
LEMMA MoveKeepsRooted ==
  ASSUME NEW edges \in Edges, NEW other \in Edges, NEW s \in Suites, NEW p,
         other = [edges EXCEPT ![s] = p],
         p = Top \/ (p \in Suites /\ s \notin Chain(edges, p) /\ Rooted(edges, p)),
         NEW x \in Suites, Rooted(edges, x)
  PROVE  Rooted(other, x)
  <1>1. other[s] = p /\ \A y \in Suites : y # s => other[y] = edges[y]
    BY DEF Edges
  <1>2. CASE s \notin Chain(other, x)
    <2>1. \A y \in Chain(other, x) : edges[y] = other[y]
      BY <1>1, <1>2, ChainIsLeast
    <2>2. Chain(edges, x) = Chain(other, x)
      BY <2>1, ChainAgrees
    <2>3. QED
      BY <2>1, <2>2 DEF Rooted
  <1>3. CASE s \in Chain(other, x) /\ p = Top
    BY <1>1, <1>3 DEF Rooted
  <1>4. CASE s \in Chain(other, x) /\ p # Top
    <2>1. p \in Suites /\ s \notin Chain(edges, p) /\ Rooted(edges, p)
      BY <1>4
    <2>2. \A y \in Chain(edges, p) : other[y] = edges[y]
      BY <1>1, <2>1, ChainIsLeast
    <2>3. Chain(other, p) = Chain(edges, p)
      BY <2>1, <2>2, ChainAgrees
    <2>4. p \in Chain(other, x)
      <3>1. Closed(other, Chain(other, x))
        BY ChainIsLeast
      <3>2. QED
        BY <1>1, <1>4, <3>1 DEF Closed
    <2>5. Chain(other, p) \subseteq Chain(other, x)
      BY <2>4, ChainOfMember
    <2>6. QED
      BY <2>1, <2>2, <2>3, <2>5 DEF Rooted
  <1>5. QED
    BY <1>2, <1>3, <1>4

\* Moving s to the top shortens chains.
LEMMA MoveToTopShortens ==
  ASSUME NEW edges \in Edges, NEW other \in Edges, NEW s \in Suites,
         other = [edges EXCEPT ![s] = Top], NEW x \in Suites
  PROVE  Cardinality(Chain(other, x)) <= Cardinality(Chain(edges, x))
  <1>1. Closed(other, Chain(edges, x)) /\ x \in Chain(edges, x) /\ IsFiniteSet(Chain(edges, x))
    BY ChainIsLeast DEF Closed, Edges
  <1>2. Chain(other, x) \subseteq Chain(edges, x)
    BY <1>1, ChainIsLeast
  <1>3. QED
    BY <1>1, <1>2, FS_Subset

LEMMA MovingKeeps ==
  ASSUME TypeOK, TypeOK', NamesAreMade, JobsKnown, SuitesRooted, SuitesShallow,
         \A q \in Reqs \ outdated : JudgedRightly(q),
         NEW r \in Reqs, UpdateSuite(r), NEW s, NEW p, s = req[r].job.suite,
         p = IF req[r].job.parent = Same THEN parent[s] ELSE req[r].job.parent,
         s \in suites, p \in suites \cup {Top}
  PROVE  /\ \A q \in Reqs \ (outdated' \cup {r}) : req'[q] = req[q] => JudgedRightly(q)'
         /\ SuitesRooted' /\ SuitesShallow'
  <1>1. /\ parent' = [parent EXCEPT ![s] = p] /\ suites' = suites
        /\ branchMoved' = (branchMoved \/ (p # parent[s] /\ p # Top /\ Children(s) # {}))
        /\ Wrote(r, p # parent[s])
        /\ req[r].phase = "commit" /\ req[r].job.op = "updateSuite"
    BY DEF UpdateSuite, At
  <1>2. /\ parent \in Edges /\ parent' \in Edges /\ suites \subseteq Suites /\ s \in Suites
        /\ \A k \in suites : parent[k] \in suites \cup {Top}
    BY MadeTypes DEF TypeOK, Edges, RowsAreEdges
  <1>3. CASE p = parent[s]
    <2>1. parent' = parent
      BY <1>1, <1>2, <1>3 DEF Edges
    <2>2. outdated' = outdated /\ raced' = (raced \/ r \in outdated) /\ branchMoved' = branchMoved
      BY <1>1, <1>3, TypeOK DEF Wrote, TypeOK
    <2>3. \A q \in Reqs \ (outdated' \cup {r}) : req'[q] = req[q] => JudgedRightly(q)'
      BY <2>1, <2>2, SameIsRight
    <2>4. QED
      BY <1>1, <2>1, <2>2, <2>3 DEF SuitesRooted, SuitesShallow
  <1>4. CASE p # parent[s]
    <2>1. \A q \in Reqs \ {r} : /\ req[q].phase = "commit"
                                /\ req[q].job.op \in {"createSuite", "updateSuite"}
                                => q \in outdated'
      BY <1>1, <1>4 DEF Wrote, Writing
    <2>2. \A q \in Reqs \ (outdated' \cup {r}) : req'[q] = req[q] => JudgedRightly(q)'
      BY <2>1 DEF JudgedRightly, At
    <2>3. SUFFICES ASSUME ~raced' PROVE SuitesRooted' /\ SuitesShallow'
      BY <2>2 DEF SuitesRooted, SuitesShallow
    <2>4. ~raced /\ r \notin outdated
      BY <1>1, <2>3 DEF Wrote
    <2>5. p = Top \/ (/\ p \in suites /\ s \notin Chain(parent, p)
                      /\ Cardinality(Chain(parent, p)) < MAX_SUITE_DEPTH)
      <3>1. JudgedRightly(r) /\ At(r, "commit", "updateSuite")
        BY <1>1, <2>4 DEF At
      <3>2. QED
        BY <1>4, <3>1 DEF JudgedRightly
    <2>6. p = Top \/ (p \in Suites /\ s \notin Chain(parent, p) /\ Rooted(parent, p))
      BY <1>2, <2>4, <2>5 DEF SuitesRooted
    <2>7. SuitesRooted'
      <3>1. ASSUME NEW x \in suites PROVE Rooted(parent', x)
        <4>1. x \in Suites /\ Rooted(parent, x)
          BY <1>2, <2>4 DEF SuitesRooted
        <4>2. QED
          BY ONLY <1>1, <1>2, <2>6, <4>1, MoveKeepsRooted
      <3>2. QED
        BY <1>1, <3>1 DEF SuitesRooted
    <2>8. ASSUME ~branchMoved', NEW x \in suites
          PROVE  Cardinality(Chain(parent', x)) <= MAX_SUITE_DEPTH
      <3>1. x \in Suites /\ Cardinality(Chain(parent, x)) <= MAX_SUITE_DEPTH
        BY <1>1, <1>2, <2>4, <2>8 DEF SuitesShallow
      <3>2. \A k \in Suites : /\ Cardinality(Chain(parent', k)) \in Nat
                              /\ Cardinality(Chain(parent, k)) \in Nat
        BY <1>2, ChainIsLeast, FS_CardinalityType
      <3>3. CASE p = Top
        <4>1. Cardinality(Chain(parent', x)) <= Cardinality(Chain(parent, x))
          BY <1>1, <1>2, <3>1, <3>3, MoveToTopShortens
        <4>2. QED
          BY <3>1, <3>2, <4>1 DEF MAX_SUITE_DEPTH
      <3>4. CASE p # Top
        <4>1. Children(s) = {}
          BY <1>1, <1>4, <2>8, <3>4
        <4>2. ASSUME NEW k \in suites, k # s PROVE Chain(parent', k) = Chain(parent, k)
          <5> DEFINE T == suites \ {s}
          <5>1. Closed(parent, T)
            BY <1>2, <4>1 DEF Closed, Children
          <5>2. Chain(parent, k) \subseteq T /\ k \in Suites
            BY <1>2, <4>2, <5>1, ChainIsLeast
          <5>3. \A y \in Chain(parent, k) : parent'[y] = parent[y]
            BY <1>1, <1>2, <5>2 DEF Edges
          <5>4. QED
            BY <1>2, <5>2, <5>3, ChainAgrees
        <4>3. CASE x # s
          BY <3>1, <4>2, <4>3
        <4>4. CASE x = s
          <5>1. p \in suites /\ p \in Suites /\ p # s
            BY <1>2, <2>5, <3>4, ChainIsLeast
          <5>2. Cardinality(Chain(parent', p)) < MAX_SUITE_DEPTH
            BY <2>5, <3>4, <4>2, <5>1
          <5>3. Rooted(parent', s) /\ parent'[s] = p
            BY <1>1, <1>2, <2>7, <2>3 DEF SuitesRooted, Edges
          <5>4. Cardinality(Chain(parent', s)) = Cardinality(Chain(parent', p)) + 1
            BY <1>2, <3>4, <5>3, RootedAbove
          <5>5. QED
            BY <3>2, <4>4, <5>1, <5>2, <5>4 DEF MAX_SUITE_DEPTH
        <4>5. QED
          BY <4>3, <4>4
      <3>5. QED
        BY <3>3, <3>4
    <2>9. QED
      BY <1>1, <2>7, <2>8 DEF SuitesShallow
  <1>5. QED
    BY <1>3, <1>4

LEMMA JudgeStep ==
  TypeOK /\ TypeOK' /\ NamesAreMade /\ JudgeInv /\ [Next]_vars => JudgeInv'
  <1> SUFFICES ASSUME TypeOK, TypeOK', NamesAreMade, JudgeInv, [Next]_vars PROVE JudgeInv'
    OBVIOUS
  <1>1. /\ JobsKnown /\ SuitesRooted /\ SuitesShallow
        /\ \A q \in Reqs \ outdated : JudgedRightly(q)
    BY DEF JudgeInv
  <1>2. JobsKnown'
    BY <1>1, JobsStayKnown
  <1> DEFINE Kept == /\ \A q \in Reqs \ outdated' : JudgedRightly(q)'
                     /\ SuitesRooted' /\ SuitesShallow'
  <1>3. ASSUME suites' \subseteq suites, UNCHANGED <<parent, outdated, raced, branchMoved>>,
               \A q \in Reqs \ outdated' : req'[q] = req[q] \/ JudgedRightly(q)'
        PROVE  Kept
    <2>1. \A q \in Reqs \ outdated' : JudgedRightly(q)'
      BY <1>1, <1>3, SameIsRight
    <2>2. SuitesRooted' /\ SuitesShallow'
      BY <1>1, <1>3 DEF SuitesRooted, SuitesShallow
    <2>3. QED
      BY <2>1, <2>2
  <1>4. ASSUME UNCHANGED vars PROVE Kept
    BY <1>3, <1>4 DEF vars
  <1>5. ASSUME NEW r \in Reqs, NEW job \in Jobs, Receive(r, job) PROVE Kept
    <2>1. \A q \in Reqs : req'[q] = req[q] \/ req'[q].phase # "commit"
      BY <1>5 DEF Receive, TypeOK
    <2>2. QED
      BY <1>3, <1>5, <2>1, DoneIsRight DEF Receive, tree
  <1>6. ASSUME NEW r \in Reqs, Serve(r) PROVE Kept
    <2>1. /\ \A q \in Reqs \ {r} : req'[q] = req[q]
          /\ ~Quiet => req'[r].phase # "commit"
      BY <1>6, OneRequest DEF Done
    <2>2. CASE Quiet
      BY <1>1, <1>3, <1>6, <2>1, <2>2, JudgesRightly DEF Quiet, tree
    <2>3. CASE ~Quiet /\ CreateSuite(r)
      <3>1. req[r].job.parent \in suites \cup {Top}
        BY <2>3 DEF CreateSuite, Refuse, Quiet
      <3>2. QED
        BY <1>1, <2>1, <2>3, <3>1, MakingKeeps, DoneIsRight
    <2>4. CASE ~Quiet /\ UpdateSuite(r)
      <3> DEFINE s == req[r].job.suite
                 p == IF req[r].job.parent = Same THEN parent[s] ELSE req[r].job.parent
      <3>1. s \in suites /\ p \in suites \cup {Top}
        BY <2>4 DEF UpdateSuite, Refuse, Quiet
      <3>2. QED
        BY <1>1, <2>1, <2>4, <3>1, MovingKeeps, DoneIsRight
    <2>5. CASE ~Quiet /\ RemoveSuite(r)
      <3>1. suites' \subseteq suites /\ UNCHANGED <<parent, outdated, raced, branchMoved>>
        BY <2>5 DEF RemoveSuite, Refuse, Quiet
      <3>2. QED
        BY <1>3, <2>1, <2>5, <3>1, DoneIsRight
    <2>6. CASE ~Quiet /\ (CreateCase(r) \/ UpdateCase(r) \/ RemoveCase(r))
      <3>1. suites' \subseteq suites /\ UNCHANGED <<parent, outdated, raced, branchMoved>>
        BY <2>6 DEF CreateCase, UpdateCase, RemoveCase, WriteCase, Refuse, Quiet
      <3>2. QED
        BY <1>3, <2>1, <2>6, <3>1, DoneIsRight
    <2>7. Quiet \/ CreateSuite(r) \/ UpdateSuite(r) \/ RemoveSuite(r)
            \/ CreateCase(r) \/ UpdateCase(r) \/ RemoveCase(r)
      <3>1. JudgeNew(r) \/ FindSuite(r) \/ JudgeMove(r) \/ FindRemoved(r)
              \/ FindForCase(r) \/ JudgeCaseSuite(r) => Quiet
        BY DEF JudgeNew, FindSuite, JudgeMove, FindRemoved, FindForCase, JudgeCaseSuite,
               Pass, Refuse, Quiet
      <3>2. QED
        BY <1>6, <3>1 DEF Serve, ServeSuite, ServeCase
    <2>8. QED
      BY <2>2, <2>3, <2>4, <2>5, <2>6, <2>7
  <1>7. Kept
    <2> HIDE DEF Kept
    <2>1. QED
      BY <1>4, <1>5, <1>6 DEF Next
  <1>8. QED
    BY <1>2, <1>7 DEF JudgeInv

LEMMA JudgeInvariant == Spec => [](TypeOK /\ JudgeInv)
  <1>1. Init => JudgeInv
    BY JudgeInit
  <1>2. TypeOK /\ LossInv /\ TypeOK' /\ JudgeInv /\ [Next]_vars => JudgeInv'
    BY JudgeStep DEF LossInv
  <1>3. QED
    BY <1>1, <1>2, LossInvariant, PTL DEF Spec

\* As long as no create or move commits on a tree that another move has changed since it
\* was judged, the assembled tree shows every suite.
THEOREM NoneIsHidden == Spec => []EverySuiteIsShown
  <1>1. TypeOK /\ JudgeInv => EverySuiteIsShown
    BY MadeTypes, ShownIsRooted DEF JudgeInv, SuitesRooted, EverySuiteIsShown
  <1>2. QED
    BY <1>1, JudgeInvariant, PTL

\* The tree stays within three levels as long as nothing races and no suite that has
\* children is moved under another.
THEOREM LeavesKeepTheLimit == Spec => []DepthKeptForLeaves
  <1>1. TypeOK /\ JudgeInv => DepthKeptForLeaves
    <2>1. SUFFICES ASSUME TypeOK, JudgeInv, ~raced, ~branchMoved, NEW s \in suites
                   PROVE  Len(ancestorChain(parent, s)) <= MAX_SUITE_DEPTH
      BY DEF DepthKeptForLeaves, DepthWithinLimit
    <2>2. s \in Suites /\ parent \in Edges
      BY <2>1, MadeTypes DEF RowsAreEdges
    <2>3. QED
      BY <2>1, <2>2, ChainIsLeast DEF JudgeInv, SuitesShallow
  <1>2. QED
    BY <1>1, JudgeInvariant, PTL

-------------------------------------------------------------------------------
\* The form of a case

\* Nobody else has moved case c since a was read, or a tells where it is.
Holds(c, a) == others[c] = a.others => suiteOf[c] = a.suite

\* What this browser has saved so far it was told of.
NoneWritten == \A q \in Saving : save[q].answer # "ok"

NotAhead ==
  /\ \A c \in Cases : detail[c] # NoData => detail[c].others <= others[c]
  /\ \A c \in Cases : fetch[c].phase = "read" => fetch[c].answer.others <= others[c]
  /\ IsFilled => form.others <= others[form.case]
  /\ \A r \in Saving : save[r].form.others <= others[save[r].form.case]

\* A save under way is the request that its form was sent as.
SavesForm(r) ==
  /\ req[r] # Unsent
  /\ req[r].phase \in Phases =>
       /\ req[r].job.op = "updateCase" /\ req[r].job.case = save[r].form.case
       /\ req[r].job.suite # Same
       /\ save[r].kept => req[r].job.suite = save[r].form.suite
       /\ save[r].answer = "none"

SavesInv == \A r \in Saving : SavesForm(r) /\ (save[r].alone => Saving = {r})

\* As long as nothing it has saved is news, what the cache holds or is about to hold
\* tells where the cases are.
CachedHolds ==
  NoneWritten =>
    /\ \A c \in fresh : detail[c] # NoData /\ (~detail[c].crossed => Holds(c, detail[c]))
    /\ \A c \in Cases : fetch[c].phase = "read" /\ ~fetch[c].answer.crossed =>
                          Holds(c, fetch[c].answer)

\* So does a form that is sound, and every save under way was sent from it.
FilledHolds ==
  IsFilled /\ form.sound =>
    /\ NoneWritten => Holds(form.case, form)
    /\ \A q \in Saving : save[q].shown

\* So does what was sent, until it is written.
SavedHolds ==
  \A r \in Saving : save[r].alone /\ save[r].form.sound /\ save[r].answer = "none" =>
                      Holds(save[r].form.case, save[r].form)

FormInv ==
  /\ FormTypeOK /\ NotAhead /\ SavesInv
  /\ CachedHolds /\ FilledHolds /\ SavedHolds /\ ~undone

LEMMA FormStepIsNext ==
  ASSUME FormTypeOK, [FormNext]_formVars
  PROVE  [Next]_vars
  <1>1. ASSUME NEW r \in Reqs, NEW s \in Suites, Submit(r, s) PROVE [Next]_vars
    <2>1. form \in Fillings
      BY <1>1 DEF Submit, IsFilled, FormTypeOK
    <2>2. [op |-> "updateCase", case |-> form.case, suite |-> s] \in Jobs
      BY <2>1 DEF Fillings, Jobs
    <2>3. QED
      BY <1>1, <2>2 DEF Submit, Next
  <1>2. ASSUME NEW r \in Reqs, ServeAny(r) PROVE [Next]_vars
    BY <1>2 DEF ServeAny, Next
  <1>3. ASSUME NEW r \in Reqs, NEW job \in Jobs, Receive(r, job) PROVE [Next]_vars
    BY <1>3 DEF Next
  <1>4. QED
    BY <1>1, <1>2, <1>3
    DEF FormNext, formVars, Settle, FetchRead, FetchFails, FetchDone, OpenForm, Cancel

\* What the stored values are made of.
LEMMA FormParts ==
  ASSUME FormTypeOK
  PROVE  /\ \A c \in Cases : others[c] \in Nat
         /\ \A c \in Cases : detail[c] # NoData => detail[c] \in Answers
         /\ \A c \in Cases : \/ fetch[c] = Idle \/ fetch[c] = Asked
                             \/ fetch[c].phase = "read" /\ fetch[c].answer \in Answers
         /\ IsFilled <=> form \in Fillings
         /\ \A r \in Saving : r \in Reqs /\ save[r] \in Saves /\ save[r].form \in Fillings
         /\ \A r \in Reqs \ Saving : save[r] = NoData
  <1>1. IsFilled <=> form \in Fillings
    BY NoDataAssumption DEF FormTypeOK, IsFilled, Fillings
  <1>2. \A r \in Saving : r \in Reqs /\ save[r] \in Saves /\ save[r].form \in Fillings
    BY DEF FormTypeOK, Saving, Saves
  <1>3. QED
    BY <1>1, <1>2 DEF FormTypeOK, Saving

LEMMA AnswerType ==
  ASSUME TypeOK, FormTypeOK, NEW c \in Cases
  PROVE  Answer(c) \in Answers
  BY DEF Answer, Answers, TypeOK, FormTypeOK

LEMMA FilledType ==
  ASSUME NEW c \in Cases, NEW a \in Answers, NEW current \in BOOLEAN
  PROVE  Filled(c, a, current) \in Fillings
  BY DEF Filled, Fillings, Answers

\* Marks do not change the type of what is marked, nor what it says.
LEMMA CrossedKeeps ==
  ASSUME FormTypeOK, NEW c \in Cases, Crossed(c)
  PROVE  /\ detail' \in [Cases -> Answers \cup {NoData}]
         /\ fetch' \in [Cases -> [phase : {"read"}, answer : Answers] \cup {Idle, Asked}]
         /\ form' \in Fillings \cup [case : Cases] \cup {NoData}
         /\ \A d \in Cases : detail[d] # NoData =>
              /\ detail'[d] # NoData /\ detail'[d].others = detail[d].others
              /\ detail'[d].suite = detail[d].suite
              /\ ~detail'[d].crossed => ~detail[d].crossed /\ d # c
         /\ \A d \in Cases : detail'[d] # NoData => detail[d] # NoData
         /\ \A d \in Cases : fetch'[d].phase = "read" =>
              /\ fetch[d].phase = "read" /\ fetch'[d].answer.others = fetch[d].answer.others
              /\ fetch'[d].answer.suite = fetch[d].answer.suite
              /\ ~fetch'[d].answer.crossed => ~fetch[d].answer.crossed /\ d # c
         /\ IsFilled' <=> IsFilled
         /\ IsFilled => /\ form'.case = form.case /\ form'.others = form.others
                        /\ form'.suite = form.suite
                        /\ form'.sound => form.sound /\ form.case # c
  <1>1. /\ detail' \in [Cases -> Answers \cup {NoData}]
        /\ \A d \in Cases : detail[d] # NoData =>
              /\ detail'[d] # NoData /\ detail'[d].others = detail[d].others
              /\ detail'[d].suite = detail[d].suite
              /\ ~detail'[d].crossed => ~detail[d].crossed /\ d # c
        /\ \A d \in Cases : detail'[d] # NoData => detail[d] # NoData
    <2>1. CASE detail[c] = NoData
      <3>1. detail' = detail
        BY <2>1 DEF Crossed
      <3>2. QED
        BY <2>1, <3>1 DEF FormTypeOK
    <2>2. CASE detail[c] # NoData
      <3>1. /\ detail'[c] = [detail[c] EXCEPT !.crossed = TRUE] /\ detail[c] \in Answers
            /\ detail' = [detail EXCEPT ![c] = [detail[c] EXCEPT !.crossed = TRUE]]
            /\ \A d \in Cases \ {c} : detail'[d] = detail[d]
        BY <2>2 DEF Crossed, FormTypeOK
      <3>2. PICK a : a = [detail[c] EXCEPT !.crossed = TRUE]
        OBVIOUS
      <3>3. /\ a \in Answers /\ a.others = detail[c].others /\ a.suite = detail[c].suite
            /\ a.crossed
        BY ONLY <3>1, <3>2 DEF Answers
      <3>4. detail'[c] = a /\ a # NoData /\ detail' = [detail EXCEPT ![c] = a]
        BY <3>1, <3>2, <3>3, NoDataAssumption
      <3>5. QED
        BY <2>2, <3>1, <3>3, <3>4 DEF FormTypeOK
    <2>3. QED
      BY <2>1, <2>2
  <1>2. /\ fetch' \in [Cases -> [phase : {"read"}, answer : Answers] \cup {Idle, Asked}]
        /\ \A d \in Cases : fetch'[d].phase = "read" =>
              /\ fetch[d].phase = "read" /\ fetch'[d].answer.others = fetch[d].answer.others
              /\ fetch'[d].answer.suite = fetch[d].answer.suite
              /\ ~fetch'[d].answer.crossed => ~fetch[d].answer.crossed /\ d # c
    <2>1. CASE fetch[c].phase # "read"
      <3>1. fetch' = fetch
        BY <2>1 DEF Crossed
      <3>2. QED
        BY <2>1, <3>1 DEF FormTypeOK
    <2>2. CASE fetch[c].phase = "read"
      <3>1. fetch[c] \in [phase : {"read"}, answer : Answers]
        BY <2>2 DEF FormTypeOK, Idle, Asked
      <3>2. PICK a : a = [fetch[c].answer EXCEPT !.crossed = TRUE]
        OBVIOUS
      <3>3. /\ a \in Answers /\ a.others = fetch[c].answer.others
            /\ a.suite = fetch[c].answer.suite /\ a.crossed
        BY ONLY <3>1, <3>2 DEF Answers
      <3>4. /\ fetch'[c] = [fetch[c] EXCEPT !.answer = a]
            /\ fetch' = [fetch EXCEPT ![c] = [fetch[c] EXCEPT !.answer = a]]
            /\ \A d \in Cases \ {c} : fetch'[d] = fetch[d]
        BY <2>2, <3>2 DEF Crossed, FormTypeOK
      <3>5. fetch'[c] \in [phase : {"read"}, answer : Answers] /\ fetch'[c].answer = a
        BY ONLY <3>1, <3>3, <3>4
      <3>6. QED
        BY <2>2, <3>3, <3>4, <3>5 DEF FormTypeOK
    <2>3. QED
      BY <2>1, <2>2
  <1>3. /\ form' \in Fillings \cup [case : Cases] \cup {NoData}
        /\ IsFilled' <=> IsFilled
        /\ IsFilled => /\ form'.case = form.case /\ form'.others = form.others
                       /\ form'.suite = form.suite
                       /\ form'.sound => form.sound /\ form.case # c
    <2>1. CASE ~(IsFilled /\ form.case = c)
      <3>1. form' = form
        BY <2>1 DEF Crossed
      <3>2. QED
        BY <2>1, <3>1 DEF FormTypeOK, IsFilled
    <2>2. CASE IsFilled /\ form.case = c
      <3>1. form' = [form EXCEPT !.sound = FALSE] /\ form \in Fillings
        BY <2>2, FormParts DEF Crossed
      <3>2. /\ form' \in Fillings /\ form'.case = form.case /\ form'.others = form.others
            /\ form'.suite = form.suite /\ ~form'.sound
        BY ONLY <3>1 DEF Fillings
      <3>3. IsFilled'
        BY <3>2, NoDataAssumption DEF IsFilled, Fillings
      <3>4. QED
        BY <2>2, <3>2, <3>3
    <2>3. QED
      BY <2>1, <2>2
  <1>4. QED
    BY <1>1, <1>2, <1>3

\* A step of the server leaves the browser what it knows, or marks it.
LEMMA ServeAnyMarks ==
  ASSUME TypeOK, NEW r \in Reqs, ServeAny(r)
  PROVE  \/ UNCHANGED <<detail, fetch, form>>
         \/ /\ r \in Saving /\ req'[r] = Done /\ Writable(r)
            /\ req[r].job.case \in Cases /\ Crossed(req[r].job.case)
  <1>1. Writable(r) => req[r].job.case \in Cases
    BY MadeTypes DEF Writable, TypeOK
  <1>2. \/ UNCHANGED <<detail, fetch, form>>
        \/ (r \in Saving /\ req'[r] = Done) /\ Writable(r) /\ Crossed(req[r].job.case)
    BY ONLY ServeAny(r) DEF ServeAny
  <1>3. QED
    BY <1>1, <1>2

\* What is noted of a request that is served has its type.
LEMMA ServeAnyType ==
  ASSUME TypeOK, FormTypeOK, NEW r \in Reqs, ServeAny(r)
  PROVE  FormTypeOK'
  <1>1. others' \in [Cases -> Nat]
    BY DEF ServeAny, FormTypeOK
  <1>2. save' \in [Reqs -> Saves \cup {NoData}]
    <2>1. CASE save' = save
      BY <2>1 DEF FormTypeOK
    <2>2. CASE r \in Saving /\ save' # save
      <3>1. save[r] \in Saves
        BY <2>2, FormParts
      <3>2. PICK a \in {"ok", "error"} : save' = [save EXCEPT ![r].answer = a]
        BY <2>2 DEF ServeAny
      <3>3. [save[r] EXCEPT !.answer = a] \in Saves
        BY <3>1 DEF Saves
      <3>4. save' = [save EXCEPT ![r] = [save[r] EXCEPT !.answer = a]]
        BY <3>2
      <3>5. QED
        BY <3>3, <3>4 DEF FormTypeOK
    <2>3. QED
      BY <2>1, <2>2 DEF ServeAny
  <1>3. undone' \in BOOLEAN
    BY DEF ServeAny
  <1>4. /\ detail' \in [Cases -> Answers \cup {NoData}]
        /\ fetch' \in [Cases -> [phase : {"read"}, answer : Answers] \cup {Idle, Asked}]
        /\ form' \in Fillings \cup [case : Cases] \cup {NoData}
    BY ServeAnyMarks, CrossedKeeps DEF FormTypeOK
  <1>5. QED
    BY <1>1, <1>2, <1>3, <1>4 DEF ServeAny, FormTypeOK

LEMMA FormTypeStep == TypeOK /\ FormTypeOK /\ [FormNext]_formVars => FormTypeOK'
  <1> SUFFICES ASSUME TypeOK, FormTypeOK, [FormNext]_formVars PROVE FormTypeOK'
    OBVIOUS
  <1>1. CASE UNCHANGED screen
    BY <1>1 DEF screen, FormTypeOK
  <1>2. ASSUME NEW r \in Reqs, ServeAny(r) PROVE FormTypeOK'
    BY <1>2, ServeAnyType
  <1>3. ASSUME NEW r \in Reqs, Settle(r) PROVE FormTypeOK'
    <2>1. save' \in [Reqs -> Saves \cup {NoData}]
      BY <1>3 DEF Settle, FormTypeOK
    <2>2. fresh' \subseteq Cases /\ form' \in Fillings \cup [case : Cases] \cup {NoData}
      BY <1>3 DEF Settle, Invalidate, FormTypeOK
    <2>3. fetch' \in [Cases -> [phase : {"read"}, answer : Answers] \cup {Idle, Asked}]
      <3>1. CASE fetch' = fetch
        BY <3>1 DEF FormTypeOK
      <3>2. CASE Invalidate
        <4>1. ASSUME NEW c \in Cases, fetch[c].phase = "read"
              PROVE  [fetch[c] EXCEPT !.answer.crossed = TRUE]
                       \in [phase : {"read"}, answer : Answers]
          <5>1. fetch[c] \in [phase : {"read"}, answer : Answers]
            BY <4>1 DEF FormTypeOK, Idle, Asked
          <5>2. [fetch[c].answer EXCEPT !.crossed = TRUE] \in Answers
            BY <5>1 DEF Answers
          <5>3. QED
            BY <5>1, <5>2
        <4>2. QED
          BY <3>2, <4>1 DEF Invalidate, FormTypeOK
      <3>3. QED
        BY <1>3, <3>1, <3>2 DEF Settle
    <2>4. QED
      BY <1>3, <2>1, <2>2, <2>3 DEF Settle, FormTypeOK
  <1>4. ASSUME NEW r \in Reqs, NEW s \in Suites, Submit(r, s) PROVE FormTypeOK'
    <2>1. form \in Fillings
      BY <1>4, FormParts DEF Submit
    <2>2. [form |-> form, kept |-> s = form.suite, alone |-> Saving = {}, shown |-> TRUE,
           answer |-> "none"] \in Saves
      BY <2>1 DEF Saves
    <2>3. \A q \in Saving : [save[q] EXCEPT !.alone = FALSE] \in Saves
      BY FormParts DEF Saves
    <2>4. save' \in [Reqs -> Saves \cup {NoData}]
      BY <1>4, <2>2, <2>3 DEF Submit
    <2>5. QED
      BY <1>4, <2>4 DEF Submit, FormTypeOK
  <1>5. ASSUME NEW c \in Cases, FetchRead(c) PROVE FormTypeOK'
    BY <1>5, AnswerType DEF FetchRead, FormTypeOK
  <1>6. ASSUME NEW c \in Cases, FetchDone(c) PROVE FormTypeOK'
    <2>1. fetch[c].answer \in Answers
      BY <1>6, FormParts DEF FetchDone, Idle, Asked
    <2>2. form' \in Fillings \cup [case : Cases] \cup {NoData}
      BY <1>6, <2>1, FilledType DEF FetchDone, FormTypeOK
    <2>3. QED
      BY <1>6, <2>1, <2>2 DEF FetchDone, FormTypeOK
  <1>7. ASSUME NEW c \in Cases, NEW old \in BOOLEAN, OpenForm(c, old) PROVE FormTypeOK'
    <2>1. form' \in Fillings \cup [case : Cases] \cup {NoData}
      <3>1. CASE detail[c] = NoData
        BY <1>7, <3>1 DEF OpenForm, Loading
      <3>2. CASE detail[c] # NoData
        <4>1. detail[c] \in Answers /\ (c \in fresh /\ fetch[c] = Idle) \in BOOLEAN
          BY <3>2, FormParts
        <4>2. QED
          BY <1>7, <3>2, <4>1, FilledType DEF OpenForm
      <3>3. QED
        BY <3>1, <3>2
    <2>2. fetch' \in [Cases -> [phase : {"read"}, answer : Answers] \cup {Idle, Asked}]
      BY <1>7 DEF OpenForm, FormTypeOK
    <2>3. QED
      BY <1>7, <2>1, <2>2 DEF OpenForm, FormTypeOK
  <1>8. CASE Cancel
    <2>1. \A q \in Saving : [save[q] EXCEPT !.shown = FALSE] \in Saves
      BY FormParts DEF Saves
    <2>2. QED
      BY <1>8, <2>1 DEF Cancel, FormTypeOK
  <1>9. ASSUME NEW c \in Cases, FetchFails(c) PROVE FormTypeOK'
    BY <1>9 DEF FetchFails, FormTypeOK
  <1>10. MadeCases \subseteq Cases
    BY MadeTypes
  <1>11. QED
    BY <1>1, <1>2, <1>3, <1>4, <1>5, <1>6, <1>7, <1>8, <1>9, <1>10 DEF FormNext, formVars

\* What a save may change of the cases.
LEMMA SavesWrite ==
  ASSUME TypeOK, NEW r \in Reqs, Serve(r), req[r].job.op = "updateCase",
         req[r].job.suite # Same
  PROVE  \/ suiteOf' = suiteOf
         \/ /\ Writable(r) /\ req'[r] = Done
            /\ suiteOf' = [suiteOf EXCEPT ![req[r].job.case] = req[r].job.suite]
  <1>1. FindForCase(r) \/ JudgeCaseSuite(r) \/ UpdateCase(r)
    BY DEF Serve, ServeSuite, ServeCase, At, JudgeNew, CreateSuite, FindSuite, JudgeMove,
           UpdateSuite, FindRemoved, RemoveSuite, CreateCase, RemoveCase
  <1>2. CASE FindForCase(r) \/ JudgeCaseSuite(r)
    BY <1>2 DEF FindForCase, JudgeCaseSuite, Pass, Refuse, tree
  <1>3. CASE UpdateCase(r)
    <2>1. Refuse(r) => suiteOf' = suiteOf
      BY DEF Refuse, tree
    <2>2. CASE req[r].job.case \in cases /\ req[r].job.suite \in suites
      BY <1>3, <2>2 DEF UpdateCase, WriteCase, Writable, Finish, TypeOK
    <2>3. CASE ~(req[r].job.case \in cases /\ req[r].job.suite \in suites)
      BY <1>3, <2>1, <2>3 DEF UpdateCase, WriteCase
    <2>4. QED
      BY <2>2, <2>3
  <1>4. QED
    BY <1>1, <1>2, <1>3

\* Where somebody else has moved a case, nothing claims any more where it is.
LEMMA ClaimsStay ==
  ASSUME FormTypeOK, NEW r \in Reqs, ServeAny(r), r \notin Saving \/ suiteOf' = suiteOf,
         NEW c \in Cases, NEW n \in Nat, NEW s, n <= others[c],
         others[c] = n => suiteOf[c] = s
  PROVE  others'[c] = n => suiteOf'[c] = s
  <1>1. others[c] \in Nat
    BY FormParts
  <1>2. others'[c] = IF suiteOf'[c] # suiteOf[c] /\ r \notin Saving
                     THEN others[c] + 1 ELSE others[c]
    BY DEF ServeAny
  <1>3. CASE suiteOf'[c] = suiteOf[c]
    BY <1>2, <1>3
  <1>4. CASE suiteOf'[c] # suiteOf[c]
    BY <1>1, <1>2, <1>4
  <1>5. QED
    BY <1>3, <1>4

\* Nothing is written and nobody's form, cache or save changes.
LEMMA ReceiveFormInv ==
  ASSUME TypeOK, FormInv, NEW r \in Reqs, NEW job \in Jobs, Receive(r, job),
         UNCHANGED screen
  PROVE  FormInv'
  <1>1. FormTypeOK'
    BY DEF screen, FormInv, FormTypeOK
  <1>2. UNCHANGED <<suiteOf, others, detail, fresh, fetch, form, save, undone>>
    BY DEF Receive, tree, screen
  <1>3. Saving' = Saving
    BY <1>2 DEF Saving
  <1>4. SavesInv'
    <2>1. req[r] = Unsent /\ \A q \in Reqs \ {r} : req'[q] = req[q]
      BY DEF Receive, TypeOK
    <2>2. ASSUME NEW q \in Saving PROVE SavesForm(q)'
      <3>1. SavesForm(q) /\ q # r /\ q \in Reqs
        BY <2>1 DEF FormInv, SavesInv, SavesForm, Saving
      <3>2. QED
        BY <1>2, <2>1, <3>1 DEF SavesForm
    <2>3. QED
      BY <1>2, <1>3, <2>2 DEF FormInv, SavesInv
  <1>5. NotAhead' /\ CachedHolds' /\ FilledHolds' /\ SavedHolds'
    BY <1>2, <1>3
    DEF FormInv, NotAhead, CachedHolds, FilledHolds, SavedHolds, NoneWritten, Holds, IsFilled
  <1>6. QED
    BY <1>1, <1>2, <1>4, <1>5 DEF FormInv

LEMMA SubmitFormInv ==
  ASSUME TypeOK, FormInv, NEW r \in Reqs, NEW s \in Suites, Submit(r, s)
  PROVE  FormInv'
  <1>1. FormTypeOK'
    BY FormTypeStep DEF FormInv, FormNext
  <1>2. UNCHANGED <<suiteOf, others, detail, fresh, fetch, form, undone>>
    BY DEF Submit, Receive, tree
  <1>3. /\ req[r] = Unsent /\ \A q \in Reqs \ {r} : req'[q] = req[q]
        /\ req'[r] = [phase |-> "find",
                      job |-> [op |-> "updateCase", case |-> form.case, suite |-> s]]
        /\ IsFilled /\ form \in Fillings
    BY FormParts DEF FormInv, Submit, Receive, TypeOK
  <1>4. /\ r \notin Saving
        /\ save'[r] = [form |-> form, kept |-> s = form.suite, alone |-> Saving = {},
                       shown |-> TRUE, answer |-> "none"]
        /\ \A q \in Saving : save'[q] = [save[q] EXCEPT !.alone = FALSE]
        /\ \A q \in Reqs \ (Saving \cup {r}) : save'[q] = NoData
    <2>1. r \notin Saving
      BY <1>3 DEF FormInv, SavesInv, SavesForm
    <2>2. \A q \in Saving : q \in Reqs
      BY DEF Saving
    <2>3. QED
      BY <2>1, <2>2 DEF Submit
  <1>5. /\ save'[r].form = form /\ save'[r].answer = "none"
        /\ save'[r].kept => s = form.suite
        /\ save'[r].alone => Saving = {}
        /\ save'[r].shown
    <2>1. save'[r].kept = (s = form.suite) /\ save'[r].alone = (Saving = {})
      BY <1>4
    <2>2. save'[r].form = form /\ save'[r].answer = "none" /\ save'[r].shown = TRUE
      BY <1>4
    <2>3. QED
      BY <2>1, <2>2
  <1>6. \A q \in Saving :
          /\ q \in Reqs /\ save[q] \in Saves /\ save'[q].form = save[q].form
          /\ save'[q].kept = save[q].kept
          /\ save'[q].shown = save[q].shown /\ save'[q].answer = save[q].answer
          /\ save'[q].alone = FALSE
    BY <1>4, FormParts DEF FormInv, Saves
  <1>7. Saving' = Saving \cup {r}
    <2>1. save'[r] # NoData
      <3>1. save'[r] \in Saves
        BY <1>3, <1>4 DEF Saves
      <3>2. QED
        BY <3>1, NoDataAssumption
    <2>2. \A q \in Saving : save'[q] # NoData
      <3>1. \A q \in Saving : [save[q] EXCEPT !.alone = FALSE] \in Saves
        BY <1>6 DEF Saves
      <3>2. QED
        BY <1>4, <3>1, NoDataAssumption
    <2>3. Saving' = {q \in Reqs : save'[q] # NoData}
      BY DEF Saving
    <2>4. QED
      BY <1>4, <1>6, <2>1, <2>2, <2>3
  <1>8. NoneWritten' => NoneWritten
    BY <1>6, <1>7 DEF NoneWritten
  <1>9. NotAhead'
    BY <1>2, <1>3, <1>4, <1>6, <1>7 DEF FormInv, NotAhead, IsFilled
  <1>10. SavesInv'
    <2>1. ASSUME NEW q \in Saving PROVE SavesForm(q)' /\ ~save'[q].alone
      <3>1. SavesForm(q) /\ req'[q] = req[q]
        BY <1>3, <1>4, <1>6, <2>1 DEF FormInv, SavesInv
      <3>2. QED
        BY <1>6, <2>1, <3>1 DEF SavesForm
    <2>2. SavesForm(r)'
      <3>1. /\ req'[r] # Unsent /\ req'[r].job.op = "updateCase"
            /\ req'[r].job.case = form.case /\ req'[r].job.suite = s
        BY <1>3 DEF Unsent
      <3>2. s # Same
        BY TreeAssumption
      <3>3. QED
        BY <1>5, <3>1, <3>2 DEF SavesForm
    <2>3. save'[r].alone => Saving' = {r}
      BY <1>7, <1>5
    <2>4. QED
      BY <1>7, <2>1, <2>2, <2>3 DEF SavesInv
  <1>11. CachedHolds'
    BY <1>2, <1>8 DEF FormInv, CachedHolds, Holds
  <1>12. FilledHolds'
    BY <1>2, <1>4, <1>6, <1>7, <1>8 DEF FormInv, FilledHolds, Holds, IsFilled
  <1>13. SavedHolds'
    <2>1. ASSUME save'[r].alone, form.sound PROVE others[form.case] = form.others => suiteOf[form.case] = form.suite
      BY <1>3, <1>5, <2>1 DEF FormInv, FilledHolds, NoneWritten, Holds
    <2>2. QED
      BY <1>2, <1>6, <1>7, <1>5, <2>1 DEF SavedHolds, Holds
  <1>14. QED
    BY <1>1, <1>2, <1>9, <1>10, <1>11, <1>12, <1>13 DEF FormInv

LEMMA CancelFormInv ==
  ASSUME TypeOK, FormInv, Cancel
  PROVE  FormInv'
  <1>1. FormTypeOK'
    BY FormTypeStep DEF FormInv, FormNext
  <1>2. UNCHANGED <<suiteOf, req, others, detail, fresh, fetch, undone>> /\ form' = NoData
    BY DEF Cancel, vars
  <1>3. /\ \A q \in Saving : save'[q] = [save[q] EXCEPT !.shown = FALSE]
        /\ \A q \in Reqs \ Saving : save'[q] = NoData
        /\ \A q \in Saving : q \in Reqs
    BY DEF Cancel, Saving
  <1>4. \A q \in Saving :
          /\ save[q] \in Saves /\ save'[q].form = save[q].form
          /\ save'[q].kept = save[q].kept /\ save'[q].alone = save[q].alone
          /\ save'[q].answer = save[q].answer /\ save'[q] \in Saves
    <2>1. \A q \in Saving : save[q] \in Saves
      BY FormParts DEF FormInv
    <2>2. SUFFICES ASSUME NEW q \in Saving
                   PROVE  /\ save[q] \in Saves /\ save'[q].form = save[q].form
                          /\ save'[q].kept = save[q].kept /\ save'[q].alone = save[q].alone
                          /\ save'[q].answer = save[q].answer /\ save'[q] \in Saves
      OBVIOUS
    <2>3. save[q] \in Saves /\ save'[q] = [save[q] EXCEPT !.shown = FALSE]
      BY <1>3, <2>1
    <2>4. save'[q] \in Saves
      BY ONLY <2>3 DEF Saves
    <2>5. QED
      BY ONLY <2>3, <2>4 DEF Saves
  <1>5. Saving' = Saving
    <2>1. Saving' = {q \in Reqs : save'[q] # NoData}
      BY DEF Saving
    <2>2. QED
      BY <1>3, <1>4, <2>1, NoDataAssumption
  <1>6. ~IsFilled'
    BY <1>2 DEF IsFilled
  <1>7. NotAhead'
    BY <1>2, <1>4, <1>5, <1>6 DEF FormInv, NotAhead
  <1>8. SavesInv'
    BY <1>2, <1>4, <1>5 DEF FormInv, SavesInv, SavesForm
  <1>9. NoneWritten' => NoneWritten
    BY <1>4, <1>5 DEF NoneWritten
  <1>10. CachedHolds' /\ SavedHolds'
    BY <1>2, <1>4, <1>5, <1>9 DEF FormInv, CachedHolds, SavedHolds, Holds
  <1>11. FilledHolds'
    BY <1>6 DEF FilledHolds
  <1>12. QED
    BY <1>1, <1>2, <1>7, <1>8, <1>10, <1>11 DEF FormInv

LEMMA SettleFormInv ==
  ASSUME TypeOK, FormInv, NEW r \in Reqs, Settle(r)
  PROVE  FormInv'
  <1>1. FormTypeOK'
    BY FormTypeStep DEF FormInv, FormNext
  <1>2. /\ UNCHANGED <<suiteOf, req, others, detail, undone>>
        /\ r \in Saving /\ save[r].answer # "none"
        /\ save' = [save EXCEPT ![r] = NoData]
    BY DEF Settle, vars
  <1>3. Saving' = Saving \ {r} /\ \A q \in Saving' : save'[q] = save[q]
    <2>1. save \in [Reqs -> Saves \cup {NoData}]
      BY DEF FormInv, FormTypeOK
    <2>2. save'[r] = NoData /\ \A q \in Reqs \ {r} : save'[q] = save[q]
      BY <1>2, <2>1
    <2>3. Saving' = {q \in Reqs : save'[q] # NoData}
      BY DEF Saving
    <2>4. QED
      BY <2>2, <2>3 DEF Saving
  <1>4. SavesInv'
    <2>1. ASSUME NEW q \in Saving' PROVE SavesForm(q)' /\ ~save[q].alone
      <3>1. q \in Saving /\ q # r /\ save'[q] = save[q]
        BY <1>3
      <3>2. SavesForm(q) /\ (save[q].alone => Saving = {q})
        BY <3>1 DEF FormInv, SavesInv
      <3>3. QED
        BY <1>2, <3>1, <3>2 DEF SavesForm
    <2>2. QED
      BY <1>3, <2>1 DEF SavesInv
  <1>5. SavedHolds'
    BY <1>2, <1>3 DEF FormInv, SavedHolds, Holds
  <1>6. CASE save[r].answer # "ok"
    <2>1. UNCHANGED <<fresh, fetch, form>>
      BY <1>6 DEF Settle
    <2>2. NoneWritten' => NoneWritten
      BY <1>3, <1>6 DEF NoneWritten
    <2>3. NotAhead' /\ CachedHolds' /\ FilledHolds'
      BY <1>2, <1>3, <2>1, <2>2
      DEF FormInv, NotAhead, CachedHolds, FilledHolds, Holds, IsFilled
    <2>4. QED
      BY <1>1, <1>2, <1>4, <1>5, <2>3 DEF FormInv
  <1>7. CASE save[r].answer = "ok"
    <2>1. Invalidate /\ form' = IF save[r].shown THEN NoData ELSE form
      BY <1>7 DEF Settle
    <2>2. IsFilled' => form' = form /\ IsFilled /\ ~form.sound
      BY <1>2, <2>1 DEF IsFilled, FormInv, FilledHolds
    <2>3. ASSUME NEW c \in Cases, fetch'[c].phase = "read"
          PROVE  /\ fetch[c].phase = "read" /\ fetch'[c].answer.crossed
                 /\ fetch'[c].answer.others = fetch[c].answer.others
      <3>1. fetch'[c] # Asked
        BY <2>3 DEF Asked
      <3>2. fetch'[c] = IF fetch[c].phase = "read"
                        THEN [fetch[c] EXCEPT !.answer.crossed = TRUE] ELSE fetch[c]
        BY <2>1, <3>1 DEF Invalidate
      <3>3. fetch[c].phase = "read"
        BY <2>3, <3>2
      <3>4. fetch[c] \in [phase : {"read"}, answer : Answers]
        BY <3>3 DEF FormInv, FormTypeOK, Idle, Asked
      <3>5. fetch'[c].answer = [fetch[c].answer EXCEPT !.crossed = TRUE]
        BY <3>2, <3>3, <3>4
      <3>6. QED
        BY <3>3, <3>4, <3>5 DEF Answers
    <2>4. CachedHolds'
      BY <2>1, <2>3 DEF CachedHolds, Invalidate
    <2>5. FilledHolds'
      BY <2>2 DEF FilledHolds
    <2>6. NotAhead'
      BY <1>2, <1>3, <2>2, <2>3 DEF FormInv, NotAhead
    <2>7. QED
      BY <1>1, <1>2, <1>4, <1>5, <2>4, <2>5, <2>6 DEF FormInv
  <1>8. QED
    BY <1>6, <1>7

\* The saves are what they were, and so is the tree.
LEMMA SavesAsTheyWere ==
  ASSUME FormInv, UNCHANGED <<req, suiteOf, others, save>>
  PROVE  /\ Saving' = Saving /\ (NoneWritten' <=> NoneWritten)
         /\ SavesInv' /\ SavedHolds'
         /\ \A r \in Saving : save'[r].form.others <= others'[save'[r].form.case]
  <1>1. Saving' = Saving
    BY DEF Saving
  <1>2. QED
    BY <1>1 DEF FormInv, NoneWritten, SavesInv, SavesForm, SavedHolds, Holds, NotAhead

LEMMA FetchReadFormInv ==
  ASSUME TypeOK, FormInv, NEW c \in Cases, FetchRead(c)
  PROVE  FormInv'
  <1>1. FormTypeOK'
    <2>1. c \in cases => c \in MadeCases
      BY DEF TypeOK
    <2>2. fetch' \in [Cases -> [phase : {"read"}, answer : Answers] \cup {Idle, Asked}]
      BY AnswerType DEF FetchRead, FormInv, FormTypeOK
    <2>3. QED
      BY <2>2 DEF FetchRead, FormInv, FormTypeOK
  <1>2. UNCHANGED <<req, suiteOf, others, detail, fresh, form, save, undone>>
    BY DEF FetchRead, vars
  <1>3. ASSUME NEW d \in Cases, fetch'[d].phase = "read"
        PROVE  \/ fetch'[d] = fetch[d]
               \/ fetch'[d].answer.others = others[d] /\ fetch'[d].answer.suite = suiteOf[d]
    <2>1. CASE d # c
      BY <2>1 DEF FetchRead, FormInv, FormTypeOK
    <2>2. CASE d = c
      BY <1>3, <2>2 DEF FetchRead, FormInv, FormTypeOK, Answer, Idle
    <2>3. QED
      BY <2>1, <2>2
  <1>4. NotAhead'
    BY <1>2, <1>3, SavesAsTheyWere, FormParts DEF FormInv, NotAhead, IsFilled
  <1>5. CachedHolds' /\ FilledHolds'
    BY <1>2, <1>3, SavesAsTheyWere DEF FormInv, CachedHolds, FilledHolds, Holds, IsFilled
  <1>6. QED
    BY <1>1, <1>2, <1>4, <1>5, SavesAsTheyWere DEF FormInv

LEMMA FetchFailsFormInv ==
  ASSUME TypeOK, FormInv, NEW c \in Cases, FetchFails(c), FormTypeOK'
  PROVE  FormInv'
  <1>1. UNCHANGED <<req, suiteOf, others, detail, fresh, form, save, undone>>
    BY DEF FetchFails, vars
  <1>2. \A d \in Cases : fetch'[d].phase = "read" => fetch'[d] = fetch[d]
    BY DEF FetchFails, FormInv, FormTypeOK, Idle
  <1>3. NotAhead' /\ CachedHolds' /\ FilledHolds'
    BY <1>1, <1>2, SavesAsTheyWere
    DEF FormInv, NotAhead, CachedHolds, FilledHolds, Holds, IsFilled
  <1>4. QED
    BY <1>1, <1>3, SavesAsTheyWere DEF FormInv

LEMMA FetchDoneFormInv ==
  ASSUME TypeOK, FormInv, NEW c \in Cases, FetchDone(c), FormTypeOK'
  PROVE  FormInv'
  <1>1. /\ UNCHANGED <<req, suiteOf, others, save, undone>>
        /\ fetch[c].phase = "read" /\ fresh' = fresh \cup {c}
        /\ form' = IF form = Loading(c) THEN Filled(c, fetch[c].answer, TRUE) ELSE form
    BY DEF FetchDone, vars
  <1>2. /\ fetch'[c] = Idle /\ detail'[c] = fetch[c].answer
        /\ \A d \in Cases \ {c} : fetch'[d] = fetch[d] /\ detail'[d] = detail[d]
    BY DEF FetchDone, FormInv, FormTypeOK
  <1>3. fetch[c].answer \in Answers /\ Idle.phase # "read"
    BY <1>1, FormParts DEF FormInv, Idle, Asked
  <1>4. detail'[c] # NoData
    BY <1>2, <1>3, NoDataAssumption
  <1>5. IsFilled' => \/ form' = form /\ IsFilled
                     \/ form' = Filled(c, fetch[c].answer, TRUE)
    BY <1>1 DEF IsFilled
  <1>6. NotAhead'
    BY <1>1, <1>2, <1>3, <1>5, SavesAsTheyWere DEF FormInv, NotAhead, Filled
  <1>7. CachedHolds'
    <2>1. SUFFICES ASSUME NoneWritten' PROVE CachedHolds'
      BY DEF CachedHolds
    <2>2. NoneWritten
      BY <1>1, <2>1, SavesAsTheyWere
    <2>3. ASSUME NEW d \in fresh'
          PROVE  detail'[d] # NoData /\ (~detail'[d].crossed => Holds(d, detail[d])')
      <3>1. CASE d = c
        <4>1. ~fetch[c].answer.crossed => Holds(c, fetch[c].answer)
          BY <1>1, <2>2 DEF FormInv, CachedHolds
        <4>2. QED
          BY <1>1, <1>2, <1>4, <3>1, <4>1 DEF Holds
      <3>2. CASE d # c
        <4>1. d \in fresh /\ d \in Cases
          BY <1>1, <2>3, <3>2 DEF FormInv, FormTypeOK
        <4>2. QED
          BY <1>1, <1>2, <2>2, <3>2, <4>1 DEF FormInv, CachedHolds, Holds
      <3>3. QED
        BY <3>1, <3>2
    <2>4. ASSUME NEW d \in Cases, fetch'[d].phase = "read", ~fetch'[d].answer.crossed
          PROVE  Holds(d, fetch[d].answer)'
      <3>1. d # c /\ fetch'[d] = fetch[d]
        BY <1>2, <1>3, <2>4
      <3>2. QED
        BY <1>1, <2>2, <2>4, <3>1 DEF FormInv, CachedHolds, Holds
    <2>5. QED
      BY <2>3, <2>4 DEF CachedHolds
  <1>8. FilledHolds'
    <2>1. CASE form' = form /\ IsFilled
      BY <1>1, <2>1, SavesAsTheyWere DEF FormInv, FilledHolds, Holds
    <2>2. CASE form' = Filled(c, fetch[c].answer, TRUE)
      <3>1. /\ form'.case = c /\ form'.others = fetch[c].answer.others
            /\ form'.suite = fetch[c].answer.suite
            /\ form'.sound = (TRUE /\ ~fetch[c].answer.crossed /\ Saving = {})
        BY <2>2 DEF Filled
      <3>2. form'.sound => NoneWritten /\ Holds(c, fetch[c].answer) /\ Saving = {}
        BY <1>1, <3>1 DEF FormInv, CachedHolds, NoneWritten
      <3>3. QED
        BY <1>1, <3>1, <3>2, SavesAsTheyWere DEF FilledHolds, Holds
    <2>3. QED
      BY <1>5, <2>1, <2>2 DEF FilledHolds
  <1>9. QED
    BY <1>1, <1>6, <1>7, <1>8, SavesAsTheyWere DEF FormInv

LEMMA SoundIs ==
  ASSUME NEW c, NEW a, NEW current \in BOOLEAN, Filled(c, a, current).sound
  PROVE  current /\ ~a.crossed /\ Saving = {}
  BY DEF Filled

LEMMA OpenFormFormInv ==
  ASSUME TypeOK, FormInv, NEW c \in Cases, NEW old \in BOOLEAN, OpenForm(c, old), FormTypeOK'
  PROVE  FormInv'
  <1>1. /\ UNCHANGED <<req, suiteOf, others, detail, fresh, save, undone>>
        /\ form' = IF detail[c] = NoData THEN Loading(c)
                   ELSE Filled(c, detail[c], c \in fresh /\ fetch[c] = Idle)
    BY DEF OpenForm, vars
  <1>2. \A d \in Cases : fetch'[d].phase = "read" => fetch'[d] = fetch[d]
    BY DEF OpenForm, Asked, FormInv, FormTypeOK
  <1>3. IsFilled' => /\ detail[c] # NoData
                     /\ form' = Filled(c, detail[c], c \in fresh /\ fetch[c] = Idle)
    BY <1>1 DEF IsFilled, Loading
  <1>4. NotAhead'
    BY <1>1, <1>2, <1>3, SavesAsTheyWere DEF FormInv, NotAhead, Filled
  <1>5. CachedHolds'
    BY <1>1, <1>2, SavesAsTheyWere DEF FormInv, CachedHolds, Holds
  <1>6. FilledHolds'
    <2>1. SUFFICES ASSUME IsFilled', form'.sound PROVE FilledHolds'
      BY DEF FilledHolds
    <2>2. /\ form'.case = c /\ form'.others = detail[c].others
          /\ form'.suite = detail[c].suite
      BY <1>3, <2>1 DEF Filled
    <2>3. NoneWritten /\ Holds(c, detail[c]) /\ Saving = {}
      <3>1. c \in fresh /\ ~detail[c].crossed /\ Saving = {}
        BY <1>3, <2>1, SoundIs
      <3>2. QED
        BY <3>1 DEF FormInv, CachedHolds, NoneWritten
    <2>4. QED
      BY <1>1, <2>2, <2>3, SavesAsTheyWere DEF FilledHolds, Holds
  <1>7. QED
    BY <1>1, <1>4, <1>5, <1>6, SavesAsTheyWere DEF FormInv

\* What is noted of a save of this browser that is served.
LEMMA ServedSaves ==
  ASSUME TypeOK, FormInv, NEW r \in Reqs, ServeAny(r), FormTypeOK'
  PROVE  /\ Saving' = Saving
         /\ \A q \in Saving : /\ save'[q].form = save[q].form /\ save'[q].kept = save[q].kept
                              /\ save'[q].alone = save[q].alone
                              /\ save'[q].shown = save[q].shown
         /\ \A q \in Saving : save'[q].answer = "none" => save[q].answer = "none"
         /\ NoneWritten' => NoneWritten
         /\ SavesInv'
         /\ \A q \in Saving : save'[q].form.others <= others[save'[q].form.case]
         /\ r \in Saving /\ req'[r] = Done /\ Writable(r) =>
              \/ save'[r].answer = "ok"
              \/ save'[r].answer = "error" /\ Crossed(req[r].job.case)
  <1>1. /\ req[r].phase \in Phases /\ \A q \in Reqs \ {r} : req'[q] = req[q]
        /\ req'[r] = Done \/ req'[r].job = req[r].job
    BY OneRequest DEF ServeAny
  <1>2. r \in Saving => save[r] \in Saves /\ save[r].answer = "none"
    BY <1>1, FormParts DEF FormInv, SavesInv, SavesForm
  <1>3. \/ save' = save /\ (r \notin Saving \/ req'[r] # Done)
        \/ /\ r \in Saving /\ req'[r] = Done
           /\ \E a \in {"ok", "error"} :
                /\ save' = [save EXCEPT ![r].answer = a]
                /\ Writable(r) => a = "ok" \/ Crossed(req[r].job.case)
    <2>1. CASE r \notin Saving \/ req'[r] # Done
      BY <2>1 DEF ServeAny
    <2>2. CASE r \in Saving /\ req'[r] = Done /\ Writable(r)
      BY <2>2 DEF ServeAny
    <2>3. CASE r \in Saving /\ req'[r] = Done /\ ~Writable(r)
      BY <2>3 DEF ServeAny
    <2>4. QED
      BY <2>1, <2>2, <2>3
  <1>4. CASE save' = save /\ (r \notin Saving \/ req'[r] # Done)
    <2>1. Saving' = Saving
      BY <1>4 DEF Saving
    <2>2. ASSUME NEW q \in Saving PROVE SavesForm(q)'
      <3>1. SavesForm(q) /\ q \in Reqs
        BY <2>2 DEF FormInv, SavesInv, Saving
      <3>2. CASE q # r
        BY <1>1, <1>4, <3>1, <3>2 DEF SavesForm
      <3>3. CASE q = r
        <4>1. req'[r] # Done /\ req'[r].job = req[r].job
          BY <1>1, <1>4, <2>2, <3>3
        <4>2. req'[r] # Unsent
          BY OneRequest DEF ServeAny
        <4>3. QED
          BY <1>1, <1>4, <3>1, <3>3, <4>1, <4>2 DEF SavesForm
      <3>4. QED
        BY <3>2, <3>3
    <2>3. SavesInv'
      BY <1>4, <2>1, <2>2 DEF FormInv, SavesInv
    <2>4. QED
      BY <1>4, <2>1, <2>3 DEF NoneWritten, FormInv, NotAhead
  <1>5. CASE /\ r \in Saving /\ req'[r] = Done
             /\ \E a \in {"ok", "error"} :
                  /\ save' = [save EXCEPT ![r].answer = a]
                  /\ Writable(r) => a = "ok" \/ Crossed(req[r].job.case)
    <2>1. PICK a \in {"ok", "error"} :
            /\ save' = [save EXCEPT ![r].answer = a]
            /\ Writable(r) => a = "ok" \/ Crossed(req[r].job.case)
      BY <1>5
    <2>2. /\ \A q \in Reqs \ {r} : save'[q] = save[q]
          /\ save'[r] = [save[r] EXCEPT !.answer = a]
      BY <2>1 DEF FormInv, FormTypeOK
    <2>3. /\ save'[r].form = save[r].form /\ save'[r].kept = save[r].kept
          /\ save'[r].alone = save[r].alone /\ save'[r].shown = save[r].shown
          /\ save'[r].answer = a /\ save'[r] \in Saves
      BY <1>2, <1>5, <2>2 DEF Saves
    <2>4. Saving' = Saving
      <3>1. Saving' = {q \in Reqs : save'[q] # NoData}
        BY DEF Saving
      <3>2. save'[r] # NoData
        BY <2>3, NoDataAssumption
      <3>3. QED
        BY <1>5, <2>2, <3>1, <3>2 DEF Saving
    <2>5. \A q \in Saving : q \in Reqs
      BY DEF Saving
    <2>6. NoneWritten' => NoneWritten
      BY <1>2, <1>5, <2>2, <2>4, <2>5 DEF NoneWritten
    <2>7. ASSUME NEW q \in Saving
          PROVE  SavesForm(q)' /\ (save'[q].alone => Saving = {q})
      <3>1. SavesForm(q) /\ (save[q].alone => Saving = {q}) /\ q \in Reqs
        BY <2>5, <2>7 DEF FormInv, SavesInv
      <3>2. CASE q # r
        BY <1>1, <2>2, <3>1, <3>2 DEF SavesForm
      <3>3. CASE q = r
        BY <1>5, <2>3, <3>1, <3>3 DEF SavesForm, Done, Unsent, Phases
      <3>4. QED
        BY <3>2, <3>3
    <2>8. SavesInv'
      BY <2>4, <2>7 DEF SavesInv
    <2>9. QED
      BY <2>1, <2>2, <2>3, <2>4, <2>5, <2>6, <2>8 DEF FormInv, NotAhead
  <1>6. QED
    BY <1>3, <1>4, <1>5

\* What the browser knows it goes on knowing, or it is marked.
LEMMA ServedKnows ==
  ASSUME TypeOK, FormTypeOK, NEW r \in Reqs, ServeAny(r)
  PROVE  /\ \A d \in Cases : detail[d] # NoData =>
              /\ detail'[d] # NoData /\ detail'[d].others = detail[d].others
              /\ detail'[d].suite = detail[d].suite
              /\ ~detail'[d].crossed => ~detail[d].crossed
         /\ \A d \in Cases : detail'[d] # NoData => detail[d] # NoData
         /\ \A d \in Cases : fetch'[d].phase = "read" =>
              /\ fetch[d].phase = "read" /\ fetch'[d].answer.others = fetch[d].answer.others
              /\ fetch'[d].answer.suite = fetch[d].answer.suite
              /\ ~fetch'[d].answer.crossed => ~fetch[d].answer.crossed
         /\ IsFilled' <=> IsFilled
         /\ IsFilled => /\ form'.case = form.case /\ form'.others = form.others
                        /\ form'.suite = form.suite
                        /\ form'.sound => form.sound
  <1>1. CASE UNCHANGED <<detail, fetch, form>>
    BY <1>1 DEF IsFilled
  <1>2. CASE req[r].job.case \in Cases /\ Crossed(req[r].job.case)
    BY <1>2, CrossedKeeps
  <1>3. QED
    BY <1>1, <1>2, ServeAnyMarks

LEMMA ServeAnyFormInv ==
  ASSUME TypeOK, FormInv, NEW r \in Reqs, ServeAny(r), FormTypeOK'
  PROVE  FormInv'
  <1>1. fresh' = fresh /\ (IsFilled' <=> IsFilled) /\ FormTypeOK
    BY ServedKnows DEF ServeAny, FormInv
  <1>2. \A c \in Cases : others'[c] \in Nat /\ others[c] \in Nat /\ others'[c] >= others[c]
    BY DEF ServeAny, FormInv, FormTypeOK
  <1>3. NotAhead'
    <2>1. ASSUME NEW c \in Cases, detail'[c] # NoData PROVE detail'[c].others <= others'[c]
      <3>1. /\ detail[c] # NoData /\ detail'[c].others = detail[c].others
            /\ detail[c].others \in Nat /\ detail[c].others <= others[c]
        BY <1>1, <2>1, FormParts, ServedKnows DEF FormInv, NotAhead, Answers
      <3>2. QED
        BY <1>2, <3>1
    <2>2. ASSUME NEW c \in Cases, fetch'[c].phase = "read"
          PROVE  fetch'[c].answer.others <= others'[c]
      <3>1. /\ fetch[c].phase = "read" /\ fetch'[c].answer.others = fetch[c].answer.others
            /\ fetch[c].answer.others \in Nat /\ fetch[c].answer.others <= others[c]
        BY <1>1, <2>2, FormParts, ServedKnows DEF FormInv, NotAhead, Answers, Idle, Asked
      <3>2. QED
        BY <1>2, <3>1
    <2>3. ASSUME IsFilled PROVE form'.others <= others'[form'.case]
      <3>1. /\ form'.case = form.case /\ form'.others = form.others
            /\ form.others \in Nat /\ form.case \in Cases /\ form.others <= others[form.case]
        BY <1>1, <2>3, FormParts, ServedKnows DEF FormInv, NotAhead, Fillings
      <3>2. QED
        BY <1>2, <3>1
    <2>4. \A q \in Saving : /\ save'[q].form = save[q].form
                            /\ save[q].form.others \in Nat /\ save[q].form.case \in Cases
      BY <1>1, FormParts, ServedSaves DEF Fillings
    <2>5. QED
      BY <1>1, <1>2, <2>1, <2>2, <2>3, <2>4, ServedSaves DEF NotAhead
  <1>4. CASE r \notin Saving \/ suiteOf' = suiteOf
    <2>1. ~undone'
      BY <1>4 DEF ServeAny, FormInv
    <2>2. ASSUME NEW c \in Cases, NEW a, a.others \in Nat, a.others <= others[c], Holds(c, a)
          PROVE  others'[c] = a.others => suiteOf'[c] = a.suite
      BY <1>1, <1>4, <2>2, ClaimsStay DEF Holds
    <2>3. CachedHolds'
      <3>1. SUFFICES ASSUME NoneWritten PROVE CachedHolds'
        BY ServedSaves DEF CachedHolds
      <3>2. ASSUME NEW c \in fresh
            PROVE  /\ detail'[c] # NoData
                   /\ ~detail'[c].crossed =>
                        (others'[c] = detail'[c].others => suiteOf'[c] = detail'[c].suite)
        <4>1. /\ c \in Cases /\ detail[c] # NoData
              /\ ~detail[c].crossed => Holds(c, detail[c])
          BY <1>1, <3>1 DEF FormInv, CachedHolds, FormTypeOK
        <4>2. detail[c].others \in Nat /\ detail[c].others <= others[c]
          BY <1>1, <4>1, FormParts DEF FormInv, NotAhead, Answers
        <4>3. ~detail[c].crossed => (others'[c] = detail[c].others => suiteOf'[c] = detail[c].suite)
          BY <2>2, <4>1, <4>2
        <4>4. /\ detail'[c] # NoData /\ detail'[c].others = detail[c].others
              /\ detail'[c].suite = detail[c].suite
              /\ ~detail'[c].crossed => ~detail[c].crossed
          BY <1>1, <4>1, ServedKnows
        <4>5. QED
          BY <4>3, <4>4
      <3>3. ASSUME NEW c \in Cases, fetch'[c].phase = "read", ~fetch'[c].answer.crossed
            PROVE  others'[c] = fetch'[c].answer.others => suiteOf'[c] = fetch'[c].answer.suite
        <4>1. /\ fetch[c].phase = "read" /\ fetch'[c].answer.others = fetch[c].answer.others
              /\ fetch'[c].answer.suite = fetch[c].answer.suite /\ ~fetch[c].answer.crossed
          BY <1>1, <3>3, ServedKnows
        <4>2. Holds(c, fetch[c].answer)
          BY <3>1, <4>1 DEF FormInv, CachedHolds
        <4>3. fetch[c].answer.others \in Nat /\ fetch[c].answer.others <= others[c]
          BY <1>1, <4>1, FormParts DEF FormInv, NotAhead, Answers, Idle, Asked
        <4>4. QED
          BY <2>2, <4>1, <4>2, <4>3
      <3>4. QED
        BY <1>1, <3>2, <3>3 DEF CachedHolds, Holds
    <2>4. FilledHolds'
      <3>1. SUFFICES ASSUME IsFilled, form'.sound PROVE FilledHolds'
        BY <1>1 DEF FilledHolds
      <3>2. /\ form'.case = form.case /\ form'.others = form.others
            /\ form'.suite = form.suite /\ form.sound
        BY <1>1, <3>1, ServedKnows
      <3>3. \A q \in Saving' : save'[q].shown
        BY <3>1, <3>2, ServedSaves DEF FormInv, FilledHolds
      <3>4. ASSUME NoneWritten PROVE others'[form.case] = form.others => suiteOf'[form.case] = form.suite
        <4>1. form.case \in Cases /\ form.others \in Nat /\ form.others <= others[form.case]
          BY <1>1, <3>1, FormParts DEF FormInv, NotAhead, Fillings
        <4>2. Holds(form.case, form)
          BY <3>1, <3>2, <3>4 DEF FormInv, FilledHolds
        <4>3. QED
          BY <2>2, <4>1, <4>2
      <3>5. QED
        BY <3>2, <3>3, <3>4, ServedSaves DEF FilledHolds, Holds
    <2>5. SavedHolds'
      <3>1. SUFFICES ASSUME NEW q \in Saving, save[q].alone, save[q].form.sound,
                            save[q].answer = "none"
                     PROVE  others'[save[q].form.case] = save[q].form.others
                              => suiteOf'[save[q].form.case] = save[q].form.suite
        BY ServedSaves DEF SavedHolds, Holds
      <3>2. /\ save[q].form.case \in Cases /\ save[q].form.others \in Nat
            /\ save[q].form.others <= others[save[q].form.case]
        BY <1>1, FormParts DEF FormInv, NotAhead, Fillings
      <3>3. Holds(save[q].form.case, save[q].form)
        BY <3>1 DEF FormInv, SavedHolds
      <3>4. QED
        BY <2>2, <3>2, <3>3
    <2>6. QED
      BY <1>3, <2>1, <2>3, <2>4, <2>5, ServedSaves DEF FormInv
  <1>5. CASE r \in Saving /\ suiteOf' # suiteOf
    <2>1. req[r].phase \in Phases /\ Serve(r)
      BY OneRequest DEF ServeAny
    <2>2. /\ req[r].job.op = "updateCase" /\ req[r].job.case = save[r].form.case
          /\ req[r].job.suite # Same /\ save[r].answer = "none"
          /\ save[r].kept => req[r].job.suite = save[r].form.suite
          /\ save[r].alone => Saving = {r}
      BY <1>5, <2>1 DEF FormInv, SavesInv, SavesForm
    <2>3. /\ Writable(r) /\ req'[r] = Done
          /\ suiteOf' = [suiteOf EXCEPT ![req[r].job.case] = req[r].job.suite]
      BY <1>5, <2>1, <2>2, SavesWrite
    <2>4. \/ save'[r].answer = "ok"
          \/ save'[r].answer = "error" /\ Crossed(req[r].job.case)
      BY <1>5, <2>3, ServedSaves
    <2>5. \A c \in Cases : suiteOf'[c] # suiteOf[c] => /\ c = save[r].form.case
                                                       /\ suiteOf'[c] = req[r].job.suite
      BY <2>2, <2>3 DEF TypeOK
    <2>6. ~undone'
      <3>1. SUFFICES ASSUME save[r].kept, save[r].alone, save[r].form.sound, NEW c \in Cases,
                            suiteOf'[c] # suiteOf[c], others[c] = save[r].form.others
                     PROVE  FALSE
        BY DEF ServeAny, FormInv
      <3>2. Holds(save[r].form.case, save[r].form)
        BY <1>5, <2>2, <3>1 DEF FormInv, SavedHolds
      <3>3. QED
        BY <2>2, <2>5, <3>1, <3>2 DEF Holds
    <2>7. SavedHolds'
      <3>1. SUFFICES ASSUME NEW q \in Saving, save[q].alone, save'[q].answer = "none"
                     PROVE  FALSE
        BY ServedSaves DEF SavedHolds
      <3>2. q = r
        BY <1>5, <3>1 DEF FormInv, SavesInv
      <3>3. QED
        BY <2>4, <3>1, <3>2
    <2>8. CASE save'[r].answer = "ok"
      <3>1. ~NoneWritten'
        BY <1>5, <2>8, ServedSaves DEF NoneWritten
      <3>2. CachedHolds'
        BY <3>1 DEF CachedHolds
      <3>3. FilledHolds'
        BY <1>1, <3>1, ServedKnows, ServedSaves DEF FormInv, FilledHolds
      <3>4. QED
        BY <1>3, <2>6, <2>7, <3>2, <3>3, ServedSaves DEF FormInv
    <2>9. CASE Crossed(req[r].job.case)
      <3>1. PICK k \in Cases : k = req[r].job.case
        BY <2>3, MadeTypes DEF Writable, TypeOK
      <3>2. Crossed(k)
        BY <2>9, <3>1
      <3>3. \A c \in Cases : c # k => suiteOf'[c] = suiteOf[c] /\ others'[c] = others[c]
        <4>1. \A c \in Cases : others'[c] = others[c]
          BY <1>5 DEF ServeAny, FormInv, FormTypeOK
        <4>2. QED
          BY <2>2, <2>5, <3>1, <4>1
      <3>4. CachedHolds'
        <4>1. SUFFICES ASSUME NoneWritten PROVE CachedHolds'
          BY ServedSaves DEF CachedHolds
        <4>2. ASSUME NEW c \in fresh
              PROVE  /\ detail'[c] # NoData
                     /\ ~detail'[c].crossed =>
                          (others'[c] = detail'[c].others => suiteOf'[c] = detail'[c].suite)
          <5>1. /\ c \in Cases /\ detail[c] # NoData
                /\ ~detail[c].crossed => Holds(c, detail[c])
            BY <1>1, <4>1 DEF FormInv, CachedHolds, FormTypeOK
          <5>2. /\ detail'[c] # NoData /\ detail'[c].others = detail[c].others
                /\ detail'[c].suite = detail[c].suite
                /\ ~detail'[c].crossed => ~detail[c].crossed /\ c # k
            BY <1>1, <3>2, <5>1, CrossedKeeps
          <5>3. QED
            BY <3>3, <5>1, <5>2 DEF Holds
        <4>3. ASSUME NEW c \in Cases, fetch'[c].phase = "read", ~fetch'[c].answer.crossed
              PROVE  others'[c] = fetch'[c].answer.others
                       => suiteOf'[c] = fetch'[c].answer.suite
          <5>1. /\ fetch[c].phase = "read" /\ fetch'[c].answer.others = fetch[c].answer.others
                /\ fetch'[c].answer.suite = fetch[c].answer.suite
                /\ ~fetch[c].answer.crossed /\ c # k
            BY <1>1, <3>2, <4>3, CrossedKeeps
          <5>2. Holds(c, fetch[c].answer)
            BY <4>1, <5>1 DEF FormInv, CachedHolds
          <5>3. QED
            BY <3>3, <5>1, <5>2 DEF Holds
        <4>4. QED
          BY <1>1, <4>2, <4>3 DEF CachedHolds, Holds
      <3>5. FilledHolds'
        <4>1. SUFFICES ASSUME IsFilled, form'.sound PROVE FilledHolds'
          BY <1>1 DEF FilledHolds
        <4>2. /\ form'.case = form.case /\ form'.others = form.others
              /\ form'.suite = form.suite /\ form.sound /\ form.case # k
              /\ form.case \in Cases
          BY <1>1, <3>2, <4>1, CrossedKeeps, FormParts DEF Fillings
        <4>3. \A q \in Saving' : save'[q].shown
          BY <4>1, <4>2, ServedSaves DEF FormInv, FilledHolds
        <4>4. ASSUME NoneWritten
              PROVE  others'[form.case] = form.others => suiteOf'[form.case] = form.suite
          BY <3>3, <4>1, <4>2, <4>4 DEF FormInv, FilledHolds, Holds
        <4>5. QED
          BY <4>2, <4>3, <4>4, ServedSaves DEF FilledHolds, Holds
      <3>6. QED
        BY <1>3, <2>6, <2>7, <3>4, <3>5, ServedSaves DEF FormInv
    <2>10. QED
      BY <2>4, <2>8, <2>9
  <1>6. QED
    BY <1>4, <1>5

LEMMA FormStep == TypeOK /\ FormInv /\ [FormNext]_formVars => FormInv'
  <1> SUFFICES ASSUME TypeOK, FormInv, [FormNext]_formVars PROVE FormInv'
    OBVIOUS
  <1>1. FormTypeOK'
    BY FormTypeStep DEF FormInv
  <1>2. MadeCases \subseteq Cases
    BY MadeTypes
  <1>3. CASE UNCHANGED formVars
    <2>1. UNCHANGED <<req, suiteOf, others, detail, fresh, fetch, form, save, undone>>
      BY <1>3 DEF formVars, vars, screen
    <2>2. QED
      BY <1>1, <2>1, SavesAsTheyWere
      DEF FormInv, NotAhead, CachedHolds, FilledHolds, Holds, IsFilled
  <1>4. ASSUME NEW r \in Reqs, NEW job \in Jobs, Receive(r, job), UNCHANGED screen
        PROVE  FormInv'
    BY <1>4, ReceiveFormInv
  <1>5. ASSUME NEW r \in Reqs, ServeAny(r) PROVE FormInv'
    BY <1>1, <1>5, ServeAnyFormInv
  <1>6. ASSUME NEW r \in Reqs, Settle(r) PROVE FormInv'
    BY <1>6, SettleFormInv
  <1>7. ASSUME NEW r \in Reqs, NEW s \in Suites, Submit(r, s) PROVE FormInv'
    BY <1>7, SubmitFormInv
  <1>8. ASSUME NEW c \in Cases, FetchRead(c) \/ FetchDone(c) \/ FetchFails(c) PROVE FormInv'
    BY <1>1, <1>8, FetchReadFormInv, FetchDoneFormInv, FetchFailsFormInv
  <1>9. ASSUME NEW c \in Cases, NEW old \in BOOLEAN, OpenForm(c, old) PROVE FormInv'
    BY <1>1, <1>9, OpenFormFormInv
  <1>10. CASE Cancel
    BY <1>10, CancelFormInv
  <1>11. QED
    BY <1>2, <1>3, <1>4, <1>5, <1>6, <1>7, <1>8, <1>9, <1>10 DEF FormNext

LEMMA FormStart == FormInit => FormInv
  <1> SUFFICES ASSUME FormInit PROVE FormInv
    OBVIOUS
  <1>1. /\ others = [c \in Cases |-> 0] /\ detail = [c \in Cases |-> NoData] /\ fresh = {}
        /\ fetch = [c \in Cases |-> Idle] /\ form = NoData
        /\ save = [r \in Reqs |-> NoData] /\ undone = FALSE
    BY DEF FormInit
  <1>2. FormTypeOK
    BY <1>1 DEF FormTypeOK
  <1>3. ~IsFilled /\ Saving = {} /\ \A c \in Cases : fetch[c].phase # "read"
    BY <1>1 DEF IsFilled, Saving, Idle
  <1>4. QED
    BY <1>1, <1>2, <1>3
    DEF FormInv, NotAhead, SavesInv, CachedHolds, FilledHolds, SavedHolds

-------------------------------------------------------------------------------
\* The page

\* The tree A lacks no suite this browser made that is still there, and shows none it
\* deleted.
Covers(A) == A \cap gone = {} /\ (~raced => mine \cap suites \subseteq A)

\* What it was told, or will be, that it made was made, and what it deleted is gone.
ToldRightly ==
  /\ mine \subseteq MadeSuites /\ gone \subseteq MadeSuites \ suites
  /\ \A r \in Sending : /\ sent[r].made \subseteq MadeSuites
                        /\ sent[r].cut \subseteq MadeSuites \ suites

TreeCovers ==
  /\ treeFetch.phase = "read" => Covers(treeFetch.answer)
  /\ Loaded /\ treeFetch = Idle => Covers(seen)

\* A save of a suite whose parent field was left empty names no parent.
LeavesAlone(r) ==
  /\ req[r] # Unsent
  /\ sent[r].untouched /\ req[r].phase \in Phases =>
       req[r].job.op = "updateSuite" /\ req[r].job.parent = Same

PageInv ==
  /\ PageTypeOK
  /\ ToldRightly /\ TreeCovers
  /\ \A r \in Sending : LeavesAlone(r)
  /\ ~displaced

LEMMA PageParts ==
  ASSUME PageTypeOK
  PROVE  /\ Loaded => seen \in SUBSET Suites
         /\ treeFetch.phase = "read" => treeFetch.answer \in SUBSET Suites
         /\ modal # NoData => modal \in Modals
         /\ \A r \in Sending : r \in Reqs /\ sent[r] \in Sendings
         /\ \A r \in Reqs \ Sending : sent[r] = NoData
  BY DEF PageTypeOK, Loaded, Sending, Idle, Asked, Failed

LEMMA SentToServer ==
  ASSUME TypeOK, PageTypeOK, NEW r \in Reqs
  PROVE  /\ DeleteSuite(r) => \E s \in Suites :
              Send(r, [op |-> "removeSuite", suite |-> s], FALSE, FALSE)
         /\ DeleteCase(r) => \E c \in Cases :
              Send(r, [op |-> "removeCase", case |-> c], FALSE, FALSE)
         /\ \A p \in Suites \cup {Top} : SubmitModal(r, p) =>
              \/ \E s \in Suites : Send(r, [op |-> "createCase", suite |-> s], TRUE, FALSE)
              \/ Send(r, [op |-> "createSuite", parent |-> p], TRUE, FALSE)
              \/ \E s \in Suites : Send(r, [op |-> "updateSuite", suite |-> s,
                                            parent |-> ParentSent(p)],
                                        TRUE, p = modal.parent /\ p = Top)
  <1>1. MadeCases \subseteq Cases
    BY MadeTypes
  <1>2. Loaded => seen \subseteq Suites
    BY PageParts
  <1>3. modal # NoData /\ modal.of # NoData => modal.of \in Suites
    BY PageParts DEF Modals
  <1>4. QED
    BY <1>1, <1>2, <1>3 DEF DeleteSuite, DeleteCase, SubmitModal

\* What the page sends is a request like others.
LEMMA SentIsJob ==
  ASSUME TypeOK, PageTypeOK, NEW r \in Reqs,
         \/ DeleteSuite(r) \/ DeleteCase(r) \/ \E p \in Suites \cup {Top} : SubmitModal(r, p)
  PROVE  \E job \in Jobs, shown \in BOOLEAN, untouched \in BOOLEAN :
           /\ Send(r, job, shown, untouched)
           /\ untouched => job.op = "updateSuite" /\ job.parent = Same
  <1>1. CASE DeleteSuite(r)
    <2>1. PICK s \in Suites : Send(r, [op |-> "removeSuite", suite |-> s], FALSE, FALSE)
      BY <1>1, SentToServer
    <2>2. [op |-> "removeSuite", suite |-> s] \in Jobs
      BY DEF Jobs
    <2>3. QED
      BY <2>1, <2>2
  <1>2. CASE DeleteCase(r)
    <2>1. PICK c \in Cases : Send(r, [op |-> "removeCase", case |-> c], FALSE, FALSE)
      BY <1>2, SentToServer
    <2>2. [op |-> "removeCase", case |-> c] \in Jobs
      BY DEF Jobs
    <2>3. QED
      BY <2>1, <2>2
  <1>3. ASSUME NEW p \in Suites \cup {Top}, SubmitModal(r, p)
        PROVE  \E job \in Jobs, shown \in BOOLEAN, untouched \in BOOLEAN :
                 /\ Send(r, job, shown, untouched)
                 /\ untouched => job.op = "updateSuite" /\ job.parent = Same
    <2>1. ASSUME NEW s \in Suites, Send(r, [op |-> "createCase", suite |-> s], TRUE, FALSE)
          PROVE  \E job \in Jobs : Send(r, job, TRUE, FALSE)
      <3>1. [op |-> "createCase", suite |-> s] \in Jobs
        BY DEF Jobs
      <3>2. QED
        BY <2>1, <3>1
    <2>2. ASSUME Send(r, [op |-> "createSuite", parent |-> p], TRUE, FALSE)
          PROVE  \E job \in Jobs : Send(r, job, TRUE, FALSE)
      <3>1. [op |-> "createSuite", parent |-> p] \in Jobs
        BY DEF Jobs
      <3>2. QED
        BY <2>2, <3>1
    <2>3. ASSUME NEW s \in Suites,
                 Send(r, [op |-> "updateSuite", suite |-> s, parent |-> ParentSent(p)],
                      TRUE, p = modal.parent /\ p = Top)
          PROVE  \E job \in Jobs, untouched \in BOOLEAN :
                   /\ Send(r, job, TRUE, untouched)
                   /\ untouched => job.op = "updateSuite" /\ job.parent = Same
      <3>1. PICK job : job = [op |-> "updateSuite", suite |-> s, parent |-> ParentSent(p)]
        OBVIOUS
      <3>2. job \in Jobs
        BY <3>1 DEF Jobs, ParentSent
      <3>3. job.op = "updateSuite" /\ (p = Top => job.parent = Same)
        BY <3>1 DEF ParentSent
      <3>4. PICK untouched \in BOOLEAN : untouched = (p = modal.parent /\ p = Top)
        OBVIOUS
      <3>5. Send(r, job, TRUE, untouched)
        BY <2>3, <3>1, <3>4
      <3>6. QED
        BY <3>2, <3>3, <3>4, <3>5
    <2>4. QED
      BY <1>3, <2>1, <2>2, <2>3, SentToServer
  <1>4. QED
    BY <1>1, <1>2, <1>3

\* A step of the page is one of the forms, with which it shares the server, or none.
LEMMA PageStepIsForm ==
  ASSUME TypeOK, PageTypeOK, [PageNext]_pageVars
  PROVE  [FormNext]_formVars
  <1>1. ASSUME NEW r \in Reqs,
               \/ DeleteSuite(r) \/ DeleteCase(r)
               \/ \E p \in Suites \cup {Top} : SubmitModal(r, p)
        PROVE  FormNext
    BY <1>1, SentIsJob DEF Send, FormNext
  <1>2. ASSUME NEW r \in Reqs, ServePage(r) PROVE FormNext
    BY <1>2 DEF ServePage, FormNext
  <1>3. ASSUME NEW r \in Reqs, Answered(r) PROVE UNCHANGED formVars
    BY <1>3 DEF Answered
  <1>4. ASSUME AskTree \/ ReadTree \/ TreeArrives \/ TreeFails \/ CloseModal
                 \/ (\E s \in Suites \cup {Top} : Select(s))
                 \/ \E edits \in {"suite", "case"}, s \in Suites \cup {NoData} :
                      OpenModal(edits, s)
        PROVE  UNCHANGED formVars
    BY <1>4 DEF AskTree, ReadTree, TreeArrives, TreeFails, CloseModal, Select, OpenModal
  <1>5. ASSUME NEW r \in Reqs, \/ \E job \in Jobs : Receive(r, job) /\ UNCHANGED <<screen, page>>
                               \/ Settle(r) \/ \E s \in Suites : Submit(r, s)
        PROVE  FormNext
    BY <1>5 DEF FormNext
  <1>6. ASSUME NEW c \in MadeCases,
               \/ FetchRead(c) \/ FetchDone(c) \/ FetchFails(c)
               \/ \E old \in BOOLEAN : OpenForm(c, old)
        PROVE  FormNext
    BY <1>6 DEF FormNext
  <1>7. Cancel => FormNext
    BY DEF FormNext
  <1>8. UNCHANGED pageVars => UNCHANGED formVars
    BY DEF pageVars
  <1>9. QED
    BY <1>1, <1>2, <1>3, <1>4, <1>5, <1>6, <1>7, <1>8 DEF PageNext

\* Suites are made once and never come back, and a race is never forgotten.
LEMMA RowsGrow ==
  ASSUME TypeOK, TypeOK', [Next]_vars
  PROVE  /\ MadeSuites \subseteq MadeSuites' /\ suites' \cap MadeSuites \subseteq suites
         /\ raced => raced'
  <1>1. ASSUME NEW action, NEW target, Log(action, target) PROVE MadeSuites \subseteq MadeSuites'
    <2>1. audit \subseteq audit'
      BY <1>1 DEF Log
    <2>2. QED
      BY <2>1 DEF MadeSuites, Logged
  <1>2. MadeSuites \subseteq MadeSuites' /\ suites' \cap MadeSuites \subseteq suites
    <2>1. CASE UNCHANGED tree
      BY <2>1 DEF tree, MadeSuites, Logged
    <2>2. ASSUME NEW s \in Suites \ MadeSuites, NEW p, SuiteAdded(s, p)
          PROVE  MadeSuites \subseteq MadeSuites' /\ suites' \cap MadeSuites \subseteq suites
      BY <1>1, <2>2 DEF SuiteAdded
    <2>3. ASSUME NEW s, NEW p, SuiteMoved(s, p)
          PROVE  MadeSuites \subseteq MadeSuites' /\ suites' = suites
      BY <1>1, <2>3 DEF SuiteMoved
    <2>4. ASSUME NEW s, SuitesRemoved(s)
          PROVE  MadeSuites \subseteq MadeSuites' /\ suites' \subseteq suites
      BY <1>1, <2>4 DEF SuitesRemoved
    <2>5. ASSUME NEW c, NEW s, CaseWritten(c, s)
          PROVE  MadeSuites \subseteq MadeSuites' /\ suites' = suites
      BY <1>1, <2>5 DEF CaseWritten
    <2>6. ASSUME NEW c, CaseRemoved(c)
          PROVE  MadeSuites \subseteq MadeSuites' /\ suites' = suites
      BY <1>1, <2>6 DEF CaseRemoved
    <2>7. QED
      BY <2>1, <2>2, <2>3, <2>4, <2>5, <2>6, RowSteps
  <1>3. raced => raced'
    <2>1. ASSUME NEW r \in Reqs, CreateSuite(r) \/ UpdateSuite(r) PROVE raced => raced'
      BY <2>1 DEF CreateSuite, UpdateSuite, Refuse, Wrote
    <2>2. ASSUME NEW r \in Reqs, RemoveSuite(r) \/ CreateCase(r) \/ UpdateCase(r) \/ RemoveCase(r)
          PROVE  raced' = raced
      BY <2>2 DEF RemoveSuite, CreateCase, UpdateCase, RemoveCase, WriteCase, Refuse
    <2>3. ASSUME NEW r \in Reqs, \/ Refuse(r) \/ \E phase \in Phases : Pass(r, phase)
                                 \/ \E job \in Jobs : Receive(r, job)
          PROVE  raced' = raced
      BY <2>3 DEF Refuse, Pass, Receive
    <2>4. QED
      BY <2>1, <2>2, <2>3, RequestSteps DEF vars
  <1>4. QED
    BY <1>2, <1>3

\* What is shown is there, and is all there is unless a move raced with another.
LEMMA ShownIsThere ==
  ASSUME TypeOK, JudgeInv
  PROVE  Shown \subseteq suites /\ (~raced => Shown = suites)
  <1>1. RowsAreEdges
    BY MadeTypes
  <1>2. Shown = {s \in suites : Rooted(parent, s)}
    BY <1>1, ShownIsRooted
  <1>3. QED
    BY <1>2 DEF JudgeInv, SuitesRooted

\* The page knows nothing new, and of the server only new requests.
LEMMA PageStays ==
  ASSUME PageInv, UNCHANGED <<page, tree, raced>>,
         \A r \in Reqs : req[r] # Unsent => req'[r] = req[r]
  PROVE  PageInv'
  <1>1. UNCHANGED <<seen, treeFetch, selected, modal, sent, mine, gone, displaced,
                    suites, parent, audit, raced>>
    BY DEF page, tree
  <1>2. Sending' = Sending /\ MadeSuites' = MadeSuites /\ Sending \subseteq Reqs
    BY <1>1 DEF Sending, MadeSuites, Logged
  <1>3. \A r \in Sending : LeavesAlone(r)'
    BY <1>1, <1>2 DEF PageInv, LeavesAlone
  <1>4. QED
    BY <1>1, <1>2, <1>3
    DEF PageInv, PageTypeOK, ToldRightly, TreeCovers, Covers, Loaded

LEMMA SendPageInv ==
  ASSUME TypeOK, PageInv, NEW r \in Reqs, NEW job \in Jobs, NEW shown \in BOOLEAN,
         NEW untouched \in BOOLEAN, Send(r, job, shown, untouched),
         untouched => job.op = "updateSuite" /\ job.parent = Same
  PROVE  PageInv'
  <1>1. /\ UNCHANGED <<seen, treeFetch, selected, modal, mine, gone, displaced,
                       suites, parent, audit, raced>>
        /\ req[r] = Unsent /\ \A q \in Reqs \ {r} : req'[q] = req[q]
        /\ req'[r] = [phase |-> "find", job |-> job]
    BY DEF Send, Receive, tree, TypeOK
  <1> DEFINE new == [shown |-> shown, untouched |-> untouched, answer |-> "none",
                     made |-> {}, cut |-> {}]
  <1>2. /\ sent'[r] = new /\ \A q \in Reqs \ {r} : sent'[q] = sent[q]
        /\ new \in Sendings /\ sent' \in [Reqs -> Sendings \cup {NoData}]
    BY DEF Send, PageInv, PageTypeOK, Sendings
  <1>3. new.untouched = untouched /\ new.made = {} /\ new.cut = {}
    OBVIOUS
  <1> HIDE DEF new
  <1>4. Sending' \subseteq Sending \cup {r} /\ Sending \subseteq Reqs
    <2>1. Sending' = {q \in Reqs : sent'[q] # NoData}
      BY DEF Sending
    <2>2. QED
      BY <1>2, <2>1 DEF Sending
  <1>5. MadeSuites' = MadeSuites
    BY <1>1 DEF MadeSuites, Logged
  <1>6. PageTypeOK'
    BY <1>1, <1>2 DEF PageInv, PageTypeOK
  <1>7. ToldRightly'
    BY <1>1, <1>2, <1>3, <1>4, <1>5 DEF PageInv, ToldRightly
  <1>8. TreeCovers'
    BY <1>1 DEF PageInv, TreeCovers, Covers, Loaded
  <1>9. ASSUME NEW q \in Sending' PROVE LeavesAlone(q)'
    <2>1. CASE q = r
      <3>1. req'[r] # Unsent /\ req'[r].job = job
        BY <1>1 DEF Unsent
      <3>2. QED
        BY <1>2, <1>3, <2>1, <3>1 DEF LeavesAlone
    <2>2. CASE q # r
      <3>1. q \in Sending /\ q \in Reqs
        BY <1>4, <1>9, <2>2
      <3>2. QED
        BY <1>1, <1>2, <2>2, <3>1 DEF PageInv, LeavesAlone
    <2>3. QED
      BY <2>1, <2>2
  <1>10. QED
    BY <1>1, <1>6, <1>7, <1>8, <1>9 DEF PageInv

\* A save of a suite that names no parent leaves it where it is.
LEMMA SameStays ==
  ASSUME TypeOK, NEW r \in Reqs, Serve(r), req[r].job.op = "updateSuite",
         req[r].job.parent = Same
  PROVE  parent' = parent
  <1>1. FindSuite(r) \/ JudgeMove(r) \/ UpdateSuite(r)
    BY DEF Serve, ServeSuite, ServeCase, At, JudgeNew, CreateSuite, FindRemoved, RemoveSuite,
           FindForCase, JudgeCaseSuite, CreateCase, UpdateCase, RemoveCase
  <1>2. CASE FindSuite(r) \/ JudgeMove(r)
    BY <1>2 DEF FindSuite, JudgeMove, Pass, Refuse, tree
  <1>3. CASE UpdateSuite(r)
    <2>1. Refuse(r) \/ parent' = [parent EXCEPT ![req[r].job.suite] = parent[req[r].job.suite]]
      BY <1>3 DEF UpdateSuite
    <2>2. QED
      BY <2>1 DEF Refuse, tree, TypeOK
  <1>4. QED
    BY <1>1, <1>2, <1>3

\* A tree that covers what the browser was told keeps doing so while others work.
LEMMA CoversStays ==
  ASSUME TypeOK, TypeOK', [Next]_vars, ToldRightly, UNCHANGED <<mine, gone>>,
         NEW A, Covers(A)
  PROVE  A \cap gone' = {} /\ (~raced' => mine' \cap suites' \subseteq A)
  BY RowsGrow DEF Covers, ToldRightly

LEMMA ServePageInv ==
  ASSUME TypeOK, TypeOK', PageInv, NEW r \in Reqs, ServePage(r)
  PROVE  PageInv'
  <1>1. /\ UNCHANGED <<seen, treeFetch, selected, modal, mine, gone>> /\ Serve(r)
        /\ \A q \in Reqs \ {r} : req'[q] = req[q]
        /\ req'[r] # Unsent /\ (req'[r] = Done \/ req'[r].job = req[r].job)
        /\ req[r].phase \in Phases
    BY OneRequest DEF ServePage, ServeAny
  <1>2. [Next]_vars
    BY <1>1 DEF Next
  <1>3. /\ MadeSuites \subseteq MadeSuites' /\ suites' \cap MadeSuites \subseteq suites
        /\ suites \subseteq MadeSuites /\ suites' \subseteq MadeSuites'
        /\ MadeSuites' \subseteq Suites
    <2>1. MadeSuites' \subseteq Suites
      BY DEF TypeOK, Records, MadeSuites, Logged
    <2>2. QED
      BY <1>2, <2>1, RowsGrow DEF TypeOK
  <1>4. /\ sent' \in [Reqs -> Sendings \cup {NoData}] /\ Sending' \subseteq Sending
        /\ \A q \in Sending : /\ sent'[q].untouched = sent[q].untouched
                              /\ sent'[q].made \in {sent[q].made, suites' \ suites}
                              /\ sent'[q].cut \in {sent[q].cut, suites \ suites'}
    <2>1. CASE sent' = sent
      BY <2>1 DEF PageInv, PageTypeOK, Sending
    <2>2. CASE sent' # sent
      <3>1. r \in Sending /\ sent[r] \in Sendings
        BY <2>2, PageParts DEF ServePage, PageInv
      <3>2. PICK a \in {"ok", "error"} :
               sent' = [sent EXCEPT ![r].answer = a, ![r].made = suites' \ suites,
                                    ![r].cut = suites \ suites']
        BY <2>2 DEF ServePage
      <3>3. /\ \A q \in Reqs \ {r} : sent'[q] = sent[q]
            /\ sent'[r] = [sent[r] EXCEPT !.answer = a, !.made = suites' \ suites,
                                          !.cut = suites \ suites']
        BY <3>2 DEF PageInv, PageTypeOK
      <3>4. /\ sent'[r].untouched = sent[r].untouched
            /\ sent'[r].made = suites' \ suites /\ sent'[r].cut = suites \ suites'
            /\ sent'[r] \in Sendings
        <4>1. suites' \ suites \in SUBSET Suites /\ suites \ suites' \in SUBSET Suites
          BY <1>3
        <4>2. PICK made \in SUBSET Suites, cut \in SUBSET Suites :
                made = suites' \ suites /\ cut = suites \ suites'
          BY <4>1
        <4>3. sent'[r] = [sent[r] EXCEPT !.answer = a, !.made = made, !.cut = cut]
          BY <3>3, <4>2
        <4>4. sent[r] \in Sendings /\ a \in {"ok", "error"}
          BY <3>1
        <4>5. /\ sent'[r] \in Sendings /\ sent'[r].untouched = sent[r].untouched
              /\ sent'[r].made = made /\ sent'[r].cut = cut
          BY <4>3, <4>4 DEF Sendings
        <4>6. QED
          BY <4>2, <4>5
      <3>5. sent' \in [Reqs -> Sendings \cup {NoData}]
        BY <3>2, <3>3, <3>4 DEF PageInv, PageTypeOK
      <3>6. Sending' \subseteq Sending
        BY <3>1, <3>3, <3>4 DEF Sending
      <3>7. QED
        BY <3>3, <3>4, <3>5, <3>6 DEF Sending
    <2>3. QED
      BY <2>1, <2>2
  <1>5. PageTypeOK'
    BY <1>1, <1>4 DEF ServePage, PageInv, PageTypeOK
  <1>6. ToldRightly'
    BY <1>1, <1>3, <1>4 DEF PageInv, ToldRightly
  <1>7. TreeCovers'
    BY <1>1, <1>2, CoversStays DEF PageInv, TreeCovers, Covers, Loaded
  <1>8. ASSUME NEW q \in Sending PROVE LeavesAlone(q)'
    <2>1. LeavesAlone(q) /\ q \in Reqs
      BY <1>8 DEF PageInv, Sending
    <2>2. CASE q # r
      BY <1>1, <1>4, <1>8, <2>1, <2>2 DEF LeavesAlone
    <2>3. CASE q = r
      BY <1>1, <1>4, <1>8, <2>1, <2>3 DEF LeavesAlone, Done, Phases
    <2>4. QED
      BY <2>2, <2>3
  <1>9. ~displaced'
    <2>1. r \in Sending /\ sent[r].untouched => parent' = parent
      BY <1>1, SameStays DEF PageInv, LeavesAlone
    <2>2. QED
      BY <2>1 DEF ServePage, PageInv
  <1>10. QED
    BY <1>4, <1>5, <1>6, <1>7, <1>8, <1>9 DEF PageInv

\* An answer: what it told of is noted, and the tree is asked for again.
LEMMA AnsweredPageInv ==
  ASSUME TypeOK, PageInv, NEW r \in Reqs, Answered(r)
  PROVE  PageInv'
  <1>1. /\ UNCHANGED <<suites, audit, req, raced, seen, selected, displaced>>
        /\ r \in Sending /\ sent' = [sent EXCEPT ![r] = NoData]
    BY DEF Answered, formVars, vars
  <1>2. /\ sent[r] \in Sendings
        /\ sent[r].made \subseteq MadeSuites /\ sent[r].cut \subseteq MadeSuites \ suites
    BY <1>1, PageParts DEF PageInv, ToldRightly
  <1>3. MadeSuites' = MadeSuites /\ MadeSuites \subseteq Suites
    BY <1>1, MadeTypes DEF MadeSuites, Logged
  <1>4. /\ sent' \in [Reqs -> Sendings \cup {NoData}] /\ Sending' \subseteq Sending
        /\ \A q \in Sending' : sent'[q] = sent[q]
    <2>1. sent'[r] = NoData /\ \A q \in Reqs \ {r} : sent'[q] = sent[q]
      BY <1>1 DEF PageInv, PageTypeOK
    <2>2. Sending' = {q \in Reqs : sent'[q] # NoData}
      BY DEF Sending
    <2>3. QED
      BY <1>1, <2>1, <2>2 DEF Sending, PageInv, PageTypeOK
  <1>5. /\ mine' \subseteq mine \cup sent[r].made /\ gone' \subseteq gone \cup sent[r].cut
        /\ treeFetch' \in {treeFetch, Asked}
        /\ modal' \in {modal, NoData}
        /\ (mine' = mine /\ gone' = gone) \/ treeFetch' = Asked
    <2>1. CASE sent[r].answer # "ok"
      BY <2>1 DEF Answered
    <2>2. CASE sent[r].answer = "ok"
      <3>1. /\ InvalidateTree /\ modal' = IF sent[r].shown THEN NoData ELSE modal
            /\ mine' = IF Loaded THEN mine \cup sent[r].made ELSE mine
            /\ gone' = IF Loaded THEN gone \cup sent[r].cut ELSE gone
        BY <2>2 DEF Answered
      <3>2. CASE Loaded
        BY <3>1, <3>2 DEF InvalidateTree
      <3>3. CASE ~Loaded
        BY <3>1, <3>3 DEF InvalidateTree
      <3>4. QED
        BY <3>2, <3>3
    <2>3. QED
      BY <2>1, <2>2
  <1>6. PageTypeOK'
    BY <1>1, <1>2, <1>3, <1>4, <1>5 DEF PageInv, PageTypeOK
  <1>7. ToldRightly'
    BY <1>1, <1>2, <1>3, <1>4, <1>5 DEF PageInv, ToldRightly
  <1>8. TreeCovers'
    <2>1. CASE treeFetch' = Asked
      BY <2>1 DEF TreeCovers, Asked, Idle
    <2>2. CASE treeFetch' = treeFetch /\ mine' = mine /\ gone' = gone
      BY <1>1, <2>2 DEF PageInv, TreeCovers, Covers, Loaded
    <2>3. QED
      BY <1>5, <2>1, <2>2
  <1>9. \A q \in Sending' : LeavesAlone(q)'
    BY <1>1, <1>4 DEF PageInv, LeavesAlone
  <1>10. QED
    BY <1>1, <1>6, <1>7, <1>8, <1>9 DEF PageInv

\* What the page does by itself.
LEMMA AlonePageInv ==
  ASSUME TypeOK, JudgeInv, PageInv,
         \/ AskTree \/ ReadTree \/ TreeArrives \/ TreeFails \/ CloseModal
         \/ (\E s \in Suites \cup {Top} : Select(s))
         \/ \E edits \in {"suite", "case"}, s \in Suites \cup {NoData} : OpenModal(edits, s)
  PROVE  PageInv'
  <1>1. UNCHANGED <<suites, audit, req, raced, mine, gone, displaced>>
    BY DEF AskTree, ReadTree, TreeArrives, TreeFails, CloseModal, Select, OpenModal, formVars,
           vars
  <1>2. MadeSuites' = MadeSuites
    BY <1>1 DEF MadeSuites, Logged
  <1>3. /\ sent' \in [Reqs -> Sendings \cup {NoData}] /\ Sending' \subseteq Sending
        /\ \A q \in Sending : /\ sent'[q].untouched = sent[q].untouched
                              /\ sent'[q].made = sent[q].made /\ sent'[q].cut = sent[q].cut
    <2>1. CASE sent' = sent
      BY <2>1 DEF PageInv, PageTypeOK, Sending
    <2>2. CASE CloseModal
      <3>1. \A q \in Sending : q \in Reqs /\ sent[q] \in Sendings
        BY PageParts DEF PageInv
      <3>2. /\ \A q \in Sending : sent'[q] = [sent[q] EXCEPT !.shown = FALSE]
            /\ \A q \in Reqs \ Sending : sent'[q] = NoData
            /\ sent' = [q \in Reqs |-> IF q \in Sending THEN [sent[q] EXCEPT !.shown = FALSE]
                                       ELSE NoData]
        BY <2>2, <3>1 DEF CloseModal
      <3>3. \A q \in Sending : /\ [sent[q] EXCEPT !.shown = FALSE] \in Sendings
                               /\ sent'[q].untouched = sent[q].untouched
                               /\ sent'[q].made = sent[q].made /\ sent'[q].cut = sent[q].cut
        BY <3>1, <3>2 DEF Sendings
      <3>4. Sending' = {q \in Reqs : sent'[q] # NoData}
        BY DEF Sending
      <3>5. QED
        BY <3>1, <3>2, <3>3, <3>4
    <2>3. QED
      BY <2>1, <2>2 DEF AskTree, ReadTree, TreeArrives, TreeFails, Select, OpenModal
  <1>4. ToldRightly' /\ \A q \in Sending' : LeavesAlone(q)'
    BY <1>1, <1>2, <1>3 DEF PageInv, ToldRightly, LeavesAlone
  <1>5. /\ seen' \in (SUBSET Suites) \cup {NoData}
        /\ treeFetch' \in [phase : {"read"}, answer : SUBSET Suites]
                            \cup {Idle, Asked, Failed}
        /\ TreeCovers'
    <2>1. CASE seen' = seen /\ treeFetch' \in {treeFetch, Asked, Failed}
      <3>1. TreeCovers'
        BY <1>1, <2>1 DEF PageInv, TreeCovers, Covers, Loaded, Asked, Idle, Failed
      <3>2. QED
        BY <2>1, <3>1 DEF PageInv, PageTypeOK
    <2>2. CASE ReadTree
      <3>1. Shown \subseteq Suites /\ Covers(Shown)
        BY ShownIsThere, MadeTypes DEF PageInv, ToldRightly, Covers, RowsAreEdges
      <3>2. treeFetch' = [phase |-> "read", answer |-> Shown] /\ seen' = seen
        BY <2>2 DEF ReadTree
      <3>3. treeFetch' # Idle /\ treeFetch'.answer = Shown
        BY <3>2 DEF Idle
      <3>4. TreeCovers'
        BY <1>1, <3>1, <3>3 DEF TreeCovers, Covers
      <3>5. QED
        BY <3>1, <3>2, <3>4 DEF PageInv, PageTypeOK
    <2>3. CASE TreeArrives
      <3>1. /\ treeFetch.phase = "read" /\ treeFetch' = Idle /\ seen' = treeFetch.answer
            /\ treeFetch.answer \in SUBSET Suites
        BY <2>3, PageParts DEF TreeArrives, PageInv
      <3>2. Covers(treeFetch.answer) /\ treeFetch'.phase # "read"
        BY <3>1 DEF PageInv, TreeCovers, Idle
      <3>3. TreeCovers'
        BY <1>1, <3>1, <3>2 DEF TreeCovers, Covers
      <3>4. QED
        BY <3>1, <3>3
    <2>4. QED
      BY <2>1, <2>2, <2>3 DEF AskTree, TreeFails, CloseModal, Select, OpenModal
  <1>6. selected' \in Suites \cup {Top} /\ modal' \in Modals \cup {NoData}
    <2>1. ASSUME NEW s \in Suites \cup {Top}, Select(s)
          PROVE  selected' \in Suites \cup {Top} /\ modal' = modal
      BY <2>1 DEF Select
    <2>2. ASSUME NEW edits \in {"suite", "case"}, NEW s \in Suites \cup {NoData},
                 OpenModal(edits, s)
          PROVE  selected' = selected /\ modal' \in Modals
      BY <2>2 DEF OpenModal, Modals, PageInv, PageTypeOK
    <2>3. ASSUME AskTree \/ ReadTree \/ TreeArrives \/ TreeFails \/ CloseModal
          PROVE  selected' = selected /\ modal' \in {modal, NoData}
      BY <2>3 DEF AskTree, ReadTree, TreeArrives, TreeFails, CloseModal
    <2>4. QED
      BY <2>1, <2>2, <2>3 DEF PageInv, PageTypeOK
  <1>7. QED
    BY <1>1, <1>3, <1>4, <1>5, <1>6 DEF PageInv, PageTypeOK

LEMMA PageStep ==
  TypeOK /\ TypeOK' /\ JudgeInv /\ FormInv /\ PageInv /\ [PageNext]_pageVars => PageInv'
  <1> SUFFICES ASSUME TypeOK, TypeOK', JudgeInv, FormInv, PageInv, [PageNext]_pageVars
               PROVE  PageInv'
    OBVIOUS
  <1>1. ASSUME UNCHANGED <<page, vars>> PROVE PageInv'
    BY <1>1, PageStays DEF vars, tree
  <1>2. ASSUME NEW r \in Reqs, NEW job, Receive(r, job), UNCHANGED page PROVE PageInv'
    <2>1. UNCHANGED <<tree, raced>> /\ \A q \in Reqs : req[q] # Unsent => req'[q] = req[q]
      BY <1>2 DEF Receive, TypeOK
    <2>2. QED
      BY <1>2, <2>1, PageStays
  <1>3. ASSUME NEW r \in Reqs, ServePage(r) PROVE PageInv'
    BY <1>3, ServePageInv
  <1>4. ASSUME NEW r \in Reqs, Answered(r) PROVE PageInv'
    BY <1>4, AnsweredPageInv
  <1>5. ASSUME NEW r \in Reqs,
               \/ DeleteSuite(r) \/ DeleteCase(r)
               \/ \E p \in Suites \cup {Top} : SubmitModal(r, p)
        PROVE  PageInv'
    <2>1. PICK job \in Jobs, shown \in BOOLEAN, untouched \in BOOLEAN :
            /\ Send(r, job, shown, untouched)
            /\ untouched => job.op = "updateSuite" /\ job.parent = Same
      BY <1>5, SentIsJob DEF PageInv
    <2>2. QED
      BY <2>1, SendPageInv
  <1>6. ASSUME NEW r \in Reqs, NEW s \in Suites, Submit(r, s), UNCHANGED page PROVE PageInv'
    BY <1>2, <1>6 DEF Submit
  <1>7. ASSUME UNCHANGED page,
               \/ Cancel \/ (\E r \in Reqs : Settle(r))
               \/ \E c \in MadeCases : \/ FetchRead(c) \/ FetchDone(c) \/ FetchFails(c)
                                       \/ \E old \in BOOLEAN : OpenForm(c, old)
        PROVE  PageInv'
    BY <1>1, <1>7 DEF Cancel, Settle, FetchRead, FetchDone, FetchFails, OpenForm
  <1>8. ASSUME \/ AskTree \/ ReadTree \/ TreeArrives \/ TreeFails \/ CloseModal
               \/ (\E s \in Suites \cup {Top} : Select(s))
               \/ \E edits \in {"suite", "case"}, s \in Suites \cup {NoData} :
                    OpenModal(edits, s)
        PROVE  PageInv'
    BY <1>8, AlonePageInv
  <1>9. CASE UNCHANGED pageVars
    BY <1>1, <1>9 DEF pageVars, formVars
  <1>10. CASE PageNext
    BY <1>2, <1>3, <1>4, <1>5, <1>6, <1>7, <1>8, <1>10 DEF PageNext
  <1>11. QED
    BY <1>9, <1>10

LEMMA PageStart == PageInit => PageInv
  <1> SUFFICES ASSUME PageInit PROVE PageInv
    OBVIOUS
  <1>1. Sending = {} /\ ~Loaded /\ treeFetch.phase # "read"
    BY DEF PageInit, Sending, Loaded, Idle
  <1>2. PageTypeOK
    BY DEF PageInit, PageTypeOK
  <1>3. QED
    BY <1>1, <1>2 DEF PageInit, PageInv, ToldRightly, TreeCovers

LEMMA PageInvariant ==
  PageSpec => [](TypeOK /\ LossInv /\ JudgeInv /\ FormInv /\ PageInv)
  <1> DEFINE Inv == TypeOK /\ LossInv /\ JudgeInv /\ FormInv /\ PageInv
  <1>1. PageInit => Inv
    BY TypeInit, LossInit, JudgeInit, FormStart, PageStart DEF PageInit, FormInit
  <1>2. Inv /\ [PageNext]_pageVars => Inv'
    <2> SUFFICES ASSUME TypeOK, LossInv, JudgeInv, FormInv, PageInv, [PageNext]_pageVars
                 PROVE  TypeOK' /\ LossInv' /\ JudgeInv' /\ FormInv' /\ PageInv'
      OBVIOUS
    <2>1. [FormNext]_formVars /\ [Next]_vars
      BY PageStepIsForm, FormStepIsNext DEF PageInv, FormInv
    <2>2. TypeOK'
      BY <2>1, TypeStep
    <2>3. LossInv' /\ JudgeInv'
      BY <2>1, <2>2, LossStep, JudgeStep DEF LossInv
    <2>4. FormInv' /\ PageInv'
      BY <2>1, <2>2, FormStep, PageStep
    <2>5. QED
      BY <2>2, <2>3, <2>4
  <1>3. QED
    BY <1>1, <1>2, PTL DEF PageSpec

\* What the cache, the forms and the requests of the browser hold has its type.
THEOREM FormsTypeCorrect == PageSpec => [](FormTypeOK /\ PageTypeOK)
  <1>1. FormInv /\ PageInv => FormTypeOK /\ PageTypeOK
    BY DEF FormInv, PageInv
  <1>2. QED
    BY <1>1, PageInvariant, PTL

\* To the server the page is a client like any other, so what holds of the tree
\* whoever changes it holds of it here.
THEOREM PageIsAClient == PageSpec => Spec
  <1>1. PageInit => Init
    BY DEF PageInit, FormInit
  <1>2. TypeOK /\ FormInv /\ PageInv /\ [PageNext]_pageVars => [Next]_vars
    BY PageStepIsForm, FormStepIsNext DEF PageInv, FormInv
  <1>3. QED
    BY <1>1, <1>2, PageInvariant, PTL DEF PageSpec, Spec

\* A save does not move what its user left alone: a case, unless somebody else has moved
\* it since the form's data was read or that data crossed a save, above all one whose
\* answer was lost; a suite whose parent field stayed empty, ever.
THEOREM SavesKeep == PageSpec => []SavesKeepTheRest
  <1>1. FormInv /\ PageInv => SavesKeepTheRest
    BY DEF FormInv, PageInv, SavesKeepTheRest, SaveKeepsTheRest
  <1>2. QED
    BY <1>1, PageInvariant, PTL

\* With no fetch under way and the last one not failed the tree shows what this browser
\* was told it has made, and nothing it was told it has deleted, in whichever order the
\* answers came and whichever of them were lost.
THEOREM TreeShows == PageSpec => []TreeShowsOwnChanges
  <1>1. PageInv => TreeShowsOwnChanges
    BY DEF PageInv, TreeCovers, Covers, TreeShowsOwnChanges
  <1>2. QED
    BY <1>1, PageInvariant, PTL
===============================================================================
