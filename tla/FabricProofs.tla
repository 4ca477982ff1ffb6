---------------------------- MODULE FabricProofs ----------------------------
(***************************************************************************)
(* Proofs about the speaker fabric, for any number of modules, any policy, *)
(* any intents and any plans: the session keeps no stale plan and admits   *)
(* none that cannot be deployed, the contract of an endpoint unmutes for   *)
(* one handover only, the firmware is open only after a COMMIT and on its  *)
(* deadline, whatever is written to it, and what is heard of the endpoints *)
(* is one topology, whatever becomes of the writes of a handover.          *)
(***************************************************************************)
EXTENDS MCFabric, SequenceTheorems, FiniteSetTheorems, WellFoundedInduction, TLAPS

mcVars == <<focus, vars, sessionVars, contractVars>>

-----------------------------------------------------------------------------
(* Sequences of sequences laid end to end, and places in an ordered set.    *)

\* A set of numbers that is not empty has a least member.
LEMMA LeastNatural ==
  ASSUME NEW S \in SUBSET Nat, S # {}
  PROVE  \E n \in S : \A k \in S : n <= k
<1> DEFINE less == {ss \in Nat \X Nat : ss[1] < ss[2]}
<1>1. IsWellFoundedOn(less, Nat)
  BY NatLessThanWellFounded DEF OpToRel
<1>2. \A k, n \in Nat : k < n => <<k, n>> \in less
  OBVIOUS
<1>3. PICK n \in S : \A k \in S : ~(<<k, n>> \in less)
  <2> HIDE DEF less
  <2> QED BY <1>1, WFMin
<1> HIDE DEF less
<1>4. n \in Nat /\ \A k \in S : k \in Nat /\ ~(k < n)
  BY <1>2, <1>3
<1> QED BY <1>4

\* Induction along an interval of positions.
LEMMA AlongInterval ==
  ASSUME NEW n \in Nat, NEW G, n # 0 => 1 \in G,
         \A k \in 1 .. n : k + 1 <= n /\ k \in G => k + 1 \in G
  PROVE  1 .. n \subseteq G
<1> DEFINE missing == (1 .. n) \ G
<1> SUFFICES ASSUME missing # {} PROVE FALSE
  OBVIOUS
<1>1. missing \in SUBSET Nat
  OBVIOUS
<1>2. PICK k \in missing : \A x \in missing : k <= x
  <2> HIDE DEF missing
  <2> QED BY <1>1, LeastNatural
<1>3. k \in 1 .. n /\ k \notin G /\ \A x \in 1 .. n : x \notin G => k <= x
  BY <1>2
<1>4. k # 1 /\ k - 1 \in 1 .. n /\ k - 1 \in G
  BY <1>3
<1>5. (k - 1) + 1 = k
  BY <1>3
<1> QED BY <1>3, <1>4, <1>5

\* The sequences of seqs up to k, one appended after the other.
Sums(seqs, f, k) == \A i \in 1 .. k : f[i] = IF i = 1 THEN seqs[i] ELSE f[i - 1] \o seqs[i]

LEMMA SumsExist ==
  ASSUME NEW S, NEW seqs \in Seq(Seq(S)), NEW k \in 1 .. Len(seqs)
  PROVE  \E f \in [1 .. k -> Seq(S)] : Sums(seqs, f, k)
<1> DEFINE n == Len(seqs)
           G == {x \in 1 .. n : \E f \in [1 .. x -> Seq(S)] : Sums(seqs, f, x)}
<1>1. n \in Nat /\ \A i \in 1 .. n : seqs[i] \in Seq(S)
  BY LenProperties
<1>2. n # 0 => 1 \in G
  <2> DEFINE f == [i \in 1 .. 1 |-> seqs[1]]
  <2>1. n # 0 => f \in [1 .. 1 -> Seq(S)] /\ Sums(seqs, f, 1)
    BY <1>1 DEF Sums
  <2> HIDE DEF f
  <2> QED BY <1>1, <2>1
<1>3. ASSUME NEW x \in 1 .. n, x + 1 <= n, x \in G PROVE x + 1 \in G
  <2>1. PICK f \in [1 .. x -> Seq(S)] : Sums(seqs, f, x)
    BY <1>3
  <2> DEFINE next == f[x] \o seqs[x + 1]
             g == [i \in 1 .. x + 1 |-> IF i = x + 1 THEN next ELSE f[i]]
  <2>2. x + 1 \in 1 .. n /\ x \in 1 .. x
    BY <1>1, <1>3
  <2>3. next \in Seq(S)
    BY <1>1, <2>1, <2>2, ConcatProperties
  <2> HIDE DEF next
  <2>4. \A i \in 1 .. x + 1 : i = x + 1 \/ i \in 1 .. x
    BY <1>1, <1>3
  <2>5. g \in [1 .. x + 1 -> Seq(S)]
    BY <2>1, <2>3, <2>4
  <2>6. g[x + 1] = next /\ \A i \in 1 .. x : g[i] = f[i]
    BY <1>1, <1>3
  <2> HIDE DEF g
  <2>7. ASSUME NEW i \in 1 .. x + 1 PROVE g[i] = IF i = 1 THEN seqs[i] ELSE g[i - 1] \o seqs[i]
    <3>1. CASE i = x + 1
      <4>1. i # 1 /\ i - 1 = x
        BY <1>3, <3>1
      <4> QED BY <2>2, <2>6, <3>1, <4>1 DEF next
    <3>2. CASE i \in 1 .. x
      <4>1. i # 1 => i - 1 \in 1 .. x
        BY <1>3, <3>2
      <4> QED BY <2>1, <2>6, <3>2, <4>1 DEF Sums
    <3> QED BY <2>4, <3>1, <3>2
  <2>8. Sums(seqs, g, x + 1)
    BY <2>7 DEF Sums
  <2> QED BY <2>2, <2>5, <2>8
<1>4. 1 .. n \subseteq G
  <2> HIDE DEF G, n
  <2> QED BY <1>1, <1>2, <1>3, AlongInterval
<1> QED BY <1>4

\* FlattenSeq appends one sequence after the other.
LEMMA Flattened ==
  ASSUME NEW S, NEW seqs \in Seq(Seq(S)), seqs # <<>>
  PROVE  \E f \in [1 .. Len(seqs) -> Seq(S)] :
           FlattenSeq(seqs) = f[Len(seqs)] /\ Sums(seqs, f, Len(seqs))
<1> DEFINE n == Len(seqs)
<1>1. n \in Nat \ {0} /\ n \in 1 .. n
  BY EmptySeq
<1>2. PICK f \in [1 .. n -> Seq(S)] : Sums(seqs, f, n)
  BY <1>1, SumsExist
<1> DEFINE Flat(h) == h = [i \in 1 .. n |-> IF i = 1 THEN seqs[i] ELSE h[i - 1] \o seqs[i]]
           flat == CHOOSE h : Flat(h)
<1>3. FlattenSeq(seqs) = flat[n]
  BY <1>1 DEF FlattenSeq
<1>4. Flat(f)
  BY <1>2 DEF Sums
<1>5. Flat(flat)
  <2> HIDE DEF Flat
  <2> QED BY <1>4
<1> HIDE DEF flat
<1>6. \A i \in 1 .. n : flat[i] = IF i = 1 THEN seqs[i] ELSE flat[i - 1] \o seqs[i]
  BY <1>5
<1> DEFINE G == {i \in 1 .. n : flat[i] = f[i]}
<1>7. 1 \in G
  <2>1. 1 \in 1 .. n
    BY <1>1
  <2>2. flat[1] = seqs[1] /\ f[1] = seqs[1]
    BY <1>2, <1>6, <2>1 DEF Sums
  <2> QED BY <2>1, <2>2
<1>8. ASSUME NEW i \in 1 .. n, i + 1 <= n, i \in G PROVE i + 1 \in G
  <2>1. i + 1 \in 1 .. n /\ i + 1 # 1 /\ (i + 1) - 1 = i
    BY <1>1, <1>8
  <2>2. flat[i + 1] = flat[i] \o seqs[i + 1] /\ f[i + 1] = f[i] \o seqs[i + 1]
    <3> DEFINE j == i + 1
    <3>1. j \in 1 .. n /\ j # 1 /\ j - 1 = i
      BY <2>1
    <3> HIDE DEF j
    <3>2. flat[j] = flat[i] \o seqs[j] /\ f[j] = f[i] \o seqs[j]
      BY <1>2, <1>6, <3>1 DEF Sums
    <3> QED BY <3>2 DEF j
  <2> QED BY <1>8, <2>1, <2>2
<1>9. 1 .. n \subseteq G
  <2> HIDE DEF G, n
  <2> QED BY <1>1, <1>7, <1>8, AlongInterval
<1> QED BY <1>1, <1>2, <1>3, <1>9

\* Where a flattened sequence has each element: after those of the sequences before.
Places(seqs, flat, at) ==
  /\ \A k, j \in 1 .. Len(seqs) : k < j => at[k] + Len(seqs[k]) <= at[j]
  /\ \A k \in 1 .. Len(seqs) : \A l \in 1 .. Len(seqs[k]) :
       at[k] + l \in 1 .. Len(flat) /\ flat[at[k] + l] = seqs[k][l]
  /\ \A p \in 1 .. Len(flat) :
       \E k \in 1 .. Len(seqs) : \E l \in 1 .. Len(seqs[k]) : p = at[k] + l

\* t begins with s.
Extends(t, s) ==
  /\ Len(s) \in Nat /\ Len(t) \in Nat /\ Len(s) <= Len(t)
  /\ \A p \in 1 .. Len(s) : t[p] = s[p]

\* An earlier sum is a prefix of a later one.
LEMMA SumsGrow ==
  ASSUME NEW S, NEW seqs \in Seq(Seq(S)), NEW f \in [1 .. Len(seqs) -> Seq(S)],
         Sums(seqs, f, Len(seqs)), NEW k \in 1 .. Len(seqs), NEW j \in k .. Len(seqs)
  PROVE  Extends(f[j], f[k])
<1> DEFINE n == Len(seqs)
           Grown(x) == /\ Len(f[k]) \in Nat /\ Len(f[x]) \in Nat /\ Len(f[k]) <= Len(f[x])
                       /\ \A p \in 1 .. Len(f[k]) : f[x][p] = f[k][p]
           G == {x \in 1 .. n : x < k \/ Grown(x)}
<1>1. n \in Nat /\ (\A i \in 1 .. n : seqs[i] \in Seq(S)) /\ \A i \in 1 .. n : f[i] \in Seq(S)
  BY LenProperties
<1>2. Grown(k)
  BY <1>1
<1>3. n # 0 => 1 \in G
  BY <1>1, <1>2
<1>4. ASSUME NEW x \in 1 .. n, x + 1 <= n, x \in G PROVE x + 1 \in G
  <2> DEFINE y == x + 1
  <2>1. y \in 1 .. n /\ y # 1 /\ y - 1 = x
    BY <1>1, <1>4
  <2>2. CASE y < k
    BY <2>1, <2>2
  <2>3. CASE y = k
    BY <1>2, <2>1, <2>3
  <2>4. CASE ~(y < k) /\ y # k
    <3>1. Grown(x)
      BY <1>4, <2>4
    <3> HIDE DEF y
    <3>2. f[y] = f[x] \o seqs[y]
      BY <2>1 DEF Sums
    <3>3. /\ Len(f[y]) = Len(f[x]) + Len(seqs[y]) /\ Len(seqs[y]) \in Nat
          /\ \A p \in 1 .. Len(f[x]) : f[y][p] = f[x][p]
      BY <1>1, <2>1, <3>2, ConcatProperties, LenProperties
    <3>4. Grown(y)
      <4> HIDE DEF n
      <4>1. \A p \in 1 .. Len(f[k]) : p \in 1 .. Len(f[x])
        BY <3>1
      <4>2. \A p \in 1 .. Len(f[k]) : f[y][p] = f[k][p]
        BY <3>1, <3>3, <4>1
      <4>3. Len(f[k]) \in Nat /\ Len(f[x]) \in Nat /\ Len(f[k]) <= Len(f[x])
        BY <3>1
      <4>4. Len(f[y]) = Len(f[x]) + Len(seqs[y]) /\ Len(seqs[y]) \in Nat
        BY <3>3
      <4>5. Len(f[y]) \in Nat /\ Len(f[k]) <= Len(f[y])
        <5> DEFINE a == Len(f[k])
                   b == Len(f[x])
                   c == Len(f[y])
                   d == Len(seqs[y])
        <5>1. a \in Nat /\ b \in Nat /\ a <= b /\ c = b + d /\ d \in Nat
          BY <4>3, <4>4
        <5> HIDE DEF a, b, c, d
        <5>2. c \in Nat /\ a <= c
          BY <5>1
        <5> QED BY <5>2 DEF a, c
      <4> QED BY <4>2, <4>3, <4>5
    <3> HIDE DEF Grown
    <3>5. y \in G
      BY <2>1, <3>4
    <3> QED BY <3>5 DEF y
  <2> QED BY <2>2, <2>3, <2>4
<1>5. 1 .. n \subseteq G
  <2> HIDE DEF G, n
  <2> QED BY <1>1, <1>3, <1>4, AlongInterval
<1>6. j \in 1 .. n /\ ~(j < k)
  BY <1>1
<1>7. Grown(j)
  BY <1>5, <1>6
<1> QED BY <1>7 DEF Extends

LEMMA FlattenPlaces ==
  ASSUME NEW S, NEW seqs \in Seq(Seq(S))
  PROVE  /\ FlattenSeq(seqs) \in Seq(S)
         /\ \E at \in [1 .. Len(seqs) -> Nat] : Places(seqs, FlattenSeq(seqs), at)
<1> DEFINE n == Len(seqs)
           flat == FlattenSeq(seqs)
<1>1. CASE seqs = <<>>
  <2>1. flat = <<>> /\ n = 0
    BY <1>1 DEF FlattenSeq
  <2> DEFINE at == [k \in 1 .. n |-> 0]
  <2>2. at \in [1 .. n -> Nat] /\ Places(seqs, flat, at)
    BY <2>1 DEF Places
  <2> HIDE DEF at
  <2> QED BY <2>1, <2>2, EmptySeq
<1>2. CASE seqs # <<>>
  <2>1. PICK f \in [1 .. n -> Seq(S)] : flat = f[n] /\ Sums(seqs, f, n)
    BY <1>2, Flattened
  <2> DEFINE at == [k \in 1 .. n |-> IF k = 1 THEN 0 ELSE Len(f[k - 1])]
  <2>2. /\ n \in Nat \ {0} /\ n \in 1 .. n /\ \A i \in 1 .. n : seqs[i] \in Seq(S) /\ Len(seqs[i]) \in Nat
        /\ \A i \in 1 .. n : f[i] \in Seq(S) /\ Len(f[i]) \in Nat
    BY <1>2, EmptySeq, LenProperties
  <2> HIDE DEF n, flat
  <2>3. at \in [1 .. n -> Nat]
    <3>1. \A k \in 1 .. n : k # 1 => k - 1 \in 1 .. n
      BY <2>2
    <3> QED BY <2>2, <3>1
  <2>4. \A k \in 1 .. n : at[k] = IF k = 1 THEN 0 ELSE Len(f[k - 1])
    OBVIOUS
  <2> HIDE DEF at
  <2>5. ASSUME NEW k \in 1 .. n
        PROVE  /\ Len(f[k]) = at[k] + Len(seqs[k])
               /\ \A l \in 1 .. Len(seqs[k]) : f[k][at[k] + l] = seqs[k][l]
    <3>1. CASE k = 1
      <4>1. at[k] = 0 /\ f[k] = seqs[k]
        BY <2>1, <2>4, <3>1 DEF Sums
      <4> QED BY <2>2, <4>1
    <3>2. CASE k # 1
      <4>1. at[k] = Len(f[k - 1]) /\ f[k] = f[k - 1] \o seqs[k] /\ k - 1 \in 1 .. n
        <5>1. k - 1 \in 1 .. n
          BY <2>2, <3>2
        <5>2. at[k] = Len(f[k - 1])
          BY <2>4, <3>2
        <5>3. f[k] = f[k - 1] \o seqs[k]
          BY <2>1, <3>2 DEF Sums
        <5> QED BY <5>1, <5>2, <5>3
      <4>2. /\ Len(f[k]) = Len(f[k - 1]) + Len(seqs[k])
            /\ \A p \in 1 .. Len(f[k - 1]) + Len(seqs[k]) : f[k][p] =
                 IF p <= Len(f[k - 1]) THEN f[k - 1][p] ELSE seqs[k][p - Len(f[k - 1])]
        <5>1. f[k - 1] \in Seq(S) /\ seqs[k] \in Seq(S)
          BY <2>2, <4>1
        <5>2. f[k] = f[k - 1] \o seqs[k]
          BY <4>1
        <5> DEFINE s == f[k - 1]
                   t == seqs[k]
        <5>3. s \in Seq(S) /\ t \in Seq(S) /\ f[k] = s \o t
          BY <5>1, <5>2
        <5> HIDE DEF s, t
        <5>4. /\ Len(s \o t) = Len(s) + Len(t)
              /\ \A p \in 1 .. Len(s) + Len(t) : (s \o t)[p] = IF p <= Len(s) THEN s[p] ELSE t[p - Len(s)]
          BY <5>3, ConcatProperties
        <5> QED BY <5>3, <5>4 DEF s, t
      <4> DEFINE d == Len(f[k - 1])
      <4>3. d \in Nat /\ Len(seqs[k]) \in Nat
        BY <2>2, <4>1
      <4>4. \A p \in 1 .. d + Len(seqs[k]) : f[k][p] = IF p <= d THEN f[k - 1][p] ELSE seqs[k][p - d]
        BY <4>2
      <4> HIDE DEF d
      <4>5. ASSUME NEW l \in 1 .. Len(seqs[k]) PROVE f[k][d + l] = seqs[k][l]
        <5>1. d + l \in 1 .. d + Len(seqs[k]) /\ ~(d + l <= d) /\ (d + l) - d = l
          BY <4>3
        <5> QED BY <4>4, <5>1
      <4> QED BY <4>1, <4>2, <4>5 DEF d
    <3> QED BY <3>1, <3>2
  <2>6. ASSUME NEW k \in 1 .. n, NEW j \in 1 .. n, k < j PROVE at[k] + Len(seqs[k]) <= at[j]
    <3>1. j - 1 \in k .. n /\ j # 1
      BY <2>2, <2>6
    <3>2. Len(f[k]) <= Len(f[j - 1])
      BY <2>1, <3>1, SumsGrow DEF n, Extends
    <3> QED BY <2>4, <2>5, <3>1, <3>2
  <2>7. ASSUME NEW k \in 1 .. n, NEW l \in 1 .. Len(seqs[k])
        PROVE  at[k] + l \in 1 .. Len(flat) /\ flat[at[k] + l] = seqs[k][l]
    <3>1. n \in k .. n
      BY <2>2
    <3>2. Extends(f[n], f[k])
      BY <2>1, <3>1, SumsGrow DEF n
    <3>3. at[k] + l \in 1 .. Len(f[k]) /\ Len(f[k]) \in Nat /\ Len(f[n]) \in Nat
      BY <2>2, <2>3, <2>5, SMTT(20)
    <3>4. f[k][at[k] + l] = seqs[k][l]
      BY <2>5
    <3> QED BY <2>1, <3>2, <3>3, <3>4 DEF Extends
  <2>8. ASSUME NEW p \in 1 .. Len(flat)
        PROVE  \E k \in 1 .. n : \E l \in 1 .. Len(seqs[k]) : p = at[k] + l
    <3> DEFINE G == {k \in 1 .. n : p <= Len(f[k])}
    <3>1. n \in G /\ G \in SUBSET Nat
      BY <2>1, <2>2
    <3>2. PICK k \in G : \A x \in G : k <= x
      <4> HIDE DEF G
      <4> QED BY <3>1, LeastNatural
    <3>3. k \in 1 .. n /\ p <= Len(f[k]) /\ at[k] < p
      <4>1. CASE k = 1
        BY <2>4, <3>2, <4>1
      <4>2. CASE k # 1
        <5>1. k - 1 \in 1 .. n /\ ~(k <= k - 1)
          BY <2>2, <3>2, <4>2
        <5>2. k - 1 \notin G
          BY <3>2, <5>1
        <5> QED BY <2>2, <2>4, <3>2, <4>2, <5>1, <5>2
      <4> QED BY <4>1, <4>2
    <3> HIDE DEF G
    <3>4. p - at[k] \in 1 .. Len(seqs[k]) /\ p = at[k] + (p - at[k])
      BY <2>2, <2>3, <2>5, <3>3, SMTT(20)
    <3> QED BY <3>3, <3>4
  <2>9. Places(seqs, flat, at)
    BY <2>6, <2>7, <2>8 DEF Places, n
  <2> QED BY <2>1, <2>2, <2>3, <2>9 DEF n, flat
<1> QED BY <1>1, <1>2

\* The place of a member in the order of its set.
Rank(S, m) == Cardinality({x \in S : x <= m})

LEMMA Ranks ==
  ASSUME NEW S \in SUBSET Int, IsFiniteSet(S)
  PROVE  /\ \A m \in S : Rank(S, m) \in 1 .. Cardinality(S)
         /\ \A m, n \in S : Rank(S, m) = Rank(S, n) => m = n
         /\ \A k \in 1 .. Cardinality(S) : \E m \in S : Rank(S, m) = k
<1> DEFINE Upto(m) == {x \in S : x <= m}
           c == Cardinality(S)
<1>1. \A m \in S : /\ IsFiniteSet(Upto(m)) /\ Cardinality(Upto(m)) <= c /\ Upto(m) # {}
  BY FS_Subset
<1>2. \A m \in S : Rank(S, m) \in 1 .. c
  <2> TAKE m \in S
  <2>1. Cardinality(Upto(m)) \in Nat /\ Cardinality(Upto(m)) # 0 /\ c \in Nat
    BY <1>1, FS_CardinalityType, FS_EmptySet
  <2>2. Rank(S, m) = Cardinality(Upto(m))
    BY DEF Rank
  <2> HIDE DEF c, Upto
  <2> QED BY <1>1, <2>1, <2>2
<1>3. ASSUME NEW m \in S, NEW n \in S, Rank(S, m) = Rank(S, n) PROVE m = n
  <2>1. ASSUME NEW a \in S, NEW b \in S, a <= b, Rank(S, a) = Rank(S, b) PROVE a = b
    <3>1. Upto(a) \subseteq Upto(b)
      <4>1. a \in Int /\ b \in Int /\ \A x \in S : x \in Int
        OBVIOUS
      <4>2. \A x \in S : x <= a => x <= b
        BY <2>1, <4>1
      <4> QED BY <4>2
    <3>2. Upto(a) = Upto(b)
      BY <1>1, <2>1, <3>1, FS_Subset DEF Rank
    <3>3. b <= a
      BY <3>2
    <3> QED BY <2>1, <3>3
  <2>2. m <= n \/ n <= m
    OBVIOUS
  <2> QED BY <1>3, <2>1, <2>2
<1>4. ASSUME NEW k \in 1 .. c PROVE \E m \in S : Rank(S, m) = k
  <2> DEFINE rank == [m \in S |-> Rank(S, m)]
             R == {Rank(S, m) : m \in S}
  <2>1. rank \in Bijection(S, R)
    BY <1>3 DEF Bijection, Injection, Surjection, IsInjective
  <2>2. IsFiniteSet(R) /\ Cardinality(R) = c
    <3> HIDE DEF rank, R
    <3> QED BY <2>1, FS_Bijection DEF ExistsBijection
  <2>3. R \subseteq 1 .. c
    BY <1>2
  <2>4. IsFiniteSet(1 .. c) /\ Cardinality(1 .. c) = c
    BY FS_CardinalityType, FS_Interval
  <2>5. R = 1 .. c
    <3> HIDE DEF R
    <3> QED BY <2>2, <2>3, <2>4, FS_Subset
  <2> QED BY <2>5
<1> QED BY <1>2, <1>3, <1>4

LEMMA CC == ASSUME NEW S PROVE Fabric!Cardinality(S) = Cardinality(S)
BY DEF Cardinality, Fabric!Cardinality
LEMMA CF == ASSUME NEW S PROVE Fabric!FlattenSeq(S) = FlattenSeq(S)
BY DEF FlattenSeq, Fabric!FlattenSeq
LEMMA CI == ASSUME NEW S PROVE Fabric!IsInjective(S) = IsInjective(S)
BY DEF IsInjective, Fabric!IsInjective

\* A flattened sequence repeats nothing if and only if nothing occurs in two places of its parts.
LEMMA FlattenInjective ==
  ASSUME NEW S, NEW seqs \in Seq(Seq(S))
  PROVE  IsInjective(FlattenSeq(seqs)) <=>
           \A k, j \in 1 .. Len(seqs) : \A l \in 1 .. Len(seqs[k]), i \in 1 .. Len(seqs[j]) :
             seqs[k][l] = seqs[j][i] => k = j /\ l = i
<1> DEFINE n == Len(seqs)
           flat == FlattenSeq(seqs)
<1>1. PICK at \in [1 .. n -> Nat] : Places(seqs, flat, at)
  BY FlattenPlaces
<1>2. n \in Nat /\ (\A k \in 1 .. n : Len(seqs[k]) \in Nat /\ at[k] \in Nat) /\ DOMAIN flat = 1 .. Len(flat)
  <2>1. n \in Nat /\ \A k \in 1 .. n : seqs[k] \in Seq(S)
    BY LenProperties
  <2>2. \A k \in 1 .. n : Len(seqs[k]) \in Nat
    BY <2>1, LenProperties
  <2>3. flat \in Seq(S)
    BY FlattenPlaces
  <2> HIDE DEF flat
  <2>4. DOMAIN flat = 1 .. Len(flat)
    BY <2>3, LenProperties
  <2> QED BY <1>1, <2>1, <2>2, <2>4
<1> HIDE DEF n, flat
<1>3. \A k, j \in 1 .. n : k < j => at[k] + Len(seqs[k]) <= at[j]
  BY <1>1 DEF Places, n
<1>4. \A k \in 1 .. n : \A l \in 1 .. Len(seqs[k]) :
        at[k] + l \in 1 .. Len(flat) /\ flat[at[k] + l] = seqs[k][l]
  BY <1>1 DEF Places, n
<1>5. \A p \in 1 .. Len(flat) : \E k \in 1 .. n : \E l \in 1 .. Len(seqs[k]) : p = at[k] + l
  BY <1>1 DEF Places, n
<1>6. ASSUME NEW k \in 1 .. n, NEW j \in 1 .. n, NEW l \in 1 .. Len(seqs[k]), NEW i \in 1 .. Len(seqs[j]),
             at[k] + l = at[j] + i
      PROVE  k = j /\ l = i
  <2>1. ~(k < j)
    <3>1. k < j => at[k] + Len(seqs[k]) <= at[j]
      BY <1>3
    <3> QED BY <1>2, <1>6, <3>1, SMTT(20)
  <2>2. ~(j < k)
    <3>1. j < k => at[j] + Len(seqs[j]) <= at[k]
      BY <1>3
    <3> QED BY <1>2, <1>6, <3>1, SMTT(20)
  <2>3. k = j
    BY <1>2, <2>1, <2>2
  <2>4. at[k] = at[j] /\ at[k] \in Nat
    BY <1>2, <2>3
  <2> QED BY <1>6, <2>3, <2>4
<1>7. ASSUME IsInjective(flat), NEW k \in 1 .. n, NEW j \in 1 .. n,
             NEW l \in 1 .. Len(seqs[k]), NEW i \in 1 .. Len(seqs[j]), seqs[k][l] = seqs[j][i]
      PROVE  k = j /\ l = i
  <2>1. at[k] + l = at[j] + i
    <3>1. at[k] + l \in DOMAIN flat /\ at[j] + i \in DOMAIN flat /\ flat[at[k] + l] = flat[at[j] + i]
      BY <1>2, <1>4, <1>7
    <3> QED BY <1>7, <3>1 DEF IsInjective
  <2> QED BY <1>6, <2>1
<1>8. ASSUME \A k, j \in 1 .. n : \A l \in 1 .. Len(seqs[k]), i \in 1 .. Len(seqs[j]) :
               seqs[k][l] = seqs[j][i] => k = j /\ l = i,
             NEW p \in 1 .. Len(flat), NEW q \in 1 .. Len(flat), flat[p] = flat[q]
      PROVE  p = q
  <2>1. PICK k \in 1 .. n : \E l \in 1 .. Len(seqs[k]) : p = at[k] + l
    BY <1>5
  <2>2. PICK j \in 1 .. n : \E i \in 1 .. Len(seqs[j]) : q = at[j] + i
    BY <1>5
  <2>5. PICK l \in 1 .. Len(seqs[k]) : p = at[k] + l
    BY <2>1
  <2>6. PICK i \in 1 .. Len(seqs[j]) : q = at[j] + i
    BY <2>2
  <2>3. seqs[k][l] = seqs[j][i]
    BY <1>4, <1>8, <2>5, <2>6
  <2>4. k = j /\ l = i
    <3>1. \A h \in 1 .. n : \A a \in 1 .. Len(seqs[k]), b \in 1 .. Len(seqs[h]) :
            seqs[k][a] = seqs[h][b] => k = h /\ a = b
      BY <1>8
    <3> QED BY <2>3, <3>1
  <2> QED BY <2>4, <2>5, <2>6
<1>9. IsInjective(flat) <=> \A k, j \in 1 .. n : \A l \in 1 .. Len(seqs[k]), i \in 1 .. Len(seqs[j]) :
                              seqs[k][l] = seqs[j][i] => k = j /\ l = i
  BY <1>2, <1>7, <1>8 DEF IsInjective
<1> QED BY <1>9 DEF n, flat

-----------------------------------------------------------------------------
(* The session.                                                            *)

\* The plan is what the planner says of the current facts, or there is none.
SessionInv ==
  /\ inventory \in [Modules \cup {EmptyId} -> Fabric!ModuleStates \cup {None}]
  /\ intent \in Fabric!Intents \cup {None}
  /\ plan \in {None, Fabric!Reconciled(inventory, intent)}

LEMMA ShortSequences ==
  ASSUME NEW S, NEW a \in S, NEW b \in S PROVE <<a>> \in Seq(S) /\ <<a, b>> \in Seq(S)
OBVIOUS

LEMMA IntentsTyped ==
  ASSUME NEW i \in Fabric!Intents
  PROVE  /\ i.mode \in Fabric!Modes
         /\ i.targets \in Seq([module : Modules \cup {EmptyId}, roles : Seq(Fabric!ChannelRoles)])
<1> DEFINE C == Fabric!ChannelRoles
           M == Modules \cup {EmptyId}
           T == [module : M, roles : Seq(C)]
<1>1. ASSUME NEW mode \in Fabric!Modes, NEW l \in M, NEW left \in Seq(C),
             NEW r \in M, NEW right \in Seq(C)
      PROVE  LET p == Fabric!Pair(mode, l, left, r, right)
             IN p.mode \in Fabric!Modes /\ p.targets \in Seq(T)
  BY DEF Fabric!Pair
<1>2. CASE i \in OtherIntents
  BY <1>2, FabricAssumption DEF Fabric!FabricAssumption
<1>3. ASSUME NEW l \in M, NEW r \in M,
             i \in {Fabric!DetachedRearIntent(l, r), Fabric!StereoPairIntent(l, r),
                    Fabric!DockedAtmosWingIntent(l, r), Fabric!DetachableAtmosRearIntent(l, r)}
      PROVE  i.mode \in Fabric!Modes /\ i.targets \in Seq(T)
  <2>1. "cinema" \in Fabric!Modes /\ "stereo" \in Fabric!Modes
    BY DEF Fabric!Modes
  <2>3. /\ <<"SL">> \in Seq(C) /\ <<"SR">> \in Seq(C) /\ <<"FL">> \in Seq(C)
        /\ <<"FR">> \in Seq(C) /\ <<"FL", "TFL">> \in Seq(C) /\ <<"FR", "TFR">> \in Seq(C)
        /\ <<"SL", "TRL">> \in Seq(C) /\ <<"SR", "TRR">> \in Seq(C)
    <3>1. /\ "SL" \in C /\ "SR" \in C /\ "FL" \in C /\ "FR" \in C
          /\ "TFL" \in C /\ "TFR" \in C /\ "TRL" \in C /\ "TRR" \in C
      BY DEF Fabric!ChannelRoles, Fabric!CanonicalRoles
    <3> HIDE DEF C
    <3> QED BY <3>1, ShortSequences
  <2>2. PICK mode \in Fabric!Modes, left \in Seq(C), right \in Seq(C) :
          i = Fabric!Pair(mode, l, left, r, right)
    <3>1. CASE i = Fabric!DetachedRearIntent(l, r)
      BY <2>1, <2>3, <3>1 DEF Fabric!DetachedRearIntent
    <3>2. CASE i = Fabric!StereoPairIntent(l, r)
      BY <2>1, <2>3, <3>2 DEF Fabric!StereoPairIntent
    <3>3. CASE i = Fabric!DockedAtmosWingIntent(l, r)
      BY <2>1, <2>3, <3>3 DEF Fabric!DockedAtmosWingIntent
    <3>4. CASE i = Fabric!DetachableAtmosRearIntent(l, r)
      BY <2>1, <2>3, <3>4 DEF Fabric!DetachableAtmosRearIntent
    <3> QED BY <1>3, <3>1, <3>2, <3>3, <3>4
  <2> HIDE DEF M, T
  <2> QED BY <1>1, <2>2
<1>4. i \in OtherIntents \/ \E l, r \in M :
        i \in {Fabric!DetachedRearIntent(l, r), Fabric!StereoPairIntent(l, r),
               Fabric!DockedAtmosWingIntent(l, r), Fabric!DetachableAtmosRearIntent(l, r)}
  BY DEF Fabric!Intents
<1> QED BY <1>2, <1>3, <1>4

\* A route is chosen only for a module that can play on it now.
LEMMA RouteSound ==
  ASSUME NEW s \in Fabric!ModuleStates, NEW mode, Fabric!SelectRoute(s, mode) # None
  PROVE  /\ Fabric!SelectRoute(s, mode) \in Fabric!Routes
         /\ Fabric!SelectRoute(s, mode) = "dock_bus" <=> s.attachment = "docked"
         /\ s.sync.locked
<1>1. s.attachment \in {"docked", "detached"}
  BY DEF Fabric!ModuleStates, Fabric!Attachments
<1>2. CASE s.attachment = "docked"
  BY <1>2 DEF Fabric!SelectRoute, Fabric!Routes
<1>3. CASE s.attachment = "detached"
  BY <1>3 DEF Fabric!SelectRoute, Fabric!Routes, Fabric!DetachedSync
<1> QED BY <1>1, <1>2, <1>3

\* What the planner admits fits the facts it was asked about.
LEMMA PlanSound ==
  ASSUME NEW inv \in [Modules \cup {EmptyId} -> Fabric!ModuleStates \cup {None}],
         NEW i \in Fabric!Intents, Fabric!Plan(inv, i) # None
  PROVE  \A k \in DOMAIN Fabric!Plan(inv, i) :
           LET a == Fabric!Plan(inv, i)[k]
               s == inv[a.module]
           IN /\ a.module \in Modules \cup {EmptyId} /\ a.route \in Fabric!Routes /\ a.clock \in Fabric!Clocks
              /\ s # None /\ s.online
              /\ a.route = "dock_bus" <=> s.attachment = "docked"
              /\ s.sync.locked /\ a.clock = s.sync.clock
<1> DEFINE P == [k \in DOMAIN i.targets |->
                   [module |-> i.targets[k].module,
                    route  |-> Fabric!SelectRoute(inv[i.targets[k].module], i.mode),
                    clock  |-> inv[i.targets[k].module].sync.clock,
                    roles  |-> i.targets[k].roles]]
<1>1. Fabric!Admits(inv, i.targets, i.mode) /\ Fabric!Plan(inv, i) = P
  BY DEF Fabric!Plan
<1>2. ASSUME NEW k \in DOMAIN i.targets
      PROVE  LET a == P[k]
                 s == inv[a.module]
             IN /\ a.module \in Modules \cup {EmptyId} /\ a.route \in Fabric!Routes /\ a.clock \in Fabric!Clocks
                /\ s # None /\ s.online
                /\ a.route = "dock_bus" <=> s.attachment = "docked"
                /\ s.sync.locked /\ a.clock = s.sync.clock
  <2> DEFINE m == i.targets[k].module
             s == inv[m]
  <2>1. m \in Modules \cup {EmptyId}
    <3> DEFINE T == [module : Modules \cup {EmptyId}, roles : Seq(Fabric!ChannelRoles)]
               t == i.targets
    <3>1. t \in Seq(T) /\ k \in DOMAIN t
      BY IntentsTyped
    <3> HIDE DEF T, t
    <3>2. t[k] \in T
      BY <3>1
    <3> QED BY <3>2 DEF T, t
  <2>2. s # None /\ s.online /\ Fabric!SelectRoute(s, i.mode) # None
    BY <1>1 DEF Fabric!Admits
  <2>3. s \in Fabric!ModuleStates
    BY <2>1, <2>2
  <2>4. s.sync.clock \in Fabric!Clocks
    BY <2>3 DEF Fabric!ModuleStates, Fabric!SyncStatus
  <2>5. /\ Fabric!SelectRoute(s, i.mode) \in Fabric!Routes
        /\ Fabric!SelectRoute(s, i.mode) = "dock_bus" <=> s.attachment = "docked"
        /\ s.sync.locked
    BY <2>2, <2>3, RouteSound
  <2>6. /\ P[k].module = m /\ P[k].route = Fabric!SelectRoute(s, i.mode) /\ P[k].clock = s.sync.clock
    OBVIOUS
  <2> QED BY <2>1, <2>2, <2>4, <2>5, <2>6
<1>3. DOMAIN P = DOMAIN i.targets
  OBVIOUS
<1> HIDE DEF P
<1> QED BY <1>1, <1>2, <1>3

LEMMA SessionSound == SessionInv => Fabric!TypeOK /\ Fabric!PlanFitsInventory
<1> SUFFICES ASSUME SessionInv PROVE Fabric!TypeOK /\ Fabric!PlanFitsInventory
  OBVIOUS
<1>1. inventory \in [Modules \cup {EmptyId} -> Fabric!ModuleStates \cup {None}]
  BY DEF SessionInv
<1>2. intent # None => intent.mode \in Fabric!Modes
  BY IntentsTyped DEF SessionInv
<1>3. plan # None => intent \in Fabric!Intents /\ plan = Fabric!Plan(inventory, intent)
  BY DEF SessionInv, Fabric!Reconciled
<1>4. plan # None => \A k \in DOMAIN plan :
        LET s == inventory[plan[k].module]
        IN /\ plan[k].module \in Modules \cup {EmptyId} /\ plan[k].route \in Fabric!Routes
           /\ plan[k].clock \in Fabric!Clocks
           /\ s # None /\ s.online
           /\ plan[k].route = "dock_bus" <=> s.attachment = "docked"
           /\ s.sync.locked /\ plan[k].clock = s.sync.clock
  BY <1>1, <1>3, PlanSound
<1> QED BY <1>1, <1>2, <1>4 DEF Fabric!TypeOK, Fabric!PlanFitsInventory

LEMMA SessionInit == Fabric!Init => SessionInv
BY DEF Fabric!Init, SessionInv

\* Every operation of the session leaves the plan of the new facts, or none.
LEMMA SessionStep ==
  ASSUME SessionInv, Fabric!Next \/ UNCHANGED sessionVars
  PROVE  SessionInv'
<1>0. Observed \subseteq Fabric!ModuleStates
  BY FabricAssumption DEF Fabric!FabricAssumption
<1>1. CASE Fabric!SetIntent
  BY <1>1 DEF SessionInv, Fabric!SetIntent
<1>2. CASE Fabric!UpsertModule
  BY <1>0, <1>2 DEF SessionInv, Fabric!UpsertModule
<1>3. CASE Fabric!UpsertRefused
  BY <1>3 DEF SessionInv, Fabric!UpsertRefused
<1>4. CASE Fabric!RemoveModule
  BY <1>4 DEF SessionInv, Fabric!RemoveModule
<1>5. CASE UNCHANGED sessionVars
  BY <1>5 DEF SessionInv, sessionVars
<1> QED BY <1>1, <1>2, <1>3, <1>4, <1>5 DEF Fabric!Next

\* The k-th position of a set of positions is in it, and is no other's.
LEMMA NthPlace ==
  ASSUME NEW n \in Nat, NEW S \in SUBSET (1 .. n)
  PROVE  /\ Fabric!Cardinality(S) \in Nat
         /\ \A k \in 1 .. Fabric!Cardinality(S) : Fabric!Nth(S, k) \in S
         /\ \A k, j \in 1 .. Fabric!Cardinality(S) : Fabric!Nth(S, k) = Fabric!Nth(S, j) => k = j
<1>1. \A T : Fabric!Cardinality(T) = Cardinality(T)
  BY DEF Cardinality, Fabric!Cardinality
<1>2. IsFiniteSet(S) /\ S \in SUBSET Int /\ Cardinality(S) \in Nat
  <2>1. IsFiniteSet(1 .. n)
    BY FS_Interval
  <2>2. IsFiniteSet(S)
    BY <2>1, FS_Subset
  <2> QED BY <2>2, FS_CardinalityType
<1>3. ASSUME NEW k \in 1 .. Cardinality(S)
      PROVE  Fabric!Nth(S, k) \in S /\ Rank(S, Fabric!Nth(S, k)) = k
  <2>1. \E i \in S : Rank(S, i) = k
    BY <1>2, Ranks
  <2>2. Fabric!Nth(S, k) = CHOOSE i \in S : Rank(S, i) = k
    BY <1>1 DEF Fabric!Nth, Rank
  <2> QED BY <2>1, <2>2
<1> QED BY <1>1, <1>2, <1>3

LEMMA Deployable ==
  ASSUME NEW inv \in [Modules \cup {EmptyId} -> Fabric!ModuleStates \cup {None}],
         NEW i \in Fabric!Intents, NEW p, p = Fabric!Plan(inv, i), p # None,
         IsInjective([k \in DOMAIN p |-> p[k].module]),
         Fabric!NetworkRoutes(p) \notin {None, <<>>}
  PROVE  Fabric!FanoutAccepts(Fabric!NetworkRoutes(p))
<1> DEFINE targets == i.targets
           n == Len(targets)
           M == Modules \cup {EmptyId}
           C == Fabric!ChannelRoles
<1>1. /\ targets \in Seq([module : M, roles : Seq(C)]) /\ n \in Nat /\ DOMAIN targets = 1 .. n
      /\ \A k \in 1 .. n : targets[k].roles \in Seq(C) /\ targets[k].module \in M
  <2>1. targets \in Seq([module : M, roles : Seq(C)])
    BY IntentsTyped
  <2> HIDE DEF targets
  <2>2. n \in Nat /\ DOMAIN targets = 1 .. n /\ \A k \in 1 .. n : targets[k] \in [module : M, roles : Seq(C)]
    BY <2>1, LenProperties
  <2>3. \A t \in [module : M, roles : Seq(C)] : t.roles \in Seq(C) /\ t.module \in M
    OBVIOUS
  <2> QED BY <2>1, <2>2, <2>3
<1>2. /\ Fabric!Admits(inv, targets, i.mode)
      /\ p = [k \in DOMAIN targets |->
                [module |-> targets[k].module,
                 route  |-> Fabric!SelectRoute(inv[targets[k].module], i.mode),
                 clock  |-> inv[targets[k].module].sync.clock,
                 roles  |-> targets[k].roles]]
  BY DEF Fabric!Plan
<1> HIDE DEF targets, n, M, C
<1>3. DOMAIN p = 1 .. n /\ \A k \in 1 .. n : p[k].module = targets[k].module /\ p[k].roles = targets[k].roles
  <2>1. DOMAIN targets = 1 .. n
    BY <1>1
  <2>2. DOMAIN p = 1 .. n
    BY <1>2, <2>1
  <2>3. ASSUME NEW k \in 1 .. n PROVE p[k].module = targets[k].module /\ p[k].roles = targets[k].roles
    <3>1. k \in DOMAIN targets
      BY <2>1
    <3>2. p[k] = [module |-> targets[k].module,
                  route  |-> Fabric!SelectRoute(inv[targets[k].module], i.mode),
                  clock  |-> inv[targets[k].module].sync.clock,
                  roles  |-> targets[k].roles]
      BY <1>2, <3>1
    <3> QED BY <3>2
  <2> QED BY <2>2, <2>3
<1>4. ASSUME NEW k \in 1 .. n PROVE Len(targets[k].roles) # 0
  <2> DEFINE s == inv[targets[k].module]
  <2>1. s # None /\ Len(targets[k].roles) \in 1 .. s.caps.lanes
    BY <1>1, <1>2 DEF Fabric!Admits
  <2>2. s \in Fabric!ModuleStates
    BY <1>1, <2>1 DEF M
  <2>3. s.caps.lanes \in Nat
    BY <2>2 DEF Fabric!ModuleStates, Fabric!Capabilities
  <2> HIDE DEF s
  <2> QED BY <2>1, <2>3
<1> DEFINE R == [k \in 1 .. n |-> targets[k].roles]
<1>5. R \in Seq(Seq(C)) /\ Len(R) = n /\ IsInjective(FlattenSeq(R))
  <2>1. R \in Seq(Seq(C)) /\ Len(R) = n
    <3>1. R \in [1 .. n -> Seq(C)] /\ n \in Nat
      BY <1>1
    <3> HIDE DEF R
    <3> QED BY <3>1, SeqDef
  <2>2. Fabric!RolesOf(targets) = FlattenSeq(R)
    BY <1>1 DEF Fabric!RolesOf, FlattenSeq, Fabric!FlattenSeq
  <2>3. IsInjective(Fabric!RolesOf(targets))
    BY <1>2 DEF Fabric!Admits, IsInjective, Fabric!IsInjective
  <2> QED BY <2>1, <2>2, <2>3
<1> HIDE DEF R
<1>6. \A k, j \in 1 .. n : \A l \in 1 .. Len(targets[k].roles), x \in 1 .. Len(targets[j].roles) :
        targets[k].roles[l] = targets[j].roles[x] => k = j /\ l = x
  <2>1. \A k, j \in 1 .. n : \A l \in 1 .. Len(R[k]), x \in 1 .. Len(R[j]) :
          R[k][l] = R[j][x] => k = j /\ l = x
    BY <1>5, FlattenInjective
  <2>2. \A k \in 1 .. n : R[k] = targets[k].roles
    BY DEF R
  <2> SUFFICES ASSUME NEW k \in 1 .. n, NEW j \in 1 .. n, NEW l \in 1 .. Len(targets[k].roles),
                      NEW x \in 1 .. Len(targets[j].roles), targets[k].roles[l] = targets[j].roles[x]
               PROVE  k = j /\ l = x
    OBVIOUS
  <2>3. l \in 1 .. Len(R[k]) /\ x \in 1 .. Len(R[j]) /\ R[k][l] = R[j][x]
    BY <2>2
  <2> HIDE DEF n
  <2> QED BY <2>1, <2>3
<1> DEFINE there == {k \in DOMAIN p : p[k].route \in {"wired", "wireless"}}
           c == Fabric!Cardinality(there)
           at(k) == Fabric!Nth(there, k)
           routes == [k \in 1 .. c |-> [module |-> p[at(k)].module, sources |-> p[at(k)].roles]]
<1>7. /\ c \in Nat
      /\ \A k \in 1 .. c : at(k) \in 1 .. n
      /\ \A k, j \in 1 .. c : at(k) = at(j) => k = j
  <2>1. there \in SUBSET (1 .. n)
    BY <1>3
  <2> HIDE DEF there
  <2> QED BY <1>1, <2>1, NthPlace
<1>8. Fabric!NetworkRoutes(p) = routes
  <2>1. Fabric!Networked(p) = [k \in 1 .. c |-> p[at(k)]]
    BY DEF Fabric!Networked
  <2> HIDE DEF c, at
  <2> QED BY <2>1 DEF Fabric!NetworkRoutes
<1> HIDE DEF there, c, at
<1>9. /\ DOMAIN routes = 1 .. c
      /\ \A k \in 1 .. c : routes[k].module = targets[at(k)].module /\ routes[k].sources = targets[at(k)].roles
  BY <1>3, <1>7
<1> HIDE DEF routes
<1>10. Fabric!IsInjective([k \in DOMAIN routes |-> routes[k].module])
  <2>1. \A k, j \in 1 .. n : p[k].module = p[j].module => k = j
    BY <1>3 DEF IsInjective
  <2>2. \A k, j \in 1 .. c : routes[k].module = routes[j].module => k = j
    BY <1>3, <1>7, <1>9, <2>1
  <2> QED BY <1>9, <2>2 DEF Fabric!IsInjective
<1>11. \A k \in DOMAIN routes : routes[k].sources # <<>>
  BY <1>1, <1>4, <1>7, <1>9, EmptySeq
<1> DEFINE F == [k \in DOMAIN routes |-> routes[k].sources]
<1>12. F \in Seq(Seq(C)) /\ Len(F) = c
  <2>1. F \in [1 .. c -> Seq(C)] /\ c \in Nat
    BY <1>1, <1>7, <1>9
  <2> HIDE DEF F
  <2> QED BY <2>1, SeqDef
<1>13. \A k, j \in 1 .. Len(F) : \A l \in 1 .. Len(F[k]), x \in 1 .. Len(F[j]) :
         F[k][l] = F[j][x] => k = j /\ l = x
  <2>1. \A k \in 1 .. c : F[k] = targets[at(k)].roles
    BY <1>9
  <2> HIDE DEF F
  <2>2. SUFFICES ASSUME NEW k \in 1 .. Len(F), NEW j \in 1 .. Len(F), NEW l \in 1 .. Len(F[k]), NEW x \in 1 .. Len(F[j]),
                        F[k][l] = F[j][x]
                 PROVE  k = j /\ l = x
    OBVIOUS
  <2>3. at(k) \in 1 .. n /\ at(j) \in 1 .. n /\ F[k] = targets[at(k)].roles /\ F[j] = targets[at(j)].roles
    BY <1>7, <1>12, <2>1
  <2>4. at(k) = at(j) /\ l = x
    BY <1>6, <2>2, <2>3, SMTT(20)
  <2> QED BY <1>7, <1>12, <2>4
<1>14. Fabric!IsInjective(Fabric!FlattenSeq(F))
  <2> HIDE DEF F
  <2>1. IsInjective(FlattenSeq(F))
    BY <1>12, <1>13, FlattenInjective
  <2>2. FlattenSeq(F) = Fabric!FlattenSeq(F)
    BY DEF FlattenSeq, Fabric!FlattenSeq
  <2> QED BY <2>1, <2>2 DEF IsInjective, Fabric!IsInjective
<1> QED BY <1>8, <1>10, <1>11, <1>14 DEF Fabric!FanoutAccepts

LEMMA SessionDeployable == SessionInv => Fabric!PlanDeployable
<1> SUFFICES ASSUME SessionInv, plan # None,
                    Fabric!IsInjective([k \in DOMAIN plan |-> plan[k].module]),
                    Fabric!NetworkRoutes(plan) \notin {None, <<>>}
             PROVE  Fabric!FanoutAccepts(Fabric!NetworkRoutes(plan))
  BY DEF Fabric!PlanDeployable
<1>1. /\ inventory \in [Modules \cup {EmptyId} -> Fabric!ModuleStates \cup {None}]
      /\ intent \in Fabric!Intents /\ plan = Fabric!Plan(inventory, intent)
  BY DEF SessionInv, Fabric!Reconciled
<1>2. IsInjective([k \in DOMAIN plan |-> plan[k].module])
  BY DEF IsInjective, Fabric!IsInjective
<1> QED BY <1>1, <1>2, Deployable

-----------------------------------------------------------------------------
(* The contract of an endpoint.                                            *)

\* Every phase knows which commands of which handover led to it.
ContractInv ==
  /\ issued = [e \in Epochs |-> issued[e]]
  /\ phase \in {"idle", "muted", "prepared", "armed"}
  /\ (phase # "idle" \/ ~muted) => lastEpoch \in Epochs /\ issued[lastEpoch] # None
  /\ phase # "idle" => muted
  /\ phase = "muted" => seen = <<lastEpoch>>
  /\ phase = "prepared" => seen = <<lastEpoch, lastEpoch>>
  /\ phase = "armed" => seen = <<lastEpoch, lastEpoch, lastEpoch>>
  /\ phase \in {"prepared", "armed"} => pending = issued[lastEpoch]
  /\ ~muted => /\ seen = <<lastEpoch, lastEpoch, lastEpoch, lastEpoch>>
               /\ active = issued[lastEpoch]

LEMMA ContractInit == Fabric!ContractInit => ContractInv
BY DEF Fabric!ContractInit, ContractInv

LEMMA ContractSound == ContractInv => Fabric!UnmutedByOneHandover
BY DEF ContractInv, Fabric!UnmutedByOneHandover

LEMMA AppendSame ==
  ASSUME NEW S, NEW e \in S
  PROVE  /\ Append(<<e>>, e) = <<e, e>> /\ Append(<<e, e>>, e) = <<e, e, e>>
         /\ Append(<<e, e, e>>, e) = <<e, e, e, e>>
<1>1. /\ <<e>> \in Seq(S) /\ Len(<<e>>) = 1 /\ <<e, e>> \in Seq(S) /\ Len(<<e, e>>) = 2
      /\ <<e, e, e>> \in Seq(S) /\ Len(<<e, e, e>>) = 3 /\ <<e, e, e, e>> \in Seq(S) /\ Len(<<e, e, e, e>>) = 4
  OBVIOUS
<1>2. Append(<<e>>, e) = <<e, e>>
  <2>1. Append(<<e>>, e) \in Seq(S) /\ Len(Append(<<e>>, e)) = 2
        /\ \A i \in 1 .. 2 : Append(<<e>>, e)[i] = <<e, e>>[i]
    BY <1>1, AppendProperties
  <2> QED BY <1>1, <2>1, SeqEqual
<1>3. Append(<<e, e>>, e) = <<e, e, e>>
  <2>1. Append(<<e, e>>, e) \in Seq(S) /\ Len(Append(<<e, e>>, e)) = 3
        /\ \A i \in 1 .. 3 : Append(<<e, e>>, e)[i] = <<e, e, e>>[i]
    BY <1>1, AppendProperties
  <2> QED BY <1>1, <2>1, SeqEqual
<1>4. Append(<<e, e, e>>, e) = <<e, e, e, e>>
  <2>1. Append(<<e, e, e>>, e) \in Seq(S) /\ Len(Append(<<e, e, e>>, e)) = 4
        /\ \A i \in 1 .. 4 : Append(<<e, e, e>>, e)[i] = <<e, e, e, e>>[i]
    BY <1>1, AppendProperties
  <2> QED BY <1>1, <2>1, SeqEqual
<1> QED BY <1>2, <1>3, <1>4

\* No command of another handover, late, repeated or out of order, moves the
\* endpoint on.
LEMMA ContractStep ==
  ASSUME ContractInv, Fabric!ContractNext \/ UNCHANGED contractVars
  PROVE  ContractInv'
<1>1. CASE Fabric!Issue
  <2>1. PICK e \in Epochs, a \in Assignments : issued[e] = None /\ issued' = [issued EXCEPT ![e] = a]
    BY <1>1 DEF Fabric!Issue
  <2>2. UNCHANGED <<lastEpoch, phase, pending, active, armed, muted, seen>>
    BY <1>1 DEF Fabric!Issue
  <2>3. issued' = [x \in Epochs |-> issued'[x]]
    BY <2>1 DEF ContractInv
  <2>4. \A x \in Epochs : issued[x] # None => issued'[x] = issued[x]
    BY <2>1 DEF ContractInv
  <2> QED BY <2>2, <2>3, <2>4 DEF ContractInv
<1>2. CASE Fabric!Apply
  <2>1. UNCHANGED issued
    BY <1>2 DEF Fabric!Apply
  <2>2. PICK e \in Epochs : /\ issued[e] # None
                            /\ Fabric!Mute(e) \/ Fabric!Prepare(e) \/ Fabric!Arm(e) \/ Fabric!Commit(e)
    BY <1>2 DEF Fabric!Apply
  <2>3. CASE Fabric!Mute(e)
    BY <2>1, <2>2, <2>3 DEF ContractInv, Fabric!Mute
  <2>4. CASE Fabric!Prepare(e)
    <3>1. seen' = <<e, e>> /\ lastEpoch = e
      BY <2>4, AppendSame DEF ContractInv, Fabric!Prepare, Fabric!RequireEpoch
    <3> QED BY <2>1, <2>2, <2>4, <3>1 DEF ContractInv, Fabric!Prepare
  <2>5. CASE Fabric!Arm(e)
    <3>1. seen' = <<e, e, e>> /\ lastEpoch = e
      BY <2>5, AppendSame DEF ContractInv, Fabric!Arm, Fabric!RequireEpoch
    <3> QED BY <2>1, <2>2, <2>5, <3>1 DEF ContractInv, Fabric!Arm
  <2>6. CASE Fabric!Commit(e)
    <3>1. seen' = <<e, e, e, e>> /\ lastEpoch = e
      BY <2>6, AppendSame DEF ContractInv, Fabric!Commit, Fabric!RequireEpoch
    <3> QED BY <2>1, <2>2, <2>6, <3>1 DEF ContractInv, Fabric!Commit
  <2> QED BY <2>2, <2>3, <2>4, <2>5, <2>6
<1>3. CASE UNCHANGED contractVars
  BY <1>3 DEF ContractInv, contractVars
<1> QED BY <1>1, <1>2, <1>3 DEF Fabric!ContractNext

-----------------------------------------------------------------------------
(* The endpoint's firmware.  Nothing is assumed of what is written to it.  *)

Fields == {"sEpoch", "sRole0", "sRole1", "sStart", "epoch", "role0", "role1", "start",
           "phase", "muted", "pending", "timer", "open"}

\* A control block whose output is open only after a COMMIT.
Closed(f) ==
  /\ f = [x \in Fields |-> f[x]]
  /\ f.open => f.phase = "committed" /\ ~f.muted

\* From f to g the output opens only on the deadline.
OnTime(f, g) == ~f.open /\ g.open => Due(f.start)

LEMMA FaultedClosed ==
  ASSUME NEW f, f = [x \in Fields |-> f[x]]
  PROVE  Closed(Faulted(f)) /\ ~Faulted(f).open
BY DEF Closed, Faulted, Cancelled, Fields

LEMMA MuteClosed ==
  ASSUME NEW f, Closed(f) PROVE Closed(MuteCommand(f)) /\ OnTime(f, MuteCommand(f))
<1> DEFINE g == [Cancelled(f) EXCEPT !.epoch = f.sEpoch, !.role0 = Unused, !.role1 = Unused,
                                     !.start = 0, !.phase = "muted", !.muted = TRUE]
<1>1. Closed(g) /\ ~g.open
  BY DEF Closed, Cancelled, Fields
<1>2. Closed(Faulted(f)) /\ ~Faulted(f).open
  BY FaultedClosed DEF Closed
<1>3. MuteCommand(f) \in {g, Faulted(f)}
  BY DEF MuteCommand
<1> HIDE DEF g
<1> QED BY <1>1, <1>2, <1>3 DEF OnTime

LEMMA PrepareClosed ==
  ASSUME NEW f, Closed(f) PROVE Closed(PrepareCommand(f)) /\ OnTime(f, PrepareCommand(f))
<1> DEFINE g == [f EXCEPT !.role0 = f.sRole0, !.role1 = f.sRole1, !.phase = "prepared", !.muted = TRUE]
<1>1. f.phase = "muted" => Closed(g) /\ ~g.open
  BY DEF Closed, Fields
<1>2. Closed(Faulted(f)) /\ ~Faulted(f).open
  BY FaultedClosed DEF Closed
<1>3. PrepareCommand(f) \in {f, Faulted(f)} \/ (f.phase = "muted" /\ PrepareCommand(f) = g)
  BY DEF PrepareCommand
<1> HIDE DEF g
<1> QED BY <1>1, <1>2, <1>3 DEF OnTime

LEMMA ArmClosed ==
  ASSUME NEW f, Closed(f) PROVE Closed(ArmCommand(f)) /\ OnTime(f, ArmCommand(f))
<1> DEFINE g == [f EXCEPT !.start = f.sStart, !.phase = "armed", !.muted = TRUE]
<1>1. f.phase = "prepared" => Closed(g) /\ ~g.open
  BY DEF Closed, Fields
<1>2. Closed(Faulted(f)) /\ ~Faulted(f).open
  BY FaultedClosed DEF Closed
<1>3. ArmCommand(f) \in {f, Faulted(f)} \/ (f.phase = "prepared" /\ ArmCommand(f) = g)
  BY DEF ArmCommand
<1> HIDE DEF g
<1> QED BY <1>1, <1>2, <1>3 DEF OnTime

LEMMA CommitClosed ==
  ASSUME NEW f, NEW start, Closed(f)
  PROVE  Closed(CommitCommand(f, start)) /\ OnTime(f, CommitCommand(f, start))
<1> DEFINE c == [f EXCEPT !.phase = "committed", !.muted = TRUE]
           g == [c EXCEPT !.timer = FALSE, !.pending = c.epoch, !.open = FALSE]
           t == [g EXCEPT !.timer = TRUE]
<1>1. /\ c = [x \in Fields |-> c[x]] /\ g = [x \in Fields |-> g[x]] /\ c.start = f.start
      /\ Closed(t) /\ ~t.open /\ Closed(Opened(g))
  BY DEF Closed, Opened, Fields
<1>2. /\ Closed(Faulted(f)) /\ ~Faulted(f).open /\ Closed(Faulted(c)) /\ ~Faulted(c).open
      /\ Closed(Faulted(g)) /\ ~Faulted(g).open
  <2>1. f = [x \in Fields |-> f[x]]
    BY DEF Closed
  <2>2. c = [x \in Fields |-> c[x]] /\ g = [x \in Fields |-> g[x]]
    BY <1>1
  <2> HIDE DEF c, g
  <2> QED BY <2>1, <2>2, FaultedClosed
<1>3. \/ Scheduled(c, start) \in {Faulted(c), Faulted(g), t}
      \/ Scheduled(c, start) = Opened(g) /\ Due(c.start)
  <2> HIDE DEF c
  <2> QED BY DEF Scheduled, TooLate, Due
<1>4. CommitCommand(f, start) \in {f, Faulted(f), Scheduled(c, start)}
  BY DEF CommitCommand
<1> HIDE DEF c, g, t
<1> QED BY <1>1, <1>2, <1>3, <1>4 DEF OnTime

LEMMA StopClosed ==
  ASSUME NEW f, Closed(f) PROVE Closed(StopCommand(f)) /\ OnTime(f, StopCommand(f))
<1> DEFINE g == [Cancelled(f) EXCEPT !.phase = "muted", !.muted = TRUE, !.start = 0]
<1>1. Closed(g) /\ ~g.open
  BY DEF Closed, Cancelled, Fields
<1>2. Closed(Faulted(f)) /\ ~Faulted(f).open
  BY FaultedClosed DEF Closed
<1>3. StopCommand(f) \in {g, Faulted(f)}
  BY DEF StopCommand
<1> HIDE DEF g
<1> QED BY <1>1, <1>2, <1>3 DEF OnTime

\* Whatever is written, the endpoint stays closed or opens on its deadline.
LEMMA WriteClosed ==
  ASSUME NEW f, NEW w, NEW start, Closed(f)
  PROVE  Closed(SetControl(f, w, start)) /\ OnTime(f, SetControl(f, w, start))
<1> DEFINE g == SetControl(f, w, start)
<1>1. CASE w.control = "command"
  <2>1. g = Apply(f, w.value, start)
    BY <1>1 DEF SetControl
  <2>2. Apply(f, w.value, start) \in {MuteCommand(f), Faulted(f), PrepareCommand(f), ArmCommand(f),
                                      CommitCommand(f, start), StopCommand(f)}
    BY DEF Apply
  <2>3. Closed(Faulted(f)) /\ OnTime(f, Faulted(f))
    BY FaultedClosed DEF Closed, OnTime
  <2> HIDE DEF g
  <2> QED BY <2>1, <2>2, <2>3, MuteClosed, PrepareClosed, ArmClosed, CommitClosed, StopClosed DEF g
<1>2. CASE w.control = "epoch"
  <2>1. g = [f EXCEPT !.sEpoch = w.value]
    BY <1>2 DEF SetControl
  <2> QED BY <2>1 DEF Closed, OnTime, Fields
<1>3. CASE w.control = "role0"
  <2>1. g = [f EXCEPT !.sRole0 = w.value]
    BY <1>3 DEF SetControl
  <2> QED BY <2>1 DEF Closed, OnTime, Fields
<1>4. CASE w.control = "role1"
  <2>1. g = [f EXCEPT !.sRole1 = w.value]
    BY <1>4 DEF SetControl
  <2> QED BY <2>1 DEF Closed, OnTime, Fields
<1>5. CASE w.control = "start"
  <2>1. g = [f EXCEPT !.sStart = w.value]
    BY <1>5 DEF SetControl
  <2> QED BY <2>1 DEF Closed, OnTime, Fields
<1>6. CASE w.control \notin {"command", "epoch", "role0", "role1", "start"}
  <2>1. g = f
    BY <1>6 DEF SetControl
  <2> QED BY <2>1 DEF OnTime
<1> QED BY <1>1, <1>2, <1>3, <1>4, <1>5, <1>6

FirmwareInv ==
  /\ fw = [m \in Modules |-> fw[m]] /\ callback = [m \in Modules |-> callback[m]]
  /\ \A m \in Modules : Closed(fw[m])
  /\ \A m \in Modules : callback[m] # None => fw[m].phase = "committed"

LEMMA FirmwareInit == Init => FirmwareInv
<1>1. Closed(Boot)
  BY DEF Closed, Boot, Fields
<1> QED BY <1>1 DEF Init, FirmwareInv

LEMMA FirmwareSound == FirmwareInv => OpenOnlyCommitted
BY DEF FirmwareInv, Closed, OpenOnlyCommitted, Audible

\* One endpoint's block is written, and its callback goes past its checks or is done.
LEMMA BlockWritten ==
  ASSUME FirmwareInv, NEW m, NEW g, NEW c,
         fw' = [fw EXCEPT ![m] = g], callback' = [callback EXCEPT ![m] = c],
         m \in Modules => Closed(g) /\ (c # None => g.phase = "committed")
  PROVE  FirmwareInv'
<1>1. /\ fw' = [x \in Modules |-> fw'[x]] /\ callback' = [x \in Modules |-> callback'[x]]
      /\ \A x \in Modules : /\ fw'[x] = IF x = m THEN g ELSE fw[x]
                            /\ callback'[x] = IF x = m THEN c ELSE callback[x]
  BY DEF FirmwareInv
<1>2. \A x \in Modules : Closed(fw'[x]) /\ (callback'[x] # None => fw'[x].phase = "committed")
  BY <1>1 DEF FirmwareInv
<1>3. \A x \in Modules : Closed(fw[x])' <=> Closed(fw'[x])
  BY DEF Closed
<1> QED BY <1>1, <1>2, <1>3 DEF FirmwareInv

\* Commands, the timer, its callback, reboots and clock changes in any order
\* keep every endpoint closed until a COMMIT, as long as a command does not
\* overtake the callback.
LEMMA FirmwareStep ==
  ASSUME Preempt = FALSE, FirmwareInv, Next \/ UNCHANGED vars
  PROVE  FirmwareInv'
<1>0. \A m \in Modules : callback = [callback EXCEPT ![m] = callback[m]]
  BY DEF FirmwareInv
<1>1. CASE StartHandover \/ StopModule \/ GiveUp \/ PtpChanges \/ Tick \/ UNCHANGED vars
  <2>1. UNCHANGED <<fw, callback>>
    BY <1>1 DEF StartHandover, StopModule, GiveUp, PtpChanges, Tick, vars
  <2>2. \A m \in Modules : Closed(fw[m])' <=> Closed(fw[m])
    BY <2>1 DEF Closed
  <2> QED BY <2>1, <2>2 DEF FirmwareInv
<1>2. CASE WriteAcknowledged \/ WriteRefused \/ ResponseLost
  <2> DEFINE w == Head(program)
             m == w.module
  <2>1. UNCHANGED callback /\ callback[m] = None
    BY <1>2 DEF WriteAcknowledged, WriteRefused, ResponseLost, Runs
  <2>2. PICK start \in BOOLEAN : fw' = [fw EXCEPT ![m] = SetControl(fw[m], w, start)]
    BY <1>2 DEF WriteAcknowledged, WriteRefused, ResponseLost
  <2>3. m \in Modules => Closed(SetControl(fw[m], w, start))
    BY WriteClosed DEF FirmwareInv
  <2>4. callback' = [callback EXCEPT ![m] = None]
    BY <2>1 DEF FirmwareInv
  <2> HIDE DEF w, m
  <2> QED BY <2>2, <2>3, <2>4, BlockWritten
<1>3. CASE TimerFires
  <2>1. PICK m \in Modules, start \in BOOLEAN : callback[m] = None /\ Decide(m, start)
    BY <1>3 DEF TimerFires
  <2> DEFINE f == [fw[m] EXCEPT !.timer = FALSE]
             t == [f EXCEPT !.timer = TRUE]
  <2>2. f = [x \in Fields |-> f[x]] /\ Closed(f)
    <3>1. Closed(fw[m])
      BY DEF FirmwareInv
    <3>2. /\ f = [x \in Fields |-> f[x]] /\ f.open = fw[m].open
          /\ f.phase = fw[m].phase /\ f.muted = fw[m].muted
      BY <3>1 DEF Closed, Fields
    <3> QED BY <3>1, <3>2 DEF Closed
  <2>3. Closed(t) /\ Closed(Faulted(f))
    <3> HIDE DEF f
    <3>1. Closed(t)
      BY <2>2 DEF Closed, Fields
    <3> QED BY <2>2, <3>1, FaultedClosed
  <2>4. \/ /\ UNCHANGED callback /\ \E g \in {f, t, Faulted(f)} : fw' = [fw EXCEPT ![m] = g]
        \/ /\ callback' = [callback EXCEPT ![m] = f.start] /\ fw' = [fw EXCEPT ![m] = f]
           /\ f.phase = "committed"
    BY <2>1 DEF Decide, DeadlineDue
  <2> HIDE DEF f, t
  <2>5. CASE UNCHANGED callback
    <3>1. PICK g \in {f, t, Faulted(f)} : fw' = [fw EXCEPT ![m] = g]
      BY <2>4
    <3>2. callback' = [callback EXCEPT ![m] = None]
      BY <1>0, <2>1, <2>5
    <3> QED BY <2>2, <2>3, <3>1, <3>2, BlockWritten
  <2>6. CASE /\ callback' = [callback EXCEPT ![m] = f.start] /\ fw' = [fw EXCEPT ![m] = f]
             /\ f.phase = "committed"
    BY <2>2, <2>6, BlockWritten
  <2> QED BY <2>4, <2>5, <2>6
<1>4. CASE OpenOutput \/ Reboot
  <2>1. PICK m \in Modules : /\ callback' = [callback EXCEPT ![m] = None]
                             /\ \/ callback[m] # None /\ fw' = [fw EXCEPT ![m] = Opened(fw[m])]
                                \/ fw' = [fw EXCEPT ![m] = Boot]
    BY <1>4 DEF OpenOutput, Reboot
  <2>2. Closed(Boot)
    BY DEF Closed, Boot, Fields
  <2>3. ASSUME NEW f, Closed(f), f.phase = "committed" PROVE Closed(Opened(f))
    BY <2>3 DEF Closed, Opened, Fields
  <2>4. callback[m] # None => Closed(Opened(fw[m]))
    BY <2>3 DEF FirmwareInv
  <2> QED BY <2>1, <2>2, <2>4, BlockWritten
<1> QED BY <1>1, <1>2, <1>3, <1>4 DEF Next

-----------------------------------------------------------------------------
(* The deadline, also where a command overtakes the timer callback.        *)

\* The control block keeps its fields, whatever is written.
Block(f) == f = [x \in Fields |-> f[x]]

LEMMA WriteBlock ==
  ASSUME NEW f, NEW w, NEW start, Block(f)
  PROVE  Block(SetControl(f, w, start))
<1>1. ASSUME NEW h, Block(h) PROVE Block(Cancelled(h)) /\ Block(Faulted(h)) /\ Block(Opened(h))
  BY <1>1 DEF Block, Cancelled, Faulted, Opened, Fields
<1>2. ASSUME NEW h, Block(h) PROVE Block(Scheduled(h, start))
  <2> DEFINE g == [h EXCEPT !.timer = FALSE, !.pending = h.epoch, !.open = FALSE]
             t == [g EXCEPT !.timer = TRUE]
  <2>1. Block(g)
    BY <1>2 DEF Block, Fields
  <2>2. Scheduled(h, start) \in {Faulted(h), Faulted(g), t, Opened(g)}
    BY DEF Scheduled
  <2> HIDE DEF g
  <2>3. Block(t)
    BY <2>1 DEF Block, Fields
  <2> HIDE DEF t
  <2> QED BY <1>1, <1>2, <2>1, <2>2, <2>3
<1>3. Block(MuteCommand(f))
  <2> DEFINE h == Cancelled(f)
             g == [h EXCEPT !.epoch = f.sEpoch, !.role0 = Unused, !.role1 = Unused,
                            !.start = 0, !.phase = "muted", !.muted = TRUE]
  <2>1. MuteCommand(f) \in {g, Faulted(f)} /\ Block(h)
    BY <1>1 DEF MuteCommand
  <2> HIDE DEF h
  <2>2. Block(g)
    BY <2>1 DEF Block, Fields
  <2> QED BY <1>1, <2>1, <2>2
<1>4. Block(PrepareCommand(f))
  <2> DEFINE g == [f EXCEPT !.role0 = f.sRole0, !.role1 = f.sRole1, !.phase = "prepared", !.muted = TRUE]
  <2>1. PrepareCommand(f) \in {f, g, Faulted(f)}
    BY DEF PrepareCommand
  <2>2. Block(g)
    BY DEF Block, Fields
  <2> QED BY <1>1, <2>1, <2>2
<1>5. Block(ArmCommand(f))
  <2> DEFINE g == [f EXCEPT !.start = f.sStart, !.phase = "armed", !.muted = TRUE]
  <2>1. ArmCommand(f) \in {f, g, Faulted(f)}
    BY DEF ArmCommand
  <2>2. Block(g)
    BY DEF Block, Fields
  <2> QED BY <1>1, <2>1, <2>2
<1>6. Block(CommitCommand(f, start))
  <2> DEFINE g == [f EXCEPT !.phase = "committed", !.muted = TRUE]
  <2>1. CommitCommand(f, start) \in {f, Scheduled(g, start), Faulted(f)}
    BY DEF CommitCommand
  <2>2. Block(g)
    BY DEF Block, Fields
  <2> HIDE DEF g
  <2> QED BY <1>1, <1>2, <2>1, <2>2
<1>7. Block(StopCommand(f))
  <2> DEFINE h == Cancelled(f)
             g == [h EXCEPT !.phase = "muted", !.muted = TRUE, !.start = 0]
  <2>1. StopCommand(f) \in {g, Faulted(f)} /\ Block(h)
    BY <1>1 DEF StopCommand
  <2> HIDE DEF h
  <2>2. Block(g)
    BY <2>1 DEF Block, Fields
  <2> QED BY <1>1, <2>1, <2>2
<1>8. Block(Apply(f, w.value, start))
  <2>1. Apply(f, w.value, start) \in {MuteCommand(f), Faulted(f), PrepareCommand(f), ArmCommand(f),
                                      CommitCommand(f, start), StopCommand(f)}
    BY DEF Apply
  <2> QED BY <1>1, <1>3, <1>4, <1>5, <1>6, <1>7, <2>1
<1>9. SetControl(f, w, start) \in
        {[f EXCEPT !.sEpoch = w.value], [f EXCEPT !.sRole0 = w.value], [f EXCEPT !.sRole1 = w.value],
         [f EXCEPT !.sStart = w.value], Apply(f, w.value, start), f}
  BY DEF SetControl
<1>10. \A x \in {[f EXCEPT !.sEpoch = w.value], [f EXCEPT !.sRole0 = w.value],
                 [f EXCEPT !.sRole1 = w.value], [f EXCEPT !.sStart = w.value]} : Block(x)
  BY DEF Block, Fields
<1> QED BY <1>8, <1>9, <1>10

\* A callback past its checks is inside the window of the deadline it checked.
GateInv ==
  /\ fw = [m \in Modules |-> fw[m]] /\ callback = [m \in Modules |-> callback[m]]
  /\ \A m \in Modules : Block(fw[m]) /\ (callback[m] # None => Due(callback[m]))

\* The gate of m opens only inside a window: that of the armed time or of the checked one.
Timely(m) ==
  ~fw[m].open /\ fw'[m].open => Due(fw[m].start) \/ (callback[m] # None /\ Due(callback[m]))

LEMMA GateInit == Init => GateInv
<1>1. Block(Boot)
  BY DEF Block, Boot, Fields
<1> QED BY <1>1 DEF Init, GateInv

LEMMA GateWritten ==
  ASSUME GateInv, NEW m, NEW g, NEW c, UNCHANGED <<ready, now>>,
         fw' = [fw EXCEPT ![m] = g], callback' = [callback EXCEPT ![m] = c],
         m \in Modules => /\ Block(g) /\ (c # None => Due(c))
                          /\ ~fw[m].open /\ g.open =>
                               Due(fw[m].start) \/ (callback[m] # None /\ Due(callback[m]))
  PROVE  GateInv' /\ \A x \in Modules : Timely(x)
<1>1. /\ fw' = [x \in Modules |-> fw'[x]] /\ callback' = [x \in Modules |-> callback'[x]]
      /\ \A x \in Modules : /\ fw'[x] = IF x = m THEN g ELSE fw[x]
                            /\ callback'[x] = IF x = m THEN c ELSE callback[x]
  BY DEF GateInv
<1>2. \A x \in Modules : Block(fw'[x]) /\ (callback'[x] # None => Due(callback'[x]))
  BY <1>1 DEF GateInv
<1>3. \A x \in Modules : /\ Block(fw[x])' <=> Block(fw'[x])
                         /\ Due(callback[x])' <=> Due(callback'[x])
  BY DEF Block, Due
<1>4. \A x \in Modules : Timely(x)
  BY <1>1 DEF Timely
<1> QED BY <1>1, <1>2, <1>3, <1>4 DEF GateInv

LEMMA GateStep ==
  ASSUME GateInv, Next \/ UNCHANGED vars
  PROVE  GateInv' /\ \A m \in Modules : Timely(m)
<1>1. CASE StartHandover \/ StopModule \/ GiveUp \/ PtpChanges \/ Tick \/ UNCHANGED vars
  <2>1. /\ UNCHANGED <<fw, callback>>
        /\ UNCHANGED <<ready, now>> \/ \A m \in Modules : callback[m] = None
    BY <1>1 DEF StartHandover, StopModule, GiveUp, PtpChanges, Tick, vars
  <2>2. \A m \in Modules : /\ Block(fw[m])' <=> Block(fw[m])
                           /\ callback[m] # None => Due(callback[m])'
    BY <2>1 DEF Block, Due, GateInv
  <2> QED BY <2>1, <2>2 DEF GateInv, Timely
<1>2. CASE WriteAcknowledged \/ WriteRefused \/ ResponseLost
  <2> DEFINE w == Head(program)
             m == w.module
  <2>1. UNCHANGED <<callback, ready, now>>
    BY <1>2 DEF WriteAcknowledged, WriteRefused, ResponseLost
  <2>2. PICK start \in BOOLEAN : fw' = [fw EXCEPT ![m] = SetControl(fw[m], w, start)]
    BY <1>2 DEF WriteAcknowledged, WriteRefused, ResponseLost
  <2> DEFINE g == SetControl(fw[m], w, start)
  <2>3. m \in Modules => Block(g)
    BY WriteBlock DEF GateInv
  <2>4. m \in Modules /\ ~fw[m].open /\ g.open => Due(fw[m].start)
    <3>1. m \in Modules /\ ~fw[m].open => Closed(fw[m])
      BY DEF GateInv, Block, Closed
    <3> HIDE DEF w
    <3> QED BY <3>1, WriteClosed DEF OnTime
  <2>5. callback' = [callback EXCEPT ![m] = callback[m]]
    BY <2>1 DEF GateInv
  <2>6. m \in Modules /\ callback[m] # None => Due(callback[m])
    BY DEF GateInv
  <2> HIDE DEF w, m, g
  <2>7. fw' = [fw EXCEPT ![m] = g]
    BY <2>2 DEF g
  <2> QED BY <2>1, <2>3, <2>4, <2>5, <2>6, <2>7, GateWritten
<1>3. CASE TimerFires
  <2>1. UNCHANGED <<ready, now>>
    BY <1>3 DEF TimerFires
  <2>2. PICK m \in Modules, start \in BOOLEAN : callback[m] = None /\ Decide(m, start)
    BY <1>3 DEF TimerFires
  <2> DEFINE f == [fw[m] EXCEPT !.timer = FALSE]
             t == [f EXCEPT !.timer = TRUE]
  <2>3. Block(f) /\ f.open = fw[m].open
    BY DEF GateInv, Block, Fields
  <2>4. \/ /\ UNCHANGED callback /\ \E g \in {f, t, Faulted(f)} : fw' = [fw EXCEPT ![m] = g]
        \/ /\ callback' = [callback EXCEPT ![m] = f.start] /\ fw' = [fw EXCEPT ![m] = f]
           /\ Due(f.start)
    BY <2>2 DEF Decide, TooLate, Due
  <2> HIDE DEF f
  <2>5. Block(t) /\ t.open = f.open /\ Block(Faulted(f)) /\ ~Faulted(f).open
    BY <2>3 DEF Block, Faulted, Cancelled, Fields
  <2> HIDE DEF t
  <2>6. CASE UNCHANGED callback
    <3>1. PICK g \in {f, t, Faulted(f)} : fw' = [fw EXCEPT ![m] = g]
      BY <2>4
    <3>2. callback' = [callback EXCEPT ![m] = None]
      BY <2>2, <2>6 DEF GateInv
    <3>3. Block(g) /\ ~(~fw[m].open /\ g.open)
      BY <2>3, <2>5
    <3> QED BY <2>1, <3>1, <3>2, <3>3, GateWritten
  <2>7. CASE /\ callback' = [callback EXCEPT ![m] = f.start] /\ fw' = [fw EXCEPT ![m] = f]
             /\ Due(f.start)
    BY <2>1, <2>3, <2>7, GateWritten
  <2> QED BY <2>4, <2>6, <2>7
<1>4. CASE OpenOutput \/ Reboot
  <2>1. UNCHANGED <<ready, now>>
    BY <1>4 DEF OpenOutput, Reboot
  <2>2. PICK m \in Modules : /\ callback' = [callback EXCEPT ![m] = None]
                             /\ \/ callback[m] # None /\ fw' = [fw EXCEPT ![m] = Opened(fw[m])]
                                \/ fw' = [fw EXCEPT ![m] = Boot]
    BY <1>4 DEF OpenOutput, Reboot
  <2>3. Block(Boot) /\ ~Boot.open
    BY DEF Block, Boot, Fields
  <2>4. Block(Opened(fw[m]))
    BY DEF GateInv, Block, Opened, Fields
  <2>5. callback[m] # None => Due(callback[m])
    BY DEF GateInv
  <2>6. CASE callback[m] # None /\ fw' = [fw EXCEPT ![m] = Opened(fw[m])]
    BY <2>1, <2>2, <2>4, <2>5, <2>6, GateWritten
  <2>7. CASE fw' = [fw EXCEPT ![m] = Boot]
    BY <2>1, <2>2, <2>3, <2>7, GateWritten
  <2> QED BY <2>2, <2>6, <2>7
<1> QED BY <1>1, <1>2, <1>3, <1>4 DEF Next

-----------------------------------------------------------------------------
(* The writes of a handover.                                               *)

\* The members of an ascending sequence are those of its set.
LEMMA AscendingMembers ==
  ASSUME NEW S \in SUBSET Modules
  PROVE  /\ Cardinality(S) \in Nat /\ Ascending(S) \in [1 .. Cardinality(S) -> S]
         /\ \A m \in S : \E k \in 1 .. Cardinality(S) : Ascending(S)[k] = m
<1> DEFINE c == Cardinality(S)
<1>1. IsFiniteSet(S) /\ S \in SUBSET Int /\ c \in Nat
  <2>1. IsFiniteSet(Modules) /\ Modules \in SUBSET Int
    BY HandoverAssumption, FS_Interval DEF HandoverAssumption, Modules
  <2>2. IsFiniteSet(S)
    BY <2>1, FS_Subset
  <2> QED BY <2>1, <2>2, FS_CardinalityType
<1>2. /\ \A m \in S : Rank(S, m) \in 1 .. c
      /\ \A m, n \in S : Rank(S, m) = Rank(S, n) => m = n
      /\ \A k \in 1 .. c : \E m \in S : Rank(S, m) = k
  BY <1>1, Ranks
<1>3. Ascending(S) = [k \in 1 .. c |-> CHOOSE m \in S : Rank(S, m) = k]
  BY DEF Ascending, Rank
<1> HIDE DEF c
<1>4. \A k \in 1 .. c : Ascending(S)[k] \in S /\ Rank(S, Ascending(S)[k]) = k
  BY <1>2, <1>3
<1>5. \A m \in S : \E k \in 1 .. c : Ascending(S)[k] = m
  BY <1>2, <1>4
<1> QED BY <1>1, <1>3, <1>4, <1>5 DEF c

Ops == {"prepare", "arm", "commit"}
Command(op, m, e, f, next) == [op |-> op, module |-> m, epoch |-> e, start |-> f, to |-> next[m]]
\* The first part of a handover, and the rest of it.
Mutes(prev, next, e, f) == {Command("mute", m, e, f, next) : m \in Changed(prev, next)}
Others(prev, next, e, f) ==
  {Command(op, m, e, f, next) : op \in Ops, m \in {x \in Changed(prev, next) : next[x] # None}}

MutesFirst(B, prev, next, e, f) ==
  \E A \in Seq(Mutes(prev, next, e, f)), R \in Seq(Others(prev, next, e, f)) :
    /\ B = A \o R
    /\ \A m \in Changed(prev, next) : \E k \in 1 .. Len(A) : A[k].module = m

\* build_handover_plan mutes every module it changes, and that before all else.
LEMMA HandoverCommands ==
  ASSUME NEW prev, NEW next, NEW e, NEW f
  PROVE  MutesFirst(BuildHandover(prev, next, e, f), prev, next, e, f)
<1> DEFINE C    == Changed(prev, next)
           K    == {m \in C : next[m] # None}
           all  == Ascending(C)
           kept == Ascending(K)
           M    == Mutes(prev, next, e, f)
           O    == Others(prev, next, e, f)
           c(op, s) == [k \in DOMAIN s |-> [op |-> op, module |-> s[k], epoch |-> e,
                                            start |-> f, to |-> next[s[k]]]]
<1>1. C \in SUBSET Modules /\ K \in SUBSET Modules
  BY DEF Changed
<1>2. /\ Cardinality(C) \in Nat /\ all \in [1 .. Cardinality(C) -> C]
      /\ Cardinality(K) \in Nat /\ kept \in [1 .. Cardinality(K) -> K]
      /\ \A m \in C : \E k \in 1 .. Cardinality(C) : all[k] = m
  <2> HIDE DEF C, K
  <2> QED BY <1>1, AscendingMembers
<1>3. BuildHandover(prev, next, e, f) =
        c("mute", all) \o ((c("prepare", kept) \o c("arm", kept)) \o c("commit", kept))
  BY DEF BuildHandover
<1>4. c("mute", all) \in Seq(M) /\ Len(c("mute", all)) = Cardinality(C)
  <2>1. c("mute", all) \in [1 .. Cardinality(C) -> M]
    <3> HIDE DEF all
    <3> QED BY <1>2 DEF Mutes, Command
  <2> HIDE DEF M, c, C
  <2> QED BY <1>2, <2>1, SeqDef
<1>5. \A op \in Ops : c(op, kept) \in Seq(O)
  <2> TAKE op \in Ops
  <2>1. c(op, kept) \in [1 .. Cardinality(K) -> O]
    <3> HIDE DEF kept
    <3> QED BY <1>2 DEF Others, Command
  <2> HIDE DEF O, c, K
  <2> QED BY <1>2, <2>1, SeqDef
<1>6. \A m \in C : \E k \in 1 .. Len(c("mute", all)) : c("mute", all)[k].module = m
  <2>1. \A k \in 1 .. Cardinality(C) : c("mute", all)[k].module = all[k]
    <3> HIDE DEF all, C
    <3> QED BY <1>2
  <2> HIDE DEF C, c, all
  <2> QED BY <1>2, <1>4, <2>1
<1> DEFINE A == c("mute", all)
           P == c("prepare", kept)
           Q == c("arm", kept)
           R == c("commit", kept)
<1>7. A \in Seq(M) /\ P \in Seq(O) /\ Q \in Seq(O) /\ R \in Seq(O)
  BY <1>4, <1>5 DEF Ops
<1> HIDE DEF M, O, A, P, Q, R
<1>8. (P \o Q) \o R \in Seq(O)
  BY <1>7, ConcatProperties
<1>9. BuildHandover(prev, next, e, f) = A \o ((P \o Q) \o R)
  BY <1>3, <1>8 DEF A, P, Q, R
<1>10. \A m \in C : \E k \in 1 .. Len(A) : A[k].module = m
  BY <1>6 DEF A
<1> HIDE DEF C
<1> QED BY <1>7, <1>8, <1>9, <1>10 DEF M, O, C, MutesFirst

\* What the commands of an endpoint can write.
Values(c) == {c.epoch, c.op, PtpTimeForFrame(c.start), c.to.roles[1], c.to.roles[2], Unused}

FirstRole(a)  == a.roles[1]
SecondRole(a) == IF Len(a.roles) = 2 THEN a.roles[2] ELSE Unused
Is(w, op)     == w.control = "command" /\ w.value = op

\* The writes of one command: its epoch first, the command last, the roles of a PREPARE between.
Shape(c, W) ==
  /\ Len(W) \in 2 .. 4
  /\ W[1].control = "epoch"
  /\ \A l \in 1 .. Len(W) :
       /\ W[l].module = c.module
       /\ W[l].control = "epoch" => W[l].value = c.epoch
       /\ W[l].control = "role0" => c.op = "prepare" /\ W[l].value = FirstRole(c.to)
       /\ W[l].control = "role1" => c.op = "prepare" /\ W[l].value = SecondRole(c.to)
       /\ W[l].control = "command" <=> l = Len(W)
  /\ W[Len(W)].value = c.op
  /\ c.op = "prepare" => Len(W) = 4 /\ W[2].control = "role0" /\ W[3].control = "role1"

LEMMA TwoWrites ==
  ASSUME NEW S, NEW w \in S, NEW z \in S
  PROVE  (<<w>> \o <<>>) \o <<z>> = <<w, z>>
<1>1. /\ <<w>> \in Seq(S) /\ Len(<<w>>) = 1 /\ <<z>> \in Seq(S) /\ Len(<<z>>) = 1
      /\ <<w, z>> \in Seq(S) /\ Len(<<w, z>>) = 2
  OBVIOUS
<1>2. <<w>> \o <<>> = <<w>>
  BY <1>1, ConcatEmptySeq
<1>3. /\ <<w>> \o <<z>> \in Seq(S) /\ Len(<<w>> \o <<z>>) = 2
      /\ \A i \in 1 .. 2 : (<<w>> \o <<z>>)[i] = <<w, z>>[i]
  BY <1>1, ConcatProperties
<1>4. <<w>> \o <<z>> = <<w, z>>
  BY <1>1, <1>3, SeqEqual
<1> QED BY <1>2, <1>4

LEMMA ThreeWrites ==
  ASSUME NEW S, NEW w \in S, NEW x \in S, NEW z \in S
  PROVE  (<<w>> \o <<x>>) \o <<z>> = <<w, x, z>>
<1>1. /\ <<w>> \in Seq(S) /\ Len(<<w>>) = 1 /\ <<x>> \in Seq(S) /\ Len(<<x>>) = 1
      /\ <<z>> \in Seq(S) /\ Len(<<z>>) = 1 /\ <<w, x>> \in Seq(S) /\ Len(<<w, x>>) = 2
      /\ <<w, x, z>> \in Seq(S) /\ Len(<<w, x, z>>) = 3
  OBVIOUS
<1>2. /\ <<w>> \o <<x>> \in Seq(S) /\ Len(<<w>> \o <<x>>) = 2
      /\ \A i \in 1 .. 2 : (<<w>> \o <<x>>)[i] = <<w, x>>[i]
  BY <1>1, ConcatProperties
<1>3. <<w>> \o <<x>> = <<w, x>>
  BY <1>1, <1>2, SeqEqual
<1>4. /\ <<w, x>> \o <<z>> \in Seq(S) /\ Len(<<w, x>> \o <<z>>) = 3
      /\ \A i \in 1 .. 3 : (<<w, x>> \o <<z>>)[i] = <<w, x, z>>[i]
  BY <1>1, ConcatProperties
<1>5. <<w, x>> \o <<z>> = <<w, x, z>>
  BY <1>1, <1>4, SeqEqual
<1> QED BY <1>3, <1>5

LEMMA FourWrites ==
  ASSUME NEW S, NEW w \in S, NEW x \in S, NEW y \in S, NEW z \in S
  PROVE  (<<w>> \o <<x, y>>) \o <<z>> = <<w, x, y, z>>
<1>1. /\ <<w>> \in Seq(S) /\ Len(<<w>>) = 1 /\ <<z>> \in Seq(S) /\ Len(<<z>>) = 1
      /\ <<x, y>> \in Seq(S) /\ Len(<<x, y>>) = 2 /\ <<w, x, y>> \in Seq(S) /\ Len(<<w, x, y>>) = 3
      /\ <<w, x, y, z>> \in Seq(S) /\ Len(<<w, x, y, z>>) = 4
  OBVIOUS
<1>2. /\ <<w>> \o <<x, y>> \in Seq(S) /\ Len(<<w>> \o <<x, y>>) = 3
      /\ \A i \in 1 .. 3 : (<<w>> \o <<x, y>>)[i] = <<w, x, y>>[i]
  BY <1>1, ConcatProperties
<1>3. <<w>> \o <<x, y>> = <<w, x, y>>
  BY <1>1, <1>2, SeqEqual
<1>4. /\ <<w, x, y>> \o <<z>> \in Seq(S) /\ Len(<<w, x, y>> \o <<z>>) = 4
      /\ \A i \in 1 .. 4 : (<<w, x, y>> \o <<z>>)[i] = <<w, x, y, z>>[i]
  BY <1>1, ConcatProperties
<1>5. <<w, x, y>> \o <<z>> = <<w, x, y, z>>
  BY <1>1, <1>4, SeqEqual
<1> QED BY <1>3, <1>5

Controls == {"epoch", "role0", "role1", "start", "command"}
Writes(V) == [module : Modules, control : Controls, value : V]

Carries(c, V) == CommandWrites(c) \in Seq(Writes(V)) /\ Shape(c, CommandWrites(c))

LEMMA CommandShape ==
  ASSUME NEW c, c.op \in {"mute", "prepare", "arm", "commit", "stop"},
         c.module \in Modules, NEW V, Values(c) \subseteq V
  PROVE  Carries(c, V)
<1> DEFINE T == Writes(V)
           a == Write(c, "epoch", c.epoch)
           b == Write(c, "role0", FirstRole(c.to))
           d == Write(c, "role1", SecondRole(c.to))
           s == Write(c, "start", PtpTimeForFrame(c.start))
           z == Write(c, "command", c.op)
<1>1. a \in T /\ b \in T /\ d \in T /\ s \in T /\ z \in T
  BY DEF Writes, Write, Values, FirstRole, SecondRole, Controls
<1>2. /\ a.module = c.module /\ a.control = "epoch" /\ a.value = c.epoch
      /\ b.module = c.module /\ b.control = "role0" /\ b.value = FirstRole(c.to)
      /\ d.module = c.module /\ d.control = "role1" /\ d.value = SecondRole(c.to)
      /\ s.module = c.module /\ s.control = "start" /\ z.module = c.module
      /\ z.control = "command" /\ z.value = c.op
  BY DEF Write
<1>3. /\ c.op = "prepare" => CommandWrites(c) = (<<a>> \o <<b, d>>) \o <<z>>
      /\ c.op = "arm" => CommandWrites(c) = (<<a>> \o <<s>>) \o <<z>>
      /\ c.op \notin {"prepare", "arm"} => CommandWrites(c) = (<<a>> \o <<>>) \o <<z>>
  BY DEF CommandWrites, FirstRole, SecondRole
<1> HIDE DEF a, b, d, s, z, T
<1>4. /\ c.op = "prepare" => CommandWrites(c) = <<a, b, d, z>>
      /\ c.op = "arm" => CommandWrites(c) = <<a, s, z>>
      /\ c.op \notin {"prepare", "arm"} => CommandWrites(c) = <<a, z>>
  <2>1. (<<a>> \o <<b, d>>) \o <<z>> = <<a, b, d, z>>
    BY <1>1, FourWrites
  <2>2. (<<a>> \o <<s>>) \o <<z>> = <<a, s, z>>
    BY <1>1, ThreeWrites
  <2>3. (<<a>> \o <<>>) \o <<z>> = <<a, z>>
    BY <1>1, TwoWrites
  <2> QED BY <1>3, <2>1, <2>2, <2>3
<1>5. CASE c.op = "prepare"
  <2>1. CommandWrites(c) = <<a, b, d, z>> /\ Len(<<a, b, d, z>>) = 4 /\ <<a, b, d, z>> \in Seq(T)
    BY <1>1, <1>4, <1>5
  <2>2. Shape(c, <<a, b, d, z>>)
    BY <1>2, <1>5 DEF Shape
  <2> QED BY <2>1, <2>2 DEF T, Carries
<1>6. CASE c.op = "arm"
  <2>1. CommandWrites(c) = <<a, s, z>> /\ <<a, s, z>> \in Seq(T)
    BY <1>1, <1>4, <1>6
  <2>2. Shape(c, <<a, s, z>>)
    BY <1>2, <1>6 DEF Shape
  <2> QED BY <2>1, <2>2 DEF T, Carries
<1>7. CASE c.op \notin {"prepare", "arm"}
  <2>1. CommandWrites(c) = <<a, z>> /\ <<a, z>> \in Seq(T)
    BY <1>1, <1>4, <1>7
  <2>2. Shape(c, <<a, z>>)
    BY <1>2, <1>7 DEF Shape
  <2> QED BY <2>1, <2>2 DEF T, Carries
<1> QED BY <1>5, <1>6, <1>7

\* An assignment that a PREPARE can carry.
Playable(a) ==
  /\ a # None /\ a.roles \in Seq(STRING) /\ Len(a.roles) \in 1 .. 2
  /\ Len(a.roles) = 2 => a.roles[2] # Unused

\* Between positions i and j of p, control of the module of p[j] is written.
Between(p, i, j, control) ==
  \E k \in i + 1 .. j - 1 : p[k].module = p[j].module /\ p[k].control = control

\* What is still to be sent of a handover to the plan next, or of a stop, at epoch e, known being
\* what the host knows of the modules.
ProgramFits(p, e, next, known) ==
  /\ \E S : p \in Seq(S)
  /\ \A i \in 1 .. Len(p) :
       LET w == p[i]
           a == next[w.module]
       IN /\ w.module \in Modules /\ known[w.module] = Unknown
          /\ w.control = "epoch" => w.value = e
          /\ w.control = "role0" => w.value = FirstRole(a)
          /\ w.control = "role1" => w.value = SecondRole(a)
          /\ Is(w, "prepare") => Playable(a)
  /\ p # <<>> => p[Len(p)].control = "command"
  /\ \A i, j \in 1 .. Len(p) : Is(p[i], "mute") /\ Is(p[j], "prepare") =>
       Between(p, i, j, "role0") /\ Between(p, i, j, "role1")
  /\ \A i, j \in 1 .. Len(p) : Is(p[i], "commit") /\ Is(p[j], "mute") => j < i
  /\ \A i, j \in 1 .. Len(p) : Is(p[i], "stop") /\ p[j].control = "command" => p[j].value = "stop"

\* What holds of a program before anything of it is sent.
Whole(p) ==
  \A j \in 1 .. Len(p) : p[j].control = "command" => Between(p, 0, j, "epoch")

LEMMA StartFits ==
  ASSUME NEW prev, NEW next \in Plans, NEW e, NEW f, NEW B, NEW p,
         B = BuildHandover(prev, next, e, f), Envelopes(B, e, f) # None,
         p = AemProgram(Envelopes(B, e, f)), p # None
  PROVE  /\ ProgramFits(p, e, next, Touched(prev, next)) /\ Whole(p)
         /\ \A i \in 1 .. Len(p) : ~Is(p[i], "stop")
         /\ \A m \in Modules : prev[m] # next[m] =>
              \E i \in 1 .. Len(p) : p[i].module = m /\ Is(p[i], "mute")
<1> DEFINE C == Changed(prev, next)
           M == Mutes(prev, next, e, f)
           O == Others(prev, next, e, f)
           n == Len(B)
<1>0. MutesFirst(B, prev, next, e, f)
  BY HandoverCommands
<1>1. PICK A \in Seq(M), R \in Seq(O) :
        B = A \o R /\ \A m \in C : \E k \in 1 .. Len(A) : A[k].module = m
  BY <1>0 DEF MutesFirst
<1>2. /\ n \in Nat /\ Len(A) \in 0 .. n /\ DOMAIN B = 1 .. n
      /\ \A k \in 1 .. n : IF k <= Len(A) THEN B[k] = A[k] /\ B[k] \in M ELSE B[k] \in O
  <2>1. A \in Seq(M \cup O) /\ R \in Seq(M \cup O)
    BY <1>1, SeqMonotonic
  <2> HIDE DEF M, O
  <2>2. /\ B \in Seq(M \cup O) /\ Len(B) = Len(A) + Len(R)
        /\ \A k \in 1 .. Len(A) + Len(R) : B[k] = IF k <= Len(A) THEN A[k] ELSE R[k - Len(A)]
    BY <1>1, <2>1, ConcatProperties
  <2>3. /\ Len(A) \in Nat /\ Len(R) \in Nat
        /\ (\A k \in 1 .. Len(A) : A[k] \in M) /\ \A k \in 1 .. Len(R) : R[k] \in O
    BY LenProperties
  <2>4. n \in Nat /\ Len(A) \in 0 .. n /\ DOMAIN B = 1 .. n
    BY <2>2, <2>3, LenProperties
  <2>5. ASSUME NEW k \in 1 .. n PROVE IF k <= Len(A) THEN B[k] = A[k] /\ B[k] \in M ELSE B[k] \in O
    <3>1. CASE k <= Len(A)
      <4>1. k \in 1 .. Len(A) /\ k \in 1 .. Len(A) + Len(R)
        BY <2>2, <2>3, <3>1
      <4> QED BY <2>2, <2>3, <3>1, <4>1
    <3>2. CASE ~(k <= Len(A))
      <4>1. k - Len(A) \in 1 .. Len(R) /\ k \in 1 .. Len(A) + Len(R)
        BY <2>2, <2>3, <3>2
      <4> QED BY <2>2, <2>3, <3>2, <4>1
    <3> QED BY <3>1, <3>2
  <2> QED BY <2>4, <2>5
<1>3. Envelopes(B, e, f) = B
  BY DEF Envelopes
<1>4. (\A k \in 1 .. n : Encodable(B[k])) /\ p = FlattenSeq([k \in 1 .. n |-> CommandWrites(B[k])])
  <2> HIDE DEF n
  <2> QED BY <1>2, <1>3 DEF AemProgram
<1>5. \A k \in 1 .. n : B[k].op = "prepare" => BridgeAccepts(B[k].to)
  <2> HIDE DEF n
  <2> QED BY <1>2 DEF Envelopes
<1>6. ASSUME NEW k \in 1 .. n
      PROVE  LET c == B[k]
             IN /\ c.op \in {"mute", "prepare", "arm", "commit"}
                /\ c.op = "mute" <=> k <= Len(A)
                /\ c.module \in Modules /\ prev[c.module] # next[c.module]
                /\ c.epoch = e /\ c.to = next[c.module]
                /\ c.op = "prepare" => Playable(c.to)
  <2> DEFINE c == B[k]
  <2>1. /\ c.op \in {"mute", "prepare", "arm", "commit"}
        /\ c.op = "mute" <=> k <= Len(A)
        /\ c.module \in C /\ c.epoch = e /\ c.to = next[c.module]
        /\ c.op # "mute" => c.to # None
    <3>1. CASE k <= Len(A)
      <4>1. c \in M
        BY <1>2, <3>1
      <4> HIDE DEF c
      <4> QED BY <3>1, <4>1 DEF Mutes, Command
    <3>2. CASE ~(k <= Len(A))
      <4>1. c \in O
        BY <1>2, <3>2
      <4> HIDE DEF c
      <4> QED BY <3>2, <4>1 DEF Others, Command, Ops
    <3> QED BY <3>1, <3>2
  <2>2. ASSUME c.op = "prepare" PROVE Playable(c.to)
    <3>1. c.to # None /\ c.to.roles \in Seq(STRING)
      BY <2>1, <2>2, HandoverAssumption DEF HandoverAssumption, Changed
    <3>2. Len(c.to.roles) \in 1 .. 2
      BY <1>5, <2>2 DEF BridgeAccepts
    <3>3. Len(c.to.roles) = 2 => c.to.roles[2] \in Roles
      <4>1. \A i \in DOMAIN c.to.roles : c.to.roles[i] \in Roles
        BY <1>4, <2>2 DEF Encodable
      <4>2. Len(c.to.roles) = 2 => 2 \in DOMAIN c.to.roles
        BY <3>1, LenProperties
      <4> QED BY <4>1, <4>2
    <3>4. Unused \notin Roles
      BY DEF Unused, Roles
    <3> HIDE DEF c
    <3> QED BY <3>1, <3>2, <3>3, <3>4 DEF Playable
  <2> HIDE DEF c
  <2> QED BY <2>1, <2>2 DEF Changed, c
<1> DEFINE W == [k \in 1 .. n |-> CommandWrites(B[k])]
           V == UNION {Values(B[k]) : k \in 1 .. n}
           T == Writes(V)
<1>7. ASSUME NEW k \in 1 .. n PROVE W[k] \in Seq(T) /\ Shape(B[k], W[k])
  <2>1. W[k] = CommandWrites(B[k]) /\ Values(B[k]) \subseteq V
    OBVIOUS
  <2>2. B[k].op \in {"mute", "prepare", "arm", "commit", "stop"} /\ B[k].module \in Modules
    BY <1>6
  <2> HIDE DEF W, V, n
  <2>3. CommandWrites(B[k]) \in Seq(Writes(V)) /\ Shape(B[k], CommandWrites(B[k]))
    <3> DEFINE c == B[k]
    <3>1. c.op \in {"mute", "prepare", "arm", "commit", "stop"} /\ c.module \in Modules /\ Values(c) \subseteq V
      BY <2>1, <2>2
    <3> HIDE DEF c
    <3>2. Carries(c, V)
      BY <3>1, CommandShape
    <3> QED BY <3>2 DEF c, Carries
  <2> QED BY <2>1, <2>3
<1>8. W \in Seq(Seq(T)) /\ Len(W) = n
  <2>1. W \in [1 .. n -> Seq(T)] /\ n \in Nat
    BY <1>2, <1>7
  <2> HIDE DEF W, T, n
  <2> QED BY <2>1, SeqDef
<1>9. PICK at \in [1 .. n -> Nat] : Places(W, p, at) /\ p \in Seq(T)
  <2>1. p = FlattenSeq(W)
    BY <1>4
  <2> HIDE DEF W, T, n
  <2> QED BY <1>8, <2>1, FlattenPlaces
<1> DEFINE len == [k \in 1 .. n |-> Len(W[k])]
<1> HIDE DEF C, M, O, W, T, V, n
<1>21. \A k \in 1 .. n : len[k] = Len(W[k])
  OBVIOUS
<1> HIDE DEF len
<1>10. /\ \A k, j \in 1 .. n : k < j => at[k] + len[k] <= at[j]
       /\ \A k \in 1 .. n : \A l \in 1 .. len[k] : at[k] + l \in 1 .. Len(p) /\ p[at[k] + l] = W[k][l]
       /\ \A i \in 1 .. Len(p) : \E k \in 1 .. n : \E l \in 1 .. len[k] : i = at[k] + l
  <2>1. /\ \A k, j \in 1 .. n : k < j => at[k] + Len(W[k]) <= at[j]
        /\ \A k \in 1 .. n : \A l \in 1 .. Len(W[k]) : at[k] + l \in 1 .. Len(p) /\ p[at[k] + l] = W[k][l]
        /\ \A i \in 1 .. Len(p) : \E k \in 1 .. n : \E l \in 1 .. Len(W[k]) : i = at[k] + l
    BY <1>8, <1>9 DEF Places
  <2>2. \A k, j \in 1 .. n : k < j => at[k] + len[k] <= at[j]
    BY <1>21, <2>1
  <2>3. \A k \in 1 .. n : \A l \in 1 .. len[k] : at[k] + l \in 1 .. Len(p) /\ p[at[k] + l] = W[k][l]
    BY <1>21, <2>1
  <2>4. \A i \in 1 .. Len(p) : \E k \in 1 .. n : \E l \in 1 .. len[k] : i = at[k] + l
    BY <1>21, <2>1
  <2> QED BY <2>2, <2>3, <2>4
<1>11. ASSUME NEW k \in 1 .. n
       PROVE  /\ at[k] \in Nat /\ len[k] \in 2 .. 4
              /\ p[at[k] + 1].control = "epoch" /\ p[at[k] + len[k]].value = B[k].op
              /\ \A l \in 1 .. len[k] :
                   /\ at[k] + l \in 1 .. Len(p) /\ p[at[k] + l].module = B[k].module
                   /\ p[at[k] + l].control = "epoch" => p[at[k] + l].value = e
                   /\ p[at[k] + l].control = "role0" => p[at[k] + l].value = FirstRole(B[k].to)
                   /\ p[at[k] + l].control = "role1" => p[at[k] + l].value = SecondRole(B[k].to)
                   /\ p[at[k] + l].control = "command" <=> l = len[k]
              /\ B[k].op = "prepare" =>
                   len[k] = 4 /\ p[at[k] + 2].control = "role0" /\ p[at[k] + 3].control = "role1"
  <2>1. Shape(B[k], W[k]) /\ B[k].epoch = e /\ len[k] = Len(W[k])
    BY <1>6, <1>7, <1>21
  <2>2. at[k] \in Nat /\ len[k] \in 2 .. 4
    BY <2>1 DEF Shape
  <2>3. \A l \in 1 .. len[k] : at[k] + l \in 1 .. Len(p) /\ p[at[k] + l] = W[k][l]
    BY <1>10
  <2>4. p[at[k] + 1] = W[k][1] /\ p[at[k] + 2] = W[k][2] /\ p[at[k] + len[k]] = W[k][len[k]]
    <3>1. 1 \in 1 .. len[k] /\ 2 \in 1 .. len[k] /\ len[k] \in 1 .. len[k]
      BY <2>2
    <3> QED BY <2>3, <3>1
  <2>5. len[k] = 4 => p[at[k] + 3] = W[k][3]
    BY <2>3
  <2>6. \A l \in 1 .. len[k] :
          /\ W[k][l].module = B[k].module
          /\ W[k][l].control = "epoch" => W[k][l].value = e
          /\ W[k][l].control = "role0" => W[k][l].value = FirstRole(B[k].to)
          /\ W[k][l].control = "role1" => W[k][l].value = SecondRole(B[k].to)
          /\ W[k][l].control = "command" <=> l = len[k]
    BY <2>1 DEF Shape
  <2>7. W[k][1].control = "epoch" /\ W[k][len[k]].value = B[k].op
    BY <2>1 DEF Shape
  <2>8. B[k].op = "prepare" => len[k] = 4 /\ W[k][2].control = "role0" /\ W[k][3].control = "role1"
    BY <2>1 DEF Shape
  <2>9. ASSUME NEW l \in 1 .. len[k]
        PROVE  /\ at[k] + l \in 1 .. Len(p) /\ p[at[k] + l].module = B[k].module
               /\ p[at[k] + l].control = "epoch" => p[at[k] + l].value = e
               /\ p[at[k] + l].control = "role0" => p[at[k] + l].value = FirstRole(B[k].to)
               /\ p[at[k] + l].control = "role1" => p[at[k] + l].value = SecondRole(B[k].to)
               /\ p[at[k] + l].control = "command" <=> l = len[k]
    BY <2>3, <2>6
  <2>10. B[k].op = "prepare" =>
           len[k] = 4 /\ p[at[k] + 2].control = "role0" /\ p[at[k] + 3].control = "role1"
    BY <2>4, <2>5, <2>8
  <2> QED BY <2>2, <2>4, <2>7, <2>9, <2>10
<1>12. ASSUME NEW i \in 1 .. Len(p), p[i].control = "command"
       PROVE  \E k \in 1 .. n : /\ i = at[k] + len[k] /\ p[i].value = B[k].op
                                /\ p[i].module = B[k].module
  <2>1. PICK k \in 1 .. n : \E l \in 1 .. len[k] : i = at[k] + l
    BY <1>10
  <2>2. PICK l \in 1 .. len[k] : i = at[k] + l
    BY <2>1
  <2>3. l = len[k]
    BY <1>11, <1>12, <2>2
  <2> QED BY <1>11, <2>2, <2>3, SMTT(20)
<1>13. ASSUME NEW i \in 1 .. Len(p)
       PROVE  LET w == p[i]
                  a == next[w.module]
              IN /\ w.module \in Modules /\ Touched(prev, next)[w.module] = Unknown
                 /\ w.control = "epoch" => w.value = e
                 /\ w.control = "role0" => w.value = FirstRole(a)
                 /\ w.control = "role1" => w.value = SecondRole(a)
                 /\ Is(w, "prepare") => Playable(a)
  <2>1. PICK k \in 1 .. n : \E l \in 1 .. len[k] : i = at[k] + l
    BY <1>10
  <2>2. PICK l \in 1 .. len[k] : i = at[k] + l
    BY <2>1
  <2>3. p[i].module = B[k].module /\ B[k].to = next[p[i].module]
    BY <1>6, <1>11, <2>2
  <2>4. p[i].module \in Modules /\ prev[p[i].module] # next[p[i].module]
    BY <1>6, <2>3
  <2>5. Is(p[i], "prepare") => B[k].op = "prepare"
    BY <1>11, <2>2 DEF Is
  <2>6. Is(p[i], "prepare") => Playable(next[p[i].module])
    BY <1>6, <2>3, <2>5
  <2>7. /\ p[i].control = "epoch" => p[i].value = e
        /\ p[i].control = "role0" => p[i].value = FirstRole(next[p[i].module])
        /\ p[i].control = "role1" => p[i].value = SecondRole(next[p[i].module])
    BY <1>11, <2>2, <2>3
  <2> QED BY <2>4, <2>6, <2>7 DEF Touched
<1>14. p # <<>> => p[Len(p)].control = "command"
  <2> SUFFICES ASSUME p # <<>> PROVE p[Len(p)].control = "command"
    OBVIOUS
  <2>1. Len(p) \in Nat /\ Len(p) \in 1 .. Len(p)
    BY <1>9, EmptySeq, LenProperties
  <2>2. PICK k \in 1 .. n : \E l \in 1 .. len[k] : Len(p) = at[k] + l
    BY <1>10, <2>1
  <2>3. PICK l \in 1 .. len[k] : Len(p) = at[k] + l
    BY <2>2
  <2>4. at[k] \in Nat /\ len[k] \in 2 .. 4 /\ at[k] + len[k] \in 1 .. Len(p)
    BY <1>11, SMTT(20)
  <2>5. l = len[k]
    BY <2>1, <2>3, <2>4
  <2> QED BY <1>11, <2>3, <2>5
<1>15. ASSUME NEW i \in 1 .. Len(p), NEW j \in 1 .. Len(p), Is(p[i], "mute"), Is(p[j], "prepare")
       PROVE  Between(p, i, j, "role0") /\ Between(p, i, j, "role1")
  <2>1. PICK k \in 1 .. n : i = at[k] + len[k] /\ B[k].op = "mute"
    BY <1>12, <1>15 DEF Is
  <2>2. PICK x \in 1 .. n : j = at[x] + len[x] /\ B[x].op = "prepare" /\ p[j].module = B[x].module
    BY <1>12, <1>15 DEF Is
  <2>3. k < x
    <3>1. k <= Len(A) /\ ~(x <= Len(A))
      BY <1>6, <2>1, <2>2
    <3>2. n \in Nat /\ Len(A) \in Int
      BY <1>2
    <3> HIDE DEF n
    <3> QED BY <3>1, <3>2
  <2>4. i <= at[x] /\ at[x] \in Nat /\ len[x] = 4
    BY <1>10, <1>11, <2>1, <2>2, <2>3
  <2>5. /\ p[at[x] + 2].control = "role0" /\ p[at[x] + 2].module = p[j].module
        /\ p[at[x] + 3].control = "role1" /\ p[at[x] + 3].module = p[j].module
    <3>1. 2 \in 1 .. len[x] /\ 3 \in 1 .. len[x]
      BY <2>4
    <3>2. p[at[x] + 2].module = B[x].module /\ p[at[x] + 3].module = B[x].module
      BY <1>11, <3>1
    <3>3. p[at[x] + 2].control = "role0" /\ p[at[x] + 3].control = "role1"
      BY <1>11, <2>2
    <3> QED BY <2>2, <3>2, <3>3
  <2>6. at[x] + 2 \in i + 1 .. j - 1 /\ at[x] + 3 \in i + 1 .. j - 1
    BY <2>2, <2>4, SMTT(20)
  <2> QED BY <2>5, <2>6 DEF Between
<1>16. ASSUME NEW i \in 1 .. Len(p), NEW j \in 1 .. Len(p), Is(p[i], "commit"), Is(p[j], "mute")
       PROVE  j < i
  <2>1. PICK k \in 1 .. n : i = at[k] + len[k] /\ B[k].op = "commit"
    BY <1>12, <1>16 DEF Is
  <2>2. PICK x \in 1 .. n : j = at[x] + len[x] /\ B[x].op = "mute"
    BY <1>12, <1>16 DEF Is
  <2>3. x < k
    <3>1. x <= Len(A) /\ ~(k <= Len(A))
      BY <1>6, <2>1, <2>2
    <3>2. n \in Nat /\ Len(A) \in Int
      BY <1>2
    <3> HIDE DEF n
    <3> QED BY <3>1, <3>2
  <2>4. j <= at[k] /\ at[k] \in Nat /\ len[k] \in 2 .. 4
    BY <1>10, <1>11, <2>2, <2>3
  <2> QED BY <2>1, <2>4
<1>17. ASSUME NEW i \in 1 .. Len(p) PROVE ~Is(p[i], "stop")
  BY <1>6, <1>12 DEF Is
<1>18. Whole(p)
  <2> SUFFICES ASSUME NEW j \in 1 .. Len(p), p[j].control = "command" PROVE Between(p, 0, j, "epoch")
    BY DEF Whole
  <2>1. PICK k \in 1 .. n : j = at[k] + len[k] /\ p[j].module = B[k].module
    BY <1>12
  <2>2. at[k] \in Nat /\ len[k] \in 2 .. 4 /\ 1 \in 1 .. len[k]
    BY <1>11
  <2>3. p[at[k] + 1].control = "epoch" /\ p[at[k] + 1].module = p[j].module
    BY <1>11, <2>1, <2>2
  <2>4. at[k] + 1 \in 0 + 1 .. j - 1
    BY <2>1, <2>2, SMTT(20)
  <2> QED BY <2>3, <2>4 DEF Between
<1>19. ASSUME NEW m \in Modules, prev[m] # next[m]
       PROVE  \E i \in 1 .. Len(p) : p[i].module = m /\ Is(p[i], "mute")
  <2>1. PICK k \in 1 .. Len(A) : A[k].module = m
    BY <1>1, <1>19 DEF C, Changed
  <2>2. k \in 1 .. n /\ B[k] = A[k] /\ B[k].op = "mute"
    BY <1>2, <1>6
  <2>3. len[k] \in 1 .. len[k]
    <3>1. len[k] \in 2 .. 4
      BY <1>11, <2>2
    <3> QED BY <3>1
  <2>4. /\ at[k] + len[k] \in 1 .. Len(p) /\ p[at[k] + len[k]].module = m
        /\ Is(p[at[k] + len[k]], "mute")
    BY <1>11, <2>1, <2>2, <2>3, SMTT(20) DEF Is
  <2> QED BY <2>4
<1>20. ProgramFits(p, e, next, Touched(prev, next))
  <2>1. \A i, j \in 1 .. Len(p) : Is(p[i], "stop") /\ p[j].control = "command" => p[j].value = "stop"
    BY <1>17
  <2>2. \A i, j \in 1 .. Len(p) : Is(p[i], "mute") /\ Is(p[j], "prepare") =>
          Between(p, i, j, "role0") /\ Between(p, i, j, "role1")
    BY <1>15
  <2>3. \A i, j \in 1 .. Len(p) : Is(p[i], "commit") /\ Is(p[j], "mute") => j < i
    BY <1>16
  <2>4. \E S : p \in Seq(S)
    BY <1>9
  <2> QED BY <1>13, <1>14, <2>1, <2>2, <2>3, <2>4 DEF ProgramFits
<1> QED BY <1>17, <1>18, <1>19, <1>20

-----------------------------------------------------------------------------
(* A handover among the endpoints.                                         *)

\* The phases in which an endpoint has taken the roles of a handover.
Cast == {"prepared", "armed", "committed"}

\* What a write does to the part of a block that tells handovers apart.
Effect(f, w, g) ==
  /\ g.sEpoch = IF w.control = "epoch" THEN w.value ELSE f.sEpoch
  /\ g.sRole0 = IF w.control = "role0" THEN w.value ELSE f.sRole0
  /\ g.sRole1 = IF w.control = "role1" THEN w.value ELSE f.sRole1
  /\ g.epoch = f.epoch \/ (Is(w, "mute") /\ g.epoch = f.sEpoch)
  /\ Is(w, "mute") => g.phase = "fault" \/ (g.phase = "muted" /\ g.epoch = f.sEpoch /\ f.sEpoch # 0)
  /\ ~Is(w, "mute") /\ ~Is(w, "stop") /\ f.phase \in {"boot", "fault"} => g.phase \in {"boot", "fault"}
  /\ g.phase \in Cast =>
       /\ g.epoch = f.epoch
       /\ \/ f.phase \in Cast /\ g.role0 = f.role0 /\ g.role1 = f.role1
          \/ Is(w, "prepare") /\ g.role0 = f.sRole0 /\ g.role1 = f.sRole1
  /\ g.phase = "committed" =>
       /\ g.role0 = f.role0 /\ g.role1 = f.role1
       /\ f.phase = "committed"
          \/ (Is(w, "commit") /\ f.phase = "armed" /\ f.sEpoch = f.epoch /\ f.sEpoch # 0)

LEMMA FaultedFields ==
  ASSUME NEW f, f = [x \in Fields |-> f[x]]
  PROVE  /\ Faulted(f) = [x \in Fields |-> Faulted(f)[x]]
         /\ Faulted(f).phase = "fault"
         /\ \A x \in {"sEpoch", "sRole0", "sRole1", "epoch", "role0", "role1"} : Faulted(f)[x] = f[x]
BY DEF Faulted, Cancelled, Fields

LEMMA StagedEffect ==
  ASSUME NEW f, NEW w, NEW start, Closed(f), w.control # "command"
  PROVE  Effect(f, w, SetControl(f, w, start))
<1>1. CASE w.control = "epoch"
  BY <1>1 DEF SetControl, Effect, Is, Cast, Closed, Fields
<1>2. CASE w.control = "role0"
  BY <1>2 DEF SetControl, Effect, Is, Cast, Closed, Fields
<1>3. CASE w.control = "role1"
  BY <1>3 DEF SetControl, Effect, Is, Cast, Closed, Fields
<1>4. CASE w.control = "start"
  BY <1>4 DEF SetControl, Effect, Is, Cast, Closed, Fields
<1>5. CASE w.control \notin {"command", "epoch", "role0", "role1", "start"}
  BY <1>5 DEF SetControl, Effect, Is, Cast
<1> QED BY <1>1, <1>2, <1>3, <1>4, <1>5

\* A command leaves what is staged, and moves a block as Effect says.
LEMMA CommandEffect ==
  ASSUME NEW f, NEW w, NEW start, Closed(f), w.control = "command"
  PROVE  Effect(f, w, SetControl(f, w, start))
<1> DEFINE op == w.value
           g == Apply(f, op, start)
           Same(h) == \A x \in {"sEpoch", "sRole0", "sRole1"} : h[x] = f[x]
           Kept(h) == h.epoch = f.epoch /\ h.role0 = f.role0 /\ h.role1 = f.role1
<1>0. SetControl(f, w, start) = g /\ f = [x \in Fields |-> f[x]]
  BY DEF SetControl, Closed
<1>1. Same(Faulted(f)) /\ Kept(Faulted(f)) /\ Faulted(f).phase = "fault"
  BY <1>0, FaultedFields
<1>2. CASE g = Faulted(f)
  <2> HIDE DEF g
  <2> QED BY <1>0, <1>1, <1>2 DEF Effect, Is, Cast
<1>3. CASE op = "mute"
  <2> DEFINE h == [Cancelled(f) EXCEPT !.epoch = f.sEpoch, !.role0 = Unused, !.role1 = Unused,
                                       !.start = 0, !.phase = "muted", !.muted = TRUE]
  <2>1. Same(h) /\ h.phase = "muted" /\ h.epoch = f.sEpoch
    BY <1>0 DEF Cancelled, Fields
  <2>2. g = Faulted(f) \/ (f.sEpoch # 0 /\ g = h)
    BY <1>3 DEF Apply, MuteCommand
  <2> HIDE DEF g, h
  <2>3. CASE f.sEpoch # 0 /\ g = h
    BY <1>0, <1>3, <2>1, <2>3 DEF Effect, Is, Cast
  <2> QED BY <1>2, <2>2, <2>3
<1>4. CASE op # "mute" /\ ~Current(f)
  BY <1>2, <1>4 DEF Apply
<1>5. CASE op = "prepare" /\ Current(f)
  <2> DEFINE h == [f EXCEPT !.role0 = f.sRole0, !.role1 = f.sRole1, !.phase = "prepared", !.muted = TRUE]
  <2>1. Same(h) /\ h.phase = "prepared" /\ h.epoch = f.epoch /\ h.role0 = f.sRole0 /\ h.role1 = f.sRole1
    BY <1>0 DEF Fields
  <2>2. g = Faulted(f) \/ g = f \/ (f.phase = "muted" /\ g = h)
    BY <1>5 DEF Apply, PrepareCommand
  <2> HIDE DEF g, h
  <2>3. CASE f.phase = "muted" /\ g = h
    BY <1>0, <1>5, <2>1, <2>3 DEF Effect, Is, Cast
  <2>4. CASE g = f
    BY <1>0, <1>5, <2>4 DEF Effect, Is, Cast
  <2> QED BY <1>2, <2>2, <2>3, <2>4
<1>6. CASE op = "arm" /\ Current(f)
  <2> DEFINE h == [f EXCEPT !.start = f.sStart, !.phase = "armed", !.muted = TRUE]
  <2>1. Same(h) /\ Kept(h) /\ h.phase = "armed"
    BY <1>0 DEF Fields
  <2>2. g = Faulted(f) \/ g = f \/ (f.phase = "prepared" /\ g = h)
    BY <1>6 DEF Apply, ArmCommand
  <2> HIDE DEF g, h
  <2>3. CASE f.phase = "prepared" /\ g = h
    BY <1>0, <1>6, <2>1, <2>3 DEF Effect, Is, Cast
  <2>4. CASE g = f
    BY <1>0, <1>6, <2>4 DEF Effect, Is, Cast
  <2> QED BY <1>2, <2>2, <2>3, <2>4
<1>7. CASE op = "commit" /\ Current(f)
  <2> DEFINE c == [f EXCEPT !.phase = "committed", !.muted = TRUE]
             d == [c EXCEPT !.timer = FALSE, !.pending = c.epoch, !.open = FALSE]
             t == [d EXCEPT !.timer = TRUE]
  <2>1. /\ c = [x \in Fields |-> c[x]] /\ Same(c) /\ Kept(c) /\ c.phase = "committed"
        /\ d = [x \in Fields |-> d[x]] /\ Same(d) /\ Kept(d) /\ d.phase = "committed"
        /\ Same(t) /\ Kept(t) /\ t.phase = "committed"
        /\ Same(Opened(d)) /\ Kept(Opened(d)) /\ Opened(d).phase = "committed"
    BY <1>0 DEF Fields, Opened
  <2>2. /\ Same(Faulted(c)) /\ Kept(Faulted(c)) /\ Faulted(c).phase = "fault"
        /\ Same(Faulted(d)) /\ Kept(Faulted(d)) /\ Faulted(d).phase = "fault"
    <3> HIDE DEF c, d
    <3> QED BY <2>1, FaultedFields
  <2>3. g = Faulted(f) \/ g = f \/ (f.phase = "armed" /\ g = Scheduled(c, start))
    BY <1>7 DEF Apply, CommitCommand
  <2>4. Scheduled(c, start) \in {Faulted(c), Faulted(d), t, Opened(d)}
    <3> HIDE DEF c
    <3> QED BY DEF Scheduled
  <2> HIDE DEF g, c, d, t
  <2>5. CASE f.phase = "armed" /\ g = Scheduled(c, start)
    <3>1. Same(g) /\ Kept(g) /\ g.phase \in {"fault", "committed"}
      BY <2>1, <2>2, <2>4, <2>5
    <3> QED BY <1>0, <1>7, <2>5, <3>1 DEF Current, Effect, Is, Cast
  <2>6. CASE g = f
    BY <1>0, <1>7, <2>6 DEF Effect, Is, Cast
  <2> QED BY <1>2, <2>3, <2>5, <2>6
<1>8. CASE op = "stop" /\ Current(f)
  <2> DEFINE h == [Cancelled(f) EXCEPT !.phase = "muted", !.muted = TRUE, !.start = 0]
  <2>1. Same(h) /\ Kept(h) /\ h.phase = "muted"
    BY <1>0 DEF Cancelled, Fields
  <2>2. g = Faulted(f) \/ g = h
    BY <1>8 DEF Apply, StopCommand
  <2> HIDE DEF g, h
  <2>3. CASE g = h
    BY <1>0, <1>8, <2>1, <2>3 DEF Effect, Is, Cast
  <2> QED BY <1>2, <2>2, <2>3
<1>9. CASE op \notin {"mute", "prepare", "arm", "commit", "stop"}
  BY <1>2, <1>9 DEF Apply
<1> QED BY <1>3, <1>4, <1>5, <1>6, <1>7, <1>8, <1>9

LEMMA WriteEffect ==
  ASSUME NEW f, NEW w, NEW start, Closed(f)
  PROVE  Effect(f, w, SetControl(f, w, start))
BY StagedEffect, CommandEffect

BlockRoles(f) == IF f.role1 = Unused THEN << f.role0 >> ELSE << f.role0, f.role1 >>

\* A block takes part in the handover of epoch e only with the roles of the plan, and will not do
\* otherwise by what is left of the program.
Follows(f, m, p, e, a) ==
  /\ f.epoch \in 0 .. e /\ f.sEpoch \in 0 .. e
  /\ \A j \in 1 .. Len(p) : p[j].module = m =>
       /\ p[j].control = "command" => Between(p, 0, j, "epoch") \/ f.sEpoch \in {0, e}
       /\ Is(p[j], "prepare") /\ f.epoch = e =>
            /\ Between(p, 0, j, "role0") \/ f.sRole0 = FirstRole(a)
            /\ Between(p, 0, j, "role1") \/ f.sRole1 = SecondRole(a)
  /\ f.epoch = e /\ f.phase \in Cast => a # None /\ BlockRoles(f) = a.roles

\* A committed block has the roles of the plan.
Plays(f, a) == f.phase = "committed" => a # None /\ BlockRoles(f) = a.roles

\* A block has heard the MUTE of epoch e, or cannot be heard.
Silenced(f, e) == f.epoch = e \/ f.phase \in {"boot", "fault"}

Stopping(p)    == \E i \in 1 .. Len(p) : Is(p[i], "stop")
MuteLeft(p, m) == \E i \in 1 .. Len(p) : p[i].module = m /\ Is(p[i], "mute")

\* The blocks b under the handover e to the plan next, of which p is still to be sent.
Coherent(b, p, e, next, known) ==
  /\ e \in Nat /\ (p # <<>> => e # 0)
  /\ next = [m \in Modules |-> next[m]] /\ known = [m \in Modules |-> known[m]]
  /\ \A m \in Modules : known[m] \in {Unknown, next[m]} /\ next[m] # Unknown
  /\ ProgramFits(p, e, next, known)
  /\ \A m \in Modules : Follows(b[m], m, p, e, next[m])
  /\ \A m \in Modules : known[m] # Unknown => Plays(b[m], next[m])
  /\ p # <<>> /\ ~Stopping(p) =>
       \A m \in Modules : known[m] = Unknown => Silenced(b[m], e) \/ MuteLeft(p, m)
  /\ (\E m \in Modules : b[m].epoch = e /\ b[m].phase = "committed") =>
       \A m \in Modules : Plays(b[m], next[m])

\* What a write has staged in the block that took it.
Taken(f, w, e, a) ==
  /\ w.control = "epoch" => f.sEpoch = e
  /\ w.control = "role0" => f.sRole0 = FirstRole(a)
  /\ w.control = "role1" => f.sRole1 = SecondRole(a)
  /\ Is(w, "mute") => Silenced(f, e)

LEMMA PlayableRoles ==
  ASSUME NEW a, Playable(a)
  PROVE  (IF SecondRole(a) = Unused THEN << FirstRole(a) >> ELSE << FirstRole(a), SecondRole(a) >>) = a.roles
<1>1. a.roles \in Seq(STRING) /\ Len(a.roles) \in {1, 2}
  BY DEF Playable
<1>2. CASE Len(a.roles) = 1
  <2>1. SecondRole(a) = Unused /\ FirstRole(a) = a.roles[1]
    BY <1>2 DEF SecondRole, FirstRole
  <2>2. a.roles = << a.roles[1] >>
    BY <1>1, <1>2
  <2> QED BY <2>1, <2>2
<1>3. CASE Len(a.roles) = 2
  <2>1. SecondRole(a) = a.roles[2] /\ SecondRole(a) # Unused /\ FirstRole(a) = a.roles[1]
    BY <1>3 DEF SecondRole, FirstRole, Playable
  <2>2. a.roles = << a.roles[1], a.roles[2] >>
    BY <1>1, <1>3
  <2> QED BY <2>1, <2>2
<1> QED BY <1>1, <1>2, <1>3

\* The first write of a program that is left.
LEMMA FirstWrite ==
  ASSUME NEW p, NEW e, NEW next, NEW known, ProgramFits(p, e, next, known), p # <<>>
  PROVE  /\ Len(p) \in Nat /\ 1 \in 1 .. Len(p) /\ Head(p) = p[1]
         /\ p[1].module \in Modules /\ known[p[1].module] = Unknown
         /\ p[1].control = "epoch" => p[1].value = e
         /\ p[1].control = "role0" => p[1].value = FirstRole(next[p[1].module])
         /\ p[1].control = "role1" => p[1].value = SecondRole(next[p[1].module])
         /\ Is(p[1], "prepare") => Playable(next[p[1].module])
<1>1. PICK S : p \in Seq(S)
  BY DEF ProgramFits
<1>2. Len(p) \in Nat /\ 1 \in 1 .. Len(p) /\ Head(p) = p[1]
  BY <1>1, EmptySeq, LenProperties
<1> QED BY <1>2 DEF ProgramFits

\* Whoever takes the first write goes on following the program.
LEMMA WriteFollows ==
  ASSUME NEW p, NEW e \in Nat, NEW next, NEW known, ProgramFits(p, e, next, known), p # <<>>,
         NEW w, w = p[1], NEW m, m = w.module, NEW f, NEW g,
         Follows(f, m, p, e, next[m]), Effect(f, w, g)
  PROVE  Follows(g, m, p, e, next[m]) /\ Taken(g, w, e, next[m])
<1> DEFINE a == next[m]
<1>1. /\ 1 \in 1 .. Len(p) /\ w.control = "epoch" => w.value = e
      /\ w.control = "role0" => w.value = FirstRole(a)
      /\ w.control = "role1" => w.value = SecondRole(a)
      /\ Is(w, "prepare") => Playable(a)
  BY FirstWrite
<1>2. \A c : ~Between(p, 0, 1, c)
  BY DEF Between
<1>3. f.epoch \in 0 .. e /\ f.sEpoch \in 0 .. e
  BY DEF Follows
<1>4. w.control = "command" => f.sEpoch \in {0, e}
  BY <1>1, <1>2 DEF Follows
<1>5. g.epoch \in 0 .. e /\ g.sEpoch \in 0 .. e
  BY <1>1, <1>3 DEF Effect
<1>6. ASSUME NEW j \in 1 .. Len(p), p[j].module = m
      PROVE  /\ p[j].control = "command" => Between(p, 0, j, "epoch") \/ g.sEpoch \in {0, e}
             /\ Is(p[j], "prepare") /\ g.epoch = e =>
                  /\ Between(p, 0, j, "role0") \/ g.sRole0 = FirstRole(a)
                  /\ Between(p, 0, j, "role1") \/ g.sRole1 = SecondRole(a)
  <2>1. p[j].control = "command" => Between(p, 0, j, "epoch") \/ f.sEpoch \in {0, e}
    BY <1>6 DEF Follows
  <2>2. p[j].control = "command" => Between(p, 0, j, "epoch") \/ g.sEpoch \in {0, e}
    BY <1>1, <2>1 DEF Effect
  <2>3. ASSUME Is(p[j], "prepare"), g.epoch = e, Is(w, "mute")
        PROVE  Between(p, 0, j, "role0") /\ Between(p, 0, j, "role1")
    <3>1. Between(p, 1, j, "role0") /\ Between(p, 1, j, "role1")
      BY <1>1, <2>3 DEF ProgramFits
    <3>2. \A k \in 1 + 1 .. j - 1 : k \in 0 + 1 .. j - 1
      OBVIOUS
    <3> QED BY <3>1, <3>2 DEF Between
  <2>4. ASSUME Is(p[j], "prepare"), g.epoch = e, ~Is(w, "mute")
        PROVE  /\ Between(p, 0, j, "role0") \/ g.sRole0 = FirstRole(a)
               /\ Between(p, 0, j, "role1") \/ g.sRole1 = SecondRole(a)
    <3>1. f.epoch = e
      BY <2>4 DEF Effect
    <3>2. /\ Between(p, 0, j, "role0") \/ f.sRole0 = FirstRole(a)
          /\ Between(p, 0, j, "role1") \/ f.sRole1 = SecondRole(a)
      BY <1>6, <2>4, <3>1 DEF Follows
    <3> QED BY <1>1, <3>2 DEF Effect
  <2> QED BY <2>2, <2>3, <2>4
<1>7. ASSUME g.epoch = e, g.phase \in Cast PROVE a # None /\ BlockRoles(g) = a.roles
  <2>1. f.epoch = e
    BY <1>7 DEF Effect
  <2>2. CASE f.phase \in Cast /\ g.role0 = f.role0 /\ g.role1 = f.role1
    BY <2>1, <2>2 DEF Follows, BlockRoles
  <2>3. CASE Is(w, "prepare") /\ g.role0 = f.sRole0 /\ g.role1 = f.sRole1
    <3>1. f.sRole0 = FirstRole(a) /\ f.sRole1 = SecondRole(a)
      BY <1>1, <1>2, <2>1, <2>3 DEF Follows
    <3> HIDE DEF a
    <3>2. a # None /\ BlockRoles(g) = a.roles
      BY <1>1, <2>3, <3>1, PlayableRoles DEF BlockRoles, Playable
    <3> QED BY <3>2
  <2> QED BY <1>7, <2>2, <2>3 DEF Effect
<1>8. Follows(g, m, p, e, a)
  <2> HIDE DEF a
  <2> QED BY <1>5, <1>6, <1>7 DEF Follows
<1>9. Taken(g, w, e, a)
  <2>1. /\ w.control = "epoch" => g.sEpoch = e
        /\ w.control = "role0" => g.sRole0 = FirstRole(a)
        /\ w.control = "role1" => g.sRole1 = SecondRole(a)
    BY <1>1 DEF Effect
  <2>2. Is(w, "mute") => Silenced(g, e)
    BY <1>4 DEF Effect, Is, Silenced
  <2> QED BY <2>1, <2>2 DEF Taken
<1> QED BY <1>8, <1>9

\* After a write: the blocks but one are as they were, and that one as Effect says.
LEMMA WriteCoherent ==
  ASSUME NEW b, NEW p, NEW e, NEW next, NEW known, Coherent(b, p, e, next, known), p # <<>>,
         NEW w, w = p[1], NEW x, x = w.module, NEW g, Effect(b[x], w, g),
         NEW c, \A m \in Modules : c[m] = IF m = x THEN g ELSE b[m]
  PROVE  Coherent(c, p, e, next, known) /\ Taken(c[x], w, e, next[x])
<1> DEFINE f == b[x]
<1>1. /\ e \in Nat /\ (p # <<>> => e # 0) /\ ProgramFits(p, e, next, known)
      /\ next = [m \in Modules |-> next[m]] /\ known = [m \in Modules |-> known[m]]
      /\ \A m \in Modules : known[m] \in {Unknown, next[m]} /\ next[m] # Unknown
      /\ \A m \in Modules : Follows(b[m], m, p, e, next[m])
      /\ \A m \in Modules : known[m] # Unknown => Plays(b[m], next[m])
  BY DEF Coherent
<1>2. 1 \in 1 .. Len(p) /\ x \in Modules /\ known[x] = Unknown
  BY <1>1, FirstWrite
<1>4. Effect(f, w, g) /\ Follows(f, x, p, e, next[x])
  BY <1>1, <1>2
<1>3. Follows(g, x, p, e, next[x]) /\ Taken(g, w, e, next[x])
  <2> HIDE DEF f
  <2>1. e \in Nat /\ ProgramFits(p, e, next, known) /\ p # <<>> /\ w = p[1] /\ x = w.module
    BY <1>1
  <2> QED BY <1>4, <2>1, WriteFollows
<1>5. w.control = "command" => f.sEpoch \in {0, e}
  <2>1. ~Between(p, 0, 1, "epoch")
    BY DEF Between
  <2> QED BY <1>2, <1>4, <2>1 DEF Follows
<1>6. c[x] = g /\ \A m \in Modules : m # x => c[m] = b[m]
  BY <1>2
<1> HIDE DEF f
<1>7. \A m \in Modules : Follows(c[m], m, p, e, next[m])
  BY <1>1, <1>3, <1>6
<1>8. \A m \in Modules : known[m] # Unknown => Plays(c[m], next[m])
  BY <1>1, <1>2, <1>6
<1>9. ASSUME ~Stopping(p), NEW m \in Modules, known[m] = Unknown
      PROVE  Silenced(c[m], e) \/ MuteLeft(p, m)
  <2>1. Silenced(b[m], e) \/ MuteLeft(p, m)
    BY <1>9 DEF Coherent
  <2>2. CASE m # x
    BY <1>6, <2>1, <2>2
  <2>3. CASE m = x /\ Is(w, "mute")
    BY <1>2, <2>3 DEF MuteLeft
  <2>4. CASE m = x /\ ~Is(w, "mute") /\ Silenced(f, e)
    <3>1. ~Is(w, "stop")
      BY <1>2, <1>9 DEF Stopping
    <3>2. g.epoch = f.epoch
      BY <1>4, <2>4 DEF Effect
    <3>3. f.phase \in {"boot", "fault"} => g.phase \in {"boot", "fault"}
      BY <1>4, <2>4, <3>1 DEF Effect
    <3> QED BY <1>6, <2>4, <3>2, <3>3 DEF Silenced
  <2> QED BY <2>1, <2>2, <2>3, <2>4 DEF f
<1>10. ASSUME g.phase = "committed", f.phase # "committed"
       PROVE  Is(w, "commit") /\ f.phase = "armed" /\ f.epoch = e /\ Plays(g, next[x])
  <2>1. /\ Is(w, "commit") /\ f.phase = "armed" /\ f.sEpoch = f.epoch /\ f.sEpoch # 0
        /\ g.role0 = f.role0 /\ g.role1 = f.role1
    BY <1>4, <1>10 DEF Effect
  <2>2. f.epoch = e
    BY <1>5, <2>1 DEF Is
  <2>3. next[x] # None /\ BlockRoles(f) = next[x].roles
    BY <1>4, <2>1, <2>2 DEF Follows, Cast
  <2> QED BY <2>1, <2>2, <2>3 DEF Plays, BlockRoles
<1>11. Plays(f, next[x]) => Plays(g, next[x])
  <2>1. CASE f.phase = "committed" /\ g.phase = "committed"
    BY <1>4, <2>1 DEF Effect, Plays, BlockRoles
  <2>2. CASE g.phase # "committed"
    BY <2>2 DEF Plays
  <2> QED BY <1>10, <2>1, <2>2
<1>12. ASSUME NEW m \in Modules, c[m].epoch = e, c[m].phase = "committed", NEW y \in Modules
       PROVE  Plays(c[y], next[y])
  <2>1. CASE m = x /\ f.phase # "committed"
    <3>1. Is(w, "commit") /\ Plays(g, next[x])
      BY <1>6, <1>10, <1>12, <2>1
    <3>2. CASE y # x /\ known[y] = Unknown
      <4>1. ~Stopping(p)
        <5>1. \A i \in 1 .. Len(p) : Is(p[i], "stop") => w.value = "stop"
          BY <1>1, <1>2, <3>1 DEF ProgramFits, Is
        <5> QED BY <3>1, <5>1 DEF Stopping, Is
      <4>2. ~MuteLeft(p, y)
        <5>1. \A j \in 1 .. Len(p) : Is(p[j], "mute") => j < 1
          BY <1>1, <1>2, <3>1 DEF ProgramFits
        <5> QED BY <5>1 DEF MuteLeft
      <4>3. Silenced(b[y], e)
        BY <3>2, <4>1, <4>2 DEF Coherent
      <4>4. Plays(b[y], next[y])
        <5>1. b[y].epoch = e /\ b[y].phase = "committed" => next[y] # None /\ BlockRoles(b[y]) = next[y].roles
          BY <1>1 DEF Follows, Cast
        <5> QED BY <4>3, <5>1 DEF Silenced, Plays
      <4> QED BY <1>6, <3>2, <4>4
    <3>3. CASE y # x /\ known[y] # Unknown
      BY <1>8, <3>3
    <3> QED BY <1>6, <3>1, <3>2, <3>3
  <2>2. CASE m # x \/ f.phase = "committed"
    <3>1. b[m].epoch = e /\ b[m].phase = "committed"
      <4>1. CASE m # x
        BY <1>6, <1>12, <4>1
      <4>2. CASE m = x /\ f.phase = "committed"
        BY <1>4, <1>6, <1>12, <4>2 DEF Effect, Cast, f
      <4> QED BY <2>2, <4>1, <4>2
    <3>2. Plays(b[y], next[y])
      BY <3>1 DEF Coherent
    <3> QED BY <1>6, <1>11, <3>2 DEF f
  <2> QED BY <2>1, <2>2
<1>13. Coherent(c, p, e, next, known)
  <2>1. (\E m \in Modules : c[m].epoch = e /\ c[m].phase = "committed") =>
          \A m \in Modules : Plays(c[m], next[m])
    BY <1>12
  <2> QED BY <1>1, <1>7, <1>8, <1>9, <2>1 DEF Coherent
<1> QED BY <1>3, <1>6, <1>13

LEMMA NothingFits ==
  ASSUME NEW e, NEW next, NEW known
  PROVE  ProgramFits(<<>>, e, next, known)
<1>1. <<>> \in Seq({}) /\ Len(<<>>) = 0
  OBVIOUS
<1> QED BY <1>1 DEF ProgramFits

\* Abandoning what is left changes nothing that holds of the blocks.
LEMMA GiveUpCoherent ==
  ASSUME NEW b, NEW p, NEW e, NEW next, NEW known, Coherent(b, p, e, next, known)
  PROVE  Coherent(b, <<>>, e, next, known)
<1>1. ProgramFits(<<>>, e, next, known) /\ Len(<<>>) = 0
  BY NothingFits
<1>2. \A m \in Modules : Follows(b[m], m, <<>>, e, next[m])
  BY <1>1 DEF Coherent, Follows
<1> QED BY <1>1, <1>2 DEF Coherent

\* The rest of a program whose first write was taken.
LEMMA TailCoherent ==
  ASSUME NEW b, NEW p, NEW e, NEW next, NEW known, Coherent(b, p, e, next, known), p # <<>>,
         NEW w, w = p[1], NEW x, x = w.module, Taken(b[x], w, e, next[x])
  PROVE  /\ Coherent(b, Tail(p), e, next, known)
         /\ Tail(p) = <<>> /\ w.value # "stop" => Coherent(b, <<>>, e, next, next)
<1> DEFINE q == Tail(p)
           n == Len(q)
<1>1. /\ e \in Nat /\ e # 0 /\ ProgramFits(p, e, next, known)
      /\ next = [m \in Modules |-> next[m]] /\ known = [m \in Modules |-> known[m]]
      /\ \A m \in Modules : known[m] \in {Unknown, next[m]} /\ next[m] # Unknown
      /\ \A m \in Modules : Follows(b[m], m, p, e, next[m])
      /\ \A m \in Modules : known[m] # Unknown => Plays(b[m], next[m])
      /\ (\E m \in Modules : b[m].epoch = e /\ b[m].phase = "committed") =>
           \A m \in Modules : Plays(b[m], next[m])
  BY DEF Coherent
<1>2. PICK S : p \in Seq(S)
  BY <1>1 DEF ProgramFits
<1>3. /\ q \in Seq(S) /\ n \in Nat /\ Len(p) = n + 1
      /\ \A i \in 1 .. n : q[i] = p[i + 1]
  BY <1>2, HeadTailProperties, LenProperties, EmptySeq
<1>4. q # <<>> => n \in 1 .. n
  BY <1>3, EmptySeq
<1> HIDE DEF q, n
<1>5. ASSUME NEW i \in 1 .. n, NEW j \in 1 .. n, NEW c, Between(p, i + 1, j + 1, c)
      PROVE  Between(q, i, j, c)
  <2>1. PICK k \in i + 2 .. j : p[k].module = p[j + 1].module /\ p[k].control = c
    BY <1>3, <1>5 DEF Between
  <2>2. k - 1 \in i + 1 .. j - 1 /\ k - 1 \in 1 .. n /\ (k - 1) + 1 = k
    BY <1>3, <2>1
  <2>3. q[k - 1] = p[k] /\ q[j] = p[j + 1]
    BY <1>3, <2>2
  <2> QED BY <2>1, <2>2, <2>3 DEF Between
<1>6. ASSUME NEW j \in 1 .. n, NEW c, Between(p, 0, j + 1, c)
      PROVE  Between(q, 0, j, c) \/ (q[j].module = x /\ w.control = c)
  <2>1. PICK k \in 1 .. j : p[k].module = p[j + 1].module /\ p[k].control = c
    BY <1>3, <1>6 DEF Between
  <2>2. CASE k = 1
    BY <1>3, <2>1, <2>2
  <2>3. CASE k # 1
    <3>0. n \in Nat
      BY <1>3
    <3>1. k - 1 \in 0 + 1 .. j - 1 /\ k - 1 \in 1 .. n /\ (k - 1) + 1 = k
      BY <2>3, <3>0
    <3>2. q[k - 1] = p[k] /\ q[j] = p[j + 1]
      BY <1>3, <3>1
    <3> QED BY <2>1, <3>1, <3>2 DEF Between
  <2> QED BY <2>2, <2>3
<1>7. \A i \in 1 .. n : i + 1 \in 1 .. Len(p) /\ q[i] = p[i + 1]
  BY <1>3
<1>8. ProgramFits(q, e, next, known)
  <2>1. \A i \in 1 .. n :
          LET v == q[i]
              a == next[v.module]
          IN /\ v.module \in Modules /\ known[v.module] = Unknown
             /\ v.control = "epoch" => v.value = e
             /\ v.control = "role0" => v.value = FirstRole(a)
             /\ v.control = "role1" => v.value = SecondRole(a)
             /\ Is(v, "prepare") => Playable(a)
    BY <1>1, <1>7 DEF ProgramFits
  <2>2. q # <<>> => q[n].control = "command"
    <3>1. p[Len(p)].control = "command"
      BY <1>1 DEF ProgramFits
    <3> QED BY <1>3, <1>4, <3>1
  <2>3. ASSUME NEW i \in 1 .. n, NEW j \in 1 .. n, Is(q[i], "mute"), Is(q[j], "prepare")
        PROVE  Between(q, i, j, "role0") /\ Between(q, i, j, "role1")
    <3>1. Between(p, i + 1, j + 1, "role0") /\ Between(p, i + 1, j + 1, "role1")
      BY <1>1, <1>7, <2>3 DEF ProgramFits
    <3> QED BY <1>5, <3>1
  <2>4. ASSUME NEW i \in 1 .. n, NEW j \in 1 .. n, Is(q[i], "commit"), Is(q[j], "mute") PROVE j < i
    <3>1. j + 1 < i + 1
      BY <1>1, <1>7, <2>4 DEF ProgramFits
    <3> QED BY <3>1
  <2>5. ASSUME NEW i \in 1 .. n, NEW j \in 1 .. n, Is(q[i], "stop"), q[j].control = "command"
        PROVE  q[j].value = "stop"
    BY <1>1, <1>7, <2>5 DEF ProgramFits
  <2> QED BY <1>3, <2>1, <2>2, <2>3, <2>4, <2>5 DEF ProgramFits, n
<1>9. ASSUME NEW m \in Modules PROVE Follows(b[m], m, q, e, next[m])
  <2>1. Follows(b[m], m, p, e, next[m])
    BY <1>1
  <2>2. ASSUME NEW j \in 1 .. n, q[j].module = m
        PROVE  /\ q[j].control = "command" => Between(q, 0, j, "epoch") \/ b[m].sEpoch \in {0, e}
               /\ Is(q[j], "prepare") /\ b[m].epoch = e =>
                    /\ Between(q, 0, j, "role0") \/ b[m].sRole0 = FirstRole(next[m])
                    /\ Between(q, 0, j, "role1") \/ b[m].sRole1 = SecondRole(next[m])
    <3>1. /\ q[j].control = "command" => Between(p, 0, j + 1, "epoch") \/ b[m].sEpoch \in {0, e}
          /\ Is(q[j], "prepare") /\ b[m].epoch = e =>
               /\ Between(p, 0, j + 1, "role0") \/ b[m].sRole0 = FirstRole(next[m])
               /\ Between(p, 0, j + 1, "role1") \/ b[m].sRole1 = SecondRole(next[m])
      BY <1>7, <2>1, <2>2 DEF Follows
    <3>2. Taken(b[m], w, e, next[m]) \/ m # x
      OBVIOUS
    <3>3. Between(p, 0, j + 1, "epoch") => Between(q, 0, j, "epoch") \/ b[m].sEpoch = e
      BY <1>6, <2>2, <3>2 DEF Taken
    <3>4. Between(p, 0, j + 1, "role0") => Between(q, 0, j, "role0") \/ b[m].sRole0 = FirstRole(next[m])
      BY <1>6, <2>2, <3>2 DEF Taken
    <3>5. Between(p, 0, j + 1, "role1") => Between(q, 0, j, "role1") \/ b[m].sRole1 = SecondRole(next[m])
      BY <1>6, <2>2, <3>2 DEF Taken
    <3> QED BY <3>1, <3>3, <3>4, <3>5
  <2> QED BY <2>1, <2>2 DEF Follows, n
<1>10. ASSUME ~Stopping(p), NEW m \in Modules, known[m] = Unknown
       PROVE  Silenced(b[m], e) \/ MuteLeft(q, m)
  <2>1. Silenced(b[m], e) \/ MuteLeft(p, m)
    BY <1>10 DEF Coherent
  <2>2. ASSUME NEW i \in 1 .. Len(p), p[i].module = m, Is(p[i], "mute")
        PROVE  Silenced(b[m], e) \/ MuteLeft(q, m)
    <3>1. CASE i = 1
      BY <2>2, <3>1 DEF Taken
    <3>2. CASE i # 1
      <4>1. i - 1 \in 1 .. n /\ (i - 1) + 1 = i
        BY <1>3, <3>2
      <4> QED BY <1>7, <2>2, <4>1 DEF MuteLeft, n
    <3> QED BY <3>1, <3>2
  <2> QED BY <2>1, <2>2 DEF MuteLeft
<1>11. ASSUME q # <<>>, ~Stopping(q) PROVE ~Stopping(p)
  <2>1. ~Is(p[1], "stop")
    <3>1. n \in 1 .. n /\ n + 1 \in 1 .. Len(p) /\ 1 \in 1 .. Len(p) /\ q[n] = p[n + 1]
      BY <1>3, <1>4, <1>11
    <3>2. p[n + 1].control = "command"
      BY <1>1, <1>3 DEF ProgramFits
    <3>3. ~Is(q[n], "stop")
      BY <1>11, <3>1 DEF Stopping, n
    <3> QED BY <1>1, <3>1, <3>2, <3>3 DEF ProgramFits, Is
  <2>2. ASSUME NEW i \in 1 .. Len(p), i # 1 PROVE ~Is(p[i], "stop")
    <3>1. i - 1 \in 1 .. n /\ (i - 1) + 1 = i
      BY <1>3, <2>2
    <3> QED BY <1>7, <1>11, <3>1 DEF Stopping, n
  <2> QED BY <2>1, <2>2 DEF Stopping
<1>12. Coherent(b, q, e, next, known)
  <2>1. q # <<>> /\ ~Stopping(q) =>
          \A m \in Modules : known[m] = Unknown => Silenced(b[m], e) \/ MuteLeft(q, m)
    BY <1>10, <1>11
  <2> QED BY <1>1, <1>8, <1>9, <2>1 DEF Coherent
<1>13. ASSUME q = <<>>, w.value # "stop" PROVE Coherent(b, <<>>, e, next, next)
  <2>1. n = 0 /\ Len(p) = 1
    BY <1>3, <1>13 DEF n
  <2>2. ~Stopping(p)
    BY <1>13, <2>1 DEF Stopping, Is
  <2>3. \A m \in Modules : known[m] = Unknown => Silenced(b[m], e)
    BY <1>10, <2>1, <2>2 DEF MuteLeft, n
  <2>4. ASSUME NEW m \in Modules PROVE Plays(b[m], next[m])
    <3>1. CASE known[m] # Unknown
      BY <1>1, <3>1
    <3>2. CASE known[m] = Unknown
      <4>1. Silenced(b[m], e) /\ Follows(b[m], m, p, e, next[m])
        BY <1>1, <2>3, <3>2
      <4> QED BY <4>1 DEF Silenced, Follows, Plays, Cast
    <3> QED BY <3>1, <3>2
  <2>5. Coherent(b, <<>>, e, next, known)
    BY <1>12, <1>13
  <2>6. ProgramFits(<<>>, e, next, next)
    BY NothingFits
  <2> QED BY <1>1, <2>4, <2>5, <2>6 DEF Coherent
<1> QED BY <1>12, <1>13 DEF q

\* A handover starts from what the host knows of the last plan t.
LEMMA StartCoherent ==
  ASSUME NEW b, NEW e, NEW t, NEW known, Coherent(b, <<>>, e, t, known), NEW next \in Plans, NEW p,
         ProgramFits(p, e + 1, next, Touched(known, next)), Whole(p),
         \A m \in Modules : known[m] # next[m] => MuteLeft(p, m)
  PROVE  Coherent(b, p, e + 1, next, Touched(known, next))
<1> DEFINE k == Touched(known, next)
<1>1. /\ e \in Nat /\ e + 1 \in Nat /\ e + 1 # 0
      /\ \A m \in Modules : known[m] \in {Unknown, t[m]}
      /\ \A m \in Modules : Follows(b[m], m, <<>>, e, t[m])
      /\ \A m \in Modules : known[m] # Unknown => Plays(b[m], t[m])
  BY DEF Coherent
<1>2. next = [m \in Modules |-> next[m]] /\ \A m \in Modules : next[m] # Unknown
  BY HandoverAssumption DEF HandoverAssumption
<1>3. /\ k = [m \in Modules |-> k[m]]
      /\ \A m \in Modules : k[m] = IF known[m] # next[m] THEN Unknown ELSE known[m]
  BY DEF Touched
<1> HIDE DEF k
<1>4. \A m \in Modules : b[m].epoch \in 0 .. e /\ b[m].sEpoch \in 0 .. e
  BY <1>1 DEF Follows
<1>5. \A m \in Modules : b[m].epoch \in 0 .. e + 1 /\ b[m].sEpoch \in 0 .. e + 1 /\ b[m].epoch # e + 1
  BY <1>1, <1>4
<1>6. \A m \in Modules : Follows(b[m], m, p, e + 1, next[m])
  BY <1>5 DEF Follows, Whole
<1>7. ASSUME NEW m \in Modules, k[m] # Unknown PROVE Plays(b[m], next[m])
  <2>1. known[m] = next[m] /\ known[m] # Unknown
    BY <1>3, <1>7
  <2>2. t[m] = next[m]
    BY <1>1, <2>1
  <2> QED BY <1>1, <2>1, <2>2
<1>8. \A m \in Modules : k[m] = Unknown => MuteLeft(p, m)
  BY <1>2, <1>3
<1>9. \A m \in Modules : k[m] \in {Unknown, next[m]}
  BY <1>3
<1> QED BY <1>1, <1>2, <1>3, <1>5, <1>6, <1>7, <1>8, <1>9 DEF Coherent, k

\* A stop is the program of one command.
LEMMA StopCoherent ==
  ASSUME NEW b, NEW e, NEW next, NEW known, Coherent(b, <<>>, e, next, known), e # 0,
         NEW x \in Modules, NEW c, c = [op |-> "stop", module |-> x, epoch |-> e],
         NEW k, k = [known EXCEPT ![x] = Unknown]
  PROVE  Coherent(b, CommandWrites(c), e, next, k)
<1> DEFINE V == Values(c)
           W == CommandWrites(c)
           n == Len(W)
<1>1. c.op = "stop" /\ c.module = x /\ c.epoch = e
  OBVIOUS
<1>2. W \in Seq(Writes(V)) /\ Shape(c, W)
  <2>1. Carries(c, V)
    BY <1>1, CommandShape
  <2> QED BY <2>1 DEF Carries
<1> HIDE DEF V, W
<1>3. /\ n \in 2 .. 4 /\ W[1].control = "epoch" /\ W[1].module = x
      /\ \A l \in 1 .. n :
           /\ W[l].module = x /\ W[l].control # "role0" /\ W[l].control # "role1"
           /\ W[l].control = "epoch" => W[l].value = e
           /\ W[l].control = "command" => l = n /\ W[l].value = "stop"
      /\ W[n].control = "command" /\ W[n].value = "stop"
  <2> HIDE DEF n
  <2>1. /\ n \in 2 .. 4 /\ W[1].control = "epoch"
        /\ \A l \in 1 .. n :
             /\ W[l].module = x /\ W[l].control # "role0" /\ W[l].control # "role1"
             /\ W[l].control = "epoch" => W[l].value = e
             /\ W[l].control = "command" <=> l = n
        /\ W[n].value = "stop"
    BY <1>1, <1>2 DEF Shape, n
  <2>2. 1 \in 1 .. n /\ n \in 1 .. n
    BY <2>1
  <2> QED BY <2>1, <2>2
<1>4. /\ e \in Nat /\ next = [m \in Modules |-> next[m]] /\ known = [m \in Modules |-> known[m]]
      /\ \A m \in Modules : known[m] \in {Unknown, next[m]} /\ next[m] # Unknown
      /\ \A m \in Modules : Follows(b[m], m, <<>>, e, next[m])
      /\ \A m \in Modules : known[m] # Unknown => Plays(b[m], next[m])
      /\ (\E m \in Modules : b[m].epoch = e /\ b[m].phase = "committed") =>
           \A m \in Modules : Plays(b[m], next[m])
  BY DEF Coherent
<1>5. /\ k = [m \in Modules |-> k[m]]
      /\ \A m \in Modules : k[m] = IF m = x THEN Unknown ELSE known[m]
  BY <1>4
<1>6. ProgramFits(W, e, next, k)
  <2> HIDE DEF n
  <2> QED BY <1>2, <1>3, <1>5 DEF ProgramFits, Is, n
<1>7. ASSUME NEW m \in Modules PROVE Follows(b[m], m, W, e, next[m])
  <2>1. \A j \in 1 .. n : W[j].control = "command" => Between(W, 0, j, "epoch")
    <3>1. 1 \in 0 + 1 .. n - 1 /\ n \in 1 .. n
      BY <1>3
    <3>2. W[n].module = x
      BY <1>3, <3>1
    <3> QED BY <1>3, <3>1, <3>2 DEF Between
  <2>2. \A j \in 1 .. n : ~Is(W[j], "prepare")
    BY <1>3 DEF Is
  <2> QED BY <1>4, <2>1, <2>2 DEF Follows, n
<1>8. Stopping(W)
  <2>1. n \in 1 .. n
    BY <1>3
  <2> QED BY <1>3, <2>1 DEF Stopping, Is, n
<1> QED BY <1>4, <1>5, <1>6, <1>7, <1>8 DEF Coherent, W

\* What an endpoint does by itself: it faults, keeps its part in the handover, or boots.
Mild(f, g) ==
  \/ g = Boot
  \/ /\ g.epoch = f.epoch /\ g.sEpoch = f.sEpoch /\ g.sRole0 = f.sRole0 /\ g.sRole1 = f.sRole1
     /\ g.role0 = f.role0 /\ g.role1 = f.role1 /\ g.phase \in {f.phase, "fault"}

LEMMA LocalCoherent ==
  ASSUME NEW b, NEW p, NEW e, NEW next, NEW known, Coherent(b, p, e, next, known),
         NEW x, NEW g, Mild(b[x], g), NEW c, \A m \in Modules : c[m] = IF m = x THEN g ELSE b[m]
  PROVE  Coherent(c, p, e, next, known)
<1>1. \A m \in Modules : Mild(b[m], c[m])
  BY DEF Mild
<1>2. ASSUME NEW m \in Modules PROVE Follows(c[m], m, p, e, next[m])
  <2>1. Follows(b[m], m, p, e, next[m]) /\ e \in Nat
    BY DEF Coherent
  <2>2. CASE c[m] = Boot
    <3>1. Boot.epoch = 0 /\ Boot.sEpoch = 0 /\ Boot.phase \notin Cast
      BY DEF Boot, Cast
    <3>2. Len(p) \in Nat /\ (Len(p) # 0 => e # 0)
      <4>1. /\ p # <<>> => e # 0
            /\ \E S : p \in Seq(S)
        BY DEF Coherent, ProgramFits
      <4> QED BY <4>1, LenProperties
    <3> QED BY <2>1, <2>2, <3>1, <3>2 DEF Follows
  <2>3. CASE c[m] # Boot
    BY <1>1, <2>1, <2>3 DEF Mild, Follows, BlockRoles, Cast
  <2> QED BY <2>2, <2>3
<1>3. ASSUME NEW m \in Modules, NEW a, Plays(b[m], a) PROVE Plays(c[m], a)
  BY <1>1, <1>3 DEF Mild, Plays, BlockRoles, Boot
<1>4. ASSUME NEW m \in Modules, Silenced(b[m], e) PROVE Silenced(c[m], e)
  BY <1>1, <1>4 DEF Mild, Silenced, Boot
<1>5. ASSUME NEW m \in Modules, c[m].epoch = e, c[m].phase = "committed"
      PROVE  b[m].epoch = e /\ b[m].phase = "committed"
  BY <1>1, <1>5 DEF Mild, Boot
<1>6. /\ e \in Nat /\ (p # <<>> => e # 0) /\ ProgramFits(p, e, next, known)
      /\ next = [m \in Modules |-> next[m]] /\ known = [m \in Modules |-> known[m]]
      /\ \A m \in Modules : known[m] \in {Unknown, next[m]} /\ next[m] # Unknown
  BY DEF Coherent
<1>7. \A m \in Modules : known[m] # Unknown => Plays(c[m], next[m])
  BY <1>3 DEF Coherent
<1>8. p # <<>> /\ ~Stopping(p) =>
        \A m \in Modules : known[m] = Unknown => Silenced(c[m], e) \/ MuteLeft(p, m)
  BY <1>4 DEF Coherent
<1>9. (\E m \in Modules : c[m].epoch = e /\ c[m].phase = "committed") =>
        \A m \in Modules : Plays(c[m], next[m])
  BY <1>3, <1>5 DEF Coherent
<1> QED BY <1>2, <1>6, <1>7, <1>8, <1>9 DEF Coherent

-----------------------------------------------------------------------------
(* The handover of the fabric: writes lost, repeated and abandoned, modules that reboot. *)

HandoverInv == Coherent(fw, program, epoch, target, applied)

LEMMA CoherentNext ==
  Coherent(fw', program', epoch', target', applied') => HandoverInv'
BY DEF HandoverInv, Coherent, ProgramFits, Between, Is, FirstRole, SecondRole, Playable,
       Follows, Plays, BlockRoles, Silenced, Stopping, MuteLeft, Cast

LEMMA HandoverInit == Init => HandoverInv
<1> SUFFICES ASSUME Init PROVE HandoverInv
  OBVIOUS
<1>1. ProgramFits(<<>>, 0, Nothing, Nothing) /\ Len(<<>>) = 0
  BY NothingFits
<1>2. Nothing = [m \in Modules |-> Nothing[m]] /\ \A m \in Modules : Nothing[m] # Unknown
  BY HandoverAssumption DEF Nothing, HandoverAssumption
<1>3. Boot.epoch = 0 /\ Boot.sEpoch = 0 /\ Boot.phase = "boot"
  BY DEF Boot
<1>4. /\ \A m \in Modules : fw[m] = Boot
      /\ epoch = 0 /\ target = Nothing /\ applied = Nothing /\ program = <<>>
  BY DEF Init
<1> HIDE DEF Boot, Nothing
<1>5. \A m \in Modules : Follows(fw[m], m, <<>>, 0, Nothing[m]) /\ Plays(fw[m], Nothing[m])
  BY <1>1, <1>3, <1>4 DEF Follows, Plays, Cast
<1> QED BY <1>1, <1>2, <1>4, <1>5 DEF HandoverInv, Coherent

\* A write reaches its endpoint; the host hears of it, of its refusal, or of nothing.
LEMMA WriteStep ==
  ASSUME HandoverInv, FirmwareInv, WriteAcknowledged \/ WriteRefused \/ ResponseLost
  PROVE  HandoverInv'
<1> DEFINE w == program[1]
           x == w.module
<1>1. /\ program # <<>> /\ UNCHANGED <<epoch, target>>
  BY DEF WriteAcknowledged, WriteRefused, ResponseLost
<1>2. Head(program) = w /\ x \in Modules
  <2>1. ProgramFits(program, epoch, target, applied)
    BY DEF HandoverInv, Coherent
  <2> QED BY <1>1, <2>1, FirstWrite
<1>3. PICK start \in BOOLEAN : fw' = [fw EXCEPT ![x] = SetControl(fw[x], w, start)]
  BY <1>2 DEF WriteAcknowledged, WriteRefused, ResponseLost
<1> DEFINE g == SetControl(fw[x], w, start)
<1>4. Effect(fw[x], w, g)
  <2>1. Closed(fw[x])
    BY <1>2 DEF FirmwareInv
  <2> QED BY <2>1, WriteEffect
<1> HIDE DEF g
<1>5. \A m \in Modules : fw'[m] = IF m = x THEN g ELSE fw[m]
  BY <1>3 DEF FirmwareInv, g
<1> HIDE DEF w, x
<1>6. Coherent(fw', program, epoch, target, applied) /\ Taken(fw'[x], w, epoch, target[x])
  <2>1. Coherent(fw, program, epoch, target, applied) /\ w = program[1] /\ x = w.module
    BY DEF HandoverInv, w, x
  <2> QED BY <1>1, <1>4, <1>5, <2>1, WriteCoherent, SMTT(20)
<1>7. CASE ResponseLost
  <2>1. UNCHANGED <<applied, program>>
    BY <1>7 DEF ResponseLost
  <2> QED BY <1>1, <1>6, <2>1, CoherentNext
<1>8. CASE WriteRefused
  <2>1. program' = <<>> /\ UNCHANGED applied
    BY <1>8 DEF WriteRefused
  <2>2. Coherent(fw', <<>>, epoch, target, applied)
    BY <1>6, GiveUpCoherent
  <2> QED BY <1>1, <2>1, <2>2, CoherentNext
<1>9. CASE WriteAcknowledged
  <2>1. /\ program' = Tail(program)
        /\ applied' = IF Tail(program) = <<>> /\ w.value # "stop" THEN target ELSE applied
    BY <1>2, <1>9 DEF WriteAcknowledged
  <2>2. /\ Coherent(fw', Tail(program), epoch, target, applied)
        /\ Tail(program) = <<>> /\ w.value # "stop" => Coherent(fw', <<>>, epoch, target, target)
    <3>1. w = program[1] /\ x = w.module
      BY DEF w, x
    <3> QED BY <1>1, <1>6, <3>1, TailCoherent
  <2>3. CASE Tail(program) = <<>> /\ w.value # "stop"
    <3>1. program' = <<>> /\ applied' = target /\ Coherent(fw', <<>>, epoch, target, target)
      BY <2>1, <2>2, <2>3
    <3> QED BY <1>1, <3>1, CoherentNext
  <2>4. CASE ~(Tail(program) = <<>> /\ w.value # "stop")
    <3>1. program' = Tail(program) /\ applied' = applied
      BY <2>1, <2>4
    <3> QED BY <1>1, <2>2, <3>1, CoherentNext
  <2> QED BY <2>3, <2>4
<1> QED BY <1>7, <1>8, <1>9

LEMMA HandoverStep ==
  ASSUME HandoverInv, FirmwareInv, Next \/ UNCHANGED vars
  PROVE  HandoverInv'
<1>0. Coherent(fw, program, epoch, target, applied) /\ epoch \in Nat
  BY DEF HandoverInv, Coherent
<1>1. CASE StartHandover
  <2>1. PICK next \in Plans, f \in Frames :
          LET envelopes == Envelopes(BuildHandover(applied, next, epoch + 1, f), epoch + 1, f)
          IN /\ envelopes # None /\ AemProgram(envelopes) \notin {None, <<>>}
             /\ program' = AemProgram(envelopes)
             /\ target' = next /\ applied' = Touched(applied, next)
    BY <1>1 DEF StartHandover
  <2> DEFINE B == BuildHandover(applied, next, epoch + 1, f)
  <2>2. /\ Envelopes(B, epoch + 1, f) # None
        /\ program' = AemProgram(Envelopes(B, epoch + 1, f)) /\ program' # None
        /\ target' = next /\ applied' = Touched(applied, next)
    BY <2>1
  <2>3. program = <<>> /\ epoch' = epoch + 1 /\ UNCHANGED fw
    BY <1>1 DEF StartHandover
  <2> HIDE DEF B
  <2>4. /\ ProgramFits(program', epoch + 1, next, Touched(applied, next)) /\ Whole(program')
        /\ \A m \in Modules : applied[m] # next[m] =>
             \E i \in 1 .. Len(program') : program'[i].module = m /\ Is(program'[i], "mute")
    BY <2>2, StartFits DEF B
  <2>5. \A m \in Modules : applied[m] # next[m] => MuteLeft(program', m)
    BY <2>4 DEF MuteLeft
  <2>6. Coherent(fw, program', epoch + 1, next, Touched(applied, next))
    BY <1>0, <2>3, <2>4, <2>5, StartCoherent
  <2> QED BY <2>2, <2>3, <2>6, CoherentNext
<1>2. CASE StopModule
  <2>1. PICK m \in Modules : /\ program' = CommandWrites([op |-> "stop", module |-> m, epoch |-> epoch])
                             /\ applied' = [applied EXCEPT ![m] = Unknown]
    BY <1>2 DEF StopModule
  <2>2. program = <<>> /\ epoch > 0 /\ UNCHANGED <<fw, epoch, target>>
    BY <1>2 DEF StopModule
  <2>3. Coherent(fw, program', epoch, target, applied')
    <3>1. epoch # 0 /\ Coherent(fw, <<>>, epoch, target, applied)
      BY <1>0, <2>2
    <3> QED BY <2>1, <3>1, StopCoherent
  <2> QED BY <2>2, <2>3, CoherentNext
<1>3. CASE WriteAcknowledged \/ WriteRefused \/ ResponseLost
  BY <1>3, WriteStep
<1>4. CASE GiveUp
  <2>1. program' = <<>> /\ UNCHANGED <<fw, epoch, target, applied>>
    BY <1>4 DEF GiveUp
  <2>2. Coherent(fw, <<>>, epoch, target, applied)
    BY <1>0, GiveUpCoherent
  <2> QED BY <2>1, <2>2, CoherentNext
<1>5. ASSUME NEW m \in Modules, NEW g, fw' = [fw EXCEPT ![m] = g], Mild(fw[m], g),
             UNCHANGED <<program, epoch, target, applied>>
      PROVE  HandoverInv'
  <2>1. \A x \in Modules : fw'[x] = IF x = m THEN g ELSE fw[x]
    BY <1>5 DEF FirmwareInv
  <2>2. Coherent(fw', program, epoch, target, applied)
    <3>1. Mild(fw[m], g)
      BY <1>5
    <3> QED BY <1>0, <2>1, <3>1, LocalCoherent
  <2> QED BY <1>5, <2>2, CoherentNext
<1>6. CASE TimerFires
  <2>1. UNCHANGED <<program, epoch, target, applied>>
    BY <1>6 DEF TimerFires
  <2>2. PICK m \in Modules, start \in BOOLEAN : Decide(m, start)
    BY <1>6 DEF TimerFires
  <2> DEFINE f == [fw[m] EXCEPT !.timer = FALSE]
             t == [f EXCEPT !.timer = TRUE]
  <2>3. PICK g \in {f, t, Faulted(f)} : fw' = [fw EXCEPT ![m] = g]
    BY <2>2 DEF Decide
  <2>4. Mild(fw[m], g)
    <3>1. fw[m] = [x \in Fields |-> fw[m][x]]
      BY DEF FirmwareInv, Closed
    <3>2. Mild(fw[m], f) /\ f = [x \in Fields |-> f[x]]
      BY <3>1 DEF Mild, Fields
    <3>3. Mild(fw[m], t)
      BY <3>1 DEF Mild, Fields
    <3>4. Mild(fw[m], Faulted(f))
      BY <3>1 DEF Mild, Faulted, Cancelled, Fields
    <3> QED BY <3>2, <3>3, <3>4
  <2> HIDE DEF f, t
  <2> QED BY <1>5, <2>1, <2>3, <2>4
<1>7. CASE OpenOutput \/ Reboot
  <2>1. UNCHANGED <<program, epoch, target, applied>>
    BY <1>7 DEF OpenOutput, Reboot
  <2>2. PICK m \in Modules : fw' = [fw EXCEPT ![m] = Opened(fw[m])] \/ fw' = [fw EXCEPT ![m] = Boot]
    BY <1>7 DEF OpenOutput, Reboot
  <2>3. Mild(fw[m], Boot) /\ Mild(fw[m], Opened(fw[m]))
    <3>1. fw[m] = [x \in Fields |-> fw[m][x]]
      BY DEF FirmwareInv, Closed
    <3> QED BY <3>1 DEF Mild, Opened, Fields
  <2> QED BY <1>5, <2>1, <2>2, <2>3
<1>8. CASE PtpChanges \/ Tick \/ UNCHANGED vars
  <2>1. UNCHANGED <<fw, program, epoch, target, applied>>
    BY <1>8 DEF PtpChanges, Tick, vars
  <2> QED BY <1>0, <2>1, CoherentNext
<1> QED BY <1>1, <1>2, <1>3, <1>4, <1>6, <1>7, <1>8 DEF Next

\* An output that is heard is that of a committed block, which plays its part of the plan.
LEMMA HandoverSound == HandoverInv /\ FirmwareInv => OneTopology
<1> SUFFICES ASSUME HandoverInv, FirmwareInv, NEW m \in Modules, Audible(m), fw[m].epoch = epoch,
                    NEW x \in Modules, Audible(x)
             PROVE  target[x] # None /\ RolesPlayed(x) = target[x].roles
  BY DEF OneTopology
<1>1. fw[m].phase = "committed" /\ fw[x].phase = "committed"
  BY DEF FirmwareInv, Closed, Audible
<1>2. Plays(fw[x], target[x])
  BY <1>1 DEF HandoverInv, Coherent
<1> QED BY <1>1, <1>2 DEF Plays, BlockRoles, RolesPlayed

-----------------------------------------------------------------------------
FabricInv == SessionInv /\ ContractInv /\ FirmwareInv /\ HandoverInv

LEMMA FabricInit == MCInit => FabricInv
BY SessionInit, ContractInit, FirmwareInit, HandoverInit DEF MCInit, FabricInv

LEMMA FabricStep ==
  ASSUME Preempt = FALSE, FabricInv, [MCNext]_mcVars
  PROVE  FabricInv'
<1>1. Fabric!Next \/ UNCHANGED sessionVars
  BY DEF MCNext, SessionMoves, HandoverMoves, ContractMoves, mcVars, sessionVars
<1>2. Fabric!ContractNext \/ UNCHANGED contractVars
  BY DEF MCNext, SessionMoves, HandoverMoves, ContractMoves, mcVars, contractVars
<1>3. Next \/ UNCHANGED vars
  BY DEF MCNext, SessionMoves, HandoverMoves, ContractMoves, mcVars, vars
<1> QED BY <1>1, <1>2, <1>3, SessionStep, ContractStep, FirmwareStep, HandoverStep DEF FabricInv

\* FabricFailsClosed for any number of modules, any intents, plans, policies
\* and writes: FabricSession::current_plan fits what the modules last reported,
\* an endpoint's output is open only in the phase a COMMIT led to, and
\* EndpointHandoverState unmutes only for the four commands of one handover; the
\* endpoint's half needs that no command overtakes the timer callback.
THEOREM FabricSafety == ASSUME Preempt = FALSE PROVE MCSpec => []FabricFailsClosed
<1>1. FabricInv /\ [MCNext]_mcVars => FabricInv'
  BY FabricStep
<1>2. FabricInv => FabricFailsClosed
  BY SessionSound, ContractSound, FirmwareSound DEF FabricInv, FabricFailsClosed
<1> QED BY <1>1, <1>2, FabricInit, PTL DEF MCSpec, mcVars

\* OpensOnDeadline, whether or not a command may overtake the timer callback of
\* aurora_endpoint_unmute_deadline: the output opens only under a valid gPTP clock, not
\* before an armed time and not more than AURORA_ENDPOINT_MAX_LATE_NS after it, through early
\* and late timers, repeated and overtaking commands, clock loss and reboots.  The armed time
\* is the one in the control block or, of a callback that was overtaken, the one it has checked.
THEOREM FabricDeadline == MCSpec => OpensOnDeadline
<1>1. MCInit => GateInv
  BY GateInit DEF MCInit
<1>2. [MCNext]_mcVars => Next \/ UNCHANGED vars
  BY DEF MCNext, SessionMoves, HandoverMoves, ContractMoves, mcVars, vars
<1>3. GateInv /\ [MCNext]_mcVars => GateInv'
  BY <1>2, GateStep
<1>4. GateInv /\ [MCNext]_mcVars =>
        [\A m \in Modules : ~Audible(m) /\ fw'[m].open
           => Due(fw[m].start) \/ (callback[m] # None /\ Due(callback[m]))]_vars
  BY <1>2, GateStep DEF Timely, Audible
<1> QED BY <1>1, <1>3, <1>4, PTL DEF MCSpec, mcVars, OpensOnDeadline

\* PlansCoherent for any number of modules and any plans: what a plan admitted by
\* plan_modular_speakers routes to the network NetworkAudioFanout accepts, and once an endpoint
\* of the last handover is heard, everything that is heard plays its roles of that plan, through
\* lost, repeated and abandoned writes, refusals, stops and reboots; the endpoint's half needs
\* that no command overtakes the timer callback.
THEOREM FabricCoherence == ASSUME Preempt = FALSE PROVE MCSpec => []PlansCoherent
<1>1. FabricInv /\ [MCNext]_mcVars => FabricInv'
  BY FabricStep
<1>2. FabricInv => PlansCoherent
  BY SessionDeployable, HandoverSound DEF FabricInv, PlansCoherent
<1> QED BY <1>1, <1>2, FabricInit, PTL DEF MCSpec, mcVars
=============================================================================
