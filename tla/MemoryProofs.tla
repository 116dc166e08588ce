---------------------------- MODULE MemoryProofs ----------------------------
(***************************************************************************)
(* Safety of the durable memory of an NPC.  First of MemoryOutbox, for any  *)
(* handoffs, commands, scopes and limits, any number of crashes and failed  *)
(* writes; then of MemoryTransaction, for every finite set of commands, any *)
(* scopes and directories, any number of mishaps and foreign hands.         *)
(***************************************************************************)
EXTENDS MemoryOutbox, MemoryTransaction, FiniteSetTheorems, SequenceTheorems, TLAPS

\* Every non-empty set of numbers has a least one.
LEMMA LeastExists ==
  ASSUME NEW S \in SUBSET Nat, S # {}
  PROVE  \E x \in S : \A y \in S : x <= y
<1> DEFINE Below == OpToRel(<, Nat)
<1>1. IsWellFoundedOn(Below, Nat)
  BY NatLessThanWellFounded
<1>2. \A x, y \in Nat : y < x => <<y, x>> \in Below
  BY DEF OpToRel
<1> HIDE DEF Below
<1>3. \E x \in S : \A y \in S : <<y, x>> \notin Below
  BY <1>1, WFMin
<1>4. PICK x \in S : \A y \in S : <<y, x>> \notin Below
  BY <1>3
<1>5. ASSUME NEW y \in S PROVE x <= y
  <2>1. x \in Nat /\ y \in Nat
    OBVIOUS
  <2>2. ~ (y < x)
    BY <1>2, <1>4, <2>1, Zenon
  <2> QED BY <2>1, <2>2
<1> QED BY <1>5

-----------------------------------------------------------------------------
(* Sequences joined *)

\* Induction up to n, for a set in the place of a predicate.
LEMMA Reaches ==
  ASSUME NEW n \in Nat, NEW G, 0 \in G, \A m \in 1..n : m - 1 \in G => m \in G
  PROVE  \A m \in 0..n : m \in G
<1> DEFINE bad == {m \in 0..n : m \notin G}
<1> SUFFICES ASSUME bad # {} PROVE FALSE
  OBVIOUS
<1>1. PICK m \in bad : \A k \in bad : m <= k
  <2>1. bad \in SUBSET Nat
    OBVIOUS
  <2> QED BY <2>1, LeastExists
<1>2. m \in 1..n /\ m - 1 \in 0..n /\ ~ (m <= m - 1)
  BY <1>1
<1> QED BY <1>1, <1>2

\* The recursion of Joined has a solution.
LEMMA JoinedRecursion ==
  ASSUME NEW S, NEW n \in Nat, NEW parts \in [1..n -> Seq(S)]
  PROVE  \E f \in [0..n -> Seq(S)] :
           /\ f[0] = <<>> /\ \A i \in 1..n : f[i] = f[i - 1] \o parts[i]
           /\ Joined(parts) = f[n]
<1> DEFINE Solves(f, m) ==
             f = [i \in 0..m |-> IF i = 0 THEN <<>> ELSE f[i - 1] \o parts[i]]
           Solved(m) == \E f : Solves(f, m)
<1>1. Len(parts) = n
  OBVIOUS
<1>2. ASSUME NEW m \in 1..n, Solved(m - 1)
      PROVE  Solved(m)
  <2>1. PICK f : Solves(f, m - 1)
    BY <1>2, Zenon
  <2> DEFINE g == [i \in 0..m |-> IF i = m THEN f[m - 1] \o parts[m] ELSE f[i]]
  <2>2. \A i \in 0..(m - 1) : f[i] = IF i = 0 THEN <<>> ELSE f[i - 1] \o parts[i]
    BY <2>1, Zenon
  <2>3. ASSUME NEW i \in 0..m
        PROVE  g[i] = IF i = 0 THEN <<>> ELSE g[i - 1] \o parts[i]
    <3>1. CASE i = m
      <4>1. m - 1 \in 0..m /\ m - 1 # m /\ m \in 0..m /\ m # 0
        OBVIOUS
      <4>2. g[m - 1] = f[m - 1] /\ g[m] = f[m - 1] \o parts[m]
        BY <4>1, Zenon
      <4> QED BY <3>1, <4>1, <4>2, Zenon
    <3>2. CASE i # m
      <4>1. i \in 0..(m - 1) /\ g[i] = f[i]
        BY <3>2
      <4>2. i # 0 => i - 1 \in 0..m /\ i - 1 # m
        BY <3>2
      <4>3. i # 0 => g[i - 1] = f[i - 1]
        BY <4>2, Zenon
      <4> QED BY <4>1, <4>3, <2>2, Zenon
    <3> QED BY <3>1, <3>2
  <2>4. g = [i \in 0..m |-> g[i]]
    BY Zenon
  <2>5. Solves(g, m)
    BY <2>3, <2>4, Zenon
  <2> QED BY <2>5, Zenon
<1>3. Solved(0)
  <2> DEFINE f == [i \in 0..0 |-> <<>>]
  <2>1. Solves(f, 0)
    OBVIOUS
  <2> QED BY <2>1, Zenon
<1>4. Solved(n)
  <2> HIDE DEF Solved
  <2> DEFINE G == {m \in 0..n : Solved(m)}
  <2>1. 0 \in G /\ \A m \in 1..n : m - 1 \in G => m \in G
    BY <1>2, <1>3
  <2> HIDE DEF G
  <2>2. \A m \in 0..n : m \in G
    BY <2>1, Reaches
  <2> QED BY <2>2 DEF G
<1> DEFINE u == CHOOSE h : Solves(h, n)
<1>5. Solves(u, n)
  BY <1>4, Zenon
<1>6. Joined(parts) = u[n]
  BY <1>1, Zenon DEF Joined
<1> HIDE DEF u
<1>7. u[0] = <<>> /\ \A i \in 1..n : u[i] = u[i - 1] \o parts[i]
  <2>1. 0 \in 0..n /\ \A i \in 1..n : i \in 0..n /\ i # 0
    OBVIOUS
  <2>2. \A i \in 0..n : u[i] = IF i = 0 THEN <<>> ELSE u[i - 1] \o parts[i]
    BY <1>5, Zenon
  <2> QED BY <2>1, <2>2, Zenon
<1>8. \A m \in 0..n : u[m] \in Seq(S)
  <2> DEFINE G == {m \in 0..n : u[m] \in Seq(S)}
  <2>1. 0 \in G
    <3>1. <<>> \in Seq(S) /\ 0 \in 0..n
      OBVIOUS
    <3>2. u[0] \in Seq(S)
      BY <3>1, <1>7, Zenon
    <3> QED BY <3>1, <3>2
  <2>2. \A m \in 1..n : m - 1 \in G => m \in G
    <3> SUFFICES ASSUME NEW m \in 1..n, m - 1 \in G PROVE m \in G
      OBVIOUS
    <3>1. u[m - 1] \in Seq(S) /\ parts[m] \in Seq(S)
      OBVIOUS
    <3>2. u[m] \in Seq(S)
      BY <3>1, <1>7, ConcatProperties
    <3> QED BY <3>2
  <2> HIDE DEF G
  <2>3. \A m \in 0..n : m \in G
    BY <2>1, <2>2, Reaches
  <2> QED BY <2>3 DEF G
<1>9. u \in [0..n -> Seq(S)]
  <2>1. u = [i \in 0..n |-> u[i]]
    <3>1. DOMAIN u = 0..n
      BY <1>5, Zenon
    <3> QED BY <1>5, <3>1, Zenon
  <2> QED BY <2>1, <1>8
<1> WITNESS u \in [0..n -> Seq(S)]
<1> QED BY <1>6, <1>7, Zenon

\* What stands where in a concatenation.
LEMMA ConcatPlaces ==
  ASSUME NEW S, NEW a \in Seq(S), NEW b \in Seq(S)
  PROVE  /\ Len(a \o b) = Len(a) + Len(b)
         /\ \A q \in 1..Len(a) : (a \o b)[q] = a[q]
         /\ \A k \in 1..Len(b) : (a \o b)[Len(a) + k] = b[k]
<1>1. Len(a) \in Nat /\ Len(b) \in Nat /\ Len(a \o b) = Len(a) + Len(b)
  OBVIOUS
<1>2. \A i \in 1 .. Len(a) + Len(b) :
        (a \o b)[i] = IF i <= Len(a) THEN a[i] ELSE b[i - Len(a)]
  BY ConcatProperties
<1>3. ASSUME NEW q \in 1..Len(a) PROVE (a \o b)[q] = a[q]
  BY <1>1, <1>2
<1>4. ASSUME NEW k \in 1..Len(b) PROVE (a \o b)[Len(a) + k] = b[k]
  <2>1. /\ Len(a) + k \in 1 .. Len(a) + Len(b) /\ ~ (Len(a) + k <= Len(a))
        /\ Len(a) + k - Len(a) = k
    BY <1>1
  <2> QED BY <1>2, <2>1
<1> QED BY <1>1, <1>3, <1>4

\* A place of a joined sequence is a place of one part, and parts keep their order.
LEMMA JoinedPlaces ==
  ASSUME NEW S, NEW n \in Nat, NEW parts \in [1..n -> Seq(S)]
  PROVE  /\ Joined(parts) \in Seq(S)
         /\ \E off \in [1..n -> Nat] :
              /\ \A i \in 1..n : \A k \in 1..Len(parts[i]) :
                   /\ off[i] + k \in 1..Len(Joined(parts))
                   /\ Joined(parts)[off[i] + k] = parts[i][k]
              /\ \A p \in 1..Len(Joined(parts)) :
                   \E i \in 1..n : \E k \in 1..Len(parts[i]) : p = off[i] + k
              /\ \A i, k \in 1..n : i < k => off[i] + Len(parts[i]) <= off[k]
<1>1. PICK f \in [0..n -> Seq(S)] :
        /\ f[0] = <<>> /\ \A i \in 1..n : f[i] = f[i - 1] \o parts[i]
        /\ Joined(parts) = f[n]
  BY JoinedRecursion
<1> DEFINE whole == Joined(parts)
           off == [i \in 1..n |-> Len(f[i - 1])]
           Starts(m) == \A i \in 0..m : /\ Len(f[i]) <= Len(f[m])
                                        /\ \A q \in 1..Len(f[i]) : f[m][q] = f[i][q]
           Covered(m) == \A p \in 1..Len(f[m]) :
             \E i \in 1..m : \E k \in 1..Len(parts[i]) : p = Len(f[i - 1]) + k
<1>2. \A m \in 0..n : f[m] \in Seq(S) /\ Len(f[m]) \in Nat
  BY <1>1
<1>3. \A i \in 1..n : parts[i] \in Seq(S) /\ Len(parts[i]) \in Nat /\ i - 1 \in 0..n /\ i \in 0..n
  OBVIOUS
<1>4. \A i \in 1..n :
        /\ Len(f[i]) = Len(f[i - 1]) + Len(parts[i])
        /\ \A q \in 1..Len(f[i - 1]) : f[i][q] = f[i - 1][q]
        /\ \A k \in 1..Len(parts[i]) : f[i][Len(f[i - 1]) + k] = parts[i][k]
  <2> SUFFICES ASSUME NEW i \in 1..n
               PROVE  /\ Len(f[i]) = Len(f[i - 1]) + Len(parts[i])
                      /\ \A q \in 1..Len(f[i - 1]) : f[i][q] = f[i - 1][q]
                      /\ \A k \in 1..Len(parts[i]) : f[i][Len(f[i - 1]) + k] = parts[i][k]
    OBVIOUS
  <2> DEFINE a == f[i - 1]
             b == parts[i]
  <2>1. a \in Seq(S) /\ b \in Seq(S) /\ f[i] = a \o b
    BY <1>1, <1>2, <1>3
  <2> HIDE DEF a, b
  <2>2. /\ Len(a \o b) = Len(a) + Len(b)
        /\ \A q \in 1..Len(a) : (a \o b)[q] = a[q]
        /\ \A k \in 1..Len(b) : (a \o b)[Len(a) + k] = b[k]
    BY <2>1, ConcatPlaces
  <2> QED BY <2>1, <2>2 DEF a, b
<1>5. \A m \in 0..n : Starts(m)
  <2> DEFINE G == {m \in 0..n : Starts(m)}
  <2>1. 0 \in G
    BY <1>2
  <2>2. ASSUME NEW m \in 1..n, m - 1 \in G PROVE m \in G
    <3> SUFFICES ASSUME NEW i \in 0..m
                 PROVE  /\ Len(f[i]) <= Len(f[m])
                        /\ \A q \in 1..Len(f[i]) : f[m][q] = f[i][q]
      OBVIOUS
    <3>1. CASE i = m
      BY <3>1, <1>2
    <3>2. CASE i # m
      <4>1. i \in 0..(m - 1) /\ m - 1 \in 0..n /\ i \in 0..n /\ m \in 0..n
        BY <3>2
      <4>2. /\ Len(f[i]) <= Len(f[m - 1])
            /\ \A q \in 1..Len(f[i]) : f[m - 1][q] = f[i][q]
        BY <2>2, <4>1
      <4>3. /\ Len(f[m]) = Len(f[m - 1]) + Len(parts[m])
            /\ \A q \in 1..Len(f[m - 1]) : f[m][q] = f[m - 1][q]
        BY <1>4
      <4>4. Len(f[i]) \in Nat /\ Len(f[m]) \in Nat /\ Len(f[m - 1]) \in Nat
            /\ Len(parts[m]) \in Nat
        BY <1>2, <1>3, <4>1
      <4> QED BY <4>2, <4>3, <4>4
    <3> QED BY <3>1, <3>2
  <2> HIDE DEF G
  <2>3. \A m \in 0..n : m \in G
    BY <2>1, <2>2, Reaches
  <2> QED BY <2>3 DEF G
<1>6. \A m \in 0..n : Covered(m)
  <2> DEFINE G == {m \in 0..n : Covered(m)}
  <2>1. 0 \in G
    BY <1>1
  <2>2. ASSUME NEW m \in 1..n, m - 1 \in G PROVE m \in G
    <3> SUFFICES ASSUME NEW p \in 1..Len(f[m])
                 PROVE  \E i \in 1..m : \E k \in 1..Len(parts[i]) : p = Len(f[i - 1]) + k
      OBVIOUS
    <3>1. /\ Len(f[m]) = Len(f[m - 1]) + Len(parts[m]) /\ Len(f[m - 1]) \in Nat
          /\ Len(parts[m]) \in Nat /\ m \in 1..m /\ \A i \in 1..(m - 1) : i \in 1..m
      BY <1>2, <1>3, <1>4
    <3>2. CASE p <= Len(f[m - 1])
      <4>1. p \in 1..Len(f[m - 1])
        BY <3>1, <3>2
      <4> QED BY <2>2, <3>1, <4>1
    <3>3. CASE ~ (p <= Len(f[m - 1]))
      <4>1. p - Len(f[m - 1]) \in 1..Len(parts[m])
        BY <3>1, <3>3
      <4>2. p = Len(f[m - 1]) + (p - Len(f[m - 1]))
        BY <3>1
      <4> QED BY <3>1, <4>1, <4>2, Zenon
    <3> QED BY <3>2, <3>3
  <2> HIDE DEF G
  <2>3. \A m \in 0..n : m \in G
    BY <2>1, <2>2, Reaches
  <2> QED BY <2>3 DEF G
<1>7. whole = f[n] /\ n \in 0..n /\ Len(whole) \in Nat
  BY <1>1, <1>2
<1>8. ASSUME NEW i \in 1..n, NEW k \in 1..Len(parts[i])
      PROVE  off[i] + k \in 1..Len(whole) /\ whole[off[i] + k] = parts[i][k]
  <2>1. /\ off[i] = Len(f[i - 1]) /\ Len(f[i]) = off[i] + Len(parts[i])
        /\ off[i] \in Nat /\ Len(parts[i]) \in Nat /\ f[i][off[i] + k] = parts[i][k]
    BY <1>2, <1>3, <1>4
  <2>2. off[i] + k \in 1..Len(f[i])
    BY <2>1
  <2>3. Len(f[i]) <= Len(f[n]) /\ f[n][off[i] + k] = f[i][off[i] + k] /\ Len(f[i]) \in Nat
    <3>1. n \in 0..n /\ i \in 0..n
      OBVIOUS
    <3> QED BY <1>2, <1>5, <2>2, <3>1
  <2> HIDE DEF off
  <2> QED BY <1>7, <2>1, <2>2, <2>3
<1>9. ASSUME NEW p \in 1..Len(whole)
      PROVE  \E i \in 1..n : \E k \in 1..Len(parts[i]) : p = off[i] + k
  <2>1. PICK i \in 1..n : \E k \in 1..Len(parts[i]) : p = Len(f[i - 1]) + k
    BY <1>6, <1>7
  <2>2. off[i] = Len(f[i - 1])
    OBVIOUS
  <2> HIDE DEF off
  <2> QED BY <2>1, <2>2, Zenon
<1>10. ASSUME NEW i \in 1..n, NEW k \in 1..n, i < k
       PROVE  off[i] + Len(parts[i]) <= off[k]
  <2>1. /\ off[i] = Len(f[i - 1]) /\ off[k] = Len(f[k - 1])
        /\ Len(f[i]) = off[i] + Len(parts[i])
    BY <1>4
  <2>2. i \in 0..(k - 1) /\ k - 1 \in 0..n
    BY <1>10
  <2>3. Len(f[i]) <= Len(f[k - 1])
    BY <1>5, <2>2
  <2> HIDE DEF off
  <2> QED BY <2>1, <2>3
<1>11. off \in [1..n -> Nat]
  BY <1>2, <1>3
<1>12. whole \in Seq(S)
  BY <1>2, <1>7
<1> HIDE DEF off, whole
<1> DEFINE Good(o) ==
             /\ \A i \in 1..n : \A k \in 1..Len(parts[i]) :
                   /\ o[i] + k \in 1..Len(Joined(parts))
                   /\ Joined(parts)[o[i] + k] = parts[i][k]
             /\ \A p \in 1..Len(Joined(parts)) :
                   \E i \in 1..n : \E k \in 1..Len(parts[i]) : p = o[i] + k
             /\ \A i, k \in 1..n : i < k => o[i] + Len(parts[i]) <= o[k]
<1>13. Good(off)
  BY <1>8, <1>9, <1>10, Zenon DEF whole
<1> QED BY <1>11, <1>12, <1>13, Zenon DEF whole

-----------------------------------------------------------------------------
(* The order of a sequence, as a relation between what stands in it *)

Distinct(s) == \A i, k \in 1..Len(s) : s[i] = s[k] => i = k

Follows(s, x, y) == \E i, k \in 1..Len(s) : i < k /\ s[i] = x /\ s[k] = y

\* What stands in a sequence stands at one of its places.
LEMMA InSequence ==
  ASSUME NEW S, NEW s \in Seq(S)
  PROVE  /\ \A x : x \in Range(s) <=> \E i \in 1..Len(s) : s[i] = x
         /\ Range(s) \subseteq S
         /\ \A i \in 1..Len(s) : s[i] \in Range(s)
<1>1. DOMAIN s = 1..Len(s) /\ \A i \in 1..Len(s) : s[i] \in S
  OBVIOUS
<1> QED BY <1>1 DEF Range

\* What stands at a later place follows.
LEMMA FollowsPlaces ==
  ASSUME NEW s, NEW i \in 1..Len(s), NEW k \in 1..Len(s), i < k
  PROVE  Follows(s, s[i], s[k])
BY Zenon DEF Follows

\* What follows, and what it follows, stand in the sequence.
LEMMA FollowsBoth ==
  ASSUME NEW S, NEW s \in Seq(S), NEW x, NEW y, Follows(s, x, y)
  PROVE  x \in Range(s) /\ y \in Range(s)
BY InSequence, Zenon DEF Follows

\* In a sequence without repetition "follows" is a strict total order.
LEMMA DistinctOrder ==
  ASSUME NEW S, NEW s \in Seq(S)
  PROVE  /\ Distinct(s) <=> \A x : ~ Follows(s, x, x)
         /\ Distinct(s) => \A x, y : ~ (Follows(s, x, y) /\ Follows(s, y, x))
         /\ \A x, y \in Range(s) : x = y \/ Follows(s, x, y) \/ Follows(s, y, x)
<1>1. ASSUME Distinct(s), NEW x, NEW y, Follows(s, x, y), Follows(s, y, x)
      PROVE  FALSE
  <2>1. PICK i, k \in 1..Len(s) : i < k /\ s[i] = x /\ s[k] = y
    BY <1>1, Zenon DEF Follows
  <2>2. PICK p, q \in 1..Len(s) : p < q /\ s[p] = y /\ s[q] = x
    BY <1>1, Zenon DEF Follows
  <2>3. i = q /\ k = p
    BY <1>1, <2>1, <2>2, Zenon DEF Distinct
  <2> QED BY <2>1, <2>2, <2>3
<1>2. ASSUME \A x : ~ Follows(s, x, x)
      PROVE  Distinct(s)
  <2> SUFFICES ASSUME NEW i \in 1..Len(s), NEW k \in 1..Len(s), s[i] = s[k], i # k
               PROVE  FALSE
    BY Zenon DEF Distinct
  <2>1. CASE i < k
    <3>1. Follows(s, s[i], s[i])
      BY <2>1, Zenon DEF Follows
    <3> QED BY <1>2, <3>1, Zenon
  <2>2. CASE k < i
    <3>1. Follows(s, s[i], s[i])
      BY <2>2, Zenon DEF Follows
    <3> QED BY <1>2, <3>1, Zenon
  <2> QED BY <2>1, <2>2
<1>3. ASSUME NEW x \in Range(s), NEW y \in Range(s)
      PROVE  x = y \/ Follows(s, x, y) \/ Follows(s, y, x)
  <2>1. PICK i \in 1..Len(s) : s[i] = x
    BY InSequence
  <2>2. PICK k \in 1..Len(s) : s[k] = y
    BY InSequence
  <2>3. i < k \/ i = k \/ k < i
    OBVIOUS
  <2> QED BY <2>1, <2>2, <2>3, Zenon DEF Follows
<1> QED BY <1>1, <1>2, <1>3, Zenon

\* The order of a sequence with one more at its end.
LEMMA AppendOrder ==
  ASSUME NEW S, NEW s \in Seq(S), NEW z \in S
  PROVE  /\ Append(s, z) \in Seq(S) /\ Len(Append(s, z)) = Len(s) + 1
         /\ Append(s, z)[Len(s) + 1] = z
         /\ \A i \in 1..Len(s) : Append(s, z)[i] = s[i]
         /\ Range(Append(s, z)) = Range(s) \cup {z}
         /\ \A x, y : Follows(Append(s, z), x, y)
                        <=> Follows(s, x, y) \/ (x \in Range(s) /\ y = z)
<1> DEFINE t == Append(s, z)
<1>1. /\ t \in Seq(S) /\ Len(t) = Len(s) + 1 /\ Len(s) \in Nat
      /\ t[Len(s) + 1] = z /\ \A i \in 1..Len(s) : t[i] = s[i]
  OBVIOUS
<1> HIDE DEF t
<1>2. Range(t) = Range(s) \cup {z}
  <2>1. ASSUME NEW x \in Range(t) PROVE x \in Range(s) \cup {z}
    <3>1. PICK i \in 1..Len(t) : t[i] = x
      BY <1>1, InSequence
    <3>2. i \in 1..Len(s) \/ i = Len(s) + 1
      BY <1>1
    <3> QED BY <1>1, <3>1, <3>2, InSequence
  <2>2. z \in Range(t)
    BY <1>1, InSequence
  <2>3. ASSUME NEW x \in Range(s) PROVE x \in Range(t)
    <3>1. PICK i \in 1..Len(s) : s[i] = x
      BY InSequence
    <3>2. i \in 1..Len(t) /\ t[i] = x
      BY <1>1, <3>1
    <3> QED BY <1>1, <3>2, InSequence
  <2> QED BY <2>1, <2>2, <2>3
<1>3. ASSUME NEW x, NEW y, Follows(t, x, y)
      PROVE  Follows(s, x, y) \/ (x \in Range(s) /\ y = z)
  <2>1. PICK i, k \in 1..Len(t) : i < k /\ t[i] = x /\ t[k] = y
    BY <1>3, Zenon DEF Follows
  <2>2. i \in 1..Len(s) /\ (k \in 1..Len(s) \/ k = Len(s) + 1)
    BY <1>1, <2>1
  <2>3. s[i] = x /\ x \in Range(s)
    BY <1>1, <2>1, <2>2, InSequence
  <2>4. CASE k \in 1..Len(s)
    <3>1. s[k] = y
      BY <1>1, <2>1, <2>4
    <3>2. Follows(s, s[i], s[k])
      BY <2>1, <2>2, <2>4, FollowsPlaces
    <3> QED BY <2>3, <3>1, <3>2, Zenon
  <2>5. CASE k = Len(s) + 1
    BY <1>1, <2>1, <2>3, <2>5
  <2> QED BY <2>2, <2>4, <2>5
<1>4. ASSUME NEW x, NEW y, Follows(s, x, y)
      PROVE  Follows(t, x, y)
  <2>1. PICK i, k \in 1..Len(s) : i < k /\ s[i] = x /\ s[k] = y
    BY <1>4, Zenon DEF Follows
  <2>2. i \in 1..Len(t) /\ k \in 1..Len(t) /\ t[i] = x /\ t[k] = y
    BY <1>1, <2>1
  <2> QED BY <2>1, <2>2, Zenon DEF Follows
<1>5. ASSUME NEW x, NEW y, x \in Range(s), y = z
      PROVE  Follows(t, x, y)
  <2>1. PICK i \in 1..Len(s) : s[i] = x
    BY <1>5, InSequence
  <2>2. /\ i \in 1..Len(t) /\ Len(s) + 1 \in 1..Len(t) /\ i < Len(s) + 1
        /\ t[i] = x /\ t[Len(s) + 1] = z
    BY <1>1, <2>1
  <2>3. Follows(t, t[i], t[Len(s) + 1])
    BY <2>2, FollowsPlaces
  <2> QED BY <1>5, <2>2, <2>3, Zenon
<1>6. ASSUME NEW x, NEW y
      PROVE  Follows(t, x, y) <=> Follows(s, x, y) \/ (x \in Range(s) /\ y = z)
  <2>1. Follows(t, x, y) => Follows(s, x, y) \/ (x \in Range(s) /\ y = z)
    BY <1>3
  <2>2. Follows(s, x, y) => Follows(t, x, y)
    BY <1>4
  <2>3. x \in Range(s) /\ y = z => Follows(t, x, y)
    BY <1>5
  <2> QED BY <2>1, <2>2, <2>3
<1> QED BY <1>1, <1>2, <1>6, Zenon DEF t

\* A sequence without repetitions is known by its order.
LEMMA SameLine ==
  ASSUME NEW S, NEW s \in Seq(S), NEW t \in Seq(S), Distinct(s), Distinct(t),
         Range(s) = Range(t), \A x, y : Follows(s, x, y) => Follows(t, x, y)
  PROVE  s = t
<1>1. Len(s) \in Nat /\ Len(t) \in Nat
  OBVIOUS
<1> DEFINE bad == {i \in 1..Len(s) : ~ (i \in 1..Len(t) /\ t[i] = s[i])}
<1>2. \A x, y : ~ (Follows(t, x, y) /\ Follows(t, y, x))
  BY DistinctOrder
<1>3. bad = {}
  <2> SUFFICES ASSUME bad # {} PROVE FALSE
    OBVIOUS
  <2>1. PICK i \in bad : \A k \in bad : i <= k
    <3>1. bad \in SUBSET Nat
      OBVIOUS
    <3> QED BY <3>1, LeastExists
  <2>2. i \in 1..Len(s) /\ \A k \in 1..Len(s) : k < i => k \in 1..Len(t) /\ t[k] = s[k]
    BY <2>1
  <2>3. PICK m \in 1..Len(t) : t[m] = s[i]
    BY <2>2, InSequence
  <2>4. m > i
    <3>1. ASSUME m < i PROVE FALSE
      <4>1. m \in 1..Len(s) /\ t[m] = s[m]
        BY <2>2, <3>1
      <4>2. m = i
        BY <2>2, <2>3, <4>1, Zenon DEF Distinct
      <4> QED BY <3>1, <4>2
    <3>2. m # i
      BY <2>1, <2>3
    <3> QED BY <2>2, <3>1, <3>2
  <2>5. i \in 1..Len(t)
    BY <1>1, <2>2, <2>4
  <2>6. PICK n \in 1..Len(s) : s[n] = t[i]
    BY <2>5, InSequence
  <2>7. n > i
    <3>1. ASSUME n < i PROVE FALSE
      <4>1. n \in 1..Len(t) /\ t[n] = t[i]
        BY <2>2, <2>6, <3>1
      <4>2. n = i
        BY <2>5, <4>1, Zenon DEF Distinct
      <4> QED BY <3>1, <4>2
    <3>2. n # i
      BY <2>1, <2>5, <2>6
    <3> QED BY <2>2, <3>1, <3>2
  <2>8. Follows(s, s[i], t[i])
    BY <2>2, <2>6, <2>7 DEF Follows
  <2>9. Follows(t, t[i], s[i])
    BY <2>3, <2>4, <2>5 DEF Follows
  <2> QED BY <1>2, <2>8, <2>9, Zenon
<1>4. Len(s) <= Len(t) /\ \A i \in 1..Len(s) : t[i] = s[i]
  <2>1. \A i \in 1..Len(s) : i \in 1..Len(t) /\ t[i] = s[i]
    BY <1>3
  <2> QED BY <1>1, <2>1
<1>5. Len(t) <= Len(s)
  <2> SUFFICES ASSUME Len(t) > Len(s) PROVE FALSE
    BY <1>1
  <2>1. Len(s) + 1 \in 1..Len(t)
    BY <1>1
  <2>2. PICK i \in 1..Len(s) : s[i] = t[Len(s) + 1]
    BY <2>1, InSequence
  <2>3. i \in 1..Len(t) /\ t[i] = t[Len(s) + 1]
    BY <1>1, <1>4, <2>2
  <2>4. i = Len(s) + 1
    BY <2>1, <2>3, Zenon DEF Distinct
  <2> QED BY <1>1, <2>4
<1>6. Len(s) = Len(t)
  BY <1>1, <1>4, <1>5
<1> QED BY <1>4, <1>6, SeqEqual

\* What stands in a joined sequence stands in a part; the order is that of the
\* parts, and within a part its own.
LEMMA JoinedOrder ==
  ASSUME NEW S, NEW n \in Nat, NEW parts \in [1..n -> Seq(S)]
  PROVE  /\ Joined(parts) \in Seq(S)
         /\ \A x : x \in Range(Joined(parts)) <=> \E i \in 1..n : x \in Range(parts[i])
         /\ \A x, y : Follows(Joined(parts), x, y)
              <=> \/ \E i, k \in 1..n : i < k /\ x \in Range(parts[i]) /\ y \in Range(parts[k])
                  \/ \E i \in 1..n : Follows(parts[i], x, y)
<1> DEFINE whole == Joined(parts)
<1>1. /\ whole \in Seq(S)
      /\ \E off \in [1..n -> Nat] :
           /\ \A i \in 1..n : \A k \in 1..Len(parts[i]) :
                off[i] + k \in 1..Len(whole) /\ whole[off[i] + k] = parts[i][k]
           /\ \A p \in 1..Len(whole) :
                \E i \in 1..n : \E k \in 1..Len(parts[i]) : p = off[i] + k
           /\ \A i, k \in 1..n : i < k => off[i] + Len(parts[i]) <= off[k]
  BY JoinedPlaces
<1> HIDE DEF whole
<1>2. PICK off \in [1..n -> Nat] :
        /\ \A i \in 1..n : \A k \in 1..Len(parts[i]) :
             off[i] + k \in 1..Len(whole) /\ whole[off[i] + k] = parts[i][k]
        /\ \A p \in 1..Len(whole) :
             \E i \in 1..n : \E k \in 1..Len(parts[i]) : p = off[i] + k
        /\ \A i, k \in 1..n : i < k => off[i] + Len(parts[i]) <= off[k]
  BY <1>1, Zenon
<1>3. \A i \in 1..n : parts[i] \in Seq(S) /\ Len(parts[i]) \in Nat /\ off[i] \in Nat
  OBVIOUS
<1>4. ASSUME NEW x
      PROVE  x \in Range(whole) <=> \E i \in 1..n : x \in Range(parts[i])
  <2>1. ASSUME x \in Range(whole) PROVE \E i \in 1..n : x \in Range(parts[i])
    <3>1. PICK p \in 1..Len(whole) : whole[p] = x
      BY <1>1, <2>1, InSequence
    <3>2. PICK i \in 1..n : \E k \in 1..Len(parts[i]) : p = off[i] + k
      BY <1>2
    <3>3. PICK k \in 1..Len(parts[i]) : p = off[i] + k
      BY <3>2
    <3>4. parts[i][k] = x
      BY <1>2, <3>1, <3>3
    <3> QED BY <1>3, <3>4, InSequence
  <2>2. ASSUME NEW i \in 1..n, x \in Range(parts[i]) PROVE x \in Range(whole)
    <3>1. PICK k \in 1..Len(parts[i]) : parts[i][k] = x
      BY <1>3, <2>2, InSequence
    <3>2. off[i] + k \in 1..Len(whole) /\ whole[off[i] + k] = x
      BY <1>2, <3>1
    <3> QED BY <1>1, <3>2, InSequence
  <2> QED BY <2>1, <2>2
<1>5. ASSUME NEW x, NEW y, Follows(whole, x, y)
      PROVE  \/ \E i, k \in 1..n : i < k /\ x \in Range(parts[i]) /\ y \in Range(parts[k])
             \/ \E i \in 1..n : Follows(parts[i], x, y)
  <2>1. PICK p, q \in 1..Len(whole) : p < q /\ whole[p] = x /\ whole[q] = y
    BY <1>5, Zenon DEF Follows
  <2>2. PICK i \in 1..n : \E a \in 1..Len(parts[i]) : p = off[i] + a
    BY <1>2
  <2>3. PICK a \in 1..Len(parts[i]) : p = off[i] + a
    BY <2>2
  <2>4. PICK k \in 1..n : \E b \in 1..Len(parts[k]) : q = off[k] + b
    BY <1>2
  <2>5. PICK b \in 1..Len(parts[k]) : q = off[k] + b
    BY <2>4
  <2>6. parts[i][a] = x /\ parts[k][b] = y
    BY <1>2, <2>1, <2>3, <2>5, Zenon
  <2>7. x \in Range(parts[i]) /\ y \in Range(parts[k])
    BY <1>3, <2>6, InSequence
  <2>8. ~ (k < i)
    <3> SUFFICES ASSUME k < i PROVE FALSE
      OBVIOUS
    <3>1. off[k] + Len(parts[k]) <= off[i]
      BY <1>2
    <3>2. off[k] \in Nat /\ off[i] \in Nat /\ Len(parts[k]) \in Nat /\ a \in Nat /\ b \in Nat
          /\ a >= 1 /\ b <= Len(parts[k]) /\ off[i] + a < off[k] + b
      BY <1>3, <2>1, <2>3, <2>5
    <3> QED BY <3>1, <3>2
  <2>9. CASE i = k
    <3>1. off[i] \in Nat /\ a \in Nat /\ b \in Nat /\ off[i] + a < off[i] + b
      BY <1>3, <2>1, <2>3, <2>5, <2>9
    <3>2. a < b
      BY <3>1
    <3> QED BY <2>3, <2>5, <2>6, <2>9, <3>2, Zenon DEF Follows
  <2>10. CASE i < k
    BY <2>7, <2>10, Zenon
  <2> QED BY <2>8, <2>9, <2>10
<1>6. ASSUME NEW x, NEW y, NEW i \in 1..n, NEW k \in 1..n, i < k,
             x \in Range(parts[i]), y \in Range(parts[k])
      PROVE  Follows(whole, x, y)
  <2>1. PICK a \in 1..Len(parts[i]) : parts[i][a] = x
    BY <1>3, <1>6, InSequence
  <2>2. PICK b \in 1..Len(parts[k]) : parts[k][b] = y
    BY <1>3, <1>6, InSequence
  <2>3. /\ off[i] + a \in 1..Len(whole) /\ whole[off[i] + a] = x
        /\ off[k] + b \in 1..Len(whole) /\ whole[off[k] + b] = y
    BY <1>2, <2>1, <2>2, Zenon
  <2>4. off[i] + a < off[k] + b
    <3>1. off[i] + Len(parts[i]) <= off[k]
      BY <1>2, <1>6
    <3> QED BY <1>3, <3>1
  <2> QED BY <2>3, <2>4, Zenon DEF Follows
<1>7. ASSUME NEW x, NEW y, NEW i \in 1..n, Follows(parts[i], x, y)
      PROVE  Follows(whole, x, y)
  <2>1. PICK a, b \in 1..Len(parts[i]) : a < b /\ parts[i][a] = x /\ parts[i][b] = y
    BY <1>7, Zenon DEF Follows
  <2>2. /\ off[i] + a \in 1..Len(whole) /\ whole[off[i] + a] = x
        /\ off[i] + b \in 1..Len(whole) /\ whole[off[i] + b] = y
    BY <1>2, <2>1, Zenon
  <2>3. off[i] + a < off[i] + b
    BY <1>3, <2>1
  <2> QED BY <2>2, <2>3, Zenon DEF Follows
<1> QED BY <1>1, <1>4, <1>5, <1>6, <1>7, Zenon DEF whole

\* The order of what a filter leaves.
LEMMA WithoutOrder ==
  ASSUME NEW S, NEW s \in Seq(S), NEW X
  PROVE  /\ Without(s, X) \in Seq(S)
         /\ Range(Without(s, X)) = Range(s) \ X
         /\ \A x, y : Follows(Without(s, X), x, y)
                        <=> Follows(s, x, y) /\ x \notin X /\ y \notin X
<1> DEFINE n == Len(s)
           parts == [i \in 1..n |-> IF s[i] \in X THEN <<>> ELSE <<s[i]>>]
<1>1. n \in Nat /\ \A i \in 1..n : s[i] \in S
  OBVIOUS
<1>2. parts \in [1..n -> Seq(S)]
  <2>1. ASSUME NEW i \in 1..n PROVE (IF s[i] \in X THEN <<>> ELSE <<s[i]>>) \in Seq(S)
    BY <1>1
  <2> QED BY <2>1, Zenon
<1>3. Without(s, X) = Joined(parts)
  BY Zenon DEF Without
<1>4. \A i \in 1..n : \A x : x \in Range(parts[i]) <=> x = s[i] /\ x \notin X
  <2> SUFFICES ASSUME NEW i \in 1..n, NEW x
               PROVE  x \in Range(parts[i]) <=> x = s[i] /\ x \notin X
    OBVIOUS
  <2>1. parts[i] = IF s[i] \in X THEN <<>> ELSE <<s[i]>>
    OBVIOUS
  <2>2. Range(<<>>) = {} /\ Range(<<s[i]>>) = {s[i]}
    BY DEF Range
  <2> QED BY <2>1, <2>2, Zenon
<1>5. \A i \in 1..n : \A x, y : ~ Follows(parts[i], x, y)
  <2> SUFFICES ASSUME NEW i \in 1..n, NEW x, NEW y, Follows(parts[i], x, y) PROVE FALSE
    OBVIOUS
  <2>1. PICK a, b \in 1..Len(parts[i]) : a < b
    BY Zenon DEF Follows
  <2>2. Len(parts[i]) \in {0, 1}
    <3>1. parts[i] = IF s[i] \in X THEN <<>> ELSE <<s[i]>>
      OBVIOUS
    <3> QED BY <3>1
  <2> QED BY <2>1, <2>2
<1> HIDE DEF parts
<1>6. /\ Joined(parts) \in Seq(S)
      /\ \A x : x \in Range(Joined(parts)) <=> \E i \in 1..n : x \in Range(parts[i])
      /\ \A x, y : Follows(Joined(parts), x, y)
           <=> \/ \E i, k \in 1..n : i < k /\ x \in Range(parts[i]) /\ y \in Range(parts[k])
               \/ \E i \in 1..n : Follows(parts[i], x, y)
  BY <1>1, <1>2, JoinedOrder
<1>7. \A x : x \in Range(Joined(parts)) <=> x \in Range(s) /\ x \notin X
  <2>1. \A x : x \in Range(s) <=> \E i \in 1..n : s[i] = x
    BY InSequence
  <2> QED BY <1>4, <1>6, <2>1
<1>8. \A x, y : Follows(Joined(parts), x, y) <=> Follows(s, x, y) /\ x \notin X /\ y \notin X
  <2> SUFFICES ASSUME NEW x, NEW y
               PROVE  Follows(Joined(parts), x, y)
                        <=> Follows(s, x, y) /\ x \notin X /\ y \notin X
    OBVIOUS
  <2>1. Follows(Joined(parts), x, y)
          <=> \E i, k \in 1..n : i < k /\ x \in Range(parts[i]) /\ y \in Range(parts[k])
    BY <1>5, <1>6, Zenon
  <2>2. \A i \in 1..n : /\ x \in Range(parts[i]) <=> x = s[i] /\ x \notin X
                        /\ y \in Range(parts[i]) <=> y = s[i] /\ y \notin X
    BY <1>4, Zenon
  <2>3. (\E i, k \in 1..n : i < k /\ x \in Range(parts[i]) /\ y \in Range(parts[k]))
          <=> (\E i, k \in 1..n : i < k /\ x = s[i] /\ y = s[k]) /\ x \notin X /\ y \notin X
    BY <2>2, Zenon
  <2>4. Follows(s, x, y) <=> \E i, k \in 1..n : i < k /\ x = s[i] /\ y = s[k]
    BY DEF Follows
  <2> QED BY <2>1, <2>3, <2>4, Zenon
<1> QED BY <1>3, <1>6, <1>7, <1>8

\* The order of a concatenation.
LEMMA ConcatOrder ==
  ASSUME NEW S, NEW a \in Seq(S), NEW b \in Seq(S)
  PROVE  /\ a \o b \in Seq(S)
         /\ Range(a \o b) = Range(a) \cup Range(b)
         /\ \A x, y : Follows(a \o b, x, y)
              <=> \/ Follows(a, x, y) \/ Follows(b, x, y)
                  \/ (x \in Range(a) /\ y \in Range(b))
<1> DEFINE t == a \o b
<1>1. /\ t \in Seq(S) /\ Len(t) = Len(a) + Len(b) /\ Len(a) \in Nat /\ Len(b) \in Nat
      /\ \A q \in 1..Len(a) : t[q] = a[q]
      /\ \A k \in 1..Len(b) : t[Len(a) + k] = b[k]
  <2>1. t \in Seq(S) /\ Len(a) \in Nat /\ Len(b) \in Nat
    OBVIOUS
  <2> QED BY <2>1, ConcatPlaces
<1> HIDE DEF t
<1>2. \A p \in 1..Len(t) : p \in 1..Len(a) \/ (p - Len(a) \in 1..Len(b) /\ p = Len(a) + (p - Len(a)))
  BY <1>1
<1>3. (\A q \in 1..Len(a) : q \in 1..Len(t)) /\ \A k \in 1..Len(b) : Len(a) + k \in 1..Len(t)
  BY <1>1
<1>4. ASSUME NEW x PROVE x \in Range(t) <=> x \in Range(a) \/ x \in Range(b)
  <2>1. ASSUME x \in Range(t) PROVE x \in Range(a) \/ x \in Range(b)
    <3>1. PICK p \in 1..Len(t) : t[p] = x
      BY <1>1, <2>1, InSequence
    <3>2. CASE p \in 1..Len(a)
      BY <1>1, <3>1, <3>2, InSequence
    <3>3. CASE p - Len(a) \in 1..Len(b) /\ p = Len(a) + (p - Len(a))
      <4>1. b[p - Len(a)] = x
        BY <1>1, <3>1, <3>3
      <4> QED BY <3>3, <4>1, InSequence
    <3> QED BY <1>2, <3>2, <3>3
  <2>2. ASSUME x \in Range(a) PROVE x \in Range(t)
    <3>1. PICK p \in 1..Len(a) : a[p] = x
      BY <2>2, InSequence
    <3> QED BY <1>1, <1>3, <3>1, InSequence
  <2>3. ASSUME x \in Range(b) PROVE x \in Range(t)
    <3>1. PICK p \in 1..Len(b) : b[p] = x
      BY <2>3, InSequence
    <3>2. Len(a) + p \in 1..Len(t) /\ t[Len(a) + p] = x
      BY <1>1, <1>3, <3>1
    <3> QED BY <1>1, <3>2, InSequence
  <2> QED BY <2>1, <2>2, <2>3
<1>5. ASSUME NEW x, NEW y, Follows(t, x, y)
      PROVE  Follows(a, x, y) \/ Follows(b, x, y) \/ (x \in Range(a) /\ y \in Range(b))
  <2>1. PICK p, q \in 1..Len(t) : p < q /\ t[p] = x /\ t[q] = y
    BY <1>5, Zenon DEF Follows
  <2>2. CASE q \in 1..Len(a)
    <3>1. p \in 1..Len(a)
      BY <1>1, <2>1, <2>2
    <3>2. a[p] = x /\ a[q] = y
      BY <1>1, <2>1, <2>2, <3>1
    <3> QED BY <2>1, <2>2, <3>1, <3>2, Zenon DEF Follows
  <2>3. CASE q - Len(a) \in 1..Len(b) /\ q = Len(a) + (q - Len(a))
    <3>1. b[q - Len(a)] = y
      BY <1>1, <2>1, <2>3
    <3>2. CASE p \in 1..Len(a)
      BY <1>1, <2>1, <2>3, <3>1, <3>2, InSequence
    <3>3. CASE p - Len(a) \in 1..Len(b) /\ p = Len(a) + (p - Len(a))
      <4>1. b[p - Len(a)] = x
        BY <1>1, <2>1, <3>3
      <4>2. p - Len(a) < q - Len(a)
        BY <1>1, <2>1
      <4> QED BY <2>3, <3>1, <3>3, <4>1, <4>2, Zenon DEF Follows
    <3> QED BY <1>2, <3>2, <3>3
  <2> QED BY <1>2, <2>2, <2>3
<1>6. ASSUME NEW x, NEW y, Follows(a, x, y) PROVE Follows(t, x, y)
  <2>1. PICK p, q \in 1..Len(a) : p < q /\ a[p] = x /\ a[q] = y
    BY <1>6, Zenon DEF Follows
  <2>2. p \in 1..Len(t) /\ q \in 1..Len(t) /\ t[p] = x /\ t[q] = y
    BY <1>1, <1>3, <2>1
  <2> QED BY <2>1, <2>2, Zenon DEF Follows
<1>7. ASSUME NEW x, NEW y, Follows(b, x, y) PROVE Follows(t, x, y)
  <2>1. PICK p, q \in 1..Len(b) : p < q /\ b[p] = x /\ b[q] = y
    BY <1>7, Zenon DEF Follows
  <2>2. /\ Len(a) + p \in 1..Len(t) /\ Len(a) + q \in 1..Len(t)
        /\ t[Len(a) + p] = x /\ t[Len(a) + q] = y
    BY <1>1, <1>3, <2>1
  <2>3. Len(a) + p < Len(a) + q
    BY <1>1, <2>1
  <2> QED BY <2>2, <2>3, Zenon DEF Follows
<1>8. ASSUME NEW x, NEW y, x \in Range(a), y \in Range(b) PROVE Follows(t, x, y)
  <2>1. PICK p \in 1..Len(a) : a[p] = x
    BY <1>8, InSequence
  <2>2. PICK q \in 1..Len(b) : b[q] = y
    BY <1>8, InSequence
  <2>3. /\ p \in 1..Len(t) /\ Len(a) + q \in 1..Len(t) /\ p < Len(a) + q
        /\ t[p] = x /\ t[Len(a) + q] = y
    BY <1>1, <1>3, <2>1, <2>2
  <2> QED BY <2>3, Zenon DEF Follows
<1>9. Range(t) = Range(a) \cup Range(b)
  BY <1>4
<1>10. ASSUME NEW x, NEW y
       PROVE  Follows(t, x, y)
              <=> Follows(a, x, y) \/ Follows(b, x, y) \/ (x \in Range(a) /\ y \in Range(b))
  <2>1. Follows(t, x, y)
        => Follows(a, x, y) \/ Follows(b, x, y) \/ (x \in Range(a) /\ y \in Range(b))
    BY <1>5
  <2>2. Follows(a, x, y) => Follows(t, x, y)
    BY <1>6
  <2>3. Follows(b, x, y) => Follows(t, x, y)
    BY <1>7
  <2>4. x \in Range(a) /\ y \in Range(b) => Follows(t, x, y)
    BY <1>8
  <2> QED BY <2>1, <2>2, <2>3, <2>4
<1> QED BY <1>1, <1>9, <1>10 DEF t

\* The latest of some places is one of them.
LEMMA LatestIn ==
  ASSUME NEW n \in Nat, NEW L \in SUBSET (1..n), L # {}
  PROVE  Latest(L) \in L /\ \A k \in L : k <= Latest(L)
<1> DEFINE M == {n - k : k \in L}
<1>1. M \in SUBSET Nat /\ M # {}
  OBVIOUS
<1>2. PICK m \in M : \A y \in M : m <= y
  BY <1>1, LeastExists
<1>3. PICK i \in L : m = n - i
  BY <1>2
<1>4. \A k \in L : k <= i
  <2> SUFFICES ASSUME NEW k \in L PROVE k <= i
    OBVIOUS
  <2>1. n - k \in M
    OBVIOUS
  <2>2. n - i <= n - k
    BY <1>2, <1>3, <2>1
  <2> QED BY <2>2
<1> QED BY <1>3, <1>4, Zenon DEF Latest

\* The last of the places that hold something of X is that of z, if all else of X
\* stands before z.
LEMMA LatestIs ==
  ASSUME NEW S, NEW s \in Seq(S), Distinct(s), NEW X, NEW z \in X, z \in Range(s),
         \A x \in X \cap Range(s) : x = z \/ Follows(s, x, z)
  PROVE  LET L == {i \in 1..Len(s) : s[i] \in X} IN Latest(L) \in L /\ s[Latest(L)] = z
<1> DEFINE L == {i \in 1..Len(s) : s[i] \in X}
<1>1. PICK k \in 1..Len(s) : s[k] = z
  BY InSequence
<1>2. k \in L /\ L \in SUBSET (1..Len(s)) /\ Len(s) \in Nat
  BY <1>1
<1>3. Latest(L) \in L /\ \A i \in L : i <= Latest(L)
  <2> HIDE DEF L
  <2> QED BY <1>2, LatestIn
<1>4. s[Latest(L)] \in X \cap Range(s)
  BY <1>3, InSequence
<1>5. CASE Follows(s, s[Latest(L)], z)
  <2>1. PICK p, q \in 1..Len(s) : p < q /\ s[p] = s[Latest(L)] /\ s[q] = z
    BY <1>5, Zenon DEF Follows
  <2>2. p = Latest(L) /\ q = k
    BY <1>1, <1>3, <2>1 DEF Distinct
  <2>3. k <= Latest(L)
    BY <1>2, <1>3
  <2> QED BY <1>2, <1>3, <2>1, <2>2, <2>3
<1> QED BY <1>3, <1>4, <1>5

-----------------------------------------------------------------------------
(* Journals and the handoffs in them *)

HandoffRecords == [type : {"handoff"}, of : Handoffs, attempt : {0}, seq : Nat]
CommandRecords == [type : {"dispatch", "retry"} \cup Terminal,
                   of : Commands, attempt : Nat, seq : Nat]
Journals == Seq(HandoffRecords \cup CommandRecords)
Memories == [Commands -> [status : {"unknown", "pending"} \cup Terminal,
                          attempts : Nat, due : BOOLEAN, failed : BOOLEAN]]

HandedIn(j) == {j[i].of : i \in {k \in 1..Len(j) : j[k].type = "handoff"}}

\* A record is of a handoff or of a command, and never of both.
LEMMA RecordKinds ==
  ASSUME NEW r \in HandoffRecords \cup CommandRecords
  PROVE  /\ r.seq \in Nat /\ r.attempt \in Nat
         /\ r.type = "handoff" => r \in HandoffRecords /\ r.of \in Handoffs /\ r.attempt = 0
                                  /\ r.of \notin Commands
         /\ r.type # "handoff" => r \in CommandRecords /\ r.of \in Commands
                                  /\ r.type \in {"dispatch", "retry", "succeeded", "dead"}
<1>1. CASE r \in HandoffRecords
  <2>1. r.type = "handoff" /\ r.of \in Handoffs /\ r.attempt = 0 /\ r.seq \in Nat
    BY <1>1 DEF HandoffRecords
  <2> QED BY <1>1, <2>1, OutboxAssumption
<1>2. CASE r \in CommandRecords
  <2>1. r.type \in {"dispatch", "retry", "succeeded", "dead"} /\ r.of \in Commands
        /\ r.attempt \in Nat /\ r.seq \in Nat
    BY <1>2 DEF CommandRecords, Terminal
  <2> QED BY <1>2, <2>1
<1> QED BY <1>1, <1>2

\* The same of a line of a journal.
LEMMA LineKinds ==
  ASSUME NEW j \in Journals, NEW i \in 1..Len(j)
  PROVE  /\ j[i] \in HandoffRecords \cup CommandRecords
         /\ j[i].seq \in Nat /\ j[i].attempt \in Nat
         /\ j[i].type = "handoff" => j[i].of \in Handoffs /\ j[i].attempt = 0
                                     /\ j[i].of \notin Commands
         /\ j[i].type # "handoff" => j[i].of \in Commands
                                     /\ j[i].type \in {"dispatch", "retry", "succeeded", "dead"}
<1>1. j[i] \in HandoffRecords \cup CommandRecords
  BY DEF Journals
<1> QED BY <1>1, RecordKinds

\* A command is held by one handoff, at one place of it.
LEMMA OneHolder ==
  ASSUME NEW g \in Handoffs, NEW h \in Handoffs, NEW c \in Holders(g) \cap Holders(h)
  PROVE  g = h
<1>1. CommandsOf[g] \in Seq(Commands) /\ CommandsOf[h] \in Seq(Commands)
  BY OutboxAssumption
<1>2. PICK i \in DOMAIN CommandsOf[g] : CommandsOf[g][i] = c
  BY <1>1 DEF Holders, Range
<1>3. PICK k \in DOMAIN CommandsOf[h] : CommandsOf[h][k] = c
  BY <1>1 DEF Holders, Range
<1> QED BY <1>2, <1>3, CommandIdAssumption

\* A handoff holds commands, each of them once.
LEMMA HoldersType ==
  ASSUME NEW h \in Handoffs
  PROVE  /\ CommandsOf[h] \in Seq(Commands) /\ Holders(h) \subseteq Commands
         /\ Distinct(CommandsOf[h])
<1>1. CommandsOf[h] \in Seq(Commands)
  BY OutboxAssumption
<1>2. \A i, k \in 1..Len(CommandsOf[h]) : CommandsOf[h][i] = CommandsOf[h][k] => i = k
  <2>1. DOMAIN CommandsOf[h] = 1..Len(CommandsOf[h])
    BY <1>1
  <2> QED BY <2>1, CommandIdAssumption
<1> QED BY <1>1, <1>2, InSequence DEF Holders, Distinct

\* HandoffsIn has the handoffs of a journal in the order of their records.
LEMMA HandoffsOrder ==
  ASSUME NEW j \in Journals
  PROVE  /\ HandoffsIn(j) \in Seq(Handoffs)
         /\ Range(HandoffsIn(j)) = HandedIn(j)
         /\ \A x, y : Follows(HandoffsIn(j), x, y)
              <=> \E i, k \in 1..Len(j) : /\ i < k
                                          /\ j[i].type = "handoff" /\ j[i].of = x
                                          /\ j[k].type = "handoff" /\ j[k].of = y
<1> DEFINE n == Len(j)
           parts == [i \in 1..n |-> IF j[i].type = "handoff" THEN <<j[i].of>> ELSE <<>>]
<1>1. n \in Nat /\ \A i \in 1..n : j[i].type = "handoff" => j[i].of \in Handoffs
  BY LineKinds DEF Journals
<1>2. parts \in [1..n -> Seq(Handoffs)]
  <2>1. ASSUME NEW i \in 1..n
        PROVE (IF j[i].type = "handoff" THEN <<j[i].of>> ELSE <<>>) \in Seq(Handoffs)
    BY <1>1
  <2> QED BY <2>1, Zenon
<1>3. HandoffsIn(j) = Joined(parts)
  BY Zenon DEF HandoffsIn
<1>4. \A i \in 1..n : \A x : x \in Range(parts[i]) <=> j[i].type = "handoff" /\ x = j[i].of
  <2> SUFFICES ASSUME NEW i \in 1..n, NEW x
               PROVE  x \in Range(parts[i]) <=> j[i].type = "handoff" /\ x = j[i].of
    OBVIOUS
  <2>1. parts[i] = IF j[i].type = "handoff" THEN <<j[i].of>> ELSE <<>>
    OBVIOUS
  <2>2. Range(<<>>) = {} /\ Range(<<j[i].of>>) = {j[i].of}
    BY DEF Range
  <2> QED BY <2>1, <2>2, Zenon
<1>5. \A i \in 1..n : \A x, y : ~ Follows(parts[i], x, y)
  <2> SUFFICES ASSUME NEW i \in 1..n, NEW x, NEW y, Follows(parts[i], x, y) PROVE FALSE
    OBVIOUS
  <2>1. PICK a, b \in 1..Len(parts[i]) : a < b
    BY Zenon DEF Follows
  <2>2. Len(parts[i]) \in {0, 1}
    <3>1. parts[i] = IF j[i].type = "handoff" THEN <<j[i].of>> ELSE <<>>
      OBVIOUS
    <3> QED BY <3>1
  <2> QED BY <2>1, <2>2
<1> HIDE DEF parts
<1>6. /\ Joined(parts) \in Seq(Handoffs)
      /\ \A x : x \in Range(Joined(parts)) <=> \E i \in 1..n : x \in Range(parts[i])
      /\ \A x, y : Follows(Joined(parts), x, y)
           <=> \/ \E i, k \in 1..n : i < k /\ x \in Range(parts[i]) /\ y \in Range(parts[k])
               \/ \E i \in 1..n : Follows(parts[i], x, y)
  BY <1>1, <1>2, JoinedOrder
<1>7. Range(Joined(parts)) = HandedIn(j)
  <2>1. \A x : x \in Range(Joined(parts)) <=> \E i \in 1..n : j[i].type = "handoff" /\ x = j[i].of
    BY <1>4, <1>6, Zenon
  <2> QED BY <2>1 DEF HandedIn
<1>8. \A x, y : Follows(Joined(parts), x, y)
        <=> \E i, k \in 1..n : /\ i < k
                               /\ j[i].type = "handoff" /\ j[i].of = x
                               /\ j[k].type = "handoff" /\ j[k].of = y
  <2> SUFFICES ASSUME NEW x, NEW y
               PROVE  Follows(Joined(parts), x, y)
                        <=> \E i, k \in 1..n : /\ i < k
                                               /\ j[i].type = "handoff" /\ j[i].of = x
                                               /\ j[k].type = "handoff" /\ j[k].of = y
    OBVIOUS
  <2>1. Follows(Joined(parts), x, y)
          <=> \E i, k \in 1..n : i < k /\ x \in Range(parts[i]) /\ y \in Range(parts[k])
    BY <1>5, <1>6, Zenon
  <2>2. \A i \in 1..n : /\ x \in Range(parts[i]) <=> j[i].type = "handoff" /\ j[i].of = x
                        /\ y \in Range(parts[i]) <=> j[i].type = "handoff" /\ j[i].of = y
    BY <1>4, Zenon
  <2> QED BY <2>1, <2>2
<1> QED BY <1>3, <1>6, <1>7, <1>8

\* A command comes before another when its handoff does, or its place in their handoff.
LEMMA CommandsInOrder ==
  ASSUME NEW o \in Seq(Handoffs)
  PROVE  /\ CommandOrder(o) \in Seq(Commands)
         /\ \A c : c \in Range(CommandOrder(o)) <=> \E h \in Range(o) : c \in Holders(h)
         /\ \A d, c : Follows(CommandOrder(o), d, c)
              <=> \/ \E g, h \in Handoffs : /\ Follows(o, g, h)
                                            /\ d \in Holders(g) /\ c \in Holders(h)
                  \/ \E h \in Range(o) : Follows(CommandsOf[h], d, c)
<1> DEFINE n == Len(o)
           parts == [i \in 1..n |-> CommandsOf[o[i]]]
<1>1. n \in Nat /\ \A i \in 1..n : o[i] \in Handoffs
  OBVIOUS
<1>2. parts \in [1..n -> Seq(Commands)]
  BY <1>1, OutboxAssumption
<1>3. CommandOrder(o) = Joined(parts)
  BY Zenon DEF CommandOrder
<1>4. \A i \in 1..n : parts[i] = CommandsOf[o[i]] /\ Range(parts[i]) = Holders(o[i])
  BY DEF Holders
<1> HIDE DEF parts
<1>5. /\ Joined(parts) \in Seq(Commands)
      /\ \A x : x \in Range(Joined(parts)) <=> \E i \in 1..n : x \in Range(parts[i])
      /\ \A x, y : Follows(Joined(parts), x, y)
           <=> \/ \E i, k \in 1..n : i < k /\ x \in Range(parts[i]) /\ y \in Range(parts[k])
               \/ \E i \in 1..n : Follows(parts[i], x, y)
  BY <1>1, <1>2, JoinedOrder
<1>6. \A x : x \in Range(o) <=> \E i \in 1..n : o[i] = x
  BY InSequence
<1>7. \A c : c \in Range(Joined(parts)) <=> \E h \in Range(o) : c \in Holders(h)
  <2>1. \A c : c \in Range(Joined(parts)) <=> \E i \in 1..n : c \in Holders(o[i])
    BY <1>4, <1>5
  <2> QED BY <1>6, <2>1, Zenon
<1>8. ASSUME NEW d, NEW c
      PROVE  Follows(Joined(parts), d, c)
               <=> \/ \E g, h \in Handoffs : /\ Follows(o, g, h)
                                             /\ d \in Holders(g) /\ c \in Holders(h)
                   \/ \E h \in Range(o) : Follows(CommandsOf[h], d, c)
  <2>1. Follows(Joined(parts), d, c)
          <=> \/ \E i, k \in 1..n : i < k /\ d \in Holders(o[i]) /\ c \in Holders(o[k])
              \/ \E i \in 1..n : Follows(CommandsOf[o[i]], d, c)
    <3>1. (\E i, k \in 1..n : i < k /\ d \in Range(parts[i]) /\ c \in Range(parts[k]))
            <=> \E i, k \in 1..n : i < k /\ d \in Holders(o[i]) /\ c \in Holders(o[k])
      BY <1>4, Zenon
    <3>2. (\E i \in 1..n : Follows(parts[i], d, c))
            <=> \E i \in 1..n : Follows(CommandsOf[o[i]], d, c)
      BY <1>4, Zenon
    <3> QED BY <1>5, <3>1, <3>2, Zenon
  <2>2. (\E i \in 1..n : Follows(CommandsOf[o[i]], d, c))
          <=> \E h \in Range(o) : Follows(CommandsOf[h], d, c)
    BY <1>6, Zenon
  <2>3. (\E i, k \in 1..n : i < k /\ d \in Holders(o[i]) /\ c \in Holders(o[k]))
          <=> \E g, h \in Handoffs : /\ Follows(o, g, h)
                                     /\ d \in Holders(g) /\ c \in Holders(h)
    <3>1. ASSUME NEW i \in 1..n, NEW k \in 1..n, i < k, d \in Holders(o[i]), c \in Holders(o[k])
          PROVE  \E g, h \in Handoffs : Follows(o, g, h) /\ d \in Holders(g) /\ c \in Holders(h)
      <4>1. Follows(o, o[i], o[k])
        BY <3>1, FollowsPlaces
      <4> QED BY <1>1, <3>1, <4>1, Zenon
    <3>2. ASSUME NEW g \in Handoffs, NEW h \in Handoffs, Follows(o, g, h),
                 d \in Holders(g), c \in Holders(h)
          PROVE  \E i, k \in 1..n : i < k /\ d \in Holders(o[i]) /\ c \in Holders(o[k])
      BY <3>2, Zenon DEF Follows
    <3> QED BY <3>1, <3>2, Zenon
  <2> QED BY <2>1, <2>2, <2>3, Zenon
<1> QED BY <1>3, <1>5, <1>7, <1>8

-----------------------------------------------------------------------------
(* The invariant.  Its parts are of what the memory and the file hold, and of *)
(* what has been handed over, accepted and settled.                           *)

OrderedIn(s, t) ==
  Range(s) \subseteq Range(t) /\ \A x, y : Follows(s, x, y) => Follows(t, x, y)

\* what the memory knows: the commands of its handoffs, in the order these were
\* handed over, and no outcome that is not one
MemoryTrue(o, m, hd, st) ==
  /\ OrderedIn(o, hd)
  /\ \A c \in Commands :
       /\ m[c].status = "unknown" <=> \A h \in Range(o) : c \notin Holders(h)
       /\ m[c].status = "unknown" => m[c] = Unknown
       /\ m[c].status \in Terminal => c \in st

HeldIn(S, ac, st) == \A h \in ac : Holders(h) \subseteq st \/ h \in S

\* what a start will find
FileTrue(j, hd, ac, st) ==
  /\ HeldIn(HandedIn(j), ac, st)
  /\ \A c \in Commands : Trail(j, c) \cap Terminal # {} => c \in st
  /\ Readable(j) => OrderedIn(HandoffsIn(j), hd)

\* who runs is pending, and nobody before it in its scope is
RunsFirst(o, m, jb) ==
  \A c \in Commands : jb[c] # "idle" =>
    /\ m[c].status = "pending"
    /\ \A d \in Commands : ScopeOf[d] = ScopeOf[c] /\ Follows(CommandOrder(o), d, c)
                             => m[d].status # "pending"

States == [journal : Journals, seq : Nat, mem : Memories, order : Seq(Handoffs)]

Sound(s, hd, ac, st, jb) ==
  /\ s \in States
  /\ MemoryTrue(s.order, s.mem, hd, st) /\ HeldIn(Range(s.order), ac, st)
  /\ FileTrue(s.journal, hd, ac, st) /\ Range(s.order) \subseteq HandedIn(s.journal)
  /\ RunsFirst(s.order, s.mem, jb)

\* an error is followed by another attempt before there is an outcome
Tried(m) ==
  \A c \in Commands : m[c].failed =>
    m[c].attempts >= 1 /\ (m[c].status \in Terminal => m[c].attempts >= 2)

TriedAgain(m, jb) ==
  \A c \in Commands : jb[c] \in {"calling", "ok", "error", "refusal"} =>
    m[c].attempts >= 1 /\ (m[c].failed => m[c].attempts >= 2)

Same(a, b) == a.status = b.status /\ a.attempts = b.attempts /\ a.failed = b.failed

Matches(j, o, m) == HandoffsIn(j) = o /\ \A c \in Commands : Same(Recalled(j, c), m[c])

Recoverable(j) == Readable(j) => Tried([c \in Commands |-> Recalled(j, c)])

\* what the memory holds is what the journal says
Steady(s, jb) ==
  /\ Tried(s.mem) /\ TriedAgain(s.mem, jb) /\ s.seq = Len(s.journal) + 1
  /\ Readable(s.journal) => Matches(s.journal, s.order, s.mem)

IInv ==
  /\ TypeOK /\ ReleasedIsQuiet /\ Distinct(handed)
  /\ FileTrue(journal, handed, accepted, settled)
  /\ Up => Sound(Holding, handed, accepted, settled, job)
  /\ ~ torn => /\ ~ degraded /\ Recoverable(journal)
               /\ Up => Steady(Holding, job)

\* A journal that says what the memory holds can be recovered from.
LEMMA RecoverableBySteady ==
  ASSUME NEW s, NEW jb, Steady(s, jb)
  PROVE  Recoverable(s.journal)
<1> SUFFICES ASSUME Readable(s.journal), NEW c \in Commands, Recalled(s.journal, c).failed
             PROVE  /\ Recalled(s.journal, c).attempts >= 1
                    /\ Recalled(s.journal, c).status \in Terminal
                         => Recalled(s.journal, c).attempts >= 2
  BY DEF Recoverable, Tried
<1>1. Same(Recalled(s.journal, c), s.mem[c])
  BY DEF Steady, Matches
<1>2. s.mem[c].failed => s.mem[c].attempts >= 1
                         /\ (s.mem[c].status \in Terminal => s.mem[c].attempts >= 2)
  BY DEF Steady, Tried
<1> QED BY <1>1, <1>2 DEF Same

\* A longer history of outcomes makes nothing wrong.
LEMMA SettledGrows ==
  ASSUME NEW s, NEW hd, NEW ac, NEW st, NEW st2, NEW jb, st \subseteq st2
  PROVE  /\ Sound(s, hd, ac, st, jb) => Sound(s, hd, ac, st2, jb)
         /\ \A j : FileTrue(j, hd, ac, st) => FileTrue(j, hd, ac, st2)
<1>1. \A S : HeldIn(S, ac, st) => HeldIn(S, ac, st2)
  BY DEF HeldIn
<1>2. \A o, m : MemoryTrue(o, m, hd, st) => MemoryTrue(o, m, hd, st2)
  BY DEF MemoryTrue
<1>3. \A j : FileTrue(j, hd, ac, st) => FileTrue(j, hd, ac, st2)
  BY <1>1 DEF FileTrue
<1> QED BY <1>1, <1>2, <1>3 DEF Sound

\* What is ordered in a sequence without repetition has none either.
LEMMA OrderedIsDistinct ==
  ASSUME NEW S, NEW s \in Seq(S), NEW t \in Seq(S), OrderedIn(s, t), Distinct(t)
  PROVE  Distinct(s)
BY DistinctOrder, Zenon DEF OrderedIn

\* A journal and a number are replaced, the memory and the order stay.
LEMMA StateParts ==
  ASSUME NEW s \in States, NEW a, NEW b
  PROVE  [s EXCEPT !.journal = a, !.seq = b]
           = [journal |-> a, seq |-> b, mem |-> s.mem, order |-> s.order]
<1>1. [s EXCEPT !.journal = a, !.seq = b] = [[s EXCEPT !.journal = a] EXCEPT !.seq = b]
  OBVIOUS
<1>2. [s EXCEPT !.journal = a]
        = [journal |-> a, seq |-> s.seq, mem |-> s.mem, order |-> s.order]
  BY DEF States
<1>3. [[journal |-> a, seq |-> s.seq, mem |-> s.mem, order |-> s.order] EXCEPT !.seq = b]
        = [journal |-> a, seq |-> b, mem |-> s.mem, order |-> s.order]
  OBVIOUS
<1> QED BY <1>1, <1>2, <1>3, Zenon

-----------------------------------------------------------------------------
(* Forgetting what is out of retention *)

\* What is left of each command when the expired handoffs are forgotten.
LEMMA PrunedType ==
  ASSUME NEW s \in States
  PROVE  /\ Pruned(s) \in States
         /\ Pruned(s).journal = s.journal /\ Pruned(s).seq = s.seq
         /\ Pruned(s).order = Without(s.order, Prunable(s))
         /\ \A c \in Commands :
              Pruned(s).mem[c] = IF \E h \in Prunable(s) : c \in Holders(h) THEN Unknown ELSE s.mem[c]
<1> DEFINE gone == UNION {Holders(h) : h \in Prunable(s)}
           m == [c \in Commands |-> IF c \in gone THEN Unknown ELSE s.mem[c]]
           o == Without(s.order, Prunable(s))
<1>1. /\ s.journal \in Journals /\ s.seq \in Nat /\ s.mem \in Memories
      /\ s.order \in Seq(Handoffs)
      /\ s = [journal |-> s.journal, seq |-> s.seq, mem |-> s.mem, order |-> s.order]
  BY DEF States
<1>2. o \in Seq(Handoffs)
  BY <1>1, WithoutOrder
<1>3. m \in Memories
  <2> DEFINE T == [status : {"unknown", "pending"} \cup Terminal,
                   attempts : Nat, due : BOOLEAN, failed : BOOLEAN]
  <2>1. Memories = [Commands -> T]
    BY DEF Memories
  <2>2. \A c \in Commands : s.mem[c] \in T
    BY <1>1, <2>1
  <2>3. Unknown \in T
    BY DEF Unknown
  <2> HIDE DEF gone, T
  <2>4. ASSUME NEW c \in Commands
        PROVE  (IF c \in gone THEN Unknown ELSE s.mem[c]) \in T
    BY <2>2, <2>3
  <2>5. m \in [Commands -> T]
    BY <2>4
  <2> HIDE DEF m
  <2> QED BY <2>1, <2>5, Zenon
<1>4. Pruned(s) = [journal |-> s.journal, seq |-> s.seq, mem |-> m, order |-> o]
  <2>1. Pruned(s) = [s EXCEPT !.order = o, !.mem = m]
    BY Zenon DEF Pruned
  <2> HIDE DEF m, o
  <2> QED BY <1>1, <2>1
<1>5. \A c \in Commands : m[c] = IF \E h \in Prunable(s) : c \in Holders(h) THEN Unknown ELSE s.mem[c]
  OBVIOUS
<1> HIDE DEF m, o
<1>6. Pruned(s) \in States
  BY <1>1, <1>2, <1>3, <1>4 DEF States
<1> QED BY <1>4, <1>5, <1>6 DEF o

\* Forgetting what is out of retention keeps what is held sound.
LEMMA PrunedSound ==
  ASSUME NEW s, NEW hd \in Seq(Handoffs), NEW ac \in SUBSET Handoffs, NEW st, NEW jb,
         Sound(s, hd, ac, st, jb)
  PROVE  /\ Sound(Pruned(s), hd, ac, st, jb)
         /\ Range(Pruned(s).order) \subseteq Range(s.order)
         /\ Tried(s.mem) => Tried(Pruned(s).mem)
         /\ TriedAgain(s.mem, jb) => TriedAgain(Pruned(s).mem, jb)
<1> DEFINE p == Pruned(s)
           P == Prunable(s)
<1>1. s \in States /\ MemoryTrue(s.order, s.mem, hd, st) /\ HeldIn(Range(s.order), ac, st)
      /\ FileTrue(s.journal, hd, ac, st) /\ RunsFirst(s.order, s.mem, jb)
  BY DEF Sound
<1>2. /\ p \in States /\ p.journal = s.journal /\ p.order = Without(s.order, P)
      /\ \A c \in Commands :
           p.mem[c] = IF \E h \in P : c \in Holders(h) THEN Unknown ELSE s.mem[c]
  BY <1>1, PrunedType
<1>3. P \subseteq Range(s.order) /\ \A h \in P : \A c \in Holders(h) : s.mem[c].status \in Terminal
  BY DEF Prunable
<1> HIDE DEF p, P
<1>4. s.order \in Seq(Handoffs) /\ Range(s.order) \subseteq Handoffs
  BY <1>1, InSequence DEF States
<1>5. /\ Range(p.order) = Range(s.order) \ P
      /\ \A x, y : Follows(p.order, x, y) <=> Follows(s.order, x, y) /\ x \notin P /\ y \notin P
  BY <1>2, <1>4, WithoutOrder
<1>6. OrderedIn(p.order, hd)
  BY <1>1, <1>5 DEF MemoryTrue, OrderedIn
<1>7. \A c \in Commands :
        /\ (\E h \in P : c \in Holders(h)) => \A h \in Range(p.order) : c \notin Holders(h)
        /\ ~ (\E h \in P : c \in Holders(h))
             => ((\A h \in Range(p.order) : c \notin Holders(h))
                   <=> \A h \in Range(s.order) : c \notin Holders(h))
  BY <1>3, <1>4, <1>5, OneHolder
<1>8. MemoryTrue(p.order, p.mem, hd, st)
  <2> SUFFICES ASSUME NEW c \in Commands
               PROVE  /\ p.mem[c].status = "unknown" <=> \A h \in Range(p.order) : c \notin Holders(h)
                      /\ p.mem[c].status = "unknown" => p.mem[c] = Unknown
                      /\ p.mem[c].status \in Terminal => c \in st
    BY <1>6 DEF MemoryTrue
  <2>1. CASE \E h \in P : c \in Holders(h)
    <3>1. p.mem[c] = Unknown
      BY <1>2, <2>1
    <3> QED BY <1>7, <2>1, <3>1 DEF Unknown, Terminal
  <2>2. CASE ~ \E h \in P : c \in Holders(h)
    <3>1. p.mem[c] = s.mem[c]
      BY <1>2, <2>2
    <3> QED BY <1>1, <1>7, <2>2, <3>1 DEF MemoryTrue
  <2> QED BY <2>1, <2>2
<1>9. HeldIn(Range(p.order), ac, st)
  <2> SUFFICES ASSUME NEW h \in ac PROVE Holders(h) \subseteq st \/ h \in Range(p.order)
    BY DEF HeldIn
  <2>1. CASE h \in P
    BY <1>1, <1>3, <2>1, HoldersType DEF MemoryTrue
  <2>2. CASE h \notin P
    BY <1>1, <1>5, <2>2 DEF HeldIn
  <2> QED BY <2>1, <2>2
<1>10. RunsFirst(p.order, p.mem, jb)
  <2> SUFFICES ASSUME NEW c \in Commands, jb[c] # "idle"
               PROVE  /\ p.mem[c].status = "pending"
                      /\ \A d \in Commands :
                           ScopeOf[d] = ScopeOf[c] /\ Follows(CommandOrder(p.order), d, c)
                             => p.mem[d].status # "pending"
    BY DEF RunsFirst
  <2>1. s.mem[c].status = "pending"
    BY <1>1 DEF RunsFirst
  <2>2. p.mem[c] = s.mem[c]
    <3>1. ~ \E h \in P : c \in Holders(h)
      BY <1>3, <2>1 DEF Terminal
    <3> QED BY <1>2, <3>1
  <2>3. ASSUME NEW d \in Commands, ScopeOf[d] = ScopeOf[c], Follows(CommandOrder(p.order), d, c)
        PROVE  p.mem[d].status # "pending"
    <3>1. Follows(CommandOrder(s.order), d, c)
      <4>1. p.order \in Seq(Handoffs)
        BY <1>2 DEF States
      <4>2. \/ \E g, h \in Handoffs : Follows(p.order, g, h) /\ d \in Holders(g) /\ c \in Holders(h)
            \/ \E h \in Range(p.order) : Follows(CommandsOf[h], d, c)
        BY <2>3, <4>1, CommandsInOrder
      <4>3. \/ \E g, h \in Handoffs : Follows(s.order, g, h) /\ d \in Holders(g) /\ c \in Holders(h)
            \/ \E h \in Range(s.order) : Follows(CommandsOf[h], d, c)
        BY <1>5, <4>2
      <4> QED BY <1>4, <4>3, CommandsInOrder
    <3>2. s.mem[d].status # "pending"
      BY <1>1, <2>3, <3>1 DEF RunsFirst
    <3> QED BY <1>2, <3>2 DEF Unknown
  <2> QED BY <2>1, <2>2, <2>3
<1>11. ASSUME Tried(s.mem) PROVE Tried(p.mem)
  BY <1>2, <1>11 DEF Tried, Unknown
<1>12. ASSUME TriedAgain(s.mem, jb) PROVE TriedAgain(p.mem, jb)
  <2> SUFFICES ASSUME NEW c \in Commands, jb[c] \in {"calling", "ok", "error", "refusal"}
               PROVE  p.mem[c].attempts >= 1 /\ (p.mem[c].failed => p.mem[c].attempts >= 2)
    BY DEF TriedAgain
  <2>1. s.mem[c].status = "pending"
    BY <1>1 DEF RunsFirst
  <2>2. p.mem[c] = s.mem[c]
    BY <1>2, <1>3, <2>1 DEF Terminal
  <2> QED BY <1>12, <2>2 DEF TriedAgain
<1>13. Range(p.order) \subseteq HandedIn(p.journal)
  BY <1>2, <1>5 DEF Sound
<1>14. Sound(p, hd, ac, st, jb)
  BY <1>1, <1>2, <1>8, <1>9, <1>10, <1>13 DEF Sound
<1> QED BY <1>5, <1>11, <1>12, <1>14 DEF p

-----------------------------------------------------------------------------
(* The rewrite *)

\* The records a command is rewritten to, and their order.
LEMMA SummaryLines ==
  ASSUME NEW m \in Memories, NEW c \in Commands
  PROVE  /\ Summary(m, c) \in Seq(CommandRecords)
         /\ \A r : r \in Range(Summary(m, c)) <=>
              \/ r = Record("dispatch", c, m[c].attempts, 0) /\ m[c].attempts > 0
              \/ r = Record(m[c].status, c, m[c].attempts, 0) /\ m[c].status \in Terminal
              \/ /\ r = Record("retry", c, m[c].attempts, 0)
                 /\ m[c].status = "pending" /\ m[c].attempts > 0 /\ m[c].failed
         /\ \A x, y : Follows(Summary(m, c), x, y)
              <=> /\ x \in Range(Summary(m, c)) /\ y \in Range(Summary(m, c))
                  /\ x.type = "dispatch" /\ y.type # "dispatch"
<1> DEFINE n == m[c].attempts
           D == Record("dispatch", c, n, 0)
           T == Record(m[c].status, c, n, 0)
           Y == Record("retry", c, n, 0)
           a == IF n > 0 THEN <<D>> ELSE <<>>
           again == m[c].status = "pending" /\ n > 0 /\ m[c].failed
           b == CASE m[c].status \in Terminal -> <<T>>
                  [] again -> <<Y>>
                  [] OTHER -> <<>>
<1>1. /\ n \in Nat /\ m[c].status \in {"unknown", "pending"} \cup Terminal
      /\ m[c].failed \in BOOLEAN
  BY DEF Memories
<1>2. "pending" \notin Terminal
  BY DEF Terminal
<1>3. D \in CommandRecords /\ Y \in CommandRecords /\ D.type = "dispatch" /\ Y.type = "retry"
  BY <1>1 DEF CommandRecords, Record
<1>4. m[c].status \in Terminal => T \in CommandRecords /\ T.type \in Terminal
  BY <1>1 DEF CommandRecords, Record
<1>5. /\ m[c].status \in Terminal => b = <<T>>
      /\ again => b = <<Y>>
      /\ m[c].status \notin Terminal /\ ~ again => b = <<>>
  BY <1>2
<1>6. Summary(m, c) = a \o b
  BY <1>2, Zenon DEF Summary
<1> DEFINE cond == n > 0
           over == m[c].status \in Terminal
<1>7. a \in Seq(CommandRecords) /\ \A r : r \in Range(a) <=> r = D /\ cond
  <2>1. a = IF cond THEN <<D>> ELSE <<>>
    OBVIOUS
  <2>2. Range(<<>>) = {} /\ Range(<<D>>) = {D}
    BY DEF Range
  <2>3. <<>> \in Seq(CommandRecords) /\ <<D>> \in Seq(CommandRecords)
    BY <1>3
  <2> HIDE DEF a, D, cond
  <2> QED BY <2>1, <2>2, <2>3, Zenon
<1>8. /\ b \in Seq(CommandRecords)
      /\ \A r : r \in Range(b) <=> (r = T /\ over) \/ (r = Y /\ again)
  <2>1. Range(<<>>) = {} /\ Range(<<T>>) = {T} /\ Range(<<Y>>) = {Y}
    BY DEF Range
  <2>2. /\ <<>> \in Seq(CommandRecords) /\ <<Y>> \in Seq(CommandRecords)
        /\ over => <<T>> \in Seq(CommandRecords)
    BY <1>3, <1>4
  <2>3. over => ~ again
    BY <1>2
  <2> HIDE DEF b, Y, T
  <2> QED BY <1>5, <2>1, <2>2, <2>3, Zenon
<1>9. \A x, y : ~ Follows(a, x, y) /\ ~ Follows(b, x, y)
  <2>1. Len(a) \in {0, 1}
    OBVIOUS
  <2>2. Len(b) \in {0, 1}
    <3> HIDE DEF b
    <3> QED BY <1>5
  <2> HIDE DEF a, b
  <2> QED BY <2>1, <2>2 DEF Follows
<1>10. /\ \A r \in Range(a) : r.type = "dispatch"
       /\ \A r \in Range(b) : r.type # "dispatch"
  <2>1. "dispatch" \notin Terminal
    BY DEF Terminal
  <2> HIDE DEF a, b
  <2> QED BY <1>3, <1>4, <1>7, <1>8, <2>1
<1> HIDE DEF a, b
<1>11. /\ a \o b \in Seq(CommandRecords)
       /\ Range(a \o b) = Range(a) \cup Range(b)
       /\ \A x, y : Follows(a \o b, x, y)
            <=> Follows(a, x, y) \/ Follows(b, x, y) \/ (x \in Range(a) /\ y \in Range(b))
  BY <1>7, <1>8, ConcatOrder
<1>12. \A r : r \in Range(a \o b) <=> (r = D /\ cond) \/ (r = T /\ over) \/ (r = Y /\ again)
  BY <1>7, <1>8, <1>11
<1>13. \A x, y : Follows(a \o b, x, y)
         <=> /\ x \in Range(a \o b) /\ y \in Range(a \o b)
             /\ x.type = "dispatch" /\ y.type # "dispatch"
  BY <1>9, <1>10, <1>11
<1> QED BY <1>6, <1>11, <1>12, <1>13

HandoffLine(h) == Record("handoff", h, 0, 0)

LinesOf(m, h) ==
  <<HandoffLine(h)>>
  \o Joined([i \in 1..Len(CommandsOf[h]) |-> Summary(m, CommandsOf[h][i])])

AllLines(o, m) == Joined([i \in 1..Len(o) |-> LinesOf(m, o[i])])

\* The records a handoff is rewritten to, and their order.
LEMMA LinesOfOrder ==
  ASSUME NEW m \in Memories, NEW h \in Handoffs
  PROVE  /\ LinesOf(m, h) \in Seq(HandoffRecords \cup CommandRecords)
         /\ \A r : r \in Range(LinesOf(m, h)) <=>
              r = HandoffLine(h) \/ \E c \in Holders(h) : r \in Range(Summary(m, c))
         /\ \A x, y : Follows(LinesOf(m, h), x, y) <=>
              \/ x = HandoffLine(h) /\ \E c \in Holders(h) : y \in Range(Summary(m, c))
              \/ \E d, c \in Holders(h) : /\ Follows(CommandsOf[h], d, c)
                                          /\ x \in Range(Summary(m, d))
                                          /\ y \in Range(Summary(m, c))
              \/ \E c \in Holders(h) : Follows(Summary(m, c), x, y)
<1> DEFINE w == CommandsOf[h]
           n == Len(w)
           U == HandoffRecords \cup CommandRecords
           parts == [i \in 1..n |-> Summary(m, w[i])]
           rest == Joined(parts)
           H == HandoffLine(h)
<1>1. w \in Seq(Commands) /\ n \in Nat /\ Holders(h) \subseteq Commands
  BY HoldersType
<1>2. \A c : c \in Holders(h) <=> \E i \in 1..n : w[i] = c
  BY <1>1, InSequence DEF Holders
<1>3. \A c \in Commands : Summary(m, c) \in Seq(U)
  <2> SUFFICES ASSUME NEW c \in Commands PROVE Summary(m, c) \in Seq(U)
    OBVIOUS
  <2>1. Summary(m, c) \in Seq(CommandRecords)
    BY SummaryLines
  <2> QED BY <2>1
<1>4. parts \in [1..n -> Seq(U)]
  BY <1>1, <1>3
<1>5. \A i \in 1..n : parts[i] = Summary(m, w[i]) /\ w[i] \in Holders(h)
  BY <1>2
<1>6. H \in U /\ <<H>> \in Seq(U)
  BY DEF HandoffLine, Record, HandoffRecords
<1>7. LinesOf(m, h) = <<H>> \o rest
  BY Zenon DEF LinesOf
<1> HIDE DEF U, parts, H
<1>8. /\ rest \in Seq(U)
      /\ \A x : x \in Range(rest) <=> \E i \in 1..n : x \in Range(parts[i])
      /\ \A x, y : Follows(rest, x, y)
           <=> \/ \E i, k \in 1..n : i < k /\ x \in Range(parts[i]) /\ y \in Range(parts[k])
               \/ \E i \in 1..n : Follows(parts[i], x, y)
  BY <1>1, <1>4, JoinedOrder
<1>9. \A x : x \in Range(rest) <=> \E c \in Holders(h) : x \in Range(Summary(m, c))
  <2>1. \A x : x \in Range(rest) <=> \E i \in 1..n : x \in Range(Summary(m, w[i]))
    BY <1>5, <1>8
  <2> QED BY <1>2, <2>1, Zenon
<1>10. \A x, y : Follows(rest, x, y)
         <=> \/ \E d, c \in Holders(h) : /\ Follows(w, d, c)
                                         /\ x \in Range(Summary(m, d))
                                         /\ y \in Range(Summary(m, c))
             \/ \E c \in Holders(h) : Follows(Summary(m, c), x, y)
  <2> SUFFICES ASSUME NEW x, NEW y
               PROVE  Follows(rest, x, y)
                 <=> \/ \E d, c \in Holders(h) : /\ Follows(w, d, c)
                                                 /\ x \in Range(Summary(m, d))
                                                 /\ y \in Range(Summary(m, c))
                     \/ \E c \in Holders(h) : Follows(Summary(m, c), x, y)
    OBVIOUS
  <2>1. (\E i \in 1..n : Follows(parts[i], x, y))
          <=> \E c \in Holders(h) : Follows(Summary(m, c), x, y)
    <3>1. (\E i \in 1..n : Follows(parts[i], x, y))
            <=> \E i \in 1..n : Follows(Summary(m, w[i]), x, y)
      BY <1>5, Zenon
    <3> QED BY <1>2, <3>1, Zenon
  <2>2. ASSUME NEW i \in 1..n, NEW k \in 1..n, i < k,
               x \in Range(parts[i]), y \in Range(parts[k])
        PROVE  \E d, c \in Holders(h) : /\ Follows(w, d, c)
                                        /\ x \in Range(Summary(m, d))
                                        /\ y \in Range(Summary(m, c))
    <3>1. Follows(w, w[i], w[k])
      BY <2>2, FollowsPlaces
    <3> QED BY <1>5, <2>2, <3>1, Zenon
  <2>3. ASSUME NEW d \in Holders(h), NEW c \in Holders(h), Follows(w, d, c),
               x \in Range(Summary(m, d)), y \in Range(Summary(m, c))
        PROVE  \E i, k \in 1..n : i < k /\ x \in Range(parts[i]) /\ y \in Range(parts[k])
    <3>1. PICK i, k \in 1..n : i < k /\ w[i] = d /\ w[k] = c
      BY <2>3, Zenon DEF Follows
    <3> QED BY <1>5, <2>3, <3>1, Zenon
  <2> QED BY <1>8, <2>1, <2>2, <2>3, Zenon
<1> HIDE DEF rest
<1>11. Range(<<H>>) = {H} /\ \A x, y : ~ Follows(<<H>>, x, y)
  BY DEF Range, Follows
<1>12. /\ <<H>> \o rest \in Seq(U)
       /\ Range(<<H>> \o rest) = Range(<<H>>) \cup Range(rest)
       /\ \A x, y : Follows(<<H>> \o rest, x, y)
            <=> \/ Follows(<<H>>, x, y) \/ Follows(rest, x, y)
                \/ (x \in Range(<<H>>) /\ y \in Range(rest))
  BY <1>6, <1>8, ConcatOrder
<1>13. \A r : r \in Range(<<H>> \o rest) <=>
              r = H \/ \E c \in Holders(h) : r \in Range(Summary(m, c))
  BY <1>9, <1>11, <1>12
<1>14. ASSUME NEW x, NEW y
       PROVE  Follows(<<H>> \o rest, x, y) <=>
              \/ x = H /\ \E c \in Holders(h) : y \in Range(Summary(m, c))
              \/ \E d, c \in Holders(h) : /\ Follows(w, d, c)
                                          /\ x \in Range(Summary(m, d))
                                          /\ y \in Range(Summary(m, c))
              \/ \E c \in Holders(h) : Follows(Summary(m, c), x, y)
  <2>1. Follows(<<H>> \o rest, x, y) <=> Follows(rest, x, y) \/ (x = H /\ y \in Range(rest))
    BY <1>11, <1>12
  <2> QED BY <1>9, <1>10, <2>1, Zenon
<1> QED BY <1>7, <1>12, <1>13, <1>14 DEF U, H

\* The records of the whole rewrite: every one once, a handoff
\* before its commands, the handoffs and the records of a command in order.
LEMMA AllLinesOrder ==
  ASSUME NEW m \in Memories, NEW o \in Seq(Handoffs), Distinct(o)
  PROVE  /\ AllLines(o, m) \in Seq(HandoffRecords \cup CommandRecords)
         /\ \A r : r \in Range(AllLines(o, m)) <=>
              \E h \in Range(o) :
                r = HandoffLine(h) \/ \E c \in Holders(h) : r \in Range(Summary(m, c))
         /\ \A g, h \in Handoffs :
              Follows(o, g, h) => Follows(AllLines(o, m), HandoffLine(g), HandoffLine(h))
         /\ \A h \in Range(o) : \A c \in Holders(h) : \A y \in Range(Summary(m, c)) :
              Follows(AllLines(o, m), HandoffLine(h), y)
         /\ \A h \in Range(o) : \A c \in Holders(h) : \A x, y :
              Follows(Summary(m, c), x, y) => Follows(AllLines(o, m), x, y)
         /\ Distinct(AllLines(o, m))
<1> DEFINE n == Len(o)
           U == HandoffRecords \cup CommandRecords
           parts == [i \in 1..n |-> LinesOf(m, o[i])]
           all == AllLines(o, m)
           In(r, h) == r = HandoffLine(h) \/ \E c \in Holders(h) : r \in Range(Summary(m, c))
<1>1. n \in Nat /\ (\A i \in 1..n : o[i] \in Handoffs) /\ Range(o) \subseteq Handoffs
  BY InSequence
<1>2. \A h \in Handoffs : \A r : r \in Range(LinesOf(m, h)) <=> In(r, h)
  BY LinesOfOrder
<1>3. parts \in [1..n -> Seq(U)]
  <2>1. \A h \in Handoffs : LinesOf(m, h) \in Seq(U)
    BY LinesOfOrder
  <2> QED BY <1>1, <2>1
<1>4. \A i \in 1..n : parts[i] = LinesOf(m, o[i])
  OBVIOUS
<1>5. all = Joined(parts)
  BY Zenon DEF AllLines
<1> HIDE DEF U, parts, all
<1>6. /\ all \in Seq(U)
      /\ \A x : x \in Range(all) <=> \E i \in 1..n : x \in Range(parts[i])
      /\ \A x, y : Follows(all, x, y)
           <=> \/ \E i, k \in 1..n : i < k /\ x \in Range(parts[i]) /\ y \in Range(parts[k])
               \/ \E i \in 1..n : Follows(parts[i], x, y)
  BY <1>1, <1>3, <1>5, JoinedOrder
<1>7. \A h : h \in Range(o) <=> \E i \in 1..n : o[i] = h
  BY InSequence
<1> DEFINE IsIn(r, h) == In(r, h)
<1>8. \A i \in 1..n : \A r : r \in Range(parts[i]) <=> IsIn(r, o[i])
  BY <1>1, <1>2, <1>4
<1> HIDE DEF IsIn, In
<1>9. \A r : r \in Range(all) <=> \E h \in Range(o) : IsIn(r, h)
  <2>1. \A r : r \in Range(all) <=> \E i \in 1..n : IsIn(r, o[i])
    BY <1>6, <1>8
  <2> QED BY <1>7, <2>1, Zenon
<1>10. ASSUME NEW g \in Handoffs, NEW h \in Handoffs, Follows(o, g, h),
              NEW x, NEW y, IsIn(x, g), IsIn(y, h)
       PROVE  Follows(all, x, y)
  <2>1. PICK i, k \in 1..n : i < k /\ o[i] = g /\ o[k] = h
    BY <1>10, Zenon DEF Follows
  <2>2. x \in Range(parts[i]) /\ y \in Range(parts[k])
    BY <1>8, <1>10, <2>1, Zenon
  <2> QED BY <1>6, <2>1, <2>2, Zenon
<1>11. ASSUME NEW h \in Range(o), NEW x, NEW y, Follows(LinesOf(m, h), x, y)
       PROVE  Follows(all, x, y)
  <2>1. PICK i \in 1..n : o[i] = h
    BY <1>7, Zenon
  <2>2. Follows(parts[i], x, y)
    BY <1>4, <1>11, <2>1, Zenon
  <2> QED BY <1>6, <2>2, Zenon
<1>12. \A g, h \in Handoffs :
         Follows(o, g, h) => Follows(all, HandoffLine(g), HandoffLine(h))
  <2>1. \A h \in Handoffs : IsIn(HandoffLine(h), h)
    BY DEF IsIn, In
  <2> QED BY <1>10, <2>1
<1>13. \A h \in Range(o) : \A c \in Holders(h) : \A y \in Range(Summary(m, c)) :
         Follows(all, HandoffLine(h), y)
  <2> SUFFICES ASSUME NEW h \in Range(o), NEW c \in Holders(h), NEW y \in Range(Summary(m, c))
               PROVE  Follows(all, HandoffLine(h), y)
    OBVIOUS
  <2>1. Follows(LinesOf(m, h), HandoffLine(h), y)
    BY <1>1, LinesOfOrder
  <2> QED BY <1>11, <2>1
<1>14. \A h \in Range(o) : \A c \in Holders(h) : \A x, y :
         Follows(Summary(m, c), x, y) => Follows(all, x, y)
  <2> SUFFICES ASSUME NEW h \in Range(o), NEW c \in Holders(h), NEW x, NEW y,
                      Follows(Summary(m, c), x, y)
               PROVE  Follows(all, x, y)
    OBVIOUS
  <2>1. h \in Handoffs
    BY <1>1
  <2>2. Follows(LinesOf(m, h), x, y)
    BY <2>1, LinesOfOrder
  <2> QED BY <1>11, <2>2
<1>15. \A c \in Commands : \A r \in Range(Summary(m, c)) : r.of = c /\ r.type # "handoff"
  <2> SUFFICES ASSUME NEW c \in Commands, NEW r \in Range(Summary(m, c))
               PROVE  r.of = c /\ r.type # "handoff"
    OBVIOUS
  <2> QED BY SummaryLines DEF Record, Terminal
<1>16. \A h : HandoffLine(h).of = h /\ HandoffLine(h).type = "handoff"
  BY DEF HandoffLine, Record
<1>17. \A x : ~ Follows(all, x, x)
  <2> SUFFICES ASSUME NEW x, Follows(all, x, x) PROVE FALSE
    OBVIOUS
  <2>1. CASE \E i, k \in 1..n : i < k /\ x \in Range(parts[i]) /\ x \in Range(parts[k])
    <3>1. PICK i, k \in 1..n : i < k /\ x \in Range(parts[i]) /\ x \in Range(parts[k])
      BY <2>1, Zenon
    <3>2. IsIn(x, o[i]) /\ IsIn(x, o[k]) /\ o[i] \in Handoffs /\ o[k] \in Handoffs
      BY <1>1, <1>8, <3>1, Zenon
    <3>3. o[i] = o[k]
      <4>1. CASE x.type = "handoff"
        BY <1>15, <1>16, <3>2, <4>1, HoldersType DEF IsIn, In
      <4>2. CASE x.type # "handoff"
        <5>1. x.of \in Holders(o[i]) \cap Holders(o[k])
          BY <1>15, <1>16, <3>2, <4>2, HoldersType DEF IsIn, In
        <5> QED BY <3>2, <5>1, OneHolder
      <4> QED BY <4>1, <4>2
    <3>4. i = k
      BY <3>3, Zenon DEF Distinct
    <3> QED BY <3>1, <3>4
  <2>2. CASE \E i \in 1..n : Follows(parts[i], x, x)
    <3>1. PICK i \in 1..n : Follows(parts[i], x, x)
      BY <2>2
    <3> DEFINE h == o[i]
    <3>2. h \in Handoffs /\ Follows(LinesOf(m, h), x, x)
      BY <1>1, <1>4, <3>1
    <3> HIDE DEF h
    <3>3. \/ x = HandoffLine(h) /\ \E c \in Holders(h) : x \in Range(Summary(m, c))
          \/ \E d, c \in Holders(h) : /\ Follows(CommandsOf[h], d, c)
                                      /\ x \in Range(Summary(m, d))
                                      /\ x \in Range(Summary(m, c))
          \/ \E c \in Holders(h) : Follows(Summary(m, c), x, x)
      BY <3>2, LinesOfOrder
    <3>4. Holders(h) \subseteq Commands /\ CommandsOf[h] \in Seq(Commands) /\ Distinct(CommandsOf[h])
      BY <3>2, HoldersType
    <3>5. ~ (x = HandoffLine(h) /\ \E c \in Holders(h) : x \in Range(Summary(m, c)))
      BY <1>15, <1>16, <3>4
    <3>6. \A d, c \in Holders(h) :
            x \in Range(Summary(m, d)) /\ x \in Range(Summary(m, c)) => d = c
      BY <1>15, <3>4
    <3>7. \A c : ~ Follows(CommandsOf[h], c, c)
      BY <3>4, DistinctOrder
    <3>8. \A c \in Holders(h) : ~ Follows(Summary(m, c), x, x)
      BY <3>4, SummaryLines
    <3> QED BY <3>3, <3>5, <3>6, <3>7, <3>8
  <2> QED BY <1>6, <2>1, <2>2
<1>18. Distinct(all)
  BY <1>6, <1>17, DistinctOrder
<1> QED BY <1>6, <1>9, <1>12, <1>13, <1>14, <1>18 DEF U, all, IsIn, In

\* The rewrite is these records, numbered.
LEMMA RewrittenLines ==
  ASSUME NEW s \in States, Distinct(s.order)
  PROVE  /\ Rewritten(s) \in Journals
         /\ Len(Rewritten(s)) = Len(AllLines(s.order, s.mem))
         /\ \A i \in 1..Len(Rewritten(s)) :
              /\ Rewritten(s)[i].type = AllLines(s.order, s.mem)[i].type
              /\ Rewritten(s)[i].of = AllLines(s.order, s.mem)[i].of
              /\ Rewritten(s)[i].attempt = AllLines(s.order, s.mem)[i].attempt
<1> DEFINE all == AllLines(s.order, s.mem)
           n == Len(all)
           U == HandoffRecords \cup CommandRecords
<1>1. s.order \in Seq(Handoffs) /\ s.mem \in Memories
  BY DEF States
<1>2. all \in Seq(U)
  BY <1>1, AllLinesOrder
<1>3. Rewritten(s) = [i \in 1..n |-> [all[i] EXCEPT !.seq = i]]
  BY Zenon DEF Rewritten, AllLines, LinesOf, HandoffLine
<1> HIDE DEF all
<1>4. n \in Nat /\ \A i \in 1..n : all[i] \in U
  BY <1>2
<1>5. ASSUME NEW i \in 1..n
      PROVE  /\ [all[i] EXCEPT !.seq = i] \in U
             /\ [all[i] EXCEPT !.seq = i].type = all[i].type
             /\ [all[i] EXCEPT !.seq = i].of = all[i].of
             /\ [all[i] EXCEPT !.seq = i].attempt = all[i].attempt
  <2>1. i \in Nat /\ all[i] \in U
    BY <1>4
  <2>2. CASE all[i] \in HandoffRecords
    BY <2>1, <2>2 DEF HandoffRecords
  <2>3. CASE all[i] \in CommandRecords
    BY <2>1, <2>3 DEF CommandRecords
  <2> QED BY <2>1, <2>2, <2>3
<1>6. ASSUME NEW i \in 1..n
      PROVE  Rewritten(s)[i] = [all[i] EXCEPT !.seq = i]
  BY <1>3, Zenon
<1> DEFINE line(i) == [all[i] EXCEPT !.seq = i]
<1>7. \A i \in 1..n : line(i) \in U
  BY <1>5
<1>8. Rewritten(s) = [i \in 1..n |-> line(i)]
  BY <1>3
<1> HIDE DEF line, U
<1>9. Rewritten(s) \in Seq(U) /\ Len(Rewritten(s)) = n
  BY <1>4, <1>7, <1>8
<1>10. \A i \in 1..n : /\ Rewritten(s)[i].type = all[i].type
                       /\ Rewritten(s)[i].of = all[i].of
                       /\ Rewritten(s)[i].attempt = all[i].attempt
  BY <1>5, <1>6
<1> QED BY <1>9, <1>10 DEF all, U, Journals

\* What a rewritten journal says of handoffs and outcomes is what the memory does.
LEMMA RewrittenHandoffs ==
  ASSUME NEW s \in States, Distinct(s.order)
  PROVE  /\ HandedIn(Rewritten(s)) = Range(s.order)
         /\ HandoffsIn(Rewritten(s)) = s.order
         /\ \A c \in Commands : Trail(Rewritten(s), c) \cap Terminal # {}
                                  => s.mem[c].status \in Terminal
<1> DEFINE all == AllLines(s.order, s.mem)
           R == Rewritten(s)
           n == Len(R)
<1>1. s.order \in Seq(Handoffs) /\ s.mem \in Memories /\ Range(s.order) \subseteq Handoffs
  BY InSequence DEF States
<1>2. /\ all \in Seq(HandoffRecords \cup CommandRecords)
      /\ \A r : r \in Range(all) <=>
           \E h \in Range(s.order) :
             r = HandoffLine(h) \/ \E c \in Holders(h) : r \in Range(Summary(s.mem, c))
      /\ \A g, h \in Handoffs :
           Follows(s.order, g, h) => Follows(all, HandoffLine(g), HandoffLine(h))
      /\ Distinct(all)
  BY <1>1, AllLinesOrder
<1>3. /\ R \in Journals /\ n = Len(all)
      /\ \A i \in 1..n : /\ R[i].type = all[i].type /\ R[i].of = all[i].of
                         /\ R[i].attempt = all[i].attempt
  BY RewrittenLines
<1> HIDE DEF all, R
<1>4. \A c \in Commands : \A r \in Range(Summary(s.mem, c)) :
        r.of = c /\ r.type # "handoff" /\ (r.type \in Terminal => r.type = s.mem[c].status)
  <2> SUFFICES ASSUME NEW c \in Commands, NEW r \in Range(Summary(s.mem, c))
               PROVE  /\ r.of = c /\ r.type # "handoff"
                      /\ r.type \in Terminal => r.type = s.mem[c].status
    OBVIOUS
  <2> QED BY <1>1, SummaryLines DEF Record, Terminal
<1>5. \A h : HandoffLine(h).of = h /\ HandoffLine(h).type = "handoff"
  BY DEF HandoffLine, Record
<1>6. \A i \in 1..n : R[i].type = "handoff" => R[i].of \in Range(s.order) /\ all[i] = HandoffLine(R[i].of)
  <2> SUFFICES ASSUME NEW i \in 1..n, R[i].type = "handoff"
               PROVE  R[i].of \in Range(s.order) /\ all[i] = HandoffLine(R[i].of)
    OBVIOUS
  <2>1. all[i] \in Range(all) /\ all[i].type = "handoff" /\ all[i].of = R[i].of
    BY <1>2, <1>3, InSequence
  <2>2. PICK h \in Range(s.order) :
          all[i] = HandoffLine(h) \/ \E c \in Holders(h) : all[i] \in Range(Summary(s.mem, c))
    BY <1>2, <2>1
  <2>3. Holders(h) \subseteq Commands
    BY <1>1, HoldersType
  <2>4. all[i] = HandoffLine(h)
    BY <1>4, <2>1, <2>2, <2>3
  <2> QED BY <1>5, <2>1, <2>4
<1>7. \A h \in Range(s.order) : \E i \in 1..n : R[i].type = "handoff" /\ R[i].of = h
  <2> SUFFICES ASSUME NEW h \in Range(s.order)
               PROVE  \E i \in 1..n : R[i].type = "handoff" /\ R[i].of = h
    OBVIOUS
  <2>1. HandoffLine(h) \in Range(all)
    BY <1>2
  <2>2. PICK i \in 1..n : all[i] = HandoffLine(h)
    BY <1>2, <1>3, <2>1, InSequence
  <2> QED BY <1>3, <1>5, <2>2
<1>8. HandedIn(R) = Range(s.order)
  BY <1>6, <1>7 DEF HandedIn
<1>9. /\ HandoffsIn(R) \in Seq(Handoffs)
      /\ Range(HandoffsIn(R)) = HandedIn(R)
      /\ \A x, y : Follows(HandoffsIn(R), x, y)
           <=> \E i, k \in 1..n : /\ i < k
                                  /\ R[i].type = "handoff" /\ R[i].of = x
                                  /\ R[k].type = "handoff" /\ R[k].of = y
  BY <1>3, HandoffsOrder
<1>10. ASSUME NEW g, NEW h, Follows(s.order, g, h)
       PROVE  Follows(HandoffsIn(R), g, h)
  <2>1. g \in Handoffs /\ h \in Handoffs
    BY <1>1, <1>10, FollowsBoth
  <2>2. Follows(all, HandoffLine(g), HandoffLine(h))
    BY <1>2, <1>10, <2>1
  <2>3. PICK i, k \in 1..n : i < k /\ all[i] = HandoffLine(g) /\ all[k] = HandoffLine(h)
    BY <1>3, <2>2, Zenon DEF Follows
  <2>4. /\ R[i].type = "handoff" /\ R[i].of = g
        /\ R[k].type = "handoff" /\ R[k].of = h
    BY <1>3, <1>5, <2>3
  <2> QED BY <1>9, <2>3, <2>4, Zenon
<1>11. Distinct(HandoffsIn(R))
  <2> SUFFICES ASSUME NEW x, Follows(HandoffsIn(R), x, x) PROVE FALSE
    BY <1>9, DistinctOrder
  <2>1. PICK i, k \in 1..n : /\ i < k
                             /\ R[i].type = "handoff" /\ R[i].of = x
                             /\ R[k].type = "handoff" /\ R[k].of = x
    BY <1>9, Zenon
  <2>2. all[i] = all[k]
    BY <1>6, <2>1
  <2>3. i = k
    BY <1>2, <1>3, <2>2 DEF Distinct
  <2> QED BY <1>3, <2>1, <2>3
<1>12. s.order = HandoffsIn(R)
  <2>1. \A x, y : Follows(s.order, x, y) => Follows(HandoffsIn(R), x, y)
    BY <1>10
  <2> QED BY <1>1, <1>8, <1>9, <1>11, <2>1, SameLine
<1>13. ASSUME NEW c \in Commands, Trail(R, c) \cap Terminal # {}
       PROVE  s.mem[c].status \in Terminal
  <2>1. PICK t \in Trail(R, c) : t \in Terminal
    BY <1>13
  <2>2. t # "handoff"
    BY <2>1 DEF Terminal
  <2>3. PICK k \in 1..n : R[k].of = c /\ R[k].type = t
    BY <2>1, <2>2 DEF Trail
  <2>4. all[k] \in Range(all) /\ all[k].type = t /\ all[k].of = c
    BY <1>2, <1>3, <2>3, InSequence
  <2>5. PICK h \in Range(s.order) :
          all[k] = HandoffLine(h) \/ \E d \in Holders(h) : all[k] \in Range(Summary(s.mem, d))
    BY <1>2, <2>4
  <2>6. PICK d \in Holders(h) : all[k] \in Range(Summary(s.mem, d))
    BY <1>5, <2>2, <2>4, <2>5
  <2>7. d \in Commands
    BY <1>1, HoldersType
  <2> QED BY <1>4, <2>1, <2>4, <2>6, <2>7
<1> QED BY <1>8, <1>12, <1>13 DEF R

\* A rewritten journal that can be read says of every command what the memory does.
LEMMA RewrittenMatches ==
  ASSUME NEW s \in States, Distinct(s.order), NEW hd, NEW st,
         MemoryTrue(s.order, s.mem, hd, st), Tried(s.mem), Readable(Rewritten(s))
  PROVE  Matches(Rewritten(s), s.order, s.mem)
<1> DEFINE all == AllLines(s.order, s.mem)
           R == Rewritten(s)
           n == Len(R)
           m == s.mem
<1>1. s.order \in Seq(Handoffs) /\ m \in Memories /\ Range(s.order) \subseteq Handoffs
  BY InSequence DEF States
<1>2. /\ all \in Seq(HandoffRecords \cup CommandRecords)
      /\ \A r : r \in Range(all) <=>
           \E h \in Range(s.order) :
             r = HandoffLine(h) \/ \E c \in Holders(h) : r \in Range(Summary(m, c))
      /\ \A h \in Range(s.order) : \A c \in Holders(h) : \A y \in Range(Summary(m, c)) :
           Follows(all, HandoffLine(h), y)
      /\ \A h \in Range(s.order) : \A c \in Holders(h) : \A x, y :
           Follows(Summary(m, c), x, y) => Follows(all, x, y)
      /\ Distinct(all)
  BY <1>1, AllLinesOrder
<1>3. /\ R \in Journals /\ n = Len(all) /\ n \in Nat
      /\ \A i \in 1..n : /\ R[i].type = all[i].type /\ R[i].of = all[i].of
                         /\ R[i].attempt = all[i].attempt
  BY RewrittenLines DEF Journals
<1>4. HandoffsIn(R) = s.order
  BY RewrittenHandoffs
<1>5. Readable(R)
  OBVIOUS
<1> HIDE DEF all, R
<1> SUFFICES ASSUME NEW c \in Commands PROVE Same(Recalled(R, c), m[c])
  BY <1>4, Zenon DEF Matches, R
<1> DEFINE X == {r \in Range(all) : r.of = c \/ (r.type = "handoff" /\ c \in Holders(r.of))}
           L == Lines(R, c, n + 1)
<1>6. L = {i \in 1..n : all[i] \in X}
  <2>1. L = {i \in 1..n : R[i].of = c \/ (R[i].type = "handoff" /\ c \in Holders(R[i].of))}
    BY <1>3 DEF Lines
  <2>2. \A i \in 1..n : all[i] \in Range(all)
    BY <1>2, <1>3, InSequence
  <2> QED BY <1>3, <2>1, <2>2
<1>7. /\ m[c].status = "unknown" <=> \A h \in Range(s.order) : c \notin Holders(h)
      /\ m[c].status = "unknown" => m[c] = Unknown
  BY DEF MemoryTrue
<1>8. m[c].failed => m[c].attempts >= 1 /\ (m[c].status \in Terminal => m[c].attempts >= 2)
  BY DEF Tried
<1>9. /\ m[c].attempts \in Nat /\ m[c].status \in {"unknown", "pending"} \cup Terminal
      /\ m[c].failed \in BOOLEAN
  BY <1>1 DEF Memories
<1>10. \A d \in Commands : \A r \in Range(Summary(m, d)) : r.of = d /\ r.type # "handoff"
  <2> SUFFICES ASSUME NEW d \in Commands, NEW r \in Range(Summary(m, d))
               PROVE  r.of = d /\ r.type # "handoff"
    OBVIOUS
  <2> QED BY <1>1, SummaryLines DEF Record, Terminal
<1>11. \A h : /\ HandoffLine(h).of = h /\ HandoffLine(h).type = "handoff"
              /\ HandoffLine(h).attempt = 0
  BY DEF HandoffLine, Record
<1>12. Handoffs \cap Commands = {}
  BY OutboxAssumption
<1>13. CASE m[c].status = "unknown"
  <2>1. L = {}
    <3> SUFFICES ASSUME NEW r \in X PROVE FALSE
      BY <1>6
    <3>1. PICK h \in Range(s.order) :
            r = HandoffLine(h) \/ \E d \in Holders(h) : r \in Range(Summary(m, d))
      BY <1>2
    <3>2. c \in Holders(h)
      BY <1>1, <1>10, <1>11, <1>12, <3>1, HoldersType
    <3> QED BY <1>7, <1>13, <3>2
  <2>2. Recalled(R, c) = Unknown
    BY <2>1, Zenon DEF Recalled
  <2> QED BY <1>7, <1>13, <2>2 DEF Same
<1>14. CASE m[c].status # "unknown"
  <2>1. PICK h \in Range(s.order) : c \in Holders(h)
    BY <1>7, <1>14
  <2> DEFINE S == Summary(m, c)
             H == HandoffLine(h)
  <2>2. h \in Handoffs
    BY <1>1
  <2>3. \A r : r \in X <=> r = H \/ r \in Range(S)
    <3> SUFFICES ASSUME NEW r PROVE r \in X <=> r = H \/ r \in Range(S)
      OBVIOUS
    <3>1. ASSUME r \in X PROVE r = H \/ r \in Range(S)
      <4>1. PICK g \in Range(s.order) :
              r = HandoffLine(g) \/ \E d \in Holders(g) : r \in Range(Summary(m, d))
        BY <1>2, <3>1
      <4>2. CASE r = HandoffLine(g)
        <5>1. c \in Holders(g)
          BY <1>1, <1>11, <1>12, <3>1, <4>2
        <5>2. g = h
          BY <1>1, <2>1, <2>2, <5>1, OneHolder
        <5> QED BY <4>2, <5>2
      <4>3. CASE \E d \in Holders(g) : r \in Range(Summary(m, d))
        <5>1. PICK d \in Holders(g) : r \in Range(Summary(m, d))
          BY <4>3
        <5>2. d = c
          BY <1>1, <1>10, <3>1, <5>1, HoldersType
        <5> QED BY <5>1, <5>2
      <4> QED BY <4>1, <4>2, <4>3
    <3>2. ASSUME r = H PROVE r \in X
      BY <1>2, <1>11, <2>1, <3>2
    <3>3. ASSUME r \in Range(S) PROVE r \in X
      BY <1>2, <1>10, <2>1, <3>3
    <3> QED BY <3>1, <3>2, <3>3
  <2>4. \A r : r \in Range(S) <=>
          \/ r = Record("dispatch", c, m[c].attempts, 0) /\ m[c].attempts > 0
          \/ r = Record(m[c].status, c, m[c].attempts, 0) /\ m[c].status \in Terminal
          \/ /\ r = Record("retry", c, m[c].attempts, 0)
             /\ m[c].status = "pending" /\ m[c].attempts > 0 /\ m[c].failed
    BY <1>1, SummaryLines
  <2>5. \A x, y : x \in Range(S) /\ y \in Range(S) /\ x.type = "dispatch" /\ y.type # "dispatch"
                    => Follows(all, x, y)
    <3>1. \A x, y : x \in Range(S) /\ y \in Range(S) /\ x.type = "dispatch" /\ y.type # "dispatch"
                      => Follows(S, x, y)
      BY <1>1, SummaryLines
    <3> HIDE DEF S
    <3>2. \A x, y : Follows(S, x, y) => Follows(all, x, y)
      BY <1>2, <2>1 DEF S
    <3> QED BY <3>1, <3>2
  <2>6. \A y \in Range(S) : Follows(all, H, y) /\ H # y
    BY <1>2, <1>10, <1>11, <2>1
  <2>7. L \in SUBSET (1..n) /\ X \subseteq Range(all) /\ H \in X
    BY <1>6, <2>3
  <2>8. \A z : z \in X /\ (\A x \in X : x = z \/ Follows(all, x, z))
                 => Latest(L) \in L /\ all[Latest(L)] = z
    <3> HIDE DEF X, L
    <3> SUFFICES ASSUME NEW z \in X, \A x \in X : x = z \/ Follows(all, x, z)
                 PROVE  Latest(L) \in L /\ all[Latest(L)] = z
      OBVIOUS
    <3>1. z \in Range(all) /\ \A x \in X \cap Range(all) : x = z \/ Follows(all, x, z)
      BY <2>7
    <3>2. LET K == {i \in 1..Len(all) : all[i] \in X}
          IN  Latest(K) \in K /\ all[Latest(K)] = z
      BY <1>2, <3>1, LatestIs
    <3>3. L = {i \in 1..Len(all) : all[i] \in X}
      BY <1>3, <1>6
    <3> QED BY <3>2, <3>3, Zenon
  <2>9. L # {}
    <3>1. PICK i \in 1..Len(all) : all[i] = H
      BY <1>2, <2>7, InSequence
    <3> QED BY <1>3, <1>6, <2>7, <3>1
  <2> DEFINE last == R[Latest(L)]
  <2>10. Recalled(R, c) =
           [status   |-> IF last.type \in Terminal THEN last.type ELSE "pending",
            attempts |-> last.attempt,
            due      |-> last.type # "retry",
            failed   |-> \E i \in L : R[i].type = "retry"]
    BY <2>9, Zenon DEF Recalled
  <2>11. (\E i \in L : R[i].type = "retry") <=> \E x \in X : x.type = "retry"
    <3>1. (\E i \in L : R[i].type = "retry") <=> \E i \in L : all[i].type = "retry"
      BY <1>3, <2>7
    <3>2. \A x \in X : \E i \in L : all[i] = x
      BY <1>2, <1>3, <1>6, <2>7, InSequence
    <3> QED BY <1>6, <3>1, <3>2
  <2>12. (\E x \in X : x.type = "retry")
           <=> m[c].status = "pending" /\ m[c].attempts > 0 /\ m[c].failed
    <3>1. /\ Record("retry", c, m[c].attempts, 0).type = "retry"
          /\ Record("dispatch", c, m[c].attempts, 0).type = "dispatch"
          /\ Record(m[c].status, c, m[c].attempts, 0).type = m[c].status
      BY DEF Record
    <3> HIDE DEF X, S, H
    <3> QED BY <1>11, <2>3, <2>4, <3>1 DEF Terminal, H
  <2>17. Recalled(R, c).failed \in BOOLEAN
    <3> HIDE DEF L
    <3> QED BY <2>10
  <2> HIDE DEF L, X, S, H
  <2>13. ASSUME NEW z \in X, \A x \in X : x = z \/ Follows(all, x, z)
         PROVE  /\ Recalled(R, c).status = IF z.type \in Terminal THEN z.type ELSE "pending"
                /\ Recalled(R, c).attempts = z.attempt
                /\ Recalled(R, c).failed <=>
                     m[c].status = "pending" /\ m[c].attempts > 0 /\ m[c].failed
    <3>1. Latest(L) \in 1..n /\ all[Latest(L)] = z
      BY <2>7, <2>8, <2>13
    <3>2. last.type = z.type /\ last.attempt = z.attempt
      BY <1>3, <3>1
    <3> HIDE DEF last
    <3> QED BY <2>10, <2>11, <2>12, <3>2
  <2>14. CASE m[c].attempts = 0 /\ m[c].status \notin Terminal
    <3>1. Range(S) = {}
      BY <2>4, <2>14
    <3>2. \A x \in X : x = H
      BY <2>3, <3>1
    <3>3. /\ Recalled(R, c).status = IF H.type \in Terminal THEN H.type ELSE "pending"
          /\ Recalled(R, c).attempts = H.attempt
          /\ Recalled(R, c).failed <=>
               m[c].status = "pending" /\ m[c].attempts > 0 /\ m[c].failed
      BY <2>7, <2>13, <3>2
    <3>4. H.type \notin Terminal /\ H.attempt = 0
      BY <1>11 DEF H, Terminal
    <3>5. /\ Recalled(R, c).status = m[c].status /\ Recalled(R, c).attempts = m[c].attempts
          /\ ~ Recalled(R, c).failed /\ ~ m[c].failed
      BY <1>8, <1>9, <1>14, <2>14, <3>3, <3>4
    <3> QED BY <1>9, <2>17, <3>5 DEF Same
  <2>15. CASE m[c].status \in Terminal
    <3> DEFINE z == Record(m[c].status, c, m[c].attempts, 0)
               d == Record("dispatch", c, m[c].attempts, 0)
    <3>1. /\ z.type = m[c].status /\ z.attempt = m[c].attempts
          /\ d.type = "dispatch" /\ d.attempt = m[c].attempts
      BY DEF Record
    <3>2. m[c].status # "pending" /\ m[c].status # "dispatch"
      BY <2>15 DEF Terminal
    <3>3. z \in Range(S) /\ z \in X
      BY <2>3, <2>4, <2>15
    <3>4. \A x \in Range(S) : x = z \/ x = d
      BY <2>4, <3>2
    <3> HIDE DEF z, d
    <3>5. \A x \in X : x = z \/ Follows(all, x, z)
      BY <2>3, <2>5, <2>6, <3>1, <3>2, <3>3, <3>4
    <3>6. /\ Recalled(R, c).status = z.type /\ Recalled(R, c).attempts = z.attempt
          /\ Recalled(R, c).failed <=> FALSE
      BY <2>13, <2>15, <3>1, <3>2, <3>3, <3>5
    <3>7. m[c].attempts <= 1
      <4> SUFFICES ASSUME m[c].attempts > 0 PROVE m[c].attempts = 1
        BY <1>9
      <4>1. d \in Range(S) /\ d \in X
        BY <2>3, <2>4 DEF d
      <4>2. PICK k \in 1..n : all[k] = d
        BY <1>2, <1>3, <2>7, <4>1, InSequence
      <4>3. /\ R[k].type = "dispatch" /\ R[k].of = c /\ R[k].attempt = m[c].attempts
        BY <1>3, <3>1, <4>2 DEF d, Record
      <4> DEFINE E == Lines(R, c, k)
      <4>4. E # {} /\ R[k].attempt = R[Latest(E)].attempt + 1
        <5>1. LET lines == Lines(R, R[k].of, k) IN
                /\ lines # {}
                /\ R[k].attempt = R[Latest(lines)].attempt
                                  + (IF R[k].type = "dispatch" THEN 1 ELSE 0)
          BY <1>5, <4>3 DEF Readable
        <5> QED BY <4>3, <5>1
      <4>5. E = {i \in 1..(k - 1) : all[i] \in X}
        <5>1. E = {i \in 1..(k - 1) : i \in L}
          BY DEF E, L, Lines
        <5> QED BY <1>6, <5>1
      <4>6. E \in SUBSET (1..n) /\ \A i \in E : i < k
        BY <1>3, <4>5
      <4> HIDE DEF E
      <4>7. Latest(E) \in E
        BY <1>3, <4>4, <4>6, LatestIn
      <4> DEFINE e == Latest(E)
      <4>8. e \in 1..n /\ e < k /\ all[e] \in X
        BY <1>3, <4>5, <4>6, <4>7
      <4> HIDE DEF e
      <4>9. all[e] = H
        <5> SUFFICES ASSUME all[e] # H PROVE FALSE
          OBVIOUS
        <5>1. all[e] = d \/ all[e] = z
          BY <2>3, <3>4, <4>8
        <5>2. ASSUME all[e] = d PROVE FALSE
          <6>1. e = k
            BY <1>2, <1>3, <4>2, <4>8, <5>2 DEF Distinct
          <6> QED BY <1>3, <4>8, <6>1
        <5>3. ASSUME all[e] = z PROVE FALSE
          <6>1. Follows(all, d, z)
            BY <2>5, <3>1, <3>2, <3>3, <4>1
          <6>2. PICK p, q \in 1..n : p < q /\ all[p] = d /\ all[q] = z
            BY <1>3, <6>1, Zenon DEF Follows
          <6>3. p = k /\ q = e
            BY <1>2, <1>3, <4>2, <4>8, <5>3, <6>2 DEF Distinct
          <6> QED BY <1>3, <4>8, <6>2, <6>3
        <5> QED BY <5>1, <5>2, <5>3
      <4>10. R[e].attempt = 0
        BY <1>3, <1>11, <4>8, <4>9 DEF H
      <4> QED BY <1>9, <4>3, <4>4, <4>10 DEF e
    <3>8. ~ m[c].failed
      BY <1>8, <1>9, <2>15, <3>7
    <3>9. /\ Recalled(R, c).status = m[c].status /\ Recalled(R, c).attempts = m[c].attempts
          /\ ~ Recalled(R, c).failed
      BY <3>1, <3>6
    <3> QED BY <1>9, <2>17, <3>8, <3>9 DEF Same
  <2>16. CASE m[c].attempts # 0 /\ m[c].status \notin Terminal
    <3> DEFINE y == Record("retry", c, m[c].attempts, 0)
               d == Record("dispatch", c, m[c].attempts, 0)
    <3>1. /\ y.type = "retry" /\ y.attempt = m[c].attempts
          /\ d.type = "dispatch" /\ d.attempt = m[c].attempts
      BY DEF Record
    <3>2. m[c].attempts > 0 /\ m[c].status = "pending"
      BY <1>9, <1>14, <2>16
    <3>3. "retry" \notin Terminal /\ "dispatch" \notin Terminal
      BY DEF Terminal
    <3>4. \A x : x \in Range(S) <=> x = d \/ (x = y /\ m[c].failed)
      BY <2>4, <2>16, <3>2
    <3> HIDE DEF y, d
    <3>5. CASE m[c].failed
      <4>1. y \in X /\ \A x \in X : x = y \/ Follows(all, x, y)
        BY <2>3, <2>5, <2>6, <3>1, <3>4, <3>5
      <4>2. /\ Recalled(R, c).status = "pending" /\ Recalled(R, c).attempts = y.attempt
            /\ Recalled(R, c).failed <=>
                 m[c].status = "pending" /\ m[c].attempts > 0 /\ m[c].failed
        BY <2>13, <3>1, <3>3, <4>1
      <4> QED BY <2>10, <3>1, <3>2, <3>5, <4>2 DEF Same
    <3>6. CASE ~ m[c].failed
      <4>1. d \in X /\ \A x \in X : x = d \/ Follows(all, x, d)
        BY <2>3, <2>6, <3>4, <3>6
      <4>2. /\ Recalled(R, c).status = "pending" /\ Recalled(R, c).attempts = d.attempt
            /\ Recalled(R, c).failed <=>
                 m[c].status = "pending" /\ m[c].attempts > 0 /\ m[c].failed
        BY <2>13, <3>1, <3>3, <4>1
      <4>3. /\ Recalled(R, c).status = m[c].status /\ Recalled(R, c).attempts = m[c].attempts
            /\ ~ Recalled(R, c).failed
        BY <3>1, <3>2, <3>6, <4>2
      <4> QED BY <1>9, <2>17, <3>6, <4>3 DEF Same
    <3> QED BY <1>9, <3>5, <3>6
  <2> QED BY <2>14, <2>15, <2>16
<1> QED BY <1>13, <1>14

\* A memory and its rewrite are sound together, whether or not the
\* numbering has followed; and the rewrite says what the memory holds.
LEMMA RewriteSound ==
  ASSUME NEW p, NEW hd \in Seq(Handoffs), Distinct(hd), NEW ac \in SUBSET Handoffs,
         NEW st, NEW jb, Sound(p, hd, ac, st, jb)
  PROVE  /\ Sound([p EXCEPT !.journal = Rewritten(p)], hd, ac, st, jb)
         /\ LET t == [p EXCEPT !.journal = Rewritten(p), !.seq = Len(Rewritten(p)) + 1] IN
            /\ Sound(t, hd, ac, st, jb)
            /\ Tried(p.mem) /\ TriedAgain(p.mem, jb) => Steady(t, jb)
<1> DEFINE R == Rewritten(p)
           q == [p EXCEPT !.journal = R]
           t == [p EXCEPT !.journal = R, !.seq = Len(R) + 1]
<1>1. p \in States /\ MemoryTrue(p.order, p.mem, hd, st) /\ HeldIn(Range(p.order), ac, st)
      /\ RunsFirst(p.order, p.mem, jb)
  BY DEF Sound
<1>2. p.order \in Seq(Handoffs) /\ Distinct(p.order)
  <2>1. p.order \in Seq(Handoffs) /\ OrderedIn(p.order, hd)
    BY <1>1 DEF States, MemoryTrue
  <2> QED BY <2>1, OrderedIsDistinct
<1>3. /\ HandedIn(R) = Range(p.order) /\ HandoffsIn(R) = p.order
      /\ \A c \in Commands : Trail(R, c) \cap Terminal # {} => p.mem[c].status \in Terminal
  BY <1>1, <1>2, RewrittenHandoffs
<1>4. R \in Journals /\ Len(R) \in Nat
  BY <1>1, <1>2, RewrittenLines DEF Journals
<1>5. Tried(p.mem) /\ Readable(R) => Matches(R, p.order, p.mem)
  BY <1>1, <1>2, RewrittenMatches
<1> HIDE DEF R
<1>6. FileTrue(R, hd, ac, st)
  <2>1. HeldIn(HandedIn(R), ac, st)
    BY <1>1, <1>3
  <2>2. \A c \in Commands : Trail(R, c) \cap Terminal # {} => c \in st
    BY <1>1, <1>3 DEF MemoryTrue
  <2>3. OrderedIn(HandoffsIn(R), hd)
    BY <1>1, <1>3 DEF MemoryTrue
  <2> QED BY <2>1, <2>2, <2>3 DEF FileTrue
<1>7. /\ q \in States /\ q.journal = R /\ q.mem = p.mem /\ q.order = p.order
      /\ t \in States /\ t.journal = R /\ t.mem = p.mem /\ t.order = p.order
      /\ t.seq = Len(R) + 1
  <2>1. /\ p.journal \in Journals /\ p.seq \in Nat /\ p.mem \in Memories
        /\ p.order \in Seq(Handoffs)
        /\ p = [journal |-> p.journal, seq |-> p.seq, mem |-> p.mem, order |-> p.order]
    BY <1>1 DEF States
  <2>2. /\ q = [journal |-> R, seq |-> p.seq, mem |-> p.mem, order |-> p.order]
        /\ t = [journal |-> R, seq |-> Len(R) + 1, mem |-> p.mem, order |-> p.order]
    <3>1. q = [journal |-> R, seq |-> p.seq, mem |-> p.mem, order |-> p.order]
      BY <1>1 DEF States
    <3>2. t = [journal |-> R, seq |-> Len(R) + 1, mem |-> p.mem, order |-> p.order]
      BY <1>1, StateParts
    <3> QED BY <3>1, <3>2
  <2> HIDE DEF q, t
  <2> QED BY <1>4, <2>1, <2>2 DEF States
<1> HIDE DEF q, t
<1>8. Sound(q, hd, ac, st, jb)
  BY <1>1, <1>3, <1>6, <1>7 DEF Sound
<1>9. Sound(t, hd, ac, st, jb)
  BY <1>1, <1>3, <1>6, <1>7 DEF Sound
<1>10. Tried(p.mem) /\ TriedAgain(p.mem, jb) => Steady(t, jb)
  BY <1>5, <1>7 DEF Steady
<1> QED BY <1>8, <1>9, <1>10 DEF R, q, t

\* The same of a rewrite that forgets first, and of one that fails.
LEMMA CompactedSound ==
  ASSUME NEW s, NEW hd \in Seq(Handoffs), Distinct(hd), NEW ac \in SUBSET Handoffs,
         NEW st, NEW jb, Sound(s, hd, ac, st, jb)
  PROVE  /\ \A t \in Miscompacted(s) : /\ Sound(t, hd, ac, st, jb)
                                       /\ Range(t.order) \subseteq Range(s.order)
         /\ Sound(Compacted(s), hd, ac, st, jb)
         /\ Range(Compacted(s).order) \subseteq Range(s.order)
         /\ Steady(s, jb) => Steady(Compacted(s), jb)
<1> DEFINE p == Pruned(s)
           q == [p EXCEPT !.journal = Rewritten(p)]
           t == [p EXCEPT !.journal = Rewritten(p), !.seq = Len(Rewritten(p)) + 1]
<1>1. /\ Sound(p, hd, ac, st, jb) /\ Range(p.order) \subseteq Range(s.order)
      /\ Tried(s.mem) => Tried(p.mem)
      /\ TriedAgain(s.mem, jb) => TriedAgain(p.mem, jb)
  BY PrunedSound
<1>2. Miscompacted(s) = {p, q} /\ Compacted(s) = t
  BY Zenon DEF Miscompacted, Compacted
<1> HIDE DEF p
<1>3. /\ Sound(q, hd, ac, st, jb) /\ Sound(t, hd, ac, st, jb)
      /\ Tried(p.mem) /\ TriedAgain(p.mem, jb) => Steady(t, jb)
  BY <1>1, RewriteSound, Zenon
<1>4. q.order = p.order /\ t.order = p.order
  BY <1>1 DEF Sound, States
<1>5. Steady(s, jb) => Steady(t, jb)
  BY <1>1, <1>3 DEF Steady
<1> HIDE DEF q, t
<1> QED BY <1>1, <1>2, <1>3, <1>4, <1>5

-----------------------------------------------------------------------------
(* One more record *)

\* Where a journal with one more record speaks of a command.
LEMMA AppendLines ==
  ASSUME NEW j \in Journals, NEW r \in HandoffRecords \cup CommandRecords
  PROVE  LET J == Append(j, r) IN
         /\ J \in Journals /\ Len(J) = Len(j) + 1 /\ Len(j) \in Nat
         /\ J[Len(j) + 1] = r /\ \A i \in 1..Len(j) : J[i] = j[i]
         /\ \A c, n : n \in 1..(Len(j) + 1) => Lines(J, c, n) = Lines(j, c, n)
         /\ \A c : Lines(J, c, Len(J) + 1) =
              Lines(j, c, Len(j) + 1)
              \cup (IF r.of = c \/ (r.type = "handoff" /\ c \in Holders(r.of))
                    THEN {Len(j) + 1} ELSE {})
<1> DEFINE J == Append(j, r)
           n == Len(j)
<1>1. /\ J \in Journals /\ Len(J) = n + 1 /\ n \in Nat
      /\ J[n + 1] = r /\ \A i \in 1..n : J[i] = j[i]
  BY DEF Journals
<1> HIDE DEF J
<1>2. ASSUME NEW c, NEW k \in 1..(n + 1)
      PROVE  Lines(J, c, k) = Lines(j, c, k)
  <2>1. 1..(k - 1) \subseteq 1..n
    BY <1>1
  <2> QED BY <1>1, <2>1 DEF Lines
<1>3. ASSUME NEW c
      PROVE  Lines(J, c, Len(J) + 1) =
               Lines(j, c, n + 1)
               \cup (IF r.of = c \/ (r.type = "handoff" /\ c \in Holders(r.of))
                     THEN {n + 1} ELSE {})
  <2> DEFINE About(x) == x.of = c \/ (x.type = "handoff" /\ c \in Holders(x.of))
  <2>1. Lines(J, c, Len(J) + 1) = {i \in 1..(n + 1) : About(J[i])}
    BY <1>1 DEF Lines
  <2>2. Lines(j, c, n + 1) = {i \in 1..n : About(j[i])}
    BY <1>1 DEF Lines
  <2>3. 1..(n + 1) = 1..n \cup {n + 1}
    BY <1>1
  <2> HIDE DEF About
  <2>4. {i \in 1..(n + 1) : About(J[i])}
          = {i \in 1..n : About(j[i])} \cup (IF About(r) THEN {n + 1} ELSE {})
    BY <1>1, <2>3
  <2> QED BY <2>1, <2>2, <2>4 DEF About
<1> QED BY <1>1, <1>2, <1>3 DEF J

\* What can be read with one more record can be read without it.
LEMMA ReadableBefore ==
  ASSUME NEW j \in Journals, NEW r \in HandoffRecords \cup CommandRecords,
         Readable(Append(j, r))
  PROVE  /\ Readable(j)
         /\ IF r.type = "handoff"
            THEN /\ r.of \notin HandedIn(j)
                 /\ \A c \in Holders(r.of) : Lines(j, c, Len(j) + 1) = {}
            ELSE Lines(j, r.of, Len(j) + 1) # {}
<1> DEFINE J == Append(j, r)
           n == Len(j)
<1>1. /\ J \in Journals /\ Len(J) = n + 1 /\ n \in Nat
      /\ J[n + 1] = r /\ \A i \in 1..n : J[i] = j[i]
      /\ \A c, k : k \in 1..(n + 1) => Lines(J, c, k) = Lines(j, c, k)
  BY AppendLines
<1> DEFINE Fits(a, k) ==
      /\ a[k].seq = k
      /\ IF a[k].type = "handoff"
         THEN /\ \A i \in 1..(k - 1) : a[i].type = "handoff" => a[i].of # a[k].of
              /\ \A c \in Holders(a[k].of) : Lines(a, c, k) = {}
         ELSE LET lines == Lines(a, a[k].of, k) IN
              /\ lines # {} /\ a[Latest(lines)].type \notin Terminal
              /\ a[k].attempt = a[Latest(lines)].attempt
                                + (IF a[k].type = "dispatch" THEN 1 ELSE 0)
<1>2. \A k \in 1..Len(J) : Fits(J, k)
  BY Zenon DEF Readable
<1> HIDE DEF J
<1>3. ASSUME NEW k \in 1..n PROVE Fits(j, k)
  <2>1. k \in 1..(n + 1) /\ J[k] = j[k] /\ \A i \in 1..(k - 1) : i \in 1..n /\ J[i] = j[i]
    BY <1>1
  <2>2. Fits(J, k) /\ \A c : Lines(J, c, k) = Lines(j, c, k)
    BY <1>1, <1>2, <2>1
  <2>3. CASE j[k].type = "handoff"
    BY <2>1, <2>2, <2>3
  <2>4. CASE j[k].type # "handoff"
    <3> DEFINE lines == Lines(j, j[k].of, k)
    <3>1. /\ J[k].seq = k /\ lines # {} /\ J[Latest(lines)].type \notin Terminal
          /\ J[k].attempt = J[Latest(lines)].attempt + (IF J[k].type = "dispatch" THEN 1 ELSE 0)
      <4>1. LET l == Lines(J, J[k].of, k) IN
              /\ J[k].seq = k /\ l # {} /\ J[Latest(l)].type \notin Terminal
              /\ J[k].attempt = J[Latest(l)].attempt + (IF J[k].type = "dispatch" THEN 1 ELSE 0)
        BY <2>1, <2>2, <2>4
      <4>2. Lines(J, J[k].of, k) = lines
        BY <2>1, <2>2
      <4> QED BY <4>1, <4>2
    <3>2. lines \in SUBSET (1..n)
      BY <1>1 DEF Lines
    <3> HIDE DEF lines
    <3>3. Latest(lines) \in lines
      BY <1>1, <3>1, <3>2, LatestIn
    <3>4. J[Latest(lines)] = j[Latest(lines)]
      BY <1>1, <3>2, <3>3
    <3> QED BY <2>1, <2>4, <3>1, <3>4 DEF lines
  <2> QED BY <2>3, <2>4
<1>4. Readable(j)
  BY <1>3, Zenon DEF Readable
<1>5. Fits(J, n + 1)
  BY <1>1, <1>2
<1>6. CASE r.type = "handoff"
  <2>1. \A i \in 1..n : j[i].type = "handoff" => j[i].of # r.of
    BY <1>1, <1>5, <1>6
  <2>2. \A c \in Holders(r.of) : Lines(j, c, n + 1) = {}
    BY <1>1, <1>5, <1>6
  <2>3. r.of \notin HandedIn(j)
    BY <2>1 DEF HandedIn
  <2> QED BY <1>4, <1>6, <2>2, <2>3
<1>7. CASE r.type # "handoff"
  <2>1. Lines(J, r.of, n + 1) # {}
    BY <1>1, <1>5, <1>7
  <2>2. Lines(j, r.of, n + 1) # {}
    BY <1>1, <2>1
  <2> QED BY <1>4, <1>7, <2>2
<1> QED BY <1>6, <1>7

\* The handoffs of a journal with one more record.
LEMMA HandoffsAppend ==
  ASSUME NEW j \in Journals, NEW r \in HandoffRecords \cup CommandRecords
  PROVE  /\ HandedIn(Append(j, r))
              = HandedIn(j) \cup (IF r.type = "handoff" THEN {r.of} ELSE {})
         /\ \A x, y : Follows(HandoffsIn(Append(j, r)), x, y)
              <=> \/ Follows(HandoffsIn(j), x, y)
                  \/ (r.type = "handoff" /\ x \in HandedIn(j) /\ y = r.of)
<1> DEFINE J == Append(j, r)
           n == Len(j)
           IsHandoff(i, x) == J[i].type = "handoff" /\ J[i].of = x
<1>1. /\ J \in Journals /\ Len(J) = n + 1 /\ n \in Nat
      /\ J[n + 1] = r /\ \A i \in 1..n : J[i] = j[i]
  BY AppendLines
<1> HIDE DEF J
<1>2. \A x : x \in HandedIn(j) <=> \E i \in 1..n : IsHandoff(i, x)
  BY <1>1 DEF HandedIn
<1>3. \A x : x \in HandedIn(J) <=> \E i \in 1..(n + 1) : IsHandoff(i, x)
  BY <1>1 DEF HandedIn
<1>4. \A x : IsHandoff(n + 1, x) <=> r.type = "handoff" /\ r.of = x
  BY <1>1
<1>5. 1..(n + 1) = 1..n \cup {n + 1} /\ \A i \in 1..n : i < n + 1
  BY <1>1
<1>6. \A x, y : Follows(HandoffsIn(j), x, y)
        <=> \E i, k \in 1..n : i < k /\ IsHandoff(i, x) /\ IsHandoff(k, y)
  <2>1. \A x, y : Follows(HandoffsIn(j), x, y)
          <=> \E i, k \in 1..n : /\ i < k
                                 /\ j[i].type = "handoff" /\ j[i].of = x
                                 /\ j[k].type = "handoff" /\ j[k].of = y
    BY HandoffsOrder
  <2> QED BY <1>1, <2>1
<1>7. \A x, y : Follows(HandoffsIn(J), x, y)
        <=> \E i, k \in 1..(n + 1) : i < k /\ IsHandoff(i, x) /\ IsHandoff(k, y)
  <2>1. \A x, y : Follows(HandoffsIn(J), x, y)
          <=> \E i, k \in 1..Len(J) : /\ i < k
                                      /\ J[i].type = "handoff" /\ J[i].of = x
                                      /\ J[k].type = "handoff" /\ J[k].of = y
    BY <1>1, HandoffsOrder
  <2> QED BY <1>1, <2>1
<1> HIDE DEF IsHandoff
<1>8. HandedIn(J) = HandedIn(j) \cup (IF r.type = "handoff" THEN {r.of} ELSE {})
  BY <1>2, <1>3, <1>4, <1>5
<1>9. ASSUME NEW x, NEW y
      PROVE  Follows(HandoffsIn(J), x, y)
              <=> \/ Follows(HandoffsIn(j), x, y)
                  \/ (r.type = "handoff" /\ x \in HandedIn(j) /\ y = r.of)
  <2>1. (\E i, k \in 1..(n + 1) : i < k /\ IsHandoff(i, x) /\ IsHandoff(k, y))
          <=> \/ \E i, k \in 1..n : i < k /\ IsHandoff(i, x) /\ IsHandoff(k, y)
              \/ ((\E i \in 1..n : IsHandoff(i, x)) /\ IsHandoff(n + 1, y))
    BY <1>1, <1>5
  <2>2. (\E i \in 1..n : IsHandoff(i, x)) <=> x \in HandedIn(j)
    BY <1>2
  <2> QED BY <1>4, <1>6, <1>7, <2>1, <2>2
<1> QED BY <1>8, <1>9 DEF J

\* What a journal with one more record says of a command.
LEMMA RecalledAppend ==
  ASSUME NEW j \in Journals, NEW r \in HandoffRecords \cup CommandRecords, NEW d
  PROVE  LET J == Append(j, r)
             about == r.of = d \/ (r.type = "handoff" /\ d \in Holders(r.of))
         IN  /\ ~ about => Recalled(J, d) = Recalled(j, d)
             /\ about => Recalled(J, d) =
                  [status   |-> IF r.type \in Terminal THEN r.type ELSE "pending",
                   attempts |-> r.attempt,
                   due      |-> r.type # "retry",
                   failed   |-> (r.type = "retry" \/ Recalled(j, d).failed)]
<1> DEFINE J == Append(j, r)
           n == Len(j)
           about == r.of = d \/ (r.type = "handoff" /\ d \in Holders(r.of))
           L == Lines(j, d, n + 1)
           K == Lines(J, d, Len(J) + 1)
<1>1. /\ J \in Journals /\ Len(J) = n + 1 /\ n \in Nat
      /\ J[n + 1] = r /\ \A i \in 1..n : J[i] = j[i]
      /\ K = L \cup (IF about THEN {n + 1} ELSE {})
  BY AppendLines
<1> DEFINE old == \E i \in L : j[i].type = "retry"
           new == \E i \in K : J[i].type = "retry"
<1>2. L \in SUBSET (1..n)
  BY <1>1 DEF Lines
<1>3. Recalled(j, d) =
        IF L = {} THEN Unknown
        ELSE [status   |-> IF j[Latest(L)].type \in Terminal THEN j[Latest(L)].type ELSE "pending",
              attempts |-> j[Latest(L)].attempt,
              due      |-> j[Latest(L)].type # "retry",
              failed   |-> old]
  BY Zenon DEF Recalled
<1>4. Recalled(J, d) =
        IF K = {} THEN Unknown
        ELSE [status   |-> IF J[Latest(K)].type \in Terminal THEN J[Latest(K)].type ELSE "pending",
              attempts |-> J[Latest(K)].attempt,
              due      |-> J[Latest(K)].type # "retry",
              failed   |-> new]
  BY Zenon DEF Recalled
<1>5. (~ about => K = L) /\ (about => K = L \cup {n + 1})
  BY <1>1
<1> HIDE DEF J, L, K
<1>6. (~ about => new = old) /\ (about => new = (r.type = "retry" \/ old))
  BY <1>1, <1>2, <1>5
<1>7. (L = {} => old = FALSE) /\ old \in BOOLEAN
  OBVIOUS
<1> HIDE DEF old, new
<1>8. Recalled(j, d).failed = old
  <2>1. CASE L = {}
    <3>1. Recalled(j, d).failed = FALSE
      BY <1>3, <2>1 DEF Unknown
    <3> QED BY <1>7, <2>1, <3>1, Zenon
  <2>2. CASE L # {}
    BY <1>3, <2>2
  <2> QED BY <2>1, <2>2
<1>9. ASSUME ~ about PROVE Recalled(J, d) = Recalled(j, d)
  <2>1. K = L /\ new = old
    BY <1>5, <1>6, <1>9
  <2>2. CASE L = {}
    BY <1>3, <1>4, <2>1, <2>2, Zenon
  <2>3. CASE L # {}
    <3>1. Latest(L) \in L
      BY <1>1, <1>2, <2>3, LatestIn
    <3>2. J[Latest(L)] = j[Latest(L)]
      BY <1>1, <1>2, <3>1
    <3> DEFINE Out(x, e) == [status   |-> IF x.type \in Terminal THEN x.type ELSE "pending",
                             attempts |-> x.attempt,
                             due      |-> x.type # "retry",
                             failed   |-> e]
    <3>3. Recalled(j, d) = Out(j[Latest(L)], old)
      BY <1>3, <2>3
    <3>4. Recalled(J, d) = Out(J[Latest(K)], new)
      BY <1>4, <2>1, <2>3, Zenon
    <3> HIDE DEF Out
    <3> QED BY <2>1, <3>2, <3>3, <3>4, Zenon
  <2> QED BY <2>2, <2>3
<1>10. ASSUME about
       PROVE  Recalled(J, d) =
               [status   |-> IF r.type \in Terminal THEN r.type ELSE "pending",
                attempts |-> r.attempt,
                due      |-> r.type # "retry",
                failed   |-> (r.type = "retry" \/ Recalled(j, d).failed)]
  <2>1. new = (r.type = "retry" \/ old)
    BY <1>6, <1>10, Zenon
  <2>2. K \in SUBSET (1..(n + 1)) /\ n + 1 \in Nat /\ K # {} /\ n + 1 \in K
    <3>1. K = L \cup {n + 1}
      BY <1>5, <1>10, Zenon
    <3>2. n \in Nat
      BY <1>1
    <3> HIDE DEF n
    <3> QED BY <1>2, <3>1, <3>2
  <2>3. Latest(K) \in K /\ \A k \in K : k <= Latest(K)
    BY <2>2, LatestIn
  <2>4. Latest(K) \in 1..(n + 1) /\ n + 1 <= Latest(K)
    BY <2>2, <2>3
  <2>5. Latest(K) = n + 1
    BY <1>1, <2>4
  <2>6. J[Latest(K)] = r
    BY <1>1, <2>5
  <2> QED BY <1>4, <1>8, <2>1, <2>2, <2>6, Zenon
<1> QED BY <1>9, <1>10 DEF J

\* What is on record of a command after one more record, as far as it is an outcome.
LEMMA TrailAppend ==
  ASSUME NEW j \in Journals, NEW r \in HandoffRecords \cup CommandRecords,
         NEW d \in Commands, Trail(Append(j, r), d) \cap Terminal # {}
  PROVE  \/ r.of = d /\ r.type \in Terminal
         \/ /\ Trail(j, d) \cap Terminal # {}
            /\ ~ (r.type = "handoff" /\ d \in Holders(r.of))
<1> DEFINE J == Append(j, r)
           n == Len(j)
           from == {i \in 1..Len(J) : J[i].type = "handoff" /\ d \in Holders(J[i].of)}
           old == {i \in 1..n : j[i].type = "handoff" /\ d \in Holders(j[i].of)}
<1>1. /\ J \in Journals /\ Len(J) = n + 1 /\ n \in Nat
      /\ J[n + 1] = r /\ \A i \in 1..n : J[i] = j[i]
  BY AppendLines
<1>2. Trail(J, d) = {"handoff" : f \in from}
                    \cup {J[i].type : i \in {k \in 1..Len(J) :
                                               J[k].of = d /\ \A f \in from : f < k}}
  BY Zenon DEF Trail
<1>3. Trail(j, d) = {"handoff" : f \in old}
                    \cup {j[i].type : i \in {k \in 1..Len(j) :
                                               j[k].of = d /\ \A f \in old : f < k}}
  BY Zenon DEF Trail
<1>4. PICK t \in Trail(J, d) : t \in Terminal
  OBVIOUS
<1> HIDE DEF J
<1>5. t # "handoff"
  BY <1>4 DEF Terminal
<1>6. PICK k \in 1..Len(J) : J[k].of = d /\ J[k].type = t /\ \A f \in from : f < k
  BY <1>2, <1>4, <1>5
<1>7. CASE k = n + 1
  BY <1>1, <1>4, <1>6, <1>7
<1>8. CASE k # n + 1
  <2>1. k \in 1..n /\ j[k].of = d /\ j[k].type = t
    BY <1>1, <1>6, <1>8
  <2>2. old \subseteq from
    BY <1>1
  <2>3. n + 1 \notin from
    BY <1>1, <1>6, <2>1
  <2>4. ~ (r.type = "handoff" /\ d \in Holders(r.of))
    BY <1>1, <2>3
  <2> HIDE DEF from, old
  <2>5. t \in Trail(j, d)
    BY <1>3, <1>6, <2>1, <2>2
  <2> QED BY <1>4, <2>4, <2>5
<1> QED BY <1>7, <1>8

\* A record that ends a command stands behind its handoff.
LEMMA TrailEnds ==
  ASSUME NEW j \in Journals, NEW r \in CommandRecords, r.type \in Terminal
  PROVE  Trail(Append(j, r), r.of) \cap Terminal # {}
<1> DEFINE J == Append(j, r)
           n == Len(j)
           from == {i \in 1..Len(J) : J[i].type = "handoff" /\ r.of \in Holders(J[i].of)}
<1>1. /\ Len(J) = n + 1 /\ n \in Nat /\ J[n + 1] = r
  BY AppendLines
<1>2. Trail(J, r.of) = {"handoff" : f \in from}
                    \cup {J[i].type : i \in {k \in 1..Len(J) :
                                               J[k].of = r.of /\ \A f \in from : f < k}}
  BY Zenon DEF Trail
<1>3. n + 1 \in 1..Len(J) /\ J[n + 1].of = r.of /\ r.type # "handoff"
  BY <1>1 DEF Terminal
<1> HIDE DEF J
<1>4. \A f \in from : f < n + 1
  BY <1>1, <1>3
<1> HIDE DEF from
<1>5. r.type \in Trail(J, r.of)
  BY <1>1, <1>2, <1>3, <1>4
<1> QED BY <1>5 DEF J

\* A record is applied behind the append.
LEMMA WrittenShape ==
  ASSUME NEW t \in States, NEW type, NEW of, NEW attempt
  PROVE  LET r == Record(type, of, attempt, t.seq)
             w == [journal |-> Append(t.journal, r), seq |-> t.seq + 1,
                   mem |-> t.mem, order |-> t.order]
         IN  Written(t, type, of, attempt) = Apply(w, r)
<1> DEFINE r == Record(type, of, attempt, t.seq)
           w == [journal |-> Append(t.journal, r), seq |-> t.seq + 1,
                 mem |-> t.mem, order |-> t.order]
<1>1. Written(t, type, of, attempt)
        = Apply([t EXCEPT !.journal = Append(t.journal, r), !.seq = t.seq + 1], r)
  BY Zenon DEF Written
<1>2. [t EXCEPT !.journal = Append(t.journal, r), !.seq = t.seq + 1] = w
  BY StateParts
<1> HIDE DEF r, w
<1> QED BY <1>1, <1>2, Zenon DEF r, w

\* What is held behind the record of a handoff.
LEMMA WrittenHandoff ==
  ASSUME NEW t \in States, NEW h \in Handoffs
  PROVE  LET W == Written(t, "handoff", h, 0) IN
         /\ W \in States
         /\ W.journal = Append(t.journal, Record("handoff", h, 0, t.seq))
         /\ W.seq = t.seq + 1 /\ W.order = Append(t.order, h)
         /\ \A c \in Commands : W.mem[c] = IF c \in Holders(h) THEN Fresh ELSE t.mem[c]
<1> DEFINE W == Written(t, "handoff", h, 0)
           r == Record("handoff", h, 0, t.seq)
           J == Append(t.journal, r)
           m == [c \in Commands |-> IF c \in Holders(h) THEN Fresh ELSE t.mem[c]]
           o == Append(t.order, h)
           w == [journal |-> J, seq |-> t.seq + 1, mem |-> t.mem, order |-> t.order]
<1>1. /\ t.journal \in Journals /\ t.seq \in Nat /\ t.mem \in Memories
      /\ t.order \in Seq(Handoffs)
  BY DEF States
<1>2. r \in HandoffRecords /\ r.type = "handoff" /\ r.of = h
  BY <1>1 DEF HandoffRecords, Record
<1>3. J \in Journals
  BY <1>1, <1>2, AppendLines
<1>4. o \in Seq(Handoffs)
  BY <1>1
<1>5. m \in Memories
  <2> DEFINE T == [status : {"unknown", "pending"} \cup Terminal,
                   attempts : Nat, due : BOOLEAN, failed : BOOLEAN]
  <2>1. Memories = [Commands -> T]
    BY DEF Memories
  <2>2. \A c \in Commands : t.mem[c] \in T
    BY <1>1, <2>1
  <2>3. Fresh \in T
    BY DEF Fresh, Unknown
  <2> HIDE DEF T
  <2>4. m \in [Commands -> T]
    BY <2>2, <2>3
  <2> HIDE DEF m
  <2> QED BY <2>1, <2>4, Zenon
<1>6. W = Apply(w, r)
  BY WrittenShape
<1>7. Apply(w, r) = [w EXCEPT !.order = Append(w.order, h),
                              !.mem = [c \in Commands |-> IF c \in Holders(h) THEN Fresh ELSE w.mem[c]]]
  BY <1>2, Zenon DEF Apply
<1>8. w.order = t.order /\ w.mem = t.mem
  OBVIOUS
<1>9. Apply(w, r) = [w EXCEPT !.order = o, !.mem = m]
  <2> HIDE DEF w
  <2> QED BY <1>7, <1>8
<1>10. W = [journal |-> J, seq |-> t.seq + 1, mem |-> m, order |-> o]
  <2> HIDE DEF J, m, o, W, r
  <2>1. [w EXCEPT !.order = o, !.mem = m] = [[w EXCEPT !.order = o] EXCEPT !.mem = m]
    <3> HIDE DEF w
    <3> QED OBVIOUS
  <2>2. [w EXCEPT !.order = o] = [journal |-> J, seq |-> t.seq + 1, mem |-> t.mem, order |-> o]
    OBVIOUS
  <2>3. [[journal |-> J, seq |-> t.seq + 1, mem |-> t.mem, order |-> o] EXCEPT !.mem = m]
          = [journal |-> J, seq |-> t.seq + 1, mem |-> m, order |-> o]
    OBVIOUS
  <2> QED BY <1>6, <1>9, <2>1, <2>2, <2>3, Zenon
<1>11. \A c \in Commands : m[c] = IF c \in Holders(h) THEN Fresh ELSE t.mem[c]
  OBVIOUS
<1> HIDE DEF J, m, o, W
<1>12. W \in States
  BY <1>1, <1>3, <1>4, <1>5, <1>10 DEF States
<1>13. W.journal = J /\ W.seq = t.seq + 1 /\ W.order = o /\ W.mem = m
  BY <1>10
<1> QED BY <1>11, <1>12, <1>13 DEF J, o, W

\* what the state W has that the state t has not
IsWritten(W, t, type, c, attempt) ==
  LET x == t.mem[c]
      y == W.mem[c]
  IN
  /\ W \in States
  /\ W.journal = Append(t.journal, Record(type, c, attempt, t.seq))
  /\ W.seq = t.seq + 1 /\ W.order = t.order
  /\ \A d \in Commands \ {c} : W.mem[d] = t.mem[d]
  /\ type = "dispatch" =>
       y.status = x.status /\ y.failed = x.failed /\ y.attempts = attempt
  /\ type = "retry" =>
       y.status = x.status /\ y.failed = TRUE /\ y.attempts = x.attempts
  /\ type \in Terminal =>
       y.status = type /\ y.failed = x.failed /\ y.attempts = x.attempts

\* What is held behind a record of a command.
LEMMA WrittenCommand ==
  ASSUME NEW t \in States, NEW c \in Commands, NEW type \in {"dispatch", "retry"} \cup Terminal,
         NEW attempt \in Nat
  PROVE  IsWritten(Written(t, type, c, attempt), t, type, c, attempt)
<1> DEFINE W == Written(t, type, c, attempt)
           r == Record(type, c, attempt, t.seq)
           J == Append(t.journal, r)
           T == [status : {"unknown", "pending"} \cup Terminal,
                 attempts : Nat, due : BOOLEAN, failed : BOOLEAN]
           x == t.mem[c]
           w == [journal |-> J, seq |-> t.seq + 1, mem |-> t.mem, order |-> t.order]
<1>1. /\ t.journal \in Journals /\ t.seq \in Nat /\ t.mem \in [Commands -> T]
      /\ t.order \in Seq(Handoffs)
  BY DEF States, Memories
<1>2. r \in CommandRecords /\ r.type = type /\ r.of = c /\ r.attempt = attempt
  BY <1>1 DEF CommandRecords, Record
<1>3. J \in Journals
  BY <1>1, <1>2, AppendLines
<1>4. W = Apply(w, r) /\ w.mem = t.mem
  BY WrittenShape
<1>5. ASSUME NEW y \in T, W = [w EXCEPT !.mem = [t.mem EXCEPT ![c] = y]]
      PROVE  /\ W \in States /\ W.journal = J /\ W.seq = t.seq + 1 /\ W.order = t.order
             /\ \A d \in Commands \ {c} : W.mem[d] = t.mem[d]
             /\ W.mem[c] = y
  <2> DEFINE m == [t.mem EXCEPT ![c] = y]
  <2>1. m \in [Commands -> T] /\ m[c] = y /\ \A d \in Commands \ {c} : m[d] = t.mem[d]
    BY <1>1
  <2> HIDE DEF m, W, J, T
  <2>2. [w EXCEPT !.mem = m] = [journal |-> J, seq |-> t.seq + 1, mem |-> m, order |-> t.order]
    OBVIOUS
  <2>3. W = [journal |-> J, seq |-> t.seq + 1, mem |-> m, order |-> t.order]
    BY <1>5, <2>2, Zenon DEF m
  <2>4. W.journal = J /\ W.seq = t.seq + 1 /\ W.order = t.order /\ W.mem = m
    BY <2>3
  <2>5. m \in Memories
    BY <2>1, Zenon DEF Memories, T
  <2>6. W \in States
    BY <1>1, <1>3, <2>3, <2>5 DEF States
  <2> QED BY <2>1, <2>4, <2>6
<1>6. x \in T
  BY <1>1
<1>7. "dispatch" \notin Terminal /\ "retry" \notin Terminal /\ "handoff" \notin Terminal
  BY DEF Terminal
<1> HIDE DEF r, W, J
<1>8. CASE type = "dispatch"
  <2> DEFINE y == [x EXCEPT !.attempts = attempt]
  <2>1. y \in T /\ y.status = x.status /\ y.failed = x.failed /\ y.attempts = attempt
    BY <1>6
  <2>2. Apply(w, r) = [w EXCEPT !.mem[c].attempts = attempt]
    BY <1>2, <1>8, Zenon DEF Apply
  <2>3. [w EXCEPT !.mem[c].attempts = attempt] = [w EXCEPT !.mem = [t.mem EXCEPT ![c] = y]]
    <3> HIDE DEF w
    <3> QED BY <1>4
  <2> HIDE DEF y, w, T, x
  <2> QED BY <1>4, <1>5, <1>7, <1>8, <2>1, <2>2, <2>3 DEF W, J, r, x, IsWritten
<1>9. CASE type = "retry"
  <2> DEFINE y == [[x EXCEPT !.due = FALSE] EXCEPT !.failed = TRUE]
  <2>1. y \in T /\ y.status = x.status /\ y.failed = TRUE /\ y.attempts = x.attempts
    BY <1>6
  <2>2. Apply(w, r) = [w EXCEPT !.mem[c].due = FALSE, !.mem[c].failed = TRUE]
    BY <1>2, <1>9, Zenon DEF Apply
  <2>3. [w EXCEPT !.mem[c].due = FALSE, !.mem[c].failed = TRUE]
          = [w EXCEPT !.mem = [t.mem EXCEPT ![c] = y]]
    <3> DEFINE z == [x EXCEPT !.due = FALSE]
               v == [journal |-> J, seq |-> t.seq + 1, mem |-> [t.mem EXCEPT ![c] = z],
                     order |-> t.order]
    <3>1. [w EXCEPT !.mem[c].due = FALSE] = [w EXCEPT !.mem = [t.mem EXCEPT ![c] = z]]
      <4> HIDE DEF w
      <4> QED BY <1>4
    <3>2. [w EXCEPT !.mem = [t.mem EXCEPT ![c] = z]] = v
      <4> HIDE DEF z
      <4> QED OBVIOUS
    <3>3. [v EXCEPT !.mem[c].failed = TRUE] = [v EXCEPT !.mem = [[t.mem EXCEPT ![c] = z] EXCEPT ![c] = y]]
      <4>1. v.mem = [t.mem EXCEPT ![c] = z]
        OBVIOUS
      <4>2. v.mem[c] = z
        BY <1>1, <4>1
      <4> HIDE DEF v
      <4> QED BY <4>1, <4>2
    <3>4. [[t.mem EXCEPT ![c] = z] EXCEPT ![c] = y] = [t.mem EXCEPT ![c] = y]
      <4> HIDE DEF y, z
      <4> QED BY <1>1
    <3>5. [v EXCEPT !.mem = [t.mem EXCEPT ![c] = y]] = [w EXCEPT !.mem = [t.mem EXCEPT ![c] = y]]
      <4> HIDE DEF y, z
      <4> QED OBVIOUS
    <3>6. [w EXCEPT !.mem[c].due = FALSE, !.mem[c].failed = TRUE]
            = [[w EXCEPT !.mem[c].due = FALSE] EXCEPT !.mem[c].failed = TRUE]
      <4> HIDE DEF w
      <4> QED OBVIOUS
    <3> HIDE DEF v, w, y, z
    <3> QED BY <3>1, <3>2, <3>3, <3>4, <3>5, <3>6, Zenon
  <2> HIDE DEF y, w, T, x
  <2> QED BY <1>4, <1>5, <1>7, <1>9, <2>1, <2>2, <2>3 DEF W, J, r, x, IsWritten
<1>10. CASE type \in Terminal
  <2> DEFINE y == [x EXCEPT !.status = type]
  <2>1. y \in T /\ y.status = type /\ y.failed = x.failed /\ y.attempts = x.attempts
    BY <1>6, <1>10
  <2>2. Apply(w, r) = [w EXCEPT !.mem[c].status = type]
    BY <1>2, <1>7, <1>10, Zenon DEF Apply
  <2>3. [w EXCEPT !.mem[c].status = type] = [w EXCEPT !.mem = [t.mem EXCEPT ![c] = y]]
    <3> HIDE DEF w
    <3> QED BY <1>4
  <2> HIDE DEF y, w, T, x
  <2> QED BY <1>4, <1>5, <1>7, <1>10, <2>1, <2>2, <2>3 DEF W, J, r, x, IsWritten
<1> QED BY <1>8, <1>9, <1>10

\* Calls that are over make nothing wrong.
LEMMA FewerRun ==
  ASSUME NEW s, NEW hd, NEW ac, NEW st, NEW jb, NEW jb2,
         \A c \in Commands : jb2[c] = jb[c] \/ jb2[c] = "idle"
  PROVE  /\ Sound(s, hd, ac, st, jb) => Sound(s, hd, ac, st, jb2)
         /\ Steady(s, jb) => Steady(s, jb2)
<1>1. \A o, m : RunsFirst(o, m, jb) => RunsFirst(o, m, jb2)
  BY DEF RunsFirst
<1>2. \A m : TriedAgain(m, jb) => TriedAgain(m, jb2)
  BY DEF TriedAgain
<1> QED BY <1>1, <1>2 DEF Sound, Steady

\* A record of a command leaves the file true.
LEMMA CommandFile ==
  ASSUME NEW j \in Journals, NEW r \in CommandRecords, NEW hd, NEW ac, NEW st, NEW st2,
         st \subseteq st2, r.type \in Terminal => r.of \in st2, FileTrue(j, hd, ac, st)
  PROVE  FileTrue(Append(j, r), hd, ac, st2) /\ HandedIn(Append(j, r)) = HandedIn(j)
<1> DEFINE J == Append(j, r)
<1>1. J \in Journals /\ r.type # "handoff"
  BY AppendLines DEF CommandRecords, Terminal
<1>2. /\ HandedIn(J) = HandedIn(j)
      /\ \A x, y : Follows(HandoffsIn(J), x, y) <=> Follows(HandoffsIn(j), x, y)
  BY <1>1, HandoffsAppend
<1>3. Range(HandoffsIn(J)) = HandedIn(J) /\ Range(HandoffsIn(j)) = HandedIn(j)
  BY <1>1, HandoffsOrder
<1>4. Readable(J) => Readable(j)
  BY ReadableBefore
<1>5. \A d \in Commands : Trail(J, d) \cap Terminal # {}
        => (r.of = d /\ r.type \in Terminal) \/ Trail(j, d) \cap Terminal # {}
  BY TrailAppend
<1> HIDE DEF J
<1>6. HeldIn(HandedIn(J), ac, st2)
  BY <1>2 DEF FileTrue, HeldIn
<1>7. \A d \in Commands : Trail(J, d) \cap Terminal # {} => d \in st2
  BY <1>5 DEF FileTrue
<1>8. Readable(J) => OrderedIn(HandoffsIn(J), hd)
  BY <1>2, <1>3, <1>4 DEF FileTrue, OrderedIn
<1> QED BY <1>2, <1>6, <1>7, <1>8 DEF FileTrue, J

\* A handoff that is handed over moves to the end of the line.
LEMMA HandedOrder ==
  ASSUME NEW hd \in Seq(Handoffs), Distinct(hd), NEW h \in Handoffs
  PROVE  LET H == Append(Without(hd, {h}), h) IN
         /\ H \in Seq(Handoffs) /\ Distinct(H) /\ Range(H) = Range(hd) \cup {h}
         /\ \A o \in Seq(Handoffs) :
              OrderedIn(o, hd) /\ h \notin Range(o)
                => OrderedIn(o, H) /\ OrderedIn(Append(o, h), H)
<1> DEFINE w == Without(hd, {h})
           H == Append(w, h)
<1>1. /\ w \in Seq(Handoffs) /\ Range(w) = Range(hd) \ {h}
      /\ \A x, y : Follows(w, x, y) <=> Follows(hd, x, y) /\ x \notin {h} /\ y \notin {h}
  BY WithoutOrder
<1> HIDE DEF w
<1>2. /\ H \in Seq(Handoffs) /\ Range(H) = Range(w) \cup {h}
      /\ \A x, y : Follows(H, x, y) <=> Follows(w, x, y) \/ (x \in Range(w) /\ y = h)
  BY <1>1, AppendOrder
<1> HIDE DEF H
<1>3. \A x : ~ Follows(hd, x, x)
  BY DistinctOrder
<1>4. \A x : ~ Follows(H, x, x)
  BY <1>1, <1>2, <1>3
<1>5. Distinct(H)
  BY <1>2, <1>4, DistinctOrder
<1>6. ASSUME NEW o \in Seq(Handoffs), OrderedIn(o, hd), h \notin Range(o)
      PROVE  OrderedIn(o, H) /\ OrderedIn(Append(o, h), H)
  <2>1. /\ Range(Append(o, h)) = Range(o) \cup {h}
        /\ \A x, y : Follows(Append(o, h), x, y)
             <=> Follows(o, x, y) \/ (x \in Range(o) /\ y = h)
    BY AppendOrder
  <2>2. \A x, y : Follows(o, x, y) => x \in Range(o) /\ y \in Range(o)
    BY FollowsBoth
  <2>3. Range(o) \subseteq Range(w)
    BY <1>1, <1>6 DEF OrderedIn
  <2>4. \A x, y : Follows(o, x, y) => Follows(w, x, y)
    BY <1>1, <1>6, <2>2 DEF OrderedIn
  <2> QED BY <1>2, <2>1, <2>3, <2>4 DEF OrderedIn
<1> QED BY <1>1, <1>2, <1>5, <1>6 DEF H, w

\* The record of a handoff leaves the file true.
LEMMA HandoffFile ==
  ASSUME NEW j \in Journals, NEW h \in Handoffs, NEW n \in Nat,
         NEW hd \in Seq(Handoffs), Distinct(hd),
         NEW ac \in SUBSET Handoffs, NEW ac2 \in SUBSET (ac \cup {h}), NEW st,
         FileTrue(j, hd, ac, st)
  PROVE  FileTrue(Append(j, Record("handoff", h, 0, n)), Append(Without(hd, {h}), h),
                  ac2, st \ Holders(h))
<1> DEFINE r == Record("handoff", h, 0, n)
           J == Append(j, r)
           H == Append(Without(hd, {h}), h)
           st2 == st \ Holders(h)
<1>1. r \in HandoffRecords \cup CommandRecords /\ r.type = "handoff" /\ r.of = h
  BY DEF Record, HandoffRecords
<1> HIDE DEF r
<1>2. J \in Journals
  BY <1>1, AppendLines
<1>3. /\ HandedIn(J) = HandedIn(j) \cup {h}
      /\ \A x, y : Follows(HandoffsIn(J), x, y)
           <=> Follows(HandoffsIn(j), x, y) \/ (x \in HandedIn(j) /\ y = h)
  BY <1>1, HandoffsAppend
<1>4. /\ Range(HandoffsIn(J)) = HandedIn(J) /\ Range(HandoffsIn(j)) = HandedIn(j)
      /\ HandoffsIn(j) \in Seq(Handoffs)
  BY <1>2, HandoffsOrder
<1>5. Readable(J) => Readable(j) /\ h \notin HandedIn(j)
  BY <1>1, ReadableBefore
<1>6. \A d \in Commands : Trail(J, d) \cap Terminal # {}
        => Trail(j, d) \cap Terminal # {} /\ d \notin Holders(h)
  <2>1. "handoff" \notin Terminal
    BY DEF Terminal
  <2> QED BY <1>1, <2>1, TrailAppend
<1>7. \A o \in Seq(Handoffs) :
        OrderedIn(o, hd) /\ h \notin Range(o)
          => OrderedIn(o, H) /\ OrderedIn(Append(o, h), H)
  BY HandedOrder
<1> HIDE DEF J, H
<1>8. HeldIn(HandedIn(J), ac2, st2)
  <2> SUFFICES ASSUME NEW g \in ac2 PROVE Holders(g) \subseteq st2 \/ g \in HandedIn(J)
    BY DEF HeldIn
  <2>1. CASE g = h
    BY <1>3, <2>1
  <2>2. CASE g # h
    <3>1. g \in ac /\ g \in Handoffs
      BY <2>2
    <3>2. Holders(g) \cap Holders(h) = {}
      BY <2>2, <3>1, OneHolder
    <3> QED BY <1>3, <3>1, <3>2 DEF FileTrue, HeldIn
  <2> QED BY <2>1, <2>2
<1>9. \A d \in Commands : Trail(J, d) \cap Terminal # {} => d \in st2
  BY <1>6 DEF FileTrue
<1>10. ASSUME Readable(J) PROVE OrderedIn(HandoffsIn(J), H)
  <2>1. OrderedIn(HandoffsIn(j), hd) /\ h \notin Range(HandoffsIn(j))
    BY <1>4, <1>5, <1>10 DEF FileTrue
  <2>2. OrderedIn(Append(HandoffsIn(j), h), H)
    BY <1>4, <1>7, <2>1
  <2>3. /\ Range(Append(HandoffsIn(j), h)) = Range(HandoffsIn(j)) \cup {h}
        /\ \A x, y : Follows(Append(HandoffsIn(j), h), x, y)
             <=> Follows(HandoffsIn(j), x, y) \/ (x \in Range(HandoffsIn(j)) /\ y = h)
    BY <1>4, AppendOrder
  <2> QED BY <1>3, <1>4, <2>2, <2>3 DEF OrderedIn
<1> QED BY <1>8, <1>9, <1>10 DEF FileTrue, J, H, r

\* A record of a running command keeps what is held sound.
LEMMA CommandSound ==
  ASSUME NEW t, NEW hd, NEW ac, NEW st, NEW st2, NEW jb, NEW jb2,
         Sound(t, hd, ac, st, jb), NEW c \in Commands, jb[c] # "idle",
         NEW type \in {"dispatch", "retry"} \cup Terminal, NEW attempt \in Nat,
         st \subseteq st2, type \in Terminal => c \in st2,
         \A d \in Commands \ {c} : jb2[d] = jb[d],
         type = "dispatch" \/ jb2[c] = "idle"
  PROVE  Sound(Written(t, type, c, attempt), hd, ac, st2, jb2)
<1> DEFINE W == Written(t, type, c, attempt)
           r == Record(type, c, attempt, t.seq)
<1>1. /\ t \in States /\ MemoryTrue(t.order, t.mem, hd, st) /\ HeldIn(Range(t.order), ac, st)
      /\ FileTrue(t.journal, hd, ac, st) /\ RunsFirst(t.order, t.mem, jb)
  BY DEF Sound
<1>2. /\ W \in States /\ W.journal = Append(t.journal, r) /\ W.order = t.order
      /\ \A d \in Commands \ {c} : W.mem[d] = t.mem[d]
      /\ type = "dispatch" => W.mem[c].status = t.mem[c].status
      /\ type = "retry" => W.mem[c].status = t.mem[c].status
      /\ type \in Terminal => W.mem[c].status = type
  <2>1. IsWritten(W, t, type, c, attempt)
    BY <1>1, WrittenCommand
  <2> HIDE DEF W
  <2> QED BY <2>1 DEF IsWritten
<1>3. r \in CommandRecords /\ r.type = type /\ r.of = c /\ t.journal \in Journals
  BY <1>1 DEF CommandRecords, Record, States
<1> HIDE DEF W, r
<1>4. FileTrue(W.journal, hd, ac, st2) /\ Range(W.order) \subseteq HandedIn(W.journal)
  <2>1. FileTrue(W.journal, hd, ac, st2) /\ HandedIn(W.journal) = HandedIn(t.journal)
    BY <1>1, <1>2, <1>3, CommandFile
  <2> QED BY <1>2, <2>1 DEF Sound
<1>5. t.mem[c].status = "pending"
  BY <1>1 DEF RunsFirst
<1>6. W.mem[c].status # "unknown" /\ (W.mem[c].status \in Terminal => type \in Terminal)
  BY <1>2, <1>5 DEF Terminal
<1>7. MemoryTrue(W.order, W.mem, hd, st2)
  <2> SUFFICES ASSUME NEW d \in Commands
               PROVE  /\ W.mem[d].status = "unknown" <=> \A h \in Range(t.order) : d \notin Holders(h)
                      /\ W.mem[d].status = "unknown" => W.mem[d] = Unknown
                      /\ W.mem[d].status \in Terminal => d \in st2
    BY <1>1, <1>2 DEF MemoryTrue
  <2>1. CASE d = c
    <3>1. ~ \A h \in Range(t.order) : c \notin Holders(h)
      BY <1>1, <1>5 DEF MemoryTrue
    <3> QED BY <1>6, <2>1, <3>1
  <2>2. CASE d # c
    <3>1. W.mem[d] = t.mem[d]
      BY <1>2, <2>2
    <3> QED BY <1>1, <3>1 DEF MemoryTrue
  <2> QED BY <2>1, <2>2
<1>8. HeldIn(Range(W.order), ac, st2)
  BY <1>1, <1>2 DEF HeldIn
<1>9. RunsFirst(W.order, W.mem, jb2)
  <2> SUFFICES ASSUME NEW d \in Commands, jb2[d] # "idle"
               PROVE  /\ W.mem[d].status = "pending"
                      /\ \A e \in Commands :
                           ScopeOf[e] = ScopeOf[d] /\ Follows(CommandOrder(t.order), e, d)
                             => W.mem[e].status # "pending"
    BY <1>2 DEF RunsFirst
  <2>1. jb[d] # "idle"
    OBVIOUS
  <2>2. t.mem[d].status = "pending"
    BY <1>1, <2>1 DEF RunsFirst
  <2>3. W.mem[d].status = "pending"
    BY <1>2, <2>2
  <2>4. ASSUME NEW e \in Commands, ScopeOf[e] = ScopeOf[d], Follows(CommandOrder(t.order), e, d)
        PROVE  W.mem[e].status # "pending"
    <3>1. t.mem[e].status # "pending"
      BY <1>1, <2>1, <2>4 DEF RunsFirst
    <3>2. e # c
      BY <1>5, <3>1
    <3> QED BY <1>2, <3>1, <3>2
  <2> QED BY <2>3, <2>4
<1> QED BY <1>2, <1>4, <1>7, <1>8, <1>9 DEF Sound, W

\* It keeps the memory and the file in agreement.
LEMMA CommandSteady ==
  ASSUME NEW t, NEW hd \in Seq(Handoffs), Distinct(hd), NEW ac, NEW st, NEW jb, NEW jb2,
         Sound(t, hd, ac, st, jb), Steady(t, jb), NEW c \in Commands, jb[c] # "idle",
         NEW type \in {"dispatch", "retry"} \cup Terminal, NEW attempt,
         attempt = t.mem[c].attempts + (IF type = "dispatch" THEN 1 ELSE 0),
         type = "dispatch" \/ (jb[c] \in {"ok", "error", "refusal"} /\ jb2[c] = "idle"),
         \A d \in Commands \ {c} : jb2[d] = jb[d]
  PROVE  Steady(Written(t, type, c, attempt), jb2)
<1> DEFINE W == Written(t, type, c, attempt)
           r == Record(type, c, attempt, t.seq)
           x == t.mem[c]
           y == W.mem[c]
<1>1. /\ t \in States /\ MemoryTrue(t.order, t.mem, hd, st) /\ RunsFirst(t.order, t.mem, jb)
  BY DEF Sound
<1>2. /\ Tried(t.mem) /\ TriedAgain(t.mem, jb) /\ t.seq = Len(t.journal) + 1
      /\ Readable(t.journal) => Matches(t.journal, t.order, t.mem)
  BY DEF Steady
<1>3. /\ x.attempts \in Nat /\ x.failed \in BOOLEAN /\ t.journal \in Journals
      /\ t.order \in Seq(Handoffs) /\ t.seq \in Nat
  BY <1>1 DEF States, Memories
<1>4. attempt \in Nat
  BY <1>3
<1>5. /\ W.journal = Append(t.journal, r) /\ W.seq = t.seq + 1 /\ W.order = t.order
      /\ \A d \in Commands \ {c} : W.mem[d] = t.mem[d]
      /\ type = "dispatch" =>
           y.status = x.status /\ y.failed = x.failed /\ y.attempts = attempt
      /\ type = "retry" =>
           y.status = x.status /\ y.failed = TRUE /\ y.attempts = x.attempts
      /\ type \in Terminal =>
           y.status = type /\ y.failed = x.failed /\ y.attempts = x.attempts
  <2>1. IsWritten(W, t, type, c, attempt)
    BY <1>1, <1>4, WrittenCommand
  <2> HIDE DEF W
  <2> QED BY <2>1 DEF IsWritten
<1>6. /\ r \in CommandRecords /\ r.type = type /\ r.of = c /\ r.attempt = attempt
      /\ r.type # "handoff"
  BY <1>3, <1>4 DEF CommandRecords, Record, Terminal
<1> HIDE DEF W, r, x, y
<1>7. x.status = "pending"
  BY <1>1 DEF RunsFirst, x
<1>8. "dispatch" \notin Terminal /\ "retry" \notin Terminal /\ "pending" \notin Terminal
  BY DEF Terminal
<1>9. y.attempts = attempt
  BY <1>3, <1>5, <1>8 DEF x
<1>10. x.failed => x.attempts >= 1
  BY <1>2 DEF Tried, x
<1>11. type # "dispatch" => x.attempts >= 1 /\ (x.failed => x.attempts >= 2)
  BY <1>2 DEF TriedAgain, x
<1>12. type = "dispatch" => attempt = x.attempts + 1
  BY DEF x
<1>13. type # "dispatch" => attempt = x.attempts
  BY <1>3 DEF x
<1>14. Tried(W.mem)
  <2> SUFFICES ASSUME NEW d \in Commands, W.mem[d].failed
               PROVE  W.mem[d].attempts >= 1
                      /\ (W.mem[d].status \in Terminal => W.mem[d].attempts >= 2)
    BY DEF Tried
  <2>1. CASE d = c
    <3>1. CASE type = "dispatch"
      BY <1>3, <1>5, <1>7, <1>8, <1>9, <1>10, <1>12, <2>1, <3>1 DEF y
    <3>2. CASE type = "retry"
      BY <1>3, <1>5, <1>7, <1>8, <1>9, <1>11, <1>13, <2>1, <3>2 DEF y
    <3>3. CASE type \in Terminal
      BY <1>3, <1>5, <1>8, <1>9, <1>11, <1>13, <2>1, <3>3 DEF y
    <3> QED BY <3>1, <3>2, <3>3
  <2>2. CASE d # c
    BY <1>2, <1>5, <2>2 DEF Tried
  <2> QED BY <2>1, <2>2
<1>15. TriedAgain(W.mem, jb2)
  <2> SUFFICES ASSUME NEW d \in Commands, jb2[d] \in {"calling", "ok", "error", "refusal"}
               PROVE  W.mem[d].attempts >= 1 /\ (W.mem[d].failed => W.mem[d].attempts >= 2)
    BY DEF TriedAgain
  <2>1. CASE d = c
    <3>1. type = "dispatch"
      BY <2>1
    <3> QED BY <1>3, <1>5, <1>9, <1>10, <1>12, <2>1, <3>1 DEF x, y
  <2>2. CASE d # c
    BY <1>2, <1>5, <2>2 DEF TriedAgain
  <2> QED BY <2>1, <2>2
<1>16. W.seq = Len(W.journal) + 1
  <2>1. Len(Append(t.journal, r)) = Len(t.journal) + 1
    BY <1>3, <1>6, AppendLines
  <2> QED BY <1>2, <1>5, <2>1
<1>17. ASSUME Readable(W.journal) PROVE Matches(W.journal, W.order, W.mem)
  <2> DEFINE j == t.journal
             J == W.journal
  <2>1. J = Append(j, r) /\ J \in Journals
    BY <1>3, <1>5, <1>6, AppendLines
  <2>2. HandoffsIn(j) = t.order /\ \A d \in Commands : Same(Recalled(j, d), t.mem[d])
    <3>1. Readable(j)
      BY <1>3, <1>6, <1>17, <2>1, ReadableBefore
    <3> QED BY <1>2, <3>1 DEF Matches
  <2> HIDE DEF J
  <2>3. HandoffsIn(J) = t.order
    <3>1. /\ HandedIn(J) = HandedIn(j)
          /\ \A a, b : Follows(HandoffsIn(J), a, b) <=> Follows(HandoffsIn(j), a, b)
      <4>1. r \in HandoffRecords \cup CommandRecords
        BY <1>6
      <4>2. /\ HandedIn(J) = HandedIn(j) \cup (IF r.type = "handoff" THEN {r.of} ELSE {})
            /\ \A a, b : Follows(HandoffsIn(J), a, b)
                 <=> \/ Follows(HandoffsIn(j), a, b)
                     \/ (r.type = "handoff" /\ a \in HandedIn(j) /\ b = r.of)
        <5>1. /\ HandedIn(Append(j, r))
                   = HandedIn(j) \cup (IF r.type = "handoff" THEN {r.of} ELSE {})
              /\ \A a, b : Follows(HandoffsIn(Append(j, r)), a, b)
                   <=> \/ Follows(HandoffsIn(j), a, b)
                       \/ (r.type = "handoff" /\ a \in HandedIn(j) /\ b = r.of)
          BY <1>3, <4>1, HandoffsAppend
        <5> HIDE DEF j
        <5> QED BY <2>1, <5>1, Zenon
      <4> QED BY <1>6, <4>2
    <3>2. /\ Range(HandoffsIn(J)) = HandedIn(J) /\ Range(HandoffsIn(j)) = HandedIn(j)
          /\ HandoffsIn(J) \in Seq(Handoffs)
      BY <1>3, <2>1, HandoffsOrder
    <3>3. Distinct(t.order)
      BY <1>1, <1>3, OrderedIsDistinct DEF MemoryTrue
    <3>4. /\ Range(HandoffsIn(J)) = Range(t.order)
          /\ \A a, b : Follows(HandoffsIn(J), a, b) <=> Follows(t.order, a, b)
      BY <2>2, <3>1, <3>2
    <3>5. Distinct(HandoffsIn(J))
      BY <1>3, <3>2, <3>3, <3>4, DistinctOrder
    <3> QED BY <1>3, <3>2, <3>3, <3>4, <3>5, SameLine
  <2>4. ASSUME NEW d \in Commands PROVE Same(Recalled(J, d), W.mem[d])
    <3>1. CASE d # c
      <4>1. ~ (r.of = d \/ (r.type = "handoff" /\ d \in Holders(r.of)))
        BY <1>6, <3>1
      <4>2. Recalled(J, d) = Recalled(j, d)
        BY <1>3, <1>6, <2>1, <4>1, RecalledAppend, Zenon
      <4> QED BY <1>5, <2>2, <3>1, <4>2
    <3>2. CASE d = c
      <4>1. r.of = d \/ (r.type = "handoff" /\ d \in Holders(r.of))
        BY <1>6, <3>2
      <4>2. r \in HandoffRecords \cup CommandRecords
        BY <1>6
      <4>3. Recalled(J, d) =
              [status   |-> IF r.type \in Terminal THEN r.type ELSE "pending",
               attempts |-> r.attempt,
               due      |-> r.type # "retry",
               failed   |-> (r.type = "retry" \/ Recalled(j, d).failed)]
        BY <1>3, <2>1, <4>1, <4>2, RecalledAppend, Zenon
      <4>4. /\ Recalled(J, d).status = IF type \in Terminal THEN type ELSE "pending"
            /\ Recalled(J, d).attempts = attempt
            /\ Recalled(J, d).failed = (type = "retry" \/ Recalled(j, d).failed)
        BY <1>6, <4>3
      <4>5. Recalled(j, d).failed = x.failed
        BY <2>2, <3>2 DEF Same, x
      <4>6. Recalled(J, d).status = y.status
        BY <1>5, <1>7, <1>8, <4>4
      <4>7. Recalled(J, d).failed = y.failed
        <5>1. CASE type = "retry"
          BY <1>5, <4>4, <5>1
        <5>2. CASE type # "retry"
          <6>1. Recalled(J, d).failed = x.failed
            BY <1>3, <4>4, <4>5, <5>2 DEF x
          <6> QED BY <1>5, <5>2, <6>1
        <5> QED BY <5>1, <5>2
      <4> QED BY <1>9, <3>2, <4>4, <4>6, <4>7 DEF Same, y
    <3> QED BY <3>1, <3>2
  <2> QED BY <1>5, <2>3, <2>4 DEF Matches, J
<1> QED BY <1>14, <1>15, <1>16, <1>17 DEF Steady, W

\* A write whose record lingers: the memory is as it was.
LEMMA Lingers ==
  ASSUME NEW t, NEW hd, NEW ac, NEW st, NEW jb, Sound(t, hd, ac, st, jb),
         NEW hd2, NEW ac2, NEW st2, NEW J \in Journals,
         MemoryTrue(t.order, t.mem, hd2, st2), HeldIn(Range(t.order), ac2, st2),
         FileTrue(J, hd2, ac2, st2), Range(t.order) \subseteq HandedIn(J)
  PROVE  Sound([t EXCEPT !.journal = J], hd2, ac2, st2, jb)
<1> DEFINE u == [t EXCEPT !.journal = J]
<1>1. t \in States /\ RunsFirst(t.order, t.mem, jb)
  BY DEF Sound
<1>2. u = [journal |-> J, seq |-> t.seq, mem |-> t.mem, order |-> t.order]
  BY <1>1 DEF States
<1>3. /\ t.seq \in Nat /\ t.mem \in Memories /\ t.order \in Seq(Handoffs)
  BY <1>1 DEF States
<1> HIDE DEF u
<1>4. u \in States /\ u.journal = J /\ u.mem = t.mem /\ u.order = t.order
  BY <1>2, <1>3 DEF States
<1> QED BY <1>1, <1>4 DEF Sound, u

\* No running command is of a handoff that is yet to come.
LEMMA HandoffApart ==
  ASSUME NEW t, NEW hd, NEW ac, NEW st, NEW jb, Sound(t, hd, ac, st, jb),
         NEW h \in Handoffs, h \notin Range(t.order)
  PROVE  /\ \A c \in Holders(h) : t.mem[c] = Unknown
         /\ \A c \in Commands : jb[c] # "idle" => c \notin Holders(h)
<1>1. t.order \in Seq(Handoffs) /\ MemoryTrue(t.order, t.mem, hd, st)
      /\ RunsFirst(t.order, t.mem, jb)
  BY DEF Sound, States
<1>2. Range(t.order) \subseteq Handoffs /\ Holders(h) \subseteq Commands
  BY <1>1, InSequence, HoldersType
<1>3. \A c \in Holders(h) : t.mem[c] = Unknown
  <2> SUFFICES ASSUME NEW c \in Holders(h) PROVE t.mem[c] = Unknown
    OBVIOUS
  <2>1. \A g \in Range(t.order) : c \notin Holders(g)
    BY <1>2, OneHolder
  <2> QED BY <1>1, <1>2, <2>1 DEF MemoryTrue
<1>4. \A c \in Commands : jb[c] # "idle" => c \notin Holders(h)
  BY <1>1, <1>3 DEF RunsFirst, Unknown
<1> QED BY <1>3, <1>4

\* The record of a new handoff keeps what is held sound, whether the
\* memory follows or the append has thrown.
LEMMA HandoffSound ==
  ASSUME NEW t, NEW hd \in Seq(Handoffs), Distinct(hd), NEW ac \in SUBSET Handoffs, NEW st,
         NEW jb, Sound(t, hd, ac, st, jb), NEW h \in Handoffs, h \notin Range(t.order)
  PROVE  LET H == Append(Without(hd, {h}), h)
             J == Append(t.journal, Record("handoff", h, 0, t.seq))
         IN  /\ Sound(Written(t, "handoff", h, 0), H, ac \cup {h}, st \ Holders(h), jb)
             /\ Sound([t EXCEPT !.journal = J], H, ac \ {h}, st \ Holders(h), jb)
<1> DEFINE W == Written(t, "handoff", h, 0)
           r == Record("handoff", h, 0, t.seq)
           J == Append(t.journal, r)
           H == Append(Without(hd, {h}), h)
           st2 == st \ Holders(h)
<1>1. /\ t \in States /\ MemoryTrue(t.order, t.mem, hd, st) /\ HeldIn(Range(t.order), ac, st)
      /\ FileTrue(t.journal, hd, ac, st) /\ RunsFirst(t.order, t.mem, jb)
  BY DEF Sound
<1>2. t.journal \in Journals /\ t.seq \in Nat /\ t.order \in Seq(Handoffs)
      /\ Range(t.order) \subseteq Handoffs
  BY <1>1, InSequence DEF States
<1>3. /\ W \in States /\ W.journal = J /\ W.order = Append(t.order, h)
      /\ \A c \in Commands : W.mem[c] = IF c \in Holders(h) THEN Fresh ELSE t.mem[c]
  BY <1>1, WrittenHandoff
<1>4. J \in Journals /\ HandedIn(J) = HandedIn(t.journal) \cup {h}
  <2>1. r \in HandoffRecords /\ r.type = "handoff" /\ r.of = h
    BY <1>2 DEF HandoffRecords, Record
  <2> HIDE DEF r
  <2> QED BY <1>2, <2>1, AppendLines, HandoffsAppend
<1>5. FileTrue(J, H, ac \cup {h}, st2) /\ FileTrue(J, H, ac \ {h}, st2)
  <2> HIDE DEF H, st2
  <2>1. ac \cup {h} \in SUBSET (ac \cup {h}) /\ ac \ {h} \in SUBSET (ac \cup {h})
    OBVIOUS
  <2> QED BY <1>1, <1>2, <2>1, HandoffFile DEF H, st2
<1>6. /\ \A c \in Holders(h) : t.mem[c] = Unknown
      /\ \A c \in Commands : jb[c] # "idle" => c \notin Holders(h)
  BY HandoffApart
<1>7. OrderedIn(t.order, H) /\ OrderedIn(Append(t.order, h), H)
  BY <1>1, <1>2, HandedOrder DEF MemoryTrue
<1>8. Range(Append(t.order, h)) = Range(t.order) \cup {h}
  BY <1>2, AppendOrder
<1> HIDE DEF W, J, H
<1>9. MemoryTrue(t.order, t.mem, H, st2)
  <2> SUFFICES ASSUME NEW c \in Commands, t.mem[c].status \in Terminal PROVE c \in st2
    BY <1>1, <1>7 DEF MemoryTrue
  <2>1. c \in st
    BY <1>1 DEF MemoryTrue
  <2> QED BY <1>6, <2>1 DEF Unknown, Terminal
<1>10. HeldIn(Range(t.order), ac \ {h}, st2)
  <2> SUFFICES ASSUME NEW g \in ac \ {h} PROVE Holders(g) \subseteq st2 \/ g \in Range(t.order)
    BY DEF HeldIn
  <2>1. Holders(g) \cap Holders(h) = {}
    BY OneHolder
  <2> QED BY <1>1, <2>1 DEF HeldIn
<1>11. Sound([t EXCEPT !.journal = J], H, ac \ {h}, st2, jb)
  <2> HIDE DEF st2
  <2>1. Range(t.order) \subseteq HandedIn(J)
    BY <1>4 DEF Sound
  <2> QED BY <1>4, <1>5, <1>9, <1>10, <2>1, Lingers
<1>12. MemoryTrue(W.order, W.mem, H, st2)
  <2> SUFFICES ASSUME NEW c \in Commands
               PROVE  /\ W.mem[c].status = "unknown"
                           <=> \A g \in Range(t.order) \cup {h} : c \notin Holders(g)
                      /\ W.mem[c].status = "unknown" => W.mem[c] = Unknown
                      /\ W.mem[c].status \in Terminal => c \in st2
    BY <1>3, <1>7, <1>8 DEF MemoryTrue
  <2>1. CASE c \in Holders(h)
    <3>1. W.mem[c] = Fresh
      BY <1>3, <2>1
    <3> QED BY <2>1, <3>1 DEF Fresh, Unknown, Terminal
  <2>2. CASE c \notin Holders(h)
    <3>1. W.mem[c] = t.mem[c]
      BY <1>3, <2>2
    <3> QED BY <1>1, <2>2, <3>1 DEF MemoryTrue
  <2> QED BY <2>1, <2>2
<1>13. HeldIn(Range(W.order), ac \cup {h}, st2)
  <2> SUFFICES ASSUME NEW g \in ac, g # h PROVE Holders(g) \subseteq st2 \/ g \in Range(t.order)
    BY <1>3, <1>8 DEF HeldIn
  <2> QED BY <1>10 DEF HeldIn
<1>14. RunsFirst(W.order, W.mem, jb)
  <2> SUFFICES ASSUME NEW c \in Commands, jb[c] # "idle"
               PROVE  /\ W.mem[c].status = "pending"
                      /\ \A d \in Commands :
                           ScopeOf[d] = ScopeOf[c] /\ Follows(CommandOrder(W.order), d, c)
                             => W.mem[d].status # "pending"
    BY DEF RunsFirst
  <2>1. c \notin Holders(h) /\ W.mem[c] = t.mem[c] /\ t.mem[c].status = "pending"
    BY <1>1, <1>3, <1>6 DEF RunsFirst
  <2>2. ASSUME NEW d \in Commands, ScopeOf[d] = ScopeOf[c], Follows(CommandOrder(W.order), d, c)
        PROVE  W.mem[d].status # "pending"
    <3>1. Append(t.order, h) \in Seq(Handoffs)
          /\ \A x, y : Follows(Append(t.order, h), x, y)
               <=> Follows(t.order, x, y) \/ (x \in Range(t.order) /\ y = h)
      BY <1>2, AppendOrder
    <3>2. \/ \E f, g \in Handoffs : /\ Follows(Append(t.order, h), f, g)
                                    /\ d \in Holders(f) /\ c \in Holders(g)
          \/ \E g \in Range(Append(t.order, h)) : Follows(CommandsOf[g], d, c)
      BY <1>3, <2>2, <3>1, CommandsInOrder
    <3>3. CASE \E f, g \in Handoffs : /\ Follows(Append(t.order, h), f, g)
                                      /\ d \in Holders(f) /\ c \in Holders(g)
      <4>1. PICK f, g \in Handoffs : /\ Follows(Append(t.order, h), f, g)
                                     /\ d \in Holders(f) /\ c \in Holders(g)
        BY <3>3
      <4>2. Follows(t.order, f, g)
        BY <2>1, <3>1, <4>1
      <4>3. Follows(CommandOrder(t.order), d, c)
        BY <1>2, <4>1, <4>2, CommandsInOrder
      <4>4. f # h
        BY <1>2, <4>2, FollowsBoth
      <4>5. d \notin Holders(h)
        BY <4>1, <4>4, OneHolder
      <4> QED BY <1>1, <1>3, <2>2, <4>3, <4>5 DEF RunsFirst
    <3>4. CASE \E g \in Range(Append(t.order, h)) : Follows(CommandsOf[g], d, c)
      <4>1. PICK g \in Range(Append(t.order, h)) : Follows(CommandsOf[g], d, c)
        BY <3>4
      <4>2. g \in Handoffs
        BY <1>2, <1>8, <4>1
      <4>3. d \in Holders(g) /\ c \in Holders(g)
        BY <4>1, <4>2, HoldersType, FollowsBoth DEF Holders
      <4>4. g # h /\ g \in Range(t.order)
        BY <1>8, <2>1, <4>1, <4>3
      <4>5. Follows(CommandOrder(t.order), d, c)
        BY <1>2, <4>1, <4>4, CommandsInOrder
      <4>6. d \notin Holders(h)
        BY <4>2, <4>3, <4>4, OneHolder
      <4> QED BY <1>1, <1>3, <2>2, <4>5, <4>6 DEF RunsFirst
    <3> QED BY <3>2, <3>3, <3>4
  <2> QED BY <2>1, <2>2
<1>15. Range(W.order) \subseteq HandedIn(W.journal)
  BY <1>3, <1>4, <1>8 DEF Sound
<1>16. Sound(W, H, ac \cup {h}, st2, jb)
  BY <1>3, <1>5, <1>12, <1>13, <1>14, <1>15 DEF Sound
<1> QED BY <1>11, <1>16 DEF W, J, H

\* It keeps the memory and the file in agreement.
LEMMA HandoffSteady ==
  ASSUME NEW t, NEW hd \in Seq(Handoffs), Distinct(hd), NEW ac, NEW st, NEW jb,
         Sound(t, hd, ac, st, jb), Steady(t, jb), NEW h \in Handoffs, h \notin Range(t.order)
  PROVE  Steady(Written(t, "handoff", h, 0), jb)
<1> DEFINE W == Written(t, "handoff", h, 0)
           r == Record("handoff", h, 0, t.seq)
           j == t.journal
           J == Append(j, r)
<1>1. t \in States /\ MemoryTrue(t.order, t.mem, hd, st)
  BY DEF Sound
<1>2. /\ Tried(t.mem) /\ TriedAgain(t.mem, jb) /\ t.seq = Len(j) + 1
      /\ Readable(j) => Matches(j, t.order, t.mem)
  BY DEF Steady
<1>3. j \in Journals /\ t.order \in Seq(Handoffs) /\ t.seq \in Nat
  BY <1>1 DEF States
<1>4. /\ W.journal = J /\ W.seq = t.seq + 1 /\ W.order = Append(t.order, h)
      /\ \A c \in Commands : W.mem[c] = IF c \in Holders(h) THEN Fresh ELSE t.mem[c]
  BY <1>1, WrittenHandoff
<1>5. r \in HandoffRecords \cup CommandRecords /\ r.type = "handoff" /\ r.of = h /\ r.attempt = 0
  BY <1>3 DEF HandoffRecords, Record
<1>6. \A c \in Commands : jb[c] # "idle" => c \notin Holders(h)
  BY HandoffApart
<1>7. J \in Journals /\ Len(J) = Len(j) + 1
  BY <1>3, <1>5, AppendLines
<1> HIDE DEF W, J, r, j
<1>8. Tried(W.mem)
  BY <1>2, <1>4 DEF Tried, Fresh, Unknown
<1>9. TriedAgain(W.mem, jb)
  BY <1>2, <1>4, <1>6 DEF TriedAgain
<1>10. W.seq = Len(W.journal) + 1
  BY <1>2, <1>3, <1>4, <1>7
<1>11. ASSUME Readable(J) PROVE Matches(J, W.order, W.mem)
  <2>1. /\ Readable(j)
        /\ h \notin HandedIn(j) /\ \A c \in Holders(h) : Lines(j, c, Len(j) + 1) = {}
    BY <1>3, <1>5, <1>11, ReadableBefore DEF J
  <2>2. HandoffsIn(j) = t.order /\ \A c \in Commands : Same(Recalled(j, c), t.mem[c])
    BY <1>2, <2>1 DEF Matches
  <2>3. HandoffsIn(J) = W.order
    <3>1. \A a, b : Follows(HandoffsIn(J), a, b)
                      <=> Follows(HandoffsIn(j), a, b) \/ (a \in HandedIn(j) /\ b = h)
      BY <1>3, <1>5, HandoffsAppend DEF J
    <3>2. HandedIn(J) = HandedIn(j) \cup {h}
      BY <1>3, <1>5, HandoffsAppend DEF J
    <3>3. /\ Range(HandoffsIn(J)) = HandedIn(J) /\ Range(HandoffsIn(j)) = HandedIn(j)
          /\ HandoffsIn(J) \in Seq(Handoffs)
      BY <1>3, <1>7, HandoffsOrder
    <3>4. /\ W.order \in Seq(Handoffs) /\ Range(W.order) = Range(t.order) \cup {h}
          /\ \A a, b : Follows(W.order, a, b)
               <=> Follows(t.order, a, b) \/ (a \in Range(t.order) /\ b = h)
      BY <1>3, <1>4, AppendOrder
    <3>5. /\ Range(HandoffsIn(J)) = Range(W.order)
          /\ \A a, b : Follows(HandoffsIn(J), a, b) <=> Follows(W.order, a, b)
      BY <2>2, <3>1, <3>2, <3>3, <3>4
    <3>6. \A a : ~ Follows(t.order, a, a)
      <4>1. Distinct(t.order)
        BY <1>1, <1>3, OrderedIsDistinct DEF MemoryTrue
      <4> QED BY <1>3, <4>1, DistinctOrder
    <3>7. Distinct(W.order)
      <4>1. \A a : ~ Follows(W.order, a, a)
        BY <3>4, <3>6
      <4> QED BY <3>4, <4>1, DistinctOrder
    <3>8. Distinct(HandoffsIn(J))
      <4>1. \A a : ~ Follows(HandoffsIn(J), a, a)
        BY <3>5, <3>7, <3>4, DistinctOrder
      <4> QED BY <3>3, <4>1, DistinctOrder
    <3> QED BY <3>3, <3>4, <3>5, <3>7, <3>8, SameLine
  <2>4. ASSUME NEW c \in Commands PROVE Same(Recalled(J, c), W.mem[c])
    <3>1. r.of # c
      BY <1>5, OutboxAssumption
    <3>2. CASE c \notin Holders(h)
      <4>1. ~ (r.of = c \/ (r.type = "handoff" /\ c \in Holders(r.of)))
        BY <1>5, <3>1, <3>2
      <4>2. Recalled(Append(j, r), c) = Recalled(j, c)
        BY <1>3, <1>5, <4>1, RecalledAppend, Zenon
      <4>3. W.mem[c] = t.mem[c]
        BY <1>4, <3>2
      <4> QED BY <2>2, <4>2, <4>3 DEF J
    <3>3. CASE c \in Holders(h)
      <4>1. r.of = c \/ (r.type = "handoff" /\ c \in Holders(r.of))
        BY <1>5, <3>3
      <4>2. Recalled(Append(j, r), c) =
              [status   |-> IF r.type \in Terminal THEN r.type ELSE "pending",
               attempts |-> r.attempt,
               due      |-> r.type # "retry",
               failed   |-> (r.type = "retry" \/ Recalled(j, c).failed)]
        BY <1>3, <1>5, <4>1, RecalledAppend, Zenon
      <4>3. Recalled(j, c) = Unknown
        BY <2>1, <3>3, Zenon DEF Recalled
      <4>4. /\ Recalled(Append(j, r), c).status = "pending"
            /\ Recalled(Append(j, r), c).attempts = 0
            /\ Recalled(Append(j, r), c).failed = FALSE
        <5> DEFINE f == r.type = "retry" \/ Recalled(j, c).failed
        <5>1. Recalled(j, c).failed = FALSE
          BY <4>3 DEF Unknown
        <5>2. f = FALSE
          BY <1>5, <5>1
        <5>3. r.type \notin Terminal
          BY <1>5 DEF Terminal
        <5>4. Recalled(Append(j, r), c) =
                [status   |-> "pending", attempts |-> 0, due |-> r.type # "retry", failed |-> f]
          BY <1>5, <4>2, <5>3, Zenon
        <5> HIDE DEF f
        <5> QED BY <5>2, <5>4
      <4>5. W.mem[c] = Fresh
        BY <1>4, <3>3
      <4> QED BY <4>4, <4>5 DEF Same, Fresh, Unknown, J
    <3> QED BY <3>2, <3>3
  <2> QED BY <2>3, <2>4 DEF Matches
<1> QED BY <1>4, <1>8, <1>9, <1>10, <1>11 DEF Steady, W

-----------------------------------------------------------------------------
(* What a start reads *)

\* What a journal says of a command is what its latest line says.
LEMMA RecalledType ==
  ASSUME NEW j \in Journals, NEW c
  PROVE  /\ Recalled(j, c) \in [status : {"unknown", "pending"} \cup Terminal,
                                attempts : Nat, due : BOOLEAN, failed : BOOLEAN]
         /\ Lines(j, c, Len(j) + 1) = {} => Recalled(j, c) = Unknown
         /\ Lines(j, c, Len(j) + 1) # {} =>
              /\ Latest(Lines(j, c, Len(j) + 1)) \in Lines(j, c, Len(j) + 1)
              /\ \A k \in Lines(j, c, Len(j) + 1) : k <= Latest(Lines(j, c, Len(j) + 1))
              /\ Recalled(j, c).status =
                   IF j[Latest(Lines(j, c, Len(j) + 1))].type \in Terminal
                   THEN j[Latest(Lines(j, c, Len(j) + 1))].type ELSE "pending"
<1> DEFINE L == Lines(j, c, Len(j) + 1)
           e == j[Latest(L)]
           f == \E i \in L : j[i].type = "retry"
           v == IF e.type \in Terminal THEN e.type ELSE "pending"
           T == [status : {"unknown", "pending"} \cup Terminal,
                 attempts : Nat, due : BOOLEAN, failed : BOOLEAN]
<1>1. Len(j) \in Nat
  BY DEF Journals
<1>2. L \in SUBSET (1..Len(j))
  BY <1>1 DEF Lines
<1>3. Recalled(j, c) =
        IF L = {} THEN Unknown
        ELSE [status |-> v, attempts |-> e.attempt, due |-> e.type # "retry", failed |-> f]
  BY Zenon DEF Recalled
<1>4. f \in BOOLEAN
  OBVIOUS
<1> HIDE DEF L, f
<1>5. CASE L = {}
  <2>1. Recalled(j, c) = Unknown
    BY <1>3, <1>5, Zenon
  <2>2. Unknown \in T
    BY DEF Unknown
  <2> QED BY <1>5, <2>1, <2>2, Zenon DEF L
<1>6. CASE L # {}
  <2>1. Latest(L) \in L /\ \A k \in L : k <= Latest(L)
    BY <1>1, <1>2, <1>6, LatestIn
  <2>2. e.attempt \in Nat
    BY <1>2, <2>1, LineKinds
  <2>3. v \in {"unknown", "pending"} \cup Terminal
    OBVIOUS
  <2> HIDE DEF e, v
  <2>4. Recalled(j, c) =
          [status |-> v, attempts |-> e.attempt, due |-> e.type # "retry", failed |-> f]
    BY <1>3, <1>6, Zenon
  <2>5. Recalled(j, c) \in T /\ Recalled(j, c).status = v
    BY <1>4, <2>2, <2>3, <2>4
  <2> QED BY <1>6, <2>1, <2>5, Zenon DEF L, e, v
<1> QED BY <1>5, <1>6

\* A start from a file that is true holds something sound.
LEMMA ReplaySound ==
  ASSUME NEW j \in Journals, Readable(j), NEW hd, NEW ac, NEW st, NEW jb,
         FileTrue(j, hd, ac, st), \A c \in Commands : jb[c] = "idle"
  PROVE  /\ Sound(Replayed(j), hd, ac, st, jb)
         /\ Recoverable(j) => Steady(Replayed(j), jb)
<1> DEFINE s == Replayed(j)
           m == [c \in Commands |-> Recalled(j, c)]
<1>1. s = [journal |-> j, seq |-> Len(j) + 1, mem |-> m, order |-> HandoffsIn(j)]
  BY Zenon DEF Replayed
<1>2. Len(j) \in Nat /\ HandoffsIn(j) \in Seq(Handoffs) /\ Range(HandoffsIn(j)) = HandedIn(j)
  BY HandoffsOrder DEF Journals
<1>3. m \in Memories
  BY RecalledType DEF Memories
<1>4. \A c \in Commands : m[c] = Recalled(j, c)
  OBVIOUS
<1> HIDE DEF s, m
<1>5. /\ s \in States /\ s.journal = j /\ s.seq = Len(j) + 1 /\ s.mem = m
      /\ s.order = HandoffsIn(j)
  BY <1>1, <1>2, <1>3 DEF States
<1>6. ASSUME NEW c \in Commands
      PROVE  /\ m[c].status = "unknown" <=> \A h \in HandedIn(j) : c \notin Holders(h)
             /\ m[c].status = "unknown" => m[c] = Unknown
             /\ m[c].status \in Terminal => c \in st
  <2> DEFINE L == Lines(j, c, Len(j) + 1)
             l == Latest(L)
  <2>1. L = {i \in 1..Len(j) : j[i].of = c \/ (j[i].type = "handoff" /\ c \in Holders(j[i].of))}
    BY <1>2 DEF Lines
  <2>2. /\ L = {} => m[c] = Unknown
        /\ L # {} => /\ l \in L /\ \A k \in L : k <= l
                     /\ m[c].status = IF j[l].type \in Terminal THEN j[l].type ELSE "pending"
    BY <1>4, RecalledType
  <2>3. L # {} <=> \E h \in HandedIn(j) : c \in Holders(h)
    <3>1. ASSUME L # {} PROVE \E h \in HandedIn(j) : c \in Holders(h)
      <4>1. L \in SUBSET Nat
        BY <1>2, <2>1
      <4> HIDE DEF L
      <4>2. PICK i \in L : \A k \in L : i <= k
        BY <3>1, <4>1, LeastExists
      <4>3. i \in 1..Len(j)
        BY <2>1, <4>2
      <4>4. CASE j[i].type = "handoff"
        <5>1. j[i].of # c
          BY <4>3, <4>4, LineKinds
        <5>2. c \in Holders(j[i].of)
          BY <2>1, <4>2, <5>1
        <5>3. j[i].of \in HandedIn(j)
          BY <4>3, <4>4 DEF HandedIn
        <5> QED BY <5>2, <5>3
      <4>5. CASE j[i].type # "handoff"
        <5>1. j[i].of = c
          BY <2>1, <4>2, <4>5
        <5>2. Lines(j, c, i) # {}
          <6>1. LET lines == Lines(j, j[i].of, i) IN lines # {}
            BY <4>3, <4>5 DEF Readable
          <6> QED BY <5>1, <6>1
        <5>3. PICK k \in 1..(i - 1) : j[k].of = c \/ (j[k].type = "handoff" /\ c \in Holders(j[k].of))
          BY <5>2 DEF Lines
        <5>4. k \in L /\ k < i
          BY <1>2, <2>1, <4>3, <5>3
        <5> QED BY <4>2, <4>3, <5>4
      <4> QED BY <4>4, <4>5
    <3>2. ASSUME NEW h \in HandedIn(j), c \in Holders(h) PROVE L # {}
      <4>1. PICK i \in 1..Len(j) : j[i].type = "handoff" /\ j[i].of = h
        BY DEF HandedIn
      <4>2. i \in L
        BY <2>1, <3>2, <4>1
      <4> QED BY <4>2
    <3> QED BY <3>1, <3>2
  <2>4. ASSUME m[c].status \in Terminal PROVE c \in st
    <3>1. L # {}
      BY <2>2, <2>4 DEF Unknown, Terminal
    <3> HIDE DEF L
    <3>2. l \in L /\ (\A k \in L : k <= l) /\ j[l].type \in Terminal
      BY <2>2, <2>4, <3>1 DEF Terminal
    <3>3. l \in 1..Len(j) /\ j[l].type # "handoff" /\ j[l].of = c
      BY <2>1, <3>2 DEF Terminal
    <3> DEFINE from == {i \in 1..Len(j) : j[i].type = "handoff" /\ c \in Holders(j[i].of)}
    <3>4. \A f \in from : f < l
      <4> SUFFICES ASSUME NEW f \in from PROVE f < l
        OBVIOUS
      <4>1. f \in L /\ f \in 1..Len(j) /\ f # l
        BY <2>1, <3>3
      <4>2. f <= l
        BY <3>2, <4>1
      <4> QED BY <1>2, <3>3, <4>1, <4>2
    <3>5. Trail(j, c) = {"handoff" : f \in from}
                        \cup {j[i].type : i \in {k \in 1..Len(j) :
                                                   j[k].of = c /\ \A f \in from : f < k}}
      BY Zenon DEF Trail
    <3> HIDE DEF from, l
    <3>6. j[l].type \in Trail(j, c)
      BY <3>3, <3>4, <3>5
    <3>7. Trail(j, c) \cap Terminal # {}
      BY <3>2, <3>6
    <3> QED BY <3>7 DEF FileTrue
  <2>5. L # {} => m[c].status # "unknown"
    BY <2>2 DEF Terminal
  <2> HIDE DEF L, l
  <2> QED BY <2>2, <2>3, <2>4, <2>5 DEF Unknown
<1>7. MemoryTrue(s.order, s.mem, hd, st)
  <2>1. OrderedIn(HandoffsIn(j), hd)
    BY DEF FileTrue
  <2> QED BY <1>2, <1>5, <1>6, <2>1 DEF MemoryTrue
<1>8. HeldIn(Range(s.order), ac, st)
  BY <1>2, <1>5 DEF FileTrue
<1>9. RunsFirst(s.order, s.mem, jb) /\ TriedAgain(s.mem, jb)
  BY DEF RunsFirst, TriedAgain
<1>10. Sound(s, hd, ac, st, jb)
  BY <1>2, <1>5, <1>7, <1>8, <1>9 DEF Sound
<1>11. ASSUME Recoverable(j) PROVE Steady(s, jb)
  <2>1. Tried(m)
    BY <1>11 DEF Recoverable, m
  <2>2. Matches(j, s.order, s.mem)
    BY <1>4, <1>5 DEF Matches, Same
  <2> QED BY <1>5, <1>9, <2>1, <2>2 DEF Steady
<1> QED BY <1>10, <1>11 DEF s
-----------------------------------------------------------------------------
(* What every step is shown to establish *)

Bare ==
  /\ phase \in {"down", "refused", "up", "draining", "aborting", "stuck"}
  /\ degraded \in BOOLEAN /\ timer \in BOOLEAN
  /\ job \in [Commands -> {"idle", "dispatching", "calling", "ok", "error", "refusal"}]
  /\ batches \subseteq (SUBSET Commands) \ {{}} /\ round \subseteq Commands
  /\ settled \subseteq Commands /\ expired \subseteq Handoffs
  /\ admitted \subseteq Handoffs
  /\ handed \in Seq(Handoffs) /\ accepted \subseteq Range(handed)
  /\ torn \in BOOLEAN /\ faults \in Nat

\* The type invariant is that of what is held and of the rest.
LEMMA TypeParts ==
  /\ TypeOK <=> Holding \in States /\ Bare
  /\ TypeOK' <=> Holding' \in States /\ Bare'
<1>1. TypeOK <=> /\ journal \in Journals /\ seq \in Nat /\ mem \in Memories
                 /\ order \in Seq(Handoffs) /\ Bare
  BY Zenon DEF TypeOK, Bare, Journals, Memories, HandoffRecords, CommandRecords
<1>2. TypeOK' <=> /\ journal' \in Journals /\ seq' \in Nat /\ mem' \in Memories
                  /\ order' \in Seq(Handoffs) /\ Bare'
  BY Zenon DEF TypeOK, Bare, Journals, Memories, HandoffRecords, CommandRecords
<1>3. ASSUME NEW a, NEW b, NEW m, NEW o
      PROVE  [journal |-> a, seq |-> b, mem |-> m, order |-> o] \in States
               <=> a \in Journals /\ b \in Nat /\ m \in Memories /\ o \in Seq(Handoffs)
  BY DEF States
<1>4. Holding \in States <=> /\ journal \in Journals /\ seq \in Nat /\ mem \in Memories
                             /\ order \in Seq(Handoffs)
  BY <1>3, Zenon DEF Holding
<1>5. Holding' \in States <=> /\ journal' \in Journals /\ seq' \in Nat /\ mem' \in Memories
                              /\ order' \in Seq(Handoffs)
  BY <1>3, Zenon DEF Holding
<1> QED BY <1>1, <1>2, <1>4, <1>5

\* The parts of what is held.
LEMMA HoldingParts ==
  /\ Holding.journal = journal /\ Holding.seq = seq /\ Holding.mem = mem
  /\ Holding.order = order
BY DEF Holding

\* A step holds s.
LEMMA Kept ==
  ASSUME NEW s \in States, Holds(s)
  PROVE  Holding' = s /\ journal' = s.journal
<1>1. s = [journal |-> s.journal, seq |-> s.seq, mem |-> s.mem, order |-> s.order]
  BY DEF States
<1> QED BY <1>1, Zenon DEF Holds, Holding

\* What a step of a process that is up has to establish.
LEMMA StaysUp ==
  ASSUME NEW s, Holds(s), Up', Bare', Distinct(handed'),
         Sound(s, handed', accepted', settled', job'),
         ~ torn' => ~ degraded' /\ Steady(s, job')
  PROVE  IInv'
<1>1. s \in States /\ FileTrue(s.journal, handed', accepted', settled')
  BY DEF Sound
<1>2. Holding' = s /\ journal' = s.journal
  BY <1>1, Kept
<1>3. TypeOK'
  BY <1>1, <1>2, TypeParts
<1>4. ~ torn' => Recoverable(journal')
  BY <1>2, RecoverableBySteady
<1> QED BY <1>1, <1>2, <1>3, <1>4 DEF IInv, ReleasedIsQuiet

\* What a step that leaves the process down has to establish.
LEMMA StaysDown ==
  ASSUME TypeOK', ~ Up', Running' = {}, Distinct(handed'),
         FileTrue(journal', handed', accepted', settled'),
         ~ torn' => ~ degraded' /\ Recoverable(journal')
  PROVE  IInv'
BY DEF IInv, ReleasedIsQuiet

\* What a step of a process that is up begins with.
LEMMA BeginsUp ==
  ASSUME IInv, Up
  PROVE  /\ Sound(Holding, handed, accepted, settled, job) /\ Bare /\ Distinct(handed)
         /\ Holding \in States /\ handed \in Seq(Handoffs) /\ accepted \in SUBSET Handoffs
         /\ ~ torn => ~ degraded /\ Steady(Holding, job)
<1>1. TypeOK /\ Sound(Holding, handed, accepted, settled, job) /\ Distinct(handed)
      /\ (~ torn => ~ degraded /\ Steady(Holding, job))
  BY DEF IInv
<1>2. Bare /\ Holding \in States
  BY <1>1, TypeParts
<1>3. handed \in Seq(Handoffs) /\ accepted \in SUBSET Handoffs
  BY <1>2, InSequence DEF Bare
<1> QED BY <1>1, <1>2, <1>3

\* A step that leaves it alone holds what was held.
LEMMA HeldAlone == \A s : UNCHANGED <<journal, seq, mem, order>> => Holds(Holding)
BY DEF Holds, Holding

-----------------------------------------------------------------------------
(* Steps that write nothing *)

\* An answer, an admission, the stops but the last step of one, and a drain that is
\* cancelled.
LEMMA QuietSteps ==
  ASSUME IInv,
         \/ \E mode \in {"draining", "aborting"} : Stop(mode)
         \/ CancelDrain \/ AbortTimesOut \/ DrainEnds
         \/ \E h \in Handoffs : Request(h)
         \/ \E c \in Commands : \E how \in {"ok", "error", "refusal"} : Answer(c, how)
  PROVE  IInv'
<1>1. Up /\ Up'
  <2>1. CASE \E c \in Commands : \E how \in {"ok", "error", "refusal"} : Answer(c, how)
    BY <2>1 DEF Answer, IInv, ReleasedIsQuiet, Running, Up
  <2> QED BY <2>1 DEF Stop, CancelDrain, AbortTimesOut, DrainEnds, Request, Up
<1>2. /\ Sound(Holding, handed, accepted, settled, job) /\ Bare /\ Distinct(handed)
      /\ ~ torn => ~ degraded /\ Steady(Holding, job)
  BY <1>1, BeginsUp
<1>3. UNCHANGED <<journal, seq, mem, order, handed, accepted, settled, expired,
                  degraded, torn, batches, round>>
  BY DEF Stop, CancelDrain, AbortTimesOut, DrainEnds, Request, Answer, Calm
<1>4. \A c \in Commands : /\ job'[c] # "idle" => job[c] # "idle"
                          /\ job'[c] \in {"calling", "ok", "error", "refusal"}
                               => job[c] \in {"calling", "ok", "error", "refusal"}
  BY <1>2 DEF Stop, CancelDrain, AbortTimesOut, DrainEnds, Request, Answer, Bare
<1>5. Sound(Holding, handed', accepted', settled', job')
  BY <1>2, <1>3, <1>4 DEF Sound, RunsFirst
<1>6. ~ torn' => ~ degraded' /\ Steady(Holding, job')
  BY <1>2, <1>3, <1>4 DEF Steady, TriedAgain
<1>7. Bare'
  <2>1. job' \in [Commands -> {"idle", "dispatching", "calling", "ok", "error", "refusal"}]
    BY <1>2 DEF Stop, CancelDrain, AbortTimesOut, DrainEnds, Request, Answer, Bare
  <2>2. faults' \in Nat
    BY <1>2 DEF Stop, CancelDrain, AbortTimesOut, DrainEnds, Request, Answer, Calm, Strikes, Bare
  <2>3. phase' \in {"down", "refused", "up", "draining", "aborting", "stuck"}
    BY <1>2 DEF Stop, CancelDrain, AbortTimesOut, DrainEnds, Request, Answer, Bare
  <2>4. timer' \in BOOLEAN
    BY <1>2 DEF Stop, CancelDrain, AbortTimesOut, DrainEnds, Request, Answer, Scheduled, Bare
  <2>5. admitted' \subseteq Handoffs
    BY <1>2 DEF Stop, CancelDrain, AbortTimesOut, DrainEnds, Request, Answer, Bare
  <2> QED BY <1>2, <1>3, <2>1, <2>2, <2>3, <2>4, <2>5, Zenon DEF Bare
<1>8. Holds(Holding) /\ Distinct(handed')
  BY <1>2, <1>3, HeldAlone
<1> QED BY <1>1, <1>5, <1>6, <1>7, <1>8, StaysUp

\* A backoff that runs out.
LEMMA ElapseStep ==
  ASSUME IInv, NEW c \in Commands, Elapse(c)
  PROVE  IInv'
<1> DEFINE s == [journal |-> journal, seq |-> seq, mem |-> mem', order |-> order]
<1>1. Up /\ Up'
  BY DEF Elapse, Up
<1>2. /\ Sound(Holding, handed, accepted, settled, job) /\ Bare /\ Distinct(handed)
      /\ Holding \in States
      /\ ~ torn => ~ degraded /\ Steady(Holding, job)
  BY <1>1, BeginsUp
<1>3. journal \in Journals /\ seq \in Nat /\ mem \in Memories /\ order \in Seq(Handoffs)
  BY <1>2, HoldingParts DEF States
<1>4. /\ mem' \in Memories /\ \A d \in Commands : Same(mem'[d], mem[d])
      /\ \A d \in Commands : d # c => mem'[d] = mem[d]
      /\ mem'[c].status = "pending"
  BY <1>3 DEF Elapse, Memories, Same
<1>5. /\ s \in States /\ s.journal = journal /\ s.seq = seq /\ s.mem = mem' /\ s.order = order
      /\ Holds(s)
  BY <1>3, <1>4 DEF States, Holds, Elapse
<1> HIDE DEF s
<1>6. MemoryTrue(order, mem', handed, settled)
  <2>1. MemoryTrue(order, mem, handed, settled)
    BY <1>2, HoldingParts DEF Sound
  <2> SUFFICES ASSUME NEW d \in Commands
               PROVE  /\ mem'[d].status = "unknown" <=> \A h \in Range(order) : d \notin Holders(h)
                      /\ mem'[d].status = "unknown" => mem'[d] = Unknown
                      /\ mem'[d].status \in Terminal => d \in settled
    BY <2>1 DEF MemoryTrue
  <2>2. mem'[d].status = mem[d].status
    BY <1>4 DEF Same
  <2>3. CASE d = c
    BY <1>4, <2>1, <2>2, <2>3 DEF MemoryTrue
  <2>4. CASE d # c
    BY <1>4, <2>1, <2>2, <2>4 DEF MemoryTrue
  <2> QED BY <2>3, <2>4
<1>7. UNCHANGED <<handed, accepted, settled, job, torn, degraded>>
  BY DEF Elapse
<1>8. Sound(s, handed', accepted', settled', job')
  <2>1. RunsFirst(order, mem', job)
    BY <1>2, <1>4, HoldingParts DEF Sound, RunsFirst, Same
  <2> QED BY <1>2, <1>5, <1>6, <1>7, <2>1, HoldingParts DEF Sound
<1>9. ~ torn' => ~ degraded' /\ Steady(s, job')
  <2> SUFFICES ASSUME ~ torn PROVE ~ degraded /\ Steady(s, job)
    BY <1>7
  <2>1. /\ Tried(mem) /\ TriedAgain(mem, job) /\ seq = Len(journal) + 1
        /\ Readable(journal) => Matches(journal, order, mem)
    BY <1>2, HoldingParts DEF Steady
  <2>2. Tried(mem') /\ TriedAgain(mem', job)
    BY <1>4, <2>1 DEF Tried, TriedAgain, Same
  <2>3. Matches(journal, order, mem) => Matches(journal, order, mem')
    BY <1>4 DEF Matches, Same
  <2> QED BY <1>2, <1>5, <2>1, <2>2, <2>3 DEF Steady
<1>10. Bare' /\ Distinct(handed')
  BY <1>2, Zenon DEF Elapse, Bare
<1> QED BY <1>1, <1>5, <1>8, <1>9, <1>10, StaysUp

\* A retention that runs out.
LEMMA ExpireStep ==
  ASSUME IInv, NEW h \in Handoffs, Expire(h)
  PROVE  IInv'
<1>1. UNCHANGED <<journal, seq, mem, order, phase, degraded, timer, job, batches,
                  round, admitted, handed, accepted, settled, torn>>
  BY DEF Expire
<1>2. Holding' = Holding
  BY <1>1, Zenon DEF Holding
<1>3. Bare /\ Holding \in States
  BY TypeParts DEF IInv
<1>4. Bare'
  <2>1. faults' \in Nat /\ expired' \subseteq Handoffs
    BY <1>3 DEF Expire, Strikes, Bare
  <2> QED BY <1>1, <1>3, <2>1, Zenon DEF Bare
<1>5. TypeOK'
  BY <1>2, <1>3, <1>4, TypeParts
<1>6. Up' = Up /\ Running' = Running
  BY <1>1 DEF Up, Running
<1> QED BY <1>1, <1>2, <1>5, <1>6, Zenon DEF IInv, ReleasedIsQuiet

-----------------------------------------------------------------------------
(* Starts and ends *)

\* A start: refused, done, or failed in its first rewrite.
LEMMA StartStep ==
  ASSUME IInv, Start
  PROVE  IInv'
<1> DEFINE s == Replayed(journal)
<1>1. /\ TypeOK /\ Bare /\ Distinct(handed) /\ FileTrue(journal, handed, accepted, settled)
      /\ journal \in Journals /\ handed \in Seq(Handoffs) /\ accepted \in SUBSET Handoffs
      /\ ~ torn => ~ degraded /\ Recoverable(journal)
  <2>1. TypeOK /\ Bare /\ Holding \in States
    BY TypeParts DEF IInv
  <2>2. journal \in Journals
    BY <2>1, HoldingParts DEF States
  <2>3. handed \in Seq(Handoffs) /\ accepted \in SUBSET Handoffs
    BY <2>1, InSequence DEF Bare
  <2> QED BY <2>1, <2>2, <2>3 DEF IInv
<1>2. /\ phase = "down" /\ ~ Up
      /\ UNCHANGED <<degraded, job, batches, round, admitted, handed, accepted, settled,
                     expired>>
  BY DEF Start, Up
<1>3. \A c \in Commands : job[c] = "idle"
  BY <1>2 DEF IInv, ReleasedIsQuiet, Running
<1>4. Running' = {}
  BY <1>2, <1>3 DEF Running
<1>5. Readable(journal) =>
        /\ Sound(s, handed, accepted, settled, job)
        /\ Recoverable(journal) => Steady(s, job)
  BY <1>1, <1>3, ReplaySound, Zenon
<1>6. CASE ~ Loads /\ phase' = "refused" /\ UNCHANGED <<journal, seq, mem, order, timer>> /\ Calm
  <2>1. Bare'
    BY <1>1, <1>2, <1>6, Zenon DEF Bare, Calm
  <2>2. Holding' = Holding
    BY <1>6, Zenon DEF Holding
  <2>3. TypeOK' /\ ~ Up'
    BY <1>1, <1>6, <2>1, <2>2, TypeParts DEF Up
  <2> QED BY <1>1, <1>2, <1>4, <1>6, <2>3, StaysDown, Zenon DEF Calm
<1>7. CASE /\ Loads /\ phase' = "up"
           /\ Holds(IF Prunable(s) # {} THEN Compacted(s) ELSE s)
           /\ timer' = (Pending(mem') # {}) /\ Calm
  <2> DEFINE t == IF Prunable(s) # {} THEN Compacted(s) ELSE s
  <2>1. Sound(s, handed, accepted, settled, job)
        /\ (Recoverable(journal) => Steady(s, job))
    BY <1>5, <1>7 DEF Loads
  <2> HIDE DEF s
  <2>2. /\ Sound(Compacted(s), handed, accepted, settled, job)
        /\ Steady(s, job) => Steady(Compacted(s), job)
    BY <1>1, <2>1, CompactedSound
  <2>3. /\ Sound(t, handed, accepted, settled, job)
        /\ Recoverable(journal) => Steady(t, job)
    BY <2>1, <2>2
  <2>4. Bare'
    <3>1. timer' \in BOOLEAN
      BY <1>7
    <3> QED BY <1>1, <1>2, <1>7, <3>1 DEF Bare, Calm
  <2>5. Up' /\ Holds(t)
    BY <1>7 DEF Up, s
  <2> HIDE DEF t
  <2>6. Sound(t, handed', accepted', settled', job') /\ Distinct(handed')
    BY <1>1, <1>2, <2>3
  <2>7. ~ torn' => ~ degraded' /\ Steady(t, job')
    BY <1>1, <1>2, <1>7, <2>3 DEF Calm
  <2> QED BY <2>4, <2>5, <2>6, <2>7, StaysUp
<1>8. CASE /\ Loads /\ Prunable(s) # {} /\ WriteFails
           /\ \E m \in Miscompacted(s) : journal' = m.journal
           /\ UNCHANGED <<seq, mem, order, timer, phase>>
  <2>1. Sound(s, handed, accepted, settled, job)
    BY <1>5, <1>8 DEF Loads
  <2> HIDE DEF s
  <2>2. PICK m \in Miscompacted(s) : journal' = m.journal
    BY <1>8 DEF s
  <2>3. Sound(m, handed, accepted, settled, job)
    BY <1>1, <2>1, CompactedSound
  <2>4. journal' \in Journals /\ FileTrue(journal', handed', accepted', settled')
    BY <1>2, <2>2, <2>3 DEF Sound, States
  <2>5. Bare'
    BY <1>1, <1>2, <1>8 DEF Bare, WriteFails, Strikes
  <2>6. Holding' \in States
    <3>1. /\ seq \in Nat /\ mem \in Memories /\ order \in Seq(Handoffs)
      BY <1>1, TypeParts, HoldingParts DEF States
    <3> QED BY <1>8, <2>4, <3>1 DEF Holding, States
  <2>7. TypeOK' /\ ~ Up' /\ torn'
    BY <1>2, <1>8, <2>5, <2>6, TypeParts DEF Up, WriteFails
  <2> QED BY <1>1, <1>2, <1>4, <2>4, <2>7, StaysDown
<1> QED BY <1>6, <1>7, <1>8, Zenon DEF Start

\* A process that is gone leaves a journal the next one can trust.
LEMMA GoneStep ==
  ASSUME IInv, Gone, UNCHANGED torn, faults' \in Nat, job' \in [Commands -> {"idle"}],
         journal' \in Journals, FileTrue(journal', handed, accepted, settled),
         ~ torn => Recoverable(journal')
  PROVE  IInv'
<1>1. Bare /\ Distinct(handed)
  BY TypeParts DEF IInv
<1>2. Holding' \in States
  <2>1. [c \in Commands |-> Unknown] \in Memories
    BY DEF Memories, Unknown
  <2>2. <<>> \in Seq(Handoffs)
    OBVIOUS
  <2> QED BY <2>1, <2>2 DEF Gone, Holding, States
<1>3. Bare'
  BY <1>1 DEF Bare, Gone
<1>4. TypeOK' /\ ~ Up' /\ Running' = {}
  BY <1>2, <1>3, TypeParts DEF Gone, Up, Running
<1> QED BY <1>1, <1>4, StaysDown DEF Gone

\* A crash, which may leave a rewrite behind.
LEMMA CrashStep ==
  ASSUME IInv, Crash
  PROVE  IInv'
<1>1. Up /\ UNCHANGED torn /\ Gone /\ job' = [c \in Commands |-> "idle"]
      /\ journal' \in {journal} \cup {Compacted(s).journal : s \in {t \in {Holding} : Full(t)}}
  BY DEF Crash
<1>2. /\ Sound(Holding, handed, accepted, settled, job) /\ Bare /\ Distinct(handed)
      /\ handed \in Seq(Handoffs) /\ accepted \in SUBSET Handoffs
      /\ ~ torn => ~ degraded /\ Steady(Holding, job)
  BY <1>1, BeginsUp
<1>3. faults' \in Nat
  BY <1>2 DEF Crash, Strikes, Bare
<1>4. /\ Sound(Compacted(Holding), handed, accepted, settled, job)
      /\ Steady(Holding, job) => Steady(Compacted(Holding), job)
  BY <1>2, CompactedSound
<1>5. PICK s : /\ Sound(s, handed, accepted, settled, job)
               /\ Steady(Holding, job) => Steady(s, job)
               /\ journal' = s.journal
  <2>1. journal' = Holding.journal \/ journal' = Compacted(Holding).journal
    BY <1>1, HoldingParts
  <2> QED BY <1>2, <1>4, <2>1
<1>6. journal' \in Journals /\ FileTrue(journal', handed, accepted, settled)
  BY <1>5 DEF Sound, States
<1>7. ~ torn => Recoverable(journal')
  BY <1>2, <1>5, RecoverableBySteady
<1> QED BY <1>1, <1>3, <1>6, <1>7, GoneStep

\* The last step of a stop.
LEMMA StopStep ==
  ASSUME IInv, FinishStop \/ RetryStop
  PROVE  IInv'
<1>1. Running = {} /\ Gone /\ UNCHANGED <<journal, job, torn, faults>>
  BY DEF FinishStop, RetryStop, Finished
<1>2. Bare /\ Holding \in States
  BY TypeParts DEF IInv
<1>3. faults' \in Nat /\ job' \in [Commands -> {"idle"}]
  BY <1>1, <1>2 DEF Bare, Running
<1>4. journal' \in Journals
  BY <1>1, <1>2, HoldingParts DEF States
<1>5. FileTrue(journal', handed, accepted, settled) /\ (~ torn => Recoverable(journal'))
  BY <1>1 DEF IInv
<1> QED BY <1>1, <1>3, <1>4, <1>5, GoneStep

-----------------------------------------------------------------------------
(* What a round picks *)

\* No command stands twice in the line of distinct handoffs.
LEMMA CommandsDistinct ==
  ASSUME NEW o \in Seq(Handoffs), Distinct(o)
  PROVE  Distinct(CommandOrder(o))
<1>1. CommandOrder(o) \in Seq(Commands)
  BY CommandsInOrder
<1> SUFFICES ASSUME NEW x, Follows(CommandOrder(o), x, x) PROVE FALSE
  BY <1>1, DistinctOrder
<1>2. CASE \E g, h \in Handoffs : Follows(o, g, h) /\ x \in Holders(g) /\ x \in Holders(h)
  <2>1. PICK g, h \in Handoffs : Follows(o, g, h) /\ x \in Holders(g) /\ x \in Holders(h)
    BY <1>2
  <2>2. g = h
    BY <2>1, OneHolder
  <2> QED BY <2>1, <2>2, DistinctOrder
<1>3. CASE \E h \in Range(o) : Follows(CommandsOf[h], x, x)
  <2>1. PICK h \in Range(o) : Follows(CommandsOf[h], x, x)
    BY <1>3
  <2>2. h \in Handoffs
    BY <2>1, InSequence
  <2> QED BY <2>1, <2>2, HoldersType, DistinctOrder
<1> QED BY <1>2, <1>3, CommandsInOrder

\* The heads are pending, and no one before them in their scope is.
LEMMA HeadsFirst ==
  ASSUME order \in Seq(Handoffs), Distinct(order)
  PROVE  \A c \in Heads :
           /\ mem[c].status = "pending"
           /\ \A d \in Commands : ScopeOf[d] = ScopeOf[c] /\ Follows(CommandOrder(order), d, c)
                                    => mem[d].status # "pending"
<1> DEFINE line == CommandOrder(order)
<1>1. line \in Seq(Commands) /\ Distinct(line)
  BY CommandsInOrder, CommandsDistinct
<1> SUFFICES ASSUME NEW c \in Heads
             PROVE  /\ mem[c].status = "pending"
                    /\ \A d \in Commands : ScopeOf[d] = ScopeOf[c] /\ Follows(line, d, c)
                                             => mem[d].status # "pending"
  OBVIOUS
<1>2. PICK j \in 1..Len(line) :
        /\ line[j] = c /\ mem[line[j]].status = "pending"
        /\ \A k \in 1..(j - 1) :
             mem[line[k]].status = "pending" => ScopeOf[line[k]] # ScopeOf[line[j]]
  BY DEF Heads
<1> HIDE DEF line
<1>3. ASSUME NEW d \in Commands, ScopeOf[d] = ScopeOf[c], Follows(line, d, c)
      PROVE  mem[d].status # "pending"
  <2>1. PICK i, k \in 1..Len(line) : i < k /\ line[i] = d /\ line[k] = c
    BY <1>3 DEF Follows
  <2>2. k = j
    BY <1>1, <1>2, <2>1 DEF Distinct
  <2>3. i \in 1..(j - 1)
    BY <1>1, <2>1, <2>2
  <2> QED BY <1>2, <1>3, <2>1, <2>3
<1> QED BY <1>2, <1>3

\* The timer's round, and the drain's.
LEMMA PickStep ==
  ASSUME IInv, RunReady \/ DrainRound
  PROVE  IInv'
<1>1. /\ Up /\ Up' /\ Picks
      /\ UNCHANGED <<journal, seq, mem, order, phase, degraded, admitted, handed, accepted,
                     settled, expired, torn, faults>>
  BY DEF RunReady, DrainRound, Picks, Up
<1>2. /\ Sound(Holding, handed, accepted, settled, job) /\ Bare /\ Distinct(handed)
      /\ Holding \in States /\ handed \in Seq(Handoffs)
      /\ ~ torn => ~ degraded /\ Steady(Holding, job)
  BY <1>1, BeginsUp
<1>3. order \in Seq(Handoffs) /\ Distinct(order)
  <2>1. order \in Seq(Handoffs) /\ OrderedIn(order, handed)
    BY <1>2, HoldingParts DEF Sound, States, MemoryTrue
  <2> QED BY <1>2, <2>1, OrderedIsDistinct
<1>4. Ready \subseteq Commands /\ Ready \subseteq Heads
  <2>1. CommandOrder(order) \in Seq(Commands)
    BY <1>3, CommandsInOrder
  <2> QED BY <2>1 DEF Ready, Heads
<1>5. \A c \in Commands : job'[c] = IF c \in Ready THEN "dispatching" ELSE job[c]
  BY <1>1 DEF Picks
<1>6. RunsFirst(order, mem, job')
  <2>1. RunsFirst(order, mem, job)
    BY <1>2, HoldingParts DEF Sound
  <2> SUFFICES ASSUME NEW c \in Commands, job'[c] # "idle"
               PROVE  /\ mem[c].status = "pending"
                      /\ \A d \in Commands :
                           ScopeOf[d] = ScopeOf[c] /\ Follows(CommandOrder(order), d, c)
                             => mem[d].status # "pending"
    BY DEF RunsFirst
  <2>2. CASE c \in Ready
    BY <1>3, <1>4, <2>2, HeadsFirst
  <2>3. CASE c \notin Ready
    BY <1>5, <2>1, <2>3 DEF RunsFirst
  <2> QED BY <2>2, <2>3
<1>7. Sound(Holding, handed', accepted', settled', job')
  BY <1>1, <1>2, <1>6, HoldingParts DEF Sound
<1>8. ~ torn' => ~ degraded' /\ Steady(Holding, job')
  BY <1>1, <1>2, <1>5 DEF Steady, TriedAgain
<1>9. Bare'
  <2>1. job' \in [Commands -> {"idle", "dispatching", "calling", "ok", "error", "refusal"}]
    BY <1>1, <1>2 DEF Picks, Bare
  <2>2. timer' \in BOOLEAN /\ batches' \subseteq (SUBSET Commands) \ {{}} /\ round' \subseteq Commands
    <3>1. batches \subseteq (SUBSET Commands) \ {{}} /\ round \subseteq Commands /\ timer \in BOOLEAN
      BY <1>2 DEF Bare
    <3>2. Ready \in (SUBSET Commands) \ {{}}
      <4>1. Ready # {}
        BY <1>1, Zenon DEF Picks
      <4>2. Ready \notin {{}}
        BY <4>1, Zenon
      <4> QED BY <1>4, <4>2, Zenon
    <3>3. CASE RunReady
      BY <3>1, <3>2, <3>3 DEF RunReady
    <3>4. CASE DrainRound
      BY <3>1, <3>2, <3>4 DEF DrainRound
    <3> QED BY <3>3, <3>4
  <2> QED BY <1>1, <1>2, <2>1, <2>2, Zenon DEF Bare
<1>10. Holds(Holding) /\ Distinct(handed')
  BY <1>1, <1>2, HeldAlone
<1> QED BY <1>1, <1>7, <1>8, <1>9, <1>10, StaysUp

-----------------------------------------------------------------------------
(* The appends *)

\* Making room disturbs nothing.
LEMMA RoomySound ==
  ASSUME NEW s, NEW hd \in Seq(Handoffs), Distinct(hd), NEW ac \in SUBSET Handoffs,
         NEW st, NEW jb, Sound(s, hd, ac, st, jb)
  PROVE  /\ Sound(Roomy(s), hd, ac, st, jb)
         /\ Range(Roomy(s).order) \subseteq Range(s.order)
         /\ Steady(s, jb) => Steady(Roomy(s), jb)
<1>1. /\ Sound(Compacted(s), hd, ac, st, jb)
      /\ Range(Compacted(s).order) \subseteq Range(s.order)
      /\ Steady(s, jb) => Steady(Compacted(s), jb)
  BY CompactedSound
<1>2. Roomy(s) = Compacted(s) \/ Roomy(s) = s
  BY DEF Roomy
<1> QED BY <1>1, <1>2

\* What the memory has of a running command survives a rewrite.
LEMMA RunningKept ==
  ASSUME NEW s, NEW hd, NEW ac, NEW st, NEW jb, Sound(s, hd, ac, st, jb),
         NEW c \in Commands, jb[c] # "idle"
  PROVE  Roomy(s).mem[c] = s.mem[c]
<1>1. s \in States /\ s.mem[c].status = "pending"
  BY DEF Sound, RunsFirst
<1>2. Pruned(s).mem[c] = s.mem[c]
  <2>1. Pruned(s).mem[c]
          = IF \E h \in Prunable(s) : c \in Holders(h) THEN Unknown ELSE s.mem[c]
    BY <1>1, PrunedType
  <2>2. ~ \E h \in Prunable(s) : c \in Holders(h)
    BY <1>1 DEF Prunable, Terminal
  <2> QED BY <2>1, <2>2
<1>3. Pruned(s) \in States
  BY <1>1, PrunedType
<1>4. Compacted(s).mem = Pruned(s).mem
  <2> DEFINE p == Pruned(s)
  <2>1. Compacted(s) = [p EXCEPT !.journal = Rewritten(p), !.seq = Len(Rewritten(p)) + 1]
    BY Zenon DEF Compacted
  <2> HIDE DEF p
  <2>2. p \in States
    BY <1>3 DEF p
  <2> QED BY <2>1, <2>2, StateParts DEF p
<1> QED BY <1>2, <1>4 DEF Roomy

\* An append that is lost leaves what was held, or a rewrite of it; a write has
\* failed by then, or found no room.
LEMMA AppendLost ==
  ASSUME IInv, Up, NEW s, Sound(s, handed, accepted, settled, job), AppendIsLost(s)
  PROVE  /\ \E t : Holds(t) /\ Sound(t, handed, accepted, settled, job)
         /\ torn' = TRUE /\ degraded' \in BOOLEAN /\ faults' \in Nat
<1>1. /\ Bare /\ Distinct(handed) /\ handed \in Seq(Handoffs) /\ accepted \in SUBSET Handoffs
      /\ ~ torn => ~ degraded
  BY BeginsUp
<1>2. CASE /\ Full(s) /\ WriteFails
           /\ \E t \in Miscompacted(s) : Holds(t)
           /\ UNCHANGED degraded
  <2>1. \A t \in Miscompacted(s) : Sound(t, handed, accepted, settled, job)
    BY <1>1, CompactedSound
  <2> QED BY <1>1, <1>2, <2>1 DEF WriteFails, Strikes, Bare
<1>3. CASE LET t == Roomy(s) IN
           /\ Holds(t)
           /\ \/ Full(t) /\ torn' = TRUE /\ UNCHANGED <<faults, degraded>>
              \/ ~ Full(t) /\ degraded /\ Calm /\ UNCHANGED degraded
              \/ ~ Full(t) /\ ~ degraded /\ WriteFails /\ degraded' = TRUE
  <2>1. Sound(Roomy(s), handed, accepted, settled, job)
    BY <1>1, RoomySound
  <2>2. \/ torn' = TRUE /\ UNCHANGED <<faults, degraded>>
        \/ degraded /\ Calm /\ UNCHANGED degraded
        \/ WriteFails /\ degraded' = TRUE
    BY <1>3, Zenon
  <2>3. degraded \in BOOLEAN /\ torn \in BOOLEAN /\ faults \in Nat
    BY <1>1 DEF Bare
  <2>4. ASSUME degraded, Calm, UNCHANGED degraded
        PROVE  torn' = TRUE /\ degraded' \in BOOLEAN /\ faults' \in Nat
    <3>1. torn = TRUE
      BY <1>1, <2>3, <2>4
    <3>2. torn' = torn /\ faults' = faults /\ degraded' = degraded
      BY <2>4, Zenon DEF Calm
    <3> QED BY <2>3, <3>1, <3>2, Zenon
  <2>5. torn' = TRUE /\ degraded' \in BOOLEAN /\ faults' \in Nat
    <3>1. CASE torn' = TRUE /\ UNCHANGED <<faults, degraded>>
      BY <2>3, <3>1, Zenon
    <3>2. CASE WriteFails /\ degraded' = TRUE
      <4>1. faults' \in Nat
        BY <2>3, <3>2 DEF WriteFails, Strikes
      <4> QED BY <3>2, <4>1, Zenon DEF WriteFails
    <3> QED BY <2>2, <2>4, <3>1, <3>2, Zenon
  <2> QED BY <1>3, <2>1, <2>5
<1> QED BY <1>2, <1>3, Zenon DEF AppendIsLost

\* The same of an append whose record is in the file all the same.
LEMMA AppendLingering ==
  ASSUME IInv, NEW s, NEW type, NEW of, NEW attempt, AppendLingers(s, type, of, attempt)
  PROVE  /\ torn' = TRUE /\ degraded' \in BOOLEAN /\ faults' \in Nat
         /\ LET t == Roomy(s) IN
            Holds([t EXCEPT !.journal = Append(t.journal, Record(type, of, attempt, t.seq))])
<1>1. Bare
  BY TypeParts DEF IInv
<1>2. torn' = TRUE /\ degraded' \in BOOLEAN /\ faults' \in Nat
  BY <1>1 DEF AppendLingers, WriteFails, Strikes, Bare
<1> QED BY <1>2, Zenon DEF AppendLingers

-----------------------------------------------------------------------------
(* The records of a command *)

\* A rejected #dispatchOne leaves the process up, and the rest in its type.
LEMMA RejectedRest ==
  ASSUME IInv, Up, NEW c \in Commands, Rejected(c)
  PROVE  /\ Up' /\ phase' \in {"down", "refused", "up", "draining", "aborting", "stuck"}
         /\ timer' \in BOOLEAN /\ round' \subseteq Commands
         /\ batches' \subseteq (SUBSET Commands) \ {{}}
         /\ job' \in [Commands -> {"idle", "dispatching", "calling", "ok", "error", "refusal"}]
         /\ job'[c] = "idle" /\ \A d \in Commands \ {c} : job'[d] = job[d]
<1>1. Bare
  BY TypeParts DEF IInv
<1>2. batches' \subseteq (SUBSET Commands) \ {{}}
  BY <1>1 DEF Bare, Rejected
<1>3. /\ job' \in [Commands -> {"idle", "dispatching", "calling", "ok", "error", "refusal"}]
      /\ job'[c] = "idle" /\ \A d \in Commands \ {c} : job'[d] = job[d]
  BY <1>1 DEF Bare, Rejected
<1>4. CASE c \in round
  <2>1. round' = {} /\ phase' = "up" /\ timer' = Scheduled("up", mem')
    BY <1>4, Zenon DEF Rejected
  <2>2. timer' \in BOOLEAN
    BY <1>1, <2>1 DEF Scheduled, Bare
  <2> QED BY <1>2, <1>3, <2>1, <2>2 DEF Up
<1>5. CASE c \notin round
  <2>1. UNCHANGED <<round, phase, timer>>
    BY <1>5, Zenon DEF Rejected
  <2> QED BY <1>1, <1>2, <1>3, <2>1 DEF Up, Bare
<1> QED BY <1>4, <1>5

\* An append that throws, and #dispatchOne with it.
LEMMA CommandThrew ==
  ASSUME IInv, Up, NEW c \in Commands, job[c] # "idle",
         NEW type \in {"dispatch", "retry"} \cup Terminal, NEW attempt \in Nat,
         AppendThrows(Holding, type, c, attempt), Rejected(c),
         UNCHANGED <<admitted, handed, accepted, expired>>,
         settled \subseteq settled', settled' \subseteq Commands,
         AppendLingers(Holding, type, c, attempt) /\ type \in Terminal => c \in settled'
  PROVE  IInv'
<1>1. /\ Sound(Holding, handed, accepted, settled, job) /\ Bare /\ Distinct(handed)
      /\ handed \in Seq(Handoffs) /\ accepted \in SUBSET Handoffs
  BY BeginsUp
<1>2. /\ Up' /\ phase' \in {"down", "refused", "up", "draining", "aborting", "stuck"}
      /\ timer' \in BOOLEAN /\ round' \subseteq Commands
      /\ batches' \subseteq (SUBSET Commands) \ {{}}
      /\ job' \in [Commands -> {"idle", "dispatching", "calling", "ok", "error", "refusal"}]
      /\ job'[c] = "idle" /\ \A d \in Commands \ {c} : job'[d] = job[d]
  BY RejectedRest
<1>3. /\ torn' = TRUE /\ degraded' \in BOOLEAN /\ faults' \in Nat
      /\ \E u : Holds(u) /\ Sound(u, handed, accepted, settled', job)
  <2>1. CASE AppendLingers(Holding, type, c, attempt)
    <3> DEFINE t == Roomy(Holding)
               r == Record(type, c, attempt, t.seq)
               J == Append(t.journal, r)
    <3>1. torn' = TRUE /\ degraded' \in BOOLEAN /\ faults' \in Nat
          /\ Holds([t EXCEPT !.journal = J])
      BY <2>1, AppendLingering, Zenon
    <3>2. Sound(t, handed, accepted, settled, job)
      BY <1>1, RoomySound
    <3> HIDE DEF t
    <3>3. t.journal \in Journals /\ t.seq \in Nat
      BY <3>2 DEF Sound, States
    <3>4. r \in CommandRecords /\ r.type = type /\ r.of = c
      BY <3>3 DEF CommandRecords, Record
    <3> HIDE DEF r
    <3>5. J \in Journals
      BY <3>3, <3>4, AppendLines
    <3>6. FileTrue(J, handed, accepted, settled') /\ HandedIn(J) = HandedIn(t.journal)
      <4>1. FileTrue(t.journal, handed, accepted, settled)
        BY <3>2 DEF Sound
      <4> QED BY <2>1, <3>3, <3>4, <4>1, CommandFile
    <3> HIDE DEF J
    <3>7. Sound(t, handed, accepted, settled', job)
      BY <3>2, SettledGrows
    <3>8. /\ MemoryTrue(t.order, t.mem, handed, settled')
          /\ HeldIn(Range(t.order), accepted, settled') /\ Range(t.order) \subseteq HandedIn(J)
      BY <3>6, <3>7 DEF Sound
    <3>9. Sound([t EXCEPT !.journal = J], handed, accepted, settled', job)
      BY <3>5, <3>6, <3>7, <3>8, Lingers
    <3> QED BY <3>1, <3>9
  <2>2. CASE AppendIsLost(Holding)
    <3>1. /\ \E t : Holds(t) /\ Sound(t, handed, accepted, settled, job)
          /\ torn' = TRUE /\ degraded' \in BOOLEAN /\ faults' \in Nat
      BY <1>1, <2>2, AppendLost
    <3>2. \A t : Sound(t, handed, accepted, settled, job)
                   => Sound(t, handed, accepted, settled', job)
      BY SettledGrows
    <3> QED BY <3>1, <3>2
  <2> QED BY <2>1, <2>2 DEF AppendThrows
<1>4. PICK u : Holds(u) /\ Sound(u, handed, accepted, settled', job)
  BY <1>3
<1>5. Sound(u, handed', accepted', settled', job')
  <2>1. \A d \in Commands : job'[d] = job[d] \/ job'[d] = "idle"
    BY <1>2
  <2>2. Sound(u, handed, accepted, settled', job')
    BY <1>4, <2>1, FewerRun
  <2> QED BY <2>2
<1>6. Bare'
  BY <1>1, <1>2, <1>3 DEF Bare
<1>7. Distinct(handed')
  BY <1>1
<1> QED BY <1>2, <1>3, <1>4, <1>5, <1>6, <1>7, StaysUp

\* An append that works.
LEMMA CommandWorked ==
  ASSUME IInv, Up, NEW c \in Commands, job[c] # "idle",
         NEW type \in {"dispatch", "retry"} \cup Terminal, NEW attempt \in Nat,
         attempt = mem[c].attempts + (IF type = "dispatch" THEN 1 ELSE 0),
         AppendWorks(Holding, type, c, attempt), Up', Bare',
         UNCHANGED <<handed, accepted, torn, degraded>>,
         settled \subseteq settled', type \in Terminal => c \in settled',
         type = "dispatch" \/ (job[c] \in {"ok", "error", "refusal"} /\ job'[c] = "idle"),
         \A d \in Commands \ {c} : job'[d] = job[d]
  PROVE  IInv'
<1> DEFINE t == Roomy(Holding)
           W == Written(t, type, c, attempt)
<1>1. /\ Sound(Holding, handed, accepted, settled, job) /\ Bare /\ Distinct(handed)
      /\ handed \in Seq(Handoffs) /\ accepted \in SUBSET Handoffs
      /\ ~ torn => ~ degraded /\ Steady(Holding, job)
  BY BeginsUp
<1>2. /\ Sound(t, handed, accepted, settled, job)
      /\ Steady(Holding, job) => Steady(t, job)
  BY <1>1, RoomySound
<1>3. t.mem[c] = mem[c]
  BY <1>1, RunningKept, HoldingParts
<1>4. Holds(W)
  BY Zenon DEF AppendWorks
<1> HIDE DEF t
<1>5. Sound(W, handed, accepted, settled', job')
  BY <1>2, CommandSound
<1>6. Steady(t, job) => Steady(W, job')
  BY <1>1, <1>2, <1>3, CommandSteady
<1> HIDE DEF W
<1>7. Sound(W, handed', accepted', settled', job') /\ Distinct(handed')
  BY <1>1, <1>5
<1>8. ~ torn' => ~ degraded' /\ Steady(W, job')
  BY <1>1, <1>2, <1>6
<1> QED BY <1>4, <1>7, <1>8, StaysUp

\* The dispatch record, or the append that throws.
LEMMA DispatchStep ==
  ASSUME IInv, NEW c \in Commands, Dispatch(c)
  PROVE  IInv'
<1> DEFINE attempt == mem[c].attempts + 1
<1>1. Up /\ job[c] = "dispatching"
  BY DEF Dispatch, IInv, ReleasedIsQuiet, Running
<1>2. Bare /\ Holding \in States
  BY TypeParts DEF IInv
<1>3. mem[c].attempts \in Nat /\ attempt \in Nat
  BY <1>2, HoldingParts DEF States, Memories
<1>4. UNCHANGED <<admitted, handed, accepted, settled, expired>>
  BY DEF Dispatch
<1>5. CASE /\ AppendWorks(Holding, "dispatch", c, attempt)
           /\ job' = [job EXCEPT ![c] = "calling"]
           /\ UNCHANGED <<phase, timer, batches, round, degraded, torn, faults>>
  <2>1. /\ job' \in [Commands -> {"idle", "dispatching", "calling", "ok", "error", "refusal"}]
        /\ \A d \in Commands \ {c} : job'[d] = job[d]
    BY <1>2, <1>5 DEF Bare
  <2>2. Bare' /\ Up'
    BY <1>1, <1>2, <1>4, <1>5, <2>1 DEF Bare, Up
  <2>3. AppendWorks(Holding, "dispatch", c, attempt)
        /\ UNCHANGED <<handed, accepted, torn, degraded>> /\ settled \subseteq settled'
    BY <1>4, <1>5
  <2>4. "dispatch" \notin Terminal /\ job[c] # "idle"
        /\ attempt = mem[c].attempts + (IF "dispatch" = "dispatch" THEN 1 ELSE 0)
    BY <1>1 DEF Terminal
  <2> HIDE DEF attempt
  <2> QED BY <1>1, <1>3, <2>1, <2>2, <2>3, <2>4, CommandWorked
<1>6. CASE AppendThrows(Holding, "dispatch", c, attempt) /\ Rejected(c)
  <2> HIDE DEF attempt
  <2>1. settled \subseteq settled' /\ settled' \subseteq Commands /\ "dispatch" \notin Terminal
    BY <1>2, <1>4 DEF Bare, Terminal
  <2> QED BY <1>1, <1>3, <1>4, <1>6, <2>1, CommandThrew
<1> QED BY <1>5, <1>6, Zenon DEF Dispatch

\* The batch of a command that is done.
LEMMA SucceedsRest ==
  ASSUME Bare, Up, NEW c \in Commands, Succeeds(c)
  PROVE  /\ Up' /\ UNCHANGED phase /\ timer' \in BOOLEAN /\ round' \subseteq Commands
         /\ batches' \subseteq (SUBSET Commands) \ {{}}
         /\ job' \in [Commands -> {"idle", "dispatching", "calling", "ok", "error", "refusal"}]
         /\ job'[c] = "idle" /\ \A d \in Commands \ {c} : job'[d] = job[d]
<1>1. UNCHANGED phase /\ Up' /\ Ends(c)
  BY DEF Succeeds, Up
<1>2. timer' \in BOOLEAN
  BY DEF Succeeds, Scheduled, Bare
<1>3. batches' \subseteq (SUBSET Commands) \ {{}}
  <2> DEFINE mine == {b \in batches : c \in b}
             rest == {b \ {c} : b \in mine} \ {{}}
  <2>1. batches' = (batches \ mine) \cup rest
    BY Zenon DEF Succeeds
  <2>2. batches \subseteq (SUBSET Commands) \ {{}}
    BY DEF Bare
  <2>3. rest \subseteq (SUBSET Commands) \ {{}}
    BY <2>2
  <2> HIDE DEF mine, rest
  <2> QED BY <2>1, <2>2, <2>3
<1> QED BY <1>1, <1>2, <1>3 DEF Ends, Bare

\* The record of an outcome, or the append that throws.
LEMMA FinishStep ==
  ASSUME IInv, NEW c \in Commands, Finish(c)
  PROVE  IInv'
<1> DEFINE type == Outcome(c)
           attempt == mem[c].attempts
<1>1. Up /\ job[c] \in {"ok", "error", "refusal"} /\ job[c] # "idle"
  BY DEF Finish, IInv, ReleasedIsQuiet, Running
<1>2. Bare /\ Holding \in States
  BY TypeParts DEF IInv
<1>3. attempt \in Nat
  BY <1>2, HoldingParts DEF States, Memories
<1>4. type \in {"retry"} \cup Terminal
  BY DEF Outcome, Terminal
<1>5. /\ UNCHANGED <<admitted, handed, accepted, expired>>
      /\ settled' = settled \cup {d \in {c} : Trail(journal', d) \cap Terminal # {}}
  BY DEF Finish
<1>6. settled \subseteq settled' /\ settled' \subseteq Commands
  BY <1>2, <1>5 DEF Bare
<1>7. type # "dispatch" /\ attempt = mem[c].attempts + (IF type = "dispatch" THEN 1 ELSE 0)
  BY <1>3, <1>4 DEF Terminal
<1> HIDE DEF type, attempt
<1>8. \A t : /\ Sound(t, handed, accepted, settled, job)
             /\ journal' = Append(t.journal, Record(type, c, attempt, t.seq))
             /\ type \in Terminal
             => c \in settled'
  <2> SUFFICES ASSUME NEW t, Sound(t, handed, accepted, settled, job), type \in Terminal,
                      journal' = Append(t.journal, Record(type, c, attempt, t.seq))
               PROVE  c \in settled'
    OBVIOUS
  <2> DEFINE r == Record(type, c, attempt, t.seq)
  <2>1. t.journal \in Journals /\ t.seq \in Nat
    BY DEF Sound, States
  <2>2. r \in CommandRecords /\ r.type = type /\ r.of = c
    BY <1>3, <1>4, <2>1 DEF CommandRecords, Record
  <2> HIDE DEF r
  <2>3. Trail(Append(t.journal, r), c) \cap Terminal # {}
    BY <2>1, <2>2, TrailEnds
  <2>4. Trail(journal', c) \cap Terminal # {}
    BY <2>3, Zenon DEF r
  <2> QED BY <1>5, <2>4
<1>9. Sound(Roomy(Holding), handed, accepted, settled, job)
  BY <1>1, BeginsUp, RoomySound
<1>10. CASE /\ AppendWorks(Holding, type, c, attempt)
            /\ Succeeds(c) /\ UNCHANGED <<degraded, torn, faults>>
  <2>1. /\ Up' /\ UNCHANGED phase /\ timer' \in BOOLEAN /\ round' \subseteq Commands
        /\ batches' \subseteq (SUBSET Commands) \ {{}}
        /\ job' \in [Commands -> {"idle", "dispatching", "calling", "ok", "error", "refusal"}]
        /\ job'[c] = "idle" /\ \A d \in Commands \ {c} : job'[d] = job[d]
    BY <1>1, <1>2, <1>10, SucceedsRest
  <2>2. Bare'
    BY <1>2, <1>5, <1>6, <1>10, <2>1 DEF Bare
  <2>3. type \in Terminal => c \in settled'
    <3> DEFINE t == Roomy(Holding)
               W == Written(t, type, c, attempt)
    <3>1. Holds(W)
      BY <1>10, Zenon DEF AppendWorks
    <3>2. t \in States
      BY <1>9 DEF Sound
    <3> HIDE DEF t
    <3>3. IsWritten(W, t, type, c, attempt)
      BY <1>3, <1>4, <3>2, WrittenCommand
    <3> HIDE DEF W
    <3>4. journal' = Append(t.journal, Record(type, c, attempt, t.seq))
      BY <3>1, <3>3 DEF Holds, IsWritten
    <3> QED BY <1>8, <1>9, <3>4 DEF t
  <2>4. AppendWorks(Holding, type, c, attempt) /\ UNCHANGED <<handed, accepted, torn, degraded>>
    BY <1>5, <1>10
  <2> QED BY <1>1, <1>3, <1>4, <1>6, <1>7, <2>1, <2>2, <2>3, <2>4, CommandWorked
<1>11. CASE AppendThrows(Holding, type, c, attempt) /\ Rejected(c)
  <2>1. AppendLingers(Holding, type, c, attempt) /\ type \in Terminal => c \in settled'
    <3> SUFFICES ASSUME AppendLingers(Holding, type, c, attempt), type \in Terminal
                 PROVE  c \in settled'
      OBVIOUS
    <3> DEFINE t == Roomy(Holding)
               J == Append(t.journal, Record(type, c, attempt, t.seq))
    <3>1. Holds([t EXCEPT !.journal = J])
      BY AppendLingering, Zenon
    <3>2. t \in States
      BY <1>9 DEF Sound
    <3> HIDE DEF t, J
    <3>3. journal' = J
      BY <3>1, <3>2 DEF Holds, States
    <3> QED BY <1>8, <1>9, <3>3 DEF t, J
  <2> QED BY <1>1, <1>3, <1>4, <1>5, <1>6, <1>11, <2>1, CommandThrew
<1> QED BY <1>10, <1>11, Zenon DEF Finish, type, attempt

-----------------------------------------------------------------------------
(* The record of a handoff *)

\* What HandedOver leaves of the types.
LEMMA HandedOverRest ==
  ASSUME Bare, Distinct(handed), NEW h \in Handoffs, NEW answered \in BOOLEAN,
         HandedOver(h, answered)
  PROVE  /\ handed' \in Seq(Handoffs) /\ Distinct(handed') /\ accepted' \subseteq Range(handed')
         /\ settled' \subseteq Commands /\ expired' \subseteq Handoffs
<1>1. handed \in Seq(Handoffs)
  BY DEF Bare
<1>2. /\ handed' \in Seq(Handoffs) /\ Distinct(handed')
      /\ Range(handed') = Range(handed) \cup {h}
  <2>1. handed' = Append(Without(handed, {h}), h)
    BY DEF HandedOver
  <2> QED BY <1>1, <2>1, HandedOrder
<1> QED BY <1>2 DEF HandedOver, Bare

\* A handoff that is new, written to what s holds.
LEMMA AdmitStep ==
  ASSUME IInv, Up, NEW h \in Handoffs, h \notin Range(order), NEW s,
         Sound(s, handed, accepted, settled, job), Range(s.order) \subseteq Range(order),
         ~ torn => Steady(s, job), Admit(h, s), UNCHANGED <<phase, job, batches, round>>,
         admitted' \subseteq Handoffs
  PROVE  IInv'
<1> DEFINE t == Roomy(s)
           r == Record("handoff", h, 0, t.seq)
           J == Append(t.journal, r)
           W == Written(t, "handoff", h, 0)
           H == Append(Without(handed, {h}), h)
<1>1. Up /\ Up'
  BY DEF Up
<1>2. /\ Bare /\ Distinct(handed) /\ handed \in Seq(Handoffs) /\ accepted \in SUBSET Handoffs
      /\ ~ torn => ~ degraded
  BY <1>1, BeginsUp
<1>3. /\ Sound(t, handed, accepted, settled, job)
      /\ Steady(s, job) => Steady(t, job)
      /\ h \notin Range(t.order)
  BY <1>2, RoomySound
<1>4. CASE /\ AppendWorks(s, "handoff", h, 0)
           /\ HandedOver(h, TRUE)
           /\ timer' = Scheduled(phase, mem')
           /\ UNCHANGED <<degraded, torn, faults>>
  <2>1. Holds(W)
    BY <1>4, Zenon DEF AppendWorks
  <2>2. /\ handed' = H /\ accepted' = accepted \cup {h} /\ settled' = settled \ Holders(h)
    BY <1>4 DEF HandedOver
  <2> HIDE DEF t
  <2>3. Sound(W, H, accepted \cup {h}, settled \ Holders(h), job)
    BY <1>2, <1>3, HandoffSound, Zenon
  <2>4. ~ torn => Steady(W, job)
    BY <1>2, <1>3, HandoffSteady
  <2> HIDE DEF W, H
  <2>5. Sound(W, handed', accepted', settled', job')
    BY <2>2, <2>3
  <2>6. ~ torn' => ~ degraded' /\ Steady(W, job')
    BY <1>2, <1>4, <2>4
  <2>7. /\ handed' \in Seq(Handoffs) /\ Distinct(handed') /\ accepted' \subseteq Range(handed')
        /\ settled' \subseteq Commands /\ expired' \subseteq Handoffs
    BY <1>2, <1>4, HandedOverRest
  <2>8. Bare'
    BY <1>2, <1>4, <2>7 DEF Bare, Scheduled
  <2> QED BY <1>1, <2>1, <2>5, <2>6, <2>7, <2>8, StaysUp
<1>5. CASE AppendLingers(s, "handoff", h, 0) /\ HandedOver(h, FALSE) /\ UNCHANGED timer
  <2>1. torn' = TRUE /\ degraded' \in BOOLEAN /\ faults' \in Nat
        /\ Holds([t EXCEPT !.journal = J])
    BY <1>5, AppendLingering, Zenon
  <2>2. /\ handed' = H /\ accepted' = accepted \ {h} /\ settled' = settled \ Holders(h)
    BY <1>5 DEF HandedOver
  <2> HIDE DEF t
  <2>3. Sound([t EXCEPT !.journal = J], H, accepted \ {h}, settled \ Holders(h), job)
    BY <1>2, <1>3, HandoffSound, Zenon
  <2> HIDE DEF J, H
  <2>4. Sound([t EXCEPT !.journal = J], handed', accepted', settled', job')
    BY <2>2, <2>3
  <2>5. /\ handed' \in Seq(Handoffs) /\ Distinct(handed') /\ accepted' \subseteq Range(handed')
        /\ settled' \subseteq Commands /\ expired' \subseteq Handoffs
    BY <1>2, <1>5, HandedOverRest
  <2>6. Bare'
    BY <1>2, <1>5, <2>1, <2>5 DEF Bare
  <2> QED BY <1>1, <2>1, <2>4, <2>5, <2>6, StaysUp
<1>6. CASE AppendIsLost(s) /\ UNCHANGED <<handed, accepted, settled, expired, timer>>
  <2>1. /\ \E u : Holds(u) /\ Sound(u, handed, accepted, settled, job)
        /\ torn' = TRUE /\ degraded' \in BOOLEAN /\ faults' \in Nat
    BY <1>1, <1>6, AppendLost
  <2>2. PICK u : Holds(u) /\ Sound(u, handed, accepted, settled, job)
    BY <2>1
  <2>3. Sound(u, handed', accepted', settled', job') /\ Distinct(handed')
    BY <1>2, <1>6, <2>2
  <2>4. Bare'
    BY <1>2, <1>6, <2>1 DEF Bare
  <2> QED BY <1>1, <2>1, <2>2, <2>3, <2>4, StaysUp
<1> QED BY <1>4, <1>5, <1>6, Zenon DEF Admit

\* An enqueue: a duplicate, a new handoff, or one there is no room for.
LEMMA EnqueueStep ==
  ASSUME IInv, NEW h \in Handoffs, Enqueue(h)
  PROVE  IInv'
<1>1. Up /\ Up' /\ UNCHANGED <<phase, job, batches, round>>
  BY DEF Enqueue, Up
<1>2. /\ Sound(Holding, handed, accepted, settled, job) /\ Bare /\ Distinct(handed)
      /\ Holding \in States /\ handed \in Seq(Handoffs) /\ accepted \in SUBSET Handoffs
      /\ ~ torn => ~ degraded /\ Steady(Holding, job)
  BY <1>1, BeginsUp
<1>3. admitted' \subseteq Handoffs
  BY <1>2 DEF Enqueue, Bare
<1>4. CASE /\ h \in Range(order)
           /\ accepted' = accepted \cup {h}
           /\ UNCHANGED <<journal, seq, mem, order, degraded, torn, faults, handed, settled,
                          expired, timer>>
  <2>1. /\ MemoryTrue(order, mem, handed, settled) /\ HeldIn(Range(order), accepted, settled)
        /\ FileTrue(journal, handed, accepted, settled)
        /\ Range(order) \subseteq HandedIn(journal)
    BY <1>2, HoldingParts DEF Sound
  <2>2. HeldIn(Range(order), accepted', settled) /\ HeldIn(HandedIn(journal), accepted', settled)
    BY <1>4, <2>1 DEF HeldIn, FileTrue
  <2>3. FileTrue(journal, handed, accepted', settled)
    BY <2>1, <2>2 DEF FileTrue
  <2>4. Sound(Holding, handed', accepted', settled', job')
    BY <1>1, <1>2, <1>4, <2>2, <2>3, HoldingParts DEF Sound
  <2>5. accepted' \subseteq Range(handed)
    BY <1>2, <1>4, <2>1 DEF MemoryTrue, OrderedIn, Bare
  <2>6. Bare' /\ Distinct(handed')
    BY <1>1, <1>2, <1>4, <1>3, <2>5 DEF Bare
  <2>7. Holds(Holding)
    BY <1>4, HeldAlone
  <2>8. ~ torn' => ~ degraded' /\ Steady(Holding, job')
    BY <1>1, <1>2, <1>4
  <2> QED BY <1>1, <2>4, <2>6, <2>7, <2>8, StaysUp
<1>5. CASE /\ h \notin Range(order) /\ ~ Rejects(Holding, h)
           /\ IF Retainable(Holding, h) THEN Admit(h, Holding)
              ELSE LET t == Compacted(Holding) IN
                   \/ Retainable(t, h) /\ Admit(h, t)
                   \/ /\ \/ ~ Retainable(t, h) /\ Holds(t) /\ Calm
                         \/ WriteFails /\ \E m \in Miscompacted(Holding) : Holds(m)
                      /\ UNCHANGED <<degraded, handed, accepted, settled, expired, timer>>
  <2> DEFINE t == Compacted(Holding)
  <2>1. /\ Sound(t, handed, accepted, settled, job)
        /\ Range(t.order) \subseteq Range(order)
        /\ ~ torn => Steady(t, job)
        /\ \A m \in Miscompacted(Holding) : Sound(m, handed, accepted, settled, job)
    BY <1>2, CompactedSound, HoldingParts
  <2>2. \/ Admit(h, Holding) \/ Admit(h, t)
        \/ /\ (Holds(t) /\ Calm) \/ (WriteFails /\ \E m \in Miscompacted(Holding) : Holds(m))
           /\ UNCHANGED <<degraded, handed, accepted, settled, expired, timer>>
    BY <1>5, Zenon
  <2> HIDE DEF t
  <2>3. CASE Admit(h, Holding)
    <3>1. Range(Holding.order) \subseteq Range(order) /\ (~ torn => Steady(Holding, job))
      BY <1>2, HoldingParts
    <3> QED BY <1>1, <1>2, <1>5, <1>3, <2>3, <3>1, AdmitStep
  <2>4. CASE Admit(h, t)
    BY <1>1, <1>5, <1>3, <2>1, <2>4, AdmitStep
  <2>5. CASE /\ Holds(t) /\ Calm
             /\ UNCHANGED <<degraded, handed, accepted, settled, expired, timer>>
    <3>1. Bare' /\ Distinct(handed')
      BY <1>1, <1>2, <1>3, <2>5 DEF Bare, Calm
    <3>2. Sound(t, handed', accepted', settled', job')
      BY <1>1, <2>1, <2>5
    <3>3. ~ torn' => ~ degraded' /\ Steady(t, job')
      BY <1>1, <1>2, <2>1, <2>5 DEF Calm
    <3> QED BY <1>1, <2>5, <3>1, <3>2, <3>3, StaysUp
  <2>6. CASE /\ WriteFails /\ \E m \in Miscompacted(Holding) : Holds(m)
             /\ UNCHANGED <<degraded, handed, accepted, settled, expired, timer>>
    <3>1. PICK m \in Miscompacted(Holding) : Holds(m)
      BY <2>6
    <3>2. Bare' /\ Distinct(handed')
      BY <1>1, <1>2, <1>3, <2>6 DEF Bare, WriteFails, Strikes
    <3>3. Sound(m, handed', accepted', settled', job')
      BY <1>1, <2>1, <2>6, <3>1
    <3>4. torn' = TRUE
      BY <2>6 DEF WriteFails
    <3> QED BY <1>1, <3>1, <3>2, <3>3, <3>4, StaysUp
  <2> QED BY <2>2, <2>3, <2>4, <2>5, <2>6
<1>6. CASE /\ h \notin Range(order) /\ Rejects(Holding, h)
           /\ UNCHANGED <<journal, seq, mem, order, degraded, torn, faults, handed, accepted,
                          settled, expired, timer>>
  <2>1. Holds(Holding)
    BY <1>6, HeldAlone
  <2>2. Bare' /\ Distinct(handed')
    BY <1>1, <1>2, <1>3, <1>6 DEF Bare
  <2>3. Sound(Holding, handed', accepted', settled', job')
    BY <1>1, <1>2, <1>6
  <2>4. ~ torn' => ~ degraded' /\ Steady(Holding, job')
    BY <1>1, <1>2, <1>6
  <2> QED BY <1>1, <2>1, <2>2, <2>3, <2>4, StaysUp
<1> QED BY <1>4, <1>5, <1>6, Zenon DEF Enqueue

-----------------------------------------------------------------------------
(* The invariant *)

\* The invariant holds before the first start.
LEMMA Initially == Init => IInv
<1> SUFFICES ASSUME Init PROVE IInv
  OBVIOUS
<1>1. /\ journal = <<>> /\ seq = 1 /\ order = <<>> /\ mem = [c \in Commands |-> Unknown]
      /\ phase = "down" /\ degraded = FALSE /\ timer = FALSE
      /\ job = [c \in Commands |-> "idle"] /\ batches = {} /\ round = {}
      /\ admitted = {} /\ handed = <<>> /\ accepted = {} /\ settled = {} /\ expired = {}
      /\ torn = FALSE /\ faults = Faults
  BY DEF Init
<1>2. Bare
  <2>1. job \in [Commands -> {"idle", "dispatching", "calling", "ok", "error", "refusal"}]
    BY <1>1
  <2>2. /\ batches \subseteq (SUBSET Commands) \ {{}} /\ round \subseteq Commands
        /\ settled \subseteq Commands /\ expired \subseteq Handoffs
        /\ handed \in Seq(Handoffs) /\ accepted \subseteq Range(handed)
    BY <1>1
  <2>3. faults \in Nat
    BY <1>1, OutboxAssumption
  <2> QED BY <1>1, <2>1, <2>2, <2>3 DEF Bare
<1>3. Holding \in States
  <2>1. [c \in Commands |-> Unknown] \in Memories
    BY DEF Memories, Unknown
  <2>2. <<>> \in Journals /\ <<>> \in Seq(Handoffs)
    BY DEF Journals
  <2> QED BY <1>1, <2>1, <2>2 DEF Holding, States
<1>4. TypeOK
  BY <1>2, <1>3, TypeParts
<1>5. journal \in Journals /\ Len(journal) = 0
  BY <1>1 DEF Journals
<1>6. \A c : Lines(journal, c, Len(journal) + 1) = {}
  BY <1>5 DEF Lines
<1>7. FileTrue(journal, handed, accepted, settled)
  <2>1. HeldIn(HandedIn(journal), accepted, settled)
    BY <1>1 DEF HeldIn
  <2>2. \A c \in Commands : Trail(journal, c) \cap Terminal = {}
    BY <1>5 DEF Trail, Terminal
  <2>3. OrderedIn(HandoffsIn(journal), handed)
    <3>1. HandedIn(journal) = {}
      BY <1>5 DEF HandedIn
    <3>2. Range(HandoffsIn(journal)) = {}
          /\ \A x, y : ~ Follows(HandoffsIn(journal), x, y)
      BY <1>5, <3>1, HandoffsOrder
    <3> QED BY <3>2 DEF OrderedIn
  <2> QED BY <2>1, <2>2, <2>3 DEF FileTrue
<1>8. Recoverable(journal)
  <2>1. \A c \in Commands : Recalled(journal, c) = Unknown
    BY <1>5, <1>6, RecalledType
  <2> QED BY <2>1 DEF Recoverable, Tried, Unknown
<1>9. ~ Up /\ Running = {} /\ Distinct(handed)
  BY <1>1 DEF Up, Running, Distinct
<1> QED BY <1>1, <1>4, <1>7, <1>8, <1>9 DEF IInv, ReleasedIsQuiet

\* Every step keeps it.
LEMMA NextStep == IInv /\ [Next]_vars => IInv'
<1> SUFFICES ASSUME IInv, [Next]_vars PROVE IInv'
  OBVIOUS
<1>1. CASE Start
  BY <1>1, StartStep
<1>2. CASE Crash
  BY <1>2, CrashStep
<1>3. CASE \/ CancelDrain \/ AbortTimesOut \/ DrainEnds
           \/ (\E h \in Handoffs : Request(h)) \/ (\E mode \in {"draining", "aborting"} : Stop(mode))
           \/ \E c \in Commands : \E how \in {"ok", "error", "refusal"} : Answer(c, how)
  BY <1>3, QuietSteps
<1>4. CASE FinishStop \/ RetryStop
  BY <1>4, StopStep
<1>5. CASE RunReady \/ DrainRound
  BY <1>5, PickStep
<1>6. CASE \E h \in Handoffs : Enqueue(h) \/ Expire(h)
  BY <1>6, EnqueueStep, ExpireStep
<1>7. CASE \E c \in Commands : Elapse(c) \/ Dispatch(c) \/ Finish(c)
  BY <1>7, ElapseStep, DispatchStep, FinishStep
<1>8. CASE UNCHANGED vars
  <2>1. UNCHANGED <<journal, seq, mem, order, phase, degraded, timer, job, batches,
                    round, admitted, handed, accepted, settled, expired, torn, faults>>
    BY <1>8 DEF vars
  <2>2. Holding' = Holding
    BY <2>1, Zenon DEF Holding
  <2>3. TypeOK'
    <3>1. Bare /\ Holding \in States
      BY TypeParts DEF IInv
    <3>2. Bare'
      BY <2>1, <3>1, Zenon DEF Bare
    <3> QED BY <2>2, <3>1, <3>2, TypeParts
  <2>4. Up' = Up /\ Running' = Running
    BY <2>1 DEF Up, Running
  <2> QED BY <2>1, <2>2, <2>3, <2>4, Zenon DEF IInv, ReleasedIsQuiet
<1> QED BY <1>1, <1>2, <1>3, <1>4, <1>5, <1>6, <1>7, <1>8, Zenon DEF Next

\* It holds in every reachable state of the outbox.
THEOREM Invariance == Spec => []IInv
BY Initially, NextStep, PTL DEF Spec

\* The type invariant of the outbox: every variable keeps its type, through
\* every crash, stop, rewrite and failed write.
THEOREM TypeCorrect == Spec => []TypeOK
<1>1. IInv => TypeOK
  BY DEF IInv
<1> QED BY <1>1, Invariance, PTL

\* A stop that returns leaves no #dispatchOne behind it, and neither
\* does a crash or a start that is refused (#finishStop, waitForRunningSettled).
THEOREM ReleasedStaysQuiet == Spec => []ReleasedIsQuiet
<1>1. IInv => ReleasedIsQuiet
  BY DEF IInv
<1> QED BY <1>1, Invariance, PTL

\* Memories that are the same differ in the backoff alone.
LEMMA DueAside ==
  ASSUME NEW a \in [status : {"unknown", "pending"} \cup Terminal,
                    attempts : Nat, due : BOOLEAN, failed : BOOLEAN],
         NEW b \in [status : {"unknown", "pending"} \cup Terminal,
                    attempts : Nat, due : BOOLEAN, failed : BOOLEAN],
         Same(a, b), NEW z
  PROVE  [a EXCEPT !.due = z] = [b EXCEPT !.due = z]
BY DEF Same

\* What enqueueHandoff has answered for is in the file until it has an
\* outcome: through crashes, appends that fail on either side of the write,
\* rewrites and rewrites that fail (#appendRecord, #compact, #replay).
THEOREM AcceptedStaysKept == Spec => []AcceptedIsKept
<1>1. IInv => AcceptedIsKept
  <2> SUFFICES ASSUME IInv, NEW h \in accepted, NEW c \in Holders(h) \ settled
               PROVE  /\ "handoff" \in Trail(journal, c)
                      /\ Trail(journal, c) \cap Terminal = {}
    BY DEF AcceptedIsKept
  <2>1. FileTrue(journal, handed, accepted, settled)
    BY DEF IInv
  <2>2. h \in Handoffs /\ c \in Commands
    <3>1. Bare
      BY TypeParts DEF IInv
    <3> QED BY <3>1, InSequence, HoldersType DEF Bare
  <2>3. h \in HandedIn(journal)
    BY <2>1 DEF FileTrue, HeldIn
  <2>4. PICK i \in 1..Len(journal) : journal[i].type = "handoff" /\ journal[i].of = h
    BY <2>3 DEF HandedIn
  <2>5. "handoff" \in Trail(journal, c)
    <3> DEFINE from == {k \in 1..Len(journal) :
                          journal[k].type = "handoff" /\ c \in Holders(journal[k].of)}
    <3>1. Trail(journal, c) = {"handoff" : f \in from}
                              \cup {journal[k].type : k \in {k \in 1..Len(journal) :
                                       journal[k].of = c /\ \A f \in from : f < k}}
      BY Zenon DEF Trail
    <3>2. i \in from
      BY <2>4
    <3> QED BY <3>1, <3>2
  <2> QED BY <2>1, <2>2, <2>5 DEF FileTrue
<1> QED BY <1>1, Invariance, PTL

\* The memory is a projection of the journal: as long as no write has
\* failed, reading the file back gives what the process knows (#replay, #apply,
\* #compact).
THEOREM JournalStaysKnown == Spec => []JournalIsKnown
<1>1. IInv => JournalIsKnown
  <2> SUFFICES ASSUME IInv, Up, ~ torn, Readable(journal)
               PROVE  LET r == Replayed(journal) IN
                      /\ r.order = order /\ r.seq = seq
                      /\ \A c \in Commands :
                           [r.mem[c] EXCEPT !.due = TRUE] = [mem[c] EXCEPT !.due = TRUE]
    BY DEF JournalIsKnown, MemoryIsJournal, IInv
  <2>1. Steady(Holding, job) /\ Holding \in States
    BY BeginsUp
  <2>2. /\ journal \in Journals /\ mem \in Memories /\ seq = Len(journal) + 1
        /\ Matches(journal, order, mem)
    BY <2>1, HoldingParts DEF Steady, States
  <2> DEFINE r == Replayed(journal)
  <2>3. /\ r.order = HandoffsIn(journal) /\ r.seq = Len(journal) + 1
        /\ \A c \in Commands : r.mem[c] = Recalled(journal, c)
    BY DEF Replayed
  <2> HIDE DEF r
  <2>4. ASSUME NEW c \in Commands
        PROVE  [r.mem[c] EXCEPT !.due = TRUE] = [mem[c] EXCEPT !.due = TRUE]
    <3>1. /\ Same(Recalled(journal, c), mem[c])
          /\ Recalled(journal, c) \in [status : {"unknown", "pending"} \cup Terminal,
                                       attempts : Nat, due : BOOLEAN, failed : BOOLEAN]
          /\ mem[c] \in [status : {"unknown", "pending"} \cup Terminal,
                         attempts : Nat, due : BOOLEAN, failed : BOOLEAN]
      BY <2>2, RecalledType DEF Matches, Memories
    <3>2. r.mem[c] = Recalled(journal, c)
      BY <2>3
    <3>3. \A z : [Recalled(journal, c) EXCEPT !.due = z] = [mem[c] EXCEPT !.due = z]
      BY <3>1, DueAside
    <3> QED BY <3>2, <3>3, Zenon
  <2> QED BY <2>2, <2>3, <2>4 DEF Matches, r
<1> QED BY <1>1, Invariance, PTL

\* Within a scope no command is at the provider before the ones accepted
\* earlier have their outcome (#runReadyInternal, #replay, #compact).
THEOREM ScopeOrderKept == Spec => []ScopeOrder
<1>1. IInv => ScopeOrder
  <2> DEFINE line == CommandOrder(handed)
  <2> SUFFICES ASSUME IInv, NEW i \in 1..Len(line), NEW j \in 1..Len(line), i < j,
                      ScopeOf[line[i]] = ScopeOf[line[j]], job[line[j]] = "calling",
                      line[i] \in Owed
               PROVE  line[i] \in settled
    BY DEF ScopeOrder
  <2>1. handed \in Seq(Handoffs) /\ Distinct(handed) /\ Bare
    BY TypeParts DEF IInv, Bare
  <2>2. line \in Seq(Commands)
    BY <2>1, CommandsInOrder
  <2>3. Follows(line, line[i], line[j])
    BY FollowsPlaces
  <2> HIDE DEF line
  <2>4. PICK c \in Commands : c = line[j]
    BY <2>2
  <2>5. PICK d \in Commands : d = line[i]
    BY <2>2
  <2>6. Up
    BY <2>4 DEF IInv, ReleasedIsQuiet, Running
  <2>7. /\ MemoryTrue(order, mem, handed, settled) /\ HeldIn(Range(order), accepted, settled)
        /\ RunsFirst(order, mem, job) /\ order \in Seq(Handoffs) /\ accepted \in SUBSET Handoffs
        /\ mem \in Memories
    <3>1. Sound(Holding, handed, accepted, settled, job) /\ accepted \in SUBSET Handoffs
      BY <2>6, BeginsUp
    <3> QED BY <3>1, HoldingParts DEF Sound, States
  <2>8. Range(order) \subseteq Handoffs /\ Range(handed) \subseteq Handoffs
    BY <2>1, <2>7, InSequence
  <2>9. job[c] # "idle" /\ mem[c].status = "pending"
    BY <2>4, <2>7 DEF RunsFirst
  <2>10. PICK h \in Range(order) : c \in Holders(h)
    BY <2>7, <2>9 DEF MemoryTrue
  <2>11. ASSUME Follows(CommandOrder(order), d, c), NEW g \in Range(order), d \in Holders(g)
         PROVE  d \in settled
    <3>1. mem[d].status # "pending"
      BY <2>4, <2>5, <2>7, <2>9, <2>11 DEF RunsFirst
    <3>2. mem[d].status # "unknown"
      BY <2>7, <2>11 DEF MemoryTrue
    <3>3. mem[d].status \in {"unknown", "pending"} \cup Terminal
      BY <2>7 DEF Memories
    <3> QED BY <2>7, <3>1, <3>2, <3>3 DEF MemoryTrue
  <2>12. PICK g \in accepted \cup Range(order) : d \in Holders(g)
    BY <2>5 DEF Owed
  <2>13. CASE g \notin Range(order)
    BY <2>5, <2>7, <2>12, <2>13 DEF HeldIn
  <2>14. ASSUME g \in Range(order), NEW f \in Handoffs, NEW e \in Handoffs,
                Follows(handed, f, e), d \in Holders(f), c \in Holders(e)
         PROVE  d \in settled
    <3>1. f = g /\ e = h
      BY <2>8, <2>10, <2>12, <2>14, OneHolder
    <3>2. g = h \/ Follows(order, g, h) \/ Follows(order, h, g)
      BY <2>7, <2>10, <2>14, DistinctOrder
    <3>3. ~ Follows(handed, h, g) /\ g # h
      BY <2>1, <2>14, <3>1, DistinctOrder
    <3>4. Follows(order, g, h)
      BY <2>7, <3>2, <3>3 DEF MemoryTrue, OrderedIn
    <3>5. Follows(CommandOrder(order), d, c)
      BY <2>7, <2>14, <3>1, <3>4, CommandsInOrder
    <3> QED BY <2>11, <2>14, <3>1, <3>5
  <2>15. ASSUME NEW e \in Range(handed), Follows(CommandsOf[e], d, c)
         PROVE  d \in settled
    <3>1. d \in Holders(e) /\ c \in Holders(e)
      BY <2>8, <2>15, HoldersType, FollowsBoth DEF Holders
    <3>2. e = h
      BY <2>8, <2>10, <3>1, OneHolder
    <3>3. Follows(CommandOrder(order), d, c)
      BY <2>7, <2>10, <2>15, <3>2, CommandsInOrder
    <3> QED BY <2>10, <2>11, <3>1, <3>2, <3>3
  <2>16. \/ \E f, e \in Handoffs : Follows(handed, f, e) /\ d \in Holders(f) /\ c \in Holders(e)
         \/ \E e \in Range(handed) : Follows(CommandsOf[e], d, c)
    BY <2>1, <2>3, <2>4, <2>5, CommandsInOrder DEF line
  <2> QED BY <2>5, <2>13, <2>14, <2>15, <2>16
<1> QED BY <1>1, Invariance, PTL

-----------------------------------------------------------------------------
(* The file writer.  The invariant: records, plans, hands and files agree.  *)

\* Records agree with each other and with how far their command is.
Recorded ==
  \A c \in Commands :
    /\ intent[c] # None /\ receipt[c] # None => intent[c] = receipt[c]
    /\ at[c] # "idle" \/ answer[c] # "none" => Plan(c) # None
    /\ at[c] \in {"clean", "written"} \/ answer[c] = "written" => receipt[c] # None
    /\ answer[c] # "none" => at[c] = "idle"

\* A command has a plan only when those before it in its scope have their answer.
InTurn ==
  \A c \in Commands : Plan(c) # None => \A d \in Earlier[c] : answer[d] # "none"

\* One delivery at a time holds the directory.
Alone == \A c, d \in Commands : Inside(c) /\ Inside(d) => c = d

\* The text of a command stands where its plan says, hence nowhere else.
Planned == \A f \in Names : files[f] \in Commands => Plan(files[f]) = f

\* Whatever no command wrote was put there by a hand, and hands are counted.
Foreign == {f \in Names : files[f] = Other}
Counted == Foreign \subseteq touched /\ Cardinality(Foreign) + hands <= Hands

\* Nothing of a command is in the way of a write.
Clear == \A c \in Commands : at[c] = "write" => files[Plan(c)] \in {None, Other}

\* From its rename on, a command has its file, unless a hand was there.
Stands(c) == files[Plan(c)] = c \/ Plan(c) \in touched
Standing ==
  \A c \in Commands : at[c] \in {"index", "receipt"} \/ receipt[c] # None => Stands(c)

\* A rejected command found a foreign text, or the fact of another scope.
Caused ==
  \A c \in Commands : "rejected" \in {at[c], answer[c]} =>
    \/ Plan(c) \in touched
    \/ files[Plan(c)] \in Commands /\ ScopeOf[files[Plan(c)]] # ScopeOf[c]

\* Commands of one scope share a name only over a file somebody has removed.
Apart ==
  \A c, d \in Commands :
    c # d /\ ScopeOf[c] = ScopeOf[d] /\ Plan(c) # None /\ Plan(c) = Plan(d)
      => Plan(c) \in touched

\* From its reindexing on a command is listed; what is listed is there.
Indexed(c) == at[c] \in {"receipt", "clean", "written"} \/ answer[c] = "written"
Listing ==
  /\ \A c \in Commands : Indexed(c) => Plan(c) \in index \cup touched
  /\ \A f \in index : files[f] # None \/ f \in touched

MTIInv ==
  /\ MTTypeOK /\ Recorded /\ InTurn /\ Alone /\ Planned /\ Counted
  /\ Clear /\ Standing /\ Caused /\ Apart /\ Listing
-----------------------------------------------------------------------------
(* Facts about the directory                                               *)

LEMMA SuffixesFinite ==
  /\ Cardinality(Commands) \in Nat
  /\ IsFiniteSet(Suffixes) /\ Suffixes \subseteq Nat
  /\ Cardinality(Suffixes) = Cardinality(Commands) + Hands
<1>1. Cardinality(Commands) \in Nat
  BY FS_CardinalityType, TransactionAssumption
<1>2. Cardinality(Commands) + Hands \in Nat
  BY <1>1, TransactionAssumption
<1> DEFINE n == Cardinality(Commands) + Hands
<1>3. IsFiniteSet(1..n) /\ Cardinality(1..n) = IF 1 > n THEN 0 ELSE n - 1 + 1
  BY <1>2, FS_Interval
<1>4. Cardinality(1..n) = n /\ 1..n \subseteq Nat
  BY <1>2, <1>3
<1> QED BY <1>1, <1>3, <1>4 DEF Suffixes

LEMMA NamesFinite == IsFiniteSet(Names)
<1> DEFINE dirs == {DirOf[c] : c \in Commands}
           dir  == [c \in Commands |-> DirOf[c]]
<1>1. dir \in Surjection(Commands, dirs)
  BY DEF Surjection
<1>2. IsFiniteSet(dirs)
  BY <1>1, FS_Surjection, TransactionAssumption
<1> QED BY <1>2, SuffixesFinite, FS_Product DEF Names

\* There are more suffixes than files under one name: the text of another command
\* takes up one of them and so does a hand, and this command's is not there.
LEMMA SomeSuffixFree ==
  ASSUME MTTypeOK, Planned, Counted, NEW c \in Commands, Plan(c) = None
  PROVE  \E n \in Suffixes : files[<<DirOf[c], n>>] = None
<1> DEFINE Name(n) == <<DirOf[c], n>>
           foreign == {n \in Suffixes : files[Name(n)] = Other}
           ours    == {n \in Suffixes : files[Name(n)] \in Commands}
<1> SUFFICES ASSUME \A n \in Suffixes : files[Name(n)] # None
             PROVE  FALSE
  OBVIOUS
<1>1. \A n \in Suffixes : Name(n) \in Names
  BY DEF Names
<1>2. Suffixes = foreign \cup ours
  BY <1>1 DEF MTTypeOK
<1>3. IsFiniteSet(Foreign) /\ Cardinality(Foreign) <= Hands
  <2>1. IsFiniteSet(Foreign)
    BY NamesFinite, FS_Subset DEF Foreign
  <2> QED BY <2>1, FS_CardinalityType, TransactionAssumption DEF Counted, MTTypeOK
<1>4. IsFiniteSet(foreign) /\ Cardinality(foreign) <= Cardinality(Foreign)
  <2> DEFINE to == [n \in foreign |-> Name(n)]
  <2>1. to \in [foreign -> Foreign]
    BY <1>1 DEF Foreign
  <2>2. \A m, n \in foreign : to[m] = to[n] => m = n
    OBVIOUS
  <2>3. to \in Injection(foreign, Foreign)
    BY <2>1, <2>2 DEF Injection, IsInjective
  <2> QED BY <1>3, <2>3, FS_Injection
<1>5. /\ IsFiniteSet(Commands \ {c})
      /\ Cardinality(Commands \ {c}) = Cardinality(Commands) - 1
  BY FS_RemoveElement, TransactionAssumption
<1>6. IsFiniteSet(ours) /\ Cardinality(ours) <= Cardinality(Commands) - 1
  <2> DEFINE to == [n \in ours |-> files[Name(n)]]
  <2>1. \A n \in ours : files[Name(n)] \in Commands \ {c}
    BY <1>1, NamesAssumption DEF Planned
  <2>2. to \in [ours -> Commands \ {c}]
    BY <2>1
  <2>3. \A n \in ours : Plan(to[n]) = Name(n)
    BY <1>1 DEF Planned
  <2>4. \A m, n : Name(m) = Name(n) => m = n
    OBVIOUS
  <2> HIDE DEF Name, to
  <2>5. \A m, n \in ours : to[m] = to[n] => m = n
    BY <2>3, <2>4
  <2>6. to \in Injection(ours, Commands \ {c})
    BY <2>2, <2>5, Zenon DEF Injection, IsInjective
  <2> QED BY <1>5, <2>6, FS_Injection
<1>7. Cardinality(Suffixes) <= Cardinality(foreign) + Cardinality(ours)
  <2>1. Cardinality(foreign \cap ours) \in Nat
    BY <1>4, FS_Intersection, FS_CardinalityType
  <2>2. Cardinality(foreign) \in Nat /\ Cardinality(ours) \in Nat
    BY <1>4, <1>6, FS_CardinalityType
  <2>3. Cardinality(foreign \cup ours)
          = Cardinality(foreign) + Cardinality(ours) - Cardinality(foreign \cap ours)
    BY <1>4, <1>6, FS_Union
  <2>4. Cardinality(Suffixes) = Cardinality(foreign \cup ours)
    BY <1>2
  <2> HIDE DEF foreign, ours
  <2> QED BY <2>1, <2>2, <2>3, <2>4
<1>8. /\ Cardinality(foreign) \in Nat /\ Cardinality(ours) \in Nat
      /\ Cardinality(Foreign) \in Nat
  BY <1>3, <1>4, <1>6, FS_CardinalityType
<1> QED BY <1>3, <1>4, <1>6, <1>7, <1>8, SuffixesFinite, TransactionAssumption

LEMMA FreeName ==
  ASSUME MTTypeOK, Planned, Counted, NEW c \in Commands, Plan(c) = None
  PROVE  /\ <<DirOf[c], FreeSuffix(c)>> \in Names
         /\ files[<<DirOf[c], FreeSuffix(c)>>] = None
<1> DEFINE free == {n \in Suffixes : files[<<DirOf[c], n>>] = None}
<1>1. free # {} /\ free \in SUBSET Nat
  BY SomeSuffixFree, SuffixesFinite
<1>2. \E x \in free : \A y \in free : x <= y
  BY <1>1, LeastExists
<1>3. FreeSuffix(c) \in free
  BY <1>2 DEF FreeSuffix, Min
<1> QED BY <1>3 DEF Names

-----------------------------------------------------------------------------
(* The invariant *)

LEMMA MTInitially == MTInit => MTIInv
<1> SUFFICES ASSUME MTInit PROVE MTIInv
  OBVIOUS
<1>1. MTTypeOK
  <2>1. files \in [Names -> Commands \cup {None, Other}] /\ index \subseteq Names
    BY DEF MTInit
  <2>2. /\ intent \in [Commands -> Names \cup {None}]
        /\ receipt \in [Commands -> Names \cup {None}]
    BY DEF MTInit
  <2>3. at \in [Commands -> {"idle", "check", "write", "index", "receipt", "clean",
                            "written", "rejected"}]
    BY DEF MTInit
  <2>4. answer \in [Commands -> {"none", "written", "rejected"}] /\ mending \in BOOLEAN
    BY DEF MTInit
  <2>5. mishaps \in 0..Mishaps /\ hands \in 0..Hands /\ touched \subseteq Names
    BY TransactionAssumption DEF MTInit
  <2> QED BY <2>1, <2>2, <2>3, <2>4, <2>5 DEF MTTypeOK
<1>2. Foreign = {}
  BY TransactionAssumption DEF MTInit, Foreign
<1>3. Counted
  BY <1>2, FS_EmptySet, TransactionAssumption DEF MTInit, Counted
<1> QED BY <1>1, <1>3, NamesAssumption, TransactionAssumption
  DEF MTIInv, MTInit, Recorded, InTurn, Alone, Inside, Told, Planned, Clear, Standing,
      Caused, Apart, Listing, Indexed, Plan

\* A free name is planned: no text stands there, and who of its scope planned it
\* before has its answer, so its file is there or a hand has taken it.
LEMMA FreezeStep ==
  ASSUME MTIInv, NEW c \in Commands, Freeze(c)
  PROVE  MTIInv'
<1> USE TransactionAssumption, NamesAssumption DEF Plan, Inside, Told, disk, world
<1>name. /\ <<DirOf[c], FreeSuffix(c)>> \in Names
      /\ files[<<DirOf[c], FreeSuffix(c)>>] = None
  BY FreeName DEF MTIInv, Freeze, Delivered
<1>1. MTTypeOK'
  <2>1. intent' \in [Commands -> Names \cup {None}]
    BY <1>name DEF MTIInv, MTTypeOK, Freeze
  <2>2. at' \in [Commands -> {"idle", "check", "write", "index", "receipt", "clean",
                             "written", "rejected"}]
    BY DEF MTIInv, MTTypeOK, Freeze, Goes
  <2> QED BY <2>1, <2>2 DEF MTIInv, MTTypeOK, Freeze
<1>2. Recorded'
  BY <1>name DEF MTIInv, Freeze, Delivered, Goes, MTTypeOK, Recorded
<1>3. InTurn'
  BY <1>name DEF MTIInv, Freeze, Delivered, Goes, MTTypeOK, InTurn
<1>4. Alone'
  BY <1>name DEF MTIInv, Freeze, Delivered, Goes, MTTypeOK, Alone, Free
<1>5. Planned'
  BY <1>name DEF MTIInv, Freeze, Delivered, Goes, MTTypeOK, Planned
<1>6. Caused'
  BY <1>name DEF MTIInv, Freeze, Delivered, Goes, MTTypeOK, Caused
<1>7. Apart'
  BY <1>name
     DEF MTIInv, Freeze, Delivered, Goes, MTTypeOK, Apart, Recorded, InTurn, Standing,
         Stands, Caused
<1>8. Counted' /\ Clear' /\ Standing' /\ Listing'
  BY <1>name
     DEF MTIInv, Freeze, Delivered, Goes, MTTypeOK, Counted, Foreign, Clear, Standing,
         Stands, Listing, Indexed
<1> QED BY <1>1, <1>2, <1>3, <1>4, <1>5, <1>6, <1>7, <1>8 DEF MTIInv

\* An earlier record is taken up again; nobody else holds the directory.
LEMMA ResumeStep ==
  ASSUME MTIInv, NEW c \in Commands, Resume(c)
  PROVE  MTIInv'
<1> USE TransactionAssumption, NamesAssumption DEF Plan, Inside, Told, disk, world
<1>plans. \A d \in Commands : Plan(d)' = Plan(d)
  BY DEF MTIInv, MTTypeOK, Recorded, Resume, Delivered, Goes
<1>1. MTTypeOK'
  BY <1>plans DEF MTIInv, Resume, Delivered, Goes, MTTypeOK
<1>2. Recorded'
  BY <1>plans DEF MTIInv, Resume, Delivered, Goes, MTTypeOK, Recorded
<1>3. Alone'
  BY <1>plans DEF MTIInv, Resume, Delivered, Goes, MTTypeOK, Alone, Free
<1>4. /\ InTurn' /\ Planned' /\ Counted' /\ Clear' /\ Standing' /\ Caused'
      /\ Apart' /\ Listing'
  BY <1>plans
     DEF MTIInv, Resume, Delivered, Goes, MTTypeOK, InTurn, Planned, Counted, Foreign,
         Clear, Standing, Stands, Caused, Apart, Listing, Indexed
<1> QED BY <1>1, <1>2, <1>3, <1>4 DEF MTIInv

\* The name is free for a write, or has the text, or is another's: then a hand's or
\* one of another scope's.
LEMMA CheckStep ==
  ASSUME MTIInv, NEW c \in Commands, Check(c)
  PROVE  MTIInv'
<1> USE TransactionAssumption, NamesAssumption DEF Plan, Inside, Told, disk, world
<1>plans. \A d \in Commands : Plan(d)' = Plan(d)
  BY DEF MTIInv, MTTypeOK, Recorded, Check, Checked, Goes
<1>1. MTTypeOK'
  BY <1>plans DEF MTIInv, Check, Checked, Goes, MTTypeOK
<1>2. Recorded'
  BY <1>plans DEF MTIInv, Check, Checked, Goes, MTTypeOK, Recorded
<1>3. Alone'
  BY <1>plans DEF MTIInv, Check, Checked, Goes, MTTypeOK, Alone
<1>4. Clear'
  BY <1>plans DEF MTIInv, Check, Checked, Goes, MTTypeOK, Clear
<1>5. Standing'
  BY <1>plans DEF MTIInv, Check, Checked, Goes, MTTypeOK, Standing, Stands
<1>6. Caused'
  <2> DEFINE there == files[Plan(c)]
  <2>1. UNCHANGED <<files, touched, answer>>
    BY DEF Check
  <2>2. \A d \in Commands \ {c} : at'[d] = at[d]
    BY DEF MTIInv, MTTypeOK, Check, Goes
  <2>3. at'[c] = "rejected" => there # None /\ there # c
    BY DEF MTIInv, MTTypeOK, Check, Checked, Goes
  <2>4. Plan(c) \in Names /\ answer[c] = "none"
    BY DEF MTIInv, MTTypeOK, Recorded, Check
  <2>5. there = Other => Plan(c) \in touched
    BY <2>4 DEF MTIInv, Counted, Foreign
  <2>6. ASSUME there \in Commands, there # c, ScopeOf[there] = ScopeOf[c]
        PROVE  Plan(c) \in touched
    BY <2>4, <2>6 DEF MTIInv, Planned, Apart
  <2>7. at'[c] = "rejected" =>
          \/ Plan(c) \in touched
          \/ there \in Commands /\ ScopeOf[there] # ScopeOf[c]
    BY <2>3, <2>4, <2>5, <2>6 DEF MTIInv, MTTypeOK
  <2> QED BY <1>plans, <2>1, <2>2, <2>4, <2>7 DEF MTIInv, Caused
<1>7. InTurn' /\ Planned' /\ Counted' /\ Apart' /\ Listing'
  BY <1>plans
     DEF MTIInv, Check, Checked, Goes, MTTypeOK, InTurn, Planned, Counted, Foreign, Apart,
         Listing, Indexed
<1> QED BY <1>1, <1>2, <1>3, <1>4, <1>5, <1>6, <1>7 DEF MTIInv

\* What the rename replaces is nobody's text; all other texts stay.
LEMMA MaterializeStep ==
  ASSUME MTIInv, NEW c \in Commands, Materialize(c)
  PROVE  MTIInv'
<1> USE TransactionAssumption, NamesAssumption DEF Plan, Inside, Told, disk, world
<1>plans. \A d \in Commands : Plan(d)' = Plan(d)
  BY DEF MTIInv, MTTypeOK, Recorded, Materialize, Goes
<1>text. Plan(c) \in Names /\ files[Plan(c)] \in {None, Other}
  BY DEF MTIInv, MTTypeOK, Recorded, Clear, Materialize, Goes
<1>1. MTTypeOK'
  BY <1>plans, <1>text DEF MTIInv, Materialize, Goes, MTTypeOK
<1>2. Planned'
  BY <1>plans, <1>text DEF MTIInv, Materialize, Goes, MTTypeOK, Planned
<1>3. Clear'
  BY <1>plans, <1>text DEF MTIInv, Materialize, Goes, MTTypeOK, Clear, Alone
<1>4. Standing'
  BY <1>plans, <1>text DEF MTIInv, Materialize, Goes, MTTypeOK, Standing, Stands
<1>5. Caused'
  BY <1>plans, <1>text DEF MTIInv, Materialize, Goes, MTTypeOK, Caused
<1>6. Listing'
  BY <1>plans, <1>text DEF MTIInv, Materialize, Goes, MTTypeOK, Listing, Indexed
<1>7. Counted'
  <2>1. Foreign' \subseteq Foreign
    BY <1>plans, <1>text DEF MTIInv, MTTypeOK, Foreign, Materialize, Goes
  <2>2. IsFiniteSet(Foreign)
    BY NamesFinite, FS_Subset DEF Foreign
  <2>3. /\ Cardinality(Foreign') <= Cardinality(Foreign)
        /\ Cardinality(Foreign) \in Nat /\ Cardinality(Foreign') \in Nat
    BY <2>1, <2>2, FS_Subset, FS_CardinalityType
  <2> QED BY <2>1, <2>3 DEF MTIInv, Counted, MTTypeOK, Materialize, Goes
<1>8. Recorded' /\ InTurn' /\ Alone' /\ Apart'
  BY <1>plans, <1>text DEF MTIInv, Materialize, Goes, MTTypeOK, Recorded, InTurn, Alone, Apart
<1> QED BY <1>1, <1>2, <1>3, <1>4, <1>5, <1>6, <1>7, <1>8 DEF MTIInv

\* The new index lists what stands, hence every text with a receipt.
LEMMA ReindexStep ==
  ASSUME MTIInv, NEW c \in Commands, Reindex(c)
  PROVE  MTIInv'
<1> USE TransactionAssumption, NamesAssumption DEF Plan, Inside, Told, disk, world
<1>plans. \A d \in Commands : Plan(d)' = Plan(d)
  BY DEF MTIInv, MTTypeOK, Recorded, Reindex, Listed, AfterIndex, Goes
<1>1. MTTypeOK'
  BY <1>plans DEF MTIInv, Reindex, Listed, AfterIndex, Goes, MTTypeOK
<1>2. Recorded'
  <2>1. AfterIndex(c) \in {"clean", "written"} => receipt[c] # None
    BY DEF AfterIndex
  <2>2. at[c] = "index" /\ at' = [at EXCEPT ![c] = AfterIndex(c)]
    BY DEF Reindex, Goes
  <2>3. UNCHANGED <<intent, receipt, answer>>
    BY DEF Reindex
  <2> QED BY <2>1, <2>2, <2>3 DEF MTIInv, MTTypeOK, Recorded
<1>3. Alone'
  BY <1>plans DEF MTIInv, Reindex, Listed, AfterIndex, Goes, MTTypeOK, Alone
<1>4. Standing'
  BY <1>plans DEF MTIInv, Reindex, Listed, AfterIndex, Goes, MTTypeOK, Standing, Stands
<1>5. Listing'
  BY <1>plans
     DEF MTIInv, Reindex, Listed, AfterIndex, Goes, MTTypeOK, Listing, Indexed, Alone,
         Recorded, Standing, Stands
<1>6. InTurn' /\ Planned' /\ Counted' /\ Clear' /\ Caused' /\ Apart'
  BY <1>plans
     DEF MTIInv, Reindex, Listed, AfterIndex, Goes, MTTypeOK, InTurn, Planned, Counted,
         Foreign, Clear, Caused, Apart
<1> QED BY <1>1, <1>2, <1>3, <1>4, <1>5, <1>6 DEF MTIInv

\* The text stands and is listed, so the receipt is true.
LEMMA WriteReceiptStep ==
  ASSUME MTIInv, NEW c \in Commands, WriteReceipt(c)
  PROVE  MTIInv'
<1> USE TransactionAssumption, NamesAssumption DEF Plan, Inside, Told, disk, world
<1>plans. \A d \in Commands : Plan(d)' = Plan(d)
  BY DEF MTIInv, MTTypeOK, Recorded, WriteReceipt, Goes
<1>1. MTTypeOK'
  BY <1>plans DEF MTIInv, WriteReceipt, Goes, MTTypeOK
<1>2. Recorded'
  BY <1>plans DEF MTIInv, WriteReceipt, Goes, MTTypeOK, Recorded
<1>3. Standing'
  BY <1>plans DEF MTIInv, WriteReceipt, Goes, MTTypeOK, Standing, Stands
<1>4. Caused'
  <2>1. \A d \in Commands :
          "rejected" \in {at[d], answer[d]}' => "rejected" \in {at[d], answer[d]}
    BY DEF MTIInv, MTTypeOK, WriteReceipt, Goes
  <2>2. UNCHANGED <<files, touched>>
    BY DEF WriteReceipt
  <2> QED BY <1>plans, <2>1, <2>2 DEF MTIInv, Caused
<1>5. Apart'
  BY <1>plans DEF MTIInv, WriteReceipt, Goes, MTTypeOK, Apart
<1>6. Listing'
  BY <1>plans DEF MTIInv, WriteReceipt, Goes, MTTypeOK, Listing, Indexed
<1>7. InTurn' /\ Alone' /\ Planned' /\ Counted' /\ Clear'
  BY <1>plans
     DEF MTIInv, WriteReceipt, Goes, MTTypeOK, InTurn, Alone, Planned, Counted, Foreign,
         Clear
<1> QED BY <1>1, <1>2, <1>3, <1>4, <1>5, <1>6, <1>7 DEF MTIInv

\* The receipt takes the place of the intent, with the same plan.
LEMMA CleanStep ==
  ASSUME MTIInv, NEW c \in Commands, Clean(c)
  PROVE  MTIInv'
<1> USE TransactionAssumption, NamesAssumption DEF Plan, Inside, Told, disk, world
<1>plans. \A d \in Commands : Plan(d)' = Plan(d)
  BY DEF MTIInv, MTTypeOK, Recorded, Clean, Goes
<1>1. MTTypeOK'
  BY <1>plans DEF MTIInv, Clean, Goes, MTTypeOK
<1>2. Recorded'
  BY <1>plans DEF MTIInv, Clean, Goes, MTTypeOK, Recorded
<1>3. Standing'
  BY <1>plans DEF MTIInv, Clean, Goes, MTTypeOK, Standing, Stands
<1>4. Listing'
  BY <1>plans DEF MTIInv, Clean, Goes, MTTypeOK, Listing, Indexed
<1>5. InTurn' /\ Alone' /\ Planned' /\ Counted' /\ Clear' /\ Caused' /\ Apart'
  BY <1>plans
     DEF MTIInv, Clean, Goes, MTTypeOK, InTurn, Alone, Planned, Counted, Foreign, Clear,
         Caused, Apart
<1> QED BY <1>1, <1>2, <1>3, <1>4, <1>5 DEF MTIInv

\* The answer is what the delivery has come to.
LEMMA RecordStep ==
  ASSUME MTIInv, NEW c \in Commands, RecordAnswer(c)
  PROVE  MTIInv'
<1> USE TransactionAssumption, NamesAssumption DEF Plan, Inside, Told, disk, world
<1>plans. \A d \in Commands : Plan(d)' = Plan(d)
  BY DEF MTIInv, MTTypeOK, Recorded, RecordAnswer, Goes
<1>1. MTTypeOK'
  BY <1>plans DEF MTIInv, RecordAnswer, Goes, MTTypeOK
<1>2. Recorded'
  BY <1>plans DEF MTIInv, RecordAnswer, Goes, MTTypeOK, Recorded
<1>3. InTurn'
  BY <1>plans DEF MTIInv, RecordAnswer, Goes, MTTypeOK, InTurn
<1>4. Caused'
  BY <1>plans DEF MTIInv, RecordAnswer, Goes, MTTypeOK, Caused
<1>5. Listing'
  BY <1>plans DEF MTIInv, RecordAnswer, Goes, MTTypeOK, Listing, Indexed
<1>6. Alone' /\ Planned' /\ Counted' /\ Clear' /\ Standing' /\ Apart'
  BY <1>plans
     DEF MTIInv, RecordAnswer, Goes, MTTypeOK, Alone, Planned, Counted, Foreign, Clear, Standing,
         Stands, Apart
<1> QED BY <1>1, <1>2, <1>3, <1>4, <1>5, <1>6 DEF MTIInv

\* Nothing on disk changes; a delivery that stops promises nothing.
LEMMA ThrowStep ==
  ASSUME MTIInv, NEW c \in Commands, Throw(c)
  PROVE  MTIInv'
<1> USE TransactionAssumption, NamesAssumption DEF Plan, Inside, Told, disk, world
<1>plans. \A d \in Commands : Plan(d)' = Plan(d)
  BY DEF MTIInv, MTTypeOK, Recorded, Throw, Mishap, Goes
<1>1. MTTypeOK'
  BY <1>plans DEF MTIInv, Throw, Mishap, Goes, MTTypeOK
<1>2. /\ Recorded' /\ InTurn' /\ Alone' /\ Planned' /\ Counted' /\ Clear'
      /\ Standing' /\ Caused' /\ Apart' /\ Listing'
  BY <1>plans
     DEF MTIInv, Throw, Mishap, Goes, MTTypeOK, Recorded, InTurn, Alone, Planned, Counted,
         Foreign, Clear, Standing, Stands, Caused, Apart, Listing, Indexed
<1> QED BY <1>1, <1>2 DEF MTIInv

\* As for Throw, for every delivery.
LEMMA MTCrashStep ==
  ASSUME MTIInv, MTCrash
  PROVE  MTIInv'
<1> USE TransactionAssumption, NamesAssumption DEF Plan, Inside, Told, disk, world
<1>plans. \A d \in Commands : Plan(d)' = Plan(d)
  BY DEF MTIInv, MTTypeOK, Recorded, MTCrash, Mishap
<1>1. MTTypeOK'
  BY <1>plans DEF MTIInv, MTCrash, Mishap, MTTypeOK
<1>2. /\ Recorded' /\ InTurn' /\ Alone' /\ Planned' /\ Counted' /\ Clear'
      /\ Standing' /\ Caused' /\ Apart' /\ Listing'
  BY <1>plans
     DEF MTIInv, MTCrash, Mishap, MTTypeOK, Recorded, InTurn, Alone, Planned, Counted,
         Foreign, Clear, Standing, Stands, Caused, Apart, Listing, Indexed
<1> QED BY <1>1, <1>2 DEF MTIInv

\* A hand spends one of its bound, and whatever it breaks it has touched.
LEMMA TouchStep ==
  ASSUME MTIInv, NEW f \in Names, Touch(f)
  PROVE  MTIInv'
<1> USE TransactionAssumption, NamesAssumption DEF Plan, Inside, Told, disk, world
<1>plans. \A d \in Commands : Plan(d)' = Plan(d)
  BY DEF MTIInv, MTTypeOK, Recorded, Touch
<1>1. MTTypeOK'
  BY <1>plans DEF MTIInv, Touch, MTTypeOK
<1>2. Planned'
  BY <1>plans DEF MTIInv, Touch, MTTypeOK, Planned
<1>3. Clear'
  BY <1>plans DEF MTIInv, Touch, MTTypeOK, Clear
<1>4. Standing'
  BY <1>plans DEF MTIInv, Touch, MTTypeOK, Standing, Stands
<1>5. Caused'
  BY <1>plans DEF MTIInv, Touch, MTTypeOK, Caused
<1>6. Listing'
  BY <1>plans DEF MTIInv, Touch, MTTypeOK, Listing, Indexed
<1>7. Counted'
  <2>1. Foreign' \subseteq Foreign \cup {f}
    BY DEF MTIInv, MTTypeOK, Foreign, Touch
  <2>2. IsFiniteSet(Foreign)
    BY NamesFinite, FS_Subset DEF Foreign
  <2>3. /\ IsFiniteSet(Foreign \cup {f})
        /\ Cardinality(Foreign \cup {f})
             = IF f \in Foreign THEN Cardinality(Foreign) ELSE Cardinality(Foreign) + 1
    BY <2>2, FS_AddElement
  <2>4. Cardinality(Foreign') <= Cardinality(Foreign \cup {f})
    BY <2>1, <2>3, FS_Subset
  <2>5. /\ Cardinality(Foreign) \in Nat /\ Cardinality(Foreign') \in Nat
        /\ Cardinality(Foreign \cup {f}) \in Nat
    BY <2>1, <2>2, <2>3, FS_Subset, FS_CardinalityType
  <2> QED BY <2>1, <2>3, <2>4, <2>5 DEF MTIInv, Counted, MTTypeOK, Touch
<1>8. Recorded' /\ InTurn' /\ Alone' /\ Apart'
  BY <1>plans DEF MTIInv, Touch, MTTypeOK, Recorded, InTurn, Alone, Apart
<1> QED BY <1>1, <1>2, <1>3, <1>4, <1>5, <1>6, <1>7, <1>8 DEF MTIInv

LEMMA MTNextStep == MTIInv /\ [MTNext]_mtvars => MTIInv'
<1> SUFFICES ASSUME MTIInv, [MTNext]_mtvars PROVE MTIInv'
  OBVIOUS
<1>1. ASSUME NEW c \in Commands, MTWork(c) PROVE MTIInv'
  <2>1. CASE Freeze(c)
    BY <2>1, FreezeStep
  <2>2. CASE Resume(c)
    BY <2>2, ResumeStep
  <2>3. CASE Check(c)
    BY <2>3, CheckStep
  <2>4. CASE Materialize(c)
    BY <2>4, MaterializeStep
  <2>5. CASE Reindex(c)
    BY <2>5, ReindexStep
  <2>6. CASE WriteReceipt(c)
    BY <2>6, WriteReceiptStep
  <2>7. CASE Clean(c)
    BY <2>7, CleanStep
  <2>8. CASE RecordAnswer(c)
    BY <2>8, RecordStep
  <2> QED BY <1>1, <2>1, <2>2, <2>3, <2>4, <2>5, <2>6, <2>7, <2>8 DEF MTWork
<1>2. ASSUME NEW c \in Commands, Throw(c) PROVE MTIInv'
  BY <1>2, ThrowStep
<1>3. CASE MTCrash
  BY <1>3, MTCrashStep
<1>4. ASSUME NEW f \in Names, Touch(f) PROVE MTIInv'
  BY <1>4, TouchStep
<1>5. CASE UNCHANGED mtvars
  BY <1>5 DEF mtvars, MTIInv, MTTypeOK, Recorded, InTurn, Alone, Inside, Plan, Planned, Counted,
              Foreign, Clear, Standing, Stands, Caused, Apart, Listing, Indexed
<1> QED BY <1>1, <1>2, <1>3, <1>4, <1>5 DEF MTNext

LEMMA MTInvariance == MTSpec => []MTIInv
BY MTInitially, MTNextStep, PTL DEF MTSpec

-----------------------------------------------------------------------------
(* What follows from it                                                    *)

\* The records, the directory and the deliveries are of their types; in
\* particular planMemoryEntryAsync always finds a free suffix.
THEOREM MTTypeCorrect == MTSpec => []MTTypeOK
<1>1. MTIInv => MTTypeOK
  BY DEF MTIInv
<1> QED BY <1>1, MTInvariance, PTL

\* A receipt says what the directory holds: the fact is there unless a hand was,
\* and it is there once, over any number of commands, crashes and retries.
THEOREM ReceiptsStayTrue == MTSpec => []ReceiptsAreTrue
<1>1. MTIInv => ReceiptsAreTrue
  <2> SUFFICES ASSUME MTIInv PROVE ReceiptsAreTrue
    OBVIOUS
  <2>1. ReceiptIsBacked
    <3> SUFFICES ASSUME NEW c \in Commands, receipt[c] # None
                 PROVE  files[receipt[c]] = c \/ receipt[c] \in touched
      BY DEF ReceiptIsBacked
    <3>1. Plan(c) = receipt[c]
      BY DEF MTIInv, Recorded, Plan
    <3> QED BY <3>1 DEF MTIInv, Standing, Stands
  <2>2. ASSUME NEW c \in Commands
        PROVE  Cardinality({f \in Names : files[f] = c}) <= 1
    <3> DEFINE homes == {f \in Names : files[f] = c}
    <3>1. homes \subseteq {Plan(c)}
      BY DEF MTIInv, Planned
    <3>2. IsFiniteSet({Plan(c)}) /\ Cardinality({Plan(c)}) = 1
      BY FS_Singleton
    <3> QED BY <3>1, <3>2, FS_Subset
  <2> QED BY <2>1, <2>2 DEF ReceiptsAreTrue, WrittenOnce
<1> QED BY <1>1, MTInvariance, PTL

\* MEMORY.md lists every command that was answered "written" and nothing that is
\* missing, but for what hands have done since.
THEOREM IndexStaysTrue == MTSpec => []IndexIsTrue
<1>1. MTIInv => IndexIsTrue
  <2> SUFFICES ASSUME MTIInv PROVE IndexIsTrue
    OBVIOUS
  <2>1. ASSUME NEW c \in Commands, "written" \in {at[c], answer[c]}
        PROVE  receipt[c] \in index \cup touched
    <3>1. Plan(c) = receipt[c]
      BY <2>1 DEF MTIInv, Recorded, Plan
    <3> QED BY <2>1, <3>1 DEF MTIInv, Listing, Indexed
  <2> QED BY <2>1 DEF IndexIsTrue, MTIInv, Listing
<1> QED BY <1>1, MTInvariance, PTL

\* A command is rejected only over a name a hand has touched or another scope has
\* taken: between commands of one scope, which run in their order, it never is.
THEOREM RejectionsHaveCause == MTSpec => []RejectedForCause
<1>1. MTIInv => RejectedForCause
  <2> SUFFICES ASSUME MTIInv, NEW c \in Commands, "rejected" \in {at[c], answer[c]},
                      Plan(c) \notin touched
               PROVE  \E d \in Commands : ScopeOf[d] # ScopeOf[c] /\ Plan(d) = Plan(c)
    BY DEF RejectedForCause
  <2>1. files[Plan(c)] \in Commands /\ ScopeOf[files[Plan(c)]] # ScopeOf[c]
    BY DEF MTIInv, Caused
  <2>2. Plan(c) \in Names
    BY DEF MTIInv, MTTypeOK, Recorded, Plan
  <2> QED BY <2>1, <2>2 DEF MTIInv, Planned
<1> QED BY <1>1, MTInvariance, PTL

\* No step of the writer takes away the text of a command: the file it renames
\* over is not there, or is a foreign one that has come between its check and it.
THEOREM NothingIsLost == MTSpec => NothingLost
<1>1. ASSUME MTIInv, [MTNext]_mtvars, NEW f \in Names, files[f] \in Commands, files'[f] # files[f]
      PROVE  hands' < hands
  <2>1. ASSUME NEW c \in Commands, Materialize(c) PROVE FALSE
    <3>1. files' = [files EXCEPT ![Plan(c)] = c] /\ files[Plan(c)] \in {None, Other}
      BY <1>1, <2>1 DEF Materialize, MTIInv, Clear
    <3>2. files[Plan(c)] \notin Commands
      BY <3>1, TransactionAssumption
    <3> QED BY <1>1, <3>1, <3>2 DEF MTIInv, MTTypeOK
  <2>2. ASSUME NEW c \in Commands, MTWork(c) \/ Throw(c) PROVE FALSE
    BY <1>1, <2>1, <2>2
    DEF MTWork, Throw, Freeze, Resume, Check, Reindex, WriteReceipt, Clean, RecordAnswer, disk
  <2>3. PICK g \in Names : Touch(g)
    BY <1>1, <2>2 DEF MTNext, MTCrash, disk, mtvars
  <2> QED BY <1>1, <2>3 DEF Touch, MTIInv, MTTypeOK
<1>2. MTIInv /\ [MTNext]_mtvars =>
        [\A f \in Names : files[f] \in Commands /\ files'[f] # files[f] => hands' < hands]_mtvars
  BY <1>1
<1> QED BY <1>2, MTInvariance, PTL DEF MTSpec, NothingLost
=============================================================================
