--------------------------- MODULE DelegationProofs ---------------------------
(***************************************************************************)
(* Safety of Delegation for every number of residents, delegations, slots, *)
(* messages and stops and every capacity of the queues.                    *)
(***************************************************************************)
EXTENDS Delegation, FiniteSetTheorems, NaturalsInduction, WellFoundedInduction, TLAPS

Early == {"new", "reserved", "spawned", "refused"}
Active == {"starting", "turn"}

\* The task of d is queued for a, or it is in the batch of a.
At(d, a) == d \in Tasks(queue[a]) \/ d \in Tasks(batch[a])

\* It waits for a turn, or has one.
Held(d, a) == d \in Tasks(queue[a]) \/ (d \in Tasks(batch[a]) /\ phase[a] \in Active)

\* A task is in one place, and that is with the target of its record.
OnePlace ==
  \A d \in Delegations : \A a, b \in Agents :
    /\ At(d, a) /\ (At(d, b) \/ entry[b] = d) => a = b
    /\ ~ (d \in Tasks(queue[a]) /\ d \in Tasks(batch[a]))

\* The fate of a task says where it can be, and whether its record can remain.
FateShows ==
  \A d \in Delegations :
    /\ fate[d] = "sent" <=> \E a \in Agents : Held(d, a)
    /\ fate[d] \in Early \cup Verdicts => \A a \in Agents : entry[a] # d
    /\ fate[d] \in Early => \A a \in Agents : ~ At(d, a)

\* Nobody is told before the record is gone.
ToldOnce ==
  \A d \in Delegations :
    fate[d] \in Early \cup {"sent"} \/ (\E a \in Agents : entry[a] = d) => told[d] = <<>>

\* An idle controller has no batch, one outside the tree no work and no record.
AtRest ==
  \A a \in Agents :
    /\ phase[a] = "idle" => batch[a] = <<>>
    /\ a \notin live => phase[a] = "idle" /\ entry[a] = None
    /\ a \in disposed \/ a \notin live => ~ Wakes(queue[a])

IInv == TypeOK /\ OnePlace /\ FateShows /\ ToldOnce /\ AtRest /\ CallbackIsTrue

-----------------------------------------------------------------------------
(* Queues                                                                  *)

LEMMA ItemFacts ==
  /\ \A d \in Delegations : /\ Task(d) \in Items /\ Task(d).kind = "task" /\ Task(d).of = d
                            /\ Task(d).kind # "quiet"
  /\ \A k \in {"user", "note", "quiet"} :
       Other(k) \in Items /\ Other(k).kind = k /\ \A d : Other(k) # Task(d)
  /\ \A i \in Items : /\ i.kind \in {"task", "user", "note", "quiet"}
                      /\ i.kind = "task" => i.of \in Delegations /\ i = Task(i.of)
BY DEF Items, Task, Other

LEMMA TasksAre ==
  ASSUME NEW q \in Seq(Items)
  PROVE  /\ Tasks(q) \subseteq Delegations
         /\ \A d \in Delegations : d \in Tasks(q) <=> \E i \in DOMAIN q : q[i] = Task(d)
         /\ Tasks(q) # {} => Wakes(q)
<1>1. \A i \in DOMAIN q : q[i] \in Items
  OBVIOUS
<1>2. \A d : d \in Tasks(q) <=> \E i \in DOMAIN q : q[i].kind = "task" /\ q[i].of = d
  BY DEF Tasks, ToSet
<1> QED BY <1>1, <1>2, ItemFacts DEF Wakes

LEMMA TasksWithin ==
  ASSUME NEW q \in Seq(Items), NEW p \in Seq(Items),
         \A i \in DOMAIN p : p[i].kind = "quiet" \/ \E j \in DOMAIN q : p[i] = q[j]
  PROVE  Tasks(p) \subseteq Tasks(q) /\ (Wakes(p) => Wakes(q))
<1>1. Tasks(p) \subseteq Tasks(q)
  BY TasksAre, ItemFacts
<1> QED BY <1>1 DEF Wakes

LEMMA FitFacts ==
  ASSUME NEW q \in Seq(Items)
  PROVE  /\ Fit(q) \in Seq(Items) /\ Tasks(Fit(q)) \subseteq Tasks(q)
         /\ Wakes(Fit(q)) => Wakes(q)
<1>1. Fit(q) \in Seq(Items) /\ \A i \in DOMAIN Fit(q) : \E j \in DOMAIN q : Fit(q)[i] = q[j]
  <2>1. CASE Len(q) <= Capacity
    BY <2>1, DelegationAssumption DEF Fit
  <2>2. CASE Len(q) > Capacity
    <3>1. Capacity \in Nat \ {0} /\ Len(q) \in Nat
      BY DelegationAssumption
    <3>2. Fit(q) = SubSeq(q, Len(q) - Capacity + 1, Len(q))
      BY <2>2 DEF Fit
    <3>3. \A i \in Len(q) - Capacity + 1 .. Len(q) : i \in DOMAIN q /\ q[i] \in Items
      BY <3>1, <2>2
    <3>4. /\ Fit(q) \in Seq(Items) /\ DOMAIN Fit(q) = 1 .. Capacity
          /\ \A i \in 1 .. Capacity : Fit(q)[i] = q[Len(q) - Capacity + i]
      BY <3>1, <3>2, <3>3, <2>2
    <3>5. \A i \in 1 .. Capacity : Len(q) - Capacity + i \in DOMAIN q
      BY <3>1, <2>2
    <3> QED BY <3>4, <3>5
  <2> QED BY <2>1, <2>2, DelegationAssumption
<1> QED BY <1>1, TasksWithin

LEMMA AppendFacts ==
  ASSUME NEW q \in Seq(Items), NEW item \in Items
  PROVE  /\ Append(q, item) \in Seq(Items)
         /\ \A d \in Delegations : d \in Tasks(Append(q, item)) <=> d \in Tasks(q) \/ item = Task(d)
         /\ item.kind = "quiet" => (Wakes(Append(q, item)) => Wakes(q))
<1>1. Append(q, item) \in Seq(Items) /\ DOMAIN Append(q, item) = DOMAIN q \cup {Len(q) + 1}
  OBVIOUS
<1>2. /\ \A i \in DOMAIN q : Append(q, item)[i] = q[i]
      /\ Append(q, item)[Len(q) + 1] = item
  OBVIOUS
<1> DEFINE longer == Append(q, item)
<1> HIDE DEF longer
<1>3. ASSUME NEW d \in Delegations
      PROVE  d \in Tasks(longer) <=> d \in Tasks(q) \/ item = Task(d)
  <2>1. d \in Tasks(longer) <=> \E i \in DOMAIN longer : longer[i] = Task(d)
    BY <1>1, TasksAre DEF longer
  <2>2. d \in Tasks(q) <=> \E i \in DOMAIN q : q[i] = Task(d)
    BY TasksAre
  <2> QED BY <1>1, <1>2, <2>1, <2>2 DEF longer
<1>4. item.kind = "quiet" => (Wakes(longer) => Wakes(q))
  BY <1>1, <1>2 DEF Wakes, longer
<1> QED BY <1>1, <1>3, <1>4 DEF longer

LEMMA ConcatFacts ==
  ASSUME NEW q \in Seq(Items), NEW p \in Seq(Items), Tasks(p) = {}
  PROVE  /\ q \o p \in Seq(Items) /\ Tasks(q \o p) = Tasks(q)
         /\ Wakes(q \o p) => Wakes(q) \/ Wakes(p)
<1> DEFINE both == q \o p
<1>1. both \in Seq(Items)
  OBVIOUS
<1>2. /\ \A i \in DOMAIN q : i \in DOMAIN both /\ both[i] = q[i]
      /\ \A i \in DOMAIN both : i \in DOMAIN q \/ \E j \in DOMAIN p : both[i] = p[j]
  <2>1. Len(both) = Len(q) + Len(p) /\ Len(q) \in Nat /\ Len(p) \in Nat
    OBVIOUS
  <2>2. \A i \in 1 .. Len(q) : both[i] = q[i]
    OBVIOUS
  <2>3. \A i \in Len(q) + 1 .. Len(both) : i - Len(q) \in DOMAIN p /\ both[i] = p[i - Len(q)]
    BY <2>1
  <2> QED BY <2>1, <2>2, <2>3
<1>3. \A i \in DOMAIN both : i \in DOMAIN q => both[i] = q[i]
  BY <1>2
<1> HIDE DEF both
<1>4. ASSUME NEW d \in Delegations
      PROVE  d \in Tasks(both) <=> d \in Tasks(q)
  <2>1. d \in Tasks(both) <=> \E i \in DOMAIN both : both[i] = Task(d)
    BY <1>1, TasksAre
  <2>2. d \in Tasks(q) <=> \E i \in DOMAIN q : q[i] = Task(d)
    BY TasksAre
  <2>3. \A i \in DOMAIN p : p[i] # Task(d)
    BY TasksAre
  <2> QED BY <1>2, <1>3, <2>1, <2>2, <2>3
<1>6. Tasks(both) = Tasks(q)
  BY <1>1, <1>4, TasksAre
<1>5. Wakes(both) => Wakes(q) \/ Wakes(p)
  BY <1>2, <1>3 DEF Wakes
<1> QED BY <1>1, <1>5, <1>6 DEF both

\* A set of naturals has a least element.
LEMMA LeastNat ==
  ASSUME NEW S \in SUBSET Nat, S # {}
  PROVE  \E n \in S : \A m \in S : n <= m
<1>1. PICK n \in S : \A m \in S : <<m, n>> \notin OpToRel(<, Nat)
  BY NatLessThanWellFounded, WFMin, Zenon
<1>2. \A m \in S : ~ (m < n)
  BY <1>1, Zenon DEF OpToRel
<1> QED BY <1>2

\* Every rank among the members of S is somebody's.
LEMMA Ranks ==
  ASSUME NEW N \in Nat, NEW S, S \subseteq 1 .. N, NEW n \in 1 .. Cardinality(S)
  PROVE  \E i \in S : Rank(i, S) = n
<1> DEFINE Upto(i) == {k \in S : k <= i}
           reaches == {i \in Nat : Cardinality(Upto(i)) >= n}
<1>1. \A k \in S : k \in Nat /\ 1 <= k /\ k <= N
  OBVIOUS
<1>2. IsFiniteSet(S)
  <2>1. IsFiniteSet(1 .. N)
    BY FS_Interval
  <2> QED BY <2>1, FS_Subset
<1>3. ASSUME NEW i
      PROVE  IsFiniteSet(Upto(i)) /\ Cardinality(Upto(i)) \in Nat
  <2>1. Upto(i) \subseteq S
    OBVIOUS
  <2>2. IsFiniteSet(Upto(i))
    BY <1>2, <2>1, FS_Subset
  <2> QED BY <2>2, FS_CardinalityType
<1>4. Cardinality(S) \in Nat /\ n \in Nat /\ 1 <= n /\ n <= Cardinality(S)
  BY <1>2, FS_CardinalityType
<1>5. N \in reaches
  <2>1. Upto(N) = S
    BY <1>1
  <2> QED BY <2>1, <1>4
<1>6. PICK i \in reaches : \A m \in reaches : i <= m
  <2> HIDE DEF reaches
  <2>1. reaches \subseteq Nat
    BY DEF reaches
  <2> QED BY <1>5, <2>1, LeastNat
<1>7. i \in Nat /\ Cardinality(Upto(i)) >= n
  BY <1>6
<1>8. i # 0
  <2>0. \A k \in S : ~ (k <= 0)
    BY <1>1
  <2>1. Upto(0) = {}
    BY <2>0
  <2>2. Cardinality(Upto(0)) = 0
    BY <2>1, FS_EmptySet
  <2> QED BY <2>2, <1>4, <1>7
<1>9. i - 1 \in Nat /\ Cardinality(Upto(i - 1)) < n
  <2>1. i - 1 \in Nat /\ ~ (i <= i - 1)
    BY <1>7, <1>8
  <2>2. i - 1 \notin reaches
    BY <2>1, <1>6
  <2>3. Cardinality(Upto(i - 1)) \in Nat
    BY <1>3
  <2> QED BY <2>1, <2>2, <2>3, <1>4
<1>10. \A k \in S : k <= i <=> k <= i - 1 \/ k = i
  BY <1>1, <1>7
<1>11. i \in S
  <2>1. SUFFICES ASSUME i \notin S PROVE FALSE
    OBVIOUS
  <2>2. Upto(i) = Upto(i - 1)
    BY <2>1, <1>10
  <2> QED BY <2>2, <1>3, <1>4, <1>7, <1>9
<1>12. Cardinality(Upto(i)) = Cardinality(Upto(i - 1)) + 1
  <2>1. Upto(i) = Upto(i - 1) \cup {i}
    BY <1>10, <1>11
  <2>2. i \notin Upto(i - 1)
    BY <1>7
  <2>3. IsFiniteSet(Upto(i - 1))
    BY <1>3
  <2> HIDE DEF Upto
  <2> QED BY <2>1, <2>2, <2>3, FS_AddElement
<1>13. Cardinality(Upto(i - 1)) \in Nat
  BY <1>3
<1> HIDE DEF Upto
<1>14. Cardinality(Upto(i)) = n
  BY <1>4, <1>7, <1>9, <1>12, <1>13
<1> QED BY <1>11, <1>14 DEF Upto, Rank

LEMMA CalmedFacts ==
  ASSUME NEW q \in Seq(Items)
  PROVE  /\ Calmed(q) \in Seq(Items) /\ Tasks(Calmed(q)) = {}
         /\ Wakes(Calmed(q)) => Wakes(q) /\ Other("user") \in ToSet(q)
<1> DEFINE kept == {i \in DOMAIN q : q[i].kind # "task"}
           Nth(n) == CHOOSE i \in kept : Rank(i, kept) = n
           calm == [n \in 1 .. Cardinality(kept) |->
                      IF q[Nth(n)].kind = "note" THEN Other("quiet") ELSE q[Nth(n)]]
<1>1. kept \subseteq 1 .. Len(q) /\ Len(q) \in Nat /\ Cardinality(kept) \in Nat
  <2>1. kept \subseteq 1 .. Len(q) /\ Len(q) \in Nat
    OBVIOUS
  <2>2. IsFiniteSet(1 .. Len(q))
    BY <2>1, FS_Interval
  <2>3. IsFiniteSet(kept)
    BY <2>1, <2>2, FS_Subset
  <2> QED BY <2>1, <2>3, FS_CardinalityType
<1>2. ASSUME NEW n \in 1 .. Cardinality(kept) PROVE Nth(n) \in kept
  <2>1. \E i \in kept : Rank(i, kept) = n
    <3> HIDE DEF kept
    <3> QED BY <1>1, Ranks
  <2> HIDE DEF kept
  <2> QED BY <2>1
<1>3. Calmed(q) = calm
  BY DEF Calmed
<1> HIDE DEF Nth
<1>4. \A n \in 1 .. Cardinality(kept) :
        calm[n] \in Items /\ (calm[n] = Other("quiet") \/ (calm[n].kind \notin {"task", "note"}
                             /\ \E i \in DOMAIN q : calm[n] = q[i]))
  BY <1>2, ItemFacts
<1>5. calm \in Seq(Items) /\ DOMAIN calm = 1 .. Cardinality(kept)
  BY <1>1, <1>4
<1> HIDE DEF calm, kept
<1>6. Tasks(calm) = {}
  <2>1. \A n \in DOMAIN calm : calm[n].kind # "task"
    BY <1>4, <1>5, ItemFacts
  <2> QED BY <2>1 DEF Tasks, ToSet
<1>7. ASSUME Wakes(calm) PROVE Wakes(q) /\ Other("user") \in ToSet(q)
  <2>1. PICK n \in DOMAIN calm : calm[n].kind # "quiet"
    BY <1>7 DEF Wakes
  <2>2. PICK i \in DOMAIN q : calm[n] = q[i] /\ q[i].kind \notin {"task", "note", "quiet"}
    BY <2>1, <1>4, <1>5, ItemFacts
  <2>3. q[i] = Other("user")
    BY <2>2 DEF Items, Task, Other
  <2> QED BY <2>2, <2>3, <2>1 DEF Wakes, ToSet
<1> QED BY <1>3, <1>5, <1>6, <1>7

-----------------------------------------------------------------------------
(* Callbacks                                                               *)

LEMMA PostedFacts ==
  ASSUME NEW xs \in SUBSET Delegations, NEW a, NEW k \in {"note", "quiet"}
  PROVE  /\ Posted(a, k, xs) \in Seq(Items) /\ Tasks(Posted(a, k, xs)) = {}
         /\ Wakes(Posted(a, k, xs)) => k = "note" /\ xs # {} /\ Takes(a)
<1> DEFINE whose == {d \in xs : from[d] = a /\ Takes(a)}
           p == [i \in 1 .. Cardinality(whose) |-> Other(k)]
<1>1. IsFiniteSet(whose)
  <2>1. whose \subseteq Delegations /\ IsFiniteSet(Delegations)
    BY DelegationAssumption
  <2> QED BY <2>1, FS_Subset
<1>2. Cardinality(whose) \in Nat /\ (Cardinality(whose) # 0 => whose # {})
  BY <1>1, FS_CardinalityType, FS_EmptySet
<1>3. whose # {} => xs # {} /\ Takes(a)
  OBVIOUS
<1> HIDE DEF whose
<1>4. /\ p \in Seq(Items) /\ DOMAIN p = 1 .. Cardinality(whose)
      /\ \A i \in DOMAIN p : p[i] = Other(k)
  BY <1>2, ItemFacts
<1> HIDE DEF p
<1>5. Tasks(p) = {}
  <2>1. \A i \in DOMAIN p : p[i].kind # "task"
    BY <1>4, ItemFacts
  <2> QED BY <2>1 DEF Tasks, ToSet
<1>6. ASSUME Wakes(p) PROVE k = "note" /\ xs # {} /\ Takes(a)
  <2>1. PICK i \in DOMAIN p : p[i].kind # "quiet"
    BY <1>6 DEF Wakes
  <2>2. k = "note" /\ Cardinality(whose) # 0
    BY <2>1, <1>2, <1>4, ItemFacts
  <2> QED BY <2>2, <1>2, <1>3
<1> QED BY <1>4, <1>5, <1>6 DEF p, whose, Posted

LEMMA TakesAgents == \A a : Takes(a) => a \in live \ (closing \cup disposed) /\ gate = "open"
BY DEF Takes

LEMMA MarkIs ==
  ASSUME NEW f \in [Delegations -> Fates], NEW ds, NEW value \in Fates
  PROVE  /\ Mark(f, ds, value) \in [Delegations -> Fates]
         /\ \A d \in Delegations : Mark(f, ds, value)[d] = IF d \in ds THEN value ELSE f[d]
BY DEF Mark

\* What a callback does: the records of ds go, queues lose tasks at most, and
\* what is lost is marked so.
Effects(ds, verdict, q, f, quiet) ==
  /\ entry' \in [Agents -> Delegations \cup {None}]
  /\ \A a \in Agents : entry'[a] = IF entry[a] \in ds THEN None ELSE entry[a]
  /\ silent' = quiet \ ds
  /\ told' \in [Delegations -> Seq(Verdicts \X {"turn", "silent"})]
  /\ \A d \in Delegations :
       told'[d] = IF d \in ds THEN Append(told[d], <<verdict, Handoff(d, quiet)>>)
                  ELSE told[d]
  /\ queue' \in [Agents -> Seq(Items)]
  /\ \A a \in Agents : /\ Tasks(queue'[a]) \subseteq Tasks(q[a])
                       /\ Wakes(queue'[a]) => Wakes(q[a]) \/ (Takes(a) /\ ~ (ds \subseteq quiet))
  /\ fate' \in [Delegations -> Fates]
  /\ \A d \in Delegations :
       fate'[d] = IF \E a \in Agents : d \in Tasks(q[a]) /\ d \notin Tasks(queue'[a])
                  THEN "dropped" ELSE f[d]

LEMMA CallbackFacts ==
  ASSUME TypeOK, NEW ds \in SUBSET Delegations, NEW verdict \in Verdicts,
         NEW q \in [Agents -> Seq(Items)], NEW f \in [Delegations -> Fates],
         NEW quiet \in SUBSET Delegations, Callback(ds, verdict, q, f, quiet)
  PROVE  Effects(ds, verdict, q, f, quiet)
<1> DEFINE full(a) == q[a] \o Posted(a, "note", ds \ quiet) \o Posted(a, "quiet", ds \cap quiet)
<1>1. ASSUME NEW a \in Agents
      PROVE  /\ full(a) \in Seq(Items) /\ Tasks(full(a)) = Tasks(q[a])
             /\ Wakes(full(a)) => Wakes(q[a]) \/ (Takes(a) /\ ~ (ds \subseteq quiet))
  <2> DEFINE loud == Posted(a, "note", ds \ quiet)
             low == Posted(a, "quiet", ds \cap quiet)
  <2>1. /\ loud \in Seq(Items) /\ Tasks(loud) = {}
        /\ Wakes(loud) => Takes(a) /\ ds \ quiet # {}
    <3>1. ds \ quiet \in SUBSET Delegations
      OBVIOUS
    <3> QED BY <3>1, PostedFacts
  <2>2. low \in Seq(Items) /\ Tasks(low) = {} /\ ~ Wakes(low)
    <3>1. ds \cap quiet \in SUBSET Delegations
      OBVIOUS
    <3> QED BY <3>1, PostedFacts
  <2>3. q[a] \in Seq(Items)
    OBVIOUS
  <2>4. full(a) = (q[a] \o loud) \o low
    OBVIOUS
  <2> HIDE DEF loud, low, full
  <2> DEFINE some == q[a] \o loud
  <2>5. /\ some \in Seq(Items) /\ Tasks(some) = Tasks(q[a])
        /\ Wakes(some) => Wakes(q[a]) \/ Wakes(loud)
    BY <2>1, <2>3, ConcatFacts
  <2>6. full(a) = some \o low
    BY <2>4
  <2> HIDE DEF some
  <2>7. /\ full(a) \in Seq(Items) /\ Tasks(full(a)) = Tasks(some)
        /\ Wakes(full(a)) => Wakes(some) \/ Wakes(low)
    BY <2>2, <2>5, <2>6, ConcatFacts
  <2> QED BY <2>1, <2>2, <2>5, <2>7
<1>2. /\ entry' = [a \in Agents |-> IF entry[a] \in ds THEN None ELSE entry[a]]
      /\ silent' = quiet \ ds
      /\ told' = [d \in Delegations |->
                   IF d \in ds THEN Append(told[d], <<verdict, Handoff(d, quiet)>>)
                   ELSE told[d]]
      /\ queue' = [a \in Agents |-> Fit([b \in Agents |-> full(b)][a])]
      /\ fate' = Mark(f, UNION {Tasks([b \in Agents |-> full(b)][a]) \ Tasks(Fit([b \in Agents |-> full(b)][a])) : a \in Agents}, "dropped")
  BY DEF Callback
<1> HIDE DEF full
<1>3. \A a \in Agents : queue'[a] = Fit(full(a))
  BY <1>2
<1>4. \A a \in Agents : /\ queue'[a] \in Seq(Items) /\ Tasks(queue'[a]) \subseteq Tasks(q[a])
                        /\ Wakes(queue'[a]) => Wakes(full(a))
  BY <1>1, <1>3, FitFacts
<1>5. queue' \in [Agents -> Seq(Items)]
  BY <1>2, <1>3, <1>4
<1>6. fate' = Mark(f, UNION {Tasks(q[a]) \ Tasks(queue'[a]) : a \in Agents}, "dropped")
  <2>1. {Tasks([b \in Agents |-> full(b)][a]) \ Tasks(Fit([b \in Agents |-> full(b)][a])) : a \in Agents}
          = {Tasks(q[a]) \ Tasks(queue'[a]) : a \in Agents}
    BY <1>1, <1>3
  <2> QED BY <1>2, <2>1
<1>7. /\ fate' \in [Delegations -> Fates]
      /\ \A d \in Delegations :
           fate'[d] = IF d \in UNION {Tasks(q[a]) \ Tasks(queue'[a]) : a \in Agents}
                      THEN "dropped" ELSE f[d]
  BY <1>6, MarkIs DEF Fates
<1>10. \A d \in Delegations :
         d \in UNION {Tasks(q[a]) \ Tasks(queue'[a]) : a \in Agents}
           <=> \E a \in Agents : d \in Tasks(q[a]) /\ d \notin Tasks(queue'[a])
  OBVIOUS
<1>11. \A a \in Agents : /\ Tasks(queue'[a]) \subseteq Tasks(q[a])
                         /\ Wakes(queue'[a]) => Wakes(q[a]) \/ (Takes(a) /\ ~ (ds \subseteq quiet))
  BY <1>1, <1>4
<1>8. told' \in [Delegations -> Seq(Verdicts \X {"turn", "silent"})]
  <2>1. \A d \in Delegations : told[d] \in Seq(Verdicts \X {"turn", "silent"})
    BY DEF TypeOK
  <2>2. \A d : <<verdict, Handoff(d, quiet)>> \in Verdicts \X {"turn", "silent"}
    BY DEF Handoff
  <2> QED BY <1>2, <2>1, <2>2
<1>9. entry' \in [Agents -> Delegations \cup {None}]
  BY <1>2 DEF TypeOK
<1>12. \A d \in Delegations :
         fate'[d] = IF \E a \in Agents : d \in Tasks(q[a]) /\ d \notin Tasks(queue'[a])
                    THEN "dropped" ELSE f[d]
  BY <1>7, <1>10
<1> QED BY <1>2, <1>5, <1>7, <1>8, <1>9, <1>11, <1>12 DEF Effects

-----------------------------------------------------------------------------
(* What a step with callbacks keeps                                        *)

\* Everything the invariant says about one delegation.
Sound(d) ==
  /\ \A a, b \in Agents :
       /\ At(d, a) /\ (At(d, b) \/ entry[b] = d) => a = b
       /\ ~ (d \in Tasks(queue[a]) /\ d \in Tasks(batch[a]))
  /\ fate[d] = "sent" <=> \E a \in Agents : Held(d, a)
  /\ fate[d] \in Early \cup Verdicts => \A a \in Agents : entry[a] # d
  /\ fate[d] \in Early => \A a \in Agents : ~ At(d, a)
  /\ fate[d] \in Early \cup {"sent"} \/ (\E a \in Agents : entry[a] = d) => told[d] = <<>>
  /\ Len(told[d]) <= 1
  /\ \A i \in DOMAIN told[d] :
       IF told[d][i][1] = "cancelled" THEN fate[d] \in {"cancelled", "merged", "unrun", "dropped", "cut"}
       ELSE fate[d] = told[d][i][1]

LEMMA SoundIs ==
  /\ IInv <=> TypeOK /\ AtRest /\ \A d \in Delegations : Sound(d)
  /\ IInv' <=> TypeOK' /\ AtRest' /\ \A d \in Delegations : Sound(d)'
BY DEF IInv, Sound, OnePlace, FateShows, ToldOnce, CallbackIsTrue

\* The truth a callback may tell of a task with this fate.
Truth(verdict) ==
  IF verdict = "cancelled" THEN {"cancelled", "merged", "unrun", "dropped", "cut"} ELSE {verdict}

\* A callback to ds and the fates f account for what the step does to d, whose
\* queues are q.
Accounts(ds, verdict, q, f, d) ==
  /\ fate[d] # "sent" =>
       f[d] = fate[d] /\ \A a \in Agents : ~ (d \in Tasks(batch'[a]) /\ phase'[a] \in Active)
  /\ fate[d] = "sent" =>
       /\ f[d] \notin Early
       /\ f[d] = "sent" <=>
            \E a \in Agents :
              d \in Tasks(q[a]) \/ (d \in Tasks(batch'[a]) /\ phase'[a] \in Active)
  /\ f[d] \in Verdicts => d \in ds \/ \A a \in Agents : entry[a] # d
  /\ d \in ds => (\E a \in Agents : entry[a] = d) /\ f[d] \in Truth(verdict)

LEMMA CallbackKeeps ==
  ASSUME IInv, NEW ds \in SUBSET Delegations, NEW verdict \in Verdicts,
         NEW q \in [Agents -> Seq(Items)], NEW f \in [Delegations -> Fates],
         NEW quiet \in SUBSET Delegations, Callback(ds, verdict, q, f, quiet),
         \A a \in Agents : /\ Tasks(q[a]) \subseteq Tasks(queue[a])
                           /\ Tasks(batch'[a]) \subseteq Tasks(batch[a]),
         NEW d \in Delegations, Accounts(ds, verdict, q, f, d)
  PROVE  Sound(d)'
<1> USE DEF Accounts
<1>1. TypeOK /\ Sound(d)
  BY SoundIs
<1>2. /\ \A a \in Agents : entry'[a] = IF entry[a] \in ds THEN None ELSE entry[a]
      /\ \A e \in Delegations :
           told'[e] = IF e \in ds THEN Append(told[e], <<verdict, Handoff(e, quiet)>>)
                      ELSE told[e]
      /\ \A a \in Agents : Tasks(queue'[a]) \subseteq Tasks(q[a])
      /\ \A e \in Delegations :
           fate'[e] = IF \E a \in Agents : e \in Tasks(q[a]) /\ e \notin Tasks(queue'[a])
                      THEN "dropped" ELSE f[e]
  <2>1. Effects(ds, verdict, q, f, quiet)
    BY <1>1, CallbackFacts
  <2> QED BY <2>1 DEF Effects
<1>3. \A a \in Agents : /\ d \in Tasks(queue'[a]) => d \in Tasks(q[a])
                        /\ d \in Tasks(q[a]) => d \in Tasks(queue[a])
                        /\ d \in Tasks(batch'[a]) => d \in Tasks(batch[a])
                        /\ entry'[a] = d <=> entry[a] = d /\ d \notin ds
  <2>1. None # d
    BY DelegationAssumption
  <2>2. \A a \in Agents : entry'[a] = d <=> entry[a] = d /\ d \notin ds
    BY <1>2, <2>1
  <2>3. \A a \in Agents : d \in Tasks(queue'[a]) => d \in Tasks(q[a])
    BY <1>2
  <2>4. \A a \in Agents : d \in Tasks(q[a]) => d \in Tasks(queue[a])
    OBVIOUS
  <2>5. \A a \in Agents : d \in Tasks(batch'[a]) => d \in Tasks(batch[a])
    OBVIOUS
  <2> QED BY <2>2, <2>3, <2>4, <2>5
<1>4. \A a, b \in Agents :
        /\ At(d, a)' /\ (At(d, b)' \/ entry'[b] = d) => a = b
        /\ ~ (d \in Tasks(queue'[a]) /\ d \in Tasks(batch'[a]))
        /\ At(d, a)' => At(d, a)
  BY <1>1, <1>3 DEF Sound, At
<1>5. told[d] \in Seq(Verdicts \X {"turn", "silent"})
  BY <1>1 DEF TypeOK
<1>6. CASE \E a \in Agents : d \in Tasks(q[a]) /\ d \notin Tasks(queue'[a])
  <2>1. PICK a \in Agents : d \in Tasks(q[a]) /\ d \notin Tasks(queue'[a])
    BY <1>6
  <2>2. Held(d, a) /\ At(d, a) /\ fate'[d] = "dropped"
    BY <1>2, <1>3, <2>1 DEF Held, At
  <2>3. fate[d] = "sent" /\ told[d] = <<>>
    BY <1>1, <2>2 DEF Sound
  <2>4. f[d] = "sent"
    BY <2>1, <2>3
  <2>5. d \notin ds
    BY <2>4 DEF Truth, Verdicts
  <2>6. \A b \in Agents : ~ Held(d, b)'
    BY <1>1, <1>3, <2>1, <2>2 DEF Sound, Held, At
  <2>7. told'[d] = <<>>
    BY <1>2, <2>3, <2>5
  <2>8. "dropped" \notin Early \cup Verdicts \cup {"sent"}
    BY DEF Early, Verdicts
  <2>9. Len(told'[d]) <= 1 /\ \A i \in DOMAIN told'[d] : FALSE
    BY <2>7
  <2>10. fate'[d] \notin Early \cup Verdicts \cup {"sent"}
    BY <2>2, <2>8
  <2> QED BY <1>4, <2>6, <2>7, <2>9, <2>10 DEF Sound
<1>7. CASE ~ \E a \in Agents : d \in Tasks(q[a]) /\ d \notin Tasks(queue'[a])
  <2>1. fate'[d] = f[d] /\ \A a \in Agents : d \in Tasks(queue'[a]) <=> d \in Tasks(q[a])
    BY <1>2, <1>3, <1>7
  <2>2. fate'[d] = "sent" <=> \E a \in Agents : Held(d, a)'
    <3>1. CASE fate[d] = "sent"
      BY <2>1, <3>1 DEF Held
    <3>2. CASE fate[d] # "sent"
      <4>1. \A a \in Agents : d \notin Tasks(queue[a])
        BY <1>1, <3>2 DEF Sound, Held
      <4> QED BY <1>3, <2>1, <3>2, <4>1 DEF Held
    <3> QED BY <3>1, <3>2
  <2>3. fate'[d] \in Early => fate[d] \in Early
    BY <2>1
  <2>4. fate'[d] \in Early \cup Verdicts => \A a \in Agents : entry'[a] # d
    BY <1>1, <1>3, <2>1, <2>3 DEF Sound
  <2>5. fate'[d] \in Early => \A a \in Agents : ~ At(d, a)'
    BY <1>1, <1>4, <2>3 DEF Sound
  <2>6. CASE d \in ds
    <3>1. told[d] = <<>>
      BY <1>1, <2>6 DEF Sound
    <3>2. \A a \in Agents : entry'[a] # d
      BY <1>3, <2>6
    <3>3. fate'[d] \notin Early \cup {"sent"}
      BY <2>1, <2>6 DEF Truth, Early, Verdicts
    <3>4. told'[d] = Append(<<>>, <<verdict, Handoff(d, quiet)>>)
      BY <1>2, <2>6, <3>1
    <3>5. Len(told'[d]) = 1 /\ \A i \in DOMAIN told'[d] : told'[d][i][1] = verdict
      BY <3>4
    <3> QED BY <1>4, <2>1, <2>2, <2>4, <2>5, <2>6, <3>2, <3>3, <3>5 DEF Sound, Truth
  <2>7. CASE d \notin ds
    <3>1. told'[d] = told[d]
      BY <1>2, <2>7
    <3>2. fate'[d] \in Early \cup {"sent"} \/ (\E a \in Agents : entry'[a] = d) => told[d] = <<>>
      <4>1. fate'[d] = "sent" => fate[d] = "sent"
        BY <2>1
      <4> QED BY <1>1, <1>3, <2>3, <4>1 DEF Sound
    <3>3. \A i \in DOMAIN told[d] : fate'[d] = fate[d]
      <4>1. SUFFICES ASSUME NEW i \in DOMAIN told[d] PROVE fate'[d] = fate[d]
        OBVIOUS
      <4>2. told[d] # <<>>
        OBVIOUS
      <4> QED BY <1>1, <2>1, <4>2 DEF Sound
    <3> QED BY <1>1, <1>4, <2>2, <2>4, <2>5, <3>1, <3>2, <3>3 DEF Sound
  <2> QED BY <2>6, <2>7
<1> QED BY <1>6, <1>7

\* A step that moves no task and takes no record away from its target.
LEMMA StillSound ==
  ASSUME NEW d \in Delegations, Sound(d), UNCHANGED <<queue, batch, entry>>,
         told'[d] = told[d],
         fate'[d] = fate[d] \/ {fate[d], fate'[d]} \subseteq Early,
         \A a \in Agents : phase'[a] \in Active <=> phase[a] \in Active
  PROVE  Sound(d)'
<1>1. \A a \in Agents : (At(d, a)' <=> At(d, a)) /\ (Held(d, a)' <=> Held(d, a))
  BY DEF At, Held
<1>2. CASE fate'[d] = fate[d]
  BY <1>1, <1>2 DEF Sound
<1>3. CASE {fate[d], fate'[d]} \subseteq Early
  <2>1. told[d] = <<>> /\ fate'[d] \in Early /\ fate[d] # "sent" /\ fate'[d] # "sent"
    BY <1>3 DEF Sound, Early
  <2>2. Len(told'[d]) = 0 /\ \A i \in DOMAIN told'[d] : FALSE
    BY <2>1
  <2> QED BY <1>1, <1>3, <2>1, <2>2 DEF Sound
<1> QED BY <1>2, <1>3

LEMMA PutFacts ==
  ASSUME TypeOK, NEW a \in Agents, NEW item \in Items, NEW f \in [Delegations -> Fates],
         Put(a, item, f)
  PROVE  /\ queue' \in [Agents -> Seq(Items)] /\ fate' \in [Delegations -> Fates]
         /\ \A b \in Agents : b # a => queue'[b] = queue[b]
         /\ \A d \in Delegations :
              /\ d \in Tasks(queue'[a]) => d \in Tasks(queue[a]) \/ item = Task(d)
              /\ fate'[d] = IF (d \in Tasks(queue[a]) \/ item = Task(d)) /\ d \notin Tasks(queue'[a])
                            THEN "dropped" ELSE f[d]
<1> DEFINE full == Append(queue[a], item)
<1>1. queue[a] \in Seq(Items)
  BY DEF TypeOK
<1>2. /\ full \in Seq(Items)
      /\ \A d \in Delegations : d \in Tasks(full) <=> d \in Tasks(queue[a]) \/ item = Task(d)
  BY <1>1, AppendFacts
<1>3. queue' = [queue EXCEPT ![a] = Fit(full)] /\ fate' = Mark(f, Tasks(full) \ Tasks(Fit(full)), "dropped")
  BY DEF Put
<1> HIDE DEF full
<1>4. Fit(full) \in Seq(Items) /\ Tasks(Fit(full)) \subseteq Tasks(full)
  BY <1>2, FitFacts
<1>5. /\ queue' \in [Agents -> Seq(Items)] /\ queue'[a] = Fit(full)
      /\ \A b \in Agents : b # a => queue'[b] = queue[b]
  BY <1>3, <1>4 DEF TypeOK
<1>6. /\ fate' \in [Delegations -> Fates]
      /\ \A d \in Delegations :
           fate'[d] = IF d \in Tasks(full) \ Tasks(Fit(full)) THEN "dropped" ELSE f[d]
  BY <1>3, MarkIs DEF Fates
<1>7. ASSUME NEW d \in Delegations
      PROVE  /\ d \in Tasks(queue'[a]) => d \in Tasks(queue[a]) \/ item = Task(d)
             /\ fate'[d] = IF (d \in Tasks(queue[a]) \/ item = Task(d)) /\ d \notin Tasks(queue'[a])
                           THEN "dropped" ELSE f[d]
  BY <1>2, <1>4, <1>5, <1>6
<1> QED BY <1>5, <1>6, <1>7

\* An input is queued; a new task comes with its record, another record may go.
LEMMA PutKeeps ==
  ASSUME IInv, NEW a \in Agents, NEW item \in Items, NEW f \in [Delegations -> Fates],
         Put(a, item, f), UNCHANGED <<batch, phase, told>>, NEW d \in Delegations,
         IF item = Task(d)
         THEN /\ fate[d] \in Early /\ f[d] = "sent"
              /\ \A b \in Agents : entry'[b] = d => b = a
         ELSE f[d] = fate[d] /\ \A b \in Agents : entry'[b] = d => entry[b] = d
  PROVE  Sound(d)'
<1>1. TypeOK /\ Sound(d)
  BY SoundIs
<1>2. /\ \A b \in Agents : b # a => queue'[b] = queue[b]
      /\ d \in Tasks(queue'[a]) => d \in Tasks(queue[a]) \/ item = Task(d)
      /\ fate'[d] = IF (d \in Tasks(queue[a]) \/ item = Task(d)) /\ d \notin Tasks(queue'[a])
                    THEN "dropped" ELSE f[d]
  BY <1>1, PutFacts
<1>3. "dropped" \notin Early \cup Verdicts \cup {"sent"} /\ "sent" \notin Early \cup Verdicts
  BY DEF Early, Verdicts
<1>4. CASE item = Task(d)
  <2>1. told'[d] = <<>> /\ \A b \in Agents : ~ At(d, b)
    BY <1>1, <1>4 DEF Sound
  <2>2. Len(told'[d]) = 0 /\ \A i \in DOMAIN told'[d] : FALSE
    BY <2>1
  <2>3. \A b \in Agents : /\ At(d, b)' => b = a /\ d \in Tasks(queue'[a])
                          /\ Held(d, b)' <=> b = a /\ d \in Tasks(queue'[a])
                          /\ d \notin Tasks(batch'[b])
    BY <1>2, <2>1 DEF At, Held
  <2>4. fate'[d] = IF d \in Tasks(queue'[a]) THEN "sent" ELSE "dropped"
    BY <1>2, <1>4
  <2> QED BY <1>3, <1>4, <2>1, <2>2, <2>3, <2>4 DEF Sound
<1>5. CASE item # Task(d)
  <2>1. \A b \in Agents : /\ At(d, b)' => At(d, b)
                          /\ d \in Tasks(queue'[b]) => d \in Tasks(queue[b])
                          /\ d \in Tasks(batch'[b]) <=> d \in Tasks(batch[b])
                          /\ phase'[b] = phase[b]
                          /\ entry'[b] = d => entry[b] = d
    BY <1>2, <1>5 DEF At
  <2>2. CASE d \in Tasks(queue[a]) /\ d \notin Tasks(queue'[a])
    <3>1. fate[d] = "sent" /\ told'[d] = <<>> /\ fate'[d] = "dropped"
      BY <1>1, <1>2, <2>2 DEF Sound, Held
    <3>2. Len(told'[d]) = 0 /\ \A i \in DOMAIN told'[d] : FALSE
      BY <3>1
    <3>3. \A b \in Agents : ~ Held(d, b)'
      BY <1>1, <2>1, <2>2 DEF Sound, Held, At
    <3> QED BY <1>1, <1>3, <2>1, <3>1, <3>2, <3>3 DEF Sound
  <2>3. CASE ~ (d \in Tasks(queue[a]) /\ d \notin Tasks(queue'[a]))
    <3>1. fate'[d] = fate[d]
      BY <1>2, <1>5, <2>3
    <3>2. \A b \in Agents : Held(d, b)' <=> Held(d, b)
      BY <1>2, <2>1, <2>3, <1>5 DEF Held
    <3> QED BY <1>1, <2>1, <3>1, <3>2 DEF Sound
  <2> QED BY <2>2, <2>3
<1> QED BY <1>4, <1>5

-----------------------------------------------------------------------------
(* The steps without callbacks                                             *)

LEMMA AgentsAre == Delegations \subseteq Agents /\ Residents \subseteq Agents /\ None \notin Delegations
BY DelegationAssumption DEF Agents

LEMMA InitInv == Init => IInv
<1> SUFFICES ASSUME Init PROVE IInv
  OBVIOUS
<1>1. <<>> \in Seq(Items) /\ <<>> \in Seq(Verdicts \X {"turn", "silent"})
  OBVIOUS
<1>2. TypeOK
  BY <1>1, AgentsAre DEF Init, TypeOK, Fates, Agents
<1>3. Tasks(<<>>) = {} /\ ~ Wakes(<<>>)
  BY DEF Tasks, ToSet, Wakes
<1>4. AtRest
  BY <1>3 DEF Init, AtRest
<1>5. ASSUME NEW d \in Delegations PROVE Sound(d)
  <2>1. \A a \in Agents : ~ At(d, a) /\ ~ Held(d, a) /\ entry[a] # d /\ queue[a] = <<>> /\ batch[a] = <<>>
    BY <1>3, AgentsAre DEF Init, At, Held
  <2>2. told[d] = <<>> /\ fate[d] = "new"
    BY DEF Init
  <2>3. Len(told[d]) = 0 /\ \A i \in DOMAIN told[d] : FALSE
    BY <2>2
  <2> QED BY <1>3, <2>1, <2>2, <2>3 DEF Sound, Early
<1> QED BY <1>2, <1>4, <1>5, SoundIs

LEMMA UserSendInv == ASSUME IInv, NEW a \in Agents, UserSend(a) PROVE IInv'
<1> USE DEF agents, book, hold
<1>1. TypeOK /\ AtRest /\ Takes(a) /\ Put(a, Other("user"), fate)
  BY DEF IInv, UserSend
<1>2. Other("user") \in Items /\ \A d : Other("user") # Task(d)
  BY ItemFacts
<1>3. /\ queue' \in [Agents -> Seq(Items)] /\ fate' \in [Delegations -> Fates]
      /\ \A b \in Agents : b # a => queue'[b] = queue[b]
  BY <1>1, <1>2, PutFacts DEF TypeOK
<1>4. TypeOK'
  <2>1. users' \in Nat
    BY <1>1 DEF UserSend, TypeOK
  <2>3. stopped' \in BOOLEAN
    BY DEF UserSend
  <2>2. UNCHANGED <<live, closing, disposed, batch, phase, aborted, entry, from, silent, gate,
                    stage, told, halted, troubles>>
    BY DEF UserSend
  <2> QED BY <1>1, <1>3, <2>1, <2>2, <2>3 DEF TypeOK
<1>5. AtRest'
  BY <1>1, <1>3 DEF AtRest, UserSend, Takes
<1>6. ASSUME NEW d \in Delegations PROVE Sound(d)'
  <2>1. UNCHANGED <<batch, phase, told, entry>> /\ fate \in [Delegations -> Fates]
    BY <1>1 DEF UserSend, TypeOK
  <2> QED BY <1>1, <1>2, <2>1, PutKeeps
<1> QED BY <1>4, <1>5, <1>6, SoundIs

LEMMA BatchInv == ASSUME IInv, NEW a \in Agents, Batch(a) PROVE IInv'
<1> USE DEF agents, book, hold, seen, bounds
<1>1. TypeOK /\ AtRest /\ batch[a] = <<>>
  BY DEF IInv, AtRest, Batch
<1>2. /\ queue'[a] = <<>> /\ batch'[a] = queue[a] /\ phase'[a] = "starting"
      /\ \A b \in Agents : b # a => /\ queue'[b] = queue[b] /\ batch'[b] = batch[b]
                                    /\ phase'[b] = phase[b]
      /\ a \in live \ disposed /\ phase[a] = "idle"
  BY <1>1 DEF Batch, TypeOK
<1>3. TypeOK'
  <2>1. <<>> \in Seq(Items) /\ queue[a] \in Seq(Items)
    BY <1>1 DEF TypeOK
  <2> QED BY <1>1, <2>1 DEF TypeOK, Batch
<1>4. Tasks(<<>>) = {} /\ ~ Wakes(<<>>)
  BY DEF Tasks, ToSet, Wakes
<1>5. AtRest'
  BY <1>1, <1>2, <1>4 DEF AtRest, Batch
<1>6. ASSUME NEW d \in Delegations PROVE Sound(d)'
  <2>1. UNCHANGED <<entry, fate, told>>
    BY DEF Batch
  <2>2. \A b \in Agents : /\ At(d, b)' <=> At(d, b)
                          /\ Held(d, b)' <=> Held(d, b)
                          /\ ~ (d \in Tasks(queue'[b]) /\ d \in Tasks(batch'[b])) \/ b # a
    BY <1>1, <1>2, <1>4 DEF At, Held, Active
  <2>3. Sound(d)
    BY SoundIs
  <2> QED BY <1>2, <2>1, <2>2, <2>3 DEF Sound
<1> QED BY <1>3, <1>5, <1>6, SoundIs

LEMMA TurnBeginsInv == ASSUME IInv, NEW a \in Agents, TurnBegins(a) PROVE IInv'
<1> USE DEF agents, book, hold, seen, bounds
<1>1. TypeOK /\ AtRest
  BY DEF IInv
<1>2. TypeOK'
  BY <1>1 DEF TypeOK, TurnBegins
<1>3. AtRest'
  BY <1>1 DEF AtRest, TurnBegins, TypeOK
<1>4. ASSUME NEW d \in Delegations PROVE Sound(d)'
  <2>1. \A b \in Agents : phase'[b] \in Active <=> phase[b] \in Active
    BY <1>1 DEF TurnBegins, TypeOK, Active
  <2> QED BY <2>1, StillSound, SoundIs DEF TurnBegins
<1> QED BY <1>2, <1>3, <1>4, SoundIs

LEMMA TurnRefusedInv == ASSUME IInv, NEW a \in Agents, TurnRefused(a) PROVE IInv'
<1> USE DEF agents, book, hold, seen
<1>1. TypeOK /\ AtRest
  BY DEF IInv
<1>2. /\ fate' \in [Delegations -> Fates]
      /\ \A d \in Delegations : fate'[d] = IF d \in Tasks(batch[a]) THEN "unrun" ELSE fate[d]
  BY <1>1, MarkIs DEF TurnRefused, TypeOK, Fates
<1>3. phase'[a] = "rejecting" /\ phase[a] = "starting" /\ \A b \in Agents : b # a => phase'[b] = phase[b]
  BY <1>1 DEF TurnRefused, TypeOK
<1>4. troubles' \in Nat
  BY <1>1 DEF TurnRefused, TypeOK, Trouble
<1>5. TypeOK'
  BY <1>1, <1>2, <1>4 DEF TypeOK, TurnRefused
<1>6. AtRest'
  BY <1>1, <1>3 DEF AtRest, TurnRefused
<1>7. ASSUME NEW d \in Delegations PROVE Sound(d)'
  <2>1. UNCHANGED <<queue, batch, entry, told>> /\ Sound(d)
    BY SoundIs DEF TurnRefused
  <2>2. \A b \in Agents : /\ At(d, b)' <=> At(d, b)
                          /\ Held(d, b)' <=> Held(d, b) /\ (b # a \/ d \in Tasks(queue[a]))
    BY <1>3, <2>1 DEF At, Held, Active
  <2>3. CASE d \in Tasks(batch[a])
    <3>1. Held(d, a) /\ d \notin Tasks(queue[a]) /\ \A b \in Agents : Held(d, b) => b = a
      BY <1>3, <2>1, <2>3 DEF Sound, Held, At, Active
    <3>2. fate[d] = "sent" /\ fate'[d] = "unrun" /\ told'[d] = <<>>
      BY <1>2, <2>1, <2>3, <3>1 DEF Sound
    <3>3. Len(told'[d]) = 0 /\ \A i \in DOMAIN told'[d] : FALSE
      BY <3>2
    <3>4. fate'[d] \notin Early \cup Verdicts \cup {"sent"} /\ \A b \in Agents : ~ Held(d, b)'
      BY <2>2, <3>1, <3>2 DEF Early, Verdicts
    <3> QED BY <2>1, <2>2, <3>2, <3>3, <3>4 DEF Sound
  <2>4. CASE d \notin Tasks(batch[a])
    <3>1. \A b \in Agents : Held(d, b)' <=> Held(d, b)
      BY <2>2, <2>4 DEF Held
    <3> QED BY <1>2, <2>1, <2>2, <2>4, <3>1 DEF Sound
  <2> QED BY <2>3, <2>4
<1> QED BY <1>5, <1>6, <1>7, SoundIs

\* The tool moves on with a delegation that has not been sent.
LEMMA EarlyKeeps ==
  ASSUME IInv, NEW d \in Delegations, fate[d] \in Early, NEW value \in Early,
         fate' = Mark(fate, {d}, value), UNCHANGED <<queue, batch, phase, entry, told, disposed>>,
         live \subseteq live'
  PROVE  /\ fate' \in [Delegations -> Fates]
         /\ AtRest' /\ \A e \in Delegations : Sound(e)'
<1>1. TypeOK /\ AtRest /\ value \in Fates
  BY DEF IInv, Early, Fates
<1>2. /\ fate' \in [Delegations -> Fates]
      /\ \A e \in Delegations : fate'[e] = IF e = d THEN value ELSE fate[e]
  BY <1>1, MarkIs DEF TypeOK
<1>3. AtRest'
  BY <1>1 DEF AtRest
<1>4. ASSUME NEW e \in Delegations PROVE Sound(e)'
  BY <1>2, StillSound, SoundIs
<1> QED BY <1>2, <1>3, <1>4

LEMMA ReserveInv ==
  ASSUME IInv, NEW d \in Delegations, NEW a \in Agents, Reserve(d, a) PROVE IInv'
<1> USE DEF agents, turns, hold, seen, bounds
<1>1. TypeOK /\ fate[d] \in Early /\ "reserved" \in Early
  BY DEF IInv, Reserve, MayDelegate, Early
<1>2. fate' \in [Delegations -> Fates] /\ AtRest' /\ \A e \in Delegations : Sound(e)'
  BY <1>1, EarlyKeeps DEF Reserve
<1>3. TypeOK'
  BY <1>1, <1>2 DEF TypeOK, Reserve
<1> QED BY <1>2, <1>3, SoundIs

LEMMA SpawnInv == ASSUME IInv, NEW d \in Delegations, Spawn(d) PROVE IInv'
<1> USE DEF turns, book, hold, seen, bounds
<1>1. TypeOK /\ fate[d] \in Early /\ "spawned" \in Early
  BY DEF IInv, Spawn, Early
<1>2. fate' \in [Delegations -> Fates] /\ AtRest' /\ \A e \in Delegations : Sound(e)'
  BY <1>1, EarlyKeeps DEF Spawn
<1>3. TypeOK'
  BY <1>1, <1>2, AgentsAre DEF TypeOK, Spawn
<1> QED BY <1>2, <1>3, SoundIs

LEMMA SpawnFailsInv == ASSUME IInv, NEW d \in Delegations, SpawnFails(d) PROVE IInv'
<1> USE DEF agents, turns, book, hold, seen
<1>1. TypeOK /\ fate[d] \in Early /\ "refused" \in Early
  BY DEF IInv, SpawnFails, Early
<1>2. fate' \in [Delegations -> Fates] /\ AtRest' /\ \A e \in Delegations : Sound(e)'
  BY <1>1, EarlyKeeps DEF SpawnFails
<1>3. troubles' \in Nat
  BY <1>1 DEF SpawnFails, Trouble, TypeOK
<1>4. TypeOK'
  BY <1>1, <1>2, <1>3 DEF TypeOK, SpawnFails
<1> QED BY <1>2, <1>4, SoundIs

\* A task is sent and its record takes the place of what the address had.
LEMMA SendKeeps ==
  ASSUME IInv, NEW d \in Delegations, NEW b \in Agents, fate[d] \in Early, Takes(b),
         entry' = [entry EXCEPT ![b] = d], Put(b, Task(d), Mark(fate, {d}, "sent")),
         UNCHANGED <<live, disposed, batch, phase, told>>
  PROVE  /\ queue' \in [Agents -> Seq(Items)] /\ fate' \in [Delegations -> Fates]
         /\ entry' \in [Agents -> Delegations \cup {None}]
         /\ AtRest' /\ \A e \in Delegations : Sound(e)'
<1> DEFINE f == Mark(fate, {d}, "sent")
<1>1. TypeOK /\ AtRest
  BY DEF IInv
<1>2. f \in [Delegations -> Fates] /\ \A e \in Delegations : f[e] = IF e = d THEN "sent" ELSE fate[e]
  <2>1. fate \in [Delegations -> Fates] /\ "sent" \in Fates
    BY <1>1 DEF TypeOK, Fates
  <2>2. /\ f \in [Delegations -> Fates]
        /\ \A e \in Delegations : f[e] = IF e \in {d} THEN "sent" ELSE fate[e]
    BY <2>1, MarkIs
  <2> QED BY <2>2
<1>3. Task(d) \in Items /\ \A e \in Delegations : Task(d) = Task(e) <=> e = d
  BY ItemFacts
<1> HIDE DEF f
<1>4. /\ queue' \in [Agents -> Seq(Items)] /\ fate' \in [Delegations -> Fates]
      /\ \A a \in Agents : a # b => queue'[a] = queue[a]
  BY <1>1, <1>2, <1>3, PutFacts DEF f
<1>5. /\ entry' \in [Agents -> Delegations \cup {None}] /\ entry'[b] = d
      /\ \A a \in Agents : a # b => entry'[a] = entry[a]
  BY <1>1 DEF TypeOK
<1>6. AtRest'
  <2>1. b \in live \ disposed
    BY DEF Takes
  <2> QED BY <1>1, <1>4, <1>5, <2>1 DEF AtRest
<1>7. ASSUME NEW e \in Delegations PROVE Sound(e)'
  <2>1. \A a \in Agents : entry[a] # d
    BY SoundIs DEF Sound
  <2>2. CASE e = d
    <3>1. \A a \in Agents : entry'[a] = d => a = b
      BY <1>5, <2>1
    <3> QED BY <1>2, <1>3, <2>2, <3>1, PutKeeps DEF f
  <2>3. CASE e # d
    <3>1. \A a \in Agents : entry'[a] = e => entry[a] = e
      BY <1>5, <2>3
    <3> QED BY <1>2, <1>3, <2>3, <3>1, PutKeeps DEF f
  <2> QED BY <2>2, <2>3
<1> QED BY <1>4, <1>5, <1>6, <1>7

LEMMA ToTeammateInv ==
  ASSUME IInv, NEW d \in Delegations, NEW a \in Agents, NEW b \in Agents, ToTeammate(d, a, b)
  PROVE  IInv'
<1> USE DEF agents, hold, seen, bounds
<1>1. TypeOK /\ fate[d] \in Early /\ "refused" \in Early
  BY DEF IInv, ToTeammate, MayDelegate, Early
<1>2. from' \in [Delegations -> Agents \cup {None}]
  BY <1>1 DEF ToTeammate, TypeOK
<1>3. /\ queue' \in [Agents -> Seq(Items)] /\ fate' \in [Delegations -> Fates]
      /\ entry' \in [Agents -> Delegations \cup {None}]
      /\ AtRest' /\ \A e \in Delegations : Sound(e)'
  <2>1. CASE Takes(b)
    BY <1>1, <2>1, SendKeeps DEF ToTeammate
  <2>2. CASE ~ Takes(b)
    <3>1. UNCHANGED <<queue, entry>>
      BY <2>2 DEF ToTeammate
    <3> QED BY <1>1, <2>2, <3>1, EarlyKeeps DEF ToTeammate, TypeOK
  <2> QED BY <2>1, <2>2
<1>4. TypeOK'
  BY <1>1, <1>2, <1>3 DEF TypeOK, ToTeammate
<1> QED BY <1>3, <1>4, SoundIs

LEMMA DeliverInv == ASSUME IInv, NEW d \in Delegations, Deliver(d) PROVE IInv'
<1> USE DEF agents, hold, seen, bounds
<1>1. TypeOK /\ fate[d] \in Early /\ "refused" \in Early /\ d \in Agents
  BY AgentsAre DEF IInv, Deliver, Early
<1>2. silent' \subseteq Delegations
  BY <1>1 DEF Deliver, TypeOK
<1>3. /\ queue' \in [Agents -> Seq(Items)] /\ fate' \in [Delegations -> Fates]
      /\ entry' \in [Agents -> Delegations \cup {None}]
      /\ AtRest' /\ \A e \in Delegations : Sound(e)'
  <2>1. CASE Takes(d)
    BY <1>1, <2>1, SendKeeps DEF Deliver
  <2>2. CASE ~ Takes(d)
    <3>1. UNCHANGED <<queue, entry>>
      BY <2>2 DEF Deliver
    <3> QED BY <1>1, <2>2, <3>1, EarlyKeeps DEF Deliver, TypeOK
  <2> QED BY <2>1, <2>2
<1>4. TypeOK'
  BY <1>1, <1>2, <1>3 DEF TypeOK, Deliver
<1> QED BY <1>3, <1>4, SoundIs

-----------------------------------------------------------------------------
(* The steps with callbacks                                               *)

LEMMA CallbackRest ==
  ASSUME IInv, NEW ds \in SUBSET Delegations, NEW verdict \in Verdicts,
         NEW q \in [Agents -> Seq(Items)], NEW f \in [Delegations -> Fates],
         NEW quiet \in SUBSET Delegations, Callback(ds, verdict, q, f, quiet),
         \A a \in Agents :
           /\ phase'[a] = "idle" => batch'[a] = <<>>
           /\ a \notin live' => phase'[a] = "idle" /\ (a \in live => entry[a] \in ds \cup {None})
           /\ a \in disposed' \/ a \notin live' => ~ Wakes(q[a]) /\ ~ Takes(a)
  PROVE  /\ entry' \in [Agents -> Delegations \cup {None}]
         /\ told' \in [Delegations -> Seq(Verdicts \X {"turn", "silent"})]
         /\ queue' \in [Agents -> Seq(Items)] /\ fate' \in [Delegations -> Fates]
         /\ silent' \subseteq Delegations
         /\ AtRest'
<1>1. TypeOK /\ AtRest
  BY DEF IInv
<1>2. Effects(ds, verdict, q, f, quiet)
  BY <1>1, CallbackFacts
<1>3. \A a \in Agents : Wakes(queue'[a]) => Wakes(q[a]) \/ Takes(a)
  BY <1>2 DEF Effects
<1>4. \A a \in Agents : entry'[a] = IF entry[a] \in ds THEN None ELSE entry[a]
  BY <1>2 DEF Effects
<1>5. AtRest'
  BY <1>1, <1>3, <1>4 DEF AtRest
<1> QED BY <1>2, <1>5 DEF Effects

\* A turn has ended in the name of its last task.
LEMMA EndKeeps ==
  ASSUME IInv, NEW a \in Agents, phase[a] \in Active, NEW verdict \in Verdicts,
         NEW new \in {"resolving", "rejecting"}, phase' = [phase EXCEPT ![a] = new],
         UNCHANGED <<batch, live, disposed>>,
         Callback(Answered(a), verdict, queue,
                  Mark(Mark(fate, Tasks(batch[a]), "merged"), Named(a), verdict), silent)
  PROVE  /\ entry' \in [Agents -> Delegations \cup {None}]
         /\ told' \in [Delegations -> Seq(Verdicts \X {"turn", "silent"})]
         /\ queue' \in [Agents -> Seq(Items)] /\ fate' \in [Delegations -> Fates]
         /\ silent' \subseteq Delegations
         /\ AtRest' /\ \A d \in Delegations : Sound(d)'
<1> DEFINE merged == Mark(fate, Tasks(batch[a]), "merged")
           f == Mark(merged, Named(a), verdict)
<1>1. TypeOK /\ AtRest
  BY DEF IInv
<1>2. /\ fate \in [Delegations -> Fates] /\ queue \in [Agents -> Seq(Items)]
      /\ batch[a] \in Seq(Items) /\ silent \in SUBSET Delegations
      /\ verdict \in Fates /\ "merged" \in Fates
  BY <1>1 DEF TypeOK, Fates
<1>3. /\ f \in [Delegations -> Fates]
      /\ \A d \in Delegations : f[d] = IF d \in Named(a) THEN verdict
                                       ELSE IF d \in Tasks(batch[a]) THEN "merged" ELSE fate[d]
  <2>1. /\ merged \in [Delegations -> Fates]
        /\ \A d \in Delegations : merged[d] = IF d \in Tasks(batch[a]) THEN "merged" ELSE fate[d]
    BY <1>2, MarkIs
  <2> HIDE DEF merged
  <2>2. /\ f \in [Delegations -> Fates]
        /\ \A d \in Delegations : f[d] = IF d \in Named(a) THEN verdict ELSE merged[d]
    BY <1>2, <2>1, MarkIs
  <2> QED BY <2>1, <2>2
<1>4. Named(a) \subseteq Tasks(batch[a])
  BY <1>2, TasksAre DEF Named
<1>5. Answered(a) \in SUBSET Delegations /\ \A d \in Answered(a) : d \in Named(a) /\ entry[a] = d
  BY DEF Answered, Named
<1>6. \A b \in Agents : phase'[b] = IF b = a THEN new ELSE phase[b]
  BY <1>1 DEF TypeOK
<1>7. Callback(Answered(a), verdict, queue, f, silent)
  OBVIOUS
<1> HIDE DEF f
<1>8. \A b \in Agents :
        /\ phase'[b] = "idle" => batch'[b] = <<>>
        /\ b \notin live' => phase'[b] = "idle" /\ (b \in live => entry[b] \in Answered(a) \cup {None})
        /\ b \in disposed' \/ b \notin live' => ~ Wakes(queue[b]) /\ ~ Takes(b)
  BY <1>1, <1>6 DEF AtRest, Active, Takes
<1>9. ASSUME NEW d \in Delegations PROVE Sound(d)'
  <2>1. Sound(d)
    BY SoundIs
  <2>2. new \notin Active /\ "sent" \notin Early \cup Verdicts /\ "merged" \notin Early \cup Verdicts \cup {"sent"}
        /\ verdict \notin Early \cup {"sent"} /\ verdict \in Truth(verdict)
    BY DEF Active, Early, Verdicts, Truth
  <2>3. \A b \in Agents : d \in Tasks(batch'[b]) /\ phase'[b] \in Active => Held(d, b) /\ b # a
    BY <1>6, <2>2 DEF Held
  <2>4. d \in Tasks(batch[a]) => Held(d, a) /\ At(d, a) /\ d \notin Tasks(queue[a])
    BY <2>1 DEF Held, At, Sound
  <2>5. fate[d] # "sent" => /\ f[d] = fate[d]
                            /\ \A b \in Agents : ~ (d \in Tasks(batch'[b]) /\ phase'[b] \in Active)
    BY <1>3, <1>4, <2>1, <2>3, <2>4 DEF Sound
  <2>6. ASSUME fate[d] = "sent"
        PROVE  /\ f[d] \notin Early
               /\ f[d] = "sent" <=>
                    \E b \in Agents :
                      d \in Tasks(queue[b]) \/ (d \in Tasks(batch'[b]) /\ phase'[b] \in Active)
    <3>1. CASE d \in Tasks(batch[a])
      <4>1. f[d] \notin Early \cup {"sent"}
        BY <1>3, <2>2, <3>1
      <4>2. \A b \in Agents : At(d, b) => b = a
        BY <2>1, <2>4, <3>1 DEF Sound
      <4> QED BY <2>3, <2>4, <3>1, <4>1, <4>2 DEF At, Held
    <3>2. CASE d \notin Tasks(batch[a])
      <4>1. f[d] = "sent"
        BY <1>3, <1>4, <2>6, <3>2
      <4>2. PICK b \in Agents : Held(d, b)
        BY <2>1, <2>6 DEF Sound
      <4> QED BY <1>6, <2>2, <3>2, <4>1, <4>2 DEF Held
    <3> QED BY <3>1, <3>2
  <2>7. f[d] \in Verdicts => d \in Answered(a) \/ \A b \in Agents : entry[b] # d
    <3>1. CASE d \in Named(a)
      <4>1. \A b \in Agents : entry[b] = d => b = a
        BY <1>4, <2>1, <2>4, <3>1 DEF Sound
      <4> QED BY <3>1, <4>1 DEF Answered
    <3>2. CASE d \notin Named(a)
      BY <1>3, <2>1, <2>2, <3>2 DEF Sound
    <3> QED BY <3>1, <3>2
  <2>8. d \in Answered(a) => (\E b \in Agents : entry[b] = d) /\ f[d] \in Truth(verdict)
    BY <1>3, <1>5, <2>2
  <2>9. \A b \in Agents : /\ Tasks(queue[b]) \subseteq Tasks(queue[b])
                          /\ Tasks(batch'[b]) \subseteq Tasks(batch[b])
    OBVIOUS
  <2>10. Accounts(Answered(a), verdict, queue, f, d)
    BY <2>5, <2>6, <2>7, <2>8 DEF Accounts
  <2> QED BY <1>2, <1>3, <1>5, <1>7, <2>9, <2>10, CallbackKeeps
<1>10. /\ entry' \in [Agents -> Delegations \cup {None}]
       /\ told' \in [Delegations -> Seq(Verdicts \X {"turn", "silent"})]
       /\ queue' \in [Agents -> Seq(Items)] /\ fate' \in [Delegations -> Fates]
       /\ silent' \subseteq Delegations
       /\ AtRest'
  BY <1>2, <1>3, <1>5, <1>7, <1>8, CallbackRest
<1> QED BY <1>9, <1>10

LEMMA InitFailsInv == ASSUME IInv, NEW a \in Agents, InitFails(a) PROVE IInv'
<1> USE DEF agents, hold, seen
<1>1. TypeOK /\ phase[a] \in Active /\ "failed" \in Verdicts
  BY DEF IInv, InitFails, Active, Verdicts
<1>2. /\ entry' \in [Agents -> Delegations \cup {None}]
      /\ told' \in [Delegations -> Seq(Verdicts \X {"turn", "silent"})]
      /\ queue' \in [Agents -> Seq(Items)] /\ fate' \in [Delegations -> Fates]
      /\ silent' \subseteq Delegations
      /\ AtRest' /\ \A d \in Delegations : Sound(d)'
  BY <1>1, EndKeeps DEF InitFails
<1>3. troubles' \in Nat
  BY <1>1 DEF InitFails, Trouble, TypeOK
<1>4. TypeOK'
  BY <1>1, <1>2, <1>3 DEF TypeOK, InitFails
<1> QED BY <1>2, <1>4, SoundIs

LEMMA TurnEndsInv ==
  ASSUME IInv, NEW a \in Agents, NEW completed \in BOOLEAN, TurnEnds(a, completed) PROVE IInv'
<1> USE DEF agents, hold, seen
<1> DEFINE verdict == IF aborted[a] THEN "cancelled" ELSE IF completed THEN "done" ELSE "failed"
           new == IF completed THEN "resolving" ELSE "rejecting"
<1>1. TypeOK /\ phase[a] \in Active /\ verdict \in Verdicts /\ new \in {"resolving", "rejecting"}
  BY DEF IInv, TurnEnds, Active, Verdicts
<1>2. /\ phase' = [phase EXCEPT ![a] = new] /\ UNCHANGED <<batch, live, disposed>>
      /\ Callback(Answered(a), verdict, queue,
                  Mark(Mark(fate, Tasks(batch[a]), "merged"), Named(a), verdict), silent)
  BY DEF TurnEnds
<1> HIDE DEF verdict, new
<1>3. /\ entry' \in [Agents -> Delegations \cup {None}]
      /\ told' \in [Delegations -> Seq(Verdicts \X {"turn", "silent"})]
      /\ queue' \in [Agents -> Seq(Items)] /\ fate' \in [Delegations -> Fates]
      /\ silent' \subseteq Delegations
      /\ AtRest' /\ \A d \in Delegations : Sound(d)'
  BY <1>1, <1>2, EndKeeps
<1>4. troubles' \in Nat
  BY <1>1 DEF TurnEnds, Trouble, TypeOK
<1>5. TypeOK'
  BY <1>1, <1>2, <1>3, <1>4 DEF TypeOK, TurnEnds
<1> QED BY <1>3, <1>5, SoundIs

LEMMA SettleInv == ASSUME IInv, NEW a \in Agents, Settle(a) PROVE IInv'
<1> USE DEF hold, seen, bounds
<1> DEFINE ds == IF phase[a] = "rejecting" THEN Released(Tasks(batch[a]), silent) ELSE {}
<1>1. TypeOK /\ AtRest /\ phase[a] \in {"resolving", "rejecting"} /\ phase[a] \notin Active
  BY DEF IInv, Settle, Active
<1>2. /\ fate \in [Delegations -> Fates] /\ queue \in [Agents -> Seq(Items)]
      /\ batch[a] \in Seq(Items) /\ silent \in SUBSET Delegations /\ "cancelled" \in Verdicts
  BY <1>1 DEF TypeOK, Verdicts
<1>3. ds \in SUBSET Delegations /\ Callback(ds, "cancelled", queue, fate, silent)
  BY <1>2 DEF Settle, Released
<1>4. \A d \in ds : d \in Tasks(batch[a]) /\ \E b \in Agents : entry[b] = d
  BY DEF Released
<1>5. /\ \A b \in Agents : /\ phase'[b] = IF b = a THEN "idle" ELSE phase[b]
                           /\ batch'[b] = IF b = a THEN <<>> ELSE batch[b]
      /\ live' = live /\ disposed' = disposed
  BY <1>1 DEF Settle, TypeOK
<1> HIDE DEF ds
<1>6. /\ entry' \in [Agents -> Delegations \cup {None}]
      /\ told' \in [Delegations -> Seq(Verdicts \X {"turn", "silent"})]
      /\ queue' \in [Agents -> Seq(Items)] /\ fate' \in [Delegations -> Fates]
      /\ silent' \subseteq Delegations
      /\ AtRest'
  <2>1. \A b \in Agents :
          /\ phase'[b] = "idle" => batch'[b] = <<>>
          /\ b \notin live' => phase'[b] = "idle" /\ (b \in live => entry[b] \in ds \cup {None})
          /\ b \in disposed' \/ b \notin live' => ~ Wakes(queue[b]) /\ ~ Takes(b)
    BY <1>1, <1>5 DEF AtRest, Takes
  <2> QED BY <1>2, <1>3, <2>1, CallbackRest
<1>7. Tasks(<<>>) = {}
  BY DEF Tasks, ToSet
<1>8. ASSUME NEW d \in Delegations PROVE Sound(d)'
  <2>1. Sound(d) /\ fate[d] \in Fates
    BY <1>2, SoundIs
  <2>2. \A b \in Agents :
          /\ d \in Tasks(batch'[b]) => b # a /\ d \in Tasks(batch[b])
          /\ d \in Tasks(batch'[b]) /\ phase'[b] \in Active => Held(d, b)
          /\ Held(d, b) => d \in Tasks(queue[b]) \/ (d \in Tasks(batch'[b]) /\ phase'[b] \in Active)
    BY <1>1, <1>5, <1>7 DEF Held
  <2>3. d \in Tasks(batch[a]) => fate[d] # "sent"
    BY <1>1, <2>1 DEF Sound, Held, At
  <2>4. d \in ds => fate[d] \in Truth("cancelled")
    BY <1>4, <2>1, <2>3 DEF Sound, Truth, Fates, Early, Verdicts
  <2>5. fate[d] = "sent" => /\ fate[d] \notin Early
                            /\ \E b \in Agents : \/ d \in Tasks(queue[b])
                                                 \/ d \in Tasks(batch'[b]) /\ phase'[b] \in Active
    BY <2>1, <2>2 DEF Sound, Early
  <2>6. fate[d] # "sent" => \A b \in Agents : ~ (d \in Tasks(batch'[b]) /\ phase'[b] \in Active)
    BY <2>1, <2>2 DEF Sound
  <2>7. Accounts(ds, "cancelled", queue, fate, d)
    BY <1>4, <2>1, <2>4, <2>5, <2>6 DEF Accounts, Sound
  <2>8. \A b \in Agents : /\ Tasks(queue[b]) \subseteq Tasks(queue[b])
                          /\ Tasks(batch'[b]) \subseteq Tasks(batch[b])
    BY <1>5, <1>7
  <2> QED BY <1>2, <1>3, <2>7, <2>8, CallbackKeeps
<1>9. TypeOK'
  <2>1. <<>> \in Seq(Items) /\ closing' \subseteq Agents
    BY <1>1 DEF Settle, TypeOK
  <2> QED BY <1>1, <1>6, <2>1 DEF TypeOK, Settle
<1> QED BY <1>6, <1>8, <1>9, SoundIs

\* The tasks queued for T are rejected; those whose record is marked are released.
LEMMA LostKeeps ==
  ASSUME IInv, NEW T \in SUBSET Agents, NEW quiet \in SUBSET Delegations, NEW lost,
         lost = UNION {Tasks(queue[a]) : a \in T}, NEW q \in [Agents -> Seq(Items)],
         \A a \in Agents : Tasks(q[a]) = IF a \in T THEN {} ELSE Tasks(queue[a]),
         Callback(Released(lost, quiet), "cancelled", q, Rejected(lost, quiet), quiet),
         UNCHANGED <<batch, phase>>
  PROVE  /\ Released(lost, quiet) \in SUBSET Delegations /\ "cancelled" \in Verdicts
         /\ Rejected(lost, quiet) \in [Delegations -> Fates]
         /\ \A d \in Delegations : Sound(d)'
<1>1. TypeOK
  BY DEF IInv
<1>2. lost \subseteq Delegations /\ \A d : d \in lost <=> \E a \in T : d \in Tasks(queue[a])
  <2>1. \A a \in T : Tasks(queue[a]) \subseteq Delegations
    BY <1>1, TasksAre DEF TypeOK
  <2> QED BY <2>1
<1>3. /\ Released(lost, quiet) \in SUBSET Delegations /\ "cancelled" \in Verdicts
      /\ \A d \in Delegations : d \in Released(lost, quiet)
                                  <=> d \in lost \cap quiet /\ \E a \in Agents : entry[a] = d
  BY <1>2 DEF Released, Verdicts
<1>4. /\ Rejected(lost, quiet) \in [Delegations -> Fates]
      /\ \A d \in Delegations : Rejected(lost, quiet)[d] = IF d \in lost \cap quiet THEN "cut"
                                                           ELSE IF d \in lost THEN "dropped" ELSE fate[d]
  <2> DEFINE one == Mark(fate, lost, "dropped")
             both == lost \cap quiet
  <2>1. fate \in [Delegations -> Fates] /\ "dropped" \in Fates /\ "cut" \in Fates
    BY <1>1 DEF TypeOK, Fates
  <2>2. /\ one \in [Delegations -> Fates]
        /\ \A d \in Delegations : one[d] = IF d \in lost THEN "dropped" ELSE fate[d]
    BY <2>1, MarkIs
  <2>3. Rejected(lost, quiet) = Mark(one, both, "cut")
    BY DEF Rejected
  <2> HIDE DEF one, both
  <2>4. /\ Mark(one, both, "cut") \in [Delegations -> Fates]
        /\ \A d \in Delegations : Mark(one, both, "cut")[d] = IF d \in both THEN "cut" ELSE one[d]
    BY <2>1, <2>2, MarkIs
  <2> QED BY <2>2, <2>3, <2>4 DEF both
<1> DEFINE ds == Released(lost, quiet)
           f == Rejected(lost, quiet)
<1> HIDE DEF ds, f
<1>5. ASSUME NEW d \in Delegations PROVE Sound(d)'
  <2>1. Sound(d)
    BY SoundIs
  <2>2. {"cut", "dropped"} \cap (Early \cup Verdicts \cup {"sent"}) = {} /\ "sent" \notin Early
        /\ {"cut", "dropped"} \subseteq Truth("cancelled")
    BY DEF Early, Verdicts, Truth
  <2>3. \A a \in Agents : /\ d \in Tasks(batch'[a]) <=> d \in Tasks(batch[a])
                          /\ phase'[a] = phase[a]
                          /\ d \in Tasks(q[a]) <=> a \notin T /\ d \in Tasks(queue[a])
    OBVIOUS
  <2>4. CASE d \in lost
    <3>1. PICK b \in T : d \in Tasks(queue[b])
      BY <1>2, <2>4
    <3>2. fate[d] = "sent" /\ At(d, b) /\ \A a \in Agents : At(d, a) => a = b
      BY <2>1, <3>1 DEF Sound, Held, At
    <3>3. f[d] \in {"cut", "dropped"}
      BY <1>4, <2>4 DEF f
    <3>4. \A a \in Agents : d \notin Tasks(q[a]) /\ d \notin Tasks(batch'[a])
      BY <2>1, <2>3, <3>1, <3>2 DEF Sound, At
    <3>5. d \in ds => \E a \in Agents : entry[a] = d
      BY <1>3 DEF ds
    <3> QED
      <4>1. Accounts(ds, "cancelled", q, f, d)
        BY <2>2, <3>2, <3>3, <3>4, <3>5 DEF Accounts
      <4>2. \A a \in Agents : /\ Tasks(q[a]) \subseteq Tasks(queue[a])
                              /\ Tasks(batch'[a]) \subseteq Tasks(batch[a])
        OBVIOUS
      <4> QED BY <1>3, <1>4, <4>1, <4>2, CallbackKeeps DEF ds, f
  <2>5. CASE d \notin lost
    <3>1. f[d] = fate[d] /\ d \notin ds
      BY <1>3, <1>4, <2>5 DEF ds, f
    <3>2. \A a \in Agents : Held(d, a) <=> d \in Tasks(q[a]) \/ (d \in Tasks(batch'[a]) /\ phase'[a] \in Active)
      BY <1>2, <2>3, <2>5 DEF Held
    <3> QED
      <4>1. Accounts(ds, "cancelled", q, f, d)
        BY <2>1, <2>2, <3>1, <3>2 DEF Accounts, Sound
      <4>2. \A a \in Agents : /\ Tasks(q[a]) \subseteq Tasks(queue[a])
                              /\ Tasks(batch'[a]) \subseteq Tasks(batch[a])
        OBVIOUS
      <4> QED BY <1>3, <1>4, <4>1, <4>2, CallbackKeeps DEF ds, f
  <2> QED BY <2>4, <2>5
<1> QED BY <1>3, <1>4, <1>5

LEMMA AbortType == ASSUME NEW T, Abort(T) PROVE aborted' \in [Agents -> BOOLEAN]
<1>1. \A a \in Agents : (aborted[a] \/ (a \in T /\ phase[a] \in {"starting", "turn"})) \in BOOLEAN
  OBVIOUS
<1> QED BY <1>1, Zenon DEF Abort

LEMMA SubtreeAgents == \A a : Subtree(a) \subseteq Agents
BY DEF Subtree, Reach

\* The queues of T are emptied; what is disposed with it takes nothing any more.
LEMMA ClearKeeps ==
  ASSUME IInv, NEW T \in SUBSET Agents, Clear(T), UNCHANGED <<live, batch, phase>>,
         \A a \in disposed' \ disposed : a \in T /\ ~ Takes(a)
  PROVE  /\ aborted' \in [Agents -> BOOLEAN]
         /\ entry' \in [Agents -> Delegations \cup {None}]
         /\ told' \in [Delegations -> Seq(Verdicts \X {"turn", "silent"})]
         /\ queue' \in [Agents -> Seq(Items)] /\ fate' \in [Delegations -> Fates]
         /\ silent' \subseteq Delegations
         /\ AtRest' /\ \A d \in Delegations : Sound(d)'
<1> DEFINE lost == UNION {Tasks(queue[a]) : a \in T}
           q == [a \in Agents |-> IF a \in T THEN <<>> ELSE queue[a]]
<1>1. TypeOK /\ AtRest /\ silent \in SUBSET Delegations
  BY DEF IInv, TypeOK
<1>2. Tasks(<<>>) = {} /\ ~ Wakes(<<>>)
  BY DEF Tasks, ToSet, Wakes
<1>3. /\ q \in [Agents -> Seq(Items)]
      /\ \A a \in Agents : /\ Tasks(q[a]) = IF a \in T THEN {} ELSE Tasks(queue[a])
                           /\ Wakes(q[a]) => a \notin T /\ Wakes(queue[a])
  <2>1. <<>> \in Seq(Items) /\ queue \in [Agents -> Seq(Items)]
    BY <1>1 DEF TypeOK
  <2>2. q \in [Agents -> Seq(Items)] /\ \A a \in Agents : q[a] = IF a \in T THEN <<>> ELSE queue[a]
    BY <2>1
  <2> HIDE DEF q
  <2>3. \A a \in Agents : a \in T => q[a] = <<>>
    BY <2>2
  <2>4. \A a \in Agents : a \notin T => q[a] = queue[a]
    BY <2>2
  <2> QED BY <1>2, <2>2, <2>3, <2>4
<1>4. /\ Abort(T)
      /\ Callback(Released(lost, silent), "cancelled", q, Rejected(lost, silent), silent)
  BY DEF Clear
<1>5. lost = UNION {Tasks(queue[a]) : a \in T}
  OBVIOUS
<1> HIDE DEF lost, q
<1>6. /\ Released(lost, silent) \in SUBSET Delegations /\ "cancelled" \in Verdicts
      /\ Rejected(lost, silent) \in [Delegations -> Fates]
      /\ \A d \in Delegations : Sound(d)'
  BY <1>1, <1>3, <1>4, <1>5, LostKeeps
<1>7. \A a \in Agents :
        /\ phase'[a] = "idle" => batch'[a] = <<>>
        /\ a \notin live' => phase'[a] = "idle"
                             /\ (a \in live => entry[a] \in Released(lost, silent) \cup {None})
        /\ a \in disposed' \/ a \notin live' => ~ Wakes(q[a]) /\ ~ Takes(a)
  BY <1>1, <1>3 DEF AtRest, Takes
<1>8. /\ entry' \in [Agents -> Delegations \cup {None}]
      /\ told' \in [Delegations -> Seq(Verdicts \X {"turn", "silent"})]
      /\ queue' \in [Agents -> Seq(Items)] /\ fate' \in [Delegations -> Fates]
      /\ silent' \subseteq Delegations
      /\ AtRest'
  BY <1>1, <1>3, <1>4, <1>6, <1>7, CallbackRest
<1> QED BY <1>4, <1>6, <1>8, AbortType

LEMMA InterruptInv == ASSUME IInv, NEW a \in Agents, Interrupt(a) PROVE IInv'
<1> USE DEF agents, hold, seen
<1>1. TypeOK /\ AtRest /\ troubles' \in Nat
  BY DEF IInv, TypeOK, Interrupt, Trouble
<1>2. CASE Abort({a}) /\ UNCHANGED <<queue, book, fate, told>>
  <2>1. aborted' \in [Agents -> BOOLEAN]
    BY <1>2, AbortType
  <2>2. TypeOK'
    BY <1>1, <1>2, <2>1 DEF TypeOK, Interrupt, book
  <2>3. AtRest'
    BY <1>1, <1>2 DEF AtRest, Interrupt, book
  <2>4. ASSUME NEW d \in Delegations PROVE Sound(d)'
    BY <1>2, StillSound, SoundIs DEF Interrupt, book
  <2> QED BY <2>2, <2>3, <2>4, SoundIs
<1>3. CASE Clear({a}) /\ UNCHANGED from
  <2>1. {a} \in SUBSET Agents /\ UNCHANGED <<live, batch, phase, disposed>>
    BY DEF Interrupt
  <2>2. /\ aborted' \in [Agents -> BOOLEAN]
        /\ entry' \in [Agents -> Delegations \cup {None}]
        /\ told' \in [Delegations -> Seq(Verdicts \X {"turn", "silent"})]
        /\ queue' \in [Agents -> Seq(Items)] /\ fate' \in [Delegations -> Fates]
        /\ silent' \subseteq Delegations
        /\ AtRest' /\ \A d \in Delegations : Sound(d)'
    BY <1>3, <2>1, ClearKeeps
  <2>3. TypeOK'
    BY <1>1, <1>3, <2>2 DEF TypeOK, Interrupt
  <2> QED BY <2>2, <2>3, SoundIs
<1> QED BY <1>2, <1>3 DEF Interrupt

LEMMA CancelInv == ASSUME IInv, NEW c \in Agents, Cancel(c) PROVE IInv'
<1> USE DEF hold, seen
<1>1. TypeOK /\ troubles' \in Nat /\ closing' \subseteq Agents
  BY SubtreeAgents DEF IInv, TypeOK, Cancel, Trouble
<1>2. Subtree(c) \in SUBSET Agents /\ UNCHANGED <<live, batch, phase, disposed>>
  BY SubtreeAgents DEF Cancel
<1>3. /\ aborted' \in [Agents -> BOOLEAN]
      /\ entry' \in [Agents -> Delegations \cup {None}]
      /\ told' \in [Delegations -> Seq(Verdicts \X {"turn", "silent"})]
      /\ queue' \in [Agents -> Seq(Items)] /\ fate' \in [Delegations -> Fates]
      /\ silent' \subseteq Delegations
      /\ AtRest' /\ \A d \in Delegations : Sound(d)'
  BY <1>2, ClearKeeps DEF Cancel
<1>4. TypeOK'
  BY <1>1, <1>3 DEF TypeOK, Cancel
<1> QED BY <1>3, <1>4, SoundIs

LEMMA DisposeInv == ASSUME IInv, NEW c \in Agents, Dispose(c) PROVE IInv'
<1> USE DEF hold, seen, bounds
<1>1. TypeOK /\ disposed' \subseteq Agents
  BY DEF IInv, TypeOK, Dispose
<1>2. /\ {c} \in SUBSET Agents /\ UNCHANGED <<live, batch, phase>>
      /\ \A a \in disposed' \ disposed : a \in {c} /\ ~ Takes(a)
  BY DEF Dispose, Takes
<1>3. /\ aborted' \in [Agents -> BOOLEAN]
      /\ entry' \in [Agents -> Delegations \cup {None}]
      /\ told' \in [Delegations -> Seq(Verdicts \X {"turn", "silent"})]
      /\ queue' \in [Agents -> Seq(Items)] /\ fate' \in [Delegations -> Fates]
      /\ silent' \subseteq Delegations
      /\ AtRest' /\ \A d \in Delegations : Sound(d)'
  BY <1>2, ClearKeeps DEF Dispose
<1>4. TypeOK'
  BY <1>1, <1>3 DEF TypeOK, Dispose
<1> QED BY <1>3, <1>4, SoundIs

LEMMA CloseGateInv ==
  ASSUME IInv, NEW kind \in Agents \cup {"checkpoint"}, CloseGate(kind) PROVE IInv'
<1> USE DEF seen
<1> DEFINE E == Delegations \cap (IF kind = "checkpoint" THEN live ELSE Subtree(kind))
<1>1. /\ TypeOK /\ troubles' \in Nat /\ closing' \subseteq Agents
      /\ gate' \in {"open", "checkpoint"} \cup Residents /\ stage' = "children"
  <2>1. TypeOK /\ troubles' \in Nat /\ stage' = "children"
    BY DEF IInv, TypeOK, CloseGate, Trouble
  <2>2. closing' \subseteq Agents
    BY <2>1, AgentsAre DEF CloseGate, TypeOK
  <2>3. gate' \in {"open", "checkpoint"} \cup Residents
    BY DEF CloseGate
  <2> QED BY <2>1, <2>2, <2>3
<1>2. E \in SUBSET Agents /\ Clear(E) /\ UNCHANGED <<live, batch, phase, disposed>>
  BY AgentsAre DEF CloseGate
<1>3. /\ aborted' \in [Agents -> BOOLEAN]
      /\ entry' \in [Agents -> Delegations \cup {None}]
      /\ told' \in [Delegations -> Seq(Verdicts \X {"turn", "silent"})]
      /\ queue' \in [Agents -> Seq(Items)] /\ fate' \in [Delegations -> Fates]
      /\ silent' \subseteq Delegations
      /\ AtRest' /\ \A d \in Delegations : Sound(d)'
  <2> HIDE DEF E
  <2> QED BY <1>2, ClearKeeps
<1>4. TypeOK'
  BY <1>1, <1>3 DEF TypeOK, CloseGate
<1> QED BY <1>3, <1>4, SoundIs

LEMMA ClearResidentsInv == ASSUME IInv, ClearResidents PROVE IInv'
<1> USE DEF seen, bounds
<1>1. TypeOK
  BY DEF IInv
<1>2. /\ Concerned \in SUBSET Agents /\ Clear(Concerned) /\ UNCHANGED <<live, batch, phase>>
      /\ disposed' \subseteq Agents
      /\ \A a \in disposed' \ disposed : a \in Concerned /\ ~ Takes(a)
  <2>1. \A a : a \in Agents => a \in Subtree(a)
    BY DEF Subtree, Reach
  <2>2. gate # "open" /\ (gate # "checkpoint" => gate \in Agents)
    BY <1>1, AgentsAre DEF ClearResidents, TypeOK
  <2>3. Concerned \in SUBSET Agents
    BY <1>1, SubtreeAgents DEF Concerned, TypeOK
  <2> QED BY <1>1, <2>1, <2>2, <2>3 DEF ClearResidents, Concerned, Takes, TypeOK
<1>3. /\ aborted' \in [Agents -> BOOLEAN]
      /\ entry' \in [Agents -> Delegations \cup {None}]
      /\ told' \in [Delegations -> Seq(Verdicts \X {"turn", "silent"})]
      /\ queue' \in [Agents -> Seq(Items)] /\ fate' \in [Delegations -> Fates]
      /\ silent' \subseteq Delegations
      /\ AtRest' /\ \A d \in Delegations : Sound(d)'
  BY <1>2, ClearKeeps
<1>4. TypeOK'
  BY <1>1, <1>2, <1>3 DEF TypeOK, ClearResidents
<1> QED BY <1>3, <1>4, SoundIs

\* What a stop does before anything is told: the tasks it rejects, the queues it
\* leaves, and whom it marks.
LEMMA StopFacts ==
  ASSUME IInv, NEW S \in SUBSET Agents, Stop(S)
  PROVE  LET T == Targets(S)
             quiet == silent \cup Silenced(T)
             lost == UNION {Tasks(queue[b]) : b \in T}
             q == [b \in Agents |-> IF b \in T THEN Calmed(queue[b]) ELSE queue[b]]
         IN  /\ T \in SUBSET Agents /\ quiet \in SUBSET Delegations
             /\ q \in [Agents -> Seq(Items)]
             /\ \A b \in Agents : /\ Tasks(q[b]) = IF b \in T THEN {} ELSE Tasks(queue[b])
                                  /\ Wakes(q[b]) => /\ Wakes(queue[b])
                                                    /\ b \in T => Other("user") \in ToSet(queue[b])
             /\ Abort(T)
             /\ Callback(Released(lost, quiet), "cancelled", q, Rejected(lost, quiet), quiet)
<1> DEFINE T == Targets(S)
           quiet == silent \cup Silenced(T)
           lost == UNION {Tasks(queue[b]) : b \in T}
           q == [b \in Agents |-> IF b \in T THEN Calmed(queue[b]) ELSE queue[b]]
<1>1. queue \in [Agents -> Seq(Items)] /\ silent \subseteq Delegations
  BY DEF IInv, TypeOK
<1>2. T \in SUBSET Agents
  BY DEF Targets, Reach
<1>3. quiet \in SUBSET Delegations
  BY <1>1 DEF Silenced, Pending, Reserved
<1>4. /\ Abort(T)
      /\ Callback(Released(lost, quiet), "cancelled", q, Rejected(lost, quiet), quiet)
  BY DEF Stop
<1> HIDE DEF T
<1>5. \A b \in Agents : /\ Calmed(queue[b]) \in Seq(Items) /\ Tasks(Calmed(queue[b])) = {}
                        /\ Wakes(Calmed(queue[b])) =>
                             Wakes(queue[b]) /\ Other("user") \in ToSet(queue[b])
  BY <1>1, CalmedFacts
<1>6. q \in [Agents -> Seq(Items)] /\ \A b \in Agents : q[b] = IF b \in T THEN Calmed(queue[b]) ELSE queue[b]
  BY <1>1, <1>5
<1>7. \A b \in Agents : /\ Tasks(q[b]) = IF b \in T THEN {} ELSE Tasks(queue[b])
                        /\ Wakes(q[b]) => /\ Wakes(queue[b])
                                          /\ b \in T => Other("user") \in ToSet(queue[b])
  <2> HIDE DEF q
  <2>1. \A b \in Agents : b \in T => q[b] = Calmed(queue[b])
    BY <1>6
  <2>2. \A b \in Agents : b \notin T => q[b] = queue[b]
    BY <1>6
  <2> QED BY <1>5, <2>1, <2>2
<1> QED BY <1>2, <1>3, <1>4, <1>6, <1>7 DEF T

LEMMA StopInv == ASSUME IInv, NEW S \in SUBSET Agents, Stop(S) PROVE IInv'
<1> USE DEF agents, hold
<1> DEFINE T == Targets(S)
           quiet == silent \cup Silenced(T)
           lost == UNION {Tasks(queue[b]) : b \in T}
           q == [b \in Agents |-> IF b \in T THEN Calmed(queue[b]) ELSE queue[b]]
<1>1. TypeOK /\ AtRest /\ UNCHANGED <<live, closing, disposed, batch, phase, from, gate, stage, users>>
  BY DEF IInv, Stop
<1>2. /\ T \in SUBSET Agents /\ quiet \in SUBSET Delegations
      /\ q \in [Agents -> Seq(Items)]
      /\ \A b \in Agents : /\ Tasks(q[b]) = IF b \in T THEN {} ELSE Tasks(queue[b])
                           /\ Wakes(q[b]) => Wakes(queue[b])
      /\ Abort(T)
      /\ Callback(Released(lost, quiet), "cancelled", q, Rejected(lost, quiet), quiet)
  BY StopFacts
<1>3. lost = UNION {Tasks(queue[b]) : b \in T}
  OBVIOUS
<1>4. /\ troubles' \in Nat /\ halted' \subseteq Delegations /\ stopped' \in BOOLEAN
  <2>1. troubles' \in Nat /\ halted' \subseteq Delegations
    BY <1>1 DEF Stop, Trouble, TypeOK, Pending
  <2>2. stopped' \in BOOLEAN
    BY Zenon DEF Stop
  <2> QED BY <2>1, <2>2
<1> HIDE DEF T, quiet, lost, q
<1>5. /\ Released(lost, quiet) \in SUBSET Delegations /\ "cancelled" \in Verdicts
      /\ Rejected(lost, quiet) \in [Delegations -> Fates]
      /\ \A d \in Delegations : Sound(d)'
  BY <1>1, <1>2, <1>3, LostKeeps
<1>6. \A a \in Agents :
        /\ phase'[a] = "idle" => batch'[a] = <<>>
        /\ a \notin live' => phase'[a] = "idle"
                             /\ (a \in live => entry[a] \in Released(lost, quiet) \cup {None})
        /\ a \in disposed' \/ a \notin live' => ~ Wakes(q[a]) /\ ~ Takes(a)
  BY <1>1, <1>2 DEF AtRest, Takes
<1>7. /\ entry' \in [Agents -> Delegations \cup {None}]
      /\ told' \in [Delegations -> Seq(Verdicts \X {"turn", "silent"})]
      /\ queue' \in [Agents -> Seq(Items)] /\ fate' \in [Delegations -> Fates]
      /\ silent' \subseteq Delegations
      /\ AtRest'
  BY <1>2, <1>5, <1>6, CallbackRest
<1>8. aborted' \in [Agents -> BOOLEAN]
  BY <1>2, AbortType
<1>9. TypeOK'
  BY <1>1, <1>4, <1>7, <1>8 DEF TypeOK
<1> QED BY <1>5, <1>7, <1>9, SoundIs

\* Agents at rest leave the tree, and their records with them.
LEMMA RemovalKeeps ==
  ASSUME IInv, NEW R \in SUBSET Agents, live' = live \ R, UNCHANGED <<disposed, batch, phase>>,
         \A c \in R : phase[c] = "idle" /\ ~ Wakes(queue[c]) /\ ~ Takes(c),
         Callback({entry[c] : c \in R} \ {None}, "cancelled", queue, fate, silent)
  PROVE  /\ entry' \in [Agents -> Delegations \cup {None}]
         /\ told' \in [Delegations -> Seq(Verdicts \X {"turn", "silent"})]
         /\ queue' \in [Agents -> Seq(Items)] /\ fate' \in [Delegations -> Fates]
         /\ silent' \subseteq Delegations
         /\ AtRest' /\ \A d \in Delegations : Sound(d)'
<1> DEFINE ds == {entry[c] : c \in R} \ {None}
<1>1. /\ TypeOK /\ AtRest /\ silent \in SUBSET Delegations /\ "cancelled" \in Verdicts
      /\ queue \in [Agents -> Seq(Items)] /\ fate \in [Delegations -> Fates]
  BY DEF IInv, TypeOK, Verdicts
<1>2. ds \in SUBSET Delegations /\ Callback(ds, "cancelled", queue, fate, silent)
  BY <1>1 DEF TypeOK
<1>3. /\ \A d \in ds : \E c \in R : entry[c] = d
      /\ \A c \in R : entry[c] \in ds \cup {None}
  OBVIOUS
<1> HIDE DEF ds
<1>4. \A a \in Agents :
        /\ phase'[a] = "idle" => batch'[a] = <<>>
        /\ a \notin live' => phase'[a] = "idle" /\ (a \in live => entry[a] \in ds \cup {None})
        /\ a \in disposed' \/ a \notin live' => ~ Wakes(queue[a]) /\ ~ Takes(a)
  BY <1>1, <1>3 DEF AtRest, Takes
<1>5. /\ entry' \in [Agents -> Delegations \cup {None}]
      /\ told' \in [Delegations -> Seq(Verdicts \X {"turn", "silent"})]
      /\ queue' \in [Agents -> Seq(Items)] /\ fate' \in [Delegations -> Fates]
      /\ silent' \subseteq Delegations
      /\ AtRest'
  BY <1>1, <1>2, <1>4, CallbackRest
<1>6. ASSUME NEW d \in Delegations PROVE Sound(d)'
  <2>1. Sound(d) /\ fate[d] \in Fates
    BY <1>1, SoundIs
  <2>2. \A a \in Agents : Held(d, a) <=> d \in Tasks(queue[a]) \/ (d \in Tasks(batch'[a]) /\ phase'[a] \in Active)
    BY DEF Held
  <2>3. ASSUME d \in ds PROVE fate[d] \in Truth("cancelled") /\ \E a \in Agents : entry[a] = d
    <3>1. PICK c \in R : entry[c] = d
      BY <1>3, <2>3
    <3>2. batch[c] = <<>> /\ queue[c] \in Seq(Items) /\ ~ Wakes(queue[c])
      BY <1>1 DEF AtRest
    <3>3. Tasks(<<>>) = {}
      BY DEF Tasks, ToSet
    <3>4. Tasks(queue[c]) = {} /\ Tasks(batch[c]) = {}
      BY <3>2, <3>3, TasksAre
    <3>5. \A a \in Agents : ~ Held(d, a)
      BY <2>1, <3>1, <3>4 DEF Sound, Held, At
    <3> QED BY <2>1, <3>1, <3>5 DEF Sound, Truth, Fates, Early, Verdicts
  <2>4. "sent" \notin Early
    BY DEF Early
  <2>5. Accounts(ds, "cancelled", queue, fate, d)
    BY <2>1, <2>2, <2>3, <2>4 DEF Accounts, Sound
  <2>6. \A b \in Agents : /\ Tasks(queue[b]) \subseteq Tasks(queue[b])
                          /\ Tasks(batch'[b]) \subseteq Tasks(batch[b])
    OBVIOUS
  <2> QED BY <1>1, <1>2, <2>5, <2>6, CallbackKeeps
<1> QED BY <1>5, <1>6

LEMMA GoneInv == ASSUME IInv, NEW c \in Agents, Gone(c) PROVE IInv'
<1> USE DEF hold, seen, bounds
<1>1. TypeOK /\ AtRest
  BY DEF IInv
<1>2. {entry[c]} \ {None} = {entry[x] : x \in {c}} \ {None}
  OBVIOUS
<1>3. /\ {c} \in SUBSET Agents /\ UNCHANGED <<disposed, batch, phase>> /\ live' = live \ {c}
      /\ \A x \in {c} : phase[x] = "idle" /\ ~ Wakes(queue[x]) /\ ~ Takes(x)
  BY <1>1 DEF Gone, AtRest, Takes
<1>4. Callback({entry[x] : x \in {c}} \ {None}, "cancelled", queue, fate, silent)
  BY <1>2 DEF Gone
<1>5. /\ entry' \in [Agents -> Delegations \cup {None}]
      /\ told' \in [Delegations -> Seq(Verdicts \X {"turn", "silent"})]
      /\ queue' \in [Agents -> Seq(Items)] /\ fate' \in [Delegations -> Fates]
      /\ silent' \subseteq Delegations
      /\ AtRest' /\ \A d \in Delegations : Sound(d)'
  BY <1>3, <1>4, RemovalKeeps
<1>6. TypeOK'
  BY <1>1, <1>5 DEF TypeOK, Gone
<1> QED BY <1>5, <1>6, SoundIs

LEMMA OpenGateInv == ASSUME IInv, OpenGate PROVE IInv'
<1> USE DEF seen, bounds
<1> DEFINE R == live \ live'
<1>1. TypeOK /\ AtRest
  BY DEF IInv
<1>2. /\ R \in SUBSET Agents /\ live' = live \ R /\ UNCHANGED <<disposed, batch, phase>>
      /\ \A x \in R : x \in Concerned
  BY <1>1 DEF OpenGate, TypeOK
<1>3. \A x \in R : phase[x] = "idle" /\ ~ Wakes(queue[x]) /\ ~ Takes(x)
  BY <1>1, <1>2 DEF OpenGate, AtRest, Takes
<1>4. Callback({entry[x] : x \in R} \ {None}, "cancelled", queue, fate, silent)
  BY DEF OpenGate
<1> HIDE DEF R
<1>5. /\ entry' \in [Agents -> Delegations \cup {None}]
      /\ told' \in [Delegations -> Seq(Verdicts \X {"turn", "silent"})]
      /\ queue' \in [Agents -> Seq(Items)] /\ fate' \in [Delegations -> Fates]
      /\ silent' \subseteq Delegations
      /\ AtRest' /\ \A d \in Delegations : Sound(d)'
  BY <1>2, <1>3, <1>4, RemovalKeeps
<1>6. TypeOK'
  BY <1>1, <1>2, <1>5 DEF TypeOK, OpenGate
<1> QED BY <1>5, <1>6, SoundIs

LEMMA NextInv == IInv /\ [Next]_vars => IInv'
<1> SUFFICES ASSUME IInv, [Next]_vars PROVE IInv'
  OBVIOUS
<1>1. CASE UNCHANGED vars
  <2>1. TypeOK'
    BY <1>1 DEF IInv, TypeOK, vars, agents, turns, book, hold, seen, bounds
  <2>2. AtRest'
    BY <1>1 DEF IInv, AtRest, vars, agents, turns, book
  <2>3. \A d \in Delegations : Sound(d)'
    BY <1>1, StillSound, SoundIs DEF vars, agents, turns, book
  <2> QED BY <2>1, <2>2, <2>3, SoundIs
<1>2. ASSUME NEW a \in Agents, UserSend(a) PROVE IInv'
  BY <1>2, UserSendInv
<1>3. ASSUME NEW a \in Agents, Batch(a) PROVE IInv'
  BY <1>3, BatchInv
<1>4. ASSUME NEW a \in Agents, InitFails(a) PROVE IInv'
  BY <1>4, InitFailsInv
<1>5. ASSUME NEW a \in Agents, TurnRefused(a) PROVE IInv'
  BY <1>5, TurnRefusedInv
<1>6. ASSUME NEW a \in Agents, TurnBegins(a) PROVE IInv'
  BY <1>6, TurnBeginsInv
<1>7. ASSUME NEW a \in Agents, NEW completed \in BOOLEAN, TurnEnds(a, completed) PROVE IInv'
  BY <1>7, TurnEndsInv
<1>8. ASSUME NEW a \in Agents, Settle(a) PROVE IInv'
  BY <1>8, SettleInv
<1>9. ASSUME NEW a \in Agents, Interrupt(a) PROVE IInv'
  BY <1>9, InterruptInv
<1>10. ASSUME NEW a \in Agents, Cancel(a) PROVE IInv'
  BY <1>10, CancelInv
<1>11. ASSUME NEW a \in Agents, Dispose(a) PROVE IInv'
  BY <1>11, DisposeInv
<1>12. ASSUME NEW a \in Agents, Gone(a) PROVE IInv'
  BY <1>12, GoneInv
<1>13. ASSUME NEW a \in Agents, NEW d \in Delegations, Reserve(d, a) PROVE IInv'
  BY <1>13, ReserveInv
<1>14. ASSUME NEW a \in Agents, NEW d \in Delegations, NEW b \in Agents, ToTeammate(d, a, b)
       PROVE  IInv'
  BY <1>14, ToTeammateInv
<1>15. ASSUME NEW a \in Agents, a \in live, Stop({a}) PROVE IInv'
  <2>1. {a} \in SUBSET Agents
    OBVIOUS
  <2> QED BY <1>15, <2>1, StopInv
<1>16. ASSUME NEW kind \in Agents \cup {"checkpoint"}, CloseGate(kind) PROVE IInv'
  BY <1>16, CloseGateInv
<1>17. ASSUME NEW d \in Delegations, Spawn(d) PROVE IInv'
  BY <1>17, SpawnInv
<1>18. ASSUME NEW d \in Delegations, SpawnFails(d) PROVE IInv'
  BY <1>18, SpawnFailsInv
<1>19. ASSUME NEW d \in Delegations, Deliver(d) PROVE IInv'
  BY <1>19, DeliverInv
<1>20. CASE Stop(live)
  <2>1. live \in SUBSET Agents
    BY DEF IInv, TypeOK
  <2> QED BY <1>20, <2>1, StopInv
<1>21. CASE ClearResidents
  BY <1>21, ClearResidentsInv
<1>22. CASE OpenGate
  BY <1>22, OpenGateInv
<1> QED
  BY <1>1, <1>2, <1>3, <1>4, <1>5, <1>6, <1>7, <1>8, <1>9, <1>10, <1>11, <1>12, <1>13, <1>14,
     <1>15, <1>16, <1>17, <1>18, <1>19, <1>20, <1>21, <1>22, Zenon DEF Next

LEMMA Invariance == Spec => []IInv
<1>1. Init => IInv
  BY InitInv
<1>2. IInv /\ [Next]_vars => IInv'
  BY NextInv
<1> QED BY <1>1, <1>2, PTL DEF Spec

\* The controllers' queues and batches, the records of the delegations and the
\* gate have their types, however many agents and delegations there are.
THEOREM TypeCorrect == Spec => []TypeOK
<1>1. IInv => TypeOK
  BY DEF IInv
<1> QED BY <1>1, Invariance, PTL

\* A callback is the truth about the task it names, and the only one, whatever
\* turns end, tasks are rejected and agents removed (_bindDelegationCallback,
\* finishDelegation).
THEOREM CallbacksAreTrue == Spec => []CallbackIsTrue
<1>1. IInv => CallbackIsTrue
  BY DEF IInv
<1> QED BY <1>1, Invariance, PTL

-----------------------------------------------------------------------------
(* Stops                                                                   *)

\* Nothing runs and nothing will, nobody is created, and nobody is told aloud.
Quiet ==
  /\ Reserved = {} /\ Pending \subseteq silent
  /\ \A a \in Agents : /\ phase[a] \in Active => aborted[a]
                       /\ ~ Wakes(queue[a])

\* The record of a delegation that a stop has reached is marked, and what it was
\* told was silent.
Hushed(d) ==
  /\ fate[d] \notin Early
  /\ \A a \in Agents : entry[a] = d => d \in silent
  /\ \A i \in DOMAIN told[d] : told[d][i][2] = "silent"

Marked == (\A d \in halted : Hushed(d)) /\ (stopped => Quiet)

\* A step that tells nobody.
LEMMA NobodyTold ==
  ASSUME IInv, Marked, UNCHANGED <<told, halted>>, stopped' => Quiet',
         \A d \in halted : fate[d] \notin Early => fate'[d] \notin Early,
         \A d \in halted : (fate[d] \notin Early /\ \E a \in Agents : entry'[a] = d) =>
                             (\E a \in Agents : entry[a] = d) /\ (d \in silent => d \in silent')
  PROVE  Marked'
BY DEF Marked, Hushed, Quiet

LEMMA CallbackMarks ==
  ASSUME IInv, Marked, NEW ds \in SUBSET Delegations, NEW verdict \in Verdicts,
         NEW q \in [Agents -> Seq(Items)], NEW f \in [Delegations -> Fates],
         NEW quiet \in SUBSET Delegations, Callback(ds, verdict, q, f, quiet),
         ds \subseteq Pending, silent \subseteq quiet,
         \A d \in Delegations : f[d] \in Early => f[d] = fate[d],
         \A d \in halted' \ halted : d \in Pending \cap quiet,
         stopped' => /\ Reserved = {} /\ Pending \subseteq quiet
                     /\ \A a \in Agents : /\ phase'[a] \in Active => aborted'[a]
                                          /\ ~ Wakes(q[a])
  PROVE  Marked'
<1>1. TypeOK /\ FateShows /\ ToldOnce /\ halted \subseteq Delegations
  BY DEF IInv, TypeOK
<1>2. Effects(ds, verdict, q, f, quiet)
  BY <1>1, CallbackFacts
<1>3. /\ \A a \in Agents : entry'[a] = IF entry[a] \in ds THEN None ELSE entry[a]
      /\ silent' = quiet \ ds
      /\ \A d \in Delegations : fate'[d] \in Early => fate'[d] = fate[d]
  <2>1. "dropped" \notin Early
    BY DEF Early
  <2> QED BY <1>2, <2>1 DEF Effects
<1>4. \A d \in Delegations :
        told'[d] = IF d \in ds THEN Append(told[d], <<verdict, Handoff(d, quiet)>>) ELSE told[d]
  BY <1>2 DEF Effects
<1>5. \A d \in Delegations : told[d] \in Seq(Verdicts \X {"turn", "silent"})
  BY <1>1 DEF TypeOK
<1>6. None \notin Delegations
  BY AgentsAre
<1>7. \A d \in Pending : d \in Delegations /\ \E a \in Agents : entry[a] = d
  BY DEF Pending
<1>8. ASSUME NEW d \in halted' PROVE Hushed(d)'
  <2>1. /\ d \in Delegations /\ fate[d] \notin Early
        /\ \A a \in Agents : entry[a] = d => d \in quiet
        /\ \A i \in DOMAIN told[d] : told[d][i][2] = "silent"
    <3>1. CASE d \in halted
      BY <1>1, <3>1 DEF Marked, Hushed
    <3>2. CASE d \notin halted
      <4>1. d \in quiet /\ d \in Delegations /\ \E a \in Agents : entry[a] = d
        BY <1>7, <3>2
      <4>2. fate[d] \notin Early /\ told[d] = <<>>
        BY <1>1, <4>1 DEF FateShows, ToldOnce
      <4>3. \A i \in DOMAIN told[d] : FALSE
        BY <4>2
      <4> QED BY <4>1, <4>2, <4>3
    <3> QED BY <3>1, <3>2
  <2>2. fate'[d] \notin Early
    BY <1>3, <2>1
  <2>3. \A a \in Agents : entry'[a] = d => d \in silent'
    BY <1>3, <1>6, <2>1
  <2>4. ASSUME NEW i \in DOMAIN told'[d] PROVE told'[d][i][2] = "silent"
    <3>1. CASE d \in ds
      <4>1. d \in quiet
        BY <1>7, <2>1, <3>1
      <4>2. told'[d] = Append(told[d], <<verdict, "silent">>)
        BY <1>4, <2>1, <3>1, <4>1 DEF Handoff
      <4>3. \/ i \in DOMAIN told[d] /\ told'[d][i] = told[d][i]
            \/ told'[d][i] = <<verdict, "silent">>
        BY <1>5, <2>1, <4>2
      <4> QED BY <2>1, <4>3
    <3>2. CASE d \notin ds
      BY <1>4, <2>1, <3>2
    <3> QED BY <3>1, <3>2
  <2> QED BY <2>2, <2>3, <2>4 DEF Hushed
<1>9. ASSUME stopped' PROVE Quiet'
  <2>1. Reserved' = {}
    <3>1. \A d \in Delegations : fate'[d] \in {"reserved", "spawned"} => fate[d] \in {"reserved", "spawned"}
      BY <1>3 DEF Early
    <3> QED BY <1>9, <3>1 DEF Reserved
  <2>2. Pending' \subseteq silent'
    BY <1>3, <1>6, <1>9, <1>7 DEF Pending
  <2>3. ASSUME NEW a \in Agents PROVE ~ Wakes(queue'[a])
    <3>1. Wakes(queue'[a]) => Wakes(q[a]) \/ ~ (ds \subseteq quiet)
      BY <1>2 DEF Effects
    <3>2. ds \subseteq quiet
      BY <1>9
    <3> QED BY <1>9, <3>1, <3>2
  <2> QED BY <1>9, <2>1, <2>2, <2>3 DEF Quiet
<1> QED BY <1>8, <1>9 DEF Marked

\* A step with callbacks that marks nobody.
LEMMA CallbackHushes ==
  ASSUME IInv, Marked, NEW ds \in SUBSET Delegations, NEW verdict \in Verdicts,
         NEW q \in [Agents -> Seq(Items)], NEW f \in [Delegations -> Fates],
         Callback(ds, verdict, q, f, silent),
         ds \subseteq Pending, UNCHANGED <<halted, stopped>>,
         \A d \in Delegations : f[d] \in Early => f[d] = fate[d],
         \A a \in Agents : /\ phase'[a] \in Active => phase[a] \in Active /\ (aborted[a] => aborted'[a])
                           /\ Wakes(q[a]) => Wakes(queue[a])
  PROVE  Marked'
<1>1. silent \in SUBSET Delegations
  BY DEF IInv, TypeOK
<1>2. stopped' => /\ Reserved = {} /\ Pending \subseteq silent
                  /\ \A a \in Agents : /\ phase'[a] \in Active => aborted'[a]
                                       /\ ~ Wakes(q[a])
  BY DEF Marked, Quiet
<1> QED BY <1>1, <1>2, CallbackMarks

LEMMA UserSendMarks == ASSUME IInv, Marked, NEW a \in Agents, UserSend(a) PROVE Marked'
<1> USE DEF book
<1>1. fate \in [Delegations -> Fates] /\ Other("user") \in Items /\ queue[a] \in Seq(Items)
  BY ItemFacts DEF IInv, TypeOK
<1>2. \A d \in Delegations : fate[d] \notin Early => fate'[d] \notin Early
  <2>1. "dropped" \notin Early /\ "dropped" \in Fates
    BY DEF Early, Fates
  <2> QED BY <1>1, <2>1, MarkIs DEF UserSend, Put
<1>3. halted \subseteq Delegations
  BY DEF IInv, TypeOK
<1> QED BY <1>2, <1>3, NobodyTold DEF UserSend

LEMMA BatchMarks == ASSUME IInv, Marked, NEW a \in Agents, Batch(a) PROVE Marked'
<1> USE DEF book, seen
<1>1. ~ stopped
  BY DEF Batch, Marked, Quiet
<1> QED BY <1>1, NobodyTold DEF Batch

LEMMA TurnRefusedMarks == ASSUME IInv, Marked, NEW a \in Agents, TurnRefused(a) PROVE Marked'
<1> USE DEF book, seen
<1>1. \A d \in Delegations : fate'[d] = IF d \in Tasks(batch[a]) THEN "unrun" ELSE fate[d]
  BY DEF TurnRefused, Mark
<1>2. \A d \in Delegations : fate'[d] \in Early => fate'[d] = fate[d]
  BY <1>1 DEF Early
<1>3. \A b \in Agents : phase'[b] \in Active => phase[b] \in Active /\ (aborted[b] => aborted'[b])
  BY DEF TurnRefused, Active, IInv, TypeOK
<1>4. halted \subseteq Delegations
  BY DEF IInv, TypeOK
<1>5. Quiet => Quiet'
  <2>1. Reserved = {} => Reserved' = {}
    BY <1>2 DEF Reserved, Early
  <2> QED BY <1>3, <2>1 DEF Quiet, Pending, TurnRefused
<1> QED BY <1>2, <1>4, <1>5, NobodyTold DEF TurnRefused, Marked

LEMMA TurnBeginsMarks == ASSUME IInv, Marked, NEW a \in Agents, TurnBegins(a) PROVE Marked'
<1> USE DEF book, seen
<1>1. ~ stopped
  BY DEF TurnBegins, Marked, Quiet, Active
<1> QED BY <1>1, NobodyTold DEF TurnBegins

LEMMA ReserveMarks ==
  ASSUME IInv, Marked, NEW d \in Delegations, NEW a \in Agents, Reserve(d, a) PROVE Marked'
<1> USE DEF turns, seen
<1>1. ~ stopped /\ fate[d] \in Early
  BY DEF Reserve, MayDelegate, Marked, Quiet, Active, Early
<1>2. \A e \in Delegations : e # d => fate'[e] = fate[e]
  BY DEF Reserve, Mark
<1>3. halted \subseteq Delegations /\ d \notin halted
  BY <1>1 DEF IInv, TypeOK, Marked, Hushed
<1> QED BY <1>1, <1>2, <1>3, NobodyTold DEF Reserve

LEMMA SpawnMarks == ASSUME IInv, Marked, NEW d \in Delegations, Spawn(d) PROVE Marked'
<1> USE DEF turns, book, seen
<1>1. ~ stopped /\ fate[d] \in Early
  BY DEF Spawn, Marked, Quiet, Reserved, Early
<1>2. \A e \in Delegations : e # d => fate'[e] = fate[e]
  BY DEF Spawn, Mark
<1>3. halted \subseteq Delegations /\ d \notin halted
  BY <1>1 DEF IInv, TypeOK, Marked, Hushed
<1> QED BY <1>1, <1>2, <1>3, NobodyTold DEF Spawn

LEMMA SpawnFailsMarks == ASSUME IInv, Marked, NEW d \in Delegations, SpawnFails(d) PROVE Marked'
<1> USE DEF turns, book, seen
<1>1. ~ stopped /\ fate[d] \in Early
  BY DEF SpawnFails, Marked, Quiet, Reserved, Early
<1>2. \A e \in Delegations : e # d => fate'[e] = fate[e]
  BY DEF SpawnFails, Mark
<1>3. halted \subseteq Delegations /\ d \notin halted
  BY <1>1 DEF IInv, TypeOK, Marked, Hushed
<1> QED BY <1>1, <1>2, <1>3, NobodyTold DEF SpawnFails

\* A delegation is sent, or its delivery is refused; no stop has reached it.
LEMMA SendMarks ==
  ASSUME IInv, Marked, NEW d \in Delegations, NEW b \in Agents, fate[d] \in Early, ~ stopped,
         \/ entry' = [entry EXCEPT ![b] = d] /\ Put(b, Task(d), Mark(fate, {d}, "sent"))
         \/ fate' = Mark(fate, {d}, "refused") /\ UNCHANGED entry,
         UNCHANGED <<told, halted, stopped>>, silent \ {d} \subseteq silent'
  PROVE  Marked'
<1>1. halted \subseteq Delegations /\ d \notin halted /\ fate \in [Delegations -> Fates]
  BY DEF IInv, TypeOK, Marked, Hushed
<1>2. \A e \in Delegations : fate[e] \notin Early => fate'[e] \notin Early
  <2>1. {"dropped", "sent", "refused"} \subseteq Fates /\ "dropped" \notin Early /\ "sent" \notin Early
    BY DEF Early, Fates
  <2>2. CASE fate' = Mark(fate, {d}, "refused")
    BY <1>1, <2>1, <2>2, MarkIs
  <2>3. CASE Put(b, Task(d), Mark(fate, {d}, "sent"))
    <3>1. /\ Mark(fate, {d}, "sent") \in [Delegations -> Fates]
          /\ \A e \in Delegations : e # d => Mark(fate, {d}, "sent")[e] = fate[e]
      BY <1>1, <2>1, MarkIs
    <3>2. Mark(fate, {d}, "sent")[d] = "sent"
      BY DEF Mark
    <3> QED BY <2>1, <2>3, <3>1, <3>2, MarkIs DEF Put
  <2> QED BY <2>2, <2>3
<1>3. \A e \in Delegations \ {d} : \A a \in Agents : entry'[a] = e => entry[a] = e
  BY DEF IInv, TypeOK
<1> QED BY <1>1, <1>2, <1>3, NobodyTold

LEMMA ToTeammateMarks ==
  ASSUME IInv, Marked, NEW d \in Delegations, NEW a \in Agents, NEW b \in Agents,
         ToTeammate(d, a, b)
  PROVE  Marked'
<1>1. ~ stopped /\ fate[d] \in Early
  BY DEF ToTeammate, MayDelegate, Marked, Quiet, Active, Early
<1> QED BY <1>1, SendMarks DEF ToTeammate, seen

LEMMA DeliverMarks == ASSUME IInv, Marked, NEW d \in Delegations, Deliver(d) PROVE Marked'
<1>1. ~ stopped /\ fate[d] \in Early /\ d \in Agents
  BY AgentsAre DEF Deliver, Marked, Quiet, Reserved, Early
<1> QED BY <1>1, SendMarks DEF Deliver, seen

\* A turn has ended in the name of its last task.
LEMMA EndMarks ==
  ASSUME IInv, Marked, NEW a \in Agents, NEW verdict \in Verdicts,
         NEW new \in {"resolving", "rejecting"}, phase' = [phase EXCEPT ![a] = new],
         aborted' = [aborted EXCEPT ![a] = FALSE], UNCHANGED <<halted, stopped>>,
         Callback(Answered(a), verdict, queue,
                  Mark(Mark(fate, Tasks(batch[a]), "merged"), Named(a), verdict), silent)
  PROVE  Marked'
<1> DEFINE merged == Mark(fate, Tasks(batch[a]), "merged")
           f == Mark(merged, Named(a), verdict)
<1>1. /\ fate \in [Delegations -> Fates] /\ queue \in [Agents -> Seq(Items)]
      /\ verdict \in Fates /\ "merged" \in Fates /\ "merged" \notin Early /\ verdict \notin Early
  BY DEF IInv, TypeOK, Fates, Verdicts, Early
<1>2. /\ merged \in [Delegations -> Fates]
      /\ \A d \in Delegations : merged[d] = IF d \in Tasks(batch[a]) THEN "merged" ELSE fate[d]
  BY <1>1, MarkIs
<1> HIDE DEF merged
<1>3. /\ f \in [Delegations -> Fates]
      /\ \A d \in Delegations : f[d] = IF d \in Named(a) THEN verdict ELSE merged[d]
  BY <1>1, <1>2, MarkIs
<1>4. Answered(a) \in SUBSET Delegations /\ Answered(a) \subseteq Pending
  BY DEF Answered, Named, Pending
<1>5. \A b \in Agents : phase'[b] \in Active => phase[b] \in Active /\ (aborted[b] => aborted'[b])
  BY DEF Active, IInv, TypeOK
<1>6. Callback(Answered(a), verdict, queue, f, silent)
  BY DEF merged
<1> HIDE DEF f
<1>7. \A d \in Delegations : f[d] \in Early => f[d] = fate[d]
  BY <1>1, <1>2, <1>3
<1> QED BY <1>1, <1>3, <1>4, <1>5, <1>6, <1>7, CallbackHushes

LEMMA InitFailsMarks == ASSUME IInv, Marked, NEW a \in Agents, InitFails(a) PROVE Marked'
BY EndMarks DEF InitFails, seen, Verdicts

LEMMA TurnEndsMarks ==
  ASSUME IInv, Marked, NEW a \in Agents, NEW completed \in BOOLEAN, TurnEnds(a, completed)
  PROVE  Marked'
<1> DEFINE verdict == IF aborted[a] THEN "cancelled" ELSE IF completed THEN "done" ELSE "failed"
           new == IF completed THEN "resolving" ELSE "rejecting"
<1>1. verdict \in Verdicts /\ new \in {"resolving", "rejecting"}
  BY DEF Verdicts
<1>2. /\ phase' = [phase EXCEPT ![a] = new] /\ aborted' = [aborted EXCEPT ![a] = FALSE]
      /\ UNCHANGED <<halted, stopped>>
      /\ Callback(Answered(a), verdict, queue,
                  Mark(Mark(fate, Tasks(batch[a]), "merged"), Named(a), verdict), silent)
  BY DEF TurnEnds, seen
<1> HIDE DEF verdict, new
<1> QED BY <1>1, <1>2, EndMarks

LEMMA SettleMarks == ASSUME IInv, Marked, NEW a \in Agents, Settle(a) PROVE Marked'
<1> DEFINE ds == IF phase[a] = "rejecting" THEN Released(Tasks(batch[a]), silent) ELSE {}
<1>1. /\ fate \in [Delegations -> Fates] /\ queue \in [Agents -> Seq(Items)]
      /\ batch[a] \in Seq(Items) /\ "cancelled" \in Verdicts
  BY DEF IInv, TypeOK, Verdicts
<1>2. ds \in SUBSET Delegations /\ ds \subseteq Pending /\ Callback(ds, "cancelled", queue, fate, silent)
  <2>1. ds \in SUBSET Delegations
    BY <1>1, TasksAre DEF Released
  <2> QED BY <2>1 DEF Settle, Released, Pending
<1>3. /\ UNCHANGED <<halted, stopped>>
      /\ \A b \in Agents : phase'[b] \in Active => phase[b] \in Active /\ (aborted[b] => aborted'[b])
  BY DEF Settle, Active, seen, IInv, TypeOK
<1> HIDE DEF ds
<1> QED BY <1>1, <1>2, <1>3, CallbackHushes

LEMMA AbortMarks ==
  ASSUME IInv, NEW T, Abort(T)
  PROVE  \A a \in Agents : /\ aborted[a] => aborted'[a]
                           /\ a \in T /\ phase[a] \in Active => aborted'[a]
<1>1. \A a \in Agents : aborted'[a] = (aborted[a] \/ (a \in T /\ phase[a] \in {"starting", "turn"}))
  BY Zenon DEF Abort
<1> QED BY <1>1, Zenon DEF Active

\* What the tasks a stop or a removal rejects are called afterwards.
LEMMA RejectedAre ==
  ASSUME IInv, NEW lost, NEW quiet
  PROVE  /\ Rejected(lost, quiet) \in [Delegations -> Fates]
         /\ \A d \in Delegations : Rejected(lost, quiet)[d] \in Early => Rejected(lost, quiet)[d] = fate[d]
<1> DEFINE f == Mark(fate, lost, "dropped")
<1>1. {"dropped", "cut"} \subseteq Fates /\ "dropped" \notin Early /\ "cut" \notin Early
  BY DEF Fates, Early
<1>2. f \in [Delegations -> Fates] /\ \A d \in Delegations : f[d] = IF d \in lost THEN "dropped" ELSE fate[d]
  BY <1>1, MarkIs DEF IInv, TypeOK
<1>3. Rejected(lost, quiet) = Mark(f, lost \cap quiet, "cut")
  BY DEF Rejected
<1> HIDE DEF f
<1> QED BY <1>1, <1>2, <1>3, MarkIs

LEMMA ClearMarks ==
  ASSUME IInv, Marked, NEW T \in SUBSET Agents, Clear(T), UNCHANGED <<phase, halted, stopped>>
  PROVE  Marked'
<1> DEFINE lost == UNION {Tasks(queue[a]) : a \in T}
           q == [a \in Agents |-> IF a \in T THEN <<>> ELSE queue[a]]
<1>1. queue \in [Agents -> Seq(Items)] /\ "cancelled" \in Verdicts
  BY DEF IInv, TypeOK, Verdicts
<1>2. /\ Abort(T)
      /\ Callback(Released(lost, silent), "cancelled", q, Rejected(lost, silent), silent)
  BY DEF Clear
<1>3. q \in [Agents -> Seq(Items)] /\ \A a \in Agents : Wakes(q[a]) => Wakes(queue[a])
  <2>1. <<>> \in Seq(Items) /\ ~ Wakes(<<>>)
    BY DEF Wakes
  <2>2. q \in [Agents -> Seq(Items)] /\ \A a \in Agents : q[a] = <<>> \/ q[a] = queue[a]
    BY <1>1, <2>1
  <2> HIDE DEF q
  <2>3. \A a \in Agents : q[a] = <<>> => ~ Wakes(q[a])
    BY <2>1
  <2> QED BY <2>2, <2>3
<1>4. lost \subseteq Delegations
  <2>1. \A a \in T : Tasks(queue[a]) \subseteq Delegations
    BY <1>1, TasksAre
  <2> QED BY <2>1
<1> HIDE DEF lost, q
<1>5. Released(lost, silent) \in SUBSET Delegations /\ Released(lost, silent) \subseteq Pending
  BY <1>4 DEF Released, Pending
<1>6. \A a \in Agents : phase'[a] \in Active => phase[a] \in Active /\ (aborted[a] => aborted'[a])
  BY <1>2, AbortMarks
<1> QED BY <1>1, <1>2, <1>3, <1>5, <1>6, RejectedAre, CallbackHushes

LEMMA InterruptMarks == ASSUME IInv, Marked, NEW a \in Agents, Interrupt(a) PROVE Marked'
<1> USE DEF seen
<1>1. CASE Abort({a}) /\ UNCHANGED <<queue, book, fate, told>>
  <2>1. Quiet => Quiet'
    BY <1>1, AbortMarks DEF Quiet, Reserved, Pending, Interrupt, book
  <2> QED BY <1>1, <2>1, NobodyTold DEF Interrupt, book, Marked
<1>2. CASE Clear({a})
  <2>1. {a} \in SUBSET Agents /\ UNCHANGED <<phase, halted, stopped>>
    BY DEF Interrupt
  <2> QED BY <1>2, <2>1, ClearMarks
<1> QED BY <1>1, <1>2 DEF Interrupt

LEMMA CancelMarks == ASSUME IInv, Marked, NEW c \in Agents, Cancel(c) PROVE Marked'
<1>1. Subtree(c) \in SUBSET Agents
  BY SubtreeAgents
<1> QED BY <1>1, ClearMarks DEF Cancel, seen

LEMMA DisposeMarks == ASSUME IInv, Marked, NEW c \in Agents, Dispose(c) PROVE Marked'
<1>1. {c} \in SUBSET Agents
  OBVIOUS
<1> QED BY <1>1, ClearMarks DEF Dispose, seen

LEMMA CloseGateMarks ==
  ASSUME IInv, Marked, NEW kind \in Agents \cup {"checkpoint"}, CloseGate(kind) PROVE Marked'
<1> DEFINE E == Delegations \cap (IF kind = "checkpoint" THEN live ELSE Subtree(kind))
<1>1. E \in SUBSET Agents /\ Clear(E) /\ UNCHANGED <<phase, halted, stopped>>
  BY AgentsAre DEF CloseGate, seen
<1> HIDE DEF E
<1> QED BY <1>1, ClearMarks

LEMMA ClearResidentsMarks == ASSUME IInv, Marked, ClearResidents PROVE Marked'
<1>1. Concerned \in SUBSET Agents
  BY SubtreeAgents DEF Concerned, IInv, TypeOK
<1> QED BY <1>1, ClearMarks DEF ClearResidents, seen

LEMMA RemovalMarks ==
  ASSUME IInv, Marked, NEW R \in SUBSET Agents, UNCHANGED <<phase, aborted, halted, stopped>>,
         Callback({entry[c] : c \in R} \ {None}, "cancelled", queue, fate, silent)
  PROVE  Marked'
<1> DEFINE ds == {entry[c] : c \in R} \ {None}
<1>1. "cancelled" \in Verdicts /\ queue \in [Agents -> Seq(Items)] /\ fate \in [Delegations -> Fates]
  BY DEF IInv, TypeOK, Verdicts
<1>2. ds \in SUBSET Delegations /\ Callback(ds, "cancelled", queue, fate, silent)
  BY DEF IInv, TypeOK
<1>3. ds \subseteq Pending
  BY <1>2 DEF Pending
<1> HIDE DEF ds
<1> QED BY <1>1, <1>2, <1>3, CallbackHushes

LEMMA GoneMarks == ASSUME IInv, Marked, NEW c \in Agents, Gone(c) PROVE Marked'
<1>1. {entry[c]} \ {None} = {entry[x] : x \in {c}} \ {None}
  OBVIOUS
<1>2. {c} \in SUBSET Agents /\ UNCHANGED <<phase, aborted, halted, stopped>>
  BY DEF Gone, seen
<1>3. Callback({entry[x] : x \in {c}} \ {None}, "cancelled", queue, fate, silent)
  BY <1>1 DEF Gone
<1> QED BY <1>2, <1>3, RemovalMarks

LEMMA OpenGateMarks == ASSUME IInv, Marked, OpenGate PROVE Marked'
<1> DEFINE R == live \ live'
<1>1. R \in SUBSET Agents /\ UNCHANGED <<phase, aborted, halted, stopped>>
  BY DEF IInv, TypeOK, OpenGate, seen
<1>2. Callback({entry[x] : x \in R} \ {None}, "cancelled", queue, fate, silent)
  BY DEF OpenGate
<1> HIDE DEF R
<1> QED BY <1>1, <1>2, RemovalMarks

\* Whom a stop reaches: the targets are in the tree with everybody the map leads
\* to from them, and their delegations and those that wait for them are marked.
LEMMA TargetsAre ==
  ASSUME IInv, NEW S \in SUBSET Agents, S \subseteq live
  PROVE  /\ S \subseteq Targets(S) /\ Targets(S) \subseteq live
         /\ Reach(S, Below) \subseteq Targets(S)
<1> DEFINE T == Targets(S)
<1>1. live \in SUBSET Agents /\ AtRest
  BY DEF IInv, TypeOK
<1>2. \A a \in T : \A C \in SUBSET Agents :
        S \subseteq C /\ (\A c \in C : Delegates(c) \subseteq C) => a \in C
  BY DEF Targets, Reach
<1>3. S \subseteq T
  BY DEF Targets, Reach
<1>4. T \subseteq live
  <2>1. \A c \in live : Delegates(c) \subseteq live
    BY DEF Delegates
  <2> HIDE DEF T
  <2> QED BY <1>1, <1>2, <2>1
<1>5. ASSUME NEW a \in T PROVE Delegates(a) \subseteq T
  <2>1. \A C \in SUBSET Agents :
          S \subseteq C /\ (\A c \in C : Delegates(c) \subseteq C) => Delegates(a) \subseteq C
    <3> HIDE DEF T
    <3> QED BY <1>2
  <2>2. Delegates(a) \subseteq Agents
    BY <1>1 DEF Delegates
  <2> QED BY <2>1, <2>2 DEF Targets, Reach
<1> HIDE DEF T
<1>6. \A a \in T : Below(a) \subseteq T
  <2>1. \A a : Below(a) \subseteq Delegates(a)
    BY <1>1 DEF Below, Delegates, AtRest
  <2> QED BY <1>5, <2>1
<1>7. T \in SUBSET Agents
  BY <1>1, <1>4
<1>8. Reach(S, Below) \subseteq T
  BY <1>3, <1>6, <1>7 DEF Reach
<1> QED BY <1>3, <1>4, <1>8 DEF T

LEMMA StopMarks ==
  ASSUME IInv, Marked, NEW S \in SUBSET Agents, S \subseteq live, Stop(S) PROVE Marked'
<1> DEFINE T == Targets(S)
           quiet == silent \cup Silenced(T)
           lost == UNION {Tasks(queue[b]) : b \in T}
           q == [b \in Agents |-> IF b \in T THEN Calmed(queue[b]) ELSE queue[b]]
<1>1. TypeOK /\ AtRest /\ "cancelled" \in Verdicts /\ UNCHANGED phase
  BY DEF IInv, Verdicts, Stop
<1>2. /\ T \in SUBSET Agents /\ quiet \in SUBSET Delegations
      /\ q \in [Agents -> Seq(Items)]
      /\ \A b \in Agents : /\ Tasks(q[b]) = IF b \in T THEN {} ELSE Tasks(queue[b])
                           /\ Wakes(q[b]) => /\ Wakes(queue[b])
                                             /\ b \in T => Other("user") \in ToSet(queue[b])
      /\ Abort(T)
      /\ Callback(Released(lost, quiet), "cancelled", q, Rejected(lost, quiet), quiet)
  BY StopFacts
<1>3. S \subseteq T /\ T \subseteq live /\ Reach(S, Below) \subseteq T
  BY TargetsAre
<1>4. halted' = halted \cup {d \in Pending : \E b \in Reach(S, Below) : entry[b] = d \/ from[d] = b}
  BY DEF Stop
<1>5. stopped' => S = live /\ Reserved = {} /\ \A b \in live : Other("user") \notin ToSet(queue[b])
  BY Zenon DEF Stop
<1>6. Released(lost, quiet) \in SUBSET Delegations /\ Released(lost, quiet) \subseteq Pending
  <2>1. lost \subseteq Delegations
    <3>1. \A b \in T : queue[b] \in Seq(Items)
      BY <1>1, <1>2 DEF TypeOK
    <3> HIDE DEF T
    <3> QED BY <3>1, TasksAre
  <2> QED BY <2>1 DEF Released, Pending
<1>7. \A d \in Pending : from[d] \in T \/ (\E b \in T : entry[b] = d) => d \in quiet
  BY <1>3 DEF Silenced
<1> HIDE DEF T, quiet, lost, q
<1>8. \A d \in halted' \ halted : d \in Pending \cap quiet
  BY <1>3, <1>4, <1>7
<1>9. ASSUME stopped'
      PROVE  /\ Reserved = {} /\ Pending \subseteq quiet
             /\ \A a \in Agents : /\ phase'[a] \in Active => aborted'[a]
                                  /\ ~ Wakes(q[a])
  <2>1. S = live /\ Reserved = {} /\ \A b \in live : Other("user") \notin ToSet(queue[b])
    BY <1>5, <1>9
  <2>2. T = live
    BY <1>3, <2>1
  <2>3. Pending \subseteq quiet
    <3>1. \A d \in Pending : \E b \in live : entry[b] = d
      BY <1>1, AgentsAre DEF Pending, AtRest
    <3> QED BY <1>7, <2>2, <3>1 DEF Pending
  <2>4. ASSUME NEW a \in Agents PROVE (phase'[a] \in Active => aborted'[a]) /\ ~ Wakes(q[a])
    <3>1. CASE a \in live
      <4>1. phase[a] \in Active => aborted'[a]
        BY <1>2, <2>2, <3>1, AbortMarks
      <4>2. ~ Wakes(q[a])
        BY <1>2, <2>1, <2>2, <3>1
      <4> QED BY <1>1, <4>1, <4>2
    <3>2. CASE a \notin live
      BY <1>1, <1>2, <3>2 DEF AtRest, Active
    <3> QED BY <3>1, <3>2
  <2> QED BY <2>1, <2>3, <2>4
<1>10. silent \subseteq quiet
  BY DEF quiet
<1> QED BY <1>1, <1>2, <1>6, <1>8, <1>9, <1>10, RejectedAre, CallbackMarks

LEMMA InitMarks == Init => Marked
BY DEF Init, Marked

LEMMA NextMarks == IInv /\ Marked /\ [Next]_vars => Marked'
<1> SUFFICES ASSUME IInv, Marked, [Next]_vars PROVE Marked'
  OBVIOUS
<1>1. CASE UNCHANGED vars
  BY <1>1 DEF Marked, Hushed, Quiet, Reserved, Pending, vars, turns, book, seen
<1>2. ASSUME NEW a \in Agents, UserSend(a) PROVE Marked'
  BY <1>2, UserSendMarks
<1>3. ASSUME NEW a \in Agents, Batch(a) PROVE Marked'
  BY <1>3, BatchMarks
<1>4. ASSUME NEW a \in Agents, InitFails(a) PROVE Marked'
  BY <1>4, InitFailsMarks
<1>5. ASSUME NEW a \in Agents, TurnRefused(a) PROVE Marked'
  BY <1>5, TurnRefusedMarks
<1>6. ASSUME NEW a \in Agents, TurnBegins(a) PROVE Marked'
  BY <1>6, TurnBeginsMarks
<1>7. ASSUME NEW a \in Agents, NEW completed \in BOOLEAN, TurnEnds(a, completed) PROVE Marked'
  BY <1>7, TurnEndsMarks
<1>8. ASSUME NEW a \in Agents, Settle(a) PROVE Marked'
  BY <1>8, SettleMarks
<1>9. ASSUME NEW a \in Agents, Interrupt(a) PROVE Marked'
  BY <1>9, InterruptMarks
<1>10. ASSUME NEW a \in Agents, Cancel(a) PROVE Marked'
  BY <1>10, CancelMarks
<1>11. ASSUME NEW a \in Agents, Dispose(a) PROVE Marked'
  BY <1>11, DisposeMarks
<1>12. ASSUME NEW a \in Agents, Gone(a) PROVE Marked'
  BY <1>12, GoneMarks
<1>13. ASSUME NEW a \in Agents, NEW d \in Delegations, Reserve(d, a) PROVE Marked'
  BY <1>13, ReserveMarks
<1>14. ASSUME NEW a \in Agents, NEW d \in Delegations, NEW b \in Agents, ToTeammate(d, a, b)
       PROVE  Marked'
  BY <1>14, ToTeammateMarks
<1>15. ASSUME NEW a \in Agents, a \in live, Stop({a}) PROVE Marked'
  <2>1. {a} \in SUBSET Agents /\ {a} \subseteq live
    BY <1>15
  <2> QED BY <1>15, <2>1, StopMarks
<1>16. ASSUME NEW kind \in Agents \cup {"checkpoint"}, CloseGate(kind) PROVE Marked'
  BY <1>16, CloseGateMarks
<1>17. ASSUME NEW d \in Delegations, Spawn(d) PROVE Marked'
  BY <1>17, SpawnMarks
<1>18. ASSUME NEW d \in Delegations, SpawnFails(d) PROVE Marked'
  BY <1>18, SpawnFailsMarks
<1>19. ASSUME NEW d \in Delegations, Deliver(d) PROVE Marked'
  BY <1>19, DeliverMarks
<1>20. CASE Stop(live)
  <2>1. live \in SUBSET Agents
    BY DEF IInv, TypeOK
  <2> QED BY <1>20, <2>1, StopMarks
<1>21. CASE ClearResidents
  BY <1>21, ClearResidentsMarks
<1>22. CASE OpenGate
  BY <1>22, OpenGateMarks
<1> QED
  BY <1>1, <1>2, <1>3, <1>4, <1>5, <1>6, <1>7, <1>8, <1>9, <1>10, <1>11, <1>12, <1>13, <1>14,
     <1>15, <1>16, <1>17, <1>18, <1>19, <1>20, <1>21, <1>22, Zenon DEF Next

\* A stop of the user holds: what it reached over the delegations, through any
\* number of agents, calls back without waking anybody, and after a stop of
\* everything no turn runs and none is about to, until the user speaks again
\* (stopRuntime, stopTurn).
THEOREM StopsSilence == Spec => []StopSilences
<1>1. Init => Marked
  BY InitMarks
<1>2. IInv /\ Marked /\ [Next]_vars => Marked'
  BY NextMarks
<1>3. Marked => StopSilences
  BY Zenon DEF Marked, Hushed, Quiet, StopSilences, Active
<1> QED BY <1>1, <1>2, <1>3, Invariance, PTL DEF Spec

-----------------------------------------------------------------------------
(* Nothing is forgotten                                                    *)

Unmade == {"new", "reserved"}
Over == Verdicts \cup {"merged", "unrun"}
Ending == {"resolving", "rejecting"}

\* A child exists for its own delegation, whose task no other agent has; with its
\* task, or with another one it has a record of, its turn is over, and it leaves.
\* No record remains of a task that was cut off.  Of any children there is one
\* that has no child among them.
Parting ==
  /\ \A d \in Delegations :
       /\ d \in live \/ (\E x \in Delegations : from[x] = d) => fate[d] \notin Unmade
       /\ d \in live => \A a \in Agents : At(d, a) => a = d
       /\ fate[d] = "cut" => \A a \in Agents : entry[a] # d
       /\ fate[d] \in Over => \A a \in Ephemerals : a = d \/ entry[a] = d
                                                      => a \in closing \/ phase[a] \in Ending
  /\ \A C \in SUBSET Ephemerals : C # {} => \E c \in C : \A x \in C : from[x] # c

\* What a step may do to a delegation and its task: a task moves only when it is
\* sent, a record comes with it, and only a turn's end makes it over.
Proceeds(d) ==
  /\ fate'[d] \in Unmade => fate[d] \in Unmade
  /\ \A a \in Agents : /\ At(d, a)' => At(d, a) \/ fate[d] = "new" \/ a = d
                       /\ entry'[a] = d => entry[a] = d \/ fate'[d] \notin Over \cup {"cut"}
  /\ fate'[d] = "cut" => fate[d] = "cut" \/ \A a \in Agents : entry'[a] # d
  /\ fate'[d] \in Over => fate[d] \in Over \/ \E b \in Agents : At(d, b) /\ phase'[b] \in Ending

\* The step leaves the tree as it is or takes agents out of it; who delegates is at
\* work, and who has ended a turn leaves.
Leads ==
  /\ live' \subseteq live /\ closing \subseteq closing'
  /\ \A x \in Delegations :
       from'[x] = from[x] \/ (fate[x] = "new" /\ from'[x] \in Agents /\ phase[from'[x]] = "turn")
  /\ \A a \in Delegations : phase[a] \in Ending => phase'[a] \in Ending \/ a \in closing'

LEMMA PartingKeeps ==
  ASSUME IInv, Parting, Leads, \A d \in Delegations : Proceeds(d)
  PROVE  Parting'
<1>1. TypeOK /\ AtRest /\ OnePlace
  BY DEF IInv
<1>2. ASSUME NEW d \in Delegations, d \in live' \/ (\E x \in Delegations : from'[x] = d)
      PROVE  fate'[d] \notin Unmade
  <2>1. fate[d] \notin Unmade
    <3>1. CASE d \in live'
      BY <3>1 DEF Parting, Leads
    <3>2. ASSUME NEW x \in Delegations, from'[x] = d PROVE fate[d] \notin Unmade
      <4>1. CASE from[x] = d
        BY <4>1 DEF Parting
      <4>2. CASE phase[d] = "turn"
        <5>1. d \in live
          BY <1>1, <4>2, AgentsAre DEF AtRest
        <5> QED BY <5>1 DEF Parting
      <4> QED BY <3>2, <4>1, <4>2 DEF Leads
    <3> QED BY <1>2, <3>1, <3>2
  <2> QED BY <2>1 DEF Proceeds
<1>3. ASSUME NEW d \in Delegations, d \in live', NEW a \in Agents, At(d, a)'
      PROVE  a = d
  <2>1. d \in live /\ fate[d] # "new"
    BY <1>3 DEF Leads, Parting, Unmade
  <2> QED BY <1>3, <2>1 DEF Proceeds, Parting
<1>4. ASSUME NEW d \in Delegations, fate'[d] = "cut", NEW a \in Agents
      PROVE  entry'[a] # d
  BY <1>4 DEF Proceeds, Parting
<1>5. ASSUME NEW d \in Delegations, fate'[d] \in Over, NEW a \in Ephemerals',
             a = d \/ entry'[a] = d
      PROVE  a \in closing' \/ phase'[a] \in Ending
  <2>1. a \in Ephemerals /\ a \in Agents /\ a \in Delegations
    BY <1>5, AgentsAre DEF Ephemerals, Leads
  <2>2. a = d \/ entry[a] = d
    BY <1>5, <2>1 DEF Proceeds
  <2>3. CASE fate[d] \in Over
    <3>1. a \in closing \/ phase[a] \in Ending
      BY <2>1, <2>2, <2>3 DEF Parting
    <3> QED BY <2>1, <3>1 DEF Leads
  <2>4. CASE fate[d] \notin Over
    <3>1. PICK b \in Agents : At(d, b) /\ phase'[b] \in Ending
      BY <1>5, <2>4 DEF Proceeds
    <3>2. CASE a = d
      <4>1. b = d
        BY <2>1, <3>1, <3>2 DEF Parting, Ephemerals
      <4> QED BY <3>1, <3>2, <4>1
    <3>3. CASE entry[a] = d
      <4>1. b = a
        BY <1>1, <2>1, <3>1, <3>3 DEF OnePlace
      <4> QED BY <3>1, <4>1
    <3> QED BY <2>2, <3>2, <3>3
  <2> QED BY <2>3, <2>4
<1>6. ASSUME NEW C \in SUBSET Ephemerals', C # {}
      PROVE  \E c \in C : \A x \in C : from'[x] # c
  <2>1. C \in SUBSET Ephemerals
    BY DEF Ephemerals, Leads
  <2>2. \A x \in C : from'[x] = from[x]
    <3>1. \A x \in C : x \in Delegations /\ fate[x] # "new"
      BY <2>1 DEF Ephemerals, Parting, Unmade
    <3> QED BY <3>1 DEF Leads
  <2>3. PICK c \in C : \A x \in C : from[x] # c
    BY <1>6, <2>1 DEF Parting
  <2> QED BY <2>2, <2>3
<1> QED BY <1>2, <1>3, <1>4, <1>5, <1>6 DEF Parting

\* What a callback leaves of queues and records; it tells of the fates f.
LEMMA CallbackProceeds ==
  ASSUME IInv, NEW ds \in SUBSET Delegations, NEW verdict \in Verdicts,
         NEW q \in [Agents -> Seq(Items)], NEW f \in [Delegations -> Fates],
         NEW quiet \in SUBSET Delegations, Callback(ds, verdict, q, f, quiet),
         \A a \in Agents : /\ Tasks(q[a]) \subseteq Tasks(queue[a])
                           /\ Tasks(batch'[a]) \subseteq Tasks(batch[a]),
         NEW d \in Delegations,
         f[d] \in Unmade => fate[d] \in Unmade,
         f[d] = "cut" => fate[d] = "cut" \/ d \in ds \/ \A a \in Agents : entry[a] # d,
         f[d] \in Over => fate[d] \in Over \/ \E b \in Agents : At(d, b) /\ phase'[b] \in Ending
  PROVE  Proceeds(d)
<1>1. TypeOK /\ d # None
  BY DelegationAssumption DEF IInv
<1>2. Effects(ds, verdict, q, f, quiet)
  BY <1>1, CallbackFacts
<1>3. \A a \in Agents : /\ entry'[a] = d => entry[a] = d /\ d \notin ds
                        /\ At(d, a)' => At(d, a)
  <2>1. \A a \in Agents : entry'[a] = IF entry[a] \in ds THEN None ELSE entry[a]
    BY <1>2 DEF Effects
  <2>2. \A a \in Agents : Tasks(queue'[a]) \subseteq Tasks(q[a])
    BY <1>2 DEF Effects
  <2>3. ASSUME NEW a \in Agents, At(d, a)' PROVE At(d, a)
    BY <2>2, <2>3 DEF At
  <2> QED BY <1>1, <2>1, <2>3
<1>4. fate'[d] = f[d] \/ fate'[d] = "dropped"
  BY <1>2 DEF Effects
<1>5. "dropped" \notin Unmade \cup Over \cup {"cut"}
  BY DEF Unmade, Over, Verdicts
<1> QED BY <1>3, <1>4, <1>5 DEF Proceeds

\* The step does nothing to tasks and records.
LEMMA StillProceeds ==
  ASSUME NEW d \in Delegations, UNCHANGED <<queue, batch, entry>>,
         fate'[d] = fate[d] \/ (fate'[d] \notin Over \cup {"cut"} /\ (fate'[d] \in Unmade => fate[d] \in Unmade))
  PROVE  Proceeds(d)
BY DEF Proceeds, At

LEMMA UserSendParting == ASSUME IInv, Parting, NEW a \in Agents, UserSend(a) PROVE Parting'
<1> USE DEF agents, book, hold
<1>1. /\ TypeOK /\ Put(a, Other("user"), fate) /\ fate \in [Delegations -> Fates]
      /\ UNCHANGED <<live, closing, batch, phase, entry, from>>
  BY DEF IInv, TypeOK, UserSend
<1>2. Other("user") \in Items /\ \A d : Other("user") # Task(d)
  BY ItemFacts
<1>3. ASSUME NEW d \in Delegations PROVE Proceeds(d)
  <2>1. \A b \in Agents : d \in Tasks(queue'[b]) => d \in Tasks(queue[b])
    BY <1>1, <1>2, PutFacts
  <2>2. fate'[d] = fate[d] \/ fate'[d] = "dropped"
    BY <1>1, <1>2, PutFacts
  <2>3. \A b \in Agents : At(d, b)' => At(d, b)
    BY <1>1, <2>1 DEF At
  <2> QED BY <1>1, <2>2, <2>3 DEF Proceeds, Unmade, Over, Verdicts
<1> QED BY <1>1, <1>3, PartingKeeps DEF Leads

LEMMA BatchParting == ASSUME IInv, Parting, NEW a \in Agents, Batch(a) PROVE Parting'
<1> USE DEF agents, book
<1>1. TypeOK /\ UNCHANGED <<live, closing, entry, from, fate>>
  BY DEF IInv, Batch
<1>2. /\ queue'[a] = <<>> /\ batch'[a] = queue[a] /\ phase[a] = "idle"
      /\ \A b \in Agents : b # a => /\ queue'[b] = queue[b] /\ batch'[b] = batch[b]
                                    /\ phase'[b] = phase[b]
  BY <1>1 DEF Batch, TypeOK
<1>3. ASSUME NEW d \in Delegations PROVE Proceeds(d)
  <2>1. Tasks(<<>>) = {}
    BY DEF Tasks, ToSet
  <2>2. \A b \in Agents : At(d, b)' => At(d, b)
    BY <1>2, <2>1 DEF At
  <2> QED BY <1>1, <2>2 DEF Proceeds
<1>4. \A b \in Delegations : phase[b] \in Ending => phase'[b] \in Ending
  BY <1>2, AgentsAre DEF Ending
<1> QED BY <1>1, <1>3, <1>4, PartingKeeps DEF Leads

LEMMA TurnBeginsParting ==
  ASSUME IInv, Parting, NEW a \in Agents, TurnBegins(a) PROVE Parting'
<1> USE DEF agents, book
<1>1. UNCHANGED <<live, closing, queue, batch, entry, from, fate>>
  BY DEF TurnBegins
<1>2. \A b \in Delegations : phase[b] \in Ending => phase'[b] \in Ending
  BY AgentsAre DEF IInv, TypeOK, TurnBegins, Ending
<1>3. \A d \in Delegations : Proceeds(d)
  BY <1>1, StillProceeds
<1> QED BY <1>1, <1>2, <1>3, PartingKeeps DEF Leads

LEMMA TurnRefusedParting ==
  ASSUME IInv, Parting, NEW a \in Agents, TurnRefused(a) PROVE Parting'
<1> USE DEF agents, book
<1>1. TypeOK /\ UNCHANGED <<live, closing, queue, batch, entry, from>>
  BY DEF IInv, TurnRefused
<1>2. \A d \in Delegations : fate'[d] = IF d \in Tasks(batch[a]) THEN "unrun" ELSE fate[d]
  <2>1. /\ fate' = Mark(fate, Tasks(batch[a]), "unrun")
        /\ "unrun" \in Fates /\ fate \in [Delegations -> Fates]
    BY <1>1 DEF TurnRefused, TypeOK, Fates
  <2> QED BY <2>1, MarkIs
<1>3. phase'[a] = "rejecting" /\ \A b \in Agents : b # a => phase'[b] = phase[b]
  BY <1>1 DEF TurnRefused, TypeOK
<1>4. \A b \in Delegations : phase[b] \in Ending => phase'[b] \in Ending
  BY <1>3, AgentsAre DEF Ending
<1>5. ASSUME NEW d \in Delegations PROVE Proceeds(d)
  <2>1. \A b \in Agents : At(d, b)' <=> At(d, b)
    BY <1>1 DEF At
  <2>2. d \in Tasks(batch[a]) => At(d, a) /\ phase'[a] \in Ending
    BY <1>3 DEF At, Ending
  <2>3. "unrun" \notin Unmade \cup {"cut"}
    BY DEF Unmade
  <2> QED BY <1>1, <1>2, <2>1, <2>2, <2>3 DEF Proceeds
<1> QED BY <1>1, <1>4, <1>5, PartingKeeps DEF Leads

\* The tool moves on with a delegation that has not been sent.
LEMMA EarlyProceeds ==
  ASSUME IInv, NEW d \in Delegations, fate[d] \in Early, NEW value \in Early,
         value \in Unmade => fate[d] \in Unmade,
         fate' = Mark(fate, {d}, value), UNCHANGED <<queue, batch, entry>>
  PROVE  \A e \in Delegations : Proceeds(e)
<1>1. value \in Fates /\ fate \in [Delegations -> Fates] /\ value \notin Over \cup {"cut"}
  BY DEF IInv, TypeOK, Early, Fates, Over, Verdicts
<1>2. \A e \in Delegations : fate'[e] = IF e = d THEN value ELSE fate[e]
  BY <1>1, MarkIs
<1> QED BY <1>1, <1>2, StillProceeds

LEMMA ReserveParting ==
  ASSUME IInv, Parting, NEW d \in Delegations, NEW a \in Agents, Reserve(d, a) PROVE Parting'
<1> USE DEF agents, turns
<1>1. /\ UNCHANGED <<live, closing, queue, batch, phase, entry>>
      /\ fate[d] = "new" /\ phase[a] = "turn" /\ fate' = Mark(fate, {d}, "reserved")
      /\ from \in [Delegations -> Agents \cup {None}] /\ from' = [from EXCEPT ![d] = a]
  BY DEF Reserve, MayDelegate, IInv, TypeOK
<1>2. \A e \in Delegations : Proceeds(e)
  <2>1. fate[d] \in Early \cap Unmade /\ "reserved" \in Early
    BY <1>1 DEF Early, Unmade
  <2> QED BY <1>1, <2>1, EarlyProceeds
<1> QED BY <1>1, <1>2, PartingKeeps DEF Leads

LEMMA SpawnFailsParting ==
  ASSUME IInv, Parting, NEW d \in Delegations, SpawnFails(d) PROVE Parting'
<1> USE DEF agents, turns, book
<1>1. /\ UNCHANGED <<live, closing, queue, batch, phase, entry, from>>
      /\ fate[d] \in Early /\ "refused" \in Early /\ "refused" \notin Unmade
      /\ fate' = Mark(fate, {d}, "refused")
  BY DEF SpawnFails, Early, Unmade
<1>2. \A e \in Delegations : Proceeds(e)
  BY <1>1, EarlyProceeds
<1> QED BY <1>1, <1>2, PartingKeeps DEF Leads

\* A child is born: it has no children, no record and no task.
LEMMA SpawnParting == ASSUME IInv, Parting, NEW d \in Delegations, Spawn(d) PROVE Parting'
<1> USE DEF turns, book
<1>1. /\ UNCHANGED <<closing, queue, batch, phase, entry, from>> /\ live' = live \cup {d}
      /\ fate[d] = "reserved" /\ "spawned" \notin Unmade \cup Over \cup {"cut"}
      /\ TypeOK /\ AtRest /\ FateShows /\ d \in Agents /\ d # None
  BY AgentsAre DEF Spawn, IInv, Unmade, Over, Verdicts
<1>2. \A e \in Delegations : fate'[e] = IF e = d THEN "spawned" ELSE fate[e]
  <2>1. /\ fate' = Mark(fate, {d}, "spawned")
        /\ "spawned" \in Fates /\ fate \in [Delegations -> Fates]
    BY <1>1 DEF Spawn, TypeOK, Fates
  <2>2. \A e \in Delegations : fate'[e] = IF e \in {d} THEN "spawned" ELSE fate[e]
    BY <2>1, MarkIs
  <2> QED BY <2>2
<1>3. \A a, e : At(e, a)' <=> At(e, a)
  BY <1>1 DEF At
<1>4. d \notin live /\ \A x \in Delegations : from[x] # d
  BY <1>1 DEF Parting, Unmade
<1>5. entry[d] = None /\ \A a \in Agents : ~ At(d, a)
  BY <1>1, <1>4 DEF AtRest, FateShows, Early
<1>6. Ephemerals' = Ephemerals \cup {d} /\ d \notin Ephemerals
  BY <1>1, <1>4 DEF Ephemerals
<1>7. ASSUME NEW e \in Delegations
      PROVE  /\ e \in live' \/ (\E x \in Delegations : from'[x] = e) => fate'[e] \notin Unmade
             /\ e \in live' => \A a \in Agents : At(e, a)' => a = e
             /\ fate'[e] = "cut" => \A a \in Agents : entry'[a] # e
  BY <1>1, <1>2, <1>3, <1>5 DEF Parting
<1>8. ASSUME NEW e \in Delegations, fate'[e] \in Over, NEW a \in Ephemerals',
             a = e \/ entry'[a] = e
      PROVE  a \in closing' \/ phase'[a] \in Ending
  <2>1. e # d /\ fate[e] \in Over
    BY <1>1, <1>2, <1>8
  <2>2. a # d
    BY <1>1, <1>5, <1>8, <2>1, AgentsAre
  <2>3. a \in Ephemerals /\ (a = e \/ entry[a] = e)
    BY <1>1, <1>6, <1>8, <2>2
  <2> QED BY <1>1, <2>1, <2>3 DEF Parting
<1>9. ASSUME NEW C \in SUBSET Ephemerals', C # {}
      PROVE  \E c \in C : \A x \in C : from'[x] # c
  <2>1. CASE d \in C
    <3>1. \A x \in C : from'[x] # d
      BY <1>1, <1>4 DEF Ephemerals
    <3> QED BY <2>1, <3>1
  <2>2. CASE d \notin C
    <3>1. C \in SUBSET Ephemerals
      BY <1>6, <2>2
    <3> QED BY <1>1, <1>9, <3>1 DEF Parting
  <2> QED BY <2>1, <2>2
<1> QED BY <1>7, <1>8, <1>9 DEF Parting

\* A task is sent with its record.
LEMMA SendProceeds ==
  ASSUME IInv, NEW d \in Delegations, NEW b \in Agents, fate[d] = "new" \/ b = d,
         entry' = [entry EXCEPT ![b] = d], Put(b, Task(d), Mark(fate, {d}, "sent")),
         UNCHANGED batch
  PROVE  \A e \in Delegations : Proceeds(e)
<1> DEFINE f == Mark(fate, {d}, "sent")
<1>1. /\ TypeOK /\ fate \in [Delegations -> Fates] /\ "sent" \in Fates
      /\ {"sent", "dropped"} \cap (Unmade \cup Over \cup {"cut"}) = {}
  BY DEF IInv, TypeOK, Fates, Unmade, Over, Verdicts
<1>2. f \in [Delegations -> Fates] /\ \A e \in Delegations : f[e] = IF e = d THEN "sent" ELSE fate[e]
  BY <1>1, MarkIs
<1>3. Task(d) \in Items /\ \A e \in Delegations : Task(d) = Task(e) <=> e = d
  BY ItemFacts
<1>4. Put(b, Task(d), f)
  OBVIOUS
<1> HIDE DEF f
<1>5. ASSUME NEW e \in Delegations PROVE Proceeds(e)
  <2>1. e # d => (e \in Tasks(queue'[b]) => e \in Tasks(queue[b]))
    BY <1>1, <1>2, <1>3, <1>4, PutFacts
  <2>2. \A a \in Agents : a # b => queue'[a] = queue[a]
    BY <1>1, <1>2, <1>3, <1>4, PutFacts
  <2>3. fate'[e] = f[e] \/ fate'[e] = "dropped"
    BY <1>1, <1>2, <1>3, <1>4, PutFacts
  <2>4. \A a \in Agents : At(e, a)' => At(e, a) \/ fate[e] = "new" \/ a = e
    BY <2>1, <2>2 DEF At
  <2>5. fate'[e] \in Over \cup {"cut"} \cup Unmade => fate'[e] = fate[e] /\ e # d
    BY <1>1, <1>2, <2>3
  <2>6. \A a \in Agents : entry'[a] = e => entry[a] = e \/ e = d
    BY <1>1 DEF TypeOK
  <2> QED BY <2>4, <2>5, <2>6 DEF Proceeds
<1> QED BY <1>5

LEMMA ToTeammateParting ==
  ASSUME IInv, Parting, NEW d \in Delegations, NEW a \in Agents, NEW b \in Agents,
         ToTeammate(d, a, b)
  PROVE  Parting'
<1> USE DEF agents
<1>1. /\ UNCHANGED <<live, closing, batch, phase>>
      /\ fate[d] = "new" /\ phase[a] = "turn"
      /\ from \in [Delegations -> Agents \cup {None}] /\ from' = [from EXCEPT ![d] = a]
  BY DEF ToTeammate, MayDelegate, IInv, TypeOK
<1>2. \A e \in Delegations : Proceeds(e)
  <2>1. CASE Takes(b)
    BY <1>1, <2>1, SendProceeds DEF ToTeammate
  <2>2. CASE ~ Takes(b)
    <3>1. UNCHANGED <<queue, entry>> /\ fate' = Mark(fate, {d}, "refused")
      BY <2>2 DEF ToTeammate
    <3>2. fate[d] \in Early /\ "refused" \in Early /\ "refused" \notin Unmade
      BY <1>1 DEF Early, Unmade
    <3> QED BY <1>1, <3>1, <3>2, EarlyProceeds
  <2> QED BY <2>1, <2>2
<1> QED BY <1>1, <1>2, PartingKeeps DEF Leads

LEMMA DeliverParting == ASSUME IInv, Parting, NEW d \in Delegations, Deliver(d) PROVE Parting'
<1> USE DEF agents
<1>1. /\ UNCHANGED <<live, closing, batch, phase, from>> /\ fate[d] = "spawned" /\ d \in Agents
  BY AgentsAre DEF Deliver
<1>2. \A e \in Delegations : Proceeds(e)
  <2>1. CASE Takes(d)
    BY <1>1, <2>1, SendProceeds DEF Deliver
  <2>2. CASE ~ Takes(d)
    <3>1. UNCHANGED <<queue, entry>> /\ fate' = Mark(fate, {d}, "refused")
      BY <2>2 DEF Deliver
    <3>2. fate[d] \in Early /\ "refused" \in Early /\ "refused" \notin Unmade
      BY <1>1 DEF Early, Unmade
    <3> QED BY <1>1, <3>1, <3>2, EarlyProceeds
  <2> QED BY <2>1, <2>2
<1> QED BY <1>1, <1>2, PartingKeeps DEF Leads

\* A turn has ended in the name of its last task.
LEMMA EndParting ==
  ASSUME IInv, Parting, NEW a \in Agents, NEW verdict \in Verdicts, NEW new \in Ending,
         phase' = [phase EXCEPT ![a] = new], UNCHANGED <<batch, live, closing, from>>,
         Callback(Answered(a), verdict, queue,
                  Mark(Mark(fate, Tasks(batch[a]), "merged"), Named(a), verdict), silent)
  PROVE  Parting'
<1> DEFINE merged == Mark(fate, Tasks(batch[a]), "merged")
           f == Mark(merged, Named(a), verdict)
           ds == Answered(a)
<1>1. /\ TypeOK /\ fate \in [Delegations -> Fates] /\ queue \in [Agents -> Seq(Items)]
      /\ batch[a] \in Seq(Items) /\ silent \in SUBSET Delegations
      /\ verdict \in Fates /\ "merged" \in Fates
      /\ {verdict, "merged"} \cap (Unmade \cup {"cut"}) = {}
  BY DEF IInv, TypeOK, Fates, Verdicts, Unmade
<1>2. /\ f \in [Delegations -> Fates]
      /\ \A d \in Delegations : f[d] = IF d \in Named(a) THEN verdict
                                       ELSE IF d \in Tasks(batch[a]) THEN "merged" ELSE fate[d]
  <2>1. /\ merged \in [Delegations -> Fates]
        /\ \A d \in Delegations : merged[d] = IF d \in Tasks(batch[a]) THEN "merged" ELSE fate[d]
    BY <1>1, MarkIs
  <2> HIDE DEF merged
  <2>2. /\ f \in [Delegations -> Fates]
        /\ \A d \in Delegations : f[d] = IF d \in Named(a) THEN verdict ELSE merged[d]
    BY <1>1, <2>1, MarkIs
  <2> QED BY <2>1, <2>2
<1>3. Named(a) \subseteq Tasks(batch[a]) /\ ds \in SUBSET Delegations
  BY <1>1, TasksAre DEF Named, Answered
<1>4. Callback(ds, verdict, queue, f, silent)
  OBVIOUS
<1> HIDE DEF f, ds
<1>5. phase'[a] \in Ending /\ \A b \in Agents : b # a => phase'[b] = phase[b]
  BY <1>1 DEF TypeOK
<1>6. ASSUME NEW d \in Delegations PROVE Proceeds(d)
  <2>1. d \in Named(a) \/ d \in Tasks(batch[a]) => At(d, a) /\ phase'[a] \in Ending
    BY <1>3, <1>5 DEF At
  <2>2. f[d] \in Over => fate[d] \in Over \/ \E b \in Agents : At(d, b) /\ phase'[b] \in Ending
    BY <1>2, <2>1
  <2>3. /\ f[d] \in Unmade => fate[d] \in Unmade
        /\ f[d] = "cut" => fate[d] = "cut" \/ d \in ds \/ \A b \in Agents : entry[b] # d
    BY <1>1, <1>2
  <2>4. \A b \in Agents : /\ Tasks(queue[b]) \subseteq Tasks(queue[b])
                          /\ Tasks(batch'[b]) \subseteq Tasks(batch[b])
    OBVIOUS
  <2> QED BY <1>1, <1>2, <1>3, <1>4, <2>2, <2>3, <2>4, CallbackProceeds
<1>7. \A b \in Delegations : phase[b] \in Ending => phase'[b] \in Ending
  BY <1>5, AgentsAre
<1> QED BY <1>6, <1>7, PartingKeeps DEF Leads

LEMMA InitFailsParting == ASSUME IInv, Parting, NEW a \in Agents, InitFails(a) PROVE Parting'
<1>1. "failed" \in Verdicts /\ "rejecting" \in Ending
  BY DEF Verdicts, Ending
<1> QED BY <1>1, EndParting DEF InitFails, agents

LEMMA TurnEndsParting ==
  ASSUME IInv, Parting, NEW a \in Agents, NEW completed \in BOOLEAN, TurnEnds(a, completed)
  PROVE  Parting'
<1> DEFINE verdict == IF aborted[a] THEN "cancelled" ELSE IF completed THEN "done" ELSE "failed"
           new == IF completed THEN "resolving" ELSE "rejecting"
<1>1. verdict \in Verdicts /\ new \in Ending
  BY DEF Verdicts, Ending
<1>2. /\ phase' = [phase EXCEPT ![a] = new] /\ UNCHANGED <<batch, live, closing, from>>
      /\ Callback(Answered(a), verdict, queue,
                  Mark(Mark(fate, Tasks(batch[a]), "merged"), Named(a), verdict), silent)
  BY DEF TurnEnds, agents
<1> HIDE DEF verdict, new
<1> QED BY <1>1, <1>2, EndParting

\* Records go, tasks stay what they are.
LEMMA ForgetParting ==
  ASSUME IInv, Parting, NEW ds \in SUBSET Delegations, Callback(ds, "cancelled", queue, fate, silent),
         \A a \in Agents : Tasks(batch'[a]) \subseteq Tasks(batch[a]), Leads
  PROVE  Parting'
<1>1. /\ "cancelled" \in Verdicts /\ queue \in [Agents -> Seq(Items)]
      /\ fate \in [Delegations -> Fates] /\ silent \in SUBSET Delegations
  BY DEF IInv, TypeOK, Verdicts
<1>2. \A a \in Agents : Tasks(queue[a]) \subseteq Tasks(queue[a])
  OBVIOUS
<1>3. \A d \in Delegations : Proceeds(d)
  BY <1>1, <1>2, CallbackProceeds
<1> QED BY <1>3, PartingKeeps

LEMMA SettleParting == ASSUME IInv, Parting, NEW a \in Agents, Settle(a) PROVE Parting'
<1> DEFINE ds == IF phase[a] = "rejecting" THEN Released(Tasks(batch[a]), silent) ELSE {}
<1>1. TypeOK /\ batch[a] \in Seq(Items)
  BY DEF IInv, TypeOK
<1>2. ds \in SUBSET Delegations /\ Callback(ds, "cancelled", queue, fate, silent)
  BY <1>1, TasksAre DEF Settle, Released
<1> HIDE DEF ds
<1>3. \A b \in Agents : Tasks(batch'[b]) \subseteq Tasks(batch[b])
  <2>1. Tasks(<<>>) = {} /\ \A b \in Agents : batch'[b] = IF b = a THEN <<>> ELSE batch[b]
    BY <1>1 DEF Settle, TypeOK, Tasks, ToSet
  <2> QED BY <2>1
<1>4. Leads
  <2>1. /\ live' = live /\ from' = from /\ closing' = closing \cup ({a} \cap Delegations)
        /\ \A b \in Agents : b # a => phase'[b] = phase[b]
    BY <1>1 DEF Settle, TypeOK
  <2>2. \A b \in Delegations : phase[b] \in Ending => phase'[b] \in Ending \/ b \in closing'
    BY <2>1, AgentsAre
  <2> QED BY <2>1, <2>2 DEF Leads
<1> QED BY <1>2, <1>3, <1>4, ForgetParting

LEMMA GoneParting == ASSUME IInv, Parting, NEW c \in Agents, Gone(c) PROVE Parting'
<1>1. {entry[c]} \ {None} \in SUBSET Delegations
  BY DEF IInv, TypeOK
<1>2. UNCHANGED <<closing, batch, phase, from>> /\ live' \subseteq live
  BY DEF Gone
<1> QED BY <1>1, <1>2, ForgetParting DEF Gone, Leads

LEMMA OpenGateParting == ASSUME IInv, Parting, OpenGate PROVE Parting'
<1> DEFINE ds == {entry[a] : a \in live \ live'} \ {None}
<1>1. ds \in SUBSET Delegations /\ Callback(ds, "cancelled", queue, fate, silent)
  BY DEF IInv, TypeOK, OpenGate
<1> HIDE DEF ds
<1>2. UNCHANGED <<closing, batch, phase, from>> /\ live' \subseteq live
  BY DEF OpenGate
<1> QED BY <1>1, <1>2, ForgetParting DEF Leads

\* The tasks queued for T are rejected; a marked one is cut off with its record.
LEMMA LostParting ==
  ASSUME IInv, Parting, NEW T \in SUBSET Agents, NEW quiet \in SUBSET Delegations, NEW lost,
         lost = UNION {Tasks(queue[a]) : a \in T}, NEW q \in [Agents -> Seq(Items)],
         \A a \in Agents : Tasks(q[a]) \subseteq Tasks(queue[a]),
         Callback(Released(lost, quiet), "cancelled", q, Rejected(lost, quiet), quiet),
         UNCHANGED <<batch, live, phase, from>>, closing \subseteq closing'
  PROVE  Parting'
<1> DEFINE f == Rejected(lost, quiet)
           ds == Released(lost, quiet)
<1>1. /\ fate \in [Delegations -> Fates] /\ "cancelled" \in Verdicts
      /\ lost \subseteq Delegations
  <2>1. \A a \in T : Tasks(queue[a]) \subseteq Delegations
    BY TasksAre DEF IInv, TypeOK
  <2> QED BY <2>1 DEF IInv, TypeOK, Verdicts
<1>2. /\ f \in [Delegations -> Fates] /\ ds \in SUBSET Delegations
      /\ \A d \in Delegations : f[d] = IF d \in lost \cap quiet THEN "cut"
                                       ELSE IF d \in lost THEN "dropped" ELSE fate[d]
      /\ \A d \in lost \cap quiet : d \in ds \/ \A a \in Agents : entry[a] # d
  <2> DEFINE one == Mark(fate, lost, "dropped")
             both == lost \cap quiet
  <2>1. "dropped" \in Fates /\ "cut" \in Fates
    BY DEF Fates
  <2>2. /\ one \in [Delegations -> Fates]
        /\ \A d \in Delegations : one[d] = IF d \in lost THEN "dropped" ELSE fate[d]
    BY <1>1, <2>1, MarkIs
  <2>3. f = Mark(one, both, "cut")
    BY DEF Rejected
  <2>4. ds \in SUBSET Delegations /\ \A d \in both : d \in ds \/ \A a \in Agents : entry[a] # d
    BY <1>1 DEF Released
  <2> HIDE DEF one, both, f, ds
  <2>5. /\ f \in [Delegations -> Fates]
        /\ \A d \in Delegations : f[d] = IF d \in both THEN "cut" ELSE one[d]
    BY <2>1, <2>2, <2>3, MarkIs
  <2> QED BY <2>2, <2>4, <2>5 DEF both
<1>3. Callback(ds, "cancelled", q, f, quiet)
  OBVIOUS
<1> HIDE DEF f, ds
<1>4. ASSUME NEW d \in Delegations PROVE Proceeds(d)
  <2>1. {"cut", "dropped"} \cap (Unmade \cup Over) = {} /\ "dropped" # "cut"
    BY DEF Unmade, Over, Verdicts
  <2>2. /\ f[d] \in Unmade => fate[d] \in Unmade
        /\ f[d] = "cut" => fate[d] = "cut" \/ d \in ds \/ \A a \in Agents : entry[a] # d
        /\ f[d] \in Over => fate[d] \in Over
    BY <1>2, <2>1
  <2>3. \A a \in Agents : /\ Tasks(q[a]) \subseteq Tasks(queue[a])
                          /\ Tasks(batch'[a]) \subseteq Tasks(batch[a])
    OBVIOUS
  <2>4. f[d] \in Over => fate[d] \in Over \/ \E b \in Agents : At(d, b) /\ phase'[b] \in Ending
    BY <2>2
  <2>5. f \in [Delegations -> Fates] /\ ds \in SUBSET Delegations /\ "cancelled" \in Verdicts
    BY <1>1, <1>2
  <2> QED BY <1>3, <2>2, <2>3, <2>4, <2>5, CallbackProceeds
<1> QED BY <1>4, PartingKeeps DEF Leads

LEMMA ClearParting ==
  ASSUME IInv, Parting, NEW T \in SUBSET Agents, Clear(T),
         UNCHANGED <<batch, live, phase, from>>, closing \subseteq closing'
  PROVE  Parting'
<1> DEFINE lost == UNION {Tasks(queue[a]) : a \in T}
           q == [a \in Agents |-> IF a \in T THEN <<>> ELSE queue[a]]
<1>1. queue \in [Agents -> Seq(Items)] /\ silent \in SUBSET Delegations
  BY DEF IInv, TypeOK
<1>2. Callback(Released(lost, silent), "cancelled", q, Rejected(lost, silent), silent)
  BY DEF Clear
<1>3. q \in [Agents -> Seq(Items)] /\ \A a \in Agents : Tasks(q[a]) \subseteq Tasks(queue[a])
  <2>1. <<>> \in Seq(Items) /\ Tasks(<<>>) = {}
    BY DEF Tasks, ToSet
  <2>2. q \in [Agents -> Seq(Items)] /\ \A a \in Agents : q[a] = <<>> \/ q[a] = queue[a]
    BY <1>1, <2>1
  <2> HIDE DEF q
  <2>3. \A a \in Agents : q[a] = <<>> => Tasks(q[a]) = {}
    BY <2>1
  <2> QED BY <2>2, <2>3
<1>4. lost = UNION {Tasks(queue[a]) : a \in T}
  OBVIOUS
<1> HIDE DEF lost, q
<1> QED BY <1>1, <1>2, <1>3, <1>4, LostParting

LEMMA InterruptParting == ASSUME IInv, Parting, NEW a \in Agents, Interrupt(a) PROVE Parting'
<1> USE DEF agents
<1>1. UNCHANGED <<live, closing, batch, phase, from>>
  BY DEF Interrupt, book
<1>2. CASE UNCHANGED <<queue, book, fate, told>>
  <2>1. \A d \in Delegations : Proceeds(d)
    BY <1>1, <1>2, StillProceeds DEF book
  <2> QED BY <1>1, <2>1, PartingKeeps DEF Leads
<1>3. CASE Clear({a})
  <2>1. {a} \in SUBSET Agents
    OBVIOUS
  <2> QED BY <1>1, <1>3, <2>1, ClearParting
<1> QED BY <1>2, <1>3 DEF Interrupt

LEMMA CancelParting == ASSUME IInv, Parting, NEW c \in Agents, Cancel(c) PROVE Parting'
<1>1. Subtree(c) \in SUBSET Agents
  BY SubtreeAgents
<1> QED BY <1>1, ClearParting DEF Cancel

LEMMA DisposeParting == ASSUME IInv, Parting, NEW c \in Agents, Dispose(c) PROVE Parting'
<1>1. {c} \in SUBSET Agents
  OBVIOUS
<1> QED BY <1>1, ClearParting DEF Dispose

LEMMA CloseGateParting ==
  ASSUME IInv, Parting, NEW kind \in Agents \cup {"checkpoint"}, CloseGate(kind) PROVE Parting'
<1> DEFINE E == Delegations \cap (IF kind = "checkpoint" THEN live ELSE Subtree(kind))
<1>1. /\ E \in SUBSET Agents /\ Clear(E) /\ UNCHANGED <<batch, live, phase, from>>
      /\ closing \subseteq closing'
  BY AgentsAre DEF CloseGate
<1> HIDE DEF E
<1> QED BY <1>1, ClearParting

LEMMA ClearResidentsParting == ASSUME IInv, Parting, ClearResidents PROVE Parting'
<1>1. Concerned \in SUBSET Agents
  BY SubtreeAgents DEF Concerned, IInv, TypeOK
<1> QED BY <1>1, ClearParting DEF ClearResidents

LEMMA StopParting == ASSUME IInv, Parting, NEW S \in SUBSET Agents, Stop(S) PROVE Parting'
<1> DEFINE T == Targets(S)
           quiet == silent \cup Silenced(T)
           lost == UNION {Tasks(queue[b]) : b \in T}
           q == [b \in Agents |-> IF b \in T THEN Calmed(queue[b]) ELSE queue[b]]
<1>1. /\ T \in SUBSET Agents /\ quiet \in SUBSET Delegations /\ q \in [Agents -> Seq(Items)]
      /\ \A b \in Agents : Tasks(q[b]) = IF b \in T THEN {} ELSE Tasks(queue[b])
      /\ Callback(Released(lost, quiet), "cancelled", q, Rejected(lost, quiet), quiet)
  BY StopFacts
<1>2. lost = UNION {Tasks(queue[b]) : b \in T}
  OBVIOUS
<1>3. UNCHANGED <<batch, live, closing, phase, from>>
  BY DEF Stop, agents
<1> HIDE DEF T, quiet, lost, q
<1>4. \A b \in Agents : Tasks(q[b]) \subseteq Tasks(queue[b])
  BY <1>1
<1> QED BY <1>1, <1>2, <1>3, <1>4, LostParting

LEMMA InitParting == Init => Parting
<1> SUFFICES ASSUME Init PROVE Parting
  OBVIOUS
<1>1. Ephemerals = {}
  BY DelegationAssumption DEF Init, Ephemerals
<1>2. \A d \in Delegations : d \notin live /\ fate[d] = "new" /\ from[d] = None
  BY <1>1 DEF Init, Ephemerals
<1> QED BY <1>1, <1>2, AgentsAre DEF Parting, Over, Verdicts

LEMMA NextParting == IInv /\ Parting /\ [Next]_vars => Parting'
<1> SUFFICES ASSUME IInv, Parting, [Next]_vars PROVE Parting'
  OBVIOUS
<1>1. CASE UNCHANGED vars
  <2>1. UNCHANGED <<live, closing, queue, batch, phase, entry, from, fate>>
    BY <1>1 DEF vars, agents, turns, book
  <2>2. \A d \in Delegations : Proceeds(d)
    BY <2>1, StillProceeds
  <2> QED BY <2>1, <2>2, PartingKeeps DEF Leads
<1>2. ASSUME NEW a \in Agents, UserSend(a) PROVE Parting'
  BY <1>2, UserSendParting
<1>3. ASSUME NEW a \in Agents, Batch(a) PROVE Parting'
  BY <1>3, BatchParting
<1>4. ASSUME NEW a \in Agents, InitFails(a) PROVE Parting'
  BY <1>4, InitFailsParting
<1>5. ASSUME NEW a \in Agents, TurnRefused(a) PROVE Parting'
  BY <1>5, TurnRefusedParting
<1>6. ASSUME NEW a \in Agents, TurnBegins(a) PROVE Parting'
  BY <1>6, TurnBeginsParting
<1>7. ASSUME NEW a \in Agents, NEW completed \in BOOLEAN, TurnEnds(a, completed) PROVE Parting'
  BY <1>7, TurnEndsParting
<1>8. ASSUME NEW a \in Agents, Settle(a) PROVE Parting'
  BY <1>8, SettleParting
<1>9. ASSUME NEW a \in Agents, Interrupt(a) PROVE Parting'
  BY <1>9, InterruptParting
<1>10. ASSUME NEW a \in Agents, Cancel(a) PROVE Parting'
  BY <1>10, CancelParting
<1>11. ASSUME NEW a \in Agents, Dispose(a) PROVE Parting'
  BY <1>11, DisposeParting
<1>12. ASSUME NEW a \in Agents, Gone(a) PROVE Parting'
  BY <1>12, GoneParting
<1>13. ASSUME NEW a \in Agents, NEW d \in Delegations, Reserve(d, a) PROVE Parting'
  BY <1>13, ReserveParting
<1>14. ASSUME NEW a \in Agents, NEW d \in Delegations, NEW b \in Agents, ToTeammate(d, a, b)
       PROVE  Parting'
  BY <1>14, ToTeammateParting
<1>15. ASSUME NEW a \in Agents, a \in live, Stop({a}) PROVE Parting'
  <2>1. {a} \in SUBSET Agents
    OBVIOUS
  <2> QED BY <1>15, <2>1, StopParting
<1>16. ASSUME NEW kind \in Agents \cup {"checkpoint"}, CloseGate(kind) PROVE Parting'
  BY <1>16, CloseGateParting
<1>17. ASSUME NEW d \in Delegations, Spawn(d) PROVE Parting'
  BY <1>17, SpawnParting
<1>18. ASSUME NEW d \in Delegations, SpawnFails(d) PROVE Parting'
  BY <1>18, SpawnFailsParting
<1>19. ASSUME NEW d \in Delegations, Deliver(d) PROVE Parting'
  BY <1>19, DeliverParting
<1>20. CASE Stop(live)
  <2>1. live \in SUBSET Agents
    BY DEF IInv, TypeOK
  <2> QED BY <1>20, <2>1, StopParting
<1>21. CASE ClearResidents
  BY <1>21, ClearResidentsParting
<1>22. CASE OpenGate
  BY <1>22, OpenGateParting
<1> QED
  BY <1>1, <1>2, <1>3, <1>4, <1>5, <1>6, <1>7, <1>8, <1>9, <1>10, <1>11, <1>12, <1>13, <1>14,
     <1>15, <1>16, <1>17, <1>18, <1>19, <1>20, <1>21, <1>22, Zenon DEF Next

\* When nothing moves, a task that waits for its turn cannot have its target in
\* the tree.
LEMMA NobodyWaits ==
  ASSUME IInv, ~ Moving, NEW a \in live, NEW d \in Delegations, At(d, a)
  PROVE  FALSE
<1>1. TypeOK /\ AtRest /\ a \in Agents /\ queue[a] \in Seq(Items)
  BY DEF IInv, TypeOK
<1>2. batch[a] = <<>>
  BY <1>1 DEF Moving, AtRest
<1>3. Tasks(<<>>) = {}
  BY DEF Tasks, ToSet
<1>4. Wakes(queue[a])
  BY <1>1, <1>2, <1>3, TasksAre DEF At
<1> QED BY <1>1, <1>4 DEF Moving, AtRest

\* When nothing moves, a child that leaves waits for one below it that never
\* started.
LEMMA ChildBelow ==
  ASSUME IInv, Parting, ~ Moving, NEW a \in Ephemerals
  PROVE  Subtree(a) \cap Unstarted # {}
<1>1. TypeOK /\ OnePlace /\ FateShows
  BY DEF IInv
<1> DEFINE C == Subtree(a) \cap Ephemerals
<1>2. /\ a \in C
      /\ \A c \in Subtree(a) : Children(c) \subseteq Subtree(a)
  <2>1. a \in Agents /\ \A c : Children(c) \subseteq Agents
    BY AgentsAre DEF Ephemerals, Children
  <2> QED BY <2>1 DEF Subtree, Reach
<1>3. PICK c \in C : \A x \in C : from[x] # c
  <2>1. C \in SUBSET Ephemerals /\ C # {}
    BY <1>2
  <2> HIDE DEF C
  <2> QED BY <2>1 DEF Parting
<1>4. c \in Agents /\ c \in Delegations /\ c \in live /\ c \in Subtree(a) /\ c \in Ephemerals
  BY AgentsAre DEF Ephemerals
<1>5. Children(c) = {}
  <2>1. ASSUME NEW x \in Children(c) PROVE FALSE
    <3>1. x \in C /\ from[x] = c
      BY <1>2, <1>4, <2>1 DEF Children, Ephemerals
    <3> QED BY <1>3, <3>1
  <2> QED BY <2>1
<1>6. c \notin closing /\ phase[c] = "idle"
  BY <1>4, <1>5 DEF Moving
<1>7. fate[c] \notin Over \cup Unmade \cup {"spawned"}
  <2>1. fate[c] \notin Over
    BY <1>4, <1>6 DEF Parting, Ending
  <2>2. fate[c] # "spawned"
    BY <1>4 DEF Moving
  <2> QED BY <1>4, <2>1, <2>2 DEF Parting
<1>8. fate[c] # "sent"
  <2>1. ASSUME fate[c] = "sent" PROVE FALSE
    <3>1. PICK b \in Agents : At(c, b)
      BY <1>1, <1>4, <2>1 DEF FateShows, Held, At
    <3>2. b = c
      BY <1>4, <3>1 DEF Parting
    <3> QED BY <1>4, <3>1, <3>2, NobodyWaits
  <2> QED BY <2>1
<1>9. fate[c] \in Fates
  BY <1>1, <1>4 DEF TypeOK
<1>10. c \in Unstarted
  BY <1>4, <1>6, <1>7, <1>8, <1>9 DEF Unstarted, Fates, Over, Unmade
<1> QED BY <1>4, <1>10

\* No target stays busy for a task that is gone: when no step is left that happens
\* by itself, every delegation has been called back, but for the named cases
\* (_bindDelegationCallback; the catch of sendToAgent; maybeRelease).
THEOREM NothingIsForgotten == Spec => []NothingForgotten
<1>1. Init => Parting
  BY InitParting
<1>2. IInv /\ Parting /\ [Next]_vars => Parting'
  BY NextParting
<1>3. IInv /\ Parting => NothingForgotten
  <2> SUFFICES ASSUME IInv, Parting, ~ Moving, NEW d \in Pending, ~ Stranded(d)
               PROVE  \E a \in Ephemerals : entry[a] = d /\ Subtree(a) \cap Unstarted # {}
    BY DEF NothingForgotten
  <2>1. TypeOK /\ OnePlace /\ FateShows /\ AtRest
    BY DEF IInv
  <2>2. PICK a \in Agents : entry[a] = d /\ d \in Delegations
    BY DEF Pending
  <2>3. a \in live
    BY <2>1, <2>2, AgentsAre DEF AtRest
  <2>4. fate[d] # "sent"
    <3>1. ASSUME fate[d] = "sent" PROVE FALSE
      <4>1. PICK b \in Agents : At(d, b)
        BY <2>1, <2>2, <3>1 DEF FateShows, Held, At
      <4>2. b = a
        BY <2>1, <2>2, <4>1 DEF OnePlace
      <4> QED BY <2>2, <2>3, <4>1, <4>2, NobodyWaits
    <3> QED BY <3>1
  <2>5. fate[d] \in {"merged", "unrun"}
    <3>1. fate[d] \notin Early \cup Verdicts \cup {"cut"}
      BY <2>1, <2>2 DEF FateShows, Parting
    <3>2. fate[d] \in Fates /\ fate[d] # "dropped"
      BY <2>1, <2>2 DEF TypeOK, Stranded
    <3> QED BY <2>4, <3>1, <3>2 DEF Fates, Early
  <2>6. a \in Ephemerals
    BY <2>2, <2>3, <2>5 DEF Stranded, Agents, Ephemerals
  <2> QED BY <2>2, <2>6, ChildBelow
<1> QED BY <1>1, <1>2, <1>3, Invariance, PTL DEF Spec
=============================================================================
