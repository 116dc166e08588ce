-------------------------- MODULE EventStoreProofs --------------------------
(***************************************************************************)
(* Proofs about EventStore for any events, any limits and any number of     *)
(* crashes and torn writes: what is read back of a history is in order and  *)
(* whole but for what the torn writes have cost, no required append is      *)
(* answered wrongly, flush() covers what it was called for, and a history   *)
(* ends once.                                                               *)
(***************************************************************************)
EXTENDS EventStore, SequenceTheorems, FiniteSetTheorems, WellFoundedInduction, TLAPS

-----------------------------------------------------------------------------
(* The invariant                                                           *)

\* how many tasks have left the queue
Left == Len(asked) - Len(queue)

\* the queue is what was asked for last, and nothing is asked for twice
Chain ==
  /\ Len(queue) <= Len(asked)
  /\ \A k \in DOMAIN queue : queue[k].ev = asked[Left + k]
  /\ ~Idle => Left # 0 /\ running.ev = asked[Left]
  /\ \A a, b \in DOMAIN asked : asked[a] = asked[b] => a = b
  /\ \A a \in DOMAIN asked : asked[a] \notin fresh

\* what a flush waits for was asked for, and is behind the chain when it returns
Flushes ==
  /\ flush.upTo <= Len(asked)
  /\ flush.pc = "returned" => flush.upTo <= Completed

Spared == \A k \in DOMAIN queue :
  queue[k].cancelled => Durability(queue[k].ev) = "best-effort"

\* what still waits, or was never appended, is neither answered nor on disk
Untouched ==
  /\ \A e \in Queued : answer[e] # "none" => e \notin fresh
  /\ \A k \in DOMAIN queue : answer[queue[k].ev] = "none"
  /\ \A j \in DOMAIN log : \A e \in log[j].evs : e \notin fresh
  /\ \A j \in DOMAIN log : \A k \in DOMAIN queue : queue[k].ev \notin log[j].evs

\* the lines are in the order of the shards and of the queue
Ordered ==
  /\ \A i, j \in DOMAIN log : i < j => log[i].shard <= log[j].shard
  /\ \A j \in DOMAIN log : log[j].shard <= shard
  /\ \A i, j \in DOMAIN log : \A a, b \in DOMAIN asked :
       i < j /\ asked[a] \in log[i].evs /\ asked[b] \in log[j].evs => a < b
  /\ \A j \in DOMAIN log : \A a \in DOMAIN asked :
       asked[a] \in log[j].evs => a <= Left
  /\ ragged => log # <<>>

\* events whose append went through
Stored ==
  {e \in Queued : answer[e] = "ok" \/ (running.ev = e /\ running.ok)}

\* events whose append threw
Thrown ==
  {e \in Queued : answer[e] = "failed" \/ (running.ev = e /\ ~running.ok)}

\* of a stored event there is a line, of a thrown one at most an unfinished one
Written ==
  /\ \A e \in Stored : \E j \in DOMAIN log : e \in log[j].evs
  /\ \A e \in Thrown : \A j \in Readable :
       e \in log[j].evs => ragged /\ j = Len(log)

\* every tear costs one stored event at most, the one that is appended to it
Lost == Stored \ Loaded

Damage ==
  /\ ragged => log[Len(log)].evs \cap Stored = {}
  /\ IsFiniteSet(Lost)
  /\ Cardinality(Lost) + (IF ragged THEN 1 ELSE 0) <= torn

Ends == Loaded \cap (Terminals \cup Aborts)

\* nobody is sealed but by the recovery, when nothing has ended the history
Sealing ==
  /\ lifetime = "resident" \/ process = "up" => Aborts \subseteq fresh
  /\ process \in {"down", "recovering", "closed"} => queue = <<>>
  /\ process \in {"down", "recovering"} => Idle
  /\ process = "sealing" =>
       /\ Len(queue) <= 1
       /\ queue # <<>> => queue[1].ev \in Aborts /\ Ends = {}
  /\ process \in {"recovering", "sealing", "closed"} => lifetime = "ephemeral"
  /\ \A x, y \in Ends : x \in Aborts => y = x

IInv ==
  /\ TypeOK /\ Chain /\ Flushes /\ Spared /\ Untouched
  /\ Ordered /\ Written /\ Damage /\ Sealing

-----------------------------------------------------------------------------
(* Naturals and sequences                                                  *)

\* A set of naturals has a least element.
LEMMA LeastNat ==
  ASSUME NEW S \in SUBSET Nat, S # {}
  PROVE  \E n \in S : \A m \in S : n <= m
<1>1. PICK n \in S : \A m \in S : <<m, n>> \notin OpToRel(<, Nat)
  BY NatLessThanWellFounded, WFMin
<1>2. \A m \in S : ~ (m < n)
  BY <1>1, Zenon DEF OpToRel
<1> QED
  BY <1>2

\* A bounded one has a greatest.
LEMMA GreatestNat ==
  ASSUME NEW S \in SUBSET Nat, S # {}, NEW N \in Nat, \A m \in S : m <= N
  PROVE  \E n \in S : \A m \in S : m <= n
<1> DEFINE D == {N - m : m \in S}
<1>1. D \in SUBSET Nat
  <2>1. \A m \in S : N - m \in Nat
    OBVIOUS
  <2> QED
    BY <2>1
<1>2. D # {}
  OBVIOUS
<1>3. PICK d \in D : \A k \in D : d <= k
  <2> HIDE DEF D
  <2> QED
    BY <1>1, <1>2, LeastNat
<1>4. PICK n \in S : d = N - n
  BY <1>3
<1>5. \A m \in S : n >= m
  BY <1>3, <1>4
<1> QED
  BY <1>5

\* what the first entry of the queue leaves behind
LEMMA TakesFields ==
  ASSUME TypeOK, queue # <<>>
  PROVE  /\ Takes.first = queue[1] /\ Takes.first \in Entries
         /\ Takes.first.ev \in Queued /\ Takes.first.cancelled \in BOOLEAN
         /\ Takes.rest \in Seq(Entries) /\ Len(Takes.rest) = Len(queue) - 1
         /\ Len(queue) \in Nat /\ Len(queue) # 0
         /\ DOMAIN Takes.rest = 1..(Len(queue) - 1)
         /\ \A k \in 1..(Len(queue) - 1) : Takes.rest[k] = queue[k + 1]
<1>1. queue \in Seq(Entries)
  BY DEF TypeOK
<1>2. /\ Head(queue) \in Entries /\ Head(queue) = queue[1]
      /\ Tail(queue) \in Seq(Entries) /\ Len(Tail(queue)) = Len(queue) - 1
      /\ \A k \in 1..Len(Tail(queue)) : Tail(queue)[k] = queue[k + 1]
  BY <1>1, HeadTailProperties
<1>3. Len(queue) \in Nat /\ Len(queue) # 0
  BY <1>1, EmptySeq
<1>4. Takes.first = Head(queue) /\ Takes.rest = Tail(queue)
  BY DEF Takes
<1>5. Head(queue).ev \in Queued /\ Head(queue).cancelled \in BOOLEAN
  BY <1>2 DEF Entries
<1> HIDE DEF Takes
<1> QED
  BY <1>2, <1>3, <1>4, <1>5

\* Backpressure cancels an entry at most, and only one nobody must hear of.
LEMMA BackpressureFields ==
  ASSUME TypeOK, NEW e \in Queued
  PROVE  /\ Backpressure(queue, e) \in Seq(Entries)
         /\ Len(Backpressure(queue, e)) = Len(queue)
         /\ \A k \in DOMAIN queue :
              /\ Backpressure(queue, e)[k].ev = queue[k].ev
              /\ Backpressure(queue, e)[k].cancelled =>
                   queue[k].cancelled \/ Durability(queue[k].ev) = "best-effort"
<1>1. queue \in Seq(Entries) /\ DOMAIN queue = 1..Len(queue) /\ Len(queue) \in Nat
  BY DEF TypeOK
<1>2. \A k \in DOMAIN queue : queue[k] \in Entries
  BY <1>1
<1> DEFINE full == ~(Durability(e) = "required" \/ Cardinality(BestEffort(queue)) < HighWater)
           victim == CHOOSE k \in BestEffort(queue) : \A j \in BestEffort(queue) : k <= j
           after == [queue EXCEPT ![victim].cancelled = TRUE]
<1>3. CASE ~full
  <2>1. Backpressure(queue, e) = queue
    BY <1>3 DEF Backpressure
  <2> QED
    BY <1>1, <2>1
<1>4. CASE full
  <2>1. BestEffort(queue) \in SUBSET Nat
    BY <1>1 DEF BestEffort
  <2>2. BestEffort(queue) # {}
    <3>1. ASSUME BestEffort(queue) = {} PROVE FALSE
      <4>1. Cardinality(BestEffort(queue)) = 0
        BY <3>1, FS_EmptySet
      <4> QED
        BY <1>4, <4>1, BoundsAssumption
    <3> QED
      BY <3>1
  <2>3. victim \in BestEffort(queue)
    BY <2>1, <2>2, LeastNat
  <2>4. Backpressure(queue, e) = after
    BY <1>4 DEF Backpressure
  <2>5. victim \in DOMAIN queue /\ Durability(queue[victim].ev) = "best-effort"
    BY <2>3 DEF BestEffort
  <2> HIDE DEF victim, full
  <2>6. PICK x \in Entries : x = [queue[victim] EXCEPT !.cancelled = TRUE]
    BY <1>2, <2>5 DEF Entries
  <2>7. x.ev = queue[victim].ev
    BY <1>2, <2>5, <2>6 DEF Entries
  <2>8. after = [queue EXCEPT ![victim] = x]
    BY <2>6
  <2> HIDE DEF after
  <2>9. /\ after \in Seq(Entries) /\ Len(after) = Len(queue)
        /\ \A k \in DOMAIN queue : after[k] = IF k = victim THEN x ELSE queue[k]
    BY <1>1, <2>5, <2>8, ExceptSeq
  <2> QED
    BY <2>4, <2>5, <2>7, <2>9
<1> QED
  BY <1>3, <1>4

-----------------------------------------------------------------------------
(* A line is appended, or the unfinished one goes on                       *)

\* what an append leaves on disk, whether it went through or stopped half-way
Appended(e) ==
  /\ log' \in Seq(LogLines)
  /\ Len(log') = (IF ragged THEN Len(log) ELSE Len(log) + 1)
  /\ Len(log') # 0
  /\ \A i \in 1..(Len(log') - 1) : i \in DOMAIN log /\ log'[i] = log[i]
  /\ ragged =>
       /\ log'[Len(log')].shard = log[Len(log)].shard
       /\ log'[Len(log')].evs = log[Len(log)].evs \cup {e}
       /\ ~log'[Len(log')].good
  /\ ~ragged => log'[Len(log')].shard = shard /\ log'[Len(log')].evs = {e}

\* the line of e, whole or not
Goes(e, whole) ==
  log' = IF ragged
         THEN [log EXCEPT ![Len(log)] = Spoil(@, e)]
         ELSE Append(log, [shard |-> shard, evs |-> {e}, good |-> whole])

LEMMA GoesAppends ==
  ASSUME TypeOK, ragged => log # <<>>, NEW e \in Events, NEW whole \in BOOLEAN,
         Goes(e, whole)
  PROVE  /\ Appended(e)
         /\ ~ragged => log'[Len(log')].good = whole
<1>1. log \in Seq(LogLines) /\ DOMAIN log = 1..Len(log) /\ Len(log) \in Nat
  BY DEF TypeOK
<1>2. CASE ragged
  <2>1. Len(log) \in DOMAIN log /\ Len(log) # 0
    BY <1>1, <1>2, EmptySeq
  <2>2. log[Len(log)] \in LogLines
    BY <1>1, <2>1
  <2>a. PICK l \in LogLines : l = log[Len(log)]
    BY <2>2
  <2>b. PICK x : x = Spoil(l, e)
    OBVIOUS
  <2>c. /\ x \in LogLines /\ x.shard = l.shard /\ x.good = FALSE
        /\ x.evs = l.evs \cup {e}
    BY <2>b DEF Spoil, LogLines
  <2>3. /\ x = Spoil(log[Len(log)], e) /\ x \in LogLines
        /\ x.shard = log[Len(log)].shard /\ ~x.good
        /\ x.evs = log[Len(log)].evs \cup {e}
    BY <2>a, <2>b, <2>c
  <2>4. log' = [log EXCEPT ![Len(log)] = x]
    BY <1>2, <2>3 DEF Goes
  <2>d. PICK s, n : s = log /\ n = Len(log)
    OBVIOUS
  <2>e. /\ [s EXCEPT ![n] = x] \in Seq(LogLines) /\ Len([s EXCEPT ![n] = x]) = Len(s)
        /\ \A k \in 1..Len(s) : [s EXCEPT ![n] = x][k] = IF k = n THEN x ELSE s[k]
    BY <1>1, <2>1, <2>3, <2>d, ExceptSeq
  <2>5. /\ log' \in Seq(LogLines) /\ Len(log') = Len(log)
        /\ \A k \in DOMAIN log : log'[k] = IF k = Len(log) THEN x ELSE log[k]
    BY <1>1, <2>4, <2>d, <2>e
  <2> QED
    BY <1>1, <1>2, <2>1, <2>3, <2>5 DEF Appended
<1>3. CASE ~ragged
  <2>a. PICK x : x = [shard |-> shard, evs |-> {e}, good |-> whole]
    OBVIOUS
  <2>b. shard \in Nat \ {0} /\ {e} \subseteq Events
    BY DEF TypeOK
  <2>1. /\ x = [shard |-> shard, evs |-> {e}, good |-> whole] /\ x \in LogLines
        /\ x.shard = shard /\ x.evs = {e} /\ x.good = whole
    BY <2>a, <2>b DEF LogLines
  <2>2. log' = Append(log, x)
    BY <1>3, <2>1 DEF Goes
  <2>3. /\ log' \in Seq(LogLines) /\ Len(log') = Len(log) + 1
        /\ \A i \in 1..Len(log) : log'[i] = log[i]
        /\ log'[Len(log) + 1] = x
    <3>1. Append(log, x) \in Seq(LogLines) /\ Len(Append(log, x)) = Len(log) + 1
      BY <1>1, <2>1, AppendProperties
    <3>2. \A i \in 1..Len(log) : Append(log, x)[i] = log[i]
      BY <1>1, <2>1, AppendProperties
    <3>3. Append(log, x)[Len(log) + 1] = x
      BY <1>1, <2>1, AppendProperties
    <3> QED
      BY <2>2, <3>1, <3>2, <3>3
  <2> QED
    BY <1>1, <1>3, <2>1, <2>3 DEF Appended
<1> QED
  BY <1>2, <1>3

\* what is known of the lines after an append
LEMMA AppendedShape ==
  ASSUME TypeOK, ragged => log # <<>>, NEW e, Appended(e)
  PROVE  /\ DOMAIN log = 1..Len(log) /\ Len(log) \in Nat
         /\ DOMAIN log' = 1..Len(log') /\ Len(log') \in Nat \ {0}
         /\ Len(log') \in DOMAIN log' /\ DOMAIN log \subseteq DOMAIN log'
         /\ Readable' \subseteq DOMAIN log'
         /\ \A i \in DOMAIN log' :
              i # Len(log') => i \in DOMAIN log /\ log'[i] = log[i]
         /\ ragged => Len(log') = Len(log) /\ Len(log') \in DOMAIN log
         /\ ~ragged => Len(log') = Len(log) + 1 /\ Len(log') \notin DOMAIN log
         /\ ragged => log'[Len(log')].evs = log[Len(log)].evs \cup {e}
         /\ ~ragged => log'[Len(log')].evs = {e}
<1>1. DOMAIN log = 1..Len(log) /\ Len(log) \in Nat
  BY DEF TypeOK
<1>2. DOMAIN log' = 1..Len(log') /\ Len(log') \in Nat \ {0}
  BY DEF Appended
<1>a. PICK n, m : n = Len(log') /\ m = Len(log)
  OBVIOUS
<1>b. n \in Nat /\ m \in Nat /\ n # 0
  BY <1>1, <1>2, <1>a
<1>c. (ragged => n = m) /\ (~ragged => n = m + 1)
  BY <1>a DEF Appended
<1>3. /\ ragged => Len(log') = Len(log) /\ Len(log') \in DOMAIN log
      /\ ~ragged => Len(log') = Len(log) + 1 /\ Len(log') \notin DOMAIN log
  <2>1. ragged => n \in 1..m
    BY <1>b, <1>c
  <2>2. ~ragged => n \notin 1..m
    BY <1>b, <1>c
  <2> QED
    BY <1>1, <1>a, <1>c, <2>1, <2>2
<1>4. Len(log') \in DOMAIN log' /\ DOMAIN log \subseteq DOMAIN log'
  <2>1. n \in 1..n /\ 1..m \subseteq 1..n
    BY <1>b, <1>c
  <2> QED
    BY <1>1, <1>2, <1>a, <2>1
<1>5. \A i \in DOMAIN log' : i # Len(log') => i \in DOMAIN log /\ log'[i] = log[i]
  BY <1>2 DEF Appended
<1>6. /\ ragged => log'[Len(log')].evs = log[Len(log)].evs \cup {e}
      /\ ~ragged => log'[Len(log')].evs = {e}
  BY DEF Appended
<1>7. Readable' \subseteq DOMAIN log'
  BY DEF Readable
<1> QED
  BY <1>1, <1>2, <1>3, <1>4, <1>5, <1>6, <1>7, Zenon

\* the events of a line are kept
LEMMA AppendedEvents ==
  ASSUME TypeOK, ragged => log # <<>>, NEW e, Appended(e)
  PROVE  /\ \A i \in DOMAIN log : log[i].evs \subseteq log'[i].evs
         /\ \A i \in DOMAIN log' : \A x \in log'[i].evs :
              \/ x = e /\ i = Len(log')
              \/ i \in DOMAIN log /\ x \in log[i].evs
         /\ e \in log'[Len(log')].evs
<1>1. ASSUME NEW i \in DOMAIN log PROVE log[i].evs \subseteq log'[i].evs
  <2>1. CASE i = Len(log')
    BY <1>1, <2>1, AppendedShape
  <2>2. CASE i # Len(log')
    BY <1>1, <2>2, AppendedShape
  <2> QED
    BY <2>1, <2>2
<1>2. ASSUME NEW i \in DOMAIN log', NEW x \in log'[i].evs
      PROVE  \/ x = e /\ i = Len(log')
             \/ i \in DOMAIN log /\ x \in log[i].evs
  <2>1. CASE i = Len(log')
    BY <1>2, <2>1, AppendedShape
  <2>2. CASE i # Len(log')
    BY <1>2, <2>2, AppendedShape
  <2> QED
    BY <2>1, <2>2
<1> QED
  BY <1>1, <1>2, AppendedShape

\* what can be read afterwards
LEMMA AppendedLoaded ==
  ASSUME TypeOK, ragged => log # <<>>, NEW e, Appended(e)
  PROVE  /\ Loaded' \subseteq Loaded \cup {e}
         /\ \A x \in Loaded :
              x \in Loaded' \/ (ragged /\ x \in log[Len(log)].evs)
         /\ ~ragged /\ log'[Len(log')].good => e \in Loaded'
<1>1. \A i \in DOMAIN log' : i # Len(log') => i \in DOMAIN log /\ log'[i] = log[i]
  BY AppendedShape
<1>2. ASSUME NEW x \in Loaded' PROVE x \in Loaded \cup {e}
  <2>1. PICK i \in DOMAIN log' : log'[i].good /\ x \in log'[i].evs
    BY DEF Loaded, Readable
  <2>2. CASE i # Len(log')
    BY <1>1, <2>1, <2>2 DEF Loaded, Readable
  <2>3. CASE i = Len(log')
    <3>1. ~ragged
      BY <2>1, <2>3 DEF Appended
    <3> QED
      BY <2>1, <2>3, <3>1, AppendedShape
  <2> QED
    BY <2>2, <2>3
<1>3. ASSUME NEW x \in Loaded, ~(ragged /\ x \in log[Len(log)].evs)
      PROVE  x \in Loaded'
  <2>1. PICK i \in DOMAIN log : log[i].good /\ x \in log[i].evs
    BY DEF Loaded, Readable
  <2>2. i # Len(log')
    BY <1>3, <2>1, AppendedShape
  <2>3. i \in DOMAIN log' /\ log'[i] = log[i]
    BY <1>1, <2>2, AppendedShape
  <2> QED
    BY <2>1, <2>3 DEF Loaded, Readable
<1>4. ASSUME ~ragged, log'[Len(log')].good PROVE e \in Loaded'
  <2>1. Len(log') \in DOMAIN log' /\ e \in log'[Len(log')].evs
    BY AppendedShape, AppendedEvents
  <2> QED
    BY <1>4, <2>1 DEF Loaded, Readable
<1> QED
  BY <1>2, <1>3, <1>4

LEMMA LineWritten ==
  ASSUME IInv, NEW e \in Events, WriteLine(e)
  PROVE  /\ Appended(e) /\ ~ragged' /\ ragged' \in BOOLEAN /\ lifetime' = lifetime
         /\ ~ragged => e \in Loaded'
<1>1. Goes(e, TRUE) /\ TypeOK /\ (ragged => log # <<>>)
  BY DEF WriteLine, Goes, IInv, Ordered
<1>2. Appended(e) /\ (~ragged => log'[Len(log')].good)
  BY <1>1, GoesAppends
<1> QED
  BY <1>1, <1>2, AppendedLoaded DEF WriteLine

LEMMA LineTorn ==
  ASSUME IInv, NEW e \in Events, TearLine(e)
  PROVE  /\ Appended(e) /\ ragged' /\ ragged' \in BOOLEAN /\ lifetime' = lifetime
         /\ torn' = torn + 1 /\ torn' \in 0..MaxTears
<1>1. PICK whole \in BOOLEAN : Goes(e, whole)
  BY DEF TearLine, Goes
<1>2. TypeOK /\ (ragged => log # <<>>)
  BY DEF IInv, Ordered
<1>3. Appended(e)
  BY <1>1, <1>2, GoesAppends
<1>4. torn' \in 0..MaxTears
  BY <1>2, BoundsAssumption DEF TypeOK, TearLine
<1> QED
  BY <1>3, <1>4 DEF TearLine

LEMMA LedgerMoves ==
  ASSUME TypeOK, CountAndRotate
  PROVE  shard' \in Nat \ {0} /\ shard' >= shard /\ count' \in 0..(CheckInterval - 1)
  BY BoundsAssumption DEF TypeOK, CountAndRotate

-----------------------------------------------------------------------------
(* The parts of the invariant that speak of the disk, when a line is       *)
(* appended and when none is                                               *)

\* e was on no line, and only what precedes it in the queue is.
LEMMA AppendOrdered ==
  ASSUME IInv, NEW e, Appended(e), shard' \in Nat, shard' >= shard,
         asked' \in Seq(Queued), Left' \in Nat, Left' >= Left,
         \A a \in DOMAIN asked' : a \in DOMAIN asked /\ asked'[a] = asked[a],
         \A a \in DOMAIN asked' : asked'[a] = e => a > Left /\ a <= Left'
  PROVE  Ordered'
<1>0. TypeOK /\ Ordered /\ (ragged => log # <<>>)
  BY DEF IInv, Ordered
<1> DEFINE n == Len(log')
<1>1. /\ DOMAIN log' = 1..n /\ n \in Nat \ {0} /\ DOMAIN log = 1..Len(log)
      /\ Len(log) \in Nat
      /\ \A i \in DOMAIN log' : i # n => i \in DOMAIN log /\ log'[i] = log[i]
      /\ ragged => n \in DOMAIN log /\ log'[n].shard = log[n].shard
      /\ ~ragged => log'[n].shard = shard
      /\ log' \in Seq(LogLines)
  BY <1>0, AppendedShape DEF Appended
<1>2. \A i \in DOMAIN log' : \A x \in log'[i].evs :
        (x = e /\ i = n) \/ (i \in DOMAIN log /\ x \in log[i].evs)
  BY <1>0, AppendedEvents
<1> HIDE DEF n
<1>3. \A i \in DOMAIN log : log[i].shard \in Nat
  <2>1. log \in Seq(LogLines)
    BY <1>0 DEF TypeOK
  <2>2. \A i \in DOMAIN log : log[i] \in LogLines
    BY <1>1, <2>1
  <2> QED
    BY <2>2 DEF LogLines
<1>4. shard \in Nat /\ Left \in Int /\ DOMAIN asked = 1..Len(asked) /\ Len(asked) \in Nat
  <2>1. Len(asked) \in Nat /\ Len(queue) \in Nat /\ DOMAIN asked = 1..Len(asked)
    BY <1>0 DEF TypeOK
  <2>2. shard \in Nat
    BY <1>0 DEF TypeOK
  <2> QED
    BY <2>1, <2>2 DEF Left
<1>5. ASSUME NEW i \in DOMAIN log' PROVE log'[i].shard \in Nat /\ log'[i].shard <= shard
  <2>1. CASE i # n
    BY <1>0, <1>1, <1>3, <1>5, <2>1 DEF Ordered
  <2>2. CASE i = n
    BY <1>0, <1>1, <1>3, <1>4, <2>2 DEF Ordered
  <2> QED
    BY <2>1, <2>2
<1>6. ASSUME NEW i \in DOMAIN log', NEW j \in DOMAIN log', i < j
      PROVE  log'[i].shard <= log'[j].shard
  <2>0. i # n /\ i \in DOMAIN log /\ log'[i] = log[i]
    BY <1>1, <1>6
  <2>1. CASE j \in DOMAIN log /\ log'[j].shard = log[j].shard
    BY <1>0, <1>6, <2>0, <2>1 DEF Ordered
  <2>2. CASE ~(j \in DOMAIN log /\ log'[j].shard = log[j].shard)
    <3>1. log'[j].shard = shard
      BY <1>1, <2>2
    <3> QED
      BY <1>5, <3>1
  <2> QED
    BY <2>1, <2>2
<1>7. ASSUME NEW j \in DOMAIN log', NEW a \in DOMAIN asked', asked'[a] \in log'[j].evs
      PROVE  /\ a <= Left' /\ a \in DOMAIN asked /\ asked'[a] = asked[a]
             /\ \/ a > Left /\ j = n
                \/ a <= Left /\ j \in DOMAIN log /\ asked[a] \in log[j].evs
  <2>1. a \in DOMAIN asked /\ asked'[a] = asked[a] /\ a \in Nat
    BY <1>4
  <2>2. CASE asked'[a] = e /\ j = n
    BY <2>1, <2>2
  <2>3. CASE j \in DOMAIN log /\ asked'[a] \in log[j].evs
    <3>1. a <= Left
      BY <1>0, <2>1, <2>3 DEF Ordered
    <3> QED
      BY <1>4, <2>1, <2>3, <3>1
  <2> QED
    BY <1>2, <1>7, <2>2, <2>3
<1>8. ASSUME NEW i \in DOMAIN log', NEW j \in DOMAIN log', i < j,
             NEW a \in DOMAIN asked', NEW b \in DOMAIN asked',
             asked'[a] \in log'[i].evs, asked'[b] \in log'[j].evs
      PROVE  a < b
  <2>0. i # n /\ a \in Nat /\ b \in Nat
    BY <1>1, <1>8
  <2>1. a <= Left /\ i \in DOMAIN log /\ asked[a] \in log[i].evs /\ a \in DOMAIN asked
    BY <1>7, <1>8, <2>0
  <2>2. CASE b > Left
    BY <1>4, <2>0, <2>1, <2>2
  <2>3. CASE ~(b > Left)
    <3>1. j \in DOMAIN log /\ asked[b] \in log[j].evs /\ b \in DOMAIN asked
      BY <1>7, <1>8, <2>3
    <3> QED
      BY <1>0, <1>8, <2>1, <3>1 DEF Ordered
  <2> QED
    BY <2>2, <2>3
<1>9. \A j \in DOMAIN log' : log'[j].shard <= shard'
  BY <1>4, <1>5
<1>10. log' # <<>>
  BY <1>1 DEF n
<1> QED
  BY <1>6, <1>7, <1>8, <1>9, <1>10 DEF Ordered

\* No line is appended, and what has been asked for since is on none.
LEMMA KeptOrdered ==
  ASSUME IInv, log' = log, ragged' = ragged, shard' \in Nat,
         \A j \in DOMAIN log : log[j].shard <= shard',
         \A a \in DOMAIN asked' : \A j \in DOMAIN log :
           asked'[a] \in log[j].evs =>
             a \in DOMAIN asked /\ asked'[a] = asked[a] /\ a <= Left'
  PROVE  Ordered'
<1>0. Ordered
  BY DEF IInv
<1>1. \A i, j \in DOMAIN log' : i < j => log'[i].shard <= log'[j].shard
  BY <1>0 DEF Ordered
<1>2. ASSUME NEW i \in DOMAIN log', NEW j \in DOMAIN log', i < j,
             NEW a \in DOMAIN asked', NEW b \in DOMAIN asked',
             asked'[a] \in log'[i].evs, asked'[b] \in log'[j].evs
      PROVE  a < b
  <2>1. /\ i \in DOMAIN log /\ j \in DOMAIN log
        /\ asked'[a] \in log[i].evs /\ asked'[b] \in log[j].evs
    BY <1>2
  <2>2. /\ a \in DOMAIN asked /\ asked[a] \in log[i].evs
        /\ b \in DOMAIN asked /\ asked[b] \in log[j].evs
    BY <2>1
  <2> QED
    BY <1>0, <1>2, <2>1, <2>2 DEF Ordered
<1>3. ragged' => log' # <<>>
  BY <1>0 DEF Ordered
<1>4. \A j \in DOMAIN log' : \A a \in DOMAIN asked' : asked'[a] \in log'[j].evs => a <= Left'
  OBVIOUS
<1>5. \A j \in DOMAIN log' : log'[j].shard <= shard'
  OBVIOUS
<1> QED
  BY <1>1, <1>2, <1>3, <1>4, <1>5 DEF Ordered

\* e is on no line
Unwritten(e) == \A j \in DOMAIN log : e \notin log[j].evs

\* The line that is appended is that of a stored event, or stays unfinished.
LEMMA AppendWritten ==
  ASSUME IInv, NEW e, Appended(e), Unwritten(e), e \notin Thrown,
         Stored' \subseteq Stored \cup {e},
         \A x \in Thrown' : x \in Thrown \/ (x = e /\ ragged')
  PROVE  Written'
<1>0. TypeOK /\ Written /\ (ragged => log # <<>>)
  BY DEF IInv, Ordered
<1>1. ASSUME NEW x \in Stored' PROVE \E j \in DOMAIN log' : x \in log'[j].evs
  <2>1. CASE x = e
    BY <1>0, <2>1, AppendedShape, AppendedEvents
  <2>2. CASE x \in Stored
    <3>1. PICK j \in DOMAIN log : x \in log[j].evs
      BY <1>0, <2>2 DEF Written
    <3>2. j \in DOMAIN log' /\ x \in log'[j].evs
      BY <1>0, <3>1, AppendedShape, AppendedEvents
    <3> QED
      BY <3>2
  <2> QED
    BY <1>1, <2>1, <2>2
<1>2. ASSUME NEW x \in Thrown', NEW j \in Readable', x \in log'[j].evs
      PROVE  ragged' /\ j = Len(log')
  <2>0. j \in DOMAIN log' /\ log'[j].good
    BY <1>2 DEF Readable
  <2>1. CASE x \in Thrown
    <3>1. x # e
      BY <2>1
    <3>2. j \in DOMAIN log /\ x \in log[j].evs
      BY <1>0, <1>2, <2>0, <3>1, AppendedEvents
    <3>3. j # Len(log')
      <4>1. ASSUME j = Len(log') PROVE FALSE
        <5>1. ragged
          BY <1>0, <3>2, <4>1, AppendedShape
        <5> QED
          BY <2>0, <4>1, <5>1 DEF Appended
      <4> QED
        BY <4>1
    <3>4. log'[j] = log[j]
      BY <1>0, <2>0, <3>3, AppendedShape
    <3>5. j \in Readable
      BY <2>0, <3>2, <3>4 DEF Readable
    <3>6. ragged /\ j = Len(log)
      BY <1>0, <2>1, <3>2, <3>5 DEF Written
    <3>7. Len(log') = Len(log)
      BY <1>0, <3>6, AppendedShape
    <3> QED
      BY <3>3, <3>6, <3>7
  <2>2. CASE x = e /\ ragged'
    BY <1>0, <1>2, <2>0, <2>2, AppendedEvents DEF Unwritten
  <2> QED
    BY <1>2, <2>1, <2>2
<1> QED
  BY <1>1, <1>2 DEF Written

LEMMA KeptWritten ==
  ASSUME IInv, log' = log, ragged' = ragged, Stored' \subseteq Stored,
         \A x \in Thrown' : x \in Thrown \/ Unwritten(x)
  PROVE  Written'
<1>0. Written
  BY DEF IInv
<1>1. \A x \in Stored' : \E j \in DOMAIN log' : x \in log'[j].evs
  BY <1>0 DEF Written
<1>2. ASSUME NEW x \in Thrown', NEW j \in Readable', x \in log'[j].evs
      PROVE  ragged' /\ j = Len(log')
  <2>1. j \in Readable /\ j \in DOMAIN log /\ x \in log[j].evs
    BY <1>2 DEF Readable
  <2>2. x \in Thrown
    BY <1>2, <2>1 DEF Unwritten
  <2> QED
    BY <1>0, <2>1, <2>2 DEF Written
<1> QED
  BY <1>1, <1>2 DEF Written

\* Nothing that was stored is lost with the line that was unfinished.
LEMMA StoredIsKept ==
  ASSUME IInv, NEW e, Appended(e)
  PROVE  \A x \in Stored : x \in Loaded => x \in Loaded'
<1>0. TypeOK /\ Damage /\ (ragged => log # <<>>)
  BY DEF IInv, Ordered
<1>1. ASSUME NEW x \in Stored, x \in Loaded PROVE x \in Loaded'
  <2>1. x \in Loaded' \/ (ragged /\ x \in log[Len(log)].evs)
    BY <1>0, <1>1, AppendedLoaded
  <2>2. ~(ragged /\ x \in log[Len(log)].evs)
    BY <1>0, <1>1 DEF Damage
  <2> QED
    BY <2>1, <2>2
<1> QED
  BY <1>1

\* An append that goes through costs its event, when the last line was torn.
LEMMA StoredDamage ==
  ASSUME IInv, NEW e, Appended(e), ~ragged', ~ragged => e \in Loaded',
         Stored' \subseteq Stored \cup {e}, torn' = torn
  PROVE  Damage'
<1>0. TypeOK /\ Damage /\ torn \in Nat /\ IsFiniteSet(Lost)
  BY DEF IInv, TypeOK, Damage
<1>1. Lost' \subseteq Lost \cup {e} /\ (~ragged => Lost' \subseteq Lost)
  <2>1. ASSUME NEW x \in Lost' PROVE x \in Lost \/ (x = e /\ ragged)
    <3>1. x \in Stored' /\ x \notin Loaded'
      BY <2>1 DEF Lost
    <3>2. CASE x \in Stored
      <4>1. x \notin Loaded
        BY <3>1, <3>2, StoredIsKept
      <4> QED
        BY <3>2, <4>1 DEF Lost
    <3>3. CASE x = e
      BY <3>1, <3>3
    <3> QED
      BY <3>1, <3>2, <3>3
  <2> QED
    BY <2>1
<1>2. /\ IsFiniteSet(Lost \cup {e}) /\ Cardinality(Lost) \in Nat
      /\ Cardinality(Lost \cup {e}) \in Nat
      /\ Cardinality(Lost \cup {e}) <= Cardinality(Lost) + 1
  <2>1. IsFiniteSet(Lost \cup {e}) /\ Cardinality(Lost) \in Nat
    BY <1>0, FS_AddElement, FS_CardinalityType
  <2>2. Cardinality(Lost \cup {e}) = Cardinality(Lost) \/
        Cardinality(Lost \cup {e}) = Cardinality(Lost) + 1
    BY <1>0, FS_AddElement
  <2> QED
    BY <2>1, <2>2, FS_CardinalityType
<1>3. /\ IsFiniteSet(Lost') /\ Cardinality(Lost') \in Nat
      /\ Cardinality(Lost') <= Cardinality(Lost \cup {e})
      /\ ~ragged => Cardinality(Lost') <= Cardinality(Lost)
  BY <1>0, <1>1, <1>2, FS_Subset, FS_CardinalityType
<1>4. Cardinality(Lost') <= torn'
  <2>1. CASE ragged
    <3>1. Cardinality(Lost) + 1 <= torn
      BY <1>0, <2>1 DEF Damage
    <3> QED
      BY <1>0, <1>2, <1>3, <3>1
  <2>2. CASE ~ragged
    <3>1. Cardinality(Lost) + 0 <= torn
      BY <1>0, <2>2 DEF Damage
    <3> QED
      BY <1>0, <1>2, <1>3, <2>2, <3>1
  <2> QED
    BY <2>1, <2>2
<1>5. Cardinality(Lost') + 0 <= torn'
  BY <1>3, <1>4
<1> QED
  BY <1>3, <1>5 DEF Damage

\* One that stops half-way costs nothing yet.
LEMMA TornDamage ==
  ASSUME IInv, NEW e, Appended(e), ragged', e \notin Stored,
         Stored' \subseteq Stored, torn' = torn + 1
  PROVE  Damage'
<1>0. TypeOK /\ Damage /\ torn \in Nat /\ IsFiniteSet(Lost) /\ (ragged => log # <<>>)
  BY DEF IInv, TypeOK, Damage, Ordered
<1>1. log'[Len(log')].evs \cap Stored' = {}
  <2>1. CASE ragged
    <3>1. log[Len(log)].evs \cap Stored = {}
      BY <1>0, <2>1 DEF Damage
    <3>2. log'[Len(log')].evs = log[Len(log)].evs \cup {e}
      BY <1>0, <2>1, AppendedShape
    <3> QED
      BY <3>1, <3>2
  <2>2. CASE ~ragged
    BY <1>0, <2>2, AppendedShape
  <2> QED
    BY <2>1, <2>2
<1>2. Lost' \subseteq Lost
  BY StoredIsKept DEF Lost
<1>3. /\ IsFiniteSet(Lost') /\ Cardinality(Lost') \in Nat
      /\ Cardinality(Lost) \in Nat /\ Cardinality(Lost') <= Cardinality(Lost)
  BY <1>0, <1>2, FS_Subset, FS_CardinalityType
<1>4. Cardinality(Lost) <= torn
  <2>1. CASE ragged
    <3>1. Cardinality(Lost) + 1 <= torn
      BY <1>0, <2>1 DEF Damage
    <3> QED
      BY <1>0, <1>3, <3>1
  <2>2. CASE ~ragged
    <3>1. Cardinality(Lost) + 0 <= torn
      BY <1>0, <2>2 DEF Damage
    <3> QED
      BY <1>3, <3>1
  <2> QED
    BY <2>1, <2>2
<1>5. Cardinality(Lost') + 1 <= torn'
  BY <1>0, <1>3, <1>4
<1> QED
  BY <1>1, <1>3, <1>5 DEF Damage

LEMMA KeptDamage ==
  ASSUME IInv, log' = log, ragged' = ragged, torn' = torn, Stored' \subseteq Stored
  PROVE  Damage'
<1>0. Damage /\ torn \in Nat /\ IsFiniteSet(Lost)
  BY DEF IInv, TypeOK, Damage
<1>1. Loaded' = Loaded
  BY DEF Loaded, Readable
<1>2. Lost' \subseteq Lost
  BY <1>1 DEF Lost
<1>3. /\ IsFiniteSet(Lost') /\ Cardinality(Lost') \in Nat
      /\ Cardinality(Lost) \in Nat /\ Cardinality(Lost') <= Cardinality(Lost)
  BY <1>0, <1>2, FS_Subset, FS_CardinalityType
<1>4. CASE ragged
  <2>1. Cardinality(Lost) + 1 <= torn /\ log[Len(log)].evs \cap Stored = {}
    BY <1>0, <1>4 DEF Damage
  <2>2. Cardinality(Lost') + 1 <= torn' /\ log'[Len(log')].evs \cap Stored' = {}
    BY <1>0, <1>3, <2>1
  <2> QED
    BY <1>3, <1>4, <2>2 DEF Damage
<1>5. CASE ~ragged
  <2>1. Cardinality(Lost) + 0 <= torn
    BY <1>0, <1>5 DEF Damage
  <2>2. Cardinality(Lost') + 0 <= torn'
    BY <1>0, <1>3, <2>1
  <2> QED
    BY <1>3, <1>5, <2>2 DEF Damage
<1> QED
  BY <1>4, <1>5

-----------------------------------------------------------------------------
(* What the actions do to the queue                                        *)

LEMMA Shapes ==
  ASSUME TypeOK
  PROVE  /\ Len(asked) \in Nat /\ DOMAIN asked = 1..Len(asked)
         /\ Len(queue) \in Nat /\ DOMAIN queue = 1..Len(queue)
         /\ Len(log) \in Nat /\ DOMAIN log = 1..Len(log)
         /\ \A a \in DOMAIN asked : asked[a] \in Queued
         /\ \A k \in DOMAIN queue : queue[k] \in Entries /\ queue[k].ev \in Queued
         /\ running.ev \in Queued \cup {Nobody} /\ running.ok \in BOOLEAN
         /\ Left = Len(asked) - Len(queue) /\ Left \in Int
<1>1. /\ asked \in Seq(Queued) /\ queue \in Seq(Entries) /\ log \in Seq(LogLines)
      /\ running \in [ev : Queued \cup {Nobody}, ok : BOOLEAN]
  BY DEF TypeOK
<1>2. /\ Len(asked) \in Nat /\ DOMAIN asked = 1..Len(asked)
      /\ Len(queue) \in Nat /\ DOMAIN queue = 1..Len(queue)
      /\ Len(log) \in Nat /\ DOMAIN log = 1..Len(log)
  BY <1>1
<1>3. \A a \in DOMAIN asked : asked[a] \in Queued
  BY <1>1, <1>2
<1>4. \A k \in DOMAIN queue : queue[k] \in Entries
  BY <1>1, <1>2
<1>5. \A k \in DOMAIN queue : queue[k].ev \in Queued
  BY <1>4 DEF Entries
<1>6. running.ev \in Queued \cup {Nobody} /\ running.ok \in BOOLEAN
  BY <1>1
<1> QED
  BY <1>2, <1>3, <1>4, <1>5, <1>6 DEF Left

\* the places of the queue among all that was asked for
LEMMA Places ==
  ASSUME TypeOK, Len(queue) <= Len(asked)
  PROVE  /\ Left \in Nat /\ Left <= Len(asked)
         /\ Len(asked) = Left + Len(queue)
         /\ Left # 0 => Left \in DOMAIN asked
         /\ \A k \in DOMAIN queue : k \in Nat /\ k # 0 /\ Left + k \in DOMAIN asked
<1>1. PICK m, n, l : m = Len(asked) /\ n = Len(queue) /\ l = Left
  OBVIOUS
<1>2. m \in Nat /\ n \in Nat /\ n <= m /\ l = m - n
  BY <1>1, Shapes
<1>3. /\ l \in Nat /\ l <= m /\ m = l + n /\ (l # 0 => l \in 1..m)
      /\ \A k \in 1..n : k \in Nat /\ k # 0 /\ l + k \in 1..m
  BY <1>2
<1> QED
  BY <1>1, <1>3, Shapes

\* The head of the queue is asked for, not yet answered and on no line.
LEMMA HeadFields ==
  ASSUME IInv, queue # <<>>
  PROVE  /\ 1 \in DOMAIN queue /\ Takes.first = queue[1] /\ Takes.first.ev \in Queued
         /\ Takes.first.ev = asked[Left + 1] /\ Left + 1 \in DOMAIN asked
         /\ Takes.first.ev \notin fresh /\ answer[Takes.first.ev] = "none"
         /\ Unwritten(Takes.first.ev) /\ Takes.first.ev # running.ev
         /\ Takes.first.ev \notin Stored /\ Takes.first.ev \notin Thrown
         /\ \A a \in DOMAIN asked : asked[a] = Takes.first.ev => a = Left + 1
<1>0. TypeOK /\ Chain /\ Untouched
  BY DEF IInv
<1>1. /\ Takes.first = queue[1] /\ Takes.first.ev \in Queued
      /\ Len(queue) \in Nat /\ Len(queue) # 0
  BY <1>0, TakesFields
<1>2. 1 \in DOMAIN queue
  BY <1>0, <1>1, Shapes
<1>3. Takes.first.ev = asked[Left + 1]
  BY <1>0, <1>1, <1>2 DEF Chain
<1>4. Left + 1 \in DOMAIN asked /\ Left \in Nat
  BY <1>0, <1>2, Places DEF Chain
<1>5. Takes.first.ev \notin fresh
  BY <1>0, <1>3, <1>4 DEF Chain
<1>6. answer[Takes.first.ev] = "none" /\ Unwritten(Takes.first.ev)
  BY <1>0, <1>1, <1>2 DEF Untouched, Unwritten
<1>7. \A a \in DOMAIN asked : asked[a] = Takes.first.ev => a = Left + 1
  BY <1>0, <1>3, <1>4 DEF Chain
<1>8. Takes.first.ev # running.ev
  <2>1. CASE Idle
    BY <1>1, <2>1, EventsAssumption DEF Idle, Events
  <2>2. CASE ~Idle
    <3>1. Left # 0 /\ running.ev = asked[Left]
      BY <1>0, <2>2 DEF Chain
    <3>2. Left \in DOMAIN asked /\ Left # Left + 1
      BY <1>0, <1>4, <3>1, Places DEF Chain
    <3> QED
      BY <1>7, <3>1, <3>2
  <2> QED
    BY <2>1, <2>2
<1>9. Takes.first.ev \notin Stored /\ Takes.first.ev \notin Thrown
  BY <1>6, <1>8 DEF Stored, Thrown
<1> QED
  BY <1>1, <1>2, <1>3, <1>4, <1>5, <1>6, <1>7, <1>8, <1>9

\* The head leaves the queue, to be written or because it was cancelled.
LEMMA Shift ==
  ASSUME IInv, queue # <<>>, Idle, queue' = Takes.rest,
         UNCHANGED <<asked, fresh, answer, flush>>,
         running' = running \/ running'.ev = Takes.first.ev
  PROVE  /\ queue' \in Seq(Entries) /\ Len(queue') = Len(queue) - 1
         /\ DOMAIN queue' = 1..(Len(queue) - 1)
         /\ Left' = Left + 1 /\ Left' \in Nat
         /\ \A k \in DOMAIN queue' :
              k + 1 \in DOMAIN queue /\ queue'[k] = queue[k + 1]
              /\ queue'[k].ev # Takes.first.ev
         /\ Chain' /\ Flushes' /\ Spared'
<1>0. TypeOK /\ Chain /\ Flushes /\ Spared
  BY DEF IInv
<1>1. /\ queue' \in Seq(Entries) /\ Len(queue') = Len(queue) - 1
      /\ DOMAIN queue' = 1..(Len(queue) - 1)
      /\ Len(queue) \in Nat /\ Len(queue) # 0
      /\ \A k \in DOMAIN queue' : queue'[k] = queue[k + 1]
  BY <1>0, TakesFields
<1>2. /\ Len(asked) \in Nat /\ DOMAIN asked = 1..Len(asked)
      /\ DOMAIN queue = 1..Len(queue) /\ Left = Len(asked) - Len(queue)
      /\ Len(queue) <= Len(asked)
  BY <1>0, Shapes DEF Chain
<1>3. Left' = Left + 1 /\ Left' \in Nat /\ Left \in Nat
  <2>1. Left' = Len(asked) - Len(queue')
    BY DEF Left
  <2>2. PICK m, n, p, l : m = Len(asked) /\ n = Len(queue) /\ p = Len(queue') /\ l = Left
    BY Zenon
  <2>a. Left = Len(asked) - Len(queue)
    BY DEF Left
  <2>b. m \in Nat /\ n \in Nat /\ n <= m
    BY <1>1, <1>2, <2>2, Zenon
  <2>c. p = n - 1
    BY <1>1, <2>2
  <2>d. l = m - n
    BY <2>a, <2>2
  <2>3. m \in Nat /\ n \in Nat /\ n <= m /\ p = n - 1 /\ l = m - n
    BY <2>b, <2>c, <2>d
  <2>4. m - p = l + 1 /\ l \in Nat
    BY <2>3
  <2>5. Left' = m - p
    BY <2>1, <2>2
  <2>6. Left' = l + 1
    BY <2>4, <2>5
  <2>7. Left = l
    BY <2>2
  <2> QED
    BY <2>4, <2>6, <2>7
<1>4. ASSUME NEW k \in DOMAIN queue'
      PROVE  /\ k + 1 \in DOMAIN queue /\ queue'[k] = queue[k + 1]
             /\ queue'[k].ev = asked[Left' + k] /\ queue'[k].ev # Takes.first.ev
  <2>1. k \in Nat /\ k # 0 /\ k + 1 \in DOMAIN queue
    <3>1. \A n \in Nat : \A i \in 1..(n - 1) : i \in Nat /\ i # 0 /\ i + 1 \in 1..n
      OBVIOUS
    <3> QED
      BY <1>1, <1>2, <1>4, <3>1, Zenon
  <2>2. queue[k + 1].ev = asked[Left + (k + 1)]
    BY <1>0, <2>1 DEF Chain
  <2>3. Left' + k = Left + (k + 1) /\ Left' + k # Left + 1 /\ Left' + k \in DOMAIN asked
    <3>1. Left + (k + 1) \in DOMAIN asked
      BY <1>0, <2>1, Places DEF Chain
    <3>2. (Left + 1) + k = Left + (k + 1) /\ (Left + 1) + k # Left + 1
      BY <1>3, <2>1
    <3> QED
      BY <1>3, <3>1, <3>2
  <2>4. asked[Left' + k] # Takes.first.ev
    BY <2>3, HeadFields
  <2> QED
    BY <1>1, <1>4, <2>1, <2>2, <2>3, <2>4
<1>5. Chain'
  <2>1. Len(queue') <= Len(asked')
    <3>1. \A m, n \in Nat : n <= m => n - 1 <= m
      OBVIOUS
    <3> QED
      BY <1>1, <1>2, <3>1, Zenon
  <2>2. ~Idle' => Left' # 0 /\ running'.ev = asked'[Left']
    <3>1. ASSUME ~Idle' PROVE running'.ev = Takes.first.ev
      BY <3>1 DEF Idle
    <3>2. Takes.first.ev = asked[Left + 1]
      BY HeadFields
    <3> QED
      BY <1>3, <3>1, <3>2
  <2>3. \A k \in DOMAIN queue' : queue'[k].ev = asked'[Left' + k]
    BY <1>4
  <2>4. /\ \A a, b \in DOMAIN asked' : asked'[a] = asked'[b] => a = b
        /\ \A a \in DOMAIN asked' : asked'[a] \notin fresh'
    BY <1>0 DEF Chain
  <2> QED
    BY <2>1, <2>2, <2>3, <2>4 DEF Chain
<1>6. Flushes'
  <2>1. Completed = Left - 0
    <3>1. Completed = Len(asked) - Len(queue) - 0
      BY DEF Completed
    <3> QED
      BY <1>2, <3>1
  <2>2. Completed' = Left' - (IF Idle' THEN 0 ELSE 1)
    BY DEF Completed, Left
  <2>3. Completed' \in Int /\ Completed' >= Completed /\ Completed \in Int
    BY <1>3, <2>1, <2>2
  <2>4. flush.upTo \in Nat
    BY <1>0 DEF TypeOK
  <2> QED
    BY <1>0, <2>3, <2>4 DEF Flushes
<1>7. Spared'
  <2>1. \A k \in DOMAIN queue' : queue'[k].cancelled =>
           Durability(queue'[k].ev) = "best-effort"
    BY <1>0, <1>4 DEF Spared
  <2> QED
    BY <2>1 DEF Spared, Durability
<1> QED
  BY <1>1, <1>3, <1>4, <1>5, <1>6, <1>7

\* What is enqueued comes last.
LEMMA Enqueued ==
  ASSUME IInv, NEW e \in Queued, e \in fresh, EnqueueTask(e)
  PROVE  /\ queue' \in Seq(Entries) /\ Len(queue') = Len(queue) + 1
         /\ asked' \in Seq(Queued) /\ Len(asked') = Len(asked) + 1
         /\ DOMAIN queue' = 1..(Len(queue) + 1) /\ DOMAIN asked' = 1..(Len(asked) + 1)
         /\ fresh' = fresh \ {e}
         /\ \A a \in DOMAIN asked : asked'[a] = asked[a]
         /\ asked'[Len(asked) + 1] = e
         /\ \A k \in DOMAIN queue :
              /\ queue'[k].ev = queue[k].ev
              /\ queue'[k].cancelled =>
                   queue[k].cancelled \/ Durability(queue[k].ev) = "best-effort"
         /\ queue'[Len(queue) + 1].ev = e /\ ~queue'[Len(queue) + 1].cancelled
         /\ Left' = Left
<1>0. TypeOK
  BY DEF IInv
<1>1. PICK q : q = Backpressure(queue, e)
  OBVIOUS
<1>2. PICK x : x = [ev |-> e, cancelled |-> FALSE]
  OBVIOUS
<1>3. x \in Entries /\ x.ev = e /\ ~x.cancelled
  BY <1>2 DEF Entries
<1>4. /\ q \in Seq(Entries) /\ Len(q) = Len(queue)
      /\ \A k \in DOMAIN queue :
           /\ q[k].ev = queue[k].ev
           /\ q[k].cancelled =>
                queue[k].cancelled \/ Durability(queue[k].ev) = "best-effort"
  BY <1>0, <1>1, BackpressureFields
<1>5. queue' = Append(q, x) /\ asked' = Append(asked, e) /\ fresh' = fresh \ {e}
  BY <1>1, <1>2 DEF EnqueueTask
<1>6. asked \in Seq(Queued) /\ Len(queue) \in Nat /\ DOMAIN queue = 1..Len(queue)
      /\ Len(asked) \in Nat /\ DOMAIN asked = 1..Len(asked)
  BY <1>0 DEF TypeOK
<1>7. queue' \in Seq(Entries) /\ Len(queue') = Len(queue) + 1
  <2>1. Append(q, x) \in Seq(Entries) /\ Len(Append(q, x)) = Len(q) + 1
    BY <1>3, <1>4, AppendProperties
  <2> QED
    BY <1>4, <1>5, <2>1
<1>8. /\ \A k \in DOMAIN queue : queue'[k] = q[k]
      /\ queue'[Len(queue) + 1] = x
  <2>1. \A k \in 1..Len(q) : Append(q, x)[k] = q[k]
    BY <1>3, <1>4, AppendProperties
  <2>2. Append(q, x)[Len(q) + 1] = x
    BY <1>3, <1>4, AppendProperties
  <2> QED
    BY <1>4, <1>5, <1>6, <2>1, <2>2
<1>9. asked' \in Seq(Queued) /\ Len(asked') = Len(asked) + 1
  BY <1>5, <1>6, AppendProperties
<1>10. \A a \in DOMAIN asked : asked'[a] = asked[a]
  BY <1>5, <1>6, AppendProperties
<1>11. asked'[Len(asked) + 1] = e
  BY <1>5, <1>6, AppendProperties
<1>12. DOMAIN queue' = 1..(Len(queue) + 1) /\ DOMAIN asked' = 1..(Len(asked) + 1)
  BY <1>6, <1>7, <1>9
<1>13. Left' = Left
  BY <1>6, <1>7, <1>9 DEF Left
<1>14. \A k \in DOMAIN queue :
         /\ queue'[k].ev = queue[k].ev
         /\ queue'[k].cancelled =>
              queue[k].cancelled \/ Durability(queue[k].ev) = "best-effort"
  BY <1>4, <1>8
<1>15. queue'[Len(queue) + 1].ev = e /\ ~queue'[Len(queue) + 1].cancelled
  BY <1>3, <1>8
<1> QED
  BY <1>5, <1>7, <1>9, <1>10, <1>11, <1>12, <1>13, <1>14, <1>15

\* What has been appended was not fresh and waits no longer.
LEMMA AppendUntouched ==
  ASSUME IInv, NEW e, Appended(e), answer' = answer,
         fresh' \subseteq fresh, e \notin fresh',
         \A k \in DOMAIN queue' :
           queue'[k].ev # e /\ \E m \in DOMAIN queue : queue'[k] = queue[m]
  PROVE  Untouched'
<1>0. TypeOK /\ Untouched /\ (ragged => log # <<>>)
  BY DEF IInv, Ordered
<1>1. \A j \in DOMAIN log' : \A x \in log'[j].evs :
        x = e \/ (j \in DOMAIN log /\ x \in log[j].evs)
  BY <1>0, AppendedEvents
<1>2. \A x \in Queued : answer'[x] # "none" => x \notin fresh'
  BY <1>0 DEF Untouched
<1>3. \A k \in DOMAIN queue' : answer'[queue'[k].ev] = "none"
  BY <1>0 DEF Untouched
<1>4. \A j \in DOMAIN log' : \A x \in log'[j].evs : x \notin fresh'
  BY <1>0, <1>1 DEF Untouched
<1>5. ASSUME NEW j \in DOMAIN log', NEW k \in DOMAIN queue'
      PROVE  queue'[k].ev \notin log'[j].evs
  BY <1>0, <1>1, <1>5 DEF Untouched
<1> QED
  BY <1>2, <1>3, <1>4, <1>5 DEF Untouched

LEMMA KeptUntouched ==
  ASSUME IInv, log' = log, answer' = answer, fresh' \subseteq fresh,
         \A k \in DOMAIN queue' :
           \/ queue'[k].ev \in fresh /\ queue'[k].ev \in Queued
           \/ \E m \in DOMAIN queue : queue'[k].ev = queue[m].ev
  PROVE  Untouched'
<1>0. TypeOK /\ Untouched
  BY DEF IInv
<1>1. \A x \in Queued : answer[x] \in {"none", "ok", "failed"}
  BY <1>0 DEF TypeOK
<1>2. ASSUME NEW k \in DOMAIN queue'
      PROVE  /\ answer'[queue'[k].ev] = "none"
             /\ \A j \in DOMAIN log' : queue'[k].ev \notin log'[j].evs
  <2>1. CASE queue'[k].ev \in fresh /\ queue'[k].ev \in Queued
    BY <1>0, <2>1 DEF Untouched
  <2>2. CASE \E m \in DOMAIN queue : queue'[k].ev = queue[m].ev
    BY <1>0, <2>2 DEF Untouched
  <2> QED
    BY <1>2, <2>1, <2>2
<1> QED
  BY <1>0, <1>2 DEF Untouched

\* the events that end a history, after an append
LEMMA AppendEnds ==
  ASSUME IInv, NEW e, Appended(e)
  PROVE  /\ Ends' \subseteq Ends \cup {e}
         /\ e \notin Terminals \cup Aborts => Ends' \subseteq Ends
<1>1. Loaded' \subseteq Loaded \cup {e}
  BY AppendedLoaded DEF IInv, Ordered
<1> QED
  BY <1>1 DEF Ends

LEMMA KeptEnds ==
  ASSUME log' = log
  PROVE  Ends' = Ends
  BY DEF Ends, Loaded, Readable

\* Before its first restart, and for ever in a resident, nobody has sealed it.
LEMMA NothingSealed ==
  ASSUME IInv, Aborts \subseteq fresh
  PROVE  \A x \in Ends : x \notin Aborts
<1>1. ASSUME NEW x \in Ends PROVE x \notin fresh
  <2>1. PICK j \in DOMAIN log : x \in log[j].evs
    BY DEF Ends, Loaded, Readable
  <2> QED
    BY <2>1 DEF IInv, Untouched
<1> QED
  BY <1>1

\* Appending the head of the queue ends no history that had ended.
LEMMA HeadEnds ==
  ASSUME IInv, queue # <<>>, Appended(Takes.first.ev)
  PROVE  /\ process \in {"up", "sealing"}
         /\ \A x, y \in Ends' : x \in Aborts => y = x
<1>0. TypeOK /\ Sealing
  BY DEF IInv
<1>1. process \in {"up", "sealing"}
  BY <1>0 DEF TypeOK, Sealing
<1>2. CASE process = "up"
  <2>1. Aborts \subseteq fresh
    BY <1>0, <1>2 DEF Sealing
  <2>2. Takes.first.ev \notin Aborts
    BY <2>1, HeadFields
  <2>3. \A x \in Ends' : x \notin Aborts
    BY <2>1, <2>2, NothingSealed, AppendEnds
  <2> QED
    BY <1>1, <2>3
<1>3. CASE process = "sealing"
  <2>1. Ends = {}
    BY <1>0, <1>3 DEF Sealing
  <2> QED
    BY <1>1, <2>1, AppendEnds
<1> QED
  BY <1>1, <1>2, <1>3

\* the recovery of a history, when the head of the queue leaves it
LEMMA RunSealing ==
  ASSUME IInv, queue # <<>>, process \in {"up", "sealing"},
         UNCHANGED <<process, lifetime, fresh>>,
         queue' \in Seq(Entries), Len(queue') = Len(queue) - 1,
         \A x, y \in Ends' : x \in Aborts => y = x
  PROVE  Sealing'
<1>0. TypeOK /\ Sealing
  BY DEF IInv
<1>1. process = "sealing" => queue' = <<>>
  <2>1. ASSUME process = "sealing" PROVE queue' = <<>>
    <3>1. Len(queue) <= 1 /\ Len(queue) \in Nat /\ Len(queue) # 0
      BY <1>0, <2>1, TakesFields DEF Sealing
    <3>2. Len(queue') = 0
      BY <3>1
    <3> QED
      BY <3>2, EmptySeq
  <2> QED
    BY <2>1
<1>2. process = "sealing" =>
        /\ Len(queue') <= 1
        /\ queue' # <<>> => queue'[1].ev \in Aborts /\ Ends' = {}
  BY <1>1
<1>3. process' \in {"up", "sealing"}
  OBVIOUS
<1>4. /\ lifetime' = "resident" \/ process' = "up" => Aborts \subseteq fresh'
      /\ process' = "sealing" => lifetime' = "ephemeral"
  BY <1>0 DEF Sealing
<1> QED
  BY <1>2, <1>3, <1>4 DEF Sealing

-----------------------------------------------------------------------------
(* A task of the chain runs                                                *)

\* the sets of stored and thrown events, when nothing is answered
LEMMA SameAnswers ==
  ASSUME UNCHANGED <<running, answer>>
  PROVE  Stored' = Stored /\ Thrown' = Thrown
  BY DEF Stored, Thrown

LEMMA NewAnswers ==
  ASSUME IInv, Idle, answer' = answer, NEW e \in Queued, NEW ok \in BOOLEAN,
         running' = [ev |-> e, ok |-> ok]
  PROVE  /\ Stored' \subseteq Stored \cup {e} /\ (~ok => Stored' \subseteq Stored)
         /\ Thrown' \subseteq Thrown \cup {e} /\ (ok => Thrown' \subseteq Thrown)
<1>1. running'.ev = e /\ running'.ok = ok
  OBVIOUS
<1> QED
  BY <1>1 DEF Stored, Thrown

\* A cancelled task does nothing.
LEMMA CancelledRuns ==
  ASSUME IInv, TaskRuns, Takes.first.cancelled
  PROVE  IInv'
<1>0. TypeOK
  BY DEF IInv
<1>1. /\ queue # <<>> /\ Idle /\ process \in {"up", "sealing"} /\ queue' = Takes.rest
      /\ UNCHANGED <<running, disk, ledger, torn, fresh, asked, answer, flush, process>>
  BY DEF TaskRuns
<1>2. /\ log' = log /\ ragged' = ragged /\ lifetime' = lifetime
      /\ shard' = shard /\ count' = count
  BY <1>1 DEF disk, ledger
<1>3. /\ queue' \in Seq(Entries) /\ Len(queue') = Len(queue) - 1
      /\ Left' = Left + 1 /\ Left' \in Nat
      /\ \A k \in DOMAIN queue' :
           k + 1 \in DOMAIN queue /\ queue'[k] = queue[k + 1]
      /\ Chain' /\ Flushes' /\ Spared'
  BY <1>1, Shift
<1>4. TypeOK'
  BY <1>0, <1>1, <1>2, <1>3 DEF TypeOK
<1>5. Untouched'
  <2>1. \A k \in DOMAIN queue' : \E m \in DOMAIN queue : queue'[k].ev = queue[m].ev
    BY <1>3
  <2> QED
    BY <1>1, <1>2, <2>1, KeptUntouched
<1>6. Ordered'
  <2>1. \A j \in DOMAIN log : log[j].shard <= shard
    BY DEF IInv, Ordered
  <2>2. \A a \in DOMAIN asked : \A j \in DOMAIN log : asked[a] \in log[j].evs => a <= Left'
    <3>1. ASSUME NEW a \in DOMAIN asked, NEW j \in DOMAIN log, asked[a] \in log[j].evs
          PROVE  a <= Left'
      <4>1. a <= Left /\ a \in Nat /\ Left \in Int
        BY <1>0, <3>1, Shapes DEF IInv, Ordered
      <4> QED
        BY <1>3, <4>1
    <3> QED
      BY <3>1
  <2>3. shard \in Nat
    BY <1>0 DEF TypeOK
  <2> QED
    BY <1>1, <1>2, <2>1, <2>2, <2>3, KeptOrdered
<1>7. Written' /\ Damage'
  BY <1>1, <1>2, SameAnswers, KeptWritten, KeptDamage
<1>8. Sealing'
  <2>1. \A x, y \in Ends' : x \in Aborts => y = x
    BY <1>2, KeptEnds DEF IInv, Sealing
  <2> QED
    BY <1>1, <1>2, <1>3, <2>1, RunSealing
<1> QED
  BY <1>3, <1>4, <1>5, <1>6, <1>7, <1>8 DEF IInv

\* The head of the queue is on its way to the disk: what that changes there.
LEMMA HeadAppended ==
  ASSUME IInv, queue # <<>>, Idle, queue' = Takes.rest,
         UNCHANGED <<fresh, asked, answer, flush, process, lifetime>>,
         Appended(Takes.first.ev), shard' \in Nat, shard' >= shard,
         running'.ev = Takes.first.ev
  PROVE  Untouched' /\ Ordered' /\ Sealing'
<1>0. TypeOK
  BY DEF IInv
<1>1. /\ queue' \in Seq(Entries) /\ Len(queue') = Len(queue) - 1
      /\ Left' = Left + 1 /\ Left' \in Nat
      /\ \A k \in DOMAIN queue' :
           k + 1 \in DOMAIN queue /\ queue'[k] = queue[k + 1]
           /\ queue'[k].ev # Takes.first.ev
  BY Shift
<1>2. Untouched'
  <2>1. \A k \in DOMAIN queue' :
          queue'[k].ev # Takes.first.ev /\ \E m \in DOMAIN queue : queue'[k] = queue[m]
    BY <1>1
  <2>2. Takes.first.ev \notin fresh'
    BY HeadFields
  <2> QED
    BY <2>1, <2>2, AppendUntouched
<1>3. Ordered'
  <2>1. Left \in Nat
    BY <1>0, Places DEF IInv, Chain
  <2>2. \A a \in DOMAIN asked' : asked'[a] = Takes.first.ev => a = Left + 1
    BY HeadFields
  <2>3. \A a \in DOMAIN asked' : asked'[a] = Takes.first.ev => a > Left /\ a <= Left'
    BY <1>1, <2>1, <2>2
  <2>4. asked' \in Seq(Queued)
    BY <1>0 DEF TypeOK
  <2>5. Left' >= Left
    BY <1>1, <2>1
  <2>6. \A a \in DOMAIN asked' : a \in DOMAIN asked /\ asked'[a] = asked[a]
    OBVIOUS
  <2> QED
    BY <1>1, <2>3, <2>4, <2>5, <2>6, AppendOrdered
<1>4. Sealing'
  BY <1>1, HeadEnds, RunSealing
<1> QED
  BY <1>2, <1>3, <1>4

\* A task's append goes through.
LEMMA StoredRuns ==
  ASSUME IInv, queue # <<>>, Idle, queue' = Takes.rest,
         UNCHANGED <<fresh, asked, answer, flush, process>>,
         AppendStored(Takes.first.ev), running' = [ev |-> Takes.first.ev, ok |-> TRUE]
  PROVE  IInv'
<1>0. TypeOK
  BY DEF IInv
<1> DEFINE e == Takes.first.ev
<1>1. /\ e \in Queued /\ e \in Events /\ Unwritten(e) /\ e \notin Thrown
      /\ running'.ev = e
  BY HeadFields DEF Events
<1>2. /\ Appended(e) /\ ~ragged' /\ ragged' \in BOOLEAN /\ lifetime' = lifetime
      /\ ~ragged => e \in Loaded'
      /\ torn' = torn
  BY <1>1, LineWritten DEF AppendStored
<1>3. shard' \in Nat \ {0} /\ shard' >= shard /\ count' \in 0..(CheckInterval - 1)
  BY <1>0, LedgerMoves DEF AppendStored
<1>4. queue' \in Seq(Entries) /\ Chain' /\ Flushes' /\ Spared'
  BY <1>1, Shift
<1>5. Untouched' /\ Ordered' /\ Sealing'
  BY <1>1, <1>2, <1>3, HeadAppended
<1>6. Stored' \subseteq Stored \cup {e} /\ Thrown' \subseteq Thrown
  BY <1>1, NewAnswers
<1> HIDE DEF e
<1>7. Written'
  BY <1>1, <1>2, <1>6, AppendWritten
<1>8. Damage'
  BY <1>2, <1>6, StoredDamage
<1>9. TypeOK'
  <2>1. running' \in [ev : Queued \cup {Nobody}, ok : BOOLEAN]
    BY <1>1 DEF e
  <2>2. log' \in Seq(LogLines)
    BY <1>2 DEF Appended
  <2> QED
    BY <1>0, <1>2, <1>3, <1>4, <2>1, <2>2 DEF TypeOK
<1> QED
  BY <1>4, <1>5, <1>7, <1>8, <1>9 DEF IInv

\* It throws, with a part of the line on disk.
LEMMA TornRuns ==
  ASSUME IInv, queue # <<>>, Idle, queue' = Takes.rest,
         UNCHANGED <<fresh, asked, answer, flush, process, shard, count>>,
         TearLine(Takes.first.ev), running' = [ev |-> Takes.first.ev, ok |-> FALSE]
  PROVE  IInv'
<1>0. TypeOK
  BY DEF IInv
<1> DEFINE e == Takes.first.ev
<1>1. /\ e \in Queued /\ e \in Events /\ Unwritten(e) /\ e \notin Thrown /\ e \notin Stored
      /\ running'.ev = e
  BY HeadFields DEF Events
<1>2. /\ Appended(e) /\ ragged' /\ ragged' \in BOOLEAN /\ lifetime' = lifetime
      /\ torn' = torn + 1 /\ torn' \in 0..MaxTears
  BY <1>1, LineTorn
<1>3. shard' \in Nat /\ shard' >= shard
  BY <1>0 DEF TypeOK
<1>4. queue' \in Seq(Entries) /\ Chain' /\ Flushes' /\ Spared'
  BY <1>1, Shift
<1>5. Untouched' /\ Ordered' /\ Sealing'
  BY <1>1, <1>2, <1>3, HeadAppended
<1>6. Stored' \subseteq Stored /\ Thrown' \subseteq Thrown \cup {e}
  BY <1>1, NewAnswers
<1> HIDE DEF e
<1>7. Written'
  <2>1. Stored' \subseteq Stored \cup {e}
    BY <1>6
  <2>2. \A x \in Thrown' : x \in Thrown \/ (x = e /\ ragged')
    BY <1>2, <1>6
  <2> QED
    BY <1>1, <1>2, <2>1, <2>2, AppendWritten
<1>8. Damage'
  BY <1>1, <1>2, <1>6, TornDamage
<1>9. TypeOK'
  <2>1. running' \in [ev : Queued \cup {Nobody}, ok : BOOLEAN]
    BY <1>1 DEF e
  <2>2. log' \in Seq(LogLines)
    BY <1>2 DEF Appended
  <2> QED
    BY <1>0, <1>2, <1>4, <2>1, <2>2 DEF TypeOK
<1> QED
  BY <1>4, <1>5, <1>7, <1>8, <1>9 DEF IInv

\* It throws and leaves nothing.
LEMMA ThrownRuns ==
  ASSUME IInv, queue # <<>>, Idle, queue' = Takes.rest,
         UNCHANGED <<fresh, asked, answer, flush, process, shard, count>>,
         UNCHANGED <<log, ragged, lifetime, torn>>,
         running' = [ev |-> Takes.first.ev, ok |-> FALSE]
  PROVE  IInv'
<1>0. TypeOK
  BY DEF IInv
<1> DEFINE e == Takes.first.ev
<1>1. /\ e \in Queued /\ Unwritten(e) /\ running'.ev = e
      /\ process \in {"up", "down", "recovering", "sealing", "closed"}
  BY <1>0, HeadFields DEF TypeOK
<1>2. /\ queue' \in Seq(Entries) /\ Len(queue') = Len(queue) - 1
      /\ Left' = Left + 1 /\ Left' \in Nat
      /\ \A k \in DOMAIN queue' :
           k + 1 \in DOMAIN queue /\ queue'[k] = queue[k + 1]
      /\ Chain' /\ Flushes' /\ Spared'
  BY <1>1, Shift
<1>3. Stored' \subseteq Stored /\ Thrown' \subseteq Thrown \cup {e}
  BY <1>1, NewAnswers
<1>4. Untouched'
  <2>1. \A k \in DOMAIN queue' : \E m \in DOMAIN queue : queue'[k].ev = queue[m].ev
    BY <1>2
  <2> QED
    BY <2>1, KeptUntouched
<1>5. Ordered'
  <2>1. \A j \in DOMAIN log : log[j].shard <= shard
    BY DEF IInv, Ordered
  <2>2. \A a \in DOMAIN asked : \A j \in DOMAIN log : asked[a] \in log[j].evs => a <= Left'
    <3>1. ASSUME NEW a \in DOMAIN asked, NEW j \in DOMAIN log, asked[a] \in log[j].evs
          PROVE  a <= Left'
      <4>1. a <= Left /\ a \in Nat /\ Left \in Int
        BY <1>0, <3>1, Shapes DEF IInv, Ordered
      <4> QED
        BY <1>2, <4>1
    <3> QED
      BY <3>1
  <2>3. shard \in Nat
    BY <1>0 DEF TypeOK
  <2> QED
    BY <2>1, <2>2, <2>3, KeptOrdered
<1>6. Written' /\ Damage'
  <2>1. \A x \in Thrown' : x \in Thrown \/ Unwritten(x)
    BY <1>1, <1>3
  <2> QED
    BY <1>3, <2>1, KeptWritten, KeptDamage
<1>7. Sealing'
  <2>1. \A x, y \in Ends' : x \in Aborts => y = x
    BY KeptEnds DEF IInv, Sealing
  <2>2. process \in {"up", "sealing"}
    BY <1>1 DEF IInv, Sealing
  <2> QED
    BY <1>2, <2>1, <2>2, RunSealing
<1>8. TypeOK'
  <2>1. running' \in [ev : Queued \cup {Nobody}, ok : BOOLEAN]
    BY <1>1 DEF e
  <2> QED
    BY <1>0, <1>2, <2>1 DEF TypeOK
<1> QED
  BY <1>2, <1>4, <1>5, <1>6, <1>7, <1>8 DEF IInv

LEMMA TaskRunsKeeps ==
  ASSUME IInv, TaskRuns
  PROVE  IInv'
<1>1. /\ queue # <<>> /\ Idle /\ queue' = Takes.rest
      /\ UNCHANGED <<fresh, asked, answer, flush, process>>
  BY DEF TaskRuns
<1>2. CASE Takes.first.cancelled
  BY <1>2, CancelledRuns
<1>3. CASE AppendStored(Takes.first.ev) /\ running' = [ev |-> Takes.first.ev, ok |-> TRUE]
  BY <1>1, <1>3, StoredRuns
<1>4. CASE AppendThrows(Takes.first.ev) /\ running' = [ev |-> Takes.first.ev, ok |-> FALSE]
  <2>1. UNCHANGED <<shard, count>>
    BY <1>4 DEF AppendThrows
  <2>2. CASE TearLine(Takes.first.ev)
    BY <1>1, <1>4, <2>1, <2>2, TornRuns
  <2>3. CASE UNCHANGED <<disk, torn>>
    <3>1. UNCHANGED <<log, ragged, lifetime, torn>>
      BY <2>3 DEF disk
    <3> QED
      BY <1>1, <1>4, <2>1, <3>1, ThrownRuns
  <2> QED
    BY <1>4, <2>2, <2>3 DEF AppendThrows
<1>5. \/ Takes.first.cancelled
      \/ AppendStored(Takes.first.ev) /\ running' = [ev |-> Takes.first.ev, ok |-> TRUE]
      \/ AppendThrows(Takes.first.ev) /\ running' = [ev |-> Takes.first.ev, ok |-> FALSE]
  BY Zenon DEF TaskRuns
<1> QED
  BY <1>2, <1>3, <1>4, <1>5

-----------------------------------------------------------------------------
(* The other actions                                                       *)

\* the parts that speak of neither answers nor the process
LEMMA KeptDisk ==
  ASSUME IInv, UNCHANGED <<asked, queue, log, ragged, shard>>
  PROVE  Ordered' /\ Spared' /\ Loaded' = Loaded /\ Ends' = Ends /\ Left' = Left
<1>1. Ordered'
  BY DEF IInv, Ordered, Left
<1>2. Spared'
  BY DEF IInv, Spared, Durability
<1>3. Loaded' = Loaded
  BY DEF Loaded, Readable
<1>4. Ends' = Ends
  BY <1>3 DEF Ends
<1>5. Left' = Left
  BY DEF Left
<1> QED
  BY <1>1, <1>2, <1>3, <1>4, <1>5

LEMMA TaskSettlesKeeps ==
  ASSUME IInv, TaskSettles
  PROVE  IInv'
<1>0. TypeOK /\ Chain /\ Flushes /\ Untouched /\ Sealing
  BY DEF IInv
<1> DEFINE e == running.ev
           told == IF running.ok THEN "ok" ELSE "failed"
<1>1. /\ ~Idle /\ e \in Queued /\ e # Nobody /\ running.ok \in BOOLEAN
      /\ told \in {"none", "ok", "failed"}
  <2>1. e \in Queued \cup {Nobody} /\ running.ok \in BOOLEAN
    BY <1>0, Shapes
  <2>2. ~Idle
    BY DEF TaskSettles
  <2> QED
    BY <2>1, <2>2 DEF Idle
<1>2. /\ answer' = [answer EXCEPT ![e] = told]
      /\ running' = [ev |-> Nobody, ok |-> FALSE]
      /\ UNCHANGED <<fresh, asked, queue, flush, process, torn>>
      /\ UNCHANGED <<log, ragged, lifetime, shard, count>>
  BY DEF TaskSettles, disk, ledger
<1>3. Ordered' /\ Spared' /\ Ends' = Ends /\ Left' = Left
  BY <1>2, KeptDisk
<1>4. Idle' /\ running'.ev = Nobody /\ running'.ok = FALSE /\ Nobody \notin Queued
  BY <1>2, EventsAssumption DEF Idle, Events
<1>5. Left # 0 /\ e = asked[Left] /\ Left \in DOMAIN asked /\ Left \in Nat
  <2>1. Left # 0 /\ e = asked[Left]
    BY <1>0, <1>1 DEF Chain
  <2> QED
    BY <1>0, <2>1, Places DEF Chain
<1> HIDE DEF e, told
<1>6. /\ answer' \in [Queued -> {"none", "ok", "failed"}]
      /\ \A x \in Queued : answer'[x] = IF x = e THEN told ELSE answer[x]
  BY <1>0, <1>1, <1>2 DEF TypeOK
<1>7. TypeOK'
  <2>1. running' \in [ev : Queued \cup {Nobody}, ok : BOOLEAN]
    BY <1>2
  <2> QED
    BY <1>0, <1>2, <1>6, <2>1 DEF TypeOK
<1>8. Chain'
  BY <1>0, <1>2, <1>3, <1>4 DEF Chain
<1>9. Flushes'
  <2>1. Completed = Len(asked) - Len(queue) - 1
    BY <1>1 DEF Completed
  <2>2. Completed' = Len(asked) - Len(queue) - 0
    BY <1>2, <1>4 DEF Completed
  <2>3. Len(asked) \in Nat /\ Len(queue) \in Nat /\ flush.upTo \in Nat
    BY <1>0, Shapes DEF TypeOK
  <2>4. Completed' >= Completed /\ Completed \in Int /\ Completed' \in Int
    BY <2>1, <2>2, <2>3
  <2> QED
    BY <1>0, <1>2, <2>3, <2>4 DEF Flushes
<1>10. Untouched'
  <2>1. e \notin fresh
    BY <1>0, <1>5 DEF Chain
  <2>2. \A x \in Queued : answer'[x] # "none" => x \notin fresh'
    BY <1>0, <1>2, <1>6, <2>1 DEF Untouched
  <2>3. ASSUME NEW k \in DOMAIN queue PROVE answer'[queue[k].ev] = "none"
    <3>1. queue[k].ev = asked[Left + k] /\ queue[k].ev \in Queued
      BY <1>0, <2>3, Shapes, Zenon DEF Chain
    <3>2. Left + k \in DOMAIN asked /\ k \in Nat /\ k # 0
      BY <1>0, <2>3, Places DEF Chain
    <3>3. Left + k # Left
      BY <1>5, <3>2
    <3>4. queue[k].ev # e
      BY <1>0, <1>5, <3>1, <3>2, <3>3 DEF Chain
    <3>5. answer[queue[k].ev] = "none"
      BY <1>0, <2>3 DEF Untouched
    <3> QED
      BY <1>6, <3>1, <3>4, <3>5
  <2>4. \A j \in DOMAIN log' : \A x \in log'[j].evs : x \notin fresh'
    BY <1>0, <1>2 DEF Untouched
  <2>5. \A j \in DOMAIN log' : \A k \in DOMAIN queue' : queue'[k].ev \notin log'[j].evs
    BY <1>0, <1>2 DEF Untouched
  <2> QED
    BY <1>2, <2>2, <2>3, <2>4, <2>5 DEF Untouched
<1>11. Stored' \subseteq Stored /\ Thrown' \subseteq Thrown
  <2>1. told = "ok" <=> running.ok
    BY <1>1 DEF told
  <2>2. told = "failed" <=> ~running.ok
    BY <1>1 DEF told
  <2>3. ASSUME NEW x \in Stored' PROVE x \in Stored
    <3>1. x \in Queued /\ answer'[x] = "ok"
      BY <1>4, <2>3 DEF Stored
    <3> QED
      BY <1>6, <2>1, <3>1 DEF Stored, e
  <2>4. ASSUME NEW x \in Thrown' PROVE x \in Thrown
    <3>1. x \in Queued /\ answer'[x] = "failed"
      BY <1>4, <2>4 DEF Thrown
    <3> QED
      BY <1>6, <2>2, <3>1 DEF Thrown, e
  <2> QED
    BY <2>3, <2>4
<1>12. Written' /\ Damage'
  BY <1>2, <1>11, KeptWritten, KeptDamage
<1>13. Sealing'
  BY <1>0, <1>2, <1>3, <1>4 DEF Sealing
<1> QED
  BY <1>3, <1>7, <1>8, <1>9, <1>10, <1>12, <1>13 DEF IInv

\* Flushing touches nothing but the flush.
LEMMA FlushKeeps ==
  ASSUME IInv, UNCHANGED <<fresh, asked, queue, running, answer, disk, ledger, process, torn>>,
         flush' \in [pc : {"idle", "waiting", "returned"}, upTo : Nat], Flushes'
  PROVE  IInv'
<1>0. TypeOK /\ Chain /\ Untouched /\ Sealing
  BY DEF IInv
<1>1. UNCHANGED <<log, ragged, lifetime, shard, count>>
  BY DEF disk, ledger
<1>2. Ordered' /\ Spared' /\ Ends' = Ends /\ Left' = Left
  BY <1>1, KeptDisk
<1>3. Written' /\ Damage'
  BY <1>1, SameAnswers, KeptWritten, KeptDamage
<1>4. Idle' = Idle
  BY DEF Idle
<1>5. Chain'
  BY <1>0, <1>2, <1>4 DEF Chain
<1>6. Untouched'
  BY <1>0, <1>1 DEF Untouched
<1>7. Sealing'
  BY <1>0, <1>1, <1>2, <1>4 DEF Sealing
<1>8. TypeOK'
  BY <1>0, <1>1 DEF TypeOK
<1> QED
  BY <1>2, <1>3, <1>5, <1>6, <1>7, <1>8 DEF IInv

LEMMA FlushBeginsKeeps ==
  ASSUME IInv, FlushBegins
  PROVE  IInv'
<1>1. flush' = [pc |-> "waiting", upTo |-> Len(asked)]
  BY DEF FlushBegins
<1>2. Len(asked) \in Nat
  BY Shapes DEF IInv
<1>3. flush' \in [pc : {"idle", "waiting", "returned"}, upTo : Nat]
  BY <1>1, <1>2
<1>4. Flushes'
  <2>1. asked' = asked /\ flush'.upTo = Len(asked) /\ flush'.pc = "waiting"
    BY <1>1 DEF FlushBegins
  <2> QED
    BY <1>2, <2>1 DEF Flushes
<1> QED
  BY <1>3, <1>4, FlushKeeps DEF FlushBegins

LEMMA FlushReturnsKeeps ==
  ASSUME IInv, FlushReturns
  PROVE  IInv'
<1>1. /\ flush' = [flush EXCEPT !.pc = "returned"] /\ Completed >= flush.upTo
      /\ UNCHANGED <<asked, queue, running>>
  BY DEF FlushReturns
<1>2. flush \in [pc : {"idle", "waiting", "returned"}, upTo : Nat]
  BY DEF IInv, TypeOK
<1>3. /\ flush' \in [pc : {"idle", "waiting", "returned"}, upTo : Nat]
      /\ flush'.upTo = flush.upTo
  BY <1>1, <1>2
<1>4. Flushes'
  <2>1. flush.upTo <= Len(asked)
    BY DEF IInv, Flushes
  <2>2. Completed' = Completed
    BY <1>1 DEF Completed, Idle
  <2>3. Completed \in Int
    <3>1. Len(asked) \in Nat /\ Len(queue) \in Nat
      BY Shapes DEF IInv
    <3> QED
      BY <3>1 DEF Completed
  <2>4. flush.upTo <= Completed
    BY <1>1, <1>2, <2>3
  <2> QED
    BY <1>1, <1>3, <2>1, <2>2, <2>4 DEF Flushes
<1> QED
  BY <1>3, <1>4, FlushKeeps DEF FlushReturns

LEMMA HookAppendsKeeps ==
  ASSUME IInv, NEW e \in Hooks, HookAppends(e)
  PROVE  IInv'
<1>0. TypeOK /\ Chain /\ Flushes /\ Spared /\ Untouched /\ Ordered /\ Sealing
  BY DEF IInv
<1>1. /\ e \in fresh /\ fresh' = fresh \ {e}
      /\ UNCHANGED <<asked, queue, running, answer, flush, process>>
      /\ AppendStored(e) \/ AppendThrows(e)
  BY DEF HookAppends, writer
<1>2. e \in Events /\ e \notin Queued /\ e \notin Terminals \cup Aborts
  BY EventsAssumption DEF Events, Queued
<1>3. Unwritten(e) /\ e \notin Thrown /\ e \notin Stored
  BY <1>0, <1>1, <1>2 DEF Unwritten, Untouched, Thrown, Stored
<1>4. Stored' = Stored /\ Thrown' = Thrown
  BY <1>1, SameAnswers
<1>5. Left' = Left /\ Idle' = Idle /\ Completed' = Completed
  BY <1>1 DEF Left, Idle, Completed
<1>6. Chain' /\ Flushes' /\ Spared'
  <2>1. Chain'
    BY <1>0, <1>1, <1>5 DEF Chain
  <2>2. Flushes'
    BY <1>0, <1>1, <1>5 DEF Flushes
  <2>3. Spared'
    BY <1>0, <1>1 DEF Spared, Durability
  <2> QED
    BY <2>1, <2>2, <2>3
<1>7. fresh' \subseteq Events /\ (Aborts \subseteq fresh => Aborts \subseteq fresh')
  BY <1>0, <1>1, <1>2 DEF TypeOK
<1>8. ASSUME Appended(e), shard' \in Nat, shard' >= shard, lifetime' = lifetime
      PROVE  Untouched' /\ Ordered' /\ Sealing'
  <2>1. Untouched'
    <3>1. \A k \in DOMAIN queue' :
            queue'[k].ev # e /\ \E m \in DOMAIN queue : queue'[k] = queue[m]
      BY <1>0, <1>1, <1>2, Shapes
    <3> QED
      BY <1>1, <1>8, <3>1, AppendUntouched
  <2>2. Ordered'
    <3>1. /\ \A a \in DOMAIN asked' : a \in DOMAIN asked /\ asked'[a] = asked[a]
          /\ \A a \in DOMAIN asked' : asked'[a] # e
      BY <1>0, <1>1, <1>2, Shapes
    <3>2. asked' \in Seq(Queued) /\ Left' \in Nat /\ Left' >= Left
      BY <1>0, <1>1, <1>5, Places DEF TypeOK, Chain
    <3> QED
      BY <1>8, <3>1, <3>2, AppendOrdered
  <2>3. Ends' \subseteq Ends
    BY <1>2, <1>8, AppendEnds
  <2>4. process = "up"
    BY DEF HookAppends
  <2>5. \A x, y \in Ends' : x \in Aborts => y = x
    BY <1>0, <2>3 DEF Sealing
  <2>6. Aborts \subseteq fresh'
    BY <1>0, <1>7, <2>4 DEF Sealing
  <2>7. Sealing'
    BY <1>1, <2>4, <2>5, <2>6 DEF Sealing
  <2> QED
    BY <2>1, <2>2, <2>7
<1>9. CASE AppendStored(e)
  <2>1. /\ Appended(e) /\ ~ragged' /\ ragged' \in BOOLEAN /\ lifetime' = lifetime
        /\ ~ragged => e \in Loaded'
        /\ torn' = torn
    BY <1>2, <1>9, LineWritten DEF AppendStored
  <2>2. shard' \in Nat \ {0} /\ shard' >= shard /\ count' \in 0..(CheckInterval - 1)
    BY <1>0, <1>9, LedgerMoves DEF AppendStored
  <2>3. Written'
    BY <1>3, <1>4, <2>1, AppendWritten
  <2>4. Damage'
    BY <1>4, <2>1, StoredDamage
  <2>5. log' \in Seq(LogLines)
    BY <2>1 DEF Appended
  <2>6. TypeOK'
    BY <1>0, <1>1, <1>7, <2>1, <2>2, <2>5 DEF TypeOK
  <2> QED
    BY <1>6, <1>8, <2>1, <2>2, <2>3, <2>4, <2>6 DEF IInv
<1>10. CASE AppendThrows(e) /\ TearLine(e)
  <2>1. /\ Appended(e) /\ ragged' /\ ragged' \in BOOLEAN /\ lifetime' = lifetime
        /\ torn' = torn + 1 /\ torn' \in 0..MaxTears
    BY <1>2, <1>10, LineTorn
  <2>2. shard' = shard /\ count' = count /\ shard \in Nat
    BY <1>0, <1>10 DEF AppendThrows, TypeOK
  <2>3. Written'
    BY <1>3, <1>4, <2>1, AppendWritten
  <2>4. Damage'
    BY <1>3, <1>4, <2>1, TornDamage
  <2>5. log' \in Seq(LogLines)
    BY <2>1 DEF Appended
  <2>6. TypeOK'
    BY <1>0, <1>1, <1>7, <2>1, <2>2, <2>5 DEF TypeOK
  <2>7. shard' >= shard
    BY <2>2
  <2> QED
    BY <1>6, <1>8, <2>1, <2>2, <2>3, <2>4, <2>6, <2>7 DEF IInv
<1>11. CASE AppendThrows(e) /\ UNCHANGED <<disk, torn>>
  <2>1. UNCHANGED <<log, ragged, lifetime, torn, shard, count>>
    BY <1>11 DEF AppendThrows, disk
  <2>2. Ordered' /\ Ends' = Ends
    BY <1>1, <2>1, KeptDisk
  <2>3. Untouched'
    <3>1. \A k \in DOMAIN queue' : \E m \in DOMAIN queue : queue'[k].ev = queue[m].ev
      BY <1>1
    <3> QED
      BY <1>1, <2>1, <3>1, KeptUntouched
  <2>4. Written' /\ Damage'
    BY <1>4, <2>1, KeptWritten, KeptDamage
  <2>5. Sealing'
    BY <1>0, <1>1, <1>5, <1>7, <2>1, <2>2 DEF Sealing
  <2>6. TypeOK'
    BY <1>0, <1>1, <1>7, <2>1 DEF TypeOK
  <2> QED
    BY <1>6, <2>2, <2>3, <2>4, <2>5, <2>6 DEF IInv
<1> QED
  BY <1>1, <1>9, <1>10, <1>11 DEF AppendThrows

\* An event is enqueued; what that means for a recovery is left to the caller.
LEMMA EnqueueKeeps ==
  ASSUME IInv, NEW e \in Queued, e \in fresh, EnqueueTask(e),
         UNCHANGED <<running, answer, flush, disk, ledger, torn>>,
         process' \in {"up", "down", "recovering", "sealing", "closed"}, Sealing'
  PROVE  IInv'
<1>0. TypeOK /\ Chain /\ Flushes /\ Spared /\ Untouched /\ Ordered
  BY DEF IInv
<1>1. UNCHANGED <<log, ragged, lifetime, shard, count>>
  BY DEF disk, ledger
<1>2. /\ queue' \in Seq(Entries) /\ Len(queue') = Len(queue) + 1
      /\ asked' \in Seq(Queued) /\ Len(asked') = Len(asked) + 1
      /\ DOMAIN queue' = 1..(Len(queue) + 1) /\ DOMAIN asked' = 1..(Len(asked) + 1)
      /\ fresh' = fresh \ {e} /\ Left' = Left
  BY Enqueued
<1>3. /\ Len(asked) \in Nat /\ DOMAIN asked = 1..Len(asked)
      /\ Len(queue) \in Nat /\ DOMAIN queue = 1..Len(queue)
      /\ Left \in Nat /\ Left <= Len(asked) /\ Len(asked) = Left + Len(queue)
  BY <1>0, Shapes, Places, Zenon DEF Chain
<1>4. \A a \in DOMAIN asked' :
        \/ a \in DOMAIN asked /\ asked'[a] = asked[a] /\ asked[a] # e
        \/ a = Len(asked) + 1 /\ asked'[a] = e
  <2>1. \A n \in Nat : \A a \in 1..(n + 1) : a \in 1..n \/ a = n + 1
    OBVIOUS
  <2>2. \A a \in DOMAIN asked' : a \in DOMAIN asked \/ a = Len(asked) + 1
    BY <1>2, <1>3, <2>1
  <2>3. \A a \in DOMAIN asked : asked[a] # e
    BY <1>0 DEF Chain
  <2>4. \A a \in DOMAIN asked : asked'[a] = asked[a]
    BY Enqueued
  <2>5. asked'[Len(asked) + 1] = e
    BY Enqueued
  <2> QED
    BY <2>2, <2>3, <2>4, <2>5
<1>5. \A k \in DOMAIN queue' :
        \/ /\ k \in DOMAIN queue /\ queue'[k].ev = queue[k].ev
           /\ queue'[k].cancelled =>
                queue[k].cancelled \/ Durability(queue[k].ev) = "best-effort"
        \/ k = Len(queue) + 1 /\ queue'[k].ev = e /\ ~queue'[k].cancelled
  <2>1. \A n \in Nat : \A a \in 1..(n + 1) : a \in 1..n \/ a = n + 1
    OBVIOUS
  <2>2. \A k \in DOMAIN queue' : k \in DOMAIN queue \/ k = Len(queue) + 1
    BY <1>2, <1>3, <2>1
  <2> QED
    BY <2>2, Enqueued
<1>6. Idle' = Idle
  BY DEF Idle
<1>7. Chain'
  <2>1. Len(queue') <= Len(asked')
    BY <1>0, <1>2, <1>3 DEF Chain
  <2>2. ASSUME NEW k \in DOMAIN queue' PROVE queue'[k].ev = asked'[Left' + k]
    <3>1. CASE k \in DOMAIN queue /\ queue'[k].ev = queue[k].ev
      <4>1. queue[k].ev = asked[Left + k] /\ Left + k \in DOMAIN asked
        BY <1>0, <3>1, Places DEF Chain
      <4>2. asked'[Left + k] = asked[Left + k]
        BY <4>1, Enqueued
      <4> QED
        BY <1>2, <3>1, <4>1, <4>2
    <3>2. CASE k = Len(queue) + 1 /\ queue'[k].ev = e
      <4>1. Left + k = Len(asked) + 1
        BY <1>3, <3>2
      <4>2. asked'[Len(asked) + 1] = e
        BY Enqueued
      <4> QED
        BY <1>2, <3>2, <4>1, <4>2
    <3> QED
      BY <1>5, <3>1, <3>2
  <2>3. ~Idle' => Left' # 0 /\ running'.ev = asked'[Left']
    <3>1. ASSUME ~Idle' PROVE Left' # 0 /\ running'.ev = asked'[Left']
      <4>1. Left # 0 /\ running.ev = asked[Left]
        BY <1>0, <1>6, <3>1 DEF Chain
      <4>2. Left \in DOMAIN asked
        BY <1>0, <4>1, Places DEF Chain
      <4>3. asked'[Left] = asked[Left]
        BY <4>2, Enqueued
      <4> QED
        BY <1>2, <4>1, <4>3
    <3> QED
      BY <3>1
  <2>4. \A a, b \in DOMAIN asked' : asked'[a] = asked'[b] => a = b
    BY <1>0, <1>4 DEF Chain
  <2>5. \A a \in DOMAIN asked' : asked'[a] \notin fresh'
    BY <1>0, <1>2, <1>4 DEF Chain
  <2> QED
    BY <2>1, <2>2, <2>3, <2>4, <2>5 DEF Chain
<1>8. Flushes'
  <2>1. Completed' = Completed
    BY <1>2, <1>6 DEF Completed, Left
  <2>2. flush.upTo \in Nat
    BY <1>0 DEF TypeOK
  <2>3. flush.upTo <= Len(asked')
    BY <1>0, <1>2, <1>3, <2>2 DEF Flushes
  <2> QED
    BY <1>0, <2>1, <2>3 DEF Flushes
<1>9. Spared'
  <2>1. \A k \in DOMAIN queue' : queue'[k].cancelled =>
          Durability(queue'[k].ev) = "best-effort"
    BY <1>0, <1>5 DEF Spared
  <2> QED
    BY <2>1 DEF Spared, Durability
<1>10. Untouched'
  <2>1. \A k \in DOMAIN queue' :
          \/ queue'[k].ev \in fresh /\ queue'[k].ev \in Queued
          \/ \E m \in DOMAIN queue : queue'[k].ev = queue[m].ev
    BY <1>5
  <2> QED
    BY <1>1, <1>2, <2>1, KeptUntouched
<1>11. Ordered'
  <2>1. \A j \in DOMAIN log : log[j].shard <= shard
    BY <1>0 DEF Ordered
  <2>2. shard \in Nat
    BY <1>0 DEF TypeOK
  <2>3. ASSUME NEW a \in DOMAIN asked', NEW j \in DOMAIN log, asked'[a] \in log[j].evs
        PROVE  a \in DOMAIN asked /\ asked'[a] = asked[a] /\ a <= Left'
    <3>1. e \notin log[j].evs
      BY <1>0 DEF Untouched
    <3>2. a \in DOMAIN asked /\ asked'[a] = asked[a]
      BY <1>4, <2>3, <3>1
    <3>3. a <= Left
      BY <1>0, <2>3, <3>2 DEF Ordered
    <3> QED
      BY <1>2, <3>2, <3>3
  <2> QED
    BY <1>1, <2>1, <2>2, <2>3, KeptOrdered
<1>12. Written' /\ Damage'
  BY <1>1, SameAnswers, KeptWritten, KeptDamage
<1>13. TypeOK'
  <2>1. fresh' \subseteq Events
    BY <1>0, <1>2 DEF TypeOK
  <2> QED
    BY <1>0, <1>1, <1>2, <2>1 DEF TypeOK
<1> QED
  BY <1>7, <1>8, <1>9, <1>10, <1>11, <1>12, <1>13 DEF IInv

LEMMA EnqueueEventKeeps ==
  ASSUME IInv, NEW e \in Tasks, EnqueueEvent(e)
  PROVE  IInv'
<1>0. Sealing
  BY DEF IInv
<1>1. /\ e \in Queued /\ e \in fresh /\ e \notin Aborts /\ EnqueueTask(e)
      /\ process = "up" /\ process' = "up"
      /\ UNCHANGED <<running, answer, flush, disk, ledger, torn>>
  BY EventsAssumption DEF EnqueueEvent, Queued
<1>2. Ends' = Ends /\ lifetime' = lifetime
  BY <1>1, KeptEnds DEF disk
<1>3. fresh' = fresh \ {e}
  BY <1>1 DEF EnqueueTask
<1>4. Sealing'
  BY <1>0, <1>1, <1>2, <1>3 DEF Sealing
<1> QED
  BY <1>1, <1>4, EnqueueKeeps

\* The recovery seals only a history nothing has ended.
LEMMA RecoverReadsKeeps ==
  ASSUME IInv, RecoverReads
  PROVE  IInv'
<1>0. TypeOK /\ Chain /\ Flushes /\ Spared /\ Untouched /\ Ordered /\ Written
      /\ Damage /\ Sealing
  BY DEF IInv
<1>1. /\ process = "recovering"
      /\ UNCHANGED <<running, answer, flush, disk, ledger, torn>>
  BY DEF RecoverReads
<1>2. /\ Ends' = Ends /\ lifetime' = lifetime
      /\ UNCHANGED <<log, ragged, lifetime, shard, count>>
  BY <1>1, KeptEnds DEF disk, ledger
<1>3. lifetime = "ephemeral" /\ queue = <<>> /\ Idle
  BY <1>0, <1>1 DEF Sealing
<1>4. CASE NeedsRecovery
  <2>1. process' = "sealing" /\ \E e \in Aborts \cap fresh : EnqueueTask(e)
    BY <1>4 DEF RecoverReads
  <2>2. PICK e \in Aborts \cap fresh : EnqueueTask(e)
    BY <2>1
  <2>3. e \in Queued /\ e \in fresh
    BY <2>2 DEF Queued
  <2>4. Len(queue') = 1 /\ queue'[1].ev = e
    <3>1. Len(queue) = 0
      BY <1>3
    <3>2. Len(queue') = Len(queue) + 1 /\ queue'[Len(queue) + 1].ev = e
      BY <2>2, <2>3, Enqueued
    <3> QED
      BY <3>1, <3>2
  <2>5. Ends' = {}
    BY <1>2, <1>4 DEF NeedsRecovery, EndsHistory, Has, Ends
  <2>6. Sealing'
    BY <1>2, <1>3, <2>1, <2>2, <2>4, <2>5 DEF Sealing
  <2> QED
    BY <1>1, <2>1, <2>2, <2>3, <2>6, EnqueueKeeps
<1>5. CASE ~NeedsRecovery
  <2>1. process' = "closed" /\ UNCHANGED <<fresh, asked, queue>>
    BY <1>5 DEF RecoverReads
  <2>2. Ordered' /\ Spared' /\ Left' = Left
    BY <1>2, <2>1, KeptDisk
  <2>3. Idle' = Idle /\ Completed' = Completed
    BY <1>1, <2>1 DEF Idle, Completed
  <2>4. Chain'
    BY <1>0, <1>1, <2>1, <2>2, <2>3 DEF Chain
  <2>5. Flushes'
    BY <1>0, <1>1, <2>1, <2>3 DEF Flushes
  <2>6. Untouched'
    BY <1>0, <1>1, <1>2, <2>1 DEF Untouched
  <2>7. Written' /\ Damage'
    BY <1>1, <1>2, SameAnswers, KeptWritten, KeptDamage
  <2>8. Sealing'
    BY <1>0, <1>2, <1>3, <2>1 DEF Sealing
  <2>9. TypeOK'
    BY <1>0, <1>1, <1>2, <2>1 DEF TypeOK
  <2> QED
    BY <2>2, <2>4, <2>5, <2>6, <2>7, <2>8, <2>9 DEF IInv
<1> QED
  BY <1>4, <1>5

\* The recovery is over when what it enqueued has been answered.
LEMMA RecoverDoneKeeps ==
  ASSUME IInv, RecoverDone
  PROVE  IInv'
<1>0. TypeOK /\ Chain /\ Flushes /\ Spared /\ Untouched /\ Ordered /\ Written
      /\ Damage /\ Sealing
  BY DEF IInv
<1>1. /\ process = "sealing" /\ process' = "closed"
      /\ UNCHANGED <<fresh, asked, queue, running, answer, flush, torn>>
      /\ UNCHANGED <<log, ragged, lifetime, shard, count>>
  BY DEF RecoverDone, writer, disk, ledger
<1>2. queue = <<>>
  <2>1. ASSUME queue # <<>> PROVE FALSE
    <3>1. PICK e \in Aborts : answer[e] # "none" /\ Last(asked) = e
      BY DEF RecoverDone
    <3>2. Len(queue) <= 1 /\ Len(queue) \in Nat /\ Len(queue) # 0 /\ 1 \in DOMAIN queue
      BY <1>0, <1>1, <2>1, TakesFields, HeadFields DEF Sealing
    <3>3. Len(asked) = Left + 1
      BY <1>0, <3>2, Places DEF Chain
    <3>4. queue[1].ev = asked[Left + 1] /\ answer[queue[1].ev] = "none"
      BY <1>0, <3>2 DEF Chain, Untouched
    <3>5. Last(asked) = asked[Len(asked)]
      BY DEF Last
    <3> QED
      BY <3>1, <3>3, <3>4, <3>5
  <2> QED
    BY <2>1
<1>3. Ordered' /\ Spared' /\ Left' = Left /\ Ends' = Ends
  BY <1>1, KeptDisk
<1>4. Idle' = Idle /\ Completed' = Completed
  BY <1>1 DEF Idle, Completed
<1>5. Chain'
  BY <1>0, <1>1, <1>3, <1>4 DEF Chain
<1>6. Flushes'
  BY <1>0, <1>1, <1>4 DEF Flushes
<1>7. Untouched'
  BY <1>0, <1>1 DEF Untouched
<1>8. Written' /\ Damage'
  BY <1>1, SameAnswers, KeptWritten, KeptDamage
<1>9. Sealing'
  BY <1>0, <1>1, <1>2, <1>3 DEF Sealing
<1>10. TypeOK'
  BY <1>0, <1>1 DEF TypeOK
<1> QED
  BY <1>3, <1>5, <1>6, <1>7, <1>8, <1>9, <1>10 DEF IInv

\* What waited is forgotten; what left the queue is as it was.
LEMMA CrashKeeps ==
  ASSUME IInv, Crash
  PROVE  IInv'
<1>0. TypeOK /\ Chain /\ Untouched /\ Ordered /\ Sealing
  BY DEF IInv
<1>1. /\ process' = "down" /\ queue' = <<>> /\ running' = [ev |-> Nobody, ok |-> FALSE]
      /\ asked' = SubSeq(asked, 1, Len(asked) - Len(queue))
      /\ flush' = [pc |-> "idle", upTo |-> 0]
      /\ UNCHANGED <<fresh, answer, shard, count>>
  BY DEF Crash, ledger
<1>2. /\ Len(asked) \in Nat /\ DOMAIN asked = 1..Len(asked) /\ asked \in Seq(Queued)
      /\ Left \in Nat /\ Left <= Len(asked)
  BY <1>0, Shapes, Places DEF TypeOK, Chain
<1>3. asked' = SubSeq(asked, 1, Left)
  BY <1>1 DEF Left
<1>4. /\ asked' \in Seq(Queued) /\ Len(asked') = Left /\ DOMAIN asked' = 1..Left
      /\ \A a \in DOMAIN asked' : a \in DOMAIN asked /\ asked'[a] = asked[a]
  <2>1. PICK m, s : m = Left /\ s = asked
    OBVIOUS
  <2>2. m \in Nat /\ s \in Seq(Queued) /\ m <= Len(s) /\ Len(s) \in Nat
        /\ DOMAIN s = 1..Len(s)
    BY <1>2, <2>1
  <2>3. /\ \A i \in 1..m : i \in DOMAIN s
        /\ SubSeq(s, 1, m) = [i \in 1..m |-> s[i]]
    BY <2>2
  <2>4. \A i \in 1..m : s[i] \in Queued
    BY <2>2, <2>3
  <2>5. SubSeq(s, 1, m) \in Seq(Queued) /\ Len(SubSeq(s, 1, m)) = m
    BY <2>2, <2>3, <2>4
  <2>6. /\ DOMAIN SubSeq(s, 1, m) = 1..m
        /\ \A i \in 1..m : SubSeq(s, 1, m)[i] = s[i]
    BY <2>3
  <2> QED
    BY <1>3, <2>1, <2>3, <2>5, <2>6
<1>5. Len(queue') = 0 /\ DOMAIN queue' = {}
  BY <1>1
<1>6. Left' = Left /\ Left' \in Nat
  BY <1>2, <1>4, <1>5 DEF Left
<1>7. running'.ev = Nobody /\ running'.ok = FALSE /\ Nobody \notin Queued /\ Idle'
  BY <1>1, EventsAssumption DEF Idle, Events
<1>8. Stored' \subseteq Stored /\ Thrown' \subseteq Thrown
  BY <1>1, <1>7 DEF Stored, Thrown
<1>9. Chain' /\ Flushes' /\ Spared'
  <2>1. Chain'
    <3>1. \A a, b \in DOMAIN asked' : asked'[a] = asked'[b] => a = b
      BY <1>0, <1>4 DEF Chain
    <3>2. \A a \in DOMAIN asked' : asked'[a] \notin fresh'
      BY <1>0, <1>1, <1>4 DEF Chain
    <3>3. Len(queue') <= Len(asked')
      BY <1>2, <1>4, <1>5
    <3> QED
      BY <1>5, <1>7, <3>1, <3>2, <3>3 DEF Chain
  <2>2. Flushes'
    <3>1. flush'.upTo = 0 /\ flush'.pc = "idle"
      BY <1>1
    <3> QED
      BY <1>2, <1>4, <3>1 DEF Flushes
  <2>3. Spared'
    BY <1>5 DEF Spared
  <2> QED
    BY <2>1, <2>2, <2>3
<1>10. ASSUME lifetime' = lifetime, \A x, y \in Ends' : x \in Aborts => y = x
       PROVE  Sealing'
  BY <1>0, <1>1, <1>7, <1>10 DEF Sealing
<1>11. ASSUME log' \in Seq(LogLines), ragged' \in BOOLEAN, lifetime' = lifetime,
              torn' \in 0..MaxTears
       PROVE  TypeOK'
  <2>1. running' \in [ev : Queued \cup {Nobody}, ok : BOOLEAN]
    BY <1>1
  <2>2. flush' \in [pc : {"idle", "waiting", "returned"}, upTo : Nat]
    BY <1>1
  <2>3. queue' \in Seq(Entries)
    BY <1>1
  <2>4. process' \in {"up", "down", "recovering", "sealing", "closed"}
    BY <1>1
  <2> QED
    BY <1>0, <1>1, <1>4, <1>11, <2>1, <2>2, <2>3, <2>4 DEF TypeOK
<1>12. CASE UNCHANGED <<disk, torn>>
  <2>1. UNCHANGED <<log, ragged, lifetime, torn>>
    BY <1>12 DEF disk
  <2>2. Untouched'
    BY <1>1, <1>5, <2>1, KeptUntouched
  <2>3. Ordered'
    <3>1. \A j \in DOMAIN log : log[j].shard <= shard
      BY <1>0 DEF Ordered
    <3>2. shard \in Nat
      BY <1>0 DEF TypeOK
    <3>3. ASSUME NEW a \in DOMAIN asked', NEW j \in DOMAIN log, asked'[a] \in log[j].evs
          PROVE  a \in DOMAIN asked /\ asked'[a] = asked[a] /\ a <= Left'
      BY <1>0, <1>4, <1>6, <3>3 DEF Ordered
    <3> QED
      BY <1>1, <2>1, <3>1, <3>2, <3>3, KeptOrdered
  <2>4. Written' /\ Damage'
    BY <1>8, <2>1, KeptWritten, KeptDamage
  <2>5. \A x, y \in Ends' : x \in Aborts => y = x
    BY <1>0, <2>1, KeptEnds DEF Sealing
  <2>6. Sealing' /\ TypeOK'
    BY <1>0, <1>10, <1>11, <2>1, <2>5 DEF TypeOK
  <2> QED
    BY <1>9, <2>2, <2>3, <2>4, <2>6 DEF IInv
<1>13. CASE Idle /\ queue # <<>> /\ TearLine(Takes.first.ev)
  <2> DEFINE e == Takes.first.ev
  <2>1. /\ e \in Events /\ e \notin fresh /\ Unwritten(e) /\ e \notin Stored
        /\ e \notin Thrown
        /\ \A a \in DOMAIN asked : asked[a] = e => a = Left + 1
    BY <1>13, HeadFields DEF Events
  <2>2. /\ Appended(e) /\ ragged' /\ ragged' \in BOOLEAN /\ lifetime' = lifetime
        /\ torn' = torn + 1 /\ torn' \in 0..MaxTears
    BY <1>13, <2>1, LineTorn
  <2>3. \A x, y \in Ends' : x \in Aborts => y = x
    BY <1>13, <2>2, HeadEnds
  <2> HIDE DEF e
  <2>4. Untouched'
    BY <1>1, <1>5, <2>1, <2>2, AppendUntouched
  <2>5. Ordered'
    <3>1. \A a \in DOMAIN asked' : asked'[a] # e
      BY <1>2, <1>4, <2>1
    <3>2. shard' \in Nat /\ shard' >= shard
      BY <1>0, <1>1 DEF TypeOK
    <3>3. Left' >= Left
      BY <1>2, <1>6
    <3> QED
      BY <1>4, <1>6, <2>2, <3>1, <3>2, <3>3, AppendOrdered
  <2>6. Written'
    BY <1>8, <2>1, <2>2, AppendWritten
  <2>7. Damage'
    BY <1>8, <2>1, <2>2, TornDamage
  <2>8. Sealing' /\ TypeOK'
    BY <1>10, <1>11, <2>2, <2>3 DEF Appended
  <2> QED
    BY <1>9, <2>4, <2>5, <2>6, <2>7, <2>8 DEF IInv
<1>14. \/ UNCHANGED <<disk, torn>>
       \/ Idle /\ queue # <<>> /\ TearLine(Takes.first.ev)
  BY Zenon DEF Crash
<1> QED
  BY <1>12, <1>13, <1>14

\* A process that starts goes on in the last shard there is.
LEMMA LastShardIsLast ==
  ASSUME TypeOK, Ordered
  PROVE  /\ LastShard \in Nat \ {0}
         /\ \A j \in DOMAIN log : log[j].shard <= LastShard
<1>1. log \in Seq(LogLines) /\ DOMAIN log = 1..Len(log)
  BY DEF TypeOK
<1>2. \A j \in DOMAIN log : log[j] \in LogLines
  BY <1>1
<1>3. \A j \in DOMAIN log : log[j].shard \in Nat \ {0} /\ log[j].shard \in Shards
  BY <1>2 DEF LogLines, Shards
<1>4. Shards \in SUBSET (Nat \ {0})
  BY <1>3 DEF Shards
<1>5. CASE Shards = {}
  <2>1. LastShard = 1
    BY <1>5 DEF LastShard
  <2> QED
    BY <1>3, <1>5, <2>1
<1>6. CASE Shards # {}
  <2>1. shard \in Nat /\ \A n \in Shards : n <= shard
    BY DEF TypeOK, Ordered, Shards
  <2>2. \E n \in Shards : \A k \in Shards : k <= n
    BY <1>4, <1>6, <2>1, GreatestNat
  <2>3. LastShard = CHOOSE n \in Shards : \A k \in Shards : k <= n
    BY <1>6 DEF LastShard
  <2>4. LastShard \in Shards /\ \A k \in Shards : k <= LastShard
    BY <2>2, <2>3
  <2> QED
    BY <1>3, <1>4, <2>4
<1> QED
  BY <1>5, <1>6

LEMMA RestartKeeps ==
  ASSUME IInv, Restart
  PROVE  IInv'
<1>0. TypeOK /\ Chain /\ Flushes /\ Spared /\ Untouched /\ Ordered /\ Written
      /\ Damage /\ Sealing
  BY DEF IInv
<1>1. /\ process = "down" /\ shard' = LastShard /\ count' = 0
      /\ process' = IF lifetime = "resident" THEN "up" ELSE "recovering"
      /\ UNCHANGED <<fresh, asked, queue, running, answer, flush, torn>>
      /\ UNCHANGED <<log, ragged, lifetime>>
  BY DEF Restart, writer, disk
<1>2. LastShard \in Nat \ {0} /\ \A j \in DOMAIN log : log[j].shard <= LastShard
  BY <1>0, LastShardIsLast
<1>3. Left' = Left /\ Idle' = Idle /\ Completed' = Completed
  BY <1>1 DEF Left, Idle, Completed
<1>4. Chain'
  BY <1>0, <1>1, <1>3 DEF Chain
<1>5. Flushes'
  BY <1>0, <1>1, <1>3 DEF Flushes
<1>6. Spared'
  BY <1>0, <1>1 DEF Spared, Durability
<1>7. Untouched'
  BY <1>0, <1>1 DEF Untouched
<1>8. Ordered'
  <2>1. \A a \in DOMAIN asked' : \A j \in DOMAIN log :
          asked'[a] \in log[j].evs =>
            a \in DOMAIN asked /\ asked'[a] = asked[a] /\ a <= Left'
    BY <1>0, <1>1, <1>3 DEF Ordered
  <2> QED
    BY <1>1, <1>2, <2>1, KeptOrdered
<1>9. Written' /\ Damage'
  BY <1>1, SameAnswers, KeptWritten, KeptDamage
<1>10. Sealing'
  <2>1. Ends' = Ends
    BY <1>1, KeptEnds
  <2>2. lifetime = "resident" \/ lifetime = "ephemeral"
    BY <1>0, LifetimeAssumption DEF TypeOK
  <2>3. process' = "up" => lifetime = "resident"
    BY <1>1
  <2>4. process' = "recovering" => lifetime = "ephemeral"
    BY <1>1, <2>2
  <2>5. process' \in {"up", "recovering"}
    BY <1>1
  <2> QED
    BY <1>0, <1>1, <1>3, <2>1, <2>3, <2>4, <2>5 DEF Sealing
<1>11. TypeOK'
  <2>1. count' \in 0..(CheckInterval - 1)
    BY <1>1, BoundsAssumption
  <2>2. process' \in {"up", "down", "recovering", "sealing", "closed"}
    BY <1>1
  <2> QED
    BY <1>0, <1>1, <1>2, <2>1, <2>2 DEF TypeOK
<1> QED
  BY <1>4, <1>5, <1>6, <1>7, <1>8, <1>9, <1>10, <1>11 DEF IInv

-----------------------------------------------------------------------------
(* The invariant holds                                                     *)

LEMMA InitHolds == Init => IInv
<1> SUFFICES ASSUME Init PROVE IInv
  OBVIOUS
<1>1. /\ fresh = Events /\ asked = <<>> /\ queue = <<>> /\ log = <<>>
      /\ running = [ev |-> Nobody, ok |-> FALSE]
      /\ answer = [e \in Queued |-> "none"]
      /\ flush = [pc |-> "idle", upTo |-> 0]
      /\ ragged = FALSE /\ lifetime \in Lifetimes
      /\ shard = 1 /\ count = 0 /\ process = "up" /\ torn = 0
  BY DEF Init
<1>2. /\ DOMAIN asked = {} /\ DOMAIN queue = {} /\ DOMAIN log = {}
      /\ Len(asked) = 0 /\ Len(queue) = 0 /\ Idle
  BY <1>1 DEF Idle
<1>3. TypeOK
  <2>1. running \in [ev : Queued \cup {Nobody}, ok : BOOLEAN]
    BY <1>1
  <2>2. flush \in [pc : {"idle", "waiting", "returned"}, upTo : Nat]
    BY <1>1
  <2>3. answer \in [Queued -> {"none", "ok", "failed"}]
    BY <1>1
  <2>4. count \in 0..(CheckInterval - 1) /\ torn \in 0..MaxTears
    BY <1>1, BoundsAssumption
  <2>5. asked \in Seq(Queued) /\ queue \in Seq(Entries) /\ log \in Seq(LogLines)
    BY <1>1
  <2>6. fresh \subseteq Events /\ lifetime \in Lifetimes
    BY <1>1, Zenon
  <2>7. ragged \in BOOLEAN
    BY <1>1
  <2>8. shard \in Nat \ {0}
    BY <1>1
  <2>9. process \in {"up", "down", "recovering", "sealing", "closed"}
    BY <1>1
  <2> QED
    BY <2>1, <2>2, <2>3, <2>4, <2>5, <2>6, <2>7, <2>8, <2>9 DEF TypeOK
<1>4. Stored = {} /\ Thrown = {}
  <2>1. Nobody \notin Queued
    BY EventsAssumption DEF Events
  <2> QED
    BY <1>1, <2>1 DEF Stored, Thrown
<1>5. Loaded = {} /\ Readable = {} /\ Lost = {} /\ Ends = {}
  BY <1>2, <1>4 DEF Loaded, Readable, Lost, Ends
<1>6. Chain /\ Flushes /\ Spared
  BY <1>1, <1>2 DEF Chain, Flushes, Spared
<1>7. Untouched /\ Ordered /\ Written
  BY <1>1, <1>2, <1>4, <1>5 DEF Untouched, Ordered, Written
<1>8. Damage
  <2>1. IsFiniteSet(Lost) /\ Cardinality(Lost) = 0
    BY <1>5, FS_EmptySet
  <2> QED
    BY <1>1, <2>1 DEF Damage
<1>9. Sealing
  BY <1>1, <1>2, <1>5 DEF Sealing, Events, Queued
<1> QED
  BY <1>3, <1>6, <1>7, <1>8, <1>9 DEF IInv

LEMMA StutterKeeps ==
  ASSUME IInv, UNCHANGED vars
  PROVE  IInv'
<1>1. /\ UNCHANGED <<fresh, asked, queue, running, answer, flush, process, torn>>
      /\ UNCHANGED <<disk, ledger>>
  BY DEF vars, writer
<1>2. flush' \in [pc : {"idle", "waiting", "returned"}, upTo : Nat]
  BY <1>1 DEF IInv, TypeOK
<1>3. Flushes'
  BY <1>1 DEF IInv, Flushes, Completed, Idle
<1> QED
  BY <1>1, <1>2, <1>3, FlushKeeps

LEMMA NextKeeps == IInv /\ [Next]_vars => IInv'
<1> SUFFICES ASSUME IInv, [Next]_vars PROVE IInv'
  OBVIOUS
<1>1. ASSUME NEW e \in Tasks, EnqueueEvent(e) PROVE IInv'
  BY <1>1, EnqueueEventKeeps
<1>2. ASSUME NEW e \in Hooks, HookAppends(e) PROVE IInv'
  BY <1>2, HookAppendsKeeps
<1>3. CASE TaskRuns
  BY <1>3, TaskRunsKeeps
<1>4. CASE TaskSettles
  BY <1>4, TaskSettlesKeeps
<1>5. CASE FlushBegins
  BY <1>5, FlushBeginsKeeps
<1>6. CASE FlushReturns
  BY <1>6, FlushReturnsKeeps
<1>7. CASE Crash
  BY <1>7, CrashKeeps
<1>8. CASE Restart
  BY <1>8, RestartKeeps
<1>9. CASE RecoverReads
  BY <1>9, RecoverReadsKeeps
<1>10. CASE RecoverDone
  BY <1>10, RecoverDoneKeeps
<1>11. CASE UNCHANGED vars
  BY <1>11, StutterKeeps
<1> QED
  BY <1>1, <1>2, <1>3, <1>4, <1>5, <1>6, <1>7, <1>8, <1>9, <1>10, <1>11 DEF Next

\* In every reachable state the writer's queue, the lines on disk and what the
\* appenders were told agree.
THEOREM Invariant == Spec => []IInv
<1>1. Init => IInv
  BY InitHolds
<1>2. IInv /\ [Next]_vars => IInv'
  BY NextKeeps
<1> QED
  BY <1>1, <1>2, PTL DEF Spec

-----------------------------------------------------------------------------
(* What the invariant says of the properties                               *)

\* Every variable keeps to its type, whatever the limits.
THEOREM TypeCorrect == Spec => []TypeOK
<1>1. IInv => TypeOK
  BY DEF IInv
<1> QED
  BY <1>1, Invariant, PTL

LEMMA InOrder ==
  ASSUME IInv
  PROVE  OrderIsKept
<1>0. TypeOK /\ Ordered
  BY DEF IInv
<1>1. log \in Seq(LogLines) /\ DOMAIN log = 1..Len(log) /\ Len(log) \in Nat
  BY <1>0 DEF TypeOK
<1>2. \A j \in DOMAIN log : log[j] \in LogLines
  BY <1>1
<1>3. \A j \in DOMAIN log : log[j].shard \in Nat /\ j \in Nat
  BY <1>1, <1>2 DEF LogLines
<1>4. ASSUME NEW i \in DOMAIN log, NEW j \in DOMAIN log, Before(i, j)
      PROVE  i < j
  <2>1. CASE log[i].shard < log[j].shard
    <3>1. ~(j < i) /\ j # i
      BY <1>0, <1>3, <2>1 DEF Ordered
    <3> QED
      BY <1>3, <3>1
  <2>2. CASE i < j
    BY <2>2
  <2> QED
    BY <1>4, <2>1, <2>2 DEF Before
<1>5. ASSUME NEW i \in Readable, NEW j \in Readable,
             NEW a \in DOMAIN asked, NEW b \in DOMAIN asked, Before(i, j),
             asked[a] \in log[i].evs, asked[b] \in log[j].evs
      PROVE  a < b
  <2>1. i \in DOMAIN log /\ j \in DOMAIN log
    BY DEF Readable
  <2>2. i < j
    BY <1>4, <1>5, <2>1
  <2> QED
    BY <1>0, <1>5, <2>1, <2>2 DEF Ordered
<1> QED
  BY <1>5 DEF OrderIsKept

LEMMA Local ==
  ASSUME IInv
  PROVE  DamageIsLocal
<1> DEFINE gone == {e \in Queued : answer[e] = "ok" /\ e \notin Loaded}
<1>1. Damage /\ torn \in Nat
  BY DEF IInv, TypeOK
<1>2. gone \subseteq Lost
  BY DEF Lost, Stored
<1> HIDE DEF gone
<1>3. /\ IsFiniteSet(gone) /\ Cardinality(gone) \in Nat /\ Cardinality(Lost) \in Nat
      /\ Cardinality(gone) <= Cardinality(Lost)
  BY <1>1, <1>2, FS_Subset, FS_CardinalityType DEF Damage
<1>4. Cardinality(Lost) <= torn
  <2>1. CASE ragged
    <3>1. Cardinality(Lost) + 1 <= torn
      BY <1>1, <2>1 DEF Damage
    <3> QED
      BY <1>1, <1>3, <3>1
  <2>2. CASE ~ragged
    <3>1. Cardinality(Lost) + 0 <= torn
      BY <1>1, <2>2 DEF Damage
    <3> QED
      BY <1>3, <3>1
  <2> QED
    BY <2>1, <2>2
<1>5. Cardinality(gone) <= torn
  BY <1>1, <1>3, <1>4
<1> QED
  BY <1>5 DEF DamageIsLocal, gone

\* What readAllEvents returns of a history, after any number of restarts,
\* rotations and torn writes, is in the order of the calls, and lacks no more
\* answered events than there were torn writes.
THEOREM ReadsBack == Spec => []LogReadsBack
<1>1. IInv => LogReadsBack
  BY InOrder, Local DEF LogReadsBack, IInv
<1> QED
  BY <1>1, Invariant, PTL

LEMMA Honest ==
  ASSUME IInv
  PROVE  RequiredIsHonest
<1>0. Spared /\ Written
  BY DEF IInv
<1>1. ASSUME NEW e \in Required
      PROVE  /\ answer[e] = "ok" => \E k \in DOMAIN log : e \in log[k].evs
             /\ answer[e] = "failed" /\ e \in Loaded => ragged
  <2>1. e \in Queued
    BY EventsAssumption DEF Queued
  <2>2. answer[e] = "ok" => e \in Stored
    BY <2>1 DEF Stored
  <2>3. answer[e] = "failed" => e \in Thrown
    BY <2>1 DEF Thrown
  <2>4. e \in Loaded => \E k \in Readable : e \in log[k].evs
    BY DEF Loaded
  <2> QED
    BY <1>0, <2>2, <2>3, <2>4 DEF Written
<1> QED
  BY <1>0, <1>1 DEF RequiredIsHonest, Spared

\* No required append is dropped by backpressure or answered against what is on
\* disk, whatever the queue holds and however often a write fails.
THEOREM AnswersAreHonest == Spec => []RequiredIsHonest
<1>1. IInv => RequiredIsHonest
  BY Honest
<1> QED
  BY <1>1, Invariant, PTL

LEMMA Covered ==
  ASSUME IInv
  PROVE  FlushCovers
<1>0. TypeOK /\ Chain /\ Flushes
  BY DEF IInv
<1>1. ASSUME flush.pc = "returned", NEW k \in 1..flush.upTo
      PROVE  /\ asked[k] # running.ev
             /\ \A j \in DOMAIN queue : queue[j].ev # asked[k]
  <2>1. /\ Len(asked) \in Nat /\ DOMAIN asked = 1..Len(asked) /\ Left \in Nat
        /\ flush.upTo \in Nat /\ flush.upTo <= Len(asked) /\ k \in Nat
    BY <1>0, Shapes, Places DEF TypeOK, Chain, Flushes
  <2>2. Completed = Left - (IF Idle THEN 0 ELSE 1)
    BY DEF Completed, Left
  <2>3. flush.upTo <= Completed
    BY <1>0, <1>1 DEF Flushes
  <2>4. k \in DOMAIN asked /\ k <= Left /\ (~Idle => k # Left)
    BY <2>1, <2>2, <2>3
  <2>5. asked[k] # running.ev
    <3>1. CASE Idle
      <4>1. asked[k] \in Queued /\ running.ev = Nobody
        BY <1>0, <2>4, <3>1, Shapes DEF Idle
      <4> QED
        BY <4>1, EventsAssumption DEF Events
    <3>2. CASE ~Idle
      <4>1. running.ev = asked[Left] /\ Left # 0
        BY <1>0, <3>2 DEF Chain
      <4>2. Left \in DOMAIN asked
        BY <1>0, <4>1, Places DEF Chain
      <4> QED
        BY <1>0, <2>4, <3>2, <4>1, <4>2 DEF Chain
    <3> QED
      BY <3>1, <3>2
  <2>6. ASSUME NEW j \in DOMAIN queue PROVE queue[j].ev # asked[k]
    <3>1. queue[j].ev = asked[Left + j]
      BY <1>0, <2>6 DEF Chain
    <3>2. Left + j \in DOMAIN asked /\ j \in Nat /\ j # 0
      BY <1>0, <2>6, Places DEF Chain
    <3>3. Left + j # k
      BY <2>1, <2>4, <3>2
    <3> QED
      BY <1>0, <2>4, <3>1, <3>2, <3>3 DEF Chain
  <2> QED
    BY <2>5, <2>6
<1> QED
  BY <1>1 DEF FlushCovers

\* A flush that returned waited for everything enqueued before it, however the
\* chain and the crashes interleave with it.
THEOREM FlushesCover == Spec => []FlushCovers
<1>1. IInv => FlushCovers
  BY Covered
<1> QED
  BY <1>1, Invariant, PTL

LEMMA Once ==
  ASSUME IInv
  PROVE  SealedOnce
<1>0. \A x, y \in Ends : x \in Aborts => y = x
  BY DEF IInv, Sealing
<1>1. Aborts \cap Terminals = {}
  BY EventsAssumption
<1>2. CASE Ends \cap Aborts = {}
  <2>1. Cardinality(Ends \cap Aborts) = 0
    BY <1>2, FS_EmptySet
  <2>2. Cardinality(Ends \cap Aborts)
          + (IF Ends \cap Terminals # {} THEN 1 ELSE 0) <= 1
    BY <2>1
  <2> QED
    BY <2>2 DEF SealedOnce, Ends
<1>3. CASE Ends \cap Aborts # {}
  <2>1. PICK x \in Ends : x \in Aborts
    BY <1>3
  <2>2. Ends \cap Aborts = {x} /\ Ends \cap Terminals = {}
    BY <1>0, <1>1, <2>1
  <2>3. Cardinality(Ends \cap Aborts) = 1
    BY <2>2, FS_Singleton
  <2>4. Cardinality(Ends \cap Aborts)
          + (IF Ends \cap Terminals # {} THEN 1 ELSE 0) <= 1
    BY <2>2, <2>3
  <2> QED
    BY <2>4 DEF SealedOnce, Ends
<1> QED
  BY <1>2, <1>3

\* However often the process dies while it recovers, an ephemeral history is
\* sealed once, and never after a terminal event of its own.
THEOREM HistoriesEndOnce == Spec => []SealedOnce
<1>1. IInv => SealedOnce
  BY Once
<1> QED
  BY <1>1, Invariant, PTL
=============================================================================
