------------------------ MODULE SharedHistoryProofs ------------------------
(***************************************************************************)
(* Proofs about SharedHistory for any kernels, inputs and silent messages,  *)
(* any number of turns and restarts.                                        *)
(***************************************************************************)
EXTENDS SharedHistory, SequenceTheorems, WellFoundedInduction, TLAPS

-----------------------------------------------------------------------------
(* The inductive invariant                                                 *)

\* the messages a conversation must not be given twice
Once == Answers \cup Silent

Owned(k, p) == ~FromUser(p) /\ rows[p].kernel = k

\* a conversation that lacks nothing the lane's position, or its own answers, stand for
Current(k, conv) ==
  \A p \in Entries : p <= lane[k].knownThrough \/ Owned(k, p) => rows[p].holds \subseteq conv

\* a conversation that has had nothing of what the next delta will give
Unheard(k, conv) ==
  \A p \in Entries : p > lane[k].knownThrough /\ ~Owned(k, p) =>
    rows[p].holds \cap Once \cap conv = {}

Said(conv) == conv \cap Once \subseteq Carried(DOMAIN rows)

Known ==
  \A k \in Kernels \ severed :
    /\ native[k].open => Current(k, native[k].holds)
    /\ checkpoint[k].kept => Current(k, checkpoint[k].holds)

NotHeard ==
  \A k \in Kernels :
    /\ Unheard(k, native[k].heard)
    /\ checkpoint[k].kept => Unheard(k, checkpoint[k].holds)

AllSaid ==
  \A k \in Kernels :
    Said(native[k].holds) /\ Said(native[k].heard) /\ Said(checkpoint[k].holds)

\* The lane is bound before it is acknowledged, and by what is sent.
Bound ==
  /\ \A k \in Kernels : lane[k].knownThrough # 0 => lane[k].bound
  /\ turn.pc = "sent" => lane[turn.kernel].bound /\ turn.plan.through # 0

\* A turn's answer is new, and its input is in the ledger.
Numbered ==
  /\ \A p \in DOMAIN rows : rows[p].holds \cap Answers \subseteq 1..begun
  /\ turn.pc # "idle" =>
       /\ begun # 0 /\ begun \notin Carried(DOMAIN rows)
       /\ \E p \in DOMAIN rows : rows[p].kind = "inbound_message"

\* What was dispatched covers the ledger up to its position, and no row after it is
\* anything but a user's.
Dispatched ==
  turn.pc \in {"sent", "active"} =>
    /\ ~checkpoint[turn.kernel].kept
    /\ turn.plan.through <= Len(rows) /\ turn.plan.patch \subseteq DOMAIN rows
    /\ \A p \in Entries :
         \/ p <= turn.plan.through \/ p <= lane[turn.kernel].knownThrough \/ ~FromUser(p)
         => rows[p].holds \subseteq turn.plan.seen

\* On its way it supplies what the conversation lacks, and nothing that it has heard.
Sent ==
  turn.pc = "sent" =>
    /\ turn.plan.mode = "snapshot" => turn.plan.seen \subseteq Carried(turn.plan.patch)
    /\ turn.plan.mode # "snapshot" /\ turn.kernel \notin severed =>
         /\ turn.plan.seen \subseteq native[turn.kernel].holds \cup Carried(turn.plan.patch)
         /\ native[turn.kernel].open \/ native[turn.kernel].restored
    /\ turn.plan.mode = "delta" =>
         Carried(turn.plan.patch) \cap Once \cap native[turn.kernel].heard = {}
    /\ \A p \in Entries : p > turn.plan.through =>
         rows[p].holds \cap Once \cap (native[turn.kernel].holds \cup Given) = {}

Taken ==
  turn.pc = "active" =>
    /\ native[turn.kernel].holds = native[turn.kernel].heard
    /\ turn.kernel \notin severed => turn.plan.seen \subseteq native[turn.kernel].holds

IInv ==
  /\ TypeOK /\ Known /\ NotHeard /\ AllSaid /\ Bound /\ Numbered
  /\ Dispatched /\ Sent /\ Taken

-----------------------------------------------------------------------------
(* Type correctness                                                        *)

LEMMA Idles ==
  /\ Closed \in Conversations /\ ~Closed.open /\ Closed.holds = {} /\ Closed.heard = {}
  /\ NoPlan \in Plans
  /\ \A k \in Kernels : /\ NoTurn(k) \in Turns /\ NoTurn(k).pc = "idle" /\ NoTurn(k).kernel = k
                        /\ NoTurn(k).plan = NoPlan
<1>1. NoPlan \in Plans
  BY DEF NoPlan, Plans
<1>2. Closed \in Conversations /\ ~Closed.open /\ Closed.holds = {} /\ Closed.heard = {}
  BY DEF Closed, Conversations
<1>3. ASSUME NEW k \in Kernels
      PROVE  /\ NoTurn(k) \in Turns /\ NoTurn(k).pc = "idle" /\ NoTurn(k).kernel = k
             /\ NoTurn(k).plan = NoPlan
  BY <1>1 DEF NoTurn, Turns
<1> QED
  BY <1>1, <1>2, <1>3

LEMMA InitType == Init => TypeOK
<1> SUFFICES ASSUME Init PROVE TypeOK
  OBVIOUS
<1>1. rows \in Seq(Rows) /\ inbox \in Seq(Inputs) /\ Len(rows) = 0
  BY DEF Init
<1>2. lane \in [Kernels -> [bound : BOOLEAN, knownThrough : 0..Len(rows)]]
  BY <1>1 DEF Init
<1>3. native \in [Kernels -> Conversations] /\ checkpoint \in [Kernels -> Checkpoints]
  BY Idles DEF Init, Checkpoints
<1>4. turn \in Turns
  BY Idles DEF Init
<1> QED
  BY <1>1, <1>2, <1>3, <1>4, HistoryBoundsAssumption DEF Init, TypeOK

LEMMA LeastNat ==
  ASSUME NEW S \in SUBSET Nat, S # {}
  PROVE  \E n \in S : \A m \in S : n <= m
<1>1. PICK n \in S : \A m \in S : <<m, n>> \notin OpToRel(<, Nat)
  BY NatLessThanWellFounded, WFMin
<1>2. \A m \in S : ~ (m < n)
  BY <1>1, Zenon DEF OpToRel
<1> QED
  BY <1>2

LEMMA GreatestNat ==
  ASSUME NEW S \in SUBSET Nat, S # {}, NEW N \in Nat, \A m \in S : m <= N
  PROVE  Max(S) \in S /\ \A m \in S : m <= Max(S)
<1> DEFINE D == {N - m : m \in S}
<1>1. D \in SUBSET Nat
  <2>1. \A m \in S : N - m \in Nat
    OBVIOUS
  <2> QED
    BY <2>1
<1>2. D # {}
  OBVIOUS
<1>3. PICK d \in D : \A e \in D : d <= e
  <2> HIDE DEF D
  <2> QED
    BY <1>1, <1>2, LeastNat
<1>4. PICK n \in S : d = N - n
  BY <1>3
<1>5. \A m \in S : n >= m
  BY <1>3, <1>4
<1> QED
  BY <1>5 DEF Max

LEMMA GreatestEntry ==
  ASSUME TypeOK
  PROVE  /\ Max(Entries \cup {0}) \in Entries \cup {0}
         /\ \A p \in Entries \cup {0} : p <= Max(Entries \cup {0})
         /\ Max(Entries \cup {0}) \in 0..Len(rows) /\ Max(Entries \cup {0}) \in Nat
<1> DEFINE S == Entries \cup {0}
<1>1. DOMAIN rows = 1..Len(rows) /\ Len(rows) \in Nat
  BY DEF TypeOK
<1>2. S \in SUBSET Nat /\ S # {} /\ \A p \in S : p <= Len(rows)
  BY <1>1 DEF Entries
<1> HIDE DEF S
<1>3. Max(S) \in S /\ \A m \in S : m <= Max(S)
  BY <1>1, <1>2, GreatestNat
<1>4. Max(S) \in 0..Len(rows)
  <2>1. Max(S) \in Nat /\ Max(S) <= Len(rows)
    BY <1>2, <1>3
  <2> QED
    BY <1>1, <2>1
<1>5. Max(S) \in Nat
  BY <1>2, <1>3
<1> QED
  BY <1>3, <1>4, <1>5 DEF S

\* every row is of messages
LEMMA CarriedType ==
  ASSUME TypeOK
  PROVE  \A R \in SUBSET DOMAIN rows : Carried(R) \subseteq Messages
<1>1. rows \in Seq(Rows)
  BY DEF TypeOK
<1>2. \A r \in Rows : r.holds \subseteq Messages
  BY DEF Rows
<1>3. \A p \in DOMAIN rows : rows[p].holds \subseteq Messages
  BY <1>1, <1>2
<1> QED
  BY <1>3 DEF Carried

LEMMA PrepareType ==
  ASSUME TypeOK, NEW k \in Kernels
  PROVE  /\ Prepare(k) \in Plans /\ Prepare(k).patch \subseteq Entries
         /\ Prepare(k).through = Max(Entries \cup {0}) /\ Prepare(k).seen = Carried(Entries)
         /\ Prepare(k).mode = "snapshot" => Prepare(k).patch = Entries
         /\ Prepare(k).mode # "snapshot" => CanResume(k) /\ Prepare(k).patch = DeltaAfter(k)
<1> DEFINE patch == IF CanResume(k) THEN DeltaAfter(k) ELSE Entries
           mode == IF ~CanResume(k) THEN "snapshot" ELSE IF patch = {} THEN "none" ELSE "delta"
<1>1. Prepare(k) = [mode |-> mode, patch |-> patch, through |-> Max(Entries \cup {0}),
                    seen |-> Carried(Entries)]
  BY DEF Prepare
<1>2. patch \subseteq Entries /\ mode \in {"none", "delta", "snapshot"}
  BY DEF DeltaAfter
<1>3. /\ mode = "snapshot" => patch = Entries
      /\ mode # "snapshot" => CanResume(k) /\ patch = DeltaAfter(k)
  OBVIOUS
<1> HIDE DEF patch, mode
<1>4. Entries \subseteq DOMAIN rows /\ DOMAIN rows \subseteq Nat
  BY DEF Entries, TypeOK
<1>5. Carried(Entries) \subseteq Messages
  BY <1>4, CarriedType
<1>6. Max(Entries \cup {0}) \in Nat
  BY GreatestEntry
<1> QED
  BY <1>1, <1>2, <1>3, <1>4, <1>5, <1>6 DEF Plans

\* A row more: the ledger goes on, and nothing in it changes.
LEMMA Grown ==
  ASSUME TypeOK, NEW r \in Rows, rows' = Append(rows, r)
  PROVE  /\ rows' \in Seq(Rows) /\ Len(rows) \in Nat /\ Len(rows') = Len(rows) + 1
         /\ DOMAIN rows = 1..Len(rows) /\ DOMAIN rows' = 1..(Len(rows) + 1)
         /\ rows'[Len(rows) + 1] = r /\ \A p \in DOMAIN rows : rows'[p] = rows[p]
         /\ \A p \in DOMAIN rows' : p \in DOMAIN rows \/ p = Len(rows) + 1
<1>1. rows \in Seq(Rows)
  BY DEF TypeOK
<1> QED
  BY <1>1

LEMMA LaneGrows ==
  ASSUME TypeOK, NEW r \in Rows, rows' = Append(rows, r)
  PROVE  lane \in [Kernels -> [bound : BOOLEAN, knownThrough : 0..Len(rows')]]
<1>1. lane \in [Kernels -> [bound : BOOLEAN, knownThrough : 0..Len(rows)]]
  BY DEF TypeOK
<1>2. 0..Len(rows) \subseteq 0..Len(rows')
  BY Grown
<1> QED
  BY <1>1, <1>2

\* the batch of a turn is of inputs, and what is left of the inbox too
LEMMA BatchType ==
  ASSUME TypeOK, NEW n \in DOMAIN inbox
  PROVE  /\ ToSet(SubSeq(inbox, 1, n)) \in SUBSET Inputs /\ inbox[n] \in Inputs
         /\ inbox[n] \in ToSet(SubSeq(inbox, 1, n))
         /\ SubSeq(inbox, n + 1, Len(inbox)) \in Seq(Inputs)
<1>1. inbox \in Seq(Inputs) /\ n \in 1..Len(inbox) /\ Len(inbox) \in Nat
  BY DEF TypeOK
<1>2. /\ SubSeq(inbox, 1, n) \in Seq(Inputs) /\ Len(SubSeq(inbox, 1, n)) = n
      /\ SubSeq(inbox, 1, n)[n] = inbox[n]
  BY <1>1, SubSeqProperties
<1>3. SubSeq(inbox, n + 1, Len(inbox)) \in Seq(Inputs)
  BY <1>1, SubSeqProperties
<1>4. n \in DOMAIN SubSeq(inbox, 1, n)
  BY <1>1, <1>2
<1> QED
  BY <1>1, <1>2, <1>3, <1>4 DEF ToSet

\* what a turn sends holds messages only
LEMMA GivenType ==
  ASSUME TypeOK, turn.plan.patch \subseteq DOMAIN rows
  PROVE  Given \subseteq Messages
<1>1. turn.batch \subseteq Inputs
  BY DEF Turns, TypeOK
<1> QED
  BY <1>1, CarriedType DEF Given, Messages

LEMMA ArrivalType ==
  ASSUME TypeOK,
         \/ \E u \in Inputs : UserSends(u)
         \/ \E m \in Silent : SilentArrives(m)
         \/ \E k \in Kernels : Begin(k)
  PROVE  TypeOK'
<1>1. ASSUME NEW u \in Inputs, UserSends(u)
      PROVE  TypeOK'
  <2>1. Row("user_input", {u}, u, Nothing) \in Rows
    BY DEF Row, Rows, Messages
  <2>2. rows' \in Seq(Rows)
    BY <1>1, <2>1, Grown DEF UserSends
  <2>3. lane' \in [Kernels -> [bound : BOOLEAN, knownThrough : 0..Len(rows')]]
    BY <1>1, <2>1, LaneGrows DEF UserSends
  <2>4. inbox' \in Seq(Inputs)
    BY <1>1 DEF UserSends, TypeOK
  <2> QED
    BY <1>1, <2>2, <2>3, <2>4 DEF UserSends, TypeOK
<1>2. ASSUME NEW m \in Silent, SilentArrives(m)
      PROVE  TypeOK'
  <2>1. Row("user_input", {m}, Nothing, Nothing) \in Rows
    BY DEF Row, Rows, Messages
  <2>2. rows' \in Seq(Rows)
    BY <1>2, <2>1, Grown DEF SilentArrives
  <2>3. lane' \in [Kernels -> [bound : BOOLEAN, knownThrough : 0..Len(rows')]]
    BY <1>2, <2>1, LaneGrows DEF SilentArrives
  <2> QED
    BY <1>2, <2>2, <2>3 DEF SilentArrives, TypeOK
<1>3. ASSUME NEW k \in Kernels, Begin(k)
      PROVE  TypeOK'
  <2>1. PICK n \in DOMAIN inbox :
          /\ rows' = Append(rows, Row("inbound_message", ToSet(SubSeq(inbox, 1, n)), inbox[n],
                                      Nothing))
          /\ inbox' = SubSeq(inbox, n + 1, Len(inbox))
          /\ turn' = [NoTurn(k) EXCEPT !.pc = "composing",
                                       !.batch = ToSet(SubSeq(inbox, 1, n))]
    BY <1>3, Zenon DEF Begin
  <2>2. Row("inbound_message", ToSet(SubSeq(inbox, 1, n)), inbox[n], Nothing) \in Rows
    BY BatchType DEF Row, Rows, Messages
  <2>3. rows' \in Seq(Rows)
    BY <2>1, <2>2, Grown
  <2>4. lane' \in [Kernels -> [bound : BOOLEAN, knownThrough : 0..Len(rows')]]
    BY <1>3, <2>1, <2>2, LaneGrows DEF Begin
  <2>5. turn' \in Turns
    <3> DEFINE batch == ToSet(SubSeq(inbox, 1, n))
    <3>1. batch \subseteq Inputs
      BY BatchType
    <3>2. turn' = [NoTurn(k) EXCEPT !.pc = "composing", !.batch = batch]
      BY <2>1
    <3>3. NoTurn(k) \in Turns
      BY Idles
    <3> HIDE DEF batch
    <3> QED
      BY <3>1, <3>2, <3>3 DEF Turns
  <2>6. begun' \in 0..MaxTurns
    <3>1. begun < MaxTurns /\ begun' = begun + 1 /\ begun \in 0..MaxTurns
      BY <1>3 DEF Begin, TypeOK
    <3> QED
      BY <3>1, HistoryBoundsAssumption
  <2> QED
    BY <1>3, <2>1, <2>3, <2>4, <2>5, <2>6, BatchType DEF Begin, TypeOK
<1> QED
  BY <1>1, <1>2, <1>3

LEMMA HeldType ==
  ASSUME TypeOK, NEW k \in Kernels, NEW held \in Held(k)
  PROVE  held \subseteq Messages
<1>1. native[k].holds \subseteq Messages
  BY DEF Conversations, TypeOK
<1> QED
  BY <1>1 DEF Held

LEMMA TurnType ==
  ASSUME TypeOK, Numbered, Dispatched, NEW k \in Kernels,
         \/ Restore(k) \/ Compose(k) \/ Consume(k) \/ Resync(k)
         \/ EndsUnheard(k) \/ Answer(k) \/ EndsWordless(k)
  PROVE  TypeOK'
<1> DEFINE LaneType(l) == l \in [Kernels -> [bound : BOOLEAN, knownThrough : 0..Len(rows)]]
<1>1. /\ LaneType(lane) /\ native \in [Kernels -> Conversations]
      /\ checkpoint \in [Kernels -> Checkpoints] /\ turn \in Turns /\ turn.plan \in Plans
  BY DEF Turns, TypeOK
<1>2. CASE Restore(k)
  <2>1. checkpoint[k].holds \subseteq Messages
    BY <1>1 DEF Checkpoints
  <2>2. native' \in [Kernels -> Conversations]
    BY <1>1, <1>2, <2>1 DEF Restore, Conversations
  <2> QED
    BY <1>2, <2>2 DEF Restore, TypeOK
<1>3. CASE Compose(k)
  <2>1. turn' \in Turns
    BY <1>1, <1>3, PrepareType DEF Compose, Turns
  <2>2. LaneType(lane')
    BY <1>1, <1>3 DEF Compose
  <2>3. checkpoint' \in [Kernels -> Checkpoints]
    BY <1>1, <1>3 DEF Compose, DispatchClears, Checkpoints
  <2> QED
    BY <1>3, <2>1, <2>2, <2>3 DEF Compose, TypeOK
<1>4. CASE Consume(k)
  <2>1. turn.plan.through \in 0..Len(rows)
    <3>1. turn.plan.through \in Nat /\ turn.plan.through <= Len(rows) /\ Len(rows) \in Nat
      BY <1>1, <1>4 DEF Consume, Dispatched, Plans, TypeOK
    <3> QED
      BY <3>1
  <2>2. LaneType(lane')
    <3> DEFINE known == IF lane[k].bound /\ turn.plan.through # 0 THEN turn.plan.through
                        ELSE lane[k].knownThrough
    <3>1. known \in 0..Len(rows) /\ lane[k] \in [bound : BOOLEAN, knownThrough : 0..Len(rows)]
      BY <1>1, <2>1
    <3>2. lane' = [lane EXCEPT ![k] = [lane[k] EXCEPT !.knownThrough = known]]
      BY <1>4 DEF Consume, Acknowledge
    <3> HIDE DEF known
    <3> QED
      BY <1>1, <3>1, <3>2
  <2>3. PICK held \in Held(k) :
          native' = [native EXCEPT ![k] =
                       [open |-> k \in Remembering \cup Checkpointing, restored |-> FALSE,
                        holds |-> held \cup Given, heard |-> held \cup Given]]
    BY <1>4 DEF Consume
  <2>4. held \cup Given \subseteq Messages
    BY <1>4, HeldType, GivenType DEF Consume, Dispatched
  <2>5. native' \in [Kernels -> Conversations]
    BY <1>1, <2>3, <2>4 DEF Conversations
  <2>6. turn' \in Turns
    BY <1>1, <1>4 DEF Consume, Turns
  <2>7. severed' \subseteq Kernels
    BY <1>4 DEF Consume, TypeOK
  <2> QED
    BY <1>4, <2>2, <2>5, <2>6, <2>7 DEF Consume, TypeOK
<1>5. CASE Resync(k)
  <2>1. turn' \in Turns
    BY <1>1, <1>5, Idles DEF Resync, RetrySnapshot, Turns
  <2>2. native' \in [Kernels -> Conversations]
    BY <1>1, <1>5, Idles DEF Resync
  <2> QED
    BY <1>5, <2>1, <2>2 DEF Resync, TypeOK
<1>6. CASE EndsUnheard(k)
  <2>1. turn' \in Turns
    BY <1>6, Idles DEF EndsUnheard
  <2>2. Given \subseteq Messages
    BY <1>6, GivenType DEF EndsUnheard, Dispatched
  <2>3. native' \in [Kernels -> Conversations] /\ severed' \subseteq Kernels
    <3>1. CASE UNCHANGED <<native, severed>>
      BY <1>1, <3>1 DEF TypeOK
    <3>2. CASE ~ UNCHANGED <<native, severed>>
      <4>1. PICK held \in Held(k), given \in LeftBehind(k) :
              /\ native' = [native EXCEPT ![k] =
                              [@ EXCEPT !.open = TRUE, !.restored = FALSE,
                                        !.holds = held \cup given]]
              /\ severed' = IF turn.plan.mode = "snapshot" /\ given = {}
                            THEN severed \cup {k} ELSE severed
        BY <1>6, <3>2 DEF EndsUnheard
      <4>2. held \cup given \subseteq Messages
        BY <2>2, HeldType DEF LeftBehind
      <4>3. native[k] \in Conversations
        BY <1>1
      <4>4. native' \in [Kernels -> Conversations]
        BY <1>1, <4>1, <4>2, <4>3 DEF Conversations
      <4> QED
        BY <4>1, <4>4 DEF TypeOK
    <3> QED
      BY <3>1, <3>2
  <2> QED
    BY <1>6, <2>1, <2>3 DEF EndsUnheard, TypeOK
<1>7. CASE Answer(k)
  <2>1. begun \in Answers /\ begun \in Messages
    BY <1>7, HistoryBoundsAssumption DEF Answer, Numbered, Answers, Messages, TypeOK
  <2>2. Row("assistant", {begun}, Nothing, k) \in Rows
    BY <2>1 DEF Row, Rows
  <2>3. rows' \in Seq(Rows)
    BY <1>7, <2>2, Grown DEF Answer
  <2>4. lane' \in [Kernels -> [bound : BOOLEAN, knownThrough : 0..Len(rows')]]
    BY <1>7, <2>2, LaneGrows DEF Answer
  <2>5. native' \in [Kernels -> Conversations]
    <3>1. native' = [native EXCEPT ![k] = [native[k] EXCEPT !.holds = @ \cup {begun},
                                                            !.heard = @ \cup {begun}]]
      BY <1>7 DEF Answer
    <3>2. [native[k] EXCEPT !.holds = @ \cup {begun}, !.heard = @ \cup {begun}] \in Conversations
      BY <1>1, <2>1 DEF Conversations
    <3> QED
      BY <1>1, <3>1, <3>2
  <2>6. checkpoint' \in [Kernels -> Checkpoints]
    <3>1. native'[k].holds \subseteq Messages
      BY <2>5 DEF Conversations
    <3>2. CASE checkpoint' = checkpoint
      BY <1>1, <3>2
    <3>3. CASE checkpoint' = [checkpoint EXCEPT ![k] = [kept |-> TRUE, holds |-> native'[k].holds]]
      BY <1>1, <3>1, <3>3 DEF Checkpoints
    <3> QED
      BY <1>7, <3>2, <3>3 DEF Answer
  <2>7. turn' \in Turns
    BY <1>7, Idles DEF Answer
  <2> QED
    BY <1>7, <2>3, <2>4, <2>5, <2>6, <2>7 DEF Answer, TypeOK
<1>8. CASE EndsWordless(k)
  BY <1>8, Idles DEF EndsWordless, TypeOK
<1> QED
  BY <1>2, <1>3, <1>4, <1>5, <1>6, <1>7, <1>8

LEMMA FaultType ==
  ASSUME TypeOK,
         \/ \E k \in Kernels : OwnerDies(k)
         \/ Restart
  PROVE  TypeOK'
<1>1. ASSUME NEW k \in Kernels, OwnerDies(k)
      PROVE  TypeOK'
  <2>1. native[k] \in Conversations /\ native \in [Kernels -> Conversations]
    BY DEF TypeOK
  <2>2. native' \in [Kernels -> Conversations]
    BY <1>1, <2>1 DEF OwnerDies, Conversations
  <2>3. severed' \subseteq Kernels
    BY <1>1 DEF OwnerDies, TypeOK
  <2> QED
    BY <1>1, <2>2, <2>3 DEF OwnerDies, TypeOK
<1>2. CASE Restart
  <2>1. turn' \in Turns
    BY <1>2, Idles DEF Restart, Turns, TypeOK
  <2>2. native' \in [Kernels -> Conversations] /\ inbox' \in Seq(Inputs)
    BY <1>2, Idles DEF Restart
  <2>3. restarts' \in 0..MaxRestarts
    BY <1>2, HistoryBoundsAssumption DEF Restart, TypeOK
  <2> QED
    BY <1>2, <2>1, <2>2, <2>3 DEF Restart, TypeOK
<1> QED
  BY <1>1, <1>2

LEMMA NextType == IInv /\ Next => TypeOK'
  BY ArrivalType, TurnType, FaultType DEF IInv, Next

-----------------------------------------------------------------------------
(* What the ledger says, as it stands and as it grows                      *)

LEMMA SameHistory ==
  ASSUME rows' = rows
  PROVE  /\ Entries' = Entries /\ \A R : Carried(R)' = Carried(R)
         /\ \A p : FromUser(p)' <=> FromUser(p)
         /\ \A k, p : Owned(k, p)' <=> Owned(k, p)
         /\ \A c : Said(c)' <=> Said(c)
         /\ \A k, c : lane'[k].knownThrough = lane[k].knownThrough =>
              (Current(k, c)' <=> Current(k, c)) /\ (Unheard(k, c)' <=> Unheard(k, c))
<1>1. Entries' = Entries
  BY DEF Entries, Projected
<1>2. \A R : Carried(R)' = Carried(R)
  BY DEF Carried
<1>3. \A p : FromUser(p)' <=> FromUser(p)
  BY DEF FromUser
<1>4. \A k, p : Owned(k, p)' <=> Owned(k, p)
  BY DEF FromUser, Owned
<1>5. \A c : Said(c)' <=> Said(c)
  BY DEF Carried, Said
<1>6. ASSUME NEW k, NEW c, lane'[k].knownThrough = lane[k].knownThrough
      PROVE  (Current(k, c)' <=> Current(k, c)) /\ (Unheard(k, c)' <=> Unheard(k, c))
  BY <1>1, <1>4, <1>6 DEF Current, Unheard
<1> QED
  BY <1>1, <1>2, <1>3, <1>4, <1>5, <1>6

LEMMA GrownHistory ==
  ASSUME TypeOK, NEW r \in Rows, rows' = Append(rows, r)
  PROVE  /\ \A p \in DOMAIN rows : FromUser(p)' <=> FromUser(p)
         /\ \A k, p : p \in DOMAIN rows => (Owned(k, p)' <=> Owned(k, p))
         /\ \A p \in Entries' : p \in Entries \/ p = Len(rows) + 1
         /\ \A R \in SUBSET DOMAIN rows : Carried(R)' = Carried(R)
         /\ Carried(DOMAIN rows)' = Carried(DOMAIN rows) \cup r.holds
<1>1. /\ Len(rows) \in Nat /\ DOMAIN rows = 1..Len(rows) /\ DOMAIN rows' = 1..(Len(rows) + 1)
      /\ rows'[Len(rows) + 1] = r /\ \A p \in DOMAIN rows : rows'[p] = rows[p]
      /\ \A p \in DOMAIN rows' : p \in DOMAIN rows \/ p = Len(rows) + 1
  BY Grown
<1>2. \A p \in DOMAIN rows : FromUser(p)' <=> FromUser(p)
  BY <1>1 DEF FromUser
<1>3. \A k, p : p \in DOMAIN rows => (Owned(k, p)' <=> Owned(k, p))
  BY <1>1 DEF FromUser, Owned
<1>4. ASSUME NEW p \in Entries', p \in DOMAIN rows
      PROVE  p \in Entries
  <2>1. DOMAIN rows \subseteq DOMAIN rows'
    BY <1>1
  <2>2. Projected(p) => Projected(p)'
    BY <1>1, <1>4, <2>1 DEF Projected
  <2> QED
    BY <1>4, <2>2 DEF Entries
<1>5. \A p \in Entries' : p \in Entries \/ p = Len(rows) + 1
  BY <1>1, <1>4 DEF Entries
<1>6. \A R \in SUBSET DOMAIN rows : Carried(R)' = Carried(R)
  BY <1>1 DEF Carried
<1>7. Carried(DOMAIN rows)' = Carried(DOMAIN rows) \cup r.holds
  <2>1. ASSUME NEW m
        PROVE  m \in Carried(DOMAIN rows)' <=> m \in Carried(DOMAIN rows) \cup r.holds
    <3>1. m \in Carried(DOMAIN rows)' <=> \E p \in DOMAIN rows' : m \in rows'[p].holds
      BY DEF Carried
    <3>2. m \in Carried(DOMAIN rows) <=> \E p \in DOMAIN rows : m \in rows[p].holds
      BY DEF Carried
    <3>3. Len(rows) + 1 \in DOMAIN rows' /\ DOMAIN rows \subseteq DOMAIN rows'
      BY <1>1
    <3> QED
      BY <1>1, <3>1, <3>2, <3>3
  <2> QED
    BY <2>1
<1> QED
  BY <1>2, <1>3, <1>5, <1>6, <1>7

\* A row of users: no conversation has heard of it, and none misses it yet.
LEMMA UserRow ==
  ASSUME IInv, NEW r \in Rows, rows' = Append(rows, r), r.kind # "assistant",
         r.holds \cap Answers = {}, r.holds \cap Silent \cap Carried(DOMAIN rows) = {},
         UNCHANGED <<lane, native, checkpoint, severed>>
  PROVE  /\ Known' /\ NotHeard' /\ AllSaid'
         /\ \A p \in DOMAIN rows' : rows'[p].holds \cap Answers \subseteq 1..begun
<1>1. TypeOK
  BY DEF IInv
<1>2. /\ Len(rows) \in Nat /\ rows'[Len(rows) + 1] = r
      /\ DOMAIN rows = 1..Len(rows) /\ Entries \subseteq DOMAIN rows
      /\ \A p \in DOMAIN rows : rows'[p] = rows[p]
      /\ \A p \in DOMAIN rows' : p \in DOMAIN rows \/ p = Len(rows) + 1
      /\ r.kind \in {"user_input", "inbound_message"}
  BY <1>1, Grown DEF Entries, Rows
<1>3. /\ \A p \in Entries' : p \in Entries \/ p = Len(rows) + 1
      /\ \A k, p : p \in DOMAIN rows => (Owned(k, p)' <=> Owned(k, p))
      /\ Carried(DOMAIN rows)' = Carried(DOMAIN rows) \cup r.holds
  BY <1>1, GrownHistory
<1>9. \A k, p : p = Len(rows) + 1 => ~ Owned(k, p)'
  BY <1>2 DEF Owned, FromUser
<1>4. ASSUME NEW k \in Kernels, NEW c, Current(k, c)
      PROVE  Current(k, c)'
  <2>1. lane[k].knownThrough \in 0..Len(rows)
    BY <1>1 DEF TypeOK
  <2>2. ~ (Len(rows) + 1 <= lane[k].knownThrough)
    BY <1>2, <2>1
  <2>3. ASSUME NEW p \in Entries', p <= lane'[k].knownThrough \/ Owned(k, p)'
        PROVE  rows'[p].holds \subseteq c
    <3>1. p \in Entries
      BY <1>9, <1>3, <2>2, <2>3
    <3> QED
      BY <1>2, <1>3, <1>4, <2>3, <3>1 DEF Current
  <2> QED
    BY <2>3 DEF Current
<1>5. ASSUME NEW k \in Kernels, NEW c, Unheard(k, c), Said(c)
      PROVE  Unheard(k, c)'
  <2>1. r.holds \cap Once \cap c = {}
    BY <1>5 DEF Said, Once
  <2> QED
    BY <1>2, <1>3, <1>5, <2>1 DEF Unheard
<1>6. \A c : Said(c) => Said(c)'
  BY <1>3 DEF Said
<1>7. Known' /\ NotHeard' /\ AllSaid'
  BY <1>4, <1>5, <1>6 DEF IInv, Known, NotHeard, AllSaid
<1>8. \A p \in DOMAIN rows' : rows'[p].holds \cap Answers \subseteq 1..begun
  BY <1>2 DEF IInv, Numbered
<1> QED
  BY <1>7, <1>8

LEMMA Disjoint ==
  /\ Inputs \cap Once = {} /\ Silent \cap Answers = {} /\ Inputs \cap Answers = {}
  /\ Inputs \cap Silent = {} /\ Answers \subseteq Once /\ Silent \subseteq Once
<1>1. Answers \subseteq Nat
  BY HistoryBoundsAssumption DEF Answers
<1> QED
  BY <1>1, MessagesAssumption DEF Once

LEMMA BegunAnswer == TypeOK /\ begun # 0 => begun \in Answers
  BY HistoryBoundsAssumption DEF TypeOK, Answers

\* the same, for the turn that is under way meanwhile
LEMMA UserRowTurn ==
  ASSUME IInv, NEW r \in Rows, rows' = Append(rows, r), r.kind # "assistant",
         r.holds \cap Answers = {}, r.holds \cap Silent \cap Carried(DOMAIN rows) = {},
         UNCHANGED <<lane, native, checkpoint, severed, turn, begun>>
  PROVE  Bound' /\ Numbered' /\ Dispatched' /\ Sent' /\ Taken'
<1>1. TypeOK /\ Bound /\ Numbered /\ Dispatched /\ Sent /\ Taken /\ AllSaid
  BY DEF IInv
<1>2. /\ Len(rows) \in Nat /\ rows'[Len(rows) + 1] = r
      /\ Len(rows') = Len(rows) + 1
      /\ DOMAIN rows = 1..Len(rows) /\ Entries \subseteq DOMAIN rows
      /\ DOMAIN rows \subseteq DOMAIN rows'
      /\ \A p \in DOMAIN rows : rows'[p] = rows[p]
      /\ r.kind \in {"user_input", "inbound_message"}
  BY <1>1, Grown DEF Entries, Rows
<1>3. /\ \A p \in Entries' : p \in Entries \/ p = Len(rows) + 1
      /\ \A p \in DOMAIN rows : FromUser(p)' <=> FromUser(p)
      /\ \A R \in SUBSET DOMAIN rows : Carried(R)' = Carried(R)
      /\ Carried(DOMAIN rows)' = Carried(DOMAIN rows) \cup r.holds
  BY <1>1, GrownHistory
<1>4. \A p : p = Len(rows) + 1 => FromUser(p)'
  BY <1>2 DEF FromUser
<1>5. turn.kernel \in Kernels /\ turn.plan.through \in Nat /\ turn.batch \subseteq Inputs
  BY <1>1 DEF TypeOK, Turns, Plans
<1>6. lane[turn.kernel].knownThrough \in 0..Len(rows)
  BY <1>1, <1>5 DEF TypeOK
<1>7. Bound'
  BY <1>1 DEF Bound
<1>8. Numbered'
  <2>1. \A p \in DOMAIN rows' : rows'[p].holds \cap Answers \subseteq 1..begun
    BY UserRow
  <2>2. turn.pc # "idle" => begun \notin Carried(DOMAIN rows)'
    BY <1>1, <1>3, BegunAnswer DEF Numbered
  <2>3. turn.pc # "idle" => \E p \in DOMAIN rows' : rows'[p].kind = "inbound_message"
    BY <1>1, <1>2 DEF Numbered
  <2> QED
    BY <1>1, <2>1, <2>2, <2>3 DEF Numbered
<1>9. Dispatched'
  <2>1. SUFFICES ASSUME turn.pc \in {"sent", "active"}
                 PROVE  Dispatched'
    BY DEF Dispatched
  <2>2. turn.plan.through <= Len(rows') /\ turn.plan.patch \subseteq DOMAIN rows'
    BY <1>1, <1>2, <1>5, <2>1 DEF Dispatched
  <2>3. ASSUME NEW p \in Entries',
               \/ p <= turn.plan.through
               \/ p <= lane[turn.kernel].knownThrough
               \/ ~ FromUser(p)'
        PROVE  p \in Entries /\ rows'[p].holds \subseteq turn.plan.seen
    <3>1. p # Len(rows) + 1
      BY <1>1, <1>2, <1>4, <1>5, <1>6, <2>1, <2>3 DEF Dispatched
    <3>2. p \in Entries /\ p \in DOMAIN rows
      BY <1>2, <1>3, <3>1
    <3> QED
      BY <1>1, <1>2, <1>3, <2>1, <2>3, <3>2 DEF Dispatched
  <2> QED
    BY <1>1, <2>1, <2>2, <2>3 DEF Dispatched
<1>10. Sent'
  <2>1. SUFFICES ASSUME turn.pc = "sent"
                 PROVE  Sent'
    BY DEF Sent
  <2>2. /\ turn.plan.patch \subseteq DOMAIN rows
        /\ Carried(turn.plan.patch)' = Carried(turn.plan.patch) /\ Given' = Given
    BY <1>1, <1>3, <2>1 DEF Dispatched, Given
  <2>3. Carried(turn.plan.patch) \subseteq Carried(DOMAIN rows)
    BY <2>2 DEF Carried
  <2>4. r.holds \cap Once \cap (native[turn.kernel].holds \cup Given) = {}
    BY <1>1, <1>5, <2>3, Disjoint DEF AllSaid, Said, Given, Once
  <2> QED
    BY <1>1, <1>2, <1>3, <2>1, <2>2, <2>4 DEF Sent
<1>11. Taken'
  BY <1>1 DEF Taken
<1> QED
  BY <1>7, <1>8, <1>9, <1>10, <1>11

LEMMA ArrivalStep ==
  ASSUME IInv, TypeOK',
         \/ \E u \in Inputs : UserSends(u)
         \/ \E m \in Silent : SilentArrives(m)
  PROVE  IInv'
<1>1. ASSUME NEW u \in Inputs, UserSends(u)
      PROVE  IInv'
  <2> DEFINE r == Row("user_input", {u}, u, Nothing)
  <2>1. r \in Rows /\ r.kind # "assistant" /\ r.holds = {u}
    BY DEF Row, Rows, Messages
  <2>2. /\ rows' = Append(rows, r)
        /\ UNCHANGED <<lane, native, checkpoint, severed, turn, begun>>
    BY <1>1 DEF UserSends
  <2>3. r.holds \cap Answers = {} /\ r.holds \cap Silent \cap Carried(DOMAIN rows) = {}
    BY <2>1, Disjoint
  <2> HIDE DEF r
  <2> QED
    BY <2>1, <2>2, <2>3, UserRow, UserRowTurn DEF IInv
<1>2. ASSUME NEW m \in Silent, SilentArrives(m)
      PROVE  IInv'
  <2> DEFINE r == Row("user_input", {m}, Nothing, Nothing)
  <2>1. r \in Rows /\ r.kind # "assistant" /\ r.holds = {m}
    BY DEF Row, Rows, Messages
  <2>2. /\ rows' = Append(rows, r)
        /\ UNCHANGED <<lane, native, checkpoint, severed, turn, begun>>
    BY <1>2 DEF SilentArrives
  <2>3. r.holds \cap Answers = {} /\ r.holds \cap Silent \cap Carried(DOMAIN rows) = {}
    BY <1>2, <2>1, Disjoint DEF SilentArrives, NotSent, Carried
  <2> HIDE DEF r
  <2> QED
    BY <2>1, <2>2, <2>3, UserRow, UserRowTurn DEF IInv
<1> QED
  BY <1>1, <1>2

LEMMA BeginStep ==
  ASSUME IInv, TypeOK', NEW k \in Kernels, Begin(k)
  PROVE  IInv'
<1>1. PICK n \in DOMAIN inbox :
        /\ rows' = Append(rows, Row("inbound_message", ToSet(SubSeq(inbox, 1, n)), inbox[n],
                                    Nothing))
        /\ turn' = [NoTurn(k) EXCEPT !.pc = "composing",
                                     !.batch = ToSet(SubSeq(inbox, 1, n))]
  BY Zenon DEF Begin
<1> DEFINE batch == ToSet(SubSeq(inbox, 1, n))
           r == Row("inbound_message", batch, inbox[n], Nothing)
<1>2. batch \subseteq Inputs /\ inbox[n] \in Inputs
  BY BatchType DEF IInv
<1>3. r \in Rows /\ r.kind = "inbound_message" /\ r.holds = batch
  BY <1>2 DEF Row, Rows, Messages
<1>4. /\ rows' = Append(rows, r) /\ begun' = begun + 1
      /\ turn' = [NoTurn(k) EXCEPT !.pc = "composing", !.batch = batch]
      /\ UNCHANGED <<lane, native, checkpoint, severed>>
  BY <1>1 DEF Begin
<1>5. r.holds \cap Answers = {} /\ r.holds \cap Silent \cap Carried(DOMAIN rows) = {}
  BY <1>2, <1>3, Disjoint
<1> HIDE DEF batch, r
<1>6. turn'.pc = "composing"
  <2>1. NoTurn(k) \in Turns
    BY Idles
  <2> QED
    BY <1>4, <2>1 DEF Turns
<1>7. /\ Known' /\ NotHeard' /\ AllSaid'
      /\ \A p \in DOMAIN rows' : rows'[p].holds \cap Answers \subseteq 1..begun
  BY <1>3, <1>4, <1>5, UserRow
<1>8. begun \in Nat /\ Len(rows) \in Nat
  BY HistoryBoundsAssumption DEF IInv, TypeOK
<1>9. Numbered'
  <2>1. \A p \in DOMAIN rows' : rows'[p].holds \cap Answers \subseteq 1..begun'
    BY <1>4, <1>7, <1>8
  <2>2. begun' # 0 /\ begun' \in Answers
    BY <1>4, <1>8, HistoryBoundsAssumption DEF TypeOK, Answers
  <2>3. begun' \notin Carried(DOMAIN rows)'
    <3>1. \A p \in DOMAIN rows' : begun' \notin rows'[p].holds
      BY <1>4, <1>7, <1>8, <2>2
    <3> QED
      BY <3>1 DEF Carried
  <2>4. \E p \in DOMAIN rows' : rows'[p].kind = "inbound_message"
    <3>1. Len(rows) + 1 \in DOMAIN rows' /\ rows'[Len(rows) + 1] = r
      BY <1>3, <1>4, <1>8, Grown DEF IInv
    <3> QED
      BY <1>3, <3>1
  <2> QED
    BY <2>1, <2>2, <2>3, <2>4 DEF Numbered
<1>10. Bound' /\ Dispatched' /\ Sent' /\ Taken'
  BY <1>4, <1>6 DEF IInv, Bound, Dispatched, Sent, Taken
<1> QED
  BY <1>7, <1>9, <1>10 DEF IInv

LEMMA RestoreStep ==
  ASSUME IInv, TypeOK', NEW k \in Kernels, Restore(k)
  PROVE  IInv'
<1>1. /\ rows' = rows /\ checkpoint[k].kept
      /\ UNCHANGED <<lane, checkpoint, turn, severed, begun>>
      /\ turn.pc = "composing"
  BY DEF Restore
<1>2. /\ native'[k].holds = checkpoint[k].holds /\ native'[k].heard = checkpoint[k].holds
      /\ \A j \in Kernels \ {k} : native'[j] = native[j]
  BY DEF Restore, IInv, TypeOK
<1>3. Known' /\ NotHeard' /\ AllSaid'
  <2>1. ASSUME NEW j \in Kernels \ severed, native'[j].open
        PROVE  Current(j, native'[j].holds)
    BY <1>1, <1>2, <2>1 DEF IInv, Known
  <2>2. ASSUME NEW j \in Kernels
        PROVE  /\ Unheard(j, native'[j].heard) /\ Said(native'[j].holds)
               /\ Said(native'[j].heard)
    BY <1>1, <1>2 DEF IInv, NotHeard, AllSaid
  <2> QED
    BY <1>1, <2>1, <2>2, SameHistory DEF IInv, Known, NotHeard, AllSaid
<1>4. Bound' /\ Dispatched' /\ Sent' /\ Taken'
  BY <1>1 DEF IInv, Bound, Dispatched, Sent, Taken
<1>5. Numbered'
  BY <1>1, SameHistory DEF IInv, Numbered
<1> QED
  BY <1>3, <1>4, <1>5 DEF IInv

\* A snapshot gives everything; a delta what the conversation lacks and has not heard.
LEMMA ComposeStep ==
  ASSUME IInv, TypeOK', NEW k \in Kernels, Compose(k)
  PROVE  IInv'
<1>1. /\ rows' = rows /\ turn.pc = "composing" /\ turn.kernel = k
      /\ UNCHANGED <<native, severed, begun>>
      /\ turn' = [turn EXCEPT !.pc = "sent", !.plan = Prepare(k)]
      /\ lane' = [lane EXCEPT ![k].bound = @ \/ Prepare(k).patch # {}]
      /\ checkpoint' = [checkpoint EXCEPT ![k] = [kept |-> FALSE, holds |-> {}]]
  BY DEF Compose, DispatchClears
<1>2. TypeOK /\ Known /\ NotHeard /\ AllSaid /\ Bound /\ Numbered
  BY DEF IInv
<1>3. turn'.pc = "sent" /\ turn'.kernel = k /\ turn'.batch = turn.batch /\ turn'.plan = Prepare(k)
  BY <1>1, <1>2 DEF TypeOK, Turns
<1>4. \A j \in Kernels : lane'[j].knownThrough = lane[j].knownThrough
                           /\ (lane[j].bound => lane'[j].bound)
  BY <1>1, <1>2 DEF TypeOK
<1>5. /\ ~checkpoint'[k].kept /\ checkpoint'[k].holds = {}
      /\ \A j \in Kernels \ {k} : checkpoint'[j] = checkpoint[j]
  BY <1>1, <1>2 DEF TypeOK
<1> DEFINE P == Prepare(k)
<1>6. /\ P \in Plans /\ P.patch \subseteq Entries /\ P.through = Max(Entries \cup {0})
      /\ P.seen = Carried(Entries)
      /\ P.mode = "snapshot" => P.patch = Entries
      /\ P.mode # "snapshot" => CanResume(k) /\ P.patch = DeltaAfter(k)
  BY <1>2, PrepareType
<1> HIDE DEF P
<1>7. /\ \A p \in Entries : p <= P.through /\ rows[p].holds \subseteq P.seen
      /\ P.through <= Len(rows) /\ Entries \subseteq DOMAIN rows
      /\ P.through \in Nat /\ Entries \subseteq Nat
  <2>1. \A p \in Entries : rows[p].holds \subseteq P.seen
    BY <1>6 DEF Carried
  <2>2. P.through \in 0..Len(rows) /\ \A p \in Entries : p <= P.through
    BY <1>2, <1>6, GreatestEntry
  <2>3. Entries \subseteq DOMAIN rows /\ DOMAIN rows \subseteq Nat /\ Len(rows) \in Nat
    BY <1>2 DEF TypeOK, Entries
  <2> QED
    BY <2>1, <2>2, <2>3
<1>8. Known' /\ NotHeard' /\ AllSaid'
  <2>1. /\ \A c : Said(c)' <=> Said(c)
        /\ \A j \in Kernels : \A c : /\ Current(j, c)' <=> Current(j, c)
                                     /\ Unheard(j, c)' <=> Unheard(j, c)
    BY <1>1, <1>4, SameHistory
  <2>2. ASSUME NEW j \in Kernels \ severed
        PROVE  checkpoint'[j].kept => Current(j, checkpoint'[j].holds)
    BY <1>2, <1>5 DEF Known
  <2>3. ASSUME NEW j \in Kernels
        PROVE  checkpoint'[j].kept => Unheard(j, checkpoint'[j].holds)
    BY <1>2, <1>5 DEF NotHeard
  <2>4. ASSUME NEW j \in Kernels
        PROVE  Said(checkpoint'[j].holds)
    <3>1. Said({}) /\ Said(checkpoint[j].holds)
      BY <1>2 DEF AllSaid, Said
    <3> QED
      BY <1>5, <3>1
  <2>5. Known'
    <3>1. ASSUME NEW j \in Kernels \ severed
          PROVE  /\ native[j].open => Current(j, native[j].holds)'
                 /\ checkpoint'[j].kept => Current(j, checkpoint[j].holds)'
      <4>1. PICK c, d : c = native[j].holds /\ d = checkpoint'[j].holds
        OBVIOUS
      <4>2. (native[j].open => Current(j, c)) /\ (checkpoint'[j].kept => Current(j, d))
        BY <1>2, <2>2, <4>1 DEF Known
      <4>3. (Current(j, c)' <=> Current(j, c)) /\ (Current(j, d)' <=> Current(j, d))
        BY <2>1
      <4> QED
        BY <1>1, <4>1, <4>2, <4>3
    <3> QED
      BY <1>1, <3>1 DEF Known
  <2>6. NotHeard'
    BY <1>1, <1>2, <2>1, <2>3 DEF NotHeard
  <2>7. AllSaid'
    BY <1>1, <1>2, <2>1, <2>4 DEF AllSaid
  <2> QED
    BY <2>5, <2>6, <2>7
<1>9. Entries # {} /\ P.through # 0
  <2>1. PICK p \in DOMAIN rows : rows[p].kind = "inbound_message"
    BY <1>1, <1>2 DEF Numbered
  <2>2. p \in Entries /\ p \in Nat /\ p # 0
    BY <1>2, <2>1 DEF Entries, Projected, TypeOK
  <2> QED
    BY <1>7, <2>2
<1>10. Bound'
  <2>1. lane'[k].bound
    <3>1. CASE P.mode = "snapshot"
      <4>1. lane'[k].bound = (lane[k].bound \/ P.patch # {})
        BY <1>1, <1>2 DEF TypeOK, P
      <4> QED
        BY <1>6, <1>9, <3>1, <4>1
    <3>2. CASE P.mode # "snapshot"
      BY <1>2, <1>4, <1>6, <3>2 DEF CanResume, Bound
    <3> QED
      BY <3>1, <3>2
  <2> QED
    BY <1>2, <1>3, <1>4, <1>9, <2>1 DEF Bound, P
<1>11. Numbered'
  BY <1>1, <1>2, <1>3, SameHistory DEF Numbered
<1>12. Dispatched'
  BY <1>1, <1>3, <1>5, <1>6, <1>7, SameHistory DEF Dispatched, P
<1>13. ASSUME P.mode # "snapshot"
       PROVE  /\ k \notin severed => P.seen \subseteq native[k].holds \cup Carried(P.patch)
              /\ native[k].open
              /\ Carried(P.patch) \cap Once \cap native[k].heard = {}
  <2>1. native[k].open /\ P.patch = DeltaAfter(k)
    BY <1>6, <1>13 DEF CanResume
  <2>2. ASSUME NEW p \in Entries, p \notin P.patch, k \notin severed
        PROVE  rows[p].holds \subseteq native[k].holds
    <3>1. p <= lane[k].knownThrough \/ Owned(k, p)
      <4>1. lane[k].knownThrough \in Nat /\ p \in Nat
        BY <1>2, <1>7 DEF TypeOK
      <4> QED
        BY <2>1, <2>2, <4>1 DEF DeltaAfter, Owned
    <3> QED
      BY <1>2, <2>1, <2>2, <3>1 DEF Known, Current
  <2>3. k \notin severed => P.seen \subseteq native[k].holds \cup Carried(P.patch)
    BY <1>6, <2>2 DEF Carried
  <2>4. ASSUME NEW p \in P.patch
        PROVE  rows[p].holds \cap Once \cap native[k].heard = {}
    BY <1>2, <2>1, <2>4 DEF DeltaAfter, Owned, NotHeard, Unheard
  <2>5. Carried(P.patch) \cap Once \cap native[k].heard = {}
    BY <2>4 DEF Carried
  <2> QED
    BY <2>1, <2>3, <2>5
<1>14. Sent'
  <2>1. (\A R : Carried(R)' = Carried(R)) /\ Entries' = Entries
    BY <1>1, SameHistory
  <2>2. P.mode = "snapshot" => P.seen \subseteq Carried(P.patch)
    BY <1>6
  <2> QED
    BY <1>1, <1>3, <1>7, <1>13, <2>1, <2>2 DEF Sent, P
<1> QED
  BY <1>1, <1>3, <1>8, <1>10, <1>11, <1>12, <1>14 DEF IInv, Taken

\* One conversation changes, the ledger does not.
LEMMA OneConversation ==
  ASSUME IInv, rows' = rows, checkpoint' = checkpoint, NEW k \in Kernels, NEW h, NEW e,
         native'[k].holds = h, native'[k].heard = e,
         \A j \in Kernels \ {k} : /\ native'[j] = native[j] /\ lane'[j] = lane[j]
                                  /\ j \in severed => j \in severed',
         lane'[k] = lane[k] \/ ~checkpoint[k].kept,
         k \in severed => k \in severed' \/ ~checkpoint[k].kept,
         k \notin severed' /\ native'[k].open => (Current(k, h))',
         (Unheard(k, e))', Said(h), Said(e)
  PROVE  Known' /\ NotHeard' /\ AllSaid'
<1>1. Known /\ NotHeard /\ AllSaid
  BY DEF IInv
<1>2. ASSUME NEW j \in Kernels, lane'[j] = lane[j], NEW c
      PROVE  (Current(j, c)' <=> Current(j, c)) /\ (Unheard(j, c)' <=> Unheard(j, c))
  BY <1>2, SameHistory
<1>3. \A c : Said(c)' <=> Said(c)
  BY SameHistory
<1>4. Known'
  <2>1. ASSUME NEW j \in Kernels \ severed'
        PROVE  /\ (native[j].open => Current(j, native[j].holds))'
               /\ (checkpoint[j].kept => Current(j, checkpoint[j].holds))'
    <3>1. PICK c, d : c = native'[j].holds /\ d = checkpoint[j].holds
      OBVIOUS
    <3>2. CASE j # k
      <4>1. (native[j].open => Current(j, c)) /\ (checkpoint[j].kept => Current(j, d))
        BY <1>1, <3>1, <3>2 DEF Known
      <4>2. (Current(j, c)' <=> Current(j, c)) /\ (Current(j, d)' <=> Current(j, d))
        BY <1>2, <3>2
      <4> QED
        BY <3>1, <3>2, <4>1, <4>2
    <3>3. CASE j = k
      <4>1. checkpoint[j].kept => lane'[j] = lane[j] /\ Current(j, d)
        BY <1>1, <3>1, <3>3 DEF Known
      <4>2. checkpoint[j].kept => Current(j, d)'
        BY <1>2, <4>1
      <4> QED
        BY <3>1, <3>3, <4>2
    <3> QED
      BY <3>2, <3>3
  <2> QED
    BY <2>1 DEF Known
<1>5. NotHeard'
  <2>1. ASSUME NEW j \in Kernels
        PROVE  /\ Unheard(j, native[j].heard)'
               /\ (checkpoint[j].kept => Unheard(j, checkpoint[j].holds))'
    <3>1. PICK c, d : c = native'[j].heard /\ d = checkpoint[j].holds
      OBVIOUS
    <3>2. CASE j # k
      <4>1. Unheard(j, c) /\ (checkpoint[j].kept => Unheard(j, d))
        BY <1>1, <3>1, <3>2 DEF NotHeard
      <4>2. (Unheard(j, c)' <=> Unheard(j, c)) /\ (Unheard(j, d)' <=> Unheard(j, d))
        BY <1>2, <3>2
      <4> QED
        BY <3>1, <3>2, <4>1, <4>2
    <3>3. CASE j = k
      <4>1. checkpoint[j].kept => lane'[j] = lane[j] /\ Unheard(j, d)
        BY <1>1, <3>1, <3>3 DEF NotHeard
      <4>2. checkpoint[j].kept => Unheard(j, d)'
        BY <1>2, <4>1
      <4> QED
        BY <3>1, <3>3, <4>2
    <3> QED
      BY <3>2, <3>3
  <2> QED
    BY <2>1 DEF NotHeard
<1>6. AllSaid'
  <2>1. ASSUME NEW j \in Kernels
        PROVE  /\ Said(native[j].holds)' /\ Said(native[j].heard)'
               /\ Said(checkpoint[j].holds)'
    <3>1. PICK c, d, f : c = native'[j].holds /\ d = native'[j].heard /\ f = checkpoint[j].holds
      OBVIOUS
    <3>2. Said(c) /\ Said(d) /\ Said(f)
      BY <1>1, <3>1 DEF AllSaid
    <3>3. Said(c)' /\ Said(d)' /\ Said(f)'
      BY <1>3, <3>2
    <3> QED
      BY <3>1, <3>3
  <2> QED
    BY <2>1 DEF AllSaid
<1> QED
  BY <1>4, <1>5, <1>6

\* What a turn sends has been said, but for its own input.
LEMMA GivenSaid ==
  ASSUME IInv, turn.plan.patch \subseteq DOMAIN rows
  PROVE  Said(Given) /\ Said({})
<1>1. turn.batch \cap Once = {}
  BY Disjoint DEF IInv, TypeOK, Turns
<1> QED
  BY <1>1 DEF Said, Given, Carried

LEMMA ConsumeStep ==
  ASSUME IInv, TypeOK', NEW k \in Kernels, Consume(k)
  PROVE  IInv'
<1>1. PICK held \in Held(k) :
        native' = [native EXCEPT ![k] =
                     [open |-> k \in Remembering \cup Checkpointing, restored |-> FALSE,
                      holds |-> held \cup Given, heard |-> held \cup Given]]
  BY DEF Consume
<1>2. /\ turn.pc = "sent" /\ turn.kernel = k /\ ~Refused(k)
      /\ UNCHANGED <<rows, checkpoint, begun>>
      /\ lane' = Acknowledge(k) /\ turn' = [turn EXCEPT !.pc = "active"]
      /\ severed' = IF turn.plan.mode = "snapshot" THEN severed \ {k} ELSE severed
  BY DEF Consume
<1>3. /\ TypeOK /\ Known /\ NotHeard /\ AllSaid /\ Bound /\ Numbered
      /\ Dispatched /\ Sent
  BY DEF IInv
<1>4. PICK h : h = held \cup Given
  OBVIOUS
<1>5. /\ native'[k].holds = h /\ native'[k].heard = h
      /\ \A j \in Kernels \ {k} : native'[j] = native[j]
  BY <1>1, <1>3, <1>4 DEF TypeOK
<1>6. turn'.pc = "active" /\ turn'.kernel = k /\ turn'.plan = turn.plan
  BY <1>2, <1>3 DEF TypeOK, Turns
<1>7. /\ lane'[k].knownThrough = turn.plan.through /\ lane'[k].bound
      /\ \A j \in Kernels \ {k} : lane'[j] = lane[j]
  BY <1>2, <1>3 DEF Acknowledge, Bound, TypeOK
<1>8. turn.plan.seen \subseteq h \/ k \in severed'
  <2>1. CASE turn.plan.mode = "snapshot"
    BY <1>2, <1>3, <1>4, <2>1 DEF Sent, Given
  <2>2. CASE turn.plan.mode # "snapshot" /\ k \notin severed
    <3>1. native[k].open
      BY <1>2, <1>3, <2>2 DEF Sent, Refused
    <3>2. held = native[k].holds
      BY <2>2, <3>1 DEF Held
    <3> QED
      BY <1>2, <1>3, <1>4, <2>2, <3>2 DEF Sent, Given
  <2> QED
    BY <1>2, <2>1, <2>2
<1>9. held = {} \/ held = native[k].holds
  BY DEF Held
<1>10. k \notin severed' => Current(k, h)'
  BY <1>2, <1>3, <1>7, <1>8, SameHistory DEF Current, Dispatched, Owned
<1>11. Unheard(k, h)'
  <2>1. \A p \in Entries : p > turn.plan.through => rows[p].holds \cap Once \cap h = {}
    BY <1>2, <1>3, <1>4, <1>9 DEF Sent
  <2> QED
    BY <1>2, <1>7, <2>1, SameHistory DEF Unheard
<1>12. Said(h)
  <2>1. Said(held) /\ Said(Given)
    BY <1>2, <1>3, <1>9, GivenSaid DEF Dispatched, AllSaid
  <2> QED
    BY <1>4, <2>1 DEF Said
<1>13. Known' /\ NotHeard' /\ AllSaid'
  <2>1. ~checkpoint[k].kept
    BY <1>2, <1>3 DEF Dispatched
  <2>2. \A j \in Kernels \ {k} : j \in severed => j \in severed'
    BY <1>2
  <2> QED
    BY <1>2, <1>5, <1>7, <1>10, <1>11, <1>12, <2>1, <2>2, OneConversation
<1>14. Bound'
  BY <1>3, <1>6, <1>7 DEF Bound
<1>15. Numbered'
  BY <1>2, <1>3, <1>6, SameHistory DEF Numbered
<1>16. Dispatched'
  BY <1>2, <1>3, <1>6, <1>7, SameHistory DEF Dispatched
<1>17. Sent' /\ Taken'
  BY <1>5, <1>6, <1>8 DEF Sent, Taken
<1> QED
  BY <1>13, <1>14, <1>15, <1>16, <1>17 DEF IInv

\* No conversation changes, and the ledger neither.
LEMMA NoConversation ==
  ASSUME IInv, UNCHANGED <<rows, lane, native, checkpoint, severed>>
  PROVE  Known' /\ NotHeard' /\ AllSaid'
<1>1. /\ \A c : Said(c)' <=> Said(c)
      /\ \A k, c : (Current(k, c)' <=> Current(k, c)) /\ (Unheard(k, c)' <=> Unheard(k, c))
  BY SameHistory
<1> QED
  BY <1>1 DEF IInv, Known, NotHeard, AllSaid

\* A turn that is over leaves nothing to dispatch or to take.
LEMMA AtRest ==
  ASSUME IInv, turn'.pc = "idle", rows' = rows, begun' = begun,
         \A k \in Kernels : lane'[k] = lane[k]
  PROVE  Bound' /\ Numbered' /\ Dispatched' /\ Sent' /\ Taken'
<1>1. turn'.pc \notin {"composing", "sent", "active"}
  OBVIOUS
<1>2. Bound'
  BY <1>1 DEF IInv, Bound
<1>3. Numbered'
  BY <1>1 DEF IInv, Numbered
<1> QED
  BY <1>1, <1>2, <1>3 DEF Dispatched, Sent, Taken

LEMMA ResyncStep ==
  ASSUME IInv, TypeOK', NEW k \in Kernels, Resync(k)
  PROVE  IInv'
<1>1. /\ turn.pc = "sent" /\ turn' = RetrySnapshot
      /\ UNCHANGED <<rows, lane, checkpoint, severed, begun>>
      /\ native' = [native EXCEPT ![k] = Closed] \/ native' = native
  BY DEF Resync
<1>2. TypeOK /\ Bound /\ Numbered
  BY DEF IInv
<1>3. turn'.pc = "composing"
  BY <1>1, <1>2 DEF RetrySnapshot, TypeOK, Turns
<1>4. Known' /\ NotHeard' /\ AllSaid'
  <2>1. CASE native' = native
    BY <1>1, <2>1, NoConversation
  <2>2. CASE native' = [native EXCEPT ![k] = Closed]
    <3>1. /\ native'[k].holds = {} /\ native'[k].heard = {} /\ ~native'[k].open
          /\ \A j \in Kernels \ {k} : native'[j] = native[j]
      BY <1>2, <2>2, Idles DEF TypeOK
    <3>2. Unheard(k, {})' /\ Said({})
      BY DEF Unheard, Said
    <3> QED
      BY <1>1, <3>1, <3>2, OneConversation
  <2> QED
    BY <1>1, <2>1, <2>2
<1>5. Numbered'
  BY <1>1, <1>2, SameHistory DEF Numbered
<1>6. Bound' /\ Dispatched' /\ Sent' /\ Taken'
  BY <1>1, <1>2, <1>3 DEF Bound, Dispatched, Sent, Taken
<1> QED
  BY <1>4, <1>5, <1>6 DEF IInv

LEMMA EndsUnheardStep ==
  ASSUME IInv, TypeOK', NEW k \in Kernels, EndsUnheard(k)
  PROVE  IInv'
<1>1. /\ turn.pc = "sent" /\ turn.kernel = k /\ ~Refused(k) /\ turn' = NoTurn(k)
      /\ UNCHANGED <<rows, lane, checkpoint, begun>>
  BY DEF EndsUnheard
<1>2. TypeOK /\ Known /\ NotHeard /\ AllSaid /\ Dispatched /\ Sent
  BY DEF IInv
<1>3. Bound' /\ Numbered' /\ Dispatched' /\ Sent' /\ Taken'
  <2>1. turn'.pc = "idle"
    BY <1>1, Idles
  <2> QED
    BY <1>1, <2>1, AtRest
<1>4. CASE UNCHANGED <<native, severed>>
  BY <1>1, <1>3, <1>4, NoConversation DEF IInv
<1>5. CASE ~ UNCHANGED <<native, severed>>
  <2>1. PICK held \in Held(k), given \in LeftBehind(k) :
          /\ native' = [native EXCEPT ![k] =
                          [@ EXCEPT !.open = TRUE, !.restored = FALSE,
                                    !.holds = held \cup given]]
          /\ severed' = IF turn.plan.mode = "snapshot" /\ given = {}
                        THEN severed \cup {k} ELSE severed
    BY <1>5 DEF EndsUnheard
  <2>2. PICK h, e : h = held \cup given /\ e = native[k].heard
    OBVIOUS
  <2>3. /\ native'[k].holds = h /\ native'[k].heard = e
        /\ \A j \in Kernels \ {k} : native'[j] = native[j]
    BY <1>2, <2>1, <2>2 DEF TypeOK, Conversations
  <2>4. held = {} \/ held = native[k].holds
    BY DEF Held
  <2>5. given = Given \/ given = {}
    BY DEF LeftBehind
  <2>6. Said(h) /\ Said(e)
    <3>1. Said(held) /\ Said(given) /\ Said(e)
      BY <1>1, <1>2, <2>2, <2>4, <2>5, GivenSaid DEF Dispatched, AllSaid
    <3> QED
      BY <2>2, <3>1 DEF Said
  <2>7. Unheard(k, e)'
    BY <1>1, <1>2, <2>2, SameHistory DEF NotHeard
  <2>8. ASSUME k \notin severed'
        PROVE  Current(k, h)
    <3>1. CASE turn.plan.mode = "snapshot"
      <4>1. turn.plan.seen \subseteq h
        BY <1>1, <1>2, <2>1, <2>2, <2>5, <2>8, <3>1 DEF Sent, Given
      <4> QED
        BY <1>1, <1>2, <4>1 DEF Dispatched, Current, Owned
    <3>2. CASE turn.plan.mode # "snapshot"
      <4>1. k \notin severed /\ native[k].open
        BY <1>1, <1>2, <2>1, <2>8, <3>2 DEF Sent, Refused
      <4>2. held = native[k].holds
        BY <3>2, <4>1 DEF Held
      <4> QED
        BY <1>2, <2>2, <4>1, <4>2 DEF Known, Current
    <3> QED
      BY <3>1, <3>2
  <2>9. k \notin severed' => Current(k, h)'
    BY <1>1, <2>8, SameHistory
  <2>10. \A j \in Kernels : j \in severed => j \in severed'
    BY <2>1
  <2>11. Known' /\ NotHeard' /\ AllSaid'
    BY <1>1, <2>3, <2>6, <2>7, <2>9, <2>10, OneConversation
  <2> QED
    BY <1>3, <2>11 DEF IInv
<1> QED
  BY <1>4, <1>5

\* activity without a text leaves everything as it is
LEMMA EndsWordlessStep ==
  ASSUME IInv, TypeOK', NEW k \in Kernels, EndsWordless(k)
  PROVE  IInv'
<1>1. /\ turn' = NoTurn(k)
      /\ UNCHANGED <<rows, lane, native, checkpoint, severed, begun>>
  BY DEF EndsWordless
<1>2. turn'.pc = "idle"
  BY <1>1, Idles
<1> QED
  BY <1>1, <1>2, NoConversation, AtRest DEF IInv

LEMMA OwnerDiesStep ==
  ASSUME IInv, TypeOK', NEW k \in Kernels, OwnerDies(k)
  PROVE  IInv'
<1>1. /\ UNCHANGED <<rows, lane, checkpoint, turn, begun>>
      /\ native' = [native EXCEPT ![k].open = FALSE]
      /\ severed' = IF /\ turn.pc = "sent" /\ turn.kernel = k /\ ~native[k].restored
                       /\ turn.plan.mode # "snapshot"
                    THEN severed \cup {k} ELSE severed
  BY DEF OwnerDies
<1>2. /\ TypeOK /\ Known /\ NotHeard /\ AllSaid /\ Bound /\ Numbered
      /\ Dispatched /\ Sent /\ Taken
  BY DEF IInv
<1>3. /\ ~native'[k].open /\ \A j \in Kernels \ {k} : native'[j] = native[j]
      /\ \A j \in Kernels : /\ native'[j].holds = native[j].holds
                            /\ native'[j].heard = native[j].heard
                            /\ native'[j].restored = native[j].restored
  BY <1>1, <1>2 DEF TypeOK, Conversations
<1>4. \A j \in Kernels : j \in severed => j \in severed'
  BY <1>1
<1>5. Known' /\ NotHeard' /\ AllSaid'
  <2>1. PICK h, e : h = native[k].holds /\ e = native[k].heard
    OBVIOUS
  <2>2. Unheard(k, e) /\ Said(h) /\ Said(e)
    BY <1>2, <2>1 DEF NotHeard, AllSaid
  <2>3. Unheard(k, e)'
    BY <1>1, <2>2, SameHistory
  <2> QED
    BY <1>1, <1>3, <1>4, <2>1, <2>2, <2>3, OneConversation
<1>6. Bound' /\ Numbered' /\ Dispatched'
  <2>1. Bound'
    BY <1>1, <1>2 DEF Bound
  <2>2. Numbered'
    BY <1>1, <1>2, SameHistory DEF Numbered
  <2>3. Dispatched'
    BY <1>1, <1>2, SameHistory DEF Dispatched
  <2> QED
    BY <2>1, <2>2, <2>3
<1>7. turn.kernel \in Kernels
  BY <1>2 DEF TypeOK, Turns
<1>8. Sent'
  <2>1. (\A R : Carried(R)' = Carried(R)) /\ Entries' = Entries /\ Given' = Given
    BY <1>1, SameHistory DEF Given
  <2>2. ASSUME turn.pc = "sent", turn.plan.mode # "snapshot", turn.kernel \notin severed'
        PROVE  /\ turn.plan.seen \subseteq native'[turn.kernel].holds \cup Carried(turn.plan.patch)
               /\ native'[turn.kernel].open \/ native'[turn.kernel].restored
    <3>1. turn.kernel \notin severed
      BY <1>4, <1>7, <2>2
    <3>2. CASE turn.kernel = k
      BY <1>1, <1>2, <1>3, <2>2, <3>1, <3>2 DEF Sent
    <3>3. CASE turn.kernel # k
      BY <1>2, <1>3, <1>7, <2>2, <3>1, <3>3 DEF Sent
    <3> QED
      BY <3>2, <3>3
  <2> QED
    BY <1>1, <1>2, <1>3, <1>7, <2>1, <2>2 DEF Sent
<1>9. Taken'
  BY <1>1, <1>2, <1>3, <1>4, <1>7 DEF Taken
<1> QED
  BY <1>5, <1>6, <1>8, <1>9 DEF IInv

\* Every conversation is lost; what was checkpointed is as current as before.
LEMMA RestartStep ==
  ASSUME IInv, TypeOK', Restart
  PROVE  IInv'
<1>1. /\ turn' = NoTurn(turn.kernel) /\ native' = [k \in Kernels |-> Closed]
      /\ UNCHANGED <<rows, lane, checkpoint, severed, begun>>
  BY DEF Restart
<1>2. TypeOK /\ Known /\ NotHeard /\ AllSaid /\ turn.kernel \in Kernels
  BY DEF IInv, TypeOK, Turns
<1>3. Bound' /\ Numbered' /\ Dispatched' /\ Sent' /\ Taken'
  <2>1. turn'.pc = "idle"
    BY <1>1, <1>2, Idles
  <2> QED
    BY <1>1, <2>1, AtRest
<1>4. /\ \A c : Said(c)' <=> Said(c)
      /\ \A k, c : (Current(k, c)' <=> Current(k, c)) /\ (Unheard(k, c)' <=> Unheard(k, c))
  BY <1>1, SameHistory
<1>5. \A k \in Kernels : ~native'[k].open /\ native'[k].holds = {} /\ native'[k].heard = {}
  BY <1>1, Idles
<1>6. Known'
  BY <1>1, <1>2, <1>4, <1>5 DEF Known
<1>7. NotHeard'
  <2>1. \A k \in Kernels : Unheard(k, {})
    BY DEF Unheard
  <2> QED
    BY <1>1, <1>2, <1>4, <1>5, <2>1 DEF NotHeard
<1>8. AllSaid'
  <2>1. Said({})
    BY DEF Said
  <2> QED
    BY <1>1, <1>2, <1>4, <1>5, <2>1 DEF AllSaid
<1> QED
  BY <1>3, <1>6, <1>7, <1>8 DEF IInv

\* The answer is a row of the kernel's own, which its conversation holds.
LEMMA AnswerStep ==
  ASSUME IInv, TypeOK', NEW k \in Kernels, Answer(k)
  PROVE  IInv'
<1> DEFINE r == Row("assistant", {begun}, Nothing, k)
<1>1. /\ turn.pc = "active" /\ turn.kernel = k /\ turn' = NoTurn(k)
      /\ rows' = Append(rows, r)
      /\ native' = [native EXCEPT ![k].holds = @ \cup {begun}, ![k].heard = @ \cup {begun}]
      /\ \/ checkpoint' = checkpoint
         \/ checkpoint' = [checkpoint EXCEPT ![k] = [kept |-> TRUE, holds |-> native'[k].holds]]
      /\ UNCHANGED <<lane, severed, begun>>
  BY DEF Answer
<1>2. /\ TypeOK /\ Known /\ NotHeard /\ AllSaid /\ Bound /\ Numbered
      /\ Dispatched /\ Taken
  BY DEF IInv
<1>3. begun \in Answers /\ begun # 0 /\ begun \notin Carried(DOMAIN rows)
  BY <1>1, <1>2, BegunAnswer DEF Numbered
<1>4. r \in Rows /\ r.kind = "assistant" /\ r.holds = {begun} /\ r.kernel = k
  BY <1>3 DEF Row, Rows, Messages
<1> HIDE DEF r
<1>5. /\ Len(rows) \in Nat /\ rows'[Len(rows) + 1] = r /\ DOMAIN rows = 1..Len(rows)
      /\ Entries \subseteq DOMAIN rows
      /\ \A p \in DOMAIN rows : rows'[p] = rows[p]
      /\ \A p \in DOMAIN rows' : p \in DOMAIN rows \/ p = Len(rows) + 1
  BY <1>1, <1>2, <1>4, Grown DEF Entries
<1>6. /\ \A p \in Entries' : p \in Entries \/ p = Len(rows) + 1
      /\ \A j, p : p \in DOMAIN rows => (Owned(j, p)' <=> Owned(j, p))
      /\ Carried(DOMAIN rows)' = Carried(DOMAIN rows) \cup {begun}
  BY <1>1, <1>2, <1>4, GrownHistory
<1>7. \A j, p : p = Len(rows) + 1 => (Owned(j, p)' <=> j = k)
  BY <1>4, <1>5 DEF Owned, FromUser
<1>8. \A j \in Kernels : ~ (Len(rows) + 1 <= lane[j].knownThrough)
  <2>1. \A j \in Kernels : lane[j].knownThrough \in 0..Len(rows)
    BY <1>2 DEF TypeOK
  <2> QED
    BY <1>5, <2>1
<1>9. ASSUME NEW j \in Kernels, NEW c, Current(j, c), NEW d, c \subseteq d,
             j = k => begun \in d
      PROVE  Current(j, d)'
  <2>1. ASSUME NEW p \in Entries', p <= lane'[j].knownThrough \/ Owned(j, p)'
        PROVE  rows'[p].holds \subseteq d
    <3>1. CASE p \in Entries
      BY <1>1, <1>5, <1>6, <1>9, <2>1, <3>1 DEF Current
    <3>2. CASE p = Len(rows) + 1
      <4>1. j = k
        BY <1>1, <1>7, <1>8, <2>1, <3>2
      <4> QED
        BY <1>4, <1>5, <1>9, <3>2, <4>1
    <3> QED
      BY <1>6, <3>1, <3>2
  <2> QED
    BY <2>1 DEF Current
<1>10. ASSUME NEW j \in Kernels, NEW c, Unheard(j, c), Said(c), NEW d, d \subseteq c \cup {begun},
              j # k => d = c
       PROVE  Unheard(j, d)'
  <2>1. ASSUME NEW p \in Entries', p > lane'[j].knownThrough, ~ Owned(j, p)'
        PROVE  rows'[p].holds \cap Once \cap d = {}
    <3>1. CASE p \in Entries
      <4>1. rows[p].holds \cap Once \cap c = {} /\ begun \notin rows[p].holds
        BY <1>1, <1>3, <1>5, <1>6, <1>10, <2>1, <3>1 DEF Unheard, Carried
      <4> QED
        BY <1>5, <1>10, <3>1, <4>1
    <3>2. CASE p = Len(rows) + 1
      <4>1. d = c /\ begun \notin c
        BY <1>3, <1>7, <1>10, <2>1, <3>2, Disjoint DEF Said
      <4> QED
        BY <1>4, <1>5, <3>2, <4>1
    <3> QED
      BY <1>6, <3>1, <3>2
  <2> QED
    BY <2>1 DEF Unheard
<1>11. ASSUME NEW c, Said(c), NEW d, d \subseteq c \cup {begun}
       PROVE  Said(d)'
  BY <1>6, <1>11 DEF Said
<1>12. /\ native'[k].holds = native[k].holds \cup {begun}
       /\ native'[k].heard = native[k].heard \cup {begun}
       /\ native'[k].open = native[k].open
       /\ \A j \in Kernels \ {k} : native'[j] = native[j]
  BY <1>1, <1>2 DEF TypeOK, Conversations
<1>13. /\ \A j \in Kernels \ {k} : checkpoint'[j] = checkpoint[j]
       /\ ~checkpoint[k].kept
       /\ \/ checkpoint' = checkpoint
          \/ checkpoint'[k].holds = native'[k].holds
       /\ native[k].holds = native[k].heard
  <2>1. ~checkpoint[k].kept /\ native[k].holds = native[k].heard
    BY <1>1, <1>2 DEF Dispatched, Taken
  <2>2. checkpoint \in [Kernels -> Checkpoints]
    BY <1>2 DEF TypeOK
  <2>3. PICK h : h = native'[k].holds
    OBVIOUS
  <2>4. \/ checkpoint' = checkpoint
        \/ checkpoint' = [checkpoint EXCEPT ![k] = [kept |-> TRUE, holds |-> h]]
    BY <1>1, <2>3
  <2>5. /\ \A j \in Kernels \ {k} : checkpoint'[j] = checkpoint[j]
        /\ checkpoint' = checkpoint \/ checkpoint'[k].holds = h
    BY <2>2, <2>4
  <2> QED
    BY <2>1, <2>3, <2>5
<1>14. Known'
  <2>1. ASSUME NEW j \in Kernels \ severed
        PROVE  /\ (native[j].open => Current(j, native[j].holds))'
               /\ (checkpoint[j].kept => Current(j, checkpoint[j].holds))'
    <3>1. PICK c, d, f, g : /\ c = native[j].holds /\ d = native'[j].holds
                            /\ f = checkpoint[j].holds /\ g = checkpoint'[j].holds
      OBVIOUS
    <3>2. (native[j].open => Current(j, c)) /\ (checkpoint[j].kept => Current(j, f))
      BY <1>2, <3>1 DEF Known
    <3>3. c \subseteq d /\ (j = k => begun \in d)
      BY <1>12, <3>1
    <3>4. native[j].open => Current(j, d)'
      BY <1>9, <3>2, <3>3
    <3>5. native'[j].open = native[j].open
      BY <1>12
    <3>6. checkpoint'[j].kept => Current(j, g)'
      <4>1. CASE j # k
        <5>1. checkpoint'[j].kept => Current(j, f) /\ g = f
          BY <1>13, <3>1, <3>2, <4>1
        <5> QED
          BY <1>9, <4>1, <5>1
      <4>2. CASE j = k
        <5>1. checkpoint'[j].kept => native[j].open /\ g = d
          BY <1>13, <3>1, <4>2 DEF Answer
        <5> QED
          BY <3>4, <5>1
      <4> QED
        BY <4>1, <4>2
    <3> QED
      BY <3>1, <3>4, <3>5, <3>6
  <2> QED
    BY <1>1, <2>1 DEF Known
<1>15. NotHeard'
  <2>1. ASSUME NEW j \in Kernels
        PROVE  /\ Unheard(j, native[j].heard)'
               /\ (checkpoint[j].kept => Unheard(j, checkpoint[j].holds))'
    <3>1. PICK c, d, f, g : /\ c = native[j].heard /\ d = native'[j].heard
                            /\ f = checkpoint[j].holds /\ g = checkpoint'[j].holds
      OBVIOUS
    <3>2. Unheard(j, c) /\ Said(c) /\ Said(f) /\ (checkpoint[j].kept => Unheard(j, f))
      BY <1>2, <3>1 DEF NotHeard, AllSaid
    <3>3. d \subseteq c \cup {begun} /\ (j # k => d = c)
      BY <1>12, <3>1
    <3>4. Unheard(j, d)'
      BY <1>10, <3>2, <3>3
    <3>5. checkpoint'[j].kept => Unheard(j, g)'
      <4>1. CASE j # k
        <5>1. checkpoint'[j].kept => Unheard(j, f) /\ g = f
          BY <1>13, <3>1, <3>2, <4>1
        <5> QED
          BY <1>10, <3>2, <4>1, <5>1
      <4>2. CASE j = k
        <5>1. checkpoint'[j].kept => g = d
          BY <1>12, <1>13, <3>1, <4>2
        <5> QED
          BY <3>4, <5>1
      <4> QED
        BY <4>1, <4>2
    <3> QED
      BY <3>1, <3>4, <3>5
  <2> QED
    BY <2>1 DEF NotHeard
<1>16. AllSaid'
  <2>1. ASSUME NEW j \in Kernels
        PROVE  /\ Said(native[j].holds)' /\ Said(native[j].heard)'
               /\ Said(checkpoint[j].holds)'
    <3>1. PICK c, d, f : c = native'[j].holds /\ d = native'[j].heard /\ f = checkpoint'[j].holds
      OBVIOUS
    <3>2. PICK a, b, g : a = native[j].holds /\ b = native[j].heard /\ g = checkpoint[j].holds
      OBVIOUS
    <3>3. Said(a) /\ Said(b) /\ Said(g)
      BY <1>2, <3>2 DEF AllSaid
    <3>4. /\ c \subseteq a \cup {begun} /\ d \subseteq b \cup {begun}
          /\ f \subseteq g \cup {begun} \/ f \subseteq a \cup {begun}
      BY <1>12, <1>13, <3>1, <3>2
    <3>5. Said(c)' /\ Said(d)' /\ Said(f)'
      BY <1>11, <3>3, <3>4
    <3> QED
      BY <3>1, <3>5
  <2> QED
    BY <2>1 DEF AllSaid
<1>17. turn'.pc = "idle"
  BY <1>1, Idles
<1>18. Numbered'
  <2>1. \A p \in DOMAIN rows : rows[p].holds \cap Answers \subseteq 1..begun
    BY <1>2 DEF Numbered
  <2>2. begun \in 1..begun
    BY <1>2, <1>3, HistoryBoundsAssumption DEF TypeOK
  <2> QED
    BY <1>1, <1>4, <1>5, <1>17, <2>1, <2>2 DEF Numbered
<1>19. Bound' /\ Dispatched' /\ Sent' /\ Taken'
  BY <1>1, <1>2, <1>17 DEF Bound, Dispatched, Sent, Taken
<1> QED
  BY <1>14, <1>15, <1>16, <1>18, <1>19 DEF IInv

-----------------------------------------------------------------------------
(* The theorems                                                            *)

LEMMA InitInv == Init => IInv
<1> SUFFICES ASSUME Init PROVE IInv
  OBVIOUS
<1>1. TypeOK
  BY InitType
<1>2. DOMAIN rows = {} /\ Entries = {} /\ turn.pc = "idle"
  BY Idles DEF Init, Entries
<1>3. \A k \in Kernels : /\ ~native[k].open /\ native[k].holds = {} /\ native[k].heard = {}
                         /\ ~checkpoint[k].kept /\ checkpoint[k].holds = {}
                         /\ lane[k].knownThrough = 0
  BY Idles DEF Init
<1>4. Known /\ NotHeard
  BY <1>2, <1>3 DEF Known, NotHeard, Unheard
<1>5. AllSaid
  BY <1>3 DEF AllSaid, Said
<1>6. Bound /\ Numbered /\ Dispatched /\ Sent /\ Taken
  BY <1>2, <1>3 DEF Bound, Numbered, Dispatched, Sent, Taken
<1> QED
  BY <1>1, <1>4, <1>5, <1>6 DEF IInv

LEMMA Stutter == IInv /\ UNCHANGED vars => IInv'
<1> SUFFICES ASSUME IInv, UNCHANGED vars PROVE IInv'
  OBVIOUS
<1>1. /\ UNCHANGED <<rows, lane, native, checkpoint, turn, severed, begun>>
      /\ UNCHANGED <<inbox, restarts>>
  BY DEF vars
<1>2. TypeOK'
  BY <1>1 DEF IInv, TypeOK
<1>3. Known' /\ NotHeard' /\ AllSaid'
  BY <1>1, NoConversation
<1>4. (\A R : Carried(R)' = Carried(R)) /\ Entries' = Entries
      /\ (\A p : FromUser(p)' <=> FromUser(p)) /\ Given' = Given
  BY <1>1, SameHistory DEF Given
<1>5. Bound' /\ Numbered'
  BY <1>1, <1>4 DEF IInv, Bound, Numbered
<1>6. Dispatched' /\ Taken'
  BY <1>1, <1>4 DEF IInv, Dispatched, Taken
<1>7. Sent'
  BY <1>1, <1>4 DEF IInv, Sent
<1> QED
  BY <1>2, <1>3, <1>5, <1>6, <1>7 DEF IInv

LEMMA Invariance == Spec => []IInv
<1>1. IInv /\ [Next]_vars => IInv'
  <2> SUFFICES ASSUME IInv, Next PROVE IInv'
    BY Stutter
  <2>1. TypeOK'
    BY NextType
  <2> QED
    BY <2>1, ArrivalStep, BeginStep, RestoreStep, ComposeStep, ConsumeStep, ResyncStep,
       EndsUnheardStep, AnswerStep, EndsWordlessStep, OwnerDiesStep, RestartStep DEF Next
<1> QED
  BY InitInv, <1>1, PTL DEF Spec

\* The ledger, the lanes, the kernels' conversations and checkpoints and the turn keep
\* their shapes, and no lane's position runs ahead of the ledger (EventStore's rows,
\* LedgerHistorySource's lanes, the coordinator's plan).
THEOREM TypeCorrect == Spec => []TypeOK
<1>1. IInv => TypeOK
  BY DEF IInv
<1> QED
  BY Invariance, <1>1, PTL

\* A kernel at work on a turn holds everything the ledger held when the turn was
\* composed, whatever switches, failures, deaths of owners and restarts came before:
\* HistoryCoordinator.prepareTurn supplies what the conversation lacks.
THEOREM NoGaps == Spec => []FullContext
<1>1. IInv => FullContext
  BY DEF IInv, Taken, FullContext
<1> QED
  BY Invariance, <1>1, PTL

\* A delta gives a conversation no answer and no silent message it had at its last
\* activity: the position acknowledged then stands before all of them.
THEOREM NoReplays == Spec => []NothingReplayed
<1>1. IInv => NothingReplayed
  BY DEF IInv, Sent, NothingReplayed, Once
<1> QED
  BY Invariance, <1>1, PTL
=============================================================================
