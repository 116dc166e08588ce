-------------------------- MODULE CheckpointProofs --------------------------
(***************************************************************************)
(* Proofs about Checkpoint for any files, contents, messages and modes, any *)
(* number of rewinds, edits and faults.                                     *)
(***************************************************************************)
EXTENDS Checkpoint, WellFoundedInduction, TLAPS

-----------------------------------------------------------------------------
(* The inductive invariant                                                 *)

\* What an operation has in hand at each of its steps.
Operation ==
  /\ op.kind = "none" => op = Idle /\ meddled = {} /\ stuck = {}
  /\ op.kind # "none" => op.step # "end"
  /\ op.step \in {"retire", "snapshot", "measure"} => op.dirty = {}
  /\ op.kind = "rewind" =>
       /\ op.mode \in Modes /\ op.msg \in 1..Messages
       /\ op.goal = messages[op.msg] /\ op.goal \in Manifests
       /\ op.id = begun /\ begun # 0
       /\ op.step = "retire" <=> pending # 0
       /\ op.step = "retire" => op.old = pending
       /\ op.step = "snapshot" => op.old = 0
       /\ op.step = "measure" => op.old # 0
       /\ op.old # 0 => rewinds[op.old] # None
       /\ op.step # "snapshot" => op.pre \in Manifests
       /\ op.mode = "conversation" => op.step \notin {"measure", "restore"} /\ op.todo = {}
  /\ op.kind = "cancel" =>
       /\ op.step \notin {"retire", "snapshot"}
       /\ pending # 0 /\ op.id = pending /\ op.old = pending
       /\ op.mode = rewinds[pending].mode /\ op.goal = rewinds[pending].pre
  /\ op.kind \in {"overwrite", "undo"} =>
       /\ last \in LastOps /\ op.id = last.id
       /\ op.step \notin {"retire", "measure", "record"} /\ op.mode = "both" /\ op.old = 0
       /\ op.goal = IF op.kind = "overwrite" THEN last.goal ELSE last.safety
       /\ op.todo \subseteq hands
  /\ op.kind = "overwrite" =>
       /\ last.kept \subseteq hands
       /\ op.step # "snapshot" => op.pre \in Manifests
  /\ op.kind = "undo" =>
       /\ last.over \subseteq hands
       /\ op.step # "snapshot" /\ last.safety \in Manifests
  /\ op.todo # {} => op.step = "write"

\* A message is recorded once, and its manifest stays.
Recorded ==
  /\ sending.step # "end" => sending.msg = sent /\ sent # 0
  /\ sending.step \in {"finalize", "snapshot"} => messages[sending.msg] = None
  /\ \A m \in 1..Messages : m > sent => messages[m] = None

\* The one record without a status is that of the pending rewind.
OneOpen ==
  \A b \in Ids : rewinds[b] # None =>
    /\ messages[rewinds[b].target] # None
    /\ rewinds[b].status = "pending" <=> b = pending

PendingRecorded == pending # 0 => rewinds[pending] # None /\ pending <= begun

\* but for the files in `hands' the disk is as it was before, or as in g
Between(g) == \A f \in Files \ hands : disk[f] \in {before[f], g[f]}
AsBefore == \A f \in Files \ (hands \cup op.todo) : disk[f] = before[f]
Anchored(pre) == \A f \in Files \ hands : pre[f] = before[f]

\* The pending rewind: its anchor holds the files as they were before, and the disk
\* is between them and what dirtySet measures by.
PendingFiles ==
  pending # 0 =>
    LET r == rewinds[pending] IN
    /\ Anchored(r.pre)
    /\ base # None => Between(base)
    /\ r.mode # "conversation" =>
         /\ base \in {messages[r.target], r.pre}
         /\ Between(messages[r.target])

\* A rewind on its way.
RewindFiles ==
  op.kind = "rewind" =>
    /\ op.step # "snapshot" => Anchored(op.pre)
    /\ op.old = 0 /\ op.step \in {"snapshot", "restore"} => AsBefore
    /\ base # None /\ (op.mode = "conversation" \/ op.step \in {"retire", "measure", "restore"})
         => Between(base)
    /\ op.mode # "conversation" /\ op.step = "write" =>
         \A f \in Files \ (hands \cup op.todo) : disk[f] \in {before[f], op.goal[f]}
    /\ op.mode # "conversation" /\ op.step = "record" =>
         base = op.goal /\ Between(op.goal)

\* A cancel on its way back.
CancelFiles ==
  op.kind = "cancel" /\ op.step \in {"write", "record"} => AsBefore

\* the files a rewind or a cancel means to spare are as they were before
SparedFiles ==
  op.kind \in {"rewind", "cancel"} /\ op.step = "restore" =>
    \A f \in op.dirty \ hands : disk[f] = before[f]

\* RewindIsExact, while the files are written.
RewindWrites ==
  op.kind = "rewind" /\ op.mode # "conversation" =>
    /\ op.step = "restore" /\ op.old = 0 =>
         \A f \in Files \ meddled : disk[f] = op.pre[f]
    /\ op.step \in {"write", "record"} =>
         IF op.whole
         THEN \A f \in Files \ (op.dirty \cup meddled \cup stuck \cup op.todo) :
                disk[f] = op.goal[f]
         ELSE /\ op.todo = {}
              /\ op.old # 0 \/ \A f \in Files \ meddled : disk[f] = op.pre[f]

\* what the rewind r put there or a cancel of it put back
Put(r, f) == disk[f] \in {0, messages[r.target][f], r.pre[f]}

\* EditsSurvive, from the rewind that is taken back or over to its files' last turn.
EditsSpared ==
  op.old # 0 /\ rewinds[op.old].mode # "conversation" =>
    LET r == rewinds[op.old] IN
    /\ op.step \in {"retire", "measure"} => base \in {messages[r.target], r.pre}
    /\ op.step = "restore" => \A f \in Files \ (op.dirty \cup meddled) : Put(r, f)
    /\ op.step = "write" => \A f \in op.todo \ meddled : Put(r, f)

Told == {i \in DOMAIN ledger : ledger[i].type # "input"}
Boundaries == {i \in DOMAIN ledger : ledger[i].type = "boundary"}

\* Ids are used once; a rewind of the files alone has no boundary.
LedgerIds ==
  /\ \A i \in Told :
       /\ ledger[i].of <= begun
       /\ op.kind = "rewind" /\ op.step # "record" => ledger[i].of # op.id
  /\ \A i \in Boundaries :
       /\ ledger[i].of = pending => rewinds[pending].mode # "code"
       /\ op.kind = "rewind" /\ ledger[i].of = op.id => op.mode # "code"

\* Boundaries lead to recorded messages.
LedgerTargets == \A i \in Boundaries : messages[ledger[i].target] # None

\* what was visible before is hidden at most by the boundaries of x and of the
\* rewinds taken back without a mark
ShownBut(x) ==
  \A i \in shown :
    /\ ledger[i].type = "input"
    /\ \A b \in Active : ledger[b].of \notin unmarked \cup {x} => i \notin Hidden(b)

ShownInputs ==
  /\ pending # 0 => ShownBut(pending)
  /\ op.kind = "rewind" => ShownBut(op.id)
  /\ op.kind = "cancel" /\ op.step = "record" =>
       op.id \in unmarked \/ \A b \in Active : ledger[b].of # op.id

\* the boundaries no input has followed
Open == {b \in Active : \A i \in b..Len(ledger) : ledger[i].type # "input"}

Offered ==
  ~cut /\ sending.step \in {"end", "finalize"} =>
    \A b \in Open : \/ ledger[b].of \in unmarked
                   \/ ledger[b].of = IF op.kind = "rewind" THEN op.id ELSE pending

IInv ==
  /\ TypeOK /\ Operation /\ Recorded /\ OneOpen /\ PendingRecorded
  /\ meddled \subseteq hands
  /\ PendingFiles /\ RewindFiles /\ CancelFiles /\ SparedFiles
  /\ RewindWrites /\ EditsSpared
  /\ LedgerIds /\ LedgerTargets /\ ShownInputs /\ Offered

-----------------------------------------------------------------------------
(* Type correctness                                                        *)

LEMMA Numbers ==
  /\ Texts \in Nat \ {0} /\ Messages \in Nat /\ Rewinds \in Nat
  /\ Edits \in Nat /\ Faults \in Nat /\ Moves \in Nat
  BY CheckpointAssumption

LEMMA ClosesType ==
  ASSUME TypeOK, NEW b \in Ids, rewinds[b] # None,
         NEW how \in {"pending", "cancelled", "finalized"}, Closes(b, how)
  PROVE  /\ rewinds' \in [Ids -> RewindRecords \cup {None}]
         /\ \A c \in Ids \ {b} : rewinds'[c] = rewinds[c]
         /\ rewinds'[b] = [rewinds[b] EXCEPT !.status = how]
<1>1. rewinds[b] \in RewindRecords /\ rewinds \in [Ids -> RewindRecords \cup {None}]
  BY DEF TypeOK
<1>2. [rewinds[b] EXCEPT !.status = how] \in RewindRecords
  BY <1>1 DEF RewindRecords
<1>3. rewinds' = [rewinds EXCEPT ![b] = [rewinds[b] EXCEPT !.status = how]]
  BY DEF Closes
<1> QED
  BY <1>1, <1>2, <1>3

LEMMA PendingType ==
  ASSUME TypeOK, PendingRecorded, pending # 0
  PROVE  /\ pending \in Ids /\ rewinds[pending] \in RewindRecords
         /\ rewinds[pending] # None
         /\ rewinds[pending].pre \in Manifests /\ rewinds[pending].mode \in Modes
         /\ rewinds[pending].target \in 1..Messages
<1>1. pending \in Ids
  BY Numbers DEF TypeOK, Ids
<1>2. rewinds[pending] \in RewindRecords
  BY <1>1 DEF TypeOK, PendingRecorded
<1> QED
  BY <1>1, <1>2 DEF PendingRecorded, RewindRecords

LEMMA IdleType == Idle \in Operations /\ Idle.kind = "none" /\ Idle.step = "end"
  BY Numbers DEF Idle, Operations

LEMMA InitType == Init => TypeOK
<1> SUFFICES ASSUME Init PROVE TypeOK
  OBVIOUS
<1>1. disk \in Manifests /\ blob \in [1..Texts -> {"none", "torn", "whole"}]
  BY Numbers DEF Init, Manifests, Contents
<1>2. sending \in [msg : 0..Messages, step : {"finalize", "snapshot", "publish", "end"}]
  BY Numbers DEF Init, Still
<1>3. /\ sent \in 0..Messages /\ begun \in 0..Rewinds /\ pending \in 0..Rewinds
      /\ edits \in 0..Edits /\ faults \in 0..Faults
  BY Numbers DEF Init
<1>4. ledger \in Seq(Entries) /\ shown \subseteq DOMAIN ledger
  BY DEF Init
<1> QED
  BY <1>1, <1>2, <1>3, <1>4, IdleType DEF Init, TypeOK

\* A message on its way.
LEMMA SendingType ==
  ASSUME TypeOK, Recorded, PendingRecorded,
         Send \/ FinalizePending \/ SnapshotForMessage \/ SendFails \/ Publish
  PROVE  TypeOK'
<1> USE DEF index, memory, bounds, origin, ghosts
<1>1. CASE Send
  <2>1. sending' \in [msg : 0..Messages, step : {"finalize", "snapshot", "publish", "end"}]
    BY <1>1, Numbers DEF Send, TypeOK
  <2>2. sent' \in 0..Messages
    BY <1>1, Numbers DEF Send, TypeOK
  <2> QED
    BY <1>1, <2>1, <2>2 DEF Send, TypeOK
<1>2. CASE FinalizePending
  <2>1. rewinds' \in [Ids -> RewindRecords \cup {None}]
    BY <1>2, PendingType, ClosesType DEF FinalizePending, TypeOK
  <2>2. pending' \in 0..Rewinds
    BY <1>2, Numbers DEF FinalizePending
  <2> QED
    BY <1>2, <2>1, <2>2 DEF FinalizePending, TypeOK
<1>3. CASE SnapshotForMessage
  <2>1. blob' \in [1..Texts -> {"none", "torn", "whole"}]
    BY <1>3 DEF SnapshotForMessage, TypeOK, Stores
  <2>2. messages' \in [1..Messages -> Manifests \cup {None}]
    BY <1>3 DEF SnapshotForMessage, TypeOK
  <2>3. stamp' \in [1..Messages -> Nat]
    <3>1. Len(ledger) \in Nat /\ stamp' = [stamp EXCEPT ![sending.msg] = Len(ledger)]
      BY <1>3 DEF SnapshotForMessage, TypeOK
    <3> QED
      BY <3>1 DEF TypeOK
  <2> QED
    BY <1>3, <2>1, <2>2, <2>3 DEF SnapshotForMessage, TypeOK
<1>4. CASE SendFails
  <2>1. faults' \in 0..Faults
    BY <1>4, Numbers DEF SendFails, Strikes, TypeOK
  <2>2. blob' \in [1..Texts -> {"none", "torn", "whole"}]
    BY <1>4 DEF SendFails, Tears, TypeOK
  <2>3. sending' \in [msg : 0..Messages, step : {"finalize", "snapshot", "publish", "end"}]
    BY <1>4 DEF SendFails, TypeOK
  <2> QED
    BY <1>4, <2>1, <2>2, <2>3 DEF SendFails, TypeOK
<1>5. CASE Publish
  <2>1. sending.msg \in 1..Messages
    BY <1>5, Numbers DEF Publish, TypeOK, Recorded
  <2>2. [type |-> "input", of |-> sending.msg] \in Entries
    BY <2>1 DEF Entries
  <2>3. ledger' \in Seq(Entries) /\ shown \subseteq DOMAIN ledger'
    BY <1>5, <2>2 DEF Publish, TypeOK
  <2>4. sending' \in [msg : 0..Messages, step : {"finalize", "snapshot", "publish", "end"}]
    BY <1>5, Numbers DEF Publish, Still
  <2> QED
    BY <1>5, <2>3, <2>4 DEF Publish, TypeOK
<1> QED
  BY <1>1, <1>2, <1>3, <1>4, <1>5

\* The ledger grows by the entry, or an append that is lost leaves it.
LEMMA TellsCases ==
  ASSUME NEW e, Tells(e)
  PROVE  \/ ledger' = Append(ledger, e) /\ UNCHANGED <<faults, unmarked>>
         \/ /\ ledger' = ledger /\ Strikes /\ unmarked \subseteq unmarked'
            /\ e.type = "cancel" => unmarked' = unmarked \cup {e.of}
            /\ e.type # "cancel" => unmarked' = unmarked
  BY DEF Tells

LEMMA TellsType ==
  ASSUME TypeOK, NEW e \in Entries, Tells(e) \/ TellsNothing
  PROVE  /\ ledger' \in Seq(Entries) /\ DOMAIN ledger \subseteq DOMAIN ledger'
         /\ faults' \in 0..Faults /\ unmarked' \subseteq Ids
<1>1. CASE ledger' = Append(ledger, e) /\ UNCHANGED <<faults, unmarked>>
  BY <1>1 DEF TypeOK
<1>2. CASE UNCHANGED <<ledger, faults, unmarked>>
  BY <1>2 DEF TypeOK
<1>3. CASE Tells(e) /\ ledger' = ledger /\ Strikes
  <2>1. faults' \in 0..Faults
    BY <1>3, Numbers DEF Strikes, TypeOK
  <2>2. e.type = "cancel" => e.of \in Ids
    BY DEF Entries
  <2>3. unmarked' \subseteq Ids
    BY <1>3, <2>2, TellsCases DEF TypeOK
  <2> QED
    BY <1>3, <2>1, <2>3 DEF TypeOK
<1> QED
  BY <1>1, <1>2, <1>3, TellsCases DEF TellsNothing

LEMMA RelievesType ==
  ASSUME TypeOK, PendingRecorded, pending # 0, Relieves
  PROVE  /\ ledger' \in Seq(Entries) /\ DOMAIN ledger \subseteq DOMAIN ledger'
         /\ faults' \in 0..Faults /\ unmarked' \subseteq Ids
<1>1. [type |-> "cancel", of |-> pending] \in Entries
  BY Numbers DEF Entries, TypeOK, Ids
<1> QED
  BY <1>1, TellsType DEF Relieves

\* The beginning of an operation.
LEMMA BeginType ==
  ASSUME TypeOK, PendingRecorded,
         \/ \E m \in 1..Messages, mode \in Modes : Rewind(m, mode)
         \/ Cancel \/ OverwriteDirty \/ UndoOverwrite
  PROVE  TypeOK'
<1> USE DEF index, memory, bounds, origin, ghosts
<1>1. ASSUME NEW m \in 1..Messages, NEW mode \in Modes, Rewind(m, mode)
      PROVE  TypeOK'
  <2>1. begun' \in 0..Rewinds
    <3>1. begun < Rewinds /\ begun' = begun + 1
      BY <1>1 DEF Rewind
    <3> QED
      BY <3>1, Numbers DEF TypeOK
  <2>2. pending # 0 => rewinds[pending].pre \in Manifests
    BY PendingType
  <2>3. op' \in Operations
    <3> DEFINE pre == IF pending = 0 THEN None ELSE rewinds[pending].pre
    <3> DEFINE step == IF pending = 0 THEN "snapshot" ELSE "retire"
    <3>1. op' = [Idle EXCEPT !.kind = "rewind", !.id = begun + 1, !.msg = m, !.mode = mode,
                   !.goal = messages[m], !.old = pending, !.pre = pre, !.step = step]
      BY <1>1 DEF Rewind
    <3>2. messages[m] \in Manifests /\ pre \in Manifests \cup {None}
          /\ step \in {"snapshot", "retire"}
      BY <1>1, <2>2 DEF Rewind, TypeOK
    <3>3. m \in 0..Messages /\ begun + 1 \in 0..Rewinds
      <4>1. begun' = begun + 1
        BY <1>1 DEF Rewind
      <4> QED
        BY <2>1, <4>1, Numbers
    <3>4. pending \in 0..Rewinds
      BY DEF TypeOK
    <3> HIDE DEF pre, step
    <3> QED
      BY <3>1, <3>2, <3>3, <3>4, IdleType DEF Operations
  <2>4. CASE pending = 0
    <3>1. Visible \subseteq DOMAIN ledger
      BY DEF Visible, TypeOK
    <3> QED
      BY <1>1, <2>1, <2>3, <2>4, <3>1 DEF Rewind, TellsNothing, TypeOK
  <2>5. CASE pending # 0
    <3>1. Relieves /\ UNCHANGED <<origin, hands>>
      BY <1>1, <2>5 DEF Rewind
    <3>2. /\ ledger' \in Seq(Entries) /\ DOMAIN ledger \subseteq DOMAIN ledger'
          /\ faults' \in 0..Faults /\ unmarked' \subseteq Ids
      BY <2>5, <3>1, RelievesType
    <3> QED
      BY <1>1, <2>1, <2>3, <3>1, <3>2 DEF Rewind, TypeOK
  <2> QED
    BY <2>4, <2>5
<1>2. CASE Cancel
  <2>1. rewinds[pending] \in RewindRecords /\ pending \in 0..Rewinds
    BY <1>2, PendingType DEF Cancel, TypeOK
  <2>2. op' \in Operations
    BY <1>2, <2>1, IdleType DEF Cancel, Operations, RewindRecords
  <2> QED
    BY <1>2, <2>2 DEF Cancel, TypeOK
<1>3. CASE OverwriteDirty
  <2>1. last \in LastOps
    BY <1>3 DEF OverwriteDirty, TypeOK
  <2>2. op' \in Operations
    <3>1. last.id \in 0..Rewinds /\ last.goal \in Manifests
      BY <1>3, <2>1, Numbers DEF OverwriteDirty, LastOps, Ids
    <3> QED
      BY <1>3, <3>1, IdleType DEF OverwriteDirty, Operations
  <2>3. hands' \subseteq Files
    BY <1>3, <2>1 DEF OverwriteDirty, TypeOK, LastOps
  <2> QED
    BY <1>3, <2>2, <2>3 DEF OverwriteDirty, TypeOK
<1>4. CASE UndoOverwrite
  <2>1. last \in LastOps
    BY <1>4 DEF UndoOverwrite, TypeOK
  <2>2. op' \in Operations
    <3>1. last.id \in 0..Rewinds /\ last.safety \in Manifests
      BY <1>4, <2>1, Numbers DEF UndoOverwrite, LastOps, Ids
    <3> QED
      BY <1>4, <3>1, IdleType DEF UndoOverwrite, Operations
  <2>3. hands' \subseteq Files
    BY <1>4, <2>1 DEF UndoOverwrite, TypeOK, LastOps
  <2> QED
    BY <1>4, <2>2, <2>3 DEF UndoOverwrite, TypeOK
<1> QED
  BY <1>1, <1>2, <1>3, <1>4

LEMMA OperationNow ==
  ASSUME TypeOK, Operation, PendingRecorded
  PROVE  /\ op.kind \in {"none", "rewind", "cancel", "overwrite", "undo"}
         /\ op.step \in {"retire", "snapshot", "measure", "restore", "write", "record", "end"}
         /\ op.kind = "none" => op.step = "end" /\ op.todo = {}
         /\ op.kind # "none" => op.goal \in Manifests
         /\ op.step = "retire" => op.kind = "rewind" /\ pending # 0
         /\ op.step \in {"measure", "record"} => op.kind \in {"rewind", "cancel"}
         /\ op.old # 0 => op.kind \in {"rewind", "cancel"}
         /\ op.kind \in {"rewind", "cancel"} => op.id \in Ids /\ op.mode \in Modes
         /\ op.kind = "cancel" => pending # 0 /\ op.id = pending
         /\ op.kind = "rewind" => op.msg \in 1..Messages
         /\ op.pre \in Manifests \cup {None} /\ op.todo \subseteq Files
         /\ op.kept \subseteq Files /\ op.dirty \subseteq Files
         /\ op.old \in 0..Rewinds /\ op.whole \in BOOLEAN
<1>1. /\ op.kind \in {"none", "rewind", "cancel", "overwrite", "undo"}
      /\ op.step \in {"retire", "snapshot", "measure", "restore", "write", "record", "end"}
      /\ op.id \in 0..Rewinds /\ op.goal \in Manifests \cup {None}
      /\ op.pre \in Manifests \cup {None} /\ op.todo \subseteq Files
      /\ op.kept \subseteq Files /\ op.dirty \subseteq Files
      /\ op.old \in 0..Rewinds /\ op.whole \in BOOLEAN
  BY DEF TypeOK, Operations
<1>2. op.kind = "none" => op.step = "end" /\ op.todo = {}
  BY DEF Operation, Idle
<1>3. op.kind = "rewind" =>
        op.goal \in Manifests /\ op.id \in Ids /\ op.mode \in Modes /\ op.msg \in 1..Messages
  <2>1. op.kind = "rewind" => op.id = begun /\ begun # 0
    BY DEF Operation
  <2> QED
    BY <1>1, <2>1, Numbers DEF Operation, TypeOK, Ids
<1>4. op.kind = "cancel" =>
        /\ pending # 0 /\ op.id = pending /\ op.goal \in Manifests
        /\ op.id \in Ids /\ op.mode \in Modes
  BY PendingType DEF Operation
<1>5. op.kind = "overwrite" => op.goal \in Manifests
  BY DEF Operation, LastOps
<1>6. op.kind = "undo" => op.goal \in Manifests
  BY DEF Operation
<1>7. /\ op.step = "retire" => op.kind = "rewind" /\ pending # 0
      /\ op.step \in {"measure", "record"} => op.kind \in {"rewind", "cancel"}
      /\ op.old # 0 => op.kind \in {"rewind", "cancel"}
  BY <1>1, <1>2 DEF Operation, Idle
<1> QED
  BY <1>1, <1>2, <1>3, <1>4, <1>5, <1>6, <1>7

\* Its steps.
LEMMA OperationType ==
  ASSUME TypeOK, Operation, PendingRecorded,
         Retire \/ Snapshot \/ Measure \/ Restore \/ Mark \/ Record \/ Settle
           \/ \E f \in Files : Write(f) \/ Leave(f)
  PROVE  TypeOK'
<1> USE DEF index, memory, bounds, origin, ghosts
<1>1. CASE Retire
  <2>1. rewinds' \in [Ids -> RewindRecords \cup {None}]
    BY <1>1, OperationNow, PendingType, ClosesType DEF Retire
  <2>2. pending' \in 0..Rewinds
    BY <1>1, Numbers DEF Retire
  <2>3. op' \in Operations
    BY <1>1 DEF Retire, Prepared, TypeOK, Operations
  <2> QED
    BY <1>1, <2>1, <2>2, <2>3 DEF Retire, TypeOK
<1>2. CASE Snapshot
  <2>1. blob' \in [1..Texts -> {"none", "torn", "whole"}]
    BY <1>2 DEF Snapshot, TypeOK, Stores
  <2>2. op' \in Operations
    BY <1>2 DEF Snapshot, Prepared, TypeOK, Operations
  <2> QED
    BY <1>2, <2>1, <2>2 DEF Snapshot, TypeOK
<1>3. CASE Restore
  <2>1. blob' \in [1..Texts -> {"none", "torn", "whole"}]
    BY <1>3 DEF Restore, TypeOK, Stores
  <2>2. Considered \subseteq Files
    <3>1. op.kind \in {"overwrite", "undo"} => last \in LastOps
      BY DEF Operation
    <3> QED
      BY <3>1 DEF Considered, LastOps
  <2>3. Differ(op.goal, Considered) \subseteq Files
    BY <2>2 DEF Differ
  <2>4. Preflight(op.goal, Considered) \in BOOLEAN
    BY DEF Preflight
  <2>5. op' \in Operations
    BY <1>3, <2>2, <2>3, <2>4 DEF Restore, TypeOK, Operations
  <2>6. hands' \subseteq Files
    BY <1>3, <2>3 DEF Restore, TypeOK
  <2> QED
    BY <1>3, <2>1, <2>5, <2>6 DEF Restore, TypeOK
<1>4. CASE Mark
  <2>1. op.id \in Ids /\ op.goal \in Manifests /\ (op.kind = "rewind" => op.msg \in 1..Messages)
    BY <1>4, OperationNow DEF Mark
  <2>2. Marker \in Entries
    BY <1>4, <2>1 DEF Marker, Entries, Mark
  <2>3. /\ ledger' \in Seq(Entries) /\ shown \subseteq DOMAIN ledger'
        /\ faults' \in 0..Faults /\ unmarked' \subseteq Ids
    BY <1>4, <2>2, TellsType DEF Mark, Marks, TypeOK
  <2>4. op' \in Operations
    BY <1>4 DEF Mark, TypeOK, Operations
  <2>5. base' \in Manifests \cup {None} /\ last' \in LastOps \cup {None}
    BY <1>4, <2>1 DEF Mark, TypeOK, LastOps, Operations
  <2> QED
    BY <1>4, <2>3, <2>4, <2>5 DEF Mark, TypeOK
<1>5. CASE Record
  <2>1. op.kind = "rewind" =>
          op.id \in Ids /\ op.msg \in 1..Messages /\ op.mode \in Modes /\ op.pre \in Manifests
    BY <1>5, OperationNow DEF Record, Operation
  <2>2. op.kind \in {"rewind", "cancel"}
    BY <1>5, OperationNow DEF Record
  <2>3. rewinds' \in [Ids -> RewindRecords \cup {None}]
    <3>1. CASE op.kind = "cancel"
      BY <1>5, <3>1, OperationNow, PendingType, ClosesType DEF Record
    <3>2. CASE op.kind = "rewind"
      BY <1>5, <2>1, <3>2 DEF Record, TypeOK, RewindRecords
    <3> QED
      BY <2>2, <3>1, <3>2
  <2>4. pending' \in 0..Rewinds
    BY <1>5, <2>1, <2>2, Numbers DEF Record, TypeOK, Ids
  <2> QED
    BY <1>5, <2>3, <2>4, IdleType DEF Record, Ends, TypeOK
<1>6. CASE Settle
  <2>1. last' \in LastOps
    BY <1>6 DEF Settle, Operation, LastOps, Operations
  <2> QED
    BY <1>6, <2>1, IdleType DEF Settle, Ends, TypeOK
<1>7. ASSUME NEW f \in Files, Turn(f) PROVE op' \in Operations
  BY <1>7 DEF Turn, TypeOK, Operations
<1>8. ASSUME NEW f \in Files, Write(f)
      PROVE  TypeOK'
  <2>1. op.goal \in Manifests
    BY <1>8, OperationNow DEF Write, Turn
  <2>2. disk' \in Manifests
    BY <1>8, <2>1 DEF Write, TypeOK, Manifests
  <2> QED
    BY <1>7, <1>8, <2>2 DEF Write, Turn, TypeOK
<1>9. ASSUME NEW f \in Files, Leave(f)
      PROVE  TypeOK'
  <2>1. faults' \in 0..Faults
    BY <1>9, Numbers DEF Leave, Strikes, TypeOK
  <2>2. stuck' \subseteq Files /\ hands' \subseteq Files
    BY <1>9 DEF Leave, TypeOK
  <2> QED
    BY <1>7, <1>9, <2>1, <2>2 DEF Leave, Turn, TypeOK
<1>10. CASE Measure
  <2>1. blob' \in [1..Texts -> {"none", "torn", "whole"}]
    BY <1>10 DEF Measure, TypeOK, Stores
  <2>2. op' \in Operations
    <3>1. Dirty \subseteq Files
      BY DEF Dirty
    <3> QED
      BY <1>10, <3>1 DEF Measure, TypeOK, Operations
  <2> QED
    BY <1>10, <2>1, <2>2 DEF Measure, TypeOK
<1> QED
  BY <1>1, <1>2, <1>3, <1>4, <1>5, <1>6, <1>8, <1>9, <1>10

\* A restart finds the pending rewind again: it is the only open record.
LEMMA Restarted ==
  ASSUME TypeOK, OneOpen, PendingRecorded, Crash
  PROVE  /\ pending' = pending
         /\ base' = IF pending = 0 \/ rewinds[pending].mode = "conversation" THEN None
                    ELSE messages[rewinds[pending].target]
<1> DEFINE open == {b \in Ids : rewinds[b] # None /\ rewinds[b].status = "pending"}
<1>1. CASE pending = 0
  <2>1. open = {}
    BY <1>1, Numbers DEF OneOpen, Ids
  <2> QED
    BY <1>1, <2>1 DEF Crash
<1>2. CASE pending # 0
  <2>1. open = {pending}
    BY <1>2, PendingType DEF OneOpen, PendingRecorded
  <2>2. Max(open) = pending
    BY <1>2, <2>1, PendingType, Numbers DEF Max, Ids
  <2> QED
    BY <1>2, <2>1, <2>2 DEF Crash
<1> QED
  BY <1>1, <1>2

LEMMA EnvironmentType ==
  ASSUME TypeOK, OneOpen, PendingRecorded,
         \/ \E f \in Files : Edit(f)
         \/ Throw \/ Crash
  PROVE  TypeOK'
<1> USE DEF index, memory, bounds, origin, ghosts
<1>1. ASSUME NEW f \in Files, Edit(f)
      PROVE  TypeOK'
  <2>1. disk' \in Manifests /\ hands' \subseteq Files /\ meddled' \subseteq Files
    BY <1>1 DEF Edit, TypeOK, Manifests
  <2>2. edits' \in 0..Edits
    BY <1>1, Numbers DEF Edit, TypeOK
  <2> QED
    BY <1>1, <2>1, <2>2 DEF Edit, TypeOK
<1>2. ASSUME Tears PROVE blob' \in [1..Texts -> {"none", "torn", "whole"}]
  BY <1>2 DEF Tears, TypeOK
<1>3. ASSUME Strikes PROVE faults' \in 0..Faults
  BY <1>3, Numbers DEF Strikes, TypeOK
<1>4. CASE Throw
  BY <1>2, <1>3, <1>4, IdleType DEF Throw, Ends, TypeOK
<1>5. CASE Crash
  <2>1. pending' \in 0..Rewinds /\ base' \in Manifests \cup {None}
    BY <1>5, Restarted, PendingType DEF TypeOK
  <2>2. sending' \in [msg : 0..Messages, step : {"finalize", "snapshot", "publish", "end"}]
    BY <1>5, Numbers DEF Crash, Still
  <2>3. cut' \in BOOLEAN
    BY <1>5 DEF Crash, TypeOK
  <2> QED
    BY <1>2, <1>3, <1>5, <2>1, <2>2, <2>3, IdleType DEF Crash, Ends, TypeOK
<1> QED
  BY <1>1, <1>4, <1>5

-----------------------------------------------------------------------------
(* What a step does to the operation that holds the lock                   *)

\* an operation goes on as the one it is
SameOp ==
  /\ op'.kind = op.kind /\ op'.id = op.id /\ op'.msg = op.msg /\ op'.mode = op.mode
  /\ op'.goal = op.goal /\ op'.old = op.old

LEMMA RewindFields ==
  ASSUME NEW m, NEW mode, Rewind(m, mode)
  PROVE  /\ op'.kind = "rewind" /\ op'.id = begun + 1 /\ op'.msg = m /\ op'.mode = mode
         /\ op'.goal = messages[m] /\ op'.old = pending /\ op'.todo = {} /\ op'.dirty = {}
         /\ op'.step = IF pending = 0 THEN "snapshot" ELSE "retire"
         /\ pending # 0 => op'.pre = rewinds[pending].pre
<1> DEFINE pre == IF pending = 0 THEN None ELSE rewinds[pending].pre
           step == IF pending = 0 THEN "snapshot" ELSE "retire"
<1>1. op' = [Idle EXCEPT !.kind = "rewind", !.id = begun + 1, !.msg = m, !.mode = mode,
               !.goal = messages[m], !.old = pending, !.pre = pre, !.step = step]
  BY DEF Rewind
<1>2. pending # 0 => pre = rewinds[pending].pre
  OBVIOUS
<1> HIDE DEF pre, step
<1>3. /\ op'.kind = "rewind" /\ op'.id = begun + 1 /\ op'.msg = m /\ op'.mode = mode
      /\ op'.goal = messages[m] /\ op'.old = pending /\ op'.todo = {} /\ op'.dirty = {}
      /\ op'.step = step /\ op'.pre = pre
  BY <1>1 DEF Idle
<1> QED
  BY <1>2, <1>3 DEF step

LEMMA CancelFields ==
  ASSUME Cancel
  PROVE  /\ op'.kind = "cancel" /\ op'.id = pending /\ op'.step = "measure"
         /\ op'.mode = rewinds[pending].mode /\ op'.goal = rewinds[pending].pre
         /\ op'.old = pending /\ op'.todo = {} /\ op'.dirty = {}
  BY DEF Cancel, Idle

LEMMA OverwriteFields ==
  ASSUME OverwriteDirty
  PROVE  /\ op'.kind = "overwrite" /\ op'.id = last.id /\ op'.step = "snapshot"
         /\ op'.mode = "both" /\ op'.goal = last.goal /\ op'.old = 0
         /\ op'.todo = {} /\ op'.dirty = {}
  BY DEF OverwriteDirty, Idle

LEMMA UndoFields ==
  ASSUME UndoOverwrite
  PROVE  /\ op'.kind = "undo" /\ op'.id = last.id /\ op'.step = "restore"
         /\ op'.mode = "both" /\ op'.goal = last.safety /\ op'.old = 0
         /\ op'.todo = {} /\ op'.dirty = {}
  BY DEF UndoOverwrite, Idle

LEMMA StepFields ==
  ASSUME TypeOK
  PROVE  /\ Retire =>
              /\ SameOp /\ op'.step = Prepared /\ op'.pre = op.pre
              /\ op'.todo = op.todo /\ op'.dirty = op.dirty
         /\ Snapshot =>
              /\ SameOp /\ op'.step = Prepared /\ op'.pre = disk
              /\ op'.todo = op.todo /\ op'.dirty = op.dirty
         /\ Measure =>
              /\ SameOp /\ op'.step = "restore" /\ op'.pre = op.pre
              /\ op'.todo = op.todo /\ op'.dirty = Dirty
         /\ Restore => SameOp /\ op'.step = "write" /\ op'.pre = op.pre
         /\ \A f : Turn(f) =>
              /\ SameOp /\ op'.step = op.step /\ op'.pre = op.pre /\ op'.todo = op.todo \ {f}
              /\ op'.dirty = op.dirty /\ op'.whole = op.whole
         /\ Mark =>
              /\ SameOp /\ op'.step = "record" /\ op'.pre = op.pre /\ op'.todo = op.todo
              /\ op'.dirty = op.dirty /\ op'.whole = op.whole
<1>1. op \in Operations
  BY DEF TypeOK
<1>2. Retire =>
        /\ SameOp /\ op'.step = Prepared /\ op'.pre = op.pre
        /\ op'.todo = op.todo /\ op'.dirty = op.dirty
  BY <1>1 DEF Retire, Operations, SameOp
<1>3. Snapshot =>
        /\ SameOp /\ op'.step = Prepared /\ op'.pre = disk
        /\ op'.todo = op.todo /\ op'.dirty = op.dirty
  BY <1>1 DEF Snapshot, Operations, SameOp
<1>7. Measure =>
        /\ SameOp /\ op'.step = "restore" /\ op'.pre = op.pre
        /\ op'.todo = op.todo /\ op'.dirty = Dirty
  BY <1>1 DEF Measure, Operations, SameOp
<1>4. Restore => SameOp /\ op'.step = "write" /\ op'.pre = op.pre
  BY <1>1 DEF Restore, Operations, SameOp
<1>5. ASSUME NEW f, Turn(f)
      PROVE  /\ SameOp /\ op'.step = op.step /\ op'.pre = op.pre /\ op'.todo = op.todo \ {f}
             /\ op'.dirty = op.dirty /\ op'.whole = op.whole
  BY <1>1, <1>5 DEF Turn, Operations, SameOp
<1>6. Mark =>
        /\ SameOp /\ op'.step = "record" /\ op'.pre = op.pre /\ op'.todo = op.todo
        /\ op'.dirty = op.dirty /\ op'.whole = op.whole
  BY <1>1 DEF Mark, Operations, SameOp
<1> QED
  BY <1>2, <1>3, <1>4, <1>5, <1>6, <1>7

\* What a restore settles: the files it will write, and those it leaves.
LEMMA RestoreFields ==
  ASSUME TypeOK, Restore
  PROVE  /\ op'.dirty = op.dirty
         /\ \/ /\ op'.whole = TRUE /\ op'.todo = Differ(op.goal, Considered) /\ hands' = hands
            \/ /\ op'.whole = FALSE /\ op'.todo = {}
               /\ hands' = hands \cup Differ(op.goal, Considered)
<1>1. op \in Operations
  BY DEF TypeOK
<1>2. CASE Preflight(op.goal, Considered)
  BY <1>1, <1>2 DEF Restore, Operations
<1>3. CASE ~ Preflight(op.goal, Considered)
  BY <1>1, <1>3 DEF Restore, Operations
<1> QED
  BY <1>2, <1>3

LEMMA NextType == IInv /\ Next => TypeOK'
<1> SUFFICES ASSUME IInv, Next PROVE TypeOK'
  OBVIOUS
<1>1. CASE Send \/ FinalizePending \/ SnapshotForMessage \/ SendFails \/ Publish
  BY <1>1, SendingType DEF IInv
<1>2. CASE \/ \E m \in 1..Messages, mode \in Modes : Rewind(m, mode)
           \/ Cancel \/ OverwriteDirty \/ UndoOverwrite
  BY <1>2, BeginType DEF IInv
<1>3. CASE Retire \/ Snapshot \/ Measure \/ Restore \/ Mark \/ Record \/ Settle
             \/ \E f \in Files : Write(f) \/ Leave(f)
  BY <1>3, OperationType DEF IInv
<1>4. CASE \/ \E f \in Files : Edit(f)
           \/ Throw \/ Crash
  BY <1>4, EnvironmentType DEF IInv
<1> QED
  BY <1>1, <1>2, <1>3, <1>4 DEF Next

-----------------------------------------------------------------------------
(* The records: an operation's own, the messages', the rewinds'            *)

LEMMA OperationStep == IInv /\ Next => Operation'
<1> SUFFICES ASSUME IInv, Next PROVE Operation'
  OBVIOUS
<1> USE DEF index, memory, bounds, origin, ghosts
<1>1. TypeOK /\ Operation /\ PendingRecorded /\ TypeOK'
  BY NextType DEF IInv
<1>2. CASE op' = Idle /\ meddled' = {} /\ stuck' = {}
  BY <1>2 DEF Operation, Idle
<1>3. CASE Send \/ Publish
  BY <1>1, <1>3 DEF Send, Publish, Operation
<1>4. CASE FinalizePending \/ SnapshotForMessage \/ SendFails
  BY <1>1, <1>2, <1>4 DEF FinalizePending, SnapshotForMessage, SendFails, Free, Operation
<1>5. ASSUME NEW m \in 1..Messages, NEW mode \in Modes, Rewind(m, mode)
      PROVE  Operation'
  <2>1. /\ messages[m] \in Manifests /\ messages' = messages /\ pending' = pending
        /\ begun' = begun + 1
    BY <1>1, <1>5 DEF Rewind, TypeOK
  <2>2. pending # 0 => rewinds[pending].pre \in Manifests
    BY <1>1, PendingType
  <2>3. begun + 1 # 0
    BY <1>1, Numbers DEF TypeOK
  <2>4. rewinds' = rewinds /\ (pending # 0 => rewinds[pending] # None)
    BY <1>1, <1>5 DEF Rewind, PendingRecorded
  <2> QED
    BY <1>5, RewindFields, <2>1, <2>2, <2>3, <2>4 DEF Operation
<1>6. CASE Cancel
  BY <1>6, CancelFields DEF Cancel, Operation
<1>7. CASE OverwriteDirty
  BY <1>1, <1>7, OverwriteFields DEF OverwriteDirty, Operation, TypeOK
<1>8. CASE UndoOverwrite
  <2>1. last \in LastOps /\ last.safety \in Manifests
    BY <1>1, <1>8 DEF UndoOverwrite, TypeOK, LastOps
  <2> QED
    BY <1>8, <2>1, UndoFields DEF UndoOverwrite, Operation
<1>9. CASE Retire
  <2>1. /\ op.kind = "rewind" /\ SameOp /\ op'.step = Prepared /\ op'.pre = op.pre
        /\ op'.todo = op.todo /\ op'.dirty = op.dirty
    BY <1>1, <1>9, OperationNow, StepFields DEF Retire
  <2>2. /\ op.step = "retire" /\ op.old = pending /\ pending # 0
        /\ pending' = 0 /\ UNCHANGED <<messages, begun, last, hands>>
    BY <1>1, <1>9, <2>1 DEF Retire, Operation
  <2>3. rewinds'[op.old] # None
    <3>1. pending \in Ids /\ rewinds[pending] # None
      BY <1>1, <2>2, PendingType
    <3>2. rewinds'[pending] = [rewinds[pending] EXCEPT !.status = "cancelled"]
      BY <1>1, <1>9, <3>1, ClosesType DEF Retire
    <3>3. rewinds[pending] \in RewindRecords
      BY <1>1, <2>2, PendingType
    <3>4. rewinds'[pending] \in RewindRecords
      BY <3>2, <3>3 DEF RewindRecords
    <3> QED
      BY <2>2, <3>4, NoneAssumption
  <2>5. op.kind = "rewind" /\ op.dirty = {} /\ op.todo = {} /\ op.pre \in Manifests
    BY <1>1, <2>2, OperationNow DEF Operation
  <2>6. op'.old # 0 /\ op'.step = IF op.mode = "conversation" THEN "write" ELSE "measure"
    BY <2>1, <2>2 DEF Prepared, SameOp
  <2>7. /\ op'.kind = "rewind" /\ op'.mode = op.mode /\ op'.msg = op.msg /\ op'.goal = op.goal
        /\ op'.id = op.id /\ op'.old = op.old /\ op'.pre = op.pre
        /\ op'.todo = {} /\ op'.dirty = {}
    BY <2>1, <2>5 DEF SameOp
  <2>8. /\ op.mode \in Modes /\ op.msg \in 1..Messages
        /\ op.goal = messages[op.msg] /\ op.goal \in Manifests
        /\ op.id = begun /\ begun # 0
    BY <1>1, <2>5 DEF Operation
  <2> QED
    BY <2>2, <2>3, <2>5, <2>6, <2>7, <2>8 DEF Operation
<1>10. CASE Snapshot
  <2>1. /\ SameOp /\ op'.step = Prepared /\ op'.pre = disk /\ op'.todo = op.todo
        /\ op'.dirty = op.dirty /\ disk \in Manifests
    BY <1>1, <1>10, StepFields DEF TypeOK
  <2>2. /\ op.step = "snapshot" /\ op.kind # "none"
        /\ UNCHANGED <<messages, rewinds, pending, begun, last, hands>>
    BY <1>1, <1>10, OperationNow DEF Snapshot
  <2> QED
    BY <1>1, <2>1, <2>2 DEF Operation, SameOp, Prepared
<1>11. CASE Restore
  <2>1. SameOp /\ op'.step = "write" /\ op'.pre = op.pre
    BY <1>1, <1>11, StepFields
  <2>2. /\ op.step = "restore" /\ op.kind # "none"
        /\ UNCHANGED <<messages, rewinds, pending, begun, last>>
    BY <1>1, <1>11, OperationNow DEF Restore
  <2>3. op'.todo \subseteq Considered /\ hands \subseteq hands'
    BY <1>1, <1>11, RestoreFields DEF Differ
  <2>4. op.kind \in {"overwrite", "undo"} => Considered \subseteq hands
    BY <1>1 DEF Considered, Operation
  <2> QED
    BY <1>1, <2>1, <2>2, <2>3, <2>4 DEF Operation, SameOp
<1>12. ASSUME NEW f \in Files, Write(f) \/ Leave(f)
       PROVE  Operation'
  <2>1. SameOp /\ op'.step = op.step /\ op'.pre = op.pre /\ op'.todo = op.todo \ {f}
    BY <1>1, <1>12, StepFields DEF Write, Leave
  <2>2. /\ op.step = "write" /\ op.kind # "none" /\ hands \subseteq hands'
        /\ UNCHANGED <<messages, rewinds, pending, begun, last>>
    BY <1>1, <1>12, OperationNow DEF Write, Leave, Turn
  <2> QED
    BY <1>1, <2>1, <2>2 DEF Operation, SameOp
<1>13. CASE Mark
  <2>1. SameOp /\ op'.step = "record" /\ op'.pre = op.pre /\ op'.todo = op.todo
    BY <1>1, <1>13, StepFields
  <2>2. /\ op.step = "write" /\ op.todo = {} /\ op.kind \in {"rewind", "cancel"}
        /\ UNCHANGED <<messages, rewinds, pending, begun, hands>>
    BY <1>13 DEF Mark
  <2> QED
    BY <1>1, <2>1, <2>2 DEF Operation, SameOp
<1>14. CASE Record \/ Settle \/ Throw \/ Crash
  BY <1>2, <1>14 DEF Record, Settle, Throw, Crash, Ends
<1>15. ASSUME NEW f \in Files, Edit(f)
       PROVE  Operation'
  <2>1. CASE op.kind = "none"
    BY <1>1, <1>2, <1>15, <2>1 DEF Edit, Free, Operation
  <2>2. CASE op.kind # "none"
    BY <1>1, <1>15, <2>2 DEF Edit, Operation
  <2> QED
    BY <2>1, <2>2
<1>16. CASE Measure
  <2>1. /\ SameOp /\ op'.step = "restore" /\ op'.pre = op.pre /\ op'.todo = op.todo
        /\ op.kind \in {"rewind", "cancel"}
    BY <1>1, <1>16, StepFields, OperationNow DEF Measure
  <2>2. /\ op.step = "measure"
        /\ UNCHANGED <<messages, rewinds, pending, begun, last, hands>>
    BY <1>16 DEF Measure
  <2> QED
    BY <1>1, <2>1, <2>2 DEF Operation, SameOp
<1> QED
  BY <1>3, <1>4, <1>5, <1>6, <1>7, <1>8, <1>9, <1>10, <1>11, <1>12, <1>13, <1>14, <1>15, <1>16
     DEF Next

LEMMA RecordedStep == IInv /\ Next => Recorded'
<1> SUFFICES ASSUME IInv, Next PROVE Recorded'
  OBVIOUS
<1> USE DEF index, memory, bounds, origin, ghosts
<1>1. TypeOK /\ Recorded
  BY DEF IInv
<1>2. CASE Send
  BY <1>1, <1>2, Numbers DEF Send, Recorded, TypeOK
<1>3. CASE FinalizePending
  BY <1>1, <1>3 DEF FinalizePending, Recorded, TypeOK
<1>13. CASE SendFails
  BY <1>1, <1>13 DEF SendFails, Recorded, TypeOK
<1>4. CASE SnapshotForMessage
  <2>1. /\ sending'.step = "publish" /\ sending'.msg = sending.msg /\ sent' = sent
        /\ sending.msg = sent /\ sent # 0
        /\ messages' = [messages EXCEPT ![sending.msg] = disk]
    BY <1>1, <1>4 DEF SnapshotForMessage, Recorded, TypeOK
  <2> QED
    BY <1>1, <2>1, Numbers DEF Recorded, TypeOK
<1>5. CASE Publish \/ Crash
  BY <1>1, <1>5 DEF Publish, Crash, Recorded, Still
<1>6. CASE UNCHANGED <<sending, sent, messages>>
  BY <1>1, <1>6 DEF Recorded
<1>7. CASE \/ \E m \in 1..Messages, mode \in Modes : Rewind(m, mode)
           \/ Retire \/ Snapshot \/ Cancel \/ Measure \/ Restore \/ Mark \/ Record
           \/ OverwriteDirty \/ UndoOverwrite \/ Settle
           \/ \E f \in Files : Write(f) \/ Leave(f) \/ Edit(f)
           \/ Throw
  BY <1>6, <1>7 DEF Rewind, Retire, Snapshot, Cancel, Measure, Restore, Mark, Record,
                    OverwriteDirty, UndoOverwrite, Settle, Write, Leave, Turn, Edit, Throw
<1> QED
  BY <1>2, <1>3, <1>4, <1>5, <1>7, <1>13 DEF Next

\* A message that is recorded stays as it is.
LEMMA RecordedStay ==
  ASSUME IInv, Next, NEW m \in 1..Messages, messages[m] # None
  PROVE  messages'[m] = messages[m] /\ stamp'[m] = stamp[m]
<1> USE DEF index, memory, bounds, origin, ghosts
<1>1. TypeOK /\ Recorded
  BY DEF IInv
<1>2. CASE SnapshotForMessage
  <2>1. sending.msg # m
    BY <1>1, <1>2 DEF SnapshotForMessage, Recorded
  <2> QED
    BY <1>1, <1>2, <2>1 DEF SnapshotForMessage, TypeOK
<1>3. CASE \/ Send \/ FinalizePending \/ SendFails \/ Publish
           \/ \E n \in 1..Messages, mode \in Modes : Rewind(n, mode)
           \/ Retire \/ Snapshot \/ Cancel \/ Measure \/ Restore \/ Mark \/ Record
           \/ OverwriteDirty \/ UndoOverwrite \/ Settle
           \/ \E f \in Files : Write(f) \/ Leave(f) \/ Edit(f)
           \/ Throw \/ Crash
  BY <1>3 DEF Send, FinalizePending, SendFails, Publish, Rewind, Retire, Snapshot, Cancel,
              Measure, Restore, Mark, Record, OverwriteDirty, UndoOverwrite, Settle, Write,
              Leave, Turn, Edit, Throw, Crash
<1> QED
  BY <1>2, <1>3 DEF Next

LEMMA OneOpenStep == IInv /\ Next => OneOpen' /\ PendingRecorded'
<1> SUFFICES ASSUME IInv, Next PROVE OneOpen' /\ PendingRecorded'
  OBVIOUS
<1> USE DEF index, memory, bounds, origin, ghosts
<1>1. TypeOK /\ Operation /\ Recorded /\ OneOpen /\ PendingRecorded /\ TypeOK'
  BY NextType DEF IInv
<1>2. /\ pending \in 0..Rewinds /\ begun \in 0..Rewinds
      /\ rewinds \in [Ids -> RewindRecords \cup {None}]
      /\ \A b \in Ids : rewinds[b] # None => rewinds[b].target \in 1..Messages
  BY <1>1 DEF TypeOK, RewindRecords
<1>3. CASE UNCHANGED <<rewinds, messages, pending>> /\ begun' \in {begun, begun + 1}
  BY <1>1, <1>2, <1>3, Numbers DEF OneOpen, PendingRecorded
\* a pending rewind that is closed leaves none open
<1>4. ASSUME NEW how \in {"cancelled", "finalized"}, pending # 0, Closes(pending, how),
             pending' = 0, messages' = messages
      PROVE  OneOpen' /\ PendingRecorded'
  <2>1. /\ \A c \in Ids \ {pending} : rewinds'[c] = rewinds[c]
        /\ rewinds'[pending] = [rewinds[pending] EXCEPT !.status = how]
        /\ rewinds[pending] # None /\ rewinds[pending] \in RewindRecords
    BY <1>1, <1>4, PendingType, ClosesType
  <2>2. /\ rewinds'[pending].status = how
        /\ rewinds'[pending].target = rewinds[pending].target
    BY <2>1 DEF RewindRecords
  <2>3. ASSUME NEW b \in Ids, rewinds'[b] # None
        PROVE  messages'[rewinds'[b].target] # None /\ rewinds'[b].status # "pending"
    <3>1. CASE b = pending
      BY <1>1, <1>4, <2>1, <2>2, <3>1 DEF OneOpen
    <3>2. CASE b # pending
      BY <1>1, <1>4, <2>1, <2>3, <3>2 DEF OneOpen
    <3> QED
      BY <3>1, <3>2
  <2> QED
    BY <1>4, <2>3, Numbers DEF OneOpen, PendingRecorded, Ids
<1>5. CASE FinalizePending
  <2>1. pending' = 0 /\ messages' = messages
    BY <1>5 DEF FinalizePending
  <2>2. CASE pending = 0
    BY <1>1, <1>5, <2>1, <2>2 DEF FinalizePending, OneOpen, PendingRecorded
  <2>3. CASE pending # 0
    BY <1>4, <1>5, <2>1, <2>3 DEF FinalizePending
  <2> QED
    BY <2>2, <2>3
<1>6. CASE SnapshotForMessage
  <2>1. /\ messages' = [messages EXCEPT ![sending.msg] = disk] /\ messages[sending.msg] = None
        /\ UNCHANGED <<rewinds, pending, begun>> /\ disk # None
    BY <1>1, <1>6, NoneAssumption DEF SnapshotForMessage, Recorded, TypeOK
  <2> QED
    BY <1>1, <1>2, <2>1 DEF OneOpen, PendingRecorded, TypeOK
<1>7. CASE Retire
  <2>1. pending # 0
    BY <1>1, <1>7, OperationNow DEF Retire
  <2> QED
    BY <1>4, <1>7, <2>1 DEF Retire
<1>8. CASE Record /\ op.kind = "cancel"
  <2>1. pending # 0 /\ op.id = pending
    BY <1>1, <1>8, OperationNow
  <2> QED
    BY <1>4, <1>8, <2>1 DEF Record
<1>9. CASE Record /\ op.kind # "cancel"
  <2>1. /\ op.kind = "rewind" /\ op.id \in Ids /\ op.msg \in 1..Messages /\ op.id = begun
        /\ pending = 0 /\ messages[op.msg] \in Manifests
    BY <1>1, <1>9, OperationNow DEF Record, Operation
  <2>2. /\ rewinds' = [rewinds EXCEPT ![op.id] = [target |-> op.msg, mode |-> op.mode,
                                                  pre |-> op.pre, status |-> "pending"]]
        /\ pending' = op.id /\ UNCHANGED <<messages, begun>>
    BY <1>9 DEF Record
  <2>3. rewinds'[op.id] \in RewindRecords
    <3>1. rewinds'[op.id] = [target |-> op.msg, mode |-> op.mode,
                             pre |-> op.pre, status |-> "pending"]
      BY <1>2, <2>1, <2>2
    <3> QED
      BY <1>1, <1>9, <2>1, <3>1, OperationNow DEF RewindRecords, Operation, Record
  <2>4. PendingRecorded'
    BY <2>1, <2>2, <2>3, <1>2, NoneAssumption DEF PendingRecorded
  <2>5. ASSUME NEW b \in Ids, rewinds'[b] # None
        PROVE  /\ messages'[rewinds'[b].target] # None
               /\ rewinds'[b].status = "pending" <=> b = pending'
    <3>1. CASE b = op.id
      BY <1>2, <2>1, <2>2, <3>1, NoneAssumption
    <3>2. CASE b # op.id
      <4>1. rewinds'[b] = rewinds[b] /\ b # 0
        BY <1>2, <2>2, <3>2, Numbers DEF Ids
      <4> QED
        BY <1>1, <2>1, <2>2, <2>5, <3>2, <4>1 DEF OneOpen
    <3> QED
      BY <3>1, <3>2
  <2> QED
    BY <2>4, <2>5 DEF OneOpen
<1>10. CASE Crash
  <2>1. pending' = pending /\ UNCHANGED <<rewinds, messages, begun>>
    BY <1>1, <1>10, Restarted DEF Crash
  <2> QED
    BY <1>3, <2>1
<1>11. CASE \/ Send \/ SendFails \/ Publish
            \/ \E m \in 1..Messages, mode \in Modes : Rewind(m, mode)
            \/ Snapshot \/ Cancel \/ Measure \/ Restore \/ Mark
            \/ OverwriteDirty \/ UndoOverwrite \/ Settle
            \/ \E f \in Files : Write(f) \/ Leave(f) \/ Edit(f)
            \/ Throw
  BY <1>3, <1>11 DEF Send, SendFails, Publish, Rewind, Snapshot, Cancel, Measure, Restore,
                     Mark, OverwriteDirty, UndoOverwrite, Settle, Write, Leave, Turn, Edit,
                     Throw
<1> QED
  BY <1>5, <1>6, <1>7, <1>8, <1>9, <1>10, <1>11 DEF Next

LEMMA MeddledStep == IInv /\ Next => (meddled \subseteq hands)'
<1> SUFFICES ASSUME IInv, Next PROVE meddled' \subseteq hands'
  OBVIOUS
<1> USE DEF index, memory, bounds, origin, ghosts
<1>1. meddled \subseteq hands
  BY DEF IInv
<1>2. CASE UNCHANGED meddled /\ hands \subseteq hands'
  BY <1>1, <1>2
<1>3. CASE meddled' = {}
  BY <1>3
<1>4. ASSUME NEW f \in Files, Edit(f)
      PROVE  meddled' \subseteq hands'
  BY <1>1, <1>4 DEF Edit
<1>5. CASE Restore
  BY <1>2, <1>5, RestoreFields DEF IInv, Restore
<1>6. ASSUME NEW m \in 1..Messages, NEW mode \in Modes, Rewind(m, mode)
      PROVE  meddled' \subseteq hands'
  BY <1>3, <1>6 DEF Rewind, Free, IInv, Operation
<1>7. CASE Measure \/ Record \/ Settle \/ Throw \/ Crash
  BY <1>3, <1>7 DEF Measure, Record, Settle, Throw, Crash, Ends
<1>8. CASE \/ Send \/ FinalizePending \/ SnapshotForMessage \/ SendFails \/ Publish
           \/ Retire \/ Snapshot \/ Cancel \/ OverwriteDirty \/ UndoOverwrite \/ Mark
           \/ \E f \in Files : Write(f) \/ Leave(f)
  BY <1>2, <1>8 DEF Send, FinalizePending, SnapshotForMessage, SendFails, Publish, Retire,
                    Snapshot, Cancel, OverwriteDirty, UndoOverwrite, Mark, Write, Leave, Turn
<1> QED
  BY <1>4, <1>5, <1>6, <1>7, <1>8 DEF Next

-----------------------------------------------------------------------------
(* The files                                                               *)

\* the disk changes under nobody's hands only where an operation writes
LEMMA BetweenKept ==
  ASSUME TypeOK, NEW g, Between(g), before' = before, hands \subseteq hands',
         \A f \in Files \ hands' : disk'[f] = disk[f]
  PROVE  Between(g)'
  BY DEF Between

LEMMA EditFiles ==
  ASSUME TypeOK, NEW f \in Files, Edit(f)
  PROVE  /\ hands \subseteq hands' /\ before' = before
         /\ \A g \in Files \ hands' : disk'[g] = disk[g]
         /\ ~Free => meddled' = meddled \cup {f}
         /\ \A g \in Files \ {f} : disk'[g] = disk[g]
<1>1. \A g \in Files \ {f} : disk'[g] = disk[g]
  BY DEF Edit, TypeOK, Manifests
<1>2. hands' = hands \cup {f} /\ before' = before /\ (~Free => meddled' = meddled \cup {f})
  BY DEF Edit, origin
<1> QED
  BY <1>1, <1>2

LEMMA WriteFiles ==
  ASSUME TypeOK, NEW f \in Files, Write(f)
  PROVE  /\ hands' = hands /\ before' = before /\ meddled' = meddled /\ stuck' = stuck
         /\ disk'[f] = op.goal[f] /\ \A g \in Files \ {f} : disk'[g] = disk[g]
  BY DEF Write, Turn, TypeOK, Manifests, origin

\* a file that could not be removed is in `hands' from then on
LEMMA LeaveFiles ==
  ASSUME NEW f \in Files, Leave(f)
  PROVE  /\ hands' = hands \cup {f} /\ before' = before /\ meddled' = meddled
         /\ stuck' = stuck \cup {f} /\ disk' = disk
  BY DEF Leave, Turn, origin

LEMMA PendingFilesStep == IInv /\ Next => PendingFiles'
<1> SUFFICES ASSUME IInv, Next PROVE PendingFiles'
  OBVIOUS
<1> USE DEF index, memory, bounds, origin, ghosts
<1>1. TypeOK /\ Operation /\ Recorded /\ OneOpen /\ PendingRecorded /\ PendingFiles
  BY DEF IInv
<1>2. CASE pending' = 0
  BY <1>2 DEF PendingFiles
\* the pending rewind's record, and what dirtySet measures by, are as they were
<1>3. ASSUME pending' = pending, pending # 0, rewinds' = rewinds, base' = base,
             messages'[rewinds[pending].target] = messages[rewinds[pending].target],
             before' = before, hands \subseteq hands',
             \A f \in Files \ hands' : disk'[f] = disk[f]
      PROVE  PendingFiles'
  BY <1>1, <1>3, PendingType DEF PendingFiles, Anchored, Between
<1>4. CASE FinalizePending \/ Retire
  BY <1>2, <1>4 DEF FinalizePending, Retire
<1>5. CASE SnapshotForMessage
  <2>1. CASE pending = 0
    BY <1>2, <1>5, <2>1 DEF SnapshotForMessage
  <2>2. CASE pending # 0
    <3>1. rewinds[pending].target # sending.msg
      BY <1>1, <1>5, <2>2, PendingType DEF SnapshotForMessage, Recorded, OneOpen
    <3> QED
      BY <1>1, <1>3, <1>5, <2>2, <3>1, PendingType DEF SnapshotForMessage, TypeOK
  <2> QED
    BY <2>1, <2>2
<1>6. ASSUME NEW m \in 1..Messages, NEW mode \in Modes, Rewind(m, mode)
      PROVE  PendingFiles'
  BY <1>2, <1>3, <1>6 DEF Rewind
<1>7. CASE Crash
  <2>1. /\ pending' = pending /\ UNCHANGED <<rewinds, messages, before, hands, disk>>
        /\ base' = IF pending = 0 \/ rewinds[pending].mode = "conversation" THEN None
                   ELSE messages[rewinds[pending].target]
    BY <1>1, <1>7, Restarted DEF Crash
  <2> QED
    BY <1>1, <2>1, PendingType DEF PendingFiles, Anchored, Between
<1>8. ASSUME NEW f \in Files, Edit(f)
      PROVE  PendingFiles'
  BY <1>1, <1>2, <1>3, <1>8, EditFiles DEF Edit
<1>9. ASSUME NEW f \in Files, Write(f)
      PROVE  PendingFiles'
  <2>1. CASE pending = 0
    BY <1>2, <1>9, <2>1 DEF Write, Turn
  <2>2. CASE pending # 0
    <3>1. op.step = "write" /\ f \in op.todo /\ op.kind \in {"cancel", "overwrite", "undo"}
      BY <1>1, <1>9, <2>2, OperationNow DEF Write, Turn, Operation
    <3>2. CASE f \in hands
      BY <1>1, <1>3, <1>9, <2>2, <3>2, WriteFiles DEF Write, Turn
    <3>3. CASE f \notin hands
      <4>1. op.kind = "cancel" /\ op.goal = rewinds[pending].pre
        BY <1>1, <3>1, <3>3 DEF Operation
      <4>2. disk'[f] = before[f] /\ \A g \in Files \ {f} : disk'[g] = disk[g]
        BY <1>1, <1>9, <2>2, <3>3, <4>1, WriteFiles DEF PendingFiles, Anchored
      <4>3. UNCHANGED <<pending, rewinds, base, messages, before, hands>>
        BY <1>9 DEF Write, Turn
      <4>4. \A h : Between(h) => Between(h)'
        BY <4>2, <4>3 DEF Between
      <4> QED
        BY <1>1, <4>3, <4>4 DEF PendingFiles, Anchored
    <3> QED
      BY <3>2, <3>3
  <2> QED
    BY <2>1, <2>2
<1>10. CASE Mark
  <2>1. CASE op.kind = "rewind"
    BY <1>1, <1>2, <1>10, <2>1 DEF Mark, Operation
  <2>2. CASE op.kind = "cancel"
    <3>1. /\ op.goal = rewinds[pending].pre /\ pending # 0 /\ op.todo = {}
          /\ base' = op.goal /\ UNCHANGED <<pending, rewinds, messages, before, hands, disk>>
      BY <1>1, <1>10, <2>2 DEF Mark, Operation
    <3>2. AsBefore
      BY <1>10, <2>2 DEF Mark, IInv, CancelFiles
    <3>3. \A f \in Files \ hands' : disk'[f] = before'[f]
      BY <3>1, <3>2 DEF AsBefore
    <3> QED
      BY <1>1, <3>1, <3>3 DEF PendingFiles, Anchored, Between
  <2> QED
    BY <1>10, <2>1, <2>2 DEF Mark
<1>11. CASE Record /\ op.kind = "cancel"
  BY <1>2, <1>11 DEF Record
<1>12. CASE Record /\ op.kind # "cancel"
  <2>1. /\ op.kind = "rewind" /\ op.id \in Ids /\ op.step = "record"
        /\ op.goal = messages[op.msg]
    BY <1>1, <1>12, OperationNow DEF Record, Operation
  <2>2. /\ rewinds' = [rewinds EXCEPT ![op.id] = [target |-> op.msg, mode |-> op.mode,
                                                  pre |-> op.pre, status |-> "pending"]]
        /\ pending' = op.id /\ UNCHANGED <<messages, base, disk, before, hands>>
    BY <1>12 DEF Record
  <2>3. rewinds'[op.id] = [target |-> op.msg, mode |-> op.mode,
                           pre |-> op.pre, status |-> "pending"]
    BY <1>1, <2>1, <2>2 DEF TypeOK
  <2>4. /\ Anchored(op.pre)
        /\ base # None /\ op.mode = "conversation" => Between(base)
        /\ op.mode # "conversation" => base = op.goal /\ Between(op.goal)
    BY <2>1 DEF IInv, RewindFiles
  <2> QED
    BY <2>1, <2>2, <2>3, <2>4 DEF PendingFiles, Anchored, Between
<1>13. CASE Restore
  <2>1. hands \subseteq hands'
    BY <1>1, <1>13, RestoreFields
  <2> QED
    BY <1>2, <1>3, <1>13, <2>1 DEF Restore
<1>14. CASE \/ Send \/ SendFails \/ Publish \/ Snapshot \/ Cancel \/ Measure
            \/ OverwriteDirty \/ UndoOverwrite \/ Settle \/ Throw
  BY <1>2, <1>3, <1>14 DEF Send, SendFails, Publish, Snapshot, Cancel, Measure,
                           OverwriteDirty, UndoOverwrite, Settle, Throw
<1>15. ASSUME NEW f \in Files, Leave(f)
       PROVE  PendingFiles'
  BY <1>2, <1>3, <1>15, LeaveFiles DEF Leave, Turn
<1> QED
  BY <1>4, <1>5, <1>6, <1>7, <1>8, <1>9, <1>10, <1>11, <1>12, <1>13, <1>14, <1>15 DEF Next

LEMMA SparedFilesStep == IInv /\ Next => SparedFiles'
<1> SUFFICES ASSUME IInv, Next PROVE SparedFiles'
  OBVIOUS
<1> USE DEF index, memory, bounds, origin, ghosts
<1>1. TypeOK /\ Operation /\ PendingFiles /\ RewindFiles /\ SparedFiles
  BY DEF IInv
<1>2. CASE op'.kind \notin {"rewind", "cancel"} \/ op'.step # "restore" \/ op'.dirty = {}
  BY <1>2 DEF SparedFiles
<1>3. ASSUME op' = op, before' = before, hands \subseteq hands',
             \A f \in Files \ hands' : disk'[f] = disk[f]
      PROVE  SparedFiles'
  <2>1. op.dirty \subseteq Files
    BY <1>1 DEF TypeOK, Operations
  <2> QED
    BY <1>1, <1>3, <2>1 DEF SparedFiles
<1>4. CASE Measure
  <2>1. /\ SameOp /\ op'.dirty = Dirty /\ op.step = "measure"
        /\ UNCHANGED <<before, hands, disk, base>>
    BY <1>1, <1>4, StepFields DEF Measure
  <2>2. op.kind \in {"rewind", "cancel"} /\ base # None => Between(base)
    BY <1>1, <2>1 DEF RewindFiles, PendingFiles, Operation
  <2>3. op.kind \in {"rewind", "cancel"} => \A f \in Dirty \ hands : disk[f] = before[f]
    BY <2>2 DEF Dirty, Between
  <2> QED
    BY <2>1, <2>3 DEF SparedFiles, SameOp
<1>5. CASE Retire \/ Snapshot
  BY <1>1, <1>2, <1>5, StepFields DEF Retire, Snapshot, Operation
<1>6. CASE Restore \/ Mark
  BY <1>1, <1>2, <1>6, StepFields
<1>7. ASSUME NEW f \in Files, Write(f) \/ Leave(f)
      PROVE  SparedFiles'
  BY <1>1, <1>2, <1>7, StepFields DEF Write, Leave, Turn
<1>8. CASE Record \/ Settle \/ Throw \/ Crash
  BY <1>2, <1>8, IdleType DEF Record, Settle, Throw, Crash, Ends
<1>9. ASSUME NEW m \in 1..Messages, NEW mode \in Modes, Rewind(m, mode)
      PROVE  SparedFiles'
  BY <1>2, <1>9, RewindFields
<1>10. CASE Cancel \/ OverwriteDirty \/ UndoOverwrite
  BY <1>2, <1>10, CancelFields, OverwriteFields, UndoFields
<1>11. ASSUME NEW f \in Files, Edit(f)
       PROVE  SparedFiles'
  BY <1>1, <1>3, <1>11, EditFiles DEF Edit
<1>12. CASE Send \/ FinalizePending \/ SnapshotForMessage \/ SendFails \/ Publish
  BY <1>3, <1>12 DEF Send, FinalizePending, SnapshotForMessage, SendFails, Publish
<1> QED
  BY <1>4, <1>5, <1>6, <1>7, <1>8, <1>9, <1>10, <1>11, <1>12 DEF Next

LEMMA RewindFilesStep == IInv /\ Next => RewindFiles'
<1> SUFFICES ASSUME IInv, Next PROVE RewindFiles'
  OBVIOUS
<1> USE DEF index, memory, bounds, origin, ghosts
<1>1. TypeOK /\ Operation /\ PendingRecorded /\ PendingFiles /\ RewindFiles /\ SparedFiles
  BY DEF IInv
<1>2. CASE op'.kind # "rewind"
  BY <1>2 DEF RewindFiles
\* the operation goes on, and nobody but it touches the files
<1>3. ASSUME op' = op, base' = base, before' = before, hands \subseteq hands',
             \A f \in Files \ hands' : disk'[f] = disk[f]
      PROVE  RewindFiles'
  BY <1>1, <1>3 DEF RewindFiles, Anchored, Between, AsBefore
<1>4. ASSUME NEW m \in 1..Messages, NEW mode \in Modes, Rewind(m, mode)
      PROVE  RewindFiles'
  <2>1. CASE pending = 0
    <3>1. before' = disk /\ disk' = disk /\ hands' = {}
      BY <1>4, <2>1 DEF Rewind
    <3> QED
      BY <1>4, <2>1, <3>1, RewindFields DEF RewindFiles, AsBefore, Between
  <2>2. CASE pending # 0
    <3>1. /\ UNCHANGED <<before, hands, disk, base>> /\ op'.pre = rewinds[pending].pre
          /\ op'.step = "retire" /\ op'.old # 0
      BY <1>4, <2>2, RewindFields DEF Rewind
    <3> QED
      BY <1>1, <2>2, <3>1 DEF RewindFiles, PendingFiles, Anchored, Between
  <2> QED
    BY <2>1, <2>2
<1>5. CASE Retire
  <2>1. /\ SameOp /\ op'.step = Prepared /\ op'.pre = op.pre /\ op'.todo = op.todo
        /\ op.kind = "rewind" /\ op.old # 0
    BY <1>1, <1>5, StepFields, OperationNow DEF Retire, Operation
  <2>2. op.step = "retire" /\ UNCHANGED <<before, hands, disk, base>>
    BY <1>5 DEF Retire
  <2> QED
    BY <1>1, <2>1, <2>2 DEF RewindFiles, Anchored, Between, SameOp, Prepared
<1>6. CASE Snapshot
  <2>1. CASE op.kind = "rewind"
    <3>1. SameOp /\ op'.step = Prepared /\ op'.pre = disk /\ op'.todo = op.todo
      BY <1>1, <1>6, StepFields
    <3>2. /\ op.step = "snapshot" /\ op.old = 0 /\ op.todo = {}
          /\ UNCHANGED <<before, hands, disk, base>>
      BY <1>1, <1>6, <2>1 DEF Snapshot, Operation
    <3>3. \A f \in Files \ hands : disk[f] = before[f]
      BY <1>1, <2>1, <3>2 DEF RewindFiles, AsBefore
    <3> QED
      BY <3>1, <3>2, <3>3 DEF RewindFiles, Anchored, Between, AsBefore, SameOp, Prepared
  <2>2. CASE op.kind # "rewind"
    BY <1>1, <1>2, <1>6, <2>2, StepFields DEF SameOp
  <2> QED
    BY <2>1, <2>2
<1>7. CASE Restore
  <2>1. CASE op.kind = "rewind"
    <3>1. SameOp /\ op'.step = "write" /\ op'.pre = op.pre
      BY <1>1, <1>7, StepFields
    <3>2. /\ op.step = "restore" /\ op.mode # "conversation"
          /\ UNCHANGED <<before, disk, base>>
      BY <1>1, <1>7, <2>1 DEF Restore, Operation
    <3>3. Anchored(op.pre) /\ \A f \in op.dirty \ hands : disk[f] = before[f]
      BY <1>1, <2>1, <3>2 DEF RewindFiles, SparedFiles
    <3>4. Considered = Files \ op.dirty
      BY <2>1 DEF Considered
    <3>5. hands \subseteq hands' /\ \A f \in Files \ (hands' \cup op'.todo) :
                                      f \notin Differ(op.goal, Considered)
      BY <1>1, <1>7, RestoreFields
    <3>6. ASSUME NEW f \in Files \ (hands' \cup op'.todo)
          PROVE  disk[f] \in {before[f], op.goal[f]}
      <4>1. CASE f \in op.dirty
        BY <3>3, <3>5, <4>1
      <4>2. CASE f \notin op.dirty
        BY <3>4, <3>5, <4>2 DEF Differ
      <4> QED
        BY <4>1, <4>2
    <3> QED
      BY <3>1, <3>2, <3>3, <3>5, <3>6 DEF RewindFiles, Anchored, SameOp
  <2>2. CASE op.kind # "rewind"
    BY <1>1, <1>2, <1>7, <2>2, StepFields DEF SameOp
  <2> QED
    BY <2>1, <2>2
<1>8. ASSUME NEW f \in Files, Write(f) \/ Leave(f)
      PROVE  RewindFiles'
  <2>1. /\ SameOp /\ op'.step = op.step /\ op'.pre = op.pre /\ op'.todo = op.todo \ {f}
        /\ op.step = "write" /\ base' = base /\ f \in op.todo
    BY <1>1, <1>8, StepFields DEF Write, Leave, Turn
  <2>2. /\ hands \subseteq hands' /\ before' = before
        /\ disk'[f] = op.goal[f] \/ f \in hands'
        /\ \A g \in Files \ {f} : disk'[g] = disk[g]
    BY <1>1, <1>8, WriteFiles, LeaveFiles
  <2>3. op.kind = "rewind" => op.mode # "conversation"
    BY <1>1, <2>1 DEF Operation
  <2> QED
    BY <1>1, <2>1, <2>2, <2>3 DEF RewindFiles, Anchored, SameOp
<1>9. CASE Mark
  <2>1. CASE op.kind = "rewind"
    <3>1. SameOp /\ op'.step = "record" /\ op'.pre = op.pre /\ op'.todo = op.todo
      BY <1>1, <1>9, StepFields
    <3>2. /\ op.step = "write" /\ op.todo = {} /\ UNCHANGED <<before, hands, disk>>
          /\ base' = IF op.mode = "conversation" THEN base ELSE op.goal
      BY <1>9, <2>1 DEF Mark
    <3> QED
      BY <1>1, <2>1, <3>1, <3>2 DEF RewindFiles, Anchored, Between, SameOp
  <2>2. CASE op.kind # "rewind"
    BY <1>1, <1>2, <1>9, <2>2, StepFields DEF SameOp
  <2> QED
    BY <2>1, <2>2
<1>10. CASE Record \/ Settle \/ Throw \/ Crash
  BY <1>2, <1>10, IdleType DEF Record, Settle, Throw, Crash, Ends
<1>16. CASE Measure
  <2>1. /\ SameOp /\ op'.step = "restore" /\ op'.pre = op.pre /\ op'.todo = op.todo
        /\ op.step = "measure" /\ UNCHANGED <<before, hands, disk, base>>
    BY <1>1, <1>16, StepFields DEF Measure
  <2>2. op.kind = "rewind" => op.old # 0
    BY <1>1, <2>1 DEF Operation
  <2> QED
    BY <1>1, <2>1, <2>2 DEF RewindFiles, Anchored, Between, SameOp
<1>11. CASE Cancel
  BY <1>2, <1>11, CancelFields
<1>12. CASE OverwriteDirty
  BY <1>2, <1>12, OverwriteFields
<1>13. CASE UndoOverwrite
  BY <1>2, <1>13, UndoFields
<1>14. ASSUME NEW f \in Files, Edit(f)
       PROVE  RewindFiles'
  BY <1>1, <1>3, <1>14, EditFiles DEF Edit
<1>15. CASE Send \/ FinalizePending \/ SnapshotForMessage \/ SendFails \/ Publish
  BY <1>3, <1>15 DEF Send, FinalizePending, SnapshotForMessage, SendFails, Publish
<1> QED
  BY <1>4, <1>5, <1>6, <1>7, <1>8, <1>9, <1>10, <1>11, <1>12, <1>13, <1>14, <1>15, <1>16
     DEF Next

LEMMA CancelFilesStep == IInv /\ Next => CancelFiles'
<1> SUFFICES ASSUME IInv, Next PROVE CancelFiles'
  OBVIOUS
<1> USE DEF index, memory, bounds, origin, ghosts
<1>1. TypeOK /\ Operation /\ PendingFiles /\ CancelFiles /\ SparedFiles
  BY DEF IInv
<1>2. CASE op'.kind # "cancel" \/ op'.step \notin {"write", "record"}
  BY <1>2 DEF CancelFiles
<1>3. ASSUME op' = op, before' = before, hands \subseteq hands',
             \A f \in Files \ hands' : disk'[f] = disk[f]
      PROVE  CancelFiles'
  BY <1>1, <1>3 DEF CancelFiles, AsBefore
<1>4. CASE Retire \/ Snapshot \/ Measure
  BY <1>1, <1>2, <1>4, StepFields DEF Prepared, Retire, Snapshot, SameOp, Operation
<1>5. CASE Restore
  <2>1. CASE op.kind = "cancel"
    <3>1. SameOp /\ op.step = "restore" /\ UNCHANGED <<before, disk, base>>
      BY <1>1, <1>5, StepFields DEF Restore
    <3>2. /\ op.goal = rewinds[pending].pre /\ Anchored(op.goal)
          /\ \A f \in op.dirty \ hands : disk[f] = before[f]
      BY <1>1, <2>1, <3>1 DEF Operation, PendingFiles, SparedFiles
    <3>3. Considered = Files \ op.dirty
      BY <2>1 DEF Considered
    <3>4. hands \subseteq hands' /\ \A f \in Files \ (hands' \cup op'.todo) :
                                      f \notin Differ(op.goal, Considered)
      BY <1>1, <1>5, RestoreFields
    <3>5. ASSUME NEW f \in Files \ (hands' \cup op'.todo)
          PROVE  disk[f] = before[f]
      <4>1. CASE f \in op.dirty
        BY <3>2, <3>4, <4>1
      <4>2. CASE f \notin op.dirty
        BY <3>2, <3>3, <3>4, <4>2 DEF Differ, Anchored
      <4> QED
        BY <4>1, <4>2
    <3> QED
      BY <3>1, <3>5 DEF CancelFiles, AsBefore
  <2>2. CASE op.kind # "cancel"
    BY <1>1, <1>2, <1>5, <2>2, StepFields DEF SameOp
  <2> QED
    BY <2>1, <2>2
<1>6. ASSUME NEW f \in Files, Write(f) \/ Leave(f)
      PROVE  CancelFiles'
  <2>1. /\ SameOp /\ op'.step = op.step /\ op'.todo = op.todo \ {f} /\ op.step = "write"
    BY <1>1, <1>6, StepFields DEF Write, Leave, Turn
  <2>2. /\ hands \subseteq hands' /\ before' = before
        /\ disk'[f] = op.goal[f] \/ f \in hands'
        /\ \A g \in Files \ {f} : disk'[g] = disk[g]
    BY <1>1, <1>6, WriteFiles, LeaveFiles
  <2>3. op.kind = "cancel" => Anchored(op.goal)
    BY <1>1 DEF Operation, PendingFiles
  <2> QED
    BY <1>1, <2>1, <2>2, <2>3 DEF CancelFiles, AsBefore, Anchored, SameOp
<1>7. CASE Mark
  <2>1. SameOp /\ op'.todo = op.todo /\ op.step = "write" /\ UNCHANGED <<before, hands, disk>>
    BY <1>1, <1>7, StepFields DEF Mark
  <2> QED
    BY <1>1, <2>1 DEF CancelFiles, AsBefore, SameOp
<1>8. CASE Record \/ Settle \/ Throw \/ Crash
  BY <1>2, <1>8, IdleType DEF Record, Settle, Throw, Crash, Ends
<1>9. ASSUME NEW m \in 1..Messages, NEW mode \in Modes, Rewind(m, mode)
      PROVE  CancelFiles'
  BY <1>2, <1>9, RewindFields
<1>10. CASE Cancel
  BY <1>2, <1>10, CancelFields
<1>11. CASE OverwriteDirty \/ UndoOverwrite
  BY <1>2, <1>11, OverwriteFields, UndoFields
<1>12. ASSUME NEW f \in Files, Edit(f)
       PROVE  CancelFiles'
  BY <1>1, <1>3, <1>12, EditFiles DEF Edit
<1>13. CASE Send \/ FinalizePending \/ SnapshotForMessage \/ SendFails \/ Publish
  BY <1>3, <1>13 DEF Send, FinalizePending, SnapshotForMessage, SendFails, Publish
<1> QED
  BY <1>4, <1>5, <1>6, <1>7, <1>8, <1>9, <1>10, <1>11, <1>12, <1>13 DEF Next

LEMMA RewindWritesStep == IInv /\ Next => RewindWrites'
<1> SUFFICES ASSUME IInv, Next PROVE RewindWrites'
  OBVIOUS
<1> USE DEF index, memory, bounds, origin, ghosts
<1>1. TypeOK /\ Operation /\ RewindWrites /\ op.whole \in BOOLEAN
  BY OperationNow DEF IInv
<1>2. CASE op'.kind # "rewind" \/ op'.step \notin {"restore", "write", "record"}
  BY <1>2 DEF RewindWrites
<1>3. ASSUME op' = op, meddled \subseteq meddled', stuck \subseteq stuck',
             \A f \in Files \ meddled' : disk'[f] = disk[f]
      PROVE  RewindWrites'
  BY <1>1, <1>3 DEF RewindWrites
<1>4. CASE Retire \/ Measure
  <2>1. /\ SameOp /\ (op.kind = "rewind" => op.old # 0)
        /\ op'.step = Prepared \/ op'.step = "restore"
    BY <1>1, <1>4, StepFields DEF Retire, Measure, Operation
  <2>2. op'.old = op.old /\ op'.kind = op.kind /\ op'.mode = op.mode
    BY <2>1 DEF SameOp
  <2>3. CASE op.kind = "rewind" /\ op.mode # "conversation"
    <3>1. op.old # 0
      BY <2>1, <2>3
    <3>2. op'.step \in {"measure", "restore"}
      BY <2>1, <2>3, <3>1 DEF Prepared
    <3> QED
      BY <2>2, <3>1, <3>2 DEF RewindWrites
  <2> QED
    BY <2>2, <2>3 DEF RewindWrites
<1>5. CASE Snapshot
  <2>1. SameOp /\ op'.step = Prepared /\ op'.pre = disk /\ disk' = disk
    BY <1>1, <1>5, StepFields DEF Snapshot
  <2> QED
    BY <2>1 DEF RewindWrites, SameOp, Prepared
<1>6. CASE Restore
  <2>1. /\ SameOp /\ op'.step = "write" /\ op'.pre = op.pre /\ op'.dirty = op.dirty
        /\ \/ op'.whole = TRUE /\ op'.todo = Differ(op.goal, Considered)
           \/ op'.whole = FALSE /\ op'.todo = {}
    BY <1>1, <1>6, StepFields, RestoreFields
  <2>2. op.step = "restore" /\ UNCHANGED <<meddled, stuck, disk>>
    BY <1>6 DEF Restore
  <2>3. op.kind = "rewind" => Considered = Files \ op.dirty
    BY DEF Considered
  <2>4. CASE op.kind = "rewind" /\ op'.whole
    BY <2>1, <2>2, <2>3, <2>4 DEF RewindWrites, SameOp, Differ
  <2>5. CASE op.kind = "rewind" /\ ~ op'.whole
    BY <1>1, <2>1, <2>2, <2>5 DEF RewindWrites, SameOp
  <2>6. CASE op.kind # "rewind"
    BY <1>2, <2>1, <2>6 DEF SameOp
  <2> QED
    BY <2>4, <2>5, <2>6
<1>7. ASSUME NEW f \in Files, Write(f) \/ Leave(f)
      PROVE  RewindWrites'
  <2>1. /\ SameOp /\ op'.step = op.step /\ op'.pre = op.pre /\ op'.todo = op.todo \ {f}
        /\ op'.dirty = op.dirty /\ op'.whole = op.whole
        /\ op.step = "write" /\ f \in op.todo
    BY <1>1, <1>7, StepFields DEF Write, Leave, Turn
  <2>2. /\ meddled' = meddled /\ stuck \subseteq stuck'
        /\ disk'[f] = op.goal[f] \/ f \in stuck'
        /\ \A g \in Files \ {f} : disk'[g] = disk[g]
    BY <1>1, <1>7, WriteFiles, LeaveFiles
  <2>3. CASE op.whole
    BY <1>1, <2>1, <2>2, <2>3 DEF RewindWrites, SameOp
  <2>4. CASE ~ op.whole
    BY <1>1, <2>1, <2>4 DEF RewindWrites, SameOp
  <2> QED
    BY <2>3, <2>4
<1>8. CASE Mark
  <2>1. /\ SameOp /\ op'.step = "record" /\ op'.pre = op.pre /\ op'.todo = op.todo
        /\ op'.dirty = op.dirty /\ op'.whole = op.whole
    BY <1>1, <1>8, StepFields
  <2>2. op.step = "write" /\ UNCHANGED <<meddled, stuck, disk>>
    BY <1>8 DEF Mark
  <2> QED
    BY <1>1, <2>1, <2>2 DEF RewindWrites, SameOp
<1>9. CASE Record \/ Settle \/ Throw \/ Crash
  BY <1>2, <1>9, IdleType DEF Record, Settle, Throw, Crash, Ends
<1>10. ASSUME NEW m \in 1..Messages, NEW mode \in Modes, Rewind(m, mode)
       PROVE  RewindWrites'
  BY <1>2, <1>10, RewindFields
<1>11. CASE Cancel \/ OverwriteDirty \/ UndoOverwrite
  BY <1>2, <1>11, CancelFields, OverwriteFields, UndoFields
<1>12. ASSUME NEW f \in Files, Edit(f)
       PROVE  RewindWrites'
  <2>1. CASE op.kind = "rewind"
    BY <1>1, <1>3, <1>12, <2>1, EditFiles DEF Edit, Free
  <2>2. CASE op.kind # "rewind"
    BY <1>2, <1>12, <2>2 DEF Edit
  <2> QED
    BY <2>1, <2>2
<1>13. CASE Send \/ FinalizePending \/ SnapshotForMessage \/ SendFails \/ Publish
  BY <1>3, <1>13 DEF Send, FinalizePending, SnapshotForMessage, SendFails, Publish
<1> QED
  BY <1>4, <1>5, <1>6, <1>7, <1>8, <1>9, <1>10, <1>11, <1>12, <1>13 DEF Next

LEMMA EditsSparedStep == IInv /\ Next => EditsSpared'
<1> SUFFICES ASSUME IInv, Next PROVE EditsSpared'
  OBVIOUS
<1> USE DEF index, memory, bounds, origin, ghosts
<1>1. TypeOK /\ Operation /\ OneOpen /\ PendingRecorded /\ PendingFiles /\ EditsSpared
  BY DEF IInv
<1> DEFINE r == rewinds[op.old]
<1>2. CASE op'.old = 0 \/ op'.step \notin {"retire", "measure", "restore", "write"}
  BY <1>2 DEF EditsSpared
<1>3. op.old # 0 => op.old \in Ids /\ r \in RewindRecords /\ op.kind # "none"
  <2>1. op.old # 0 => op.old \in Ids /\ op.kind \in {"rewind", "cancel"}
    BY <1>1, OperationNow, Numbers DEF Ids
  <2>2. op.old # 0 => r # None
    BY <1>1, <2>1 DEF Operation, PendingRecorded
  <2> QED
    BY <1>1, <2>1, <2>2 DEF TypeOK
\* the operation is where it was, or some files have had their turn
<1>4. ASSUME op'.old = op.old, op'.step = op.step, op'.dirty = op.dirty,
             op'.todo \subseteq op.todo, base' = base,
             rewinds' = rewinds, messages' = messages, meddled \subseteq meddled',
             \A f \in Files \ meddled' : disk'[f] = disk[f] \/ f \notin op'.todo,
             \A f \in Files \ meddled' : disk'[f] = disk[f] \/ op.step # "restore"
      PROVE  EditsSpared'
  <2>1. op.todo \subseteq Files
    BY <1>1, OperationNow
  <2> QED
    BY <1>1, <1>4, <2>1 DEF EditsSpared, Put
<1>5. ASSUME op'.old = pending, pending # 0, op'.step \in {"retire", "measure"},
             UNCHANGED <<rewinds, messages, base>>
      PROVE  EditsSpared'
  BY <1>1, <1>5 DEF EditsSpared, PendingFiles
<1>6. ASSUME NEW m \in 1..Messages, NEW mode \in Modes, Rewind(m, mode)
      PROVE  EditsSpared'
  BY <1>2, <1>5, <1>6, RewindFields DEF Rewind
<1>7. CASE Cancel
  BY <1>5, <1>7, CancelFields DEF Cancel
<1>8. CASE OverwriteDirty \/ UndoOverwrite
  BY <1>2, <1>8, OverwriteFields, UndoFields
<1>9. CASE Retire
  <2>1. /\ SameOp /\ op'.step = Prepared /\ op'.todo = op.todo /\ op.step = "retire"
        /\ op.kind = "rewind" /\ op.old = pending /\ pending # 0 /\ op.todo = {}
    BY <1>1, <1>9, StepFields, OperationNow DEF Retire, Operation
  <2>2. /\ UNCHANGED <<messages, base>>
        /\ rewinds'[op.old] = [r EXCEPT !.status = "cancelled"]
    BY <1>1, <1>9, <2>1, PendingType, ClosesType DEF Retire
  <2>3. /\ rewinds'[op.old].mode = r.mode /\ rewinds'[op.old].target = r.target
        /\ rewinds'[op.old].pre = r.pre
    BY <1>3, <2>1, <2>2 DEF RewindRecords
  <2>4. op'.step \in {"write", "measure"}
    BY <2>1 DEF Prepared
  <2> QED
    BY <1>1, <2>1, <2>2, <2>3, <2>4 DEF EditsSpared, SameOp
<1>10. CASE Snapshot
  <2>1. op'.old = op.old /\ op.step = "snapshot" /\ op.kind # "none"
    BY <1>1, <1>10, StepFields, OperationNow DEF Snapshot, SameOp
  <2>2. op.old = 0
    BY <1>1, <2>1, OperationNow DEF Operation
  <2> QED
    BY <1>2, <2>1, <2>2
<1>11. CASE Measure
  <2>1. /\ SameOp /\ op'.step = "restore" /\ op'.dirty = Dirty /\ op.step = "measure"
        /\ UNCHANGED <<disk, rewinds, messages>> /\ meddled' = {}
    BY <1>1, <1>11, StepFields DEF Measure
  <2>2. ASSUME op.old # 0, r.mode # "conversation"
        PROVE  base # None /\ base \in {messages[r.target], r.pre}
    <3>1. base \in {messages[r.target], r.pre}
      BY <1>1, <2>1, <2>2 DEF EditsSpared
    <3>2. messages[r.target] # None /\ r.pre \in Manifests
      BY <1>1, <1>3, <2>2, NoneAssumption DEF OneOpen, RewindRecords
    <3> QED
      BY <3>1, <3>2, NoneAssumption
  <2>3. ASSUME op.old # 0, r.mode # "conversation", NEW f \in Files \ Dirty
        PROVE  Put(r, f)
    <3>1. disk[f] = 0 \/ disk[f] = base[f]
      BY <2>2, <2>3 DEF Dirty
    <3> QED
      BY <2>2, <2>3, <3>1 DEF Put
  <2> QED
    BY <2>1, <2>3 DEF EditsSpared, SameOp, Put
<1>12. CASE Restore
  <2>1. /\ SameOp /\ op'.step = "write" /\ op.step = "restore"
        /\ UNCHANGED <<disk, rewinds, messages, meddled>>
    BY <1>1, <1>12, StepFields DEF Restore
  <2>2. op.old # 0 => op'.todo \subseteq Files \ op.dirty
    <3>1. op.old # 0 => Considered = Files \ op.dirty
      BY <1>1, OperationNow DEF Considered
    <3> QED
      BY <1>1, <1>12, <3>1, RestoreFields DEF Differ
  <2> QED
    BY <1>1, <2>1, <2>2 DEF EditsSpared, SameOp, Put
<1>13. ASSUME NEW f \in Files, Write(f) \/ Leave(f)
       PROVE  EditsSpared'
  <2>1. /\ SameOp /\ op'.step = op.step /\ op'.todo = op.todo \ {f} /\ op'.dirty = op.dirty
        /\ op.step = "write" /\ UNCHANGED <<rewinds, messages, base>>
    BY <1>1, <1>13, StepFields DEF Write, Leave, Turn
  <2>2. meddled' = meddled /\ \A g \in Files \ {f} : disk'[g] = disk[g]
    BY <1>1, <1>13, WriteFiles, LeaveFiles
  <2> QED
    BY <1>4, <2>1, <2>2 DEF SameOp
<1>14. CASE Mark
  BY <1>1, <1>2, <1>14, StepFields
<1>15. CASE Record \/ Settle \/ Throw \/ Crash
  BY <1>2, <1>15, IdleType DEF Record, Settle, Throw, Crash, Ends, Idle
<1>16. ASSUME NEW f \in Files, Edit(f)
       PROVE  EditsSpared'
  <2>1. op' = op /\ rewinds' = rewinds /\ messages' = messages /\ base' = base
    BY <1>16 DEF Edit
  <2>2. CASE op.kind = "none"
    BY <1>2, <1>3, <2>1, <2>2
  <2>3. CASE op.kind # "none"
    BY <1>1, <1>4, <1>16, <2>1, <2>3, EditFiles DEF Free
  <2> QED
    BY <2>2, <2>3
<1>17. CASE Send \/ Publish
  BY <1>4, <1>17 DEF Send, Publish
<1>18. CASE FinalizePending \/ SnapshotForMessage \/ SendFails
  <2>1. op.kind = "none" /\ op' = op
    BY <1>18 DEF FinalizePending, SnapshotForMessage, SendFails, Free
  <2> QED
    BY <1>2, <1>3, <2>1
<1> QED
  BY <1>6, <1>7, <1>8, <1>9, <1>10, <1>11, <1>12, <1>13, <1>14, <1>15, <1>16, <1>17, <1>18
     DEF Next

-----------------------------------------------------------------------------
(* The ledger                                                              *)

LEMMA LedgerType ==
  ASSUME TypeOK
  PROVE  /\ Len(ledger) \in Nat /\ DOMAIN ledger = 1..Len(ledger)
         /\ \A i \in 1..Len(ledger) :
              /\ ledger[i] \in Entries /\ ledger[i].type \in {"input", "cancel", "boundary"}
              /\ ledger[i].type # "input" => ledger[i].of \in Ids
              /\ ledger[i].type = "boundary" => ledger[i].target \in 1..Messages
<1>1. ledger \in Seq(Entries)
  BY DEF TypeOK
<1>2. \A e \in Entries :
        /\ e.type \in {"input", "cancel", "boundary"} /\ (e.type # "input" => e.of \in Ids)
        /\ e.type = "boundary" => e.target \in 1..Messages
  BY DEF Entries
<1> QED
  BY <1>1, <1>2

LEMMA Grown ==
  ASSUME TypeOK, NEW e \in Entries, ledger' = Append(ledger, e)
  PROVE  /\ Len(ledger') = Len(ledger) + 1 /\ ledger'[Len(ledger) + 1] = e
         /\ \A i \in 1..Len(ledger) : ledger'[i] = ledger[i]
  BY DEF TypeOK

\* One more entry: the earlier boundaries hide what they hid.
LEMMA GrownHidden ==
  ASSUME TypeOK, NEW e \in Entries, ledger' = Append(ledger, e), stamp' = stamp
  PROVE  \A b \in 1..Len(ledger) : Hidden(b)' = Hidden(b)
<1>1. /\ Len(ledger') = Len(ledger) + 1 /\ ledger'[Len(ledger) + 1] = e
      /\ \A i \in 1..Len(ledger) : ledger'[i] = ledger[i]
  BY Grown
<1>2. ASSUME NEW b \in 1..Len(ledger)
      PROVE  Hidden(b)' = Hidden(b)
  <2> DEFINE from == {i \in 1..b : ledger[i].type = "input" /\ ledger[i].of = ledger[b].target}
  <2>1. \A i \in 1..b : ledger'[i] = ledger[i]
    BY <1>1, <1>2, LedgerType
  <2>2. ledger'[b] = ledger[b]
    BY <1>1
  <2>3. from' = from
    BY <2>1, <2>2
  <2> HIDE DEF from
  <2>4. Hidden(b) = (IF from = {} THEN stamp[ledger[b].target] + 1 ELSE Max(from))..b
    BY DEF Hidden, from
  <2>5. Hidden(b)' = (IF from' = {} THEN stamp'[ledger'[b].target] + 1 ELSE Max(from'))..b
    BY DEF Hidden, from
  <2> QED
    BY <2>2, <2>3, <2>4, <2>5
<1> QED
  BY <1>2

LEMMA GrownActive ==
  ASSUME TypeOK, NEW e \in Entries, ledger' = Append(ledger, e)
  PROVE  /\ Active' \subseteq Active \cup {Len(ledger) + 1}
         /\ e.type # "boundary" => Active' \subseteq Active
         /\ e.type = "cancel" => \A b \in Active' : ledger'[b].of # e.of
<1>1. /\ Len(ledger') = Len(ledger) + 1 /\ ledger'[Len(ledger) + 1] = e
      /\ \A i \in 1..Len(ledger) : ledger'[i] = ledger[i] /\ Len(ledger) \in Nat
  BY Grown, LedgerType
<1>2. Cancelled \subseteq Cancelled'
  BY <1>1 DEF Cancelled
<1>3. e.type = "cancel" => e.of \in Cancelled'
  BY <1>1 DEF Cancelled
<1>4. ASSUME NEW i \in Active'
      PROVE  /\ i \in Active \/ i = Len(ledger) + 1
             /\ i \notin Active => ledger'[i].type = "boundary" /\ i = Len(ledger) + 1
             /\ ledger'[i].of \notin Cancelled'
  <2>1. /\ i \in 1..(Len(ledger) + 1) /\ ledger'[i].type = "boundary"
        /\ ledger'[i].of \notin Cancelled'
    BY <1>1 DEF Active
  <2>2. CASE i \in 1..Len(ledger)
    BY <1>1, <1>2, <2>1, <2>2 DEF Active
  <2>3. CASE i = Len(ledger) + 1
    BY <2>1, <2>3
  <2> QED
    BY <1>1, <2>1, <2>2, <2>3
<1> QED
  BY <1>1, <1>3, <1>4

LEMMA ActiveMarks == TypeOK => Active \subseteq Boundaries /\ Boundaries \subseteq Told
  BY LedgerType DEF Active, Boundaries, Told

LEMMA LedgerIdsStep == IInv /\ Next => LedgerIds'
<1> SUFFICES ASSUME IInv, Next PROVE LedgerIds'
  OBVIOUS
<1> USE DEF index, memory, bounds, origin, ghosts
<1>1. /\ TypeOK /\ Operation /\ PendingRecorded /\ LedgerIds /\ TypeOK'
      /\ begun \in Nat /\ pending \in Nat
  <2>1. TypeOK /\ Operation /\ PendingRecorded /\ LedgerIds /\ TypeOK'
    BY NextType DEF IInv
  <2>2. begun \in 0..Rewinds /\ pending \in 0..Rewinds
    BY <2>1 DEF TypeOK
  <2> QED
    BY <2>1, <2>2, Numbers
<1>2. \A i \in Boundaries : ledger[i].of # 0
  BY <1>1, ActiveMarks, LedgerType, Numbers DEF Boundaries, Ids
<1>3. CASE UNCHANGED <<ledger, op, pending, rewinds, begun>>
  BY <1>1, <1>3 DEF LedgerIds, Told, Boundaries
<1>4. CASE UNCHANGED <<ledger, pending, rewinds, begun>> /\ op'.kind # "rewind"
  BY <1>1, <1>4 DEF LedgerIds, Told, Boundaries
<1>5. CASE /\ UNCHANGED <<ledger, pending, rewinds, begun>>
           /\ SameOp /\ (op'.step # "record" => op.step # "record")
  BY <1>1, <1>5 DEF LedgerIds, Told, Boundaries, SameOp
<1>6. CASE UNCHANGED <<ledger, begun>> /\ SameOp /\ op.step # "record" /\ pending' = 0
  BY <1>1, <1>2, <1>6 DEF LedgerIds, Told, Boundaries, SameOp
<1>7. CASE UNCHANGED <<ledger, begun>> /\ op'.kind # "rewind" /\ pending' = 0
  BY <1>1, <1>2, <1>7 DEF LedgerIds, Told, Boundaries
\* what a new entry must be
<1>8. ASSUME NEW e \in Entries, ledger' = Append(ledger, e),
             \A i \in 1..Len(ledger) : ledger'[i] = ledger[i] =>
               /\ i \in Told => /\ ledger[i].of <= begun'
                                /\ op'.kind = "rewind" /\ op'.step # "record" =>
                                     ledger[i].of # op'.id
               /\ i \in Boundaries =>
                    /\ ledger[i].of = pending' => rewinds'[pending'].mode # "code"
                    /\ op'.kind = "rewind" /\ ledger[i].of = op'.id => op'.mode # "code",
             e.type # "input" => /\ e.of <= begun'
                                 /\ op'.kind = "rewind" /\ op'.step # "record" => e.of # op'.id,
             e.type = "boundary" =>
               /\ e.of = pending' => rewinds'[pending'].mode # "code"
               /\ op'.kind = "rewind" /\ e.of = op'.id => op'.mode # "code"
      PROVE  LedgerIds'
  <2>1. /\ Len(ledger') = Len(ledger) + 1 /\ ledger'[Len(ledger) + 1] = e
        /\ \A i \in 1..Len(ledger) : ledger'[i] = ledger[i]
    BY <1>1, <1>8, Grown
  <2>2. /\ DOMAIN ledger' = 1..(Len(ledger) + 1) /\ DOMAIN ledger = 1..Len(ledger)
        /\ Len(ledger) \in Nat
    BY <1>1, <2>1, LedgerType
  <2>3. \A i \in 1..(Len(ledger) + 1) : i \in 1..Len(ledger) \/ i = Len(ledger) + 1
    BY <2>2
  <2> QED
    BY <1>8, <2>1, <2>2, <2>3 DEF LedgerIds, Told, Boundaries
<1>9. CASE Publish
  <2>1. sending.msg \in 1..Messages
    BY <1>1, <1>9, Numbers DEF Publish, TypeOK, Recorded, IInv
  <2>2. [type |-> "input", of |-> sending.msg] \in Entries
    BY <2>1 DEF Entries
  <2>3. /\ ledger' = Append(ledger, [type |-> "input", of |-> sending.msg])
        /\ UNCHANGED <<op, pending, rewinds, begun>>
    BY <1>9 DEF Publish
  <2> QED
    BY <1>1, <1>8, <2>2, <2>3 DEF LedgerIds
<1>10. ASSUME NEW m \in 1..Messages, NEW mode \in Modes, Rewind(m, mode)
       PROVE  LedgerIds'
  <2>1. /\ op'.id = begun + 1 /\ begun' = begun + 1 /\ UNCHANGED <<pending, rewinds>>
        /\ IF pending = 0 THEN ledger' = ledger ELSE Relieves
    BY <1>10, RewindFields DEF Rewind, TellsNothing
  <2>2. \A i \in Told : ledger[i].of <= begun /\ ledger[i].of \in Nat
    BY <1>1, LedgerType, Numbers DEF LedgerIds, Told, Ids
  <2>3. CASE ledger' = ledger
    BY <1>1, <2>1, <2>2, <2>3, ActiveMarks DEF LedgerIds, Told, Boundaries
  <2>4. CASE ledger' # ledger
    <3>1. pending # 0 /\ ledger' = Append(ledger, [type |-> "cancel", of |-> pending])
      BY <2>1, <2>4 DEF Relieves, Tells, TellsNothing
    <3>2. pending \in Ids /\ pending <= begun
      BY <1>1, <3>1, PendingType DEF PendingRecorded
    <3>3. [type |-> "cancel", of |-> pending] \in Entries
      BY <3>2 DEF Entries
    <3>4. \A i \in Told : ledger[i].of <= begun' /\ ledger[i].of # op'.id
      BY <1>1, <2>1, <2>2
    <3>5. \A i \in Boundaries :
            i \in Told /\ (ledger[i].of = pending => rewinds[pending].mode # "code")
      BY <1>1, ActiveMarks DEF LedgerIds
    <3>6. pending <= begun' /\ pending # op'.id
      BY <1>1, <2>1, <3>2
    <3> QED
      BY <1>8, <2>1, <3>1, <3>3, <3>4, <3>5, <3>6
  <2> QED
    BY <2>3, <2>4
<1>11. CASE Mark
  <2>1. /\ SameOp /\ op'.step = "record" /\ UNCHANGED <<pending, rewinds, begun>>
        /\ op.kind \in {"rewind", "cancel"} /\ op.step = "write"
    BY <1>1, <1>11, StepFields DEF Mark
  <2>2. /\ op.id \in Ids /\ op.id <= begun /\ (op.kind = "rewind" => pending = 0)
        /\ op.kind = "rewind" => op.msg \in 1..Messages
    BY <1>1, <2>1, OperationNow DEF Operation, PendingRecorded
  <2>3. CASE ledger' = ledger
    BY <1>1, <2>1, <2>3 DEF LedgerIds, Told, Boundaries, SameOp
  <2>4. CASE ledger' # ledger
    <3>1. ledger' = Append(ledger, Marker) /\ op.mode # "code"
      BY <1>11, <2>4 DEF Mark, Marks, Tells, TellsNothing
    <3>2. /\ Marker \in Entries /\ Marker.of = op.id
          /\ Marker.type = IF op.kind = "cancel" THEN "cancel" ELSE "boundary"
      BY <2>1, <2>2 DEF Marker, Entries
    <3>3. op.id # 0
      BY <2>2, Numbers DEF Ids
    <3> QED
      BY <1>1, <1>8, <2>1, <2>2, <3>1, <3>2, <3>3 DEF LedgerIds, SameOp
  <2> QED
    BY <2>3, <2>4
<1>12. CASE Record /\ op.kind = "cancel"
  BY <1>7, <1>12, IdleType DEF Record, Ends
<1>13. CASE Record /\ op.kind # "cancel"
  <2>1. op.kind = "rewind" /\ op.id \in Ids
    BY <1>1, <1>13, OperationNow DEF Record
  <2>2. /\ rewinds' = [rewinds EXCEPT ![op.id] = [target |-> op.msg, mode |-> op.mode,
                                                  pre |-> op.pre, status |-> "pending"]]
        /\ pending' = op.id /\ op'.kind = "none" /\ UNCHANGED <<ledger, begun>>
    BY <1>13, IdleType DEF Record, Ends
  <2>3. rewinds'[op.id].mode = op.mode
    BY <1>1, <2>1, <2>2 DEF TypeOK
  <2> QED
    BY <1>1, <2>1, <2>2, <2>3 DEF LedgerIds, Told, Boundaries
<1>14. CASE FinalizePending
  BY <1>1, <1>7, <1>14 DEF FinalizePending, Free
<1>15. CASE Retire
  BY <1>1, <1>6, <1>15, StepFields DEF Retire
<1>16. CASE Snapshot \/ Measure \/ Restore
  BY <1>1, <1>5, <1>16, StepFields DEF Snapshot, Measure, Restore
<1>17. ASSUME NEW f \in Files, Write(f) \/ Leave(f)
       PROVE  LedgerIds'
  <2>1. SameOp /\ op'.step = op.step
    BY <1>1, <1>17, StepFields DEF Write, Leave
  <2> QED
    BY <1>5, <1>17, <2>1 DEF Write, Leave, Turn
<1>18. CASE Cancel \/ OverwriteDirty \/ UndoOverwrite
  BY <1>4, <1>18, CancelFields, OverwriteFields, UndoFields
     DEF Cancel, OverwriteDirty, UndoOverwrite
<1>19. CASE Settle \/ Throw
  BY <1>4, <1>19, IdleType DEF Settle, Throw, Ends
<1>20. CASE Crash
  <2>1. pending' = pending
    BY <1>1, <1>20, Restarted DEF IInv
  <2> QED
    BY <1>4, <1>20, <2>1, IdleType DEF Crash, Ends
<1>21. CASE \/ Send \/ SnapshotForMessage \/ SendFails
            \/ \E f \in Files : Edit(f)
  BY <1>3, <1>21 DEF Send, SnapshotForMessage, SendFails, Edit
<1> QED
  BY <1>9, <1>10, <1>11, <1>12, <1>13, <1>14, <1>15, <1>16, <1>17, <1>18, <1>19, <1>20, <1>21
     DEF Next

LEMMA LedgerTargetsStep == IInv /\ Next => LedgerTargets'
<1> SUFFICES ASSUME IInv, Next PROVE LedgerTargets'
  OBVIOUS
<1> USE DEF index, memory, bounds, origin, ghosts
<1>1. TypeOK /\ Operation /\ Recorded /\ PendingRecorded /\ LedgerTargets
  BY DEF IInv
<1>2. \A i \in Boundaries : messages'[ledger[i].target] # None
  BY <1>1, LedgerType, RecordedStay DEF Boundaries, LedgerTargets
<1>3. CASE ledger' = ledger
  BY <1>2, <1>3 DEF LedgerTargets, Boundaries
<1>4. ASSUME NEW e \in Entries, ledger' = Append(ledger, e),
             e.type = "boundary" => messages'[e.target] # None
      PROVE  LedgerTargets'
  <2>1. /\ Len(ledger') = Len(ledger) + 1 /\ ledger'[Len(ledger) + 1] = e
        /\ \A i \in 1..Len(ledger) : ledger'[i] = ledger[i]
    BY <1>1, <1>4, Grown
  <2>2. /\ DOMAIN ledger' = 1..(Len(ledger) + 1) /\ DOMAIN ledger = 1..Len(ledger)
        /\ Len(ledger) \in Nat
    BY <1>1, <1>4, LedgerType DEF TypeOK
  <2>3. ASSUME NEW i \in Boundaries' PROVE messages'[ledger'[i].target] # None
    <3>1. CASE i \in 1..Len(ledger)
      <4>1. i \in Boundaries
        BY <2>1, <2>2, <2>3, <3>1 DEF Boundaries
      <4> QED
        BY <1>2, <2>1, <3>1, <4>1
    <3>2. CASE i = Len(ledger) + 1
      BY <1>4, <2>1, <2>3, <3>2 DEF Boundaries
    <3> QED
      BY <2>2, <2>3, <3>1, <3>2 DEF Boundaries
  <2> QED
    BY <2>3 DEF LedgerTargets
<1>5. CASE Publish
  <2>1. sending.msg \in 1..Messages
    BY <1>1, <1>5, Numbers DEF Publish, TypeOK, Recorded
  <2>2. [type |-> "input", of |-> sending.msg] \in Entries
    BY <2>1 DEF Entries
  <2> QED
    BY <1>4, <1>5, <2>2 DEF Publish
<1>6. ASSUME NEW m \in 1..Messages, NEW mode \in Modes, Rewind(m, mode), ledger' # ledger
      PROVE  LedgerTargets'
  <2>1. pending # 0 /\ ledger' = Append(ledger, [type |-> "cancel", of |-> pending])
    BY <1>6 DEF Rewind, Relieves, Tells, TellsNothing
  <2>2. [type |-> "cancel", of |-> pending] \in Entries
    BY <1>1, <2>1, PendingType DEF Entries
  <2> QED
    BY <1>4, <2>1, <2>2
<1>7. CASE Mark /\ ledger' # ledger
  <2>1. ledger' = Append(ledger, Marker) /\ messages' = messages
    BY <1>7 DEF Mark, Marks, Tells, TellsNothing
  <2>2. op.id \in Ids /\ (op.kind = "rewind" => op.msg \in 1..Messages)
    BY <1>1, <1>7, OperationNow DEF Mark
  <2>3. Marker \in Entries
    BY <1>7, <2>2 DEF Marker, Mark, Entries
  <2>4. Marker.type = "boundary" => op.kind = "rewind" /\ Marker.target = op.msg
    BY <1>7 DEF Marker, Mark
  <2>5. op.kind = "rewind" => messages[op.msg] # None
    BY <1>1, NoneAssumption DEF Operation
  <2> QED
    BY <1>4, <2>1, <2>3, <2>4, <2>5
<1>8. CASE \/ Send \/ FinalizePending \/ SnapshotForMessage \/ SendFails
           \/ Retire \/ Snapshot \/ Cancel \/ Measure \/ Restore \/ Record
           \/ OverwriteDirty \/ UndoOverwrite \/ Settle
           \/ \E f \in Files : Write(f) \/ Leave(f) \/ Edit(f)
           \/ Throw \/ Crash
  BY <1>3, <1>8 DEF Send, FinalizePending, SnapshotForMessage, SendFails, Retire, Snapshot,
              Cancel, Measure, Restore, Record, OverwriteDirty, UndoOverwrite, Settle, Write,
              Leave, Turn, Edit, Throw, Crash
<1> QED
  BY <1>3, <1>5, <1>6, <1>7, <1>8 DEF Next

\* an entry that is no boundary but of x hides nothing more
LEMMA GrownShown ==
  ASSUME TypeOK, NEW e \in Entries, ledger' = Append(ledger, e), stamp' = stamp,
         shown' = shown, unmarked \subseteq unmarked',
         NEW x, ShownBut(x), e.type = "boundary" => e.of = x
  PROVE  ShownBut(x)'
<1>1. /\ Len(ledger') = Len(ledger) + 1 /\ ledger'[Len(ledger) + 1] = e
      /\ \A i \in 1..Len(ledger) : ledger'[i] = ledger[i]
      /\ \A b \in 1..Len(ledger) : Hidden(b)' = Hidden(b)
  BY Grown, GrownHidden
<1>2. /\ Active' \subseteq Active \cup {Len(ledger) + 1}
      /\ e.type # "boundary" => Active' \subseteq Active
  BY GrownActive
<1>3. shown \subseteq 1..Len(ledger) /\ Active \subseteq 1..Len(ledger) /\ Len(ledger) \in Nat
  BY LedgerType DEF TypeOK, Active
<1>4. ASSUME NEW i \in shown
      PROVE  ledger'[i].type = "input"
  BY <1>1, <1>3, <1>4 DEF ShownBut
<1>5. ASSUME NEW i \in shown, NEW b \in Active', ledger'[b].of \notin unmarked' \cup {x}
      PROVE  i \notin Hidden(b)'
  <2>1. b \in Active
    BY <1>1, <1>2, <1>5
  <2> QED
    BY <1>1, <1>3, <1>5, <2>1 DEF ShownBut
<1> QED
  BY <1>4, <1>5 DEF ShownBut

\* Where the ledger stays, so does what it hides.
LEMMA SameLedger ==
  ASSUME IInv, Next, ledger' = ledger
  PROVE  /\ Active' = Active /\ \A b \in Active : Hidden(b)' = Hidden(b)
         /\ shown' = shown /\ unmarked \subseteq unmarked' =>
              \A x : ShownBut(x) => ShownBut(x)'
<1>1. TypeOK /\ LedgerTargets
  BY DEF IInv
<1>2. Active' = Active
  BY DEF Active, Cancelled
<1>3. ASSUME NEW b \in Active PROVE Hidden(b)' = Hidden(b)
  <2>1. ledger[b].target \in 1..Messages /\ messages[ledger[b].target] # None
    BY <1>1, LedgerType, ActiveMarks DEF LedgerTargets, Active
  <2>2. stamp'[ledger[b].target] = stamp[ledger[b].target]
    BY <2>1, RecordedStay
  <2> QED
    BY <2>2 DEF Hidden
<1> QED
  BY <1>2, <1>3 DEF ShownBut

LEMMA ShownInputsStep == IInv /\ Next => ShownInputs'
<1> SUFFICES ASSUME IInv, Next PROVE ShownInputs'
  OBVIOUS
<1> USE DEF index, memory, bounds, origin, ghosts
<1>1. TypeOK /\ Operation /\ PendingRecorded /\ LedgerIds /\ ShownInputs
  BY DEF IInv
<1>2. ledger' = ledger =>
        /\ Active' = Active /\ \A b \in Active : Hidden(b)' = Hidden(b)
        /\ shown' = shown /\ unmarked \subseteq unmarked' =>
             \A x : ShownBut(x) => ShownBut(x)'
  BY SameLedger
<1>3. CASE /\ UNCHANGED <<ledger, shown, unmarked>> /\ pending' \in {0, pending}
           /\ \/ op'.kind \in {"none", "overwrite", "undo"}
              \/ op'.kind = "cancel" /\ op'.step # "record"
              \/ op'.kind = op.kind /\ op'.id = op.id /\ (op'.step = "record" => op.step = "record")
  BY <1>1, <1>2, <1>3 DEF ShownInputs
<1>4. CASE Publish
  <2> DEFINE e == [type |-> "input", of |-> sending.msg]
  <2>1. sending.msg \in 1..Messages
    BY <1>1, <1>4, Numbers DEF Publish, TypeOK, Recorded, IInv
  <2>2. e \in Entries /\ e.type = "input"
    BY <2>1 DEF Entries
  <2>3. ledger' = Append(ledger, e) /\ UNCHANGED <<stamp, shown, unmarked, pending, op>>
    BY <1>4 DEF Publish
  <2> HIDE DEF e
  <2>4. \A x : ShownBut(x) => ShownBut(x)'
    BY <1>1, <2>2, <2>3, GrownShown
  <2>5. Active' \subseteq Active /\ \A b \in Active : ledger'[b] = ledger[b]
    BY <1>1, <2>2, <2>3, GrownActive, Grown DEF Active
  <2> QED
    BY <1>1, <2>3, <2>4, <2>5 DEF ShownInputs
<1>5. ASSUME NEW m \in 1..Messages, NEW mode \in Modes, Rewind(m, mode)
      PROVE  ShownInputs'
  <2>1. op'.kind = "rewind" /\ op'.id = begun + 1 /\ UNCHANGED <<pending, stamp>>
    BY <1>5, RewindFields DEF Rewind
  <2>2. CASE pending = 0
    <3>1. shown' = Visible /\ ledger' = ledger
      BY <1>5, <2>2 DEF Rewind, TellsNothing
    <3>2. \A i \in Visible : ledger[i].type = "input" /\ \A b \in Active : i \notin Hidden(b)
      BY DEF Visible
    <3>3. \A x : ShownBut(x)'
      BY <1>2, <3>1, <3>2 DEF ShownBut
    <3> QED
      BY <2>1, <2>2, <3>3 DEF ShownInputs
  <2>3. CASE pending # 0
    <3>1. PICK p : p = pending
      OBVIOUS
    <3>2. shown' = shown /\ Relieves /\ p \in Ids /\ ShownBut(p)
      BY <1>1, <1>5, <2>3, <3>1, PendingType DEF Rewind, ShownInputs
    <3>3. ShownBut(p)' /\ (p \in unmarked' \/ \A b \in Active' : ledger'[b].of # p)
      <4>1. CASE rewinds[pending].mode = "code"
        <5>1. UNCHANGED <<ledger, unmarked>>
          BY <3>2, <4>1 DEF Relieves, TellsNothing
        <5>2. \A b \in Active : ledger[b].of # p
          BY <1>1, <3>1, <4>1, ActiveMarks DEF LedgerIds
        <5> QED
          BY <1>2, <3>2, <5>1, <5>2
      <4>2. CASE rewinds[pending].mode # "code"
        <5> DEFINE e == [type |-> "cancel", of |-> p]
        <5>1. Tells(e) /\ e \in Entries /\ e.type = "cancel" /\ e.of = p
          BY <3>1, <3>2, <4>2 DEF Relieves, Entries
        <5> HIDE DEF e
        <5>2. CASE ledger' = Append(ledger, e) /\ unmarked' = unmarked
          <6>1. ShownBut(p)'
            BY <1>1, <2>1, <3>2, <5>1, <5>2, GrownShown
          <6> QED
            BY <1>1, <5>1, <5>2, <6>1, GrownActive
        <5>3. CASE ledger' = ledger /\ unmarked' = unmarked \cup {p}
          BY <1>2, <3>2, <5>3
        <5> QED
          BY <5>1, <5>2, <5>3, TellsCases
      <4> QED
        BY <4>1, <4>2
    <3>4. \A x : ShownBut(x)'
      BY <3>3 DEF ShownBut
    <3> QED
      BY <2>1, <3>4 DEF ShownInputs
  <2> QED
    BY <2>2, <2>3
<1>6. CASE Mark
  <2>1. /\ SameOp /\ op'.step = "record" /\ UNCHANGED <<pending, shown, stamp>>
        /\ op.kind \in {"rewind", "cancel"} /\ op.step = "write" /\ Marks
    BY <1>1, <1>6, StepFields DEF Mark
  <2>2. /\ op.id \in Ids /\ (op.kind = "cancel" => pending = op.id)
        /\ op.kind = "rewind" => pending = 0 /\ op.msg \in 1..Messages
    BY <1>1, <2>1, OperationNow DEF Operation
  <2>3. PICK x : x = op.id
    OBVIOUS
  <2>4. ShownBut(x)
    BY <1>1, <2>1, <2>2, <2>3, OperationNow DEF ShownInputs
  <2>5. /\ ShownBut(x)'
        /\ op.kind = "cancel" => x \in unmarked' \/ \A b \in Active' : ledger'[b].of # x
    <3>1. CASE op.mode = "code"
      <4>1. UNCHANGED <<ledger, unmarked>>
        BY <2>1, <3>1 DEF Marks, TellsNothing
      <4>2. op.kind = "cancel" => \A b \in Active : ledger[b].of # x
        BY <1>1, <2>2, <2>3, <3>1, ActiveMarks DEF LedgerIds, Operation
      <4> QED
        BY <1>2, <2>1, <2>4, <4>1, <4>2
    <3>2. CASE op.mode # "code"
      <4>1. PICK e : e = Marker
        OBVIOUS
      <4>2. Tells(e)
        BY <2>1, <3>2, <4>1 DEF Marks
      <4>3. /\ e \in Entries /\ e.of = x
            /\ e.type = IF op.kind = "cancel" THEN "cancel" ELSE "boundary"
        BY <2>1, <2>2, <2>3, <4>1 DEF Marker, Entries
      <4>4. CASE ledger' = Append(ledger, e) /\ unmarked' = unmarked
        <5>1. ShownBut(x)'
          BY <1>1, <2>1, <2>4, <4>3, <4>4, GrownShown
        <5> QED
          BY <1>1, <4>3, <4>4, <5>1, GrownActive
      <4>5. CASE /\ ledger' = ledger /\ unmarked \subseteq unmarked'
                 /\ e.type = "cancel" => unmarked' = unmarked \cup {x}
        BY <1>2, <2>1, <2>4, <4>3, <4>5
      <4> QED
        BY <4>2, <4>3, <4>4, <4>5, TellsCases
    <3> QED
      BY <3>1, <3>2
  <2> QED
    BY <2>1, <2>2, <2>3, <2>5 DEF ShownInputs, SameOp
<1>7. CASE Record
  <2>1. CASE op.kind = "cancel"
    BY <1>3, <1>7, <2>1, IdleType DEF Record, Ends
  <2>2. CASE op.kind # "cancel"
    <3>1. /\ op.kind = "rewind" /\ pending' = op.id /\ op'.kind = "none"
          /\ UNCHANGED <<ledger, shown, unmarked>>
      BY <1>1, <1>7, <2>2, OperationNow, IdleType DEF Record, Ends
    <3> QED
      BY <1>1, <1>2, <3>1 DEF ShownInputs
  <2> QED
    BY <2>1, <2>2
<1>8. CASE Retire \/ Snapshot
  <2>1. SameOp /\ op'.step # "record"
    BY <1>1, <1>8, StepFields DEF Prepared
  <2> QED
    BY <1>3, <1>8, <2>1 DEF Retire, Snapshot, SameOp
<1>9. CASE Measure \/ Restore
  <2>1. SameOp /\ op'.step # "record"
    BY <1>1, <1>9, StepFields
  <2> QED
    BY <1>3, <1>9, <2>1 DEF Measure, Restore, SameOp
<1>10. ASSUME NEW f \in Files, Write(f) \/ Leave(f)
       PROVE  ShownInputs'
  <2>1. SameOp /\ op'.step = op.step
    BY <1>1, <1>10, StepFields DEF Write, Leave
  <2> QED
    BY <1>3, <1>10, <2>1 DEF Write, Leave, Turn, SameOp
<1>11. CASE Cancel \/ OverwriteDirty \/ UndoOverwrite
  BY <1>3, <1>11, CancelFields, OverwriteFields, UndoFields
     DEF Cancel, OverwriteDirty, UndoOverwrite
<1>12. CASE Settle \/ Throw
  BY <1>3, <1>12, IdleType DEF Settle, Throw, Ends
<1>13. CASE Crash
  <2>1. pending' = pending
    BY <1>1, <1>13, Restarted DEF IInv
  <2> QED
    BY <1>3, <1>13, <2>1, IdleType DEF Crash, Ends
<1>14. CASE \/ Send \/ FinalizePending \/ SnapshotForMessage \/ SendFails
            \/ \E f \in Files : Edit(f)
  BY <1>3, <1>14 DEF Send, FinalizePending, SnapshotForMessage, SendFails, Edit
<1> QED
  BY <1>4, <1>5, <1>6, <1>7, <1>8, <1>9, <1>10, <1>11, <1>12, <1>13, <1>14 DEF Next

\* boundaries no input follows are never more for an entry that is no boundary
LEMMA GrownOpen ==
  ASSUME TypeOK, NEW e \in Entries, ledger' = Append(ledger, e)
  PROVE  /\ Open' \subseteq Open \cup {Len(ledger) + 1}
         /\ e.type # "boundary" => Open' \subseteq Open
         /\ e.type = "input" => Open' = {}
         /\ e.type = "cancel" => \A b \in Open' : ledger'[b].of # e.of
         /\ \A b \in Open : ledger'[b] = ledger[b]
<1>1. /\ Len(ledger') = Len(ledger) + 1 /\ ledger'[Len(ledger) + 1] = e
      /\ \A i \in 1..Len(ledger) : ledger'[i] = ledger[i]
  BY Grown
<1>2. /\ Active' \subseteq Active \cup {Len(ledger) + 1}
      /\ e.type # "boundary" => Active' \subseteq Active
      /\ e.type = "cancel" => \A b \in Active' : ledger'[b].of # e.of
  BY GrownActive
<1>3. Active \subseteq 1..Len(ledger) /\ Len(ledger) \in Nat
  BY LedgerType DEF Active
<1>4. ASSUME NEW b \in Open', b \in Active
      PROVE  b \in Open /\ e.type # "input"
  <2>1. \A i \in b..(Len(ledger) + 1) : ledger'[i].type # "input"
    BY <1>1, <1>4 DEF Open
  <2>2. \A i \in b..Len(ledger) : ledger[i].type # "input"
    BY <1>1, <1>3, <1>4, <2>1
  <2>3. e.type # "input"
    BY <1>1, <1>3, <1>4, <2>1
  <2> QED
    BY <1>4, <2>2, <2>3 DEF Open
<1>5. Open' \subseteq Active'
  BY DEF Open
<1> QED
  BY <1>1, <1>2, <1>3, <1>4, <1>5 DEF Open

LEMMA OfferedStep == IInv /\ Next => Offered'
<1> SUFFICES ASSUME IInv, Next PROVE Offered'
  OBVIOUS
<1> USE DEF index, memory, bounds, origin, ghosts
<1>1. TypeOK /\ Operation /\ PendingRecorded /\ LedgerIds /\ ShownInputs /\ Offered
  BY DEF IInv
<1>2. ASSUME ledger' = ledger
      PROVE  Open' = Open /\ \A b \in Open : ledger'[b] = ledger[b]
  BY <1>2 DEF Open, Active, Cancelled
<1>3. \A b \in Open : b \in Active /\ b \in Boundaries /\ ledger[b].of # 0
  BY <1>1, ActiveMarks, LedgerType, Numbers DEF Open, Active, Boundaries, Ids
<1>4. CASE cut' \/ sending'.step \notin {"end", "finalize"}
  BY <1>4 DEF Offered
<1>5. CASE /\ UNCHANGED <<ledger, pending>> /\ unmarked \subseteq unmarked' /\ (cut => cut')
           /\ sending'.step \in {"end", "finalize"} => sending.step \in {"end", "finalize"}
           /\ \/ op.kind # "rewind" /\ op'.kind # "rewind"
              \/ op'.kind = op.kind /\ op'.id = op.id
  BY <1>1, <1>2, <1>5 DEF Offered
<1>6. CASE Publish
  <2>1. sending.msg \in 1..Messages
    BY <1>1, <1>6, Numbers DEF Publish, TypeOK, Recorded, IInv
  <2>2. [type |-> "input", of |-> sending.msg] \in Entries
    BY <2>1 DEF Entries
  <2>3. Open' = {}
    BY <1>1, <1>6, <2>2, GrownOpen DEF Publish
  <2> QED
    BY <2>3 DEF Offered
<1>7. ASSUME NEW m \in 1..Messages, NEW mode \in Modes, Rewind(m, mode)
      PROVE  Offered'
  <2>1. UNCHANGED <<cut, sending>> /\ op.kind = "none"
    BY <1>7 DEF Rewind, Free
  <2>2. ~cut /\ sending.step \in {"end", "finalize"} =>
          \A b \in Open : ledger[b].of \in unmarked \cup {pending}
    BY <1>1, <2>1 DEF Offered
  <2>3. CASE pending = 0
    <3>1. UNCHANGED <<ledger, unmarked>>
      BY <1>7, <2>3 DEF Rewind, TellsNothing
    <3> QED
      BY <1>2, <1>3, <2>1, <2>2, <2>3, <3>1 DEF Offered
  <2>4. CASE pending # 0 /\ rewinds[pending].mode = "code"
    <3>1. UNCHANGED <<ledger, unmarked>>
      BY <1>7, <2>4 DEF Rewind, Relieves, TellsNothing
    <3>2. \A b \in Open : ledger[b].of # pending
      BY <1>1, <1>3, <2>4 DEF LedgerIds
    <3> QED
      BY <1>2, <2>1, <2>2, <3>1, <3>2 DEF Offered
  <2>5. CASE pending # 0 /\ rewinds[pending].mode # "code"
    <3> DEFINE e == [type |-> "cancel", of |-> pending]
    <3>1. Tells(e) /\ e \in Entries /\ e.type = "cancel" /\ e.of = pending
      BY <1>1, <1>7, <2>5, PendingType DEF Rewind, Relieves, Entries
    <3> HIDE DEF e
    <3>2. CASE ledger' = Append(ledger, e) /\ unmarked' = unmarked
      <4>1. /\ Open' \subseteq Open /\ \A b \in Open' : ledger'[b].of # pending
            /\ \A b \in Open : ledger'[b] = ledger[b]
        BY <1>1, <3>1, <3>2, GrownOpen
      <4> QED
        BY <2>1, <2>2, <3>2, <4>1 DEF Offered
    <3>3. CASE ledger' = ledger /\ unmarked' = unmarked \cup {pending}
      BY <1>2, <2>1, <2>2, <3>3 DEF Offered
    <3> QED
      BY <3>1, <3>2, <3>3, TellsCases
  <2> QED
    BY <2>3, <2>4, <2>5
<1>8. CASE Mark
  <2>1. /\ SameOp /\ UNCHANGED <<pending, cut, sending>>
        /\ op.kind \in {"rewind", "cancel"} /\ op.step = "write" /\ Marks
    BY <1>1, <1>8, StepFields DEF Mark
  <2>2. op.id \in Ids /\ (op.kind = "rewind" => op.msg \in 1..Messages)
    BY <1>1, <2>1, OperationNow
  <2>3. CASE ledger' = ledger /\ unmarked \subseteq unmarked'
    BY <1>5, <2>1, <2>3 DEF SameOp
  <2>4. CASE ledger' = Append(ledger, Marker) /\ unmarked' = unmarked
    <3>1. /\ Marker \in Entries /\ Marker.of = op.id
          /\ Marker.type = IF op.kind = "cancel" THEN "cancel" ELSE "boundary"
      BY <2>1, <2>2 DEF Marker, Entries
    <3>2. /\ Open' \subseteq Open \cup {Len(ledger) + 1}
          /\ op.kind = "cancel" => Open' \subseteq Open
          /\ \A b \in Open : ledger'[b] = ledger[b]
      BY <1>1, <2>1, <2>4, <3>1, GrownOpen
    <3>3. ledger'[Len(ledger) + 1].of = op.id
      BY <1>1, <2>4, <3>1, Grown
    <3> QED
      BY <1>1, <2>1, <2>4, <3>2, <3>3 DEF Offered, SameOp
  <2> QED
    BY <2>1, <2>3, <2>4, TellsCases DEF Marks, TellsNothing
<1>9. CASE Record
  <2>1. /\ UNCHANGED <<ledger, cut, sending, unmarked>> /\ op'.kind = "none"
        /\ op.step = "record"
    BY <1>9, IdleType DEF Record, Ends
  <2>2. CASE op.kind = "cancel"
    <3>1. op.id = pending /\ (op.id \in unmarked \/ \A b \in Active : ledger[b].of # op.id)
      BY <1>1, <2>1, <2>2, OperationNow DEF ShownInputs
    <3> QED
      BY <1>1, <1>2, <1>3, <2>1, <2>2, <3>1 DEF Offered
  <2>3. CASE op.kind # "cancel"
    <3>1. op.kind = "rewind" /\ pending' = op.id
      BY <1>1, <1>9, <2>1, <2>3, OperationNow DEF Record
    <3> QED
      BY <1>1, <1>2, <2>1, <3>1 DEF Offered
  <2> QED
    BY <2>2, <2>3
<1>10. CASE Retire
  <2>1. SameOp /\ op.kind = "rewind" /\ UNCHANGED <<ledger, cut, sending, unmarked>>
    BY <1>1, <1>10, StepFields, OperationNow DEF Retire
  <2> QED
    BY <1>1, <1>2, <2>1 DEF Offered, SameOp
<1>11. CASE Snapshot \/ Measure \/ Restore
  BY <1>1, <1>5, <1>11, StepFields DEF Snapshot, Measure, Restore, SameOp
<1>12. ASSUME NEW f \in Files, Write(f) \/ Leave(f)
       PROVE  Offered'
  <2>1. SameOp
    BY <1>1, <1>12, StepFields DEF Write, Leave
  <2> QED
    BY <1>5, <1>12, <2>1 DEF Write, Leave, Turn, SameOp
<1>13. CASE Cancel \/ OverwriteDirty \/ UndoOverwrite
  BY <1>5, <1>13, CancelFields, OverwriteFields, UndoFields
     DEF Cancel, OverwriteDirty, UndoOverwrite, Free
<1>14. CASE Settle
  BY <1>5, <1>14, IdleType DEF Settle, Ends
<1>15. CASE Throw
  BY <1>4, <1>15 DEF Throw
<1>16. CASE Crash
  <2>1. pending' = pending /\ UNCHANGED <<ledger, unmarked>>
    BY <1>1, <1>16, Restarted DEF IInv, Crash
  <2>2. cut' = (cut \/ ~ (op.kind = "none") \/ sending # Still)
    BY <1>16, Zenon DEF Crash, Free
  <2>3. ~cut' => ~cut /\ op.kind = "none" /\ sending = Still
    BY <2>2, Zenon
  <2>4. Still.step = "end"
    BY DEF Still
  <2>5. op'.kind = "none"
    BY <1>16, IdleType DEF Crash, Ends
  <2> QED
    BY <1>1, <1>2, <2>1, <2>3, <2>4, <2>5 DEF Offered
<1>17. CASE Send
  BY <1>5, <1>17 DEF Send, Still
<1>18. CASE FinalizePending \/ SnapshotForMessage \/ SendFails
  <2>1. sending'.step \in {"snapshot", "publish"}
    BY <1>1, <1>18 DEF FinalizePending, SnapshotForMessage, SendFails, TypeOK
  <2> QED
    BY <1>4, <2>1
<1>19. ASSUME NEW f \in Files, Edit(f)
       PROVE  Offered'
  BY <1>5, <1>19 DEF Edit
<1> QED
  BY <1>6, <1>7, <1>8, <1>9, <1>10, <1>11, <1>12, <1>13, <1>14, <1>15, <1>16, <1>17, <1>18, <1>19
     DEF Next

-----------------------------------------------------------------------------
(* The theorems                                                            *)

LEMMA InitInvariant == Init => IInv
<1> SUFFICES ASSUME Init PROVE IInv
  OBVIOUS
<1>1. TypeOK
  BY InitType
<1>2. op = Idle /\ op.kind = "none" /\ op.step = "end" /\ op.todo = {}
  BY DEF Init, Idle
<1>3. Operation
  BY <1>2 DEF Init, Operation
<1>4. Recorded
  BY DEF Init, Recorded, Still
<1>5. OneOpen /\ PendingRecorded /\ meddled \subseteq hands /\ PendingFiles
  BY DEF Init, OneOpen, PendingRecorded, PendingFiles
<1>6. RewindFiles /\ CancelFiles /\ SparedFiles /\ RewindWrites /\ EditsSpared
  BY <1>2 DEF RewindFiles, CancelFiles, SparedFiles, RewindWrites, EditsSpared, Idle
<1>7. DOMAIN ledger = {} /\ Len(ledger) = 0 /\ pending = 0
  BY DEF Init
<1>8. LedgerIds /\ LedgerTargets
  BY <1>2, <1>7 DEF LedgerIds, LedgerTargets, Told, Boundaries
<1>9. ShownInputs /\ Offered
  BY <1>2, <1>7 DEF ShownInputs, Offered, Open, Active
<1> QED
  BY <1>1, <1>3, <1>4, <1>5, <1>6, <1>8, <1>9 DEF IInv

LEMMA Stutter == IInv /\ UNCHANGED vars => IInv'
<1> SUFFICES ASSUME IInv, UNCHANGED vars PROVE IInv'
  OBVIOUS
<1> USE DEF vars, index, memory, bounds, origin, ghosts
<1>1. TypeOK' /\ (meddled \subseteq hands)'
  BY DEF IInv, TypeOK
<1>2. Operation' /\ Recorded' /\ OneOpen' /\ PendingRecorded'
  BY DEF IInv, Operation, Recorded, OneOpen, PendingRecorded
<1>3. PendingFiles' /\ RewindFiles' /\ CancelFiles' /\ SparedFiles'
  BY DEF IInv, PendingFiles, RewindFiles, CancelFiles, SparedFiles, Anchored, Between, AsBefore
<1>4. RewindWrites' /\ EditsSpared'
  BY DEF IInv, RewindWrites, EditsSpared, Put
<1>5. Active' = Active /\ \A b : Hidden(b)' = Hidden(b)
  BY DEF Active, Cancelled, Hidden
<1>6. LedgerIds' /\ LedgerTargets' /\ ShownInputs'
  BY <1>5 DEF IInv, LedgerIds, LedgerTargets, Told, Boundaries, ShownInputs, ShownBut
<1>7. Offered'
  BY <1>5 DEF IInv, Offered, Open
<1> QED
  BY <1>1, <1>2, <1>3, <1>4, <1>6, <1>7 DEF IInv

LEMMA Invariance == Spec => []IInv
<1>1. IInv /\ Next => IInv'
  BY NextType, OperationStep, RecordedStep, OneOpenStep, MeddledStep, PendingFilesStep,
     RewindFilesStep, CancelFilesStep, SparedFilesStep, RewindWritesStep, EditsSparedStep,
     LedgerIdsStep, LedgerTargetsStep, ShownInputsStep, OfferedStep DEF IInv
<1> QED
  BY <1>1, InitInvariant, Stutter, PTL DEF Spec

\* Every variable keeps to its type (TypeOK).
THEOREM TypeCorrect == Spec => []TypeOK
<1>1. IInv => TypeOK
  BY DEF IInv
<1> QED
  BY <1>1, Invariance, PTL

\* A rewind of the files is all or nothing, whatever is edited, torn, cut short or
\* started again before it, but for the files it did not manage to remove
\* (RewindIsExact).
THEOREM RewindsAreExact == Spec => []RewindIsExact
<1>1. IInv => RewindIsExact
  BY DEF IInv, RewindWrites, RewindIsExact, Written
<1> QED
  BY <1>1, Invariance, PTL

\* A cancel, and a rewind while another one is pending, destroy no edit that was made
\* before they asked for edits, unless that other rewind is of the conversation alone
\* (EditsSurvive).
THEOREM CancelsKeepEdits == Spec => []EditsSurvive
<1>1. IInv => EditsSurvive
  BY DEF IInv, EditsSpared, Put, EditsSurvive
<1> QED
  BY <1>1, Invariance, PTL

\* A cancel takes conversation and files back to before the first of the rewinds, but
\* for what rewinds hide whose cancel the ledger lost, and the files in `hands'
\* (RedoReturns).
THEOREM CancelsReturn == Spec => []RedoReturns
<1> DEFINE lost == {b \in Active : ledger[b].of \in unmarked}
<1>1. ASSUME IInv, op.kind = "cancel", op.step = "record"
      PROVE  /\ shown \subseteq Visible \cup UNION {Hidden(b) : b \in lost}
             /\ \A f \in Files \ hands : disk[f] = before[f]
  <2>1. op.todo = {} /\ AsBefore
    BY <1>1 DEF IInv, Operation, CancelFiles
  <2>2. TypeOK /\ pending # 0 /\ op.id = pending
    BY <1>1 DEF IInv, Operation
  <2>3. /\ ShownBut(pending)
        /\ pending \in unmarked \/ \A b \in Active : ledger[b].of # pending
    BY <1>1, <2>2 DEF IInv, ShownInputs
  <2>4. \A i \in shown : i \in 1..Len(ledger) /\ ledger[i].type = "input"
    BY <2>2, <2>3, LedgerType DEF ShownBut, TypeOK
  <2>5. \A i \in shown, b \in Active : i \in Hidden(b) => b \in lost
    BY <2>3 DEF ShownBut
  <2>6. ASSUME NEW i \in shown, i \notin Visible
        PROVE  \E b \in lost : i \in Hidden(b)
    <3>1. PICK b \in Active : i \in Hidden(b)
      BY <2>4, <2>6 DEF Visible
    <3> QED
      BY <2>5, <3>1
  <2> QED
    BY <2>1, <2>6 DEF AsBefore
<1>2. IInv => RedoReturns
  BY <1>1 DEF RedoReturns
<1> QED
  BY <1>2, Invariance, PTL

LEMMA LeastNat ==
  ASSUME NEW S \in SUBSET Nat, S # {}
  PROVE  \E n \in S : \A m \in S : n <= m
<1>1. PICK n \in S : \A m \in S : <<m, n>> \notin OpToRel(<, Nat)
  BY NatLessThanWellFounded, WFMin
<1>2. \A m \in S : ~ (m < n)
  BY <1>1, Zenon DEF OpToRel
<1> QED
  BY <1>2

LEMMA GreatestNat ==
  ASSUME NEW S \in SUBSET Nat, S # {}, NEW N \in Nat, \A m \in S : m <= N
  PROVE  Max(S) \in S /\ \A m \in S : m <= Max(S)
<1> DEFINE D == {N - m : m \in S}
<1>1. D \in SUBSET Nat
  <2>1. \A m \in S : N - m \in Nat
    OBVIOUS
  <2> QED
    BY <2>1
<1>2. D # {}
  OBVIOUS
<1>3. PICK d \in D : \A e \in D : d <= e
  <2> HIDE DEF D
  <2> QED
    BY <1>1, <1>2, LeastNat
<1>4. PICK n \in S : d = N - n
  BY <1>3
<1>5. ASSUME NEW m \in S PROVE n >= m
  <2>1. d <= N - m
    BY <1>3
  <2>2. m \in Nat /\ n \in Nat
    OBVIOUS
  <2> HIDE DEF D
  <2>3. N - n <= N - m
    BY <1>4, <2>1
  <2> QED
    BY <2>2, <2>3
<1> QED
  BY <1>5 DEF Max

\* What the ledger takes for pending is what a cancel accepts, unless the ledger lost
\* the mark that takes it back (PendingIsOffered).
THEOREM HiddenIsOffered == Spec => []PendingIsOffered
<1>1. ASSUME IInv, Free, sending = Still, ~cut, LedgerPending \notin unmarked \cup {0}
      PROVE  pending = LedgerPending
  <2>1. op.kind = "none" /\ sending.step = "end" /\ TypeOK
    BY <1>1 DEF Free, Still, IInv
  <2>2. \A b \in Open : ledger[b].of \in unmarked \cup {pending}
    BY <1>1, <2>1 DEF IInv, Offered
  <2>3. LedgerPending = IF Open = {} THEN 0 ELSE ledger[Max(Open)].of
    BY DEF LedgerPending, Open
  <2>4. Open \subseteq 1..Len(ledger) /\ Len(ledger) \in Nat
    BY <2>1, LedgerType DEF Open, Active
  <2>5. Open # {}
    BY <1>1, <2>3
  <2>6. Open \in SUBSET Nat /\ \A b \in Open : b <= Len(ledger)
    BY <2>4
  <2>7. Max(Open) \in Open
    BY <2>4, <2>5, <2>6, GreatestNat
  <2> QED
    BY <1>1, <2>2, <2>3, <2>5, <2>7
<1>2. IInv => PendingIsOffered
  BY <1>1 DEF PendingIsOffered
<1> QED
  BY <1>2, Invariance, PTL
=============================================================================
