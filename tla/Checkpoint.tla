----------------------------- MODULE Checkpoint -----------------------------
(***************************************************************************)
(* Checkpoints of one session (checkpoint-manager.ts over snapshot-store.ts *)
(* and rewind-mask.ts): every message of the user is preceded by a snapshot *)
(* of the game's files; a rewind takes files and conversation back to one,  *)
(* and until the next message it can be cancelled.  The operations queue    *)
(* for one lock, but users and agents edit the files between any two awaits *)
(* of one, a message is published outside the lock, and the process may die *)
(* anywhere.  A manifest here is the content of every file, 0 for no file;  *)
(* the blobs that hold the contents are apart, because they can be damaged. *)
(***************************************************************************)
EXTENDS Naturals, Sequences, FiniteSets, FiniteSetsExt

CONSTANTS
  Files,
  Texts,           \* contents a file can have: 1..Texts
  Messages,        \* bound: messages of the user, 1..Messages, in order
  Modes,           \* a subset of "both", "conversation" and "code"
  Rewinds,         \* bound: rewinds
  Edits,           \* bound: edits by users and agents
  Faults,          \* bound: crashes, steps that throw, failures that are passed over
  Moves,           \* bound: messages and edits together
  None

ASSUME CheckpointAssumption ==
  /\ {Texts, Messages, Rewinds, Edits, Faults, Moves} \subseteq Nat /\ Texts # 0
  /\ Modes \subseteq {"both", "conversation", "code"}

Contents == 0..Texts
Manifests == [Files -> Contents]
Ids == 1..Rewinds

Operations ==
  [kind : {"none", "rewind", "cancel", "overwrite", "undo"},
   step : {"retire", "snapshot", "measure", "restore", "write", "record", "end"},
   id : 0..Rewinds, old : 0..Rewinds, msg : 0..Messages, mode : Modes \cup {"both"},
   pre : Manifests \cup {None}, goal : Manifests \cup {None},
   dirty : SUBSET Files, todo : SUBSET Files, kept : SUBSET Files, whole : BOOLEAN]
RewindRecords ==
  [target : 1..Messages, mode : Modes, pre : Manifests,
   status : {"pending", "cancelled", "finalized"}]
LastOps ==
  [id : Ids, goal : Manifests, kept : SUBSET Files, safety : Manifests \cup {None},
   over : SUBSET Files]
Entries ==
  [type : {"input"}, of : 1..Messages] \cup [type : {"cancel"}, of : Ids]
    \cup [type : {"boundary"}, of : Ids, target : 1..Messages]

ASSUME NoneAssumption == None \notin Manifests \cup RewindRecords \cup LastOps

VARIABLES
  disk,            \* the game directory
  blob,            \* what the blob of a content is: none, torn or whole
  messages,        \* the recorded messages and their manifests
  stamp,           \* when they were recorded: how many ledger entries are older
  rewinds,         \* the rewind records, by boundary
  ledger,          \* inputs, boundaries and cancels in the agents' logs
  pending,         \* sc.pending: its boundary, or 0
  base,            \* lastRestoreManifestId
  last,            \* lastOp
  op,              \* the operation that holds the lock, and how far it is
  sending,         \* the message under way to the ledger, and how far
  sent, begun,     \* messages and rewinds so far
  edits, faults,   \* what the bounds still allow
  before, shown,   \* files and visible inputs when the first of the rewinds began
  hands,           \* files edited since then, with those an overwrite took, those
                   \* a refused restore left alone and those it could not remove
  meddled,         \* files edited since the operation began; where it asks for
                   \* edits, since it has asked
  stuck,           \* files the operation could not remove
  unmarked,        \* rewinds taken back without a mark in the ledger
  cut              \* an operation was cut short

index == <<messages, stamp, rewinds>>
memory == <<pending, base, last>>
bounds == <<sent, begun, edits, faults>>
origin == <<before, shown>>
ghosts == <<origin, hands, meddled, stuck, unmarked, cut>>
vars == <<disk, blob, index, ledger, memory, op, sending, bounds, ghosts>>

Idle == [kind |-> "none", step |-> "end", id |-> 0, old |-> 0, msg |-> 0, mode |-> "both",
         pre |-> None, goal |-> None, dirty |-> {}, todo |-> {}, kept |-> {}, whole |-> TRUE]
Still == [msg |-> 0, step |-> "end"]

TypeOK ==
  /\ disk \in Manifests /\ blob \in [1..Texts -> {"none", "torn", "whole"}]
  /\ messages \in [1..Messages -> Manifests \cup {None}] /\ stamp \in [1..Messages -> Nat]
  /\ rewinds \in [Ids -> RewindRecords \cup {None}]
  /\ ledger \in Seq(Entries)
  /\ pending \in 0..Rewinds /\ base \in Manifests \cup {None}
  /\ last \in LastOps \cup {None}
  /\ op \in Operations
  /\ sending \in [msg : 0..Messages, step : {"finalize", "snapshot", "publish", "end"}]
  /\ sent \in 0..Messages /\ begun \in 0..Rewinds
  /\ edits \in 0..Edits /\ faults \in 0..Faults
  /\ before \in Manifests /\ shown \subseteq DOMAIN ledger
  /\ hands \subseteq Files /\ meddled \subseteq Files /\ stuck \subseteq Files
  /\ unmarked \subseteq Ids /\ cut \in BOOLEAN

Init ==
  /\ disk = [f \in Files |-> 1] /\ blob = [t \in 1..Texts |-> "none"]
  /\ messages = [m \in 1..Messages |-> None] /\ stamp = [m \in 1..Messages |-> 0]
  /\ rewinds = [b \in Ids |-> None]
  /\ ledger = <<>> /\ pending = 0 /\ base = None /\ last = None
  /\ op = Idle /\ sending = Still /\ sent = 0 /\ begun = 0
  /\ edits = Edits /\ faults = Faults
  /\ before = disk /\ shown = {} /\ hands = {} /\ meddled = {} /\ stuck = {}
  /\ unmarked = {} /\ cut = FALSE

Free == op.kind = "none"
Moving == sent + (Edits - edits) < Moves
Strikes == faults > 0 /\ faults' = faults - 1

(***************************************************************************)
(* The mask over the ledger.                                                *)
(***************************************************************************)
Cancelled == {ledger[i].of : i \in {j \in 1..Len(ledger) : ledger[j].type = "cancel"}}
Active == {i \in 1..Len(ledger) : ledger[i].type = "boundary" /\ ledger[i].of \notin Cancelled}

\* from the last input of the target before the boundary; without one, from the
\* first entry that is not older than the target's record
Hidden(b) ==
  LET from == {i \in 1..b : ledger[i].type = "input" /\ ledger[i].of = ledger[b].target}
  IN  (IF from = {} THEN stamp[ledger[b].target] + 1 ELSE Max(from))..b

Visible ==
  {i \in 1..Len(ledger) : ledger[i].type = "input"} \ UNION {Hidden(b) : b \in Active}

\* the boundary a reader of the ledger takes for pending, or 0
LedgerPending ==
  LET open == {b \in Active : \A i \in b..Len(ledger) : ledger[i].type # "input"}
  IN  IF open = {} THEN 0 ELSE ledger[Max(open)].of

\* appendToAllLedgers: an append that throws is logged, and the caller goes on
Tells(entry) ==
  \/ ledger' = Append(ledger, entry) /\ UNCHANGED <<faults, unmarked>>
  \/ /\ Strikes /\ UNCHANGED ledger
     /\ unmarked' = IF entry.type = "cancel" THEN unmarked \cup {entry.of} ELSE unmarked

TellsNothing == UNCHANGED <<ledger, faults, unmarked>>

(***************************************************************************)
(* The store of snapshots.                                                  *)
(***************************************************************************)
OnDisk == {disk[f] : f \in Files} \ {0}

\* a blob that is there is not looked at again, whatever it holds
Stores == blob' = [t \in 1..Texts |-> IF t \in OnDisk /\ blob[t] = "none" THEN "whole" ELSE blob[t]]

\* mutant: files that were added are not looked for
DirtyChanged ==
  IF base = None THEN {} ELSE {f \in Files : 0 \notin {disk[f], base[f]} /\ disk[f] # base[f]}

\* files that are there and differ from what the last restore left; without one, none
Dirty ==
  IF base = None THEN {} ELSE {f \in Files : disk[f] # 0 /\ disk[f] # base[f]}

\* mutant: a file the snapshot does not have stays
DifferKept(goal, among) == {f \in among : goal[f] # 0 /\ disk[f] # goal[f]}

Differ(goal, among) == {f \in among : disk[f] # goal[f]}

\* the contents a restore has to copy are all whole
Preflight(goal, among) ==
  \A f \in Differ(goal, among) : goal[f] = 0 \/ blob[goal[f]] = "whole"

\* a blob whose writing is cut short keeps the bytes it got
Tears ==
  \/ UNCHANGED blob
  \/ /\ \/ op.step \in {"snapshot", "measure", "restore"}
        \/ op.kind = "none" /\ sending.step = "snapshot"
     /\ \E t \in OnDisk : blob[t] = "none" /\ blob' = [blob EXCEPT ![t] = "torn"]

(***************************************************************************)
(* A message: finalizePending, snapshotForMessage, then the event.          *)
(***************************************************************************)
Send ==
  /\ sent < Messages /\ Moving /\ sending = Still
  /\ sent' = sent + 1 /\ sending' = [msg |-> sent + 1, step |-> "finalize"]
  /\ UNCHANGED <<disk, blob, index, ledger, memory, op, begun, edits, faults, ghosts>>

Closes(b, how) == rewinds' = [rewinds EXCEPT ![b].status = how]

FinalizePending ==
  /\ sending.step = "finalize" /\ Free /\ sending' = [sending EXCEPT !.step = "snapshot"]
  /\ IF pending = 0 THEN UNCHANGED rewinds ELSE Closes(pending, "finalized")
  /\ pending' = 0
  /\ UNCHANGED <<disk, blob, messages, stamp, ledger, base, last, op, bounds, ghosts>>

SnapshotForMessage ==
  /\ sending.step = "snapshot" /\ Free /\ sending' = [sending EXCEPT !.step = "publish"]
  /\ Stores /\ messages' = [messages EXCEPT ![sending.msg] = disk]
  /\ stamp' = [stamp EXCEPT ![sending.msg] = Len(ledger)]
  /\ UNCHANGED <<disk, rewinds, ledger, memory, op, bounds, ghosts>>

\* a failure of either does not hold the message back
SendFails ==
  /\ sending.step \in {"finalize", "snapshot"} /\ Free /\ Strikes /\ Tears
  /\ sending' = [sending EXCEPT !.step = IF @ = "finalize" THEN "snapshot" ELSE "publish"]
  /\ UNCHANGED <<disk, index, ledger, memory, op, sent, begun, edits, ghosts>>

\* outside the lock, and whether or not the gate is closed
Publish ==
  /\ sending.step = "publish" /\ sending' = Still
  /\ ledger' = Append(ledger, [type |-> "input", of |-> sending.msg])
  /\ UNCHANGED <<disk, blob, index, memory, op, bounds, ghosts>>

(***************************************************************************)
(* Rewind and cancel.  The session's gate is closed first: no turn runs.    *)
(***************************************************************************)
\* mutant: the ledger is not told of a rewind given up
RelievesNot == TellsNothing

\* the ledger is told to forget the pending rewind's boundary
Relieves ==
  IF rewinds[pending].mode = "code" THEN TellsNothing
  ELSE Tells([type |-> "cancel", of |-> pending])

\* a pending rewind is given up for the new one, and its anchor inherited
Rewind(m, mode) ==
  /\ Free /\ begun < Rewinds /\ messages[m] # None
  /\ begun' = begun + 1
  /\ op' = [Idle EXCEPT !.kind = "rewind", !.id = begun + 1, !.msg = m, !.mode = mode,
                        !.goal = messages[m], !.old = pending,
                        !.pre = IF pending = 0 THEN None ELSE rewinds[pending].pre,
                        !.step = IF pending = 0 THEN "snapshot" ELSE "retire"]
  /\ IF pending = 0
     THEN before' = disk /\ shown' = Visible /\ hands' = {} /\ TellsNothing
     ELSE Relieves /\ UNCHANGED <<origin, hands>>
  /\ UNCHANGED <<disk, blob, index, memory, sending, sent, edits, meddled, stuck, cut>>

Prepared ==
  IF op.mode = "conversation" THEN "write"
  ELSE IF op.old # 0 THEN "measure" ELSE "restore"

Retire ==
  /\ op.step = "retire" /\ Closes(pending, "cancelled") /\ pending' = 0
  /\ op' = [op EXCEPT !.step = Prepared]
  /\ UNCHANGED <<disk, blob, messages, stamp, ledger, base, last, sending, bounds, ghosts>>

\* the snapshot before a rewind, and the one before an overwrite
Snapshot ==
  /\ op.step = "snapshot" /\ Stores
  /\ op' = [op EXCEPT !.step = Prepared, !.pre = disk]
  /\ UNCHANGED <<disk, index, ledger, memory, sending, bounds, ghosts>>

Cancel ==
  /\ Free /\ pending # 0
  /\ op' = [Idle EXCEPT !.kind = "cancel", !.id = pending, !.old = pending,
                        !.mode = rewinds[pending].mode, !.goal = rewinds[pending].pre,
                        !.step = "measure"]
  /\ UNCHANGED <<disk, blob, index, ledger, memory, sending, bounds, ghosts>>

\* edits are asked for while a rewind is pending, in a walk of its own
Measure ==
  /\ op.step = "measure" /\ meddled' = {}
  /\ IF base = None THEN UNCHANGED blob ELSE Stores
  /\ op' = [op EXCEPT !.step = "restore", !.dirty = Dirty]
  /\ UNCHANGED <<disk, index, ledger, memory, sending, bounds, origin, hands, stuck, unmarked,
                 cut>>

(***************************************************************************)
(* A restore, for whichever operation.                                      *)
(***************************************************************************)
Considered ==
  CASE op.kind = "overwrite" -> last.kept
    [] op.kind = "undo"      -> last.over
    [] OTHER                 -> Files \ op.dirty

Restore ==
  /\ op.step = "restore" /\ Stores
  /\ LET whole == Preflight(op.goal, Considered)
     IN  /\ op' = [op EXCEPT !.step = "write", !.whole = whole,
                             !.todo = IF whole THEN Differ(op.goal, Considered) ELSE {},
                             !.kept = {f \in op.dirty :
                                         op.goal[f] # 0 \/ (whole /\ disk[f] # 0)}]
         /\ hands' = IF whole THEN hands ELSE hands \cup Differ(op.goal, Considered)
  /\ UNCHANGED <<disk, index, ledger, memory, sending, bounds, origin, meddled, stuck, unmarked,
                 cut>>

\* what must be there is copied before the rest is removed
Turn(f) ==
  /\ op.step = "write" /\ f \in op.todo
  /\ op.goal[f] = 0 => \A g \in op.todo : op.goal[g] = 0
  /\ op' = [op EXCEPT !.todo = @ \ {f}]
  /\ UNCHANGED <<blob, index, ledger, memory, sending, sent, begun, edits, origin, meddled,
                 unmarked, cut>>

Write(f) ==
  /\ Turn(f) /\ disk' = [disk EXCEPT ![f] = op.goal[f]]
  /\ UNCHANGED <<faults, hands, stuck>>

\* an unlink that fails is passed over
Leave(f) ==
  /\ Turn(f) /\ op.goal[f] = 0 /\ Strikes
  /\ stuck' = stuck \cup {f} /\ hands' = hands \cup {f}
  /\ UNCHANGED disk

(***************************************************************************)
(* The end of a rewind and of a cancel: memory, ledger, then the index.     *)
(***************************************************************************)
Marker ==
  IF op.kind = "cancel" THEN [type |-> "cancel", of |-> op.id]
  ELSE [type |-> "boundary", of |-> op.id, target |-> op.msg]

\* mutant: a cancel leaves no mark in the ledger
MarksOnce == IF op.kind = "cancel" \/ op.mode = "code" THEN TellsNothing ELSE Tells(Marker)

Marks == IF op.mode = "code" THEN TellsNothing ELSE Tells(Marker)

Mark ==
  /\ op.kind \in {"rewind", "cancel"} /\ op.step = "write" /\ op.todo = {}
  /\ op' = [op EXCEPT !.step = "record"] /\ Marks
  /\ IF op.kind = "rewind" /\ op.mode = "conversation" THEN UNCHANGED <<base, last>>
     ELSE /\ base' = op.goal
          /\ last' = [id |-> op.id, goal |-> op.goal, kept |-> op.kept, safety |-> None, over |-> {}]
  /\ UNCHANGED <<disk, blob, index, pending, sending, sent, begun, edits, origin, hands,
                 meddled, stuck, cut>>

\* the lock is given back
Ends == op' = Idle /\ meddled' = {} /\ stuck' = {}

Record ==
  /\ op.step = "record" /\ Ends
  /\ IF op.kind = "cancel"
     THEN Closes(op.id, "cancelled") /\ pending' = 0
     ELSE /\ rewinds' = [rewinds EXCEPT ![op.id] = [target |-> op.msg, mode |-> op.mode,
                                                    pre |-> op.pre, status |-> "pending"]]
          /\ pending' = op.id
  /\ UNCHANGED <<disk, blob, messages, stamp, ledger, base, last, sending, bounds, origin, hands,
                 unmarked, cut>>

(***************************************************************************)
(* The files that were spared can be taken back too, and that undone.       *)
(***************************************************************************)
OverwriteDirty ==
  /\ Free /\ last # None /\ last.kept # {} /\ hands' = hands \cup last.kept
  /\ op' = [Idle EXCEPT !.kind = "overwrite", !.id = last.id, !.goal = last.goal,
                        !.step = "snapshot"]
  /\ UNCHANGED <<disk, blob, index, ledger, memory, sending, bounds, origin, meddled, stuck,
                 unmarked, cut>>

UndoOverwrite ==
  /\ Free /\ last # None /\ last.safety # None /\ hands' = hands \cup last.over
  /\ op' = [Idle EXCEPT !.kind = "undo", !.id = last.id, !.goal = last.safety,
                        !.step = "restore"]
  /\ UNCHANGED <<disk, blob, index, ledger, memory, sending, bounds, origin, meddled, stuck,
                 unmarked, cut>>

Settle ==
  /\ op.kind \in {"overwrite", "undo"} /\ op.step = "write" /\ op.todo = {} /\ Ends
  /\ last' = IF op.kind = "overwrite"
             THEN [last EXCEPT !.safety = op.pre, !.over = last.kept, !.kept = {}]
             ELSE [last EXCEPT !.safety = None, !.over = {}, !.kept = last.over]
  /\ UNCHANGED <<disk, blob, index, ledger, pending, base, sending, bounds, origin, hands,
                 unmarked, cut>>

(***************************************************************************)
(* Everybody else, and what goes wrong.                                     *)
(***************************************************************************)
Edit(f) ==
  /\ edits > 0 /\ Moving /\ edits' = edits - 1
  /\ \E t \in Contents \ {disk[f]} : disk' = [disk EXCEPT ![f] = t]
  /\ hands' = hands \cup {f} /\ meddled' = IF Free THEN {} ELSE meddled \cup {f}
  /\ UNCHANGED <<blob, index, ledger, memory, op, sending, sent, begun, faults, origin, stuck,
                 unmarked, cut>>

\* the step the operation is at throws: what was done stays done
Throw ==
  /\ Strikes /\ ~Free /\ Ends /\ Tears /\ cut' = TRUE
  /\ UNCHANGED <<disk, index, ledger, memory, sending, sent, begun, edits, origin, hands,
                 unmarked>>

\* loadIndex: the last rewind without a status; an overwrite is not remembered
Crash ==
  /\ Strikes /\ Ends /\ sending' = Still /\ Tears
  /\ LET open == {b \in Ids : rewinds[b] # None /\ rewinds[b].status = "pending"}
         b    == IF open = {} THEN 0 ELSE Max(open)
     IN  /\ pending' = b
         /\ base' = IF b = 0 \/ rewinds[b].mode = "conversation" THEN None
                    ELSE messages[rewinds[b].target]
  /\ last' = None /\ cut' = (cut \/ ~Free \/ sending # Still)
  /\ UNCHANGED <<disk, index, ledger, sent, begun, edits, origin, hands, unmarked>>

Next ==
  \/ Send \/ FinalizePending \/ SnapshotForMessage \/ SendFails \/ Publish
  \/ \E m \in 1..Messages, mode \in Modes : Rewind(m, mode)
  \/ Retire \/ Snapshot \/ Cancel \/ Measure \/ Restore \/ Mark \/ Record
  \/ OverwriteDirty \/ UndoOverwrite \/ Settle
  \/ \E f \in Files : Write(f) \/ Leave(f) \/ Edit(f)
  \/ Throw \/ Crash

Spec == Init /\ [][Next]_vars

(***************************************************************************)
(* Safety                                                                   *)
(***************************************************************************)
Written == op.step \in {"write", "record"} /\ op.todo = {}

\* A rewind of the files is all or nothing: at its end every file that was not
\* spared, and that nobody edited meanwhile, is as the message found it; or a
\* content it needs is damaged and the first rewind left every file alone
\* (rewind, restore's preflight).  What the code excepts is a file the message did
\* not have and that cannot be removed: restore passes over it, and the rewind is
\* recorded as done.
RewindIsExact ==
  op.kind = "rewind" /\ op.mode # "conversation" /\ Written =>
    IF op.whole THEN \A f \in Files \ (op.dirty \cup meddled \cup stuck) : disk[f] = op.goal[f]
    ELSE op.old # 0 \/ \A f \in Files \ meddled : disk[f] = op.pre[f]

\* A cancel, and a rewind while another one is pending, destroy no edit: what they
\* overwrite or remove is what that other rewind put there or an unfinished cancel
\* of it put back, across rewinds in a row, refused restores, operations cut short
\* and restarts (cancel, rewind, dirtySet, loadIndex).  The exceptions of the code:
\* a rewind of the conversation alone leaves dirtySet no baseline, so that edits
\* made behind it are overwritten; a file somebody removed is no edit, it comes
\* back; and what is edited after dirtySet's walk (meddled) is lost when its turn
\* comes.
EditsSurvive ==
  op.old # 0 /\ op.step = "write" /\ rewinds[op.old].mode # "conversation" =>
    \A f \in op.todo \ meddled :
      disk[f] \in {0, messages[rewinds[op.old].target][f], rewinds[op.old].pre[f]}

\* A cancel takes everything back to where the first of the rewinds in a row
\* found it.  Of the inputs that were visible, only those stay hidden that a rewind
\* hides whose cancel the ledger did not take: the append failed, and cancel()
\* answers as if it had not.  The files are as they were, but for those edited
\* since, those whose restore was refused because a content is damaged, and those
\* that could not be removed (rewind's inherited anchor, cancel,
\* appendToAllLedgers, applyRewindMask).
RedoReturns ==
  op.kind = "cancel" /\ op.step = "record" =>
    /\ LET lost == {b \in Active : ledger[b].of \in unmarked}
       IN  shown \subseteq Visible \cup UNION {Hidden(b) : b \in lost}
    /\ \A f \in Files \ hands : disk[f] = before[f]

\* Where the ledger's last word is a rewind, its boundary is the one a cancel
\* accepts: the user is never left with hidden history that no cancel brings
\* back, unless an operation was cut short or the mark that takes the rewind back
\* was lost (rewind, cancel, finalizePending, findPendingRewind).
PendingIsOffered ==
  Free /\ sending = Still /\ ~cut /\ LedgerPending \notin unmarked \cup {0}
    => pending = LedgerPending
=============================================================================
