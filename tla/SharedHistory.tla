--------------------------- MODULE SharedHistory ---------------------------
(***************************************************************************)
(* One agent whose turns run on several rented kernels.  Every kernel keeps *)
(* a private conversation of its own; the host gives it the part of the     *)
(* agent's history it has not seen: a snapshot of everything, or the delta   *)
(* after the position the kernel's lane is known to have consumed.          *)
(*                                                                         *)
(* A message is a value; a row carries the set of messages its text holds.  *)
(* A reader gets the rows in order, so a cursor is a position in `rows'.     *)
(***************************************************************************)
EXTENDS Naturals, Sequences, SequencesExt, FiniteSetsExt

CONSTANTS
  Kernels,
  Remembering,    \* those that resume a chat they only know the name of
  Checkpointing,  \* those that restore a completed native thread from disk
  Inputs,         \* messages that start turns
  Silent,         \* messages that start none (handoff "silent")
  MaxTurns,       \* bound: turns
  MaxRestarts,    \* bound: restarts of the process
  Nothing

Answers == 1..MaxTurns
Messages == Inputs \cup Silent \cup Answers

ASSUME KernelsAssumption ==
  /\ Remembering \subseteq Kernels /\ Checkpointing \subseteq Kernels
  /\ Remembering \cap Checkpointing = {}
ASSUME MessagesAssumption ==
  /\ Inputs \cap Silent = {} /\ Nothing \notin Messages \cup Kernels
  /\ (Inputs \cup Silent) \cap Nat = {}
ASSUME HistoryBoundsAssumption == MaxTurns \in Nat /\ MaxRestarts \in Nat

VARIABLES
  rows,        \* the agent's ledger
  inbox,       \* accepted inputs no turn has taken yet
  lane,        \* what the lane rows say: bound, and KernelLane.knownThrough
  native,      \* a kernel's private conversation: resumable, restored and not
               \* used since, what it holds, what it held at its last activity
  checkpoint,  \* CodexNativeCheckpoint: what the completed thread holds
  turn,        \* the turn at hand
  severed,     \* (for the properties) kernels whose conversation was lost while
               \* the lane's position stood
  begun, restarts

vars == <<rows, inbox, lane, native, checkpoint, turn, severed, begun, restarts>>

Closed == [open |-> FALSE, restored |-> FALSE, holds |-> {}, heard |-> {}]
NoPlan == [mode |-> "none", patch |-> {}, through |-> 0, seen |-> {}]
NoTurn(k) ==
  [pc |-> "idle", kernel |-> k, batch |-> {}, forced |-> FALSE, plan |-> NoPlan]

Carried(R) == UNION {rows[p].holds : p \in R}

Rows ==
  [kind : {"user_input", "inbound_message", "assistant"}, holds : SUBSET Messages,
   source : Inputs \cup {Nothing}, kernel : Kernels \cup {Nothing}]
Conversations ==
  [open : BOOLEAN, restored : BOOLEAN, holds : SUBSET Messages, heard : SUBSET Messages]
Checkpoints == [kept : BOOLEAN, holds : SUBSET Messages]
Plans ==
  [mode : {"none", "delta", "snapshot"}, patch : SUBSET Nat, through : Nat,
   seen : SUBSET Messages]
Turns ==
  [pc : {"idle", "composing", "sent", "active"}, kernel : Kernels, batch : SUBSET Inputs,
   forced : BOOLEAN, plan : Plans]

TypeOK ==
  /\ rows \in Seq(Rows) /\ inbox \in Seq(Inputs)
  /\ lane \in [Kernels -> [bound : BOOLEAN, knownThrough : 0..Len(rows)]]
  /\ native \in [Kernels -> Conversations] /\ checkpoint \in [Kernels -> Checkpoints]
  /\ turn \in Turns /\ severed \subseteq Kernels
  /\ begun \in 0..MaxTurns /\ restarts \in 0..MaxRestarts

Init ==
  /\ rows = <<>> /\ inbox = <<>>
  /\ lane = [k \in Kernels |-> [bound |-> FALSE, knownThrough |-> 0]]
  /\ native = [k \in Kernels |-> Closed]
  /\ checkpoint = [k \in Kernels |-> [kept |-> FALSE, holds |-> {}]]
  /\ \E k \in Kernels : turn = NoTurn(k)
  /\ severed = {} /\ begun = 0 /\ restarts = 0

-----------------------------------------------------------------------------
(* LedgerHistorySource                                                     *)

\* a user_input is left out once an inbound_message names it as its source
Projected(p) ==
  /\ rows[p].kind = "user_input"
  /\ \E q \in DOMAIN rows :
       rows[q].kind = "inbound_message" /\ rows[q].source = rows[p].source

Entries == {p \in DOMAIN rows : ~Projected(p)}

FromUser(p) == rows[p].kind \in {"user_input", "inbound_message"}

-----------------------------------------------------------------------------
(* HistoryCoordinator                                                      *)

CanResume(k) == native[k].open /\ lane[k].knownThrough # 0 /\ ~turn.forced

\* mutant: the cursor's own entry is given again
DeltaFrom(k) ==
  {p \in Entries : p >= lane[k].knownThrough /\ (FromUser(p) \/ rows[p].kernel # k)}

\* the warm owner holds its own output; users and other kernels are new to it
DeltaAfter(k) ==
  {p \in Entries : p > lane[k].knownThrough /\ (FromUser(p) \/ rows[p].kernel # k)}

\* mutant: a lane that was acknowledged once is resumed without a native owner
PrepareTrusting(k) ==
  LET resumes == lane[k].knownThrough # 0 /\ ~turn.forced
      patch == IF resumes THEN DeltaAfter(k) ELSE Entries
  IN  [mode |-> IF ~resumes THEN "snapshot" ELSE IF patch = {} THEN "none" ELSE "delta",
       patch |-> patch, through |-> Max(Entries \cup {0}), seen |-> Carried(Entries)]

Prepare(k) ==
  LET resumes == CanResume(k)
      patch == IF resumes THEN DeltaAfter(k) ELSE Entries
  IN  [mode |-> IF ~resumes THEN "snapshot" ELSE IF patch = {} THEN "none" ELSE "delta",
       patch |-> patch, through |-> Max(Entries \cup {0}), seen |-> Carried(Entries)]

-----------------------------------------------------------------------------
(* Messages arrive                                                         *)

Row(kind, holds, source, kernel) ==
  [kind |-> kind, holds |-> holds, source |-> source, kernel |-> kernel]

NotSent(m) == \A p \in DOMAIN rows : m \notin rows[p].holds

\* published for the ledger, then enqueued
UserSends(u) ==
  /\ NotSent(u)
  /\ rows' = Append(rows, Row("user_input", {u}, u, Nothing))
  /\ inbox' = Append(inbox, u)
  /\ UNCHANGED <<lane, native, checkpoint, turn, severed, begun, restarts>>

\* a silent message is published and never becomes the text of a turn
SilentArrives(m) ==
  /\ NotSent(m)
  /\ rows' = Append(rows, Row("user_input", {m}, Nothing, Nothing))
  /\ UNCHANGED <<inbox, lane, native, checkpoint, turn, severed, begun, restarts>>

-----------------------------------------------------------------------------
(* A turn                                                                  *)

\* the inputs of a coalesced batch become one inbound_message, which names the
\* last of them as its source
Begin(k) ==
  /\ turn.pc = "idle" /\ begun < MaxTurns
  /\ \E n \in DOMAIN inbox :
       LET batch == ToSet(SubSeq(inbox, 1, n)) IN
       /\ rows' = Append(rows, Row("inbound_message", batch, inbox[n], Nothing))
       /\ inbox' = SubSeq(inbox, n + 1, Len(inbox))
       /\ turn' = [NoTurn(k) EXCEPT !.pc = "composing", !.batch = batch]
  /\ begun' = begun + 1
  /\ UNCHANGED <<lane, native, checkpoint, severed, restarts>>

\* restoreNativeHistory confirms the thread of the last completed turn
Restore(k) ==
  /\ turn.pc = "composing" /\ turn.kernel = k /\ ~turn.forced
  /\ checkpoint[k].kept /\ ~native[k].open
  /\ native' = [native EXCEPT ![k] =
                  [open |-> TRUE, restored |-> TRUE,
                   holds |-> checkpoint[k].holds, heard |-> checkpoint[k].holds]]
  /\ UNCHANGED <<rows, inbox, lane, checkpoint, turn, severed, begun, restarts>>

\* mutant: the checkpoint outlives the dispatch of a new turn
DispatchKeeps(k) == checkpoint' = checkpoint

\* CodexKernel.runTurn invalidates the checkpoint before anything else
DispatchClears(k) ==
  checkpoint' = [checkpoint EXCEPT ![k] = [kept |-> FALSE, holds |-> {}]]

Compose(k) ==
  /\ turn.pc = "composing" /\ turn.kernel = k
  /\ turn' = [turn EXCEPT !.pc = "sent", !.plan = Prepare(k)]
  /\ lane' = [lane EXCEPT ![k].bound = @ \/ Prepare(k).patch # {}]
  /\ DispatchClears(k)
  /\ UNCHANGED <<rows, inbox, native, severed, begun, restarts>>

\* acknowledgeHistory, at the first model activity; get() reads it for a bound lane
Acknowledge(k) ==
  [lane EXCEPT ![k].knownThrough =
     IF lane[k].bound /\ turn.plan.through # 0 THEN turn.plan.through ELSE @]

\* mutant: a dead owner is not looked for
RefusedNever(k) == FALSE

\* an owner that is listed and no longer alive
Refused(k) == turn.plan.mode # "snapshot" /\ native[k].restored /\ ~native[k].open

\* what the thread holds that takes the request: the live owner's, a resumed
\* one's, or nothing (no owner, or replaced by a snapshot for other settings)
Held(k) ==
  (IF native[k].open \/ native[k].restored THEN {native[k].holds} ELSE {})
    \cup (IF ~native[k].open \/ (turn.plan.mode = "snapshot" /\ k \in Checkpointing)
          THEN {{}} ELSE {})

Given == Carried(turn.plan.patch) \cup turn.batch

\* the first model activity
Consume(k) ==
  /\ turn.pc = "sent" /\ turn.kernel = k /\ ~Refused(k)
  /\ \E held \in Held(k) :
       native' = [native EXCEPT ![k] =
                    [open |-> k \in Remembering \cup Checkpointing, restored |-> FALSE,
                     holds |-> held \cup Given, heard |-> held \cup Given]]
  /\ lane' = Acknowledge(k)
  /\ turn' = [turn EXCEPT !.pc = "active"]
  /\ severed' = IF turn.plan.mode = "snapshot" THEN severed \ {k} ELSE severed
  /\ UNCHANGED <<rows, inbox, checkpoint, begun, restarts>>

RetrySnapshot == [turn EXCEPT !.pc = "composing", !.forced = TRUE, !.plan = NoPlan]

\* the owner is gone, or was started with settings that have changed since: the
\* sentinel asks for one recomposition
Resync(k) ==
  /\ turn.pc = "sent" /\ turn.kernel = k
  /\ \/ Refused(k) /\ native' = [native EXCEPT ![k] = Closed]
     \/ /\ turn.plan.mode # "snapshot" /\ k \in Checkpointing /\ native[k].open
        /\ UNCHANGED native
  /\ turn' = RetrySnapshot
  /\ UNCHANGED <<rows, inbox, lane, checkpoint, severed, begun, restarts>>

\* what an unheard turn may have left in a conversation that stays: what it was
\* given, or nothing in a chat whose name came before it took the request
LeftBehind(k) == {Given} \cup (IF k \in Remembering THEN {{}} ELSE {})

\* an error or a cancellation before any activity: of a request its thread has
\* taken, or of a chat a remembering kernel only knows the name of
EndsUnheard(k) ==
  /\ turn.pc = "sent" /\ turn.kernel = k /\ ~Refused(k)
  /\ \/ UNCHANGED <<native, severed>>
     \/ /\ k \in Remembering \cup Checkpointing
        /\ \E held \in Held(k), given \in LeftBehind(k) :
             /\ native' = [native EXCEPT ![k] =
                             [@ EXCEPT !.open = TRUE, !.restored = FALSE,
                                       !.holds = held \cup given]]
             /\ severed' = IF turn.plan.mode = "snapshot" /\ given = {}
                           THEN severed \cup {k} ELSE severed
  /\ turn' = NoTurn(k)
  /\ UNCHANGED <<rows, inbox, lane, checkpoint, begun, restarts>>

\* the turn ends with its text in the ledger; a completed one checkpoints
Answer(k) ==
  /\ turn.pc = "active" /\ turn.kernel = k
  /\ rows' = Append(rows, Row("assistant", {begun}, Nothing, k))
  /\ native' = [native EXCEPT ![k].holds = @ \cup {begun}, ![k].heard = @ \cup {begun}]
  /\ \/ UNCHANGED checkpoint
     \/ /\ k \in Checkpointing /\ native[k].open
        /\ checkpoint' = [checkpoint EXCEPT ![k] = [kept |-> TRUE, holds |-> native'[k].holds]]
  /\ turn' = NoTurn(k)
  /\ UNCHANGED <<inbox, lane, severed, begun, restarts>>

\* activity without text, then a cancellation or an error
EndsWordless(k) ==
  /\ turn.pc = "active" /\ turn.kernel = k
  /\ turn' = NoTurn(k)
  /\ UNCHANGED <<rows, inbox, lane, native, checkpoint, severed, begun, restarts>>

\* the kernel's process exits; a turn's handler takes the owner off the lists, the
\* restore's leaves it there
OwnerDies(k) ==
  /\ k \in Checkpointing /\ native[k].open
  /\ native' = [native EXCEPT ![k].open = FALSE]
  /\ severed' = IF /\ turn.pc = "sent" /\ turn.kernel = k /\ ~native[k].restored
                   /\ turn.plan.mode # "snapshot"
                THEN severed \cup {k} ELSE severed
  /\ UNCHANGED <<rows, inbox, lane, checkpoint, turn, begun, restarts>>

Restart ==
  /\ restarts < MaxRestarts /\ restarts' = restarts + 1
  /\ inbox' = <<>> /\ turn' = NoTurn(turn.kernel)
  /\ native' = [k \in Kernels |-> Closed]
  /\ UNCHANGED <<rows, lane, checkpoint, severed, begun>>

-----------------------------------------------------------------------------
Next ==
  \/ \E u \in Inputs : UserSends(u)
  \/ \E m \in Silent : SilentArrives(m)
  \/ \E k \in Kernels :
       \/ Begin(k) \/ Restore(k) \/ Compose(k) \/ Consume(k) \/ Resync(k)
       \/ EndsUnheard(k) \/ Answer(k) \/ EndsWordless(k) \/ OwnerDies(k)
  \/ Restart

Spec == Init /\ [][Next]_vars

-----------------------------------------------------------------------------
(* Properties                                                              *)

\* When a kernel works on a turn, its private conversation holds everything the
\* ledger held when the turn was composed: no snapshot is skipped and no gap is
\* left, through kernel switches, failed turns, dead owners and restarts.  The
\* code has two exceptions, until the next snapshot: an owner that exits between
\* the composition of a delta and its dispatch, and a chat that is remembered by
\* its name although it never took the snapshot.
FullContext ==
  turn.pc = "active" /\ turn.kernel \notin severed =>
    turn.plan.seen \subseteq native[turn.kernel].holds

\* A cancelled or failed turn that was consumed is not replayed: a delta gives
\* no answer and no silent message the conversation held at its last activity.
NothingReplayed ==
  turn.pc = "sent" /\ turn.plan.mode = "delta" /\ native[turn.kernel].open =>
    Carried(turn.plan.patch) \cap (Answers \cup Silent) \cap native[turn.kernel].heard = {}

=============================================================================
