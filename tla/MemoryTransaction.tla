------------------------- MODULE MemoryTransaction -------------------------
(***************************************************************************)
(* The file writer of an NPC's memory (file-memory-transaction-store.ts     *)
(* behind file-soul-memory-provider.ts): a command becomes one file of the  *)
(* NPC's directory by way of an intent that freezes its name, an index and  *)
(* a receipt.  Every record and every file appears whole or not at all      *)
(* (temporary file, fsync, rename), so a command stops between two steps    *)
(* and nowhere else; the outbox delivers it again until it has an answer.   *)
(* All commands here are of one NPC and their facts slug alike (every text  *)
(* without a Latin letter does), so they compete for the names entry.md,    *)
(* entry-2.md, ... of a directory.                                          *)
(***************************************************************************)
EXTENDS MemoryCommands, Naturals, FiniteSets, Functions, FiniteSetsExt

CONSTANTS
  DirOf,           \* where its fact goes: the traits all games share, or its game's episodes
  Earlier,         \* the commands of its scope the outbox delivers before it
  Mishaps,         \* bound: steps that throw, and deaths of the process
  Hands,           \* bound: files written, edited or removed by somebody else
  None, Other      \* no file; a text no command wrote

ASSUME TransactionAssumption ==
  /\ IsFiniteSet(Commands) /\ {None, Other} \cap Commands = {} /\ None # Other
  /\ Mishaps \in Nat /\ Hands \in Nat
  /\ \A c \in Commands :
       Earlier[c] \subseteq {d \in Commands \ {c} : ScopeOf[d] = ScopeOf[c]}
  /\ \A c, d \in Commands :
       c # d /\ ScopeOf[c] = ScopeOf[d] => c \in Earlier[d] \/ d \in Earlier[c]

Suffixes == 1..(Cardinality(Commands) + Hands)   \* one of them is always free
Names == {DirOf[c] : c \in Commands} \X Suffixes

ASSUME NamesAssumption == None \notin Names

VARIABLES
  files,           \* the NPC's directory
  index,           \* the names MEMORY.md lists
  intent, receipt, \* the plan in the state directory's records
  at,              \* how far the delivery under way is
  mending,         \* it recovers a command that began earlier
  answer,          \* the outbox's terminal record
  mishaps, hands,  \* what the bounds still allow
  touched          \* the names somebody else has written, edited or removed

mtvars == <<files, index, intent, receipt, at, mending, answer, mishaps, hands, touched>>
disk == <<files, index, intent, receipt>>
world == <<answer, mishaps, hands, touched>>

MTTypeOK ==
  /\ files \in [Names -> Commands \cup {None, Other}] /\ index \subseteq Names
  /\ intent \in [Commands -> Names \cup {None}] /\ receipt \in [Commands -> Names \cup {None}]
  /\ at \in [Commands -> {"idle", "check", "write", "index", "receipt", "clean",
                          "written", "rejected"}]
  /\ mending \in BOOLEAN
  /\ answer \in [Commands -> {"none", "written", "rejected"}]
  /\ mishaps \in 0..Mishaps /\ hands \in 0..Hands /\ touched \subseteq Names

MTInit ==
  /\ files = [f \in Names |-> None] /\ index = {}
  /\ intent = [c \in Commands |-> None] /\ receipt = [c \in Commands |-> None]
  /\ at = [c \in Commands |-> "idle"] /\ mending = FALSE
  /\ answer = [c \in Commands |-> "none"]
  /\ mishaps = Mishaps /\ hands = Hands /\ touched = {}

Told == {"written", "rejected"}
Inside(c) == at[c] \notin Told \cup {"idle"}
Goes(c, step) == at' = [at EXCEPT ![c] = step]

\* what a command is to write: its record's plan, whichever record it is
Plan(c) == IF intent[c] # None THEN intent[c] ELSE receipt[c]

(***************************************************************************)
(* A delivery.  The queue of the root, and its lock file between processes, *)
(* let one command in at a time.                                            *)
(***************************************************************************)
\* mutant: a queue per scope instead of one per root
FreePerScope(c) == \A d \in Commands : ScopeOf[d] = ScopeOf[c] => ~Inside(d)

Free(c) == \A d \in Commands : ~Inside(d)

\* mutant: a command the provider rejected stays at the head of its scope
DeliveredAfter(c) ==
  /\ answer[c] = "none" /\ at[c] = "idle" /\ Free(c)
  /\ \A d \in Earlier[c] : answer[d] = "written"

Delivered(c) ==
  /\ answer[c] = "none" /\ at[c] = "idle" /\ Free(c)
  /\ \A d \in Earlier[c] : answer[d] # "none"

\* mutant: the name after the last that is taken
FreeSuffixAfter(c) == 1 + Max({0} \cup {n \in Suffixes : files[<<DirOf[c], n>>] # None})

\* the first free name: what other commands have planned is not looked at
FreeSuffix(c) == Min({n \in Suffixes : files[<<DirOf[c], n>>] = None})

\* mutant: as long as there is no receipt, a delivery plans anew
FreezeAnew(c) ==
  /\ Delivered(c) /\ receipt[c] = None
  /\ intent' = [intent EXCEPT ![c] = <<DirOf[c], FreeSuffix(c)>>]
  /\ mending' = FALSE /\ Goes(c, "check")
  /\ UNCHANGED <<files, index, receipt>> /\ UNCHANGED world

Freeze(c) ==
  /\ Delivered(c) /\ Plan(c) = None
  /\ intent' = [intent EXCEPT ![c] = <<DirOf[c], FreeSuffix(c)>>]
  /\ mending' = FALSE /\ Goes(c, "check")
  /\ UNCHANGED <<files, index, receipt>> /\ UNCHANGED world

\* a record is left of an earlier delivery
Resume(c) ==
  /\ Delivered(c) /\ Plan(c) # None
  /\ mending' = TRUE /\ Goes(c, "check")
  /\ UNCHANGED disk /\ UNCHANGED world

Checked(c) ==
  CASE files[Plan(c)] = None -> "write"
    [] files[Plan(c)] = c    -> "index"
    [] OTHER                 -> "rejected"

Check(c) ==
  /\ at[c] = "check" /\ Goes(c, Checked(c))
  /\ UNCHANGED mending /\ UNCHANGED disk /\ UNCHANGED world

\* the rename replaces what may have come to stand there since
Materialize(c) ==
  /\ at[c] = "write" /\ files' = [files EXCEPT ![Plan(c)] = c] /\ Goes(c, "index")
  /\ UNCHANGED <<index, intent, receipt, mending>> /\ UNCHANGED world

\* with a receipt and no intent left there is nothing more to do
AfterIndex(c) ==
  IF receipt[c] = None THEN "receipt" ELSE IF intent[c] # None THEN "clean" ELSE "written"

\* mutant: a recovered command trusts the index it finds
ListedOnce(c) == IF mending THEN index ELSE {f \in Names : files[f] # None}

Listed(c) == {f \in Names : files[f] # None}

Reindex(c) ==
  /\ at[c] = "index" /\ index' = Listed(c) /\ Goes(c, AfterIndex(c))
  /\ UNCHANGED <<files, intent, receipt, mending>> /\ UNCHANGED world

WriteReceipt(c) ==
  /\ at[c] = "receipt" /\ receipt' = [receipt EXCEPT ![c] = Plan(c)]
  /\ Goes(c, "clean") /\ UNCHANGED <<files, index, intent, mending>> /\ UNCHANGED world

\* the commit goes on after a recovery: it finds the receipt and checks once more
Clean(c) ==
  /\ at[c] = "clean" /\ intent' = [intent EXCEPT ![c] = None]
  /\ Goes(c, IF mending THEN "check" ELSE "written")
  /\ UNCHANGED <<files, index, receipt, mending>> /\ UNCHANGED world

\* the outbox puts the answer in its journal
RecordAnswer(c) ==
  /\ at[c] \in Told /\ answer' = [answer EXCEPT ![c] = at[c]] /\ Goes(c, "idle")
  /\ UNCHANGED <<mending, mishaps, hands, touched>> /\ UNCHANGED disk

(***************************************************************************)
(* What goes wrong, and who else writes in the directory.                   *)
(***************************************************************************)
Mishap == mishaps > 0 /\ mishaps' = mishaps - 1

\* mutant: an error of the file system is terminal
ThrowTerminal(c) ==
  /\ Mishap /\ at[c] # "idle" /\ Goes(c, "rejected")
  /\ UNCHANGED <<mending, answer, hands, touched>> /\ UNCHANGED disk

\* a step throws, or the outbox's record does: the command is tried again later
Throw(c) ==
  /\ Mishap /\ at[c] # "idle" /\ Goes(c, "idle")
  /\ UNCHANGED <<mending, answer, hands, touched>> /\ UNCHANGED disk

MTCrash ==
  /\ Mishap /\ at' = [c \in Commands |-> "idle"]
  /\ UNCHANGED <<mending, answer, hands, touched>> /\ UNCHANGED disk

\* an editor, an agent's file tool, or the writer without transactions
Touch(f) ==
  /\ hands > 0 /\ hands' = hands - 1 /\ touched' = touched \cup {f}
  /\ \E text \in {None, Other} \ {files[f]} : files' = [files EXCEPT ![f] = text]
  /\ UNCHANGED <<index, intent, receipt, at, mending, answer, mishaps>>

MTWork(c) ==
  \/ Freeze(c) \/ Resume(c) \/ Check(c) \/ Materialize(c) \/ Reindex(c)
  \/ WriteReceipt(c) \/ Clean(c) \/ RecordAnswer(c)

MTNext ==
  \/ \E c \in Commands : MTWork(c) \/ Throw(c)
  \/ MTCrash
  \/ \E f \in Names : Touch(f)

MTSpec == MTInit /\ [][MTNext]_mtvars

(***************************************************************************)
(* The outbox delivers a command until it has an answer, and the event loop *)
(* runs the steps of a delivery.                                            *)
(***************************************************************************)
MTFairSpec == MTSpec /\ \A c \in Commands : WF_mtvars(MTWork(c))

(***************************************************************************)
(* Safety                                                                   *)
(***************************************************************************)
\* A fact has its file: where a receipt says a command's text was written, the
\* text stands, whichever step of this or another command was cut short; only
\* somebody else's hand can have changed that (commitIntent,
\* ensureReceiptMaterialized).
ReceiptIsBacked ==
  \A c \in Commands :
    receipt[c] # None => files[receipt[c]] = c \/ receipt[c] \in touched

\* A fact is written once: whatever is delivered again after whatever crash, no
\* command's text ever stands in two files, because its name is frozen on disk
\* before the first of them can exist (commit, recoverOne).
WrittenOnce ==
  \A c \in Commands : Cardinality({f \in Names : files[f] = c}) <= 1

\* A receipt says what the directory holds: the fact, and the fact once.
ReceiptsAreTrue == ReceiptIsBacked /\ WrittenOnce

\* MEMORY.md can be relied on: it lists the file of every command that was
\* answered "written" and no file that is missing, unless somebody else has put
\* the file there or taken it away since (rebuildMemoryIndexAsync in commitIntent
\* and ensureReceiptMaterialized).
IndexIsTrue ==
  /\ \A c \in Commands :
       "written" \in {at[c], answer[c]} => receipt[c] \in index \cup touched
  /\ \A f \in index : files[f] # None \/ f \in touched

\* A command is given up for a cause: somebody else's hand was on the name it
\* had planned, or a command of another scope, which does not see its intent,
\* has taken the name before a retry got to it (commit, commitIntent;
\* terminalWriteErrorCode: a conflict is terminal).  The second costs a fact
\* where nobody else wrote.
RejectedForCause ==
  \A c \in Commands :
    "rejected" \in {at[c], answer[c]} =>
      \/ Plan(c) \in touched
      \/ \E d \in Commands : ScopeOf[d] # ScopeOf[c] /\ Plan(d) = Plan(c)

\* No step of the writer replaces or removes the text of another command: what
\* its rename may destroy is only what somebody else put there between its check
\* and its rename (commitIntent).
NothingLost ==
  [][\A f \in Names : files[f] \in Commands /\ files'[f] # files[f] => hands' < hands]_mtvars

(***************************************************************************)
(* Liveness                                                                 *)
(***************************************************************************)
\* Every accepted command is written or given up, also those behind a command
\* that was given up and those whose delivery was cut short at any step (the
\* file host sets no bound to the attempts).
EveryCommandAnswered == <>[](\A c \in Commands : answer[c] # "none")
=============================================================================
