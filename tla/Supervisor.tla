----------------------------- MODULE Supervisor -----------------------------
(***************************************************************************)
(* The session's RuntimeSupervisor with the RuntimeTree, the registration  *)
(* path of AgentRegistrar and EphemeralAgentSpawner, the SessionLease and  *)
(* the completion handles: who is born under whom, who may still be        *)
(* spawned while a checkpoint, reload, deletion or shutdown drains the     *)
(* session, and in which order instances are released.                     *)
(*                                                                         *)
(* Every await of the source is a point where other calls run.  A          *)
(* controller is what TurnController shows of it here: idle, at work, or   *)
(* aborted and not yet settled.  A `required' append may fail at most      *)
(* MaxFailures times.                                                      *)
(***************************************************************************)
EXTENDS Naturals, FiniteSets

CONSTANTS
  Residents,        \* resident identities: their ids survive a reload
  Latecomers,       \* the residents registered at their first message
  ResidentParent,   \* the parent a resident's definition names
  Ephemerals,       \* instance ids of ephemeral spawns, each used once
  NoParent,
  NoOne,
  Mutators,         \* concurrent callers that gate the session
  Kinds,            \* what they do: "checkpoint", "reload", "delete"
  MaxFailures

Instances == Residents \cup Ephemerals

ASSUME IdsAssumption ==
  /\ Residents \cap Ephemerals = {}
  /\ NoParent \notin Instances /\ NoOne \notin Instances
  /\ Latecomers \subseteq Residents
ASSUME KindsAssumption == Kinds \subseteq {"checkpoint", "reload", "delete"}
ASSUME FailuresAssumption == MaxFailures \in Nat
ASSUME ParentAssumption ==
  /\ ResidentParent \in [Residents -> (Residents \ Latecomers) \cup {NoParent}]
  /\ \A r \in Latecomers : ResidentParent[r] = NoParent
  /\ \A r \in Residents : ResidentParent[r] # r

VARIABLES
  parent,           \* AgentInstance.parentInstanceId
  reg,              \* where spawnEphemeral or registerResident stands
  tree,             \* RuntimeTree.instances
  records,          \* RuntimeSupervisor.records
  ctl,              \* a controller: live, disposing or disposed
  work,             \* a controller's turns: idle, busy or aborted
  ended,            \* record.terminal is set: the instance is draining
  revived,          \* ended, and its queue has set it running or idle again
  saved,            \* record.terminalPersisted
  rel,              \* record.releasing
  mine,             \* the instance's own terminal chain awaits releasing
  handle,           \* ManagedAgentHandle.completion
  lease,            \* instances whose SessionLease token is held
  templates,        \* instances with a registered memory template
  acceptingSpawns, acceptingTurns, shutdownStarted,
  mut,              \* the callers that gate the session
  sd,               \* shutdown()
  failures          \* failed required appends so far

gates == <<acceptingSpawns, acceptingTurns, shutdownStarted>>
release == <<ended, revived, saved, rel, mine, handle>>
birth == <<parent, reg>>
holdings == <<lease, templates>>
nodes == <<tree, records>>
turns == <<ctl, work>>
vars == <<birth, nodes, turns, release, holdings, gates, mut, sd, failures>>

MutIdle == [kind |-> "none", pc |-> "idle", waits |-> {}, todo |-> {},
            scope |-> {}, cur |-> NoOne, atOnce |-> FALSE]

MutRecords ==
  [kind : {"none"} \cup Kinds,
   pc : {"idle", "draining", "quiescing", "holding", "disposing", "booting",
         "rollback"},
   waits : SUBSET Ephemerals, todo : SUBSET Residents,
   scope : SUBSET Residents, cur : Residents \cup {NoOne}, atOnce : BOOLEAN]

ShutdownRecords ==
  [pc : {"no", "draining", "closing", "removing", "done", "failed"},
   waits : SUBSET Ephemerals, left : SUBSET Instances,
   cur : Instances \cup {NoOne}, atOnce : BOOLEAN, broken : BOOLEAN]

TypeOK ==
  /\ parent \in [Instances -> Instances \cup {NoParent}]
  /\ reg \in [Instances -> {"unborn", "resolving", "registering", "inserted",
                            "adopted", "refused"}]
  /\ tree \subseteq Instances /\ records \subseteq Instances
  /\ ctl \in [Instances -> {"live", "disposing", "disposed"}]
  /\ work \in [Instances -> {"idle", "busy", "aborted"}]
  /\ ended \subseteq Ephemerals /\ revived \subseteq Ephemerals
  /\ saved \in [Ephemerals -> {"no", "saving", "saved", "lost"}]
  /\ rel \in [Ephemerals -> {"no", "waiting", "logging", "closing", "leaving",
                             "done", "failed"}]
  /\ mine \in [Ephemerals -> BOOLEAN]
  /\ handle \in [Ephemerals -> {"none", "pending", "settled", "failed"}]
  /\ lease \subseteq Ephemerals /\ templates \subseteq Ephemerals
  /\ acceptingSpawns \in BOOLEAN /\ acceptingTurns \in BOOLEAN
  /\ shutdownStarted \in BOOLEAN
  /\ mut \in [Mutators -> MutRecords] /\ sd \in ShutdownRecords
  /\ failures \in 0..MaxFailures

-----------------------------------------------------------------------------
(* RuntimeTree                                                             *)

Children(i) == {j \in tree : parent[j] = i}

\* the nodes removeSubtree(i) visits: the least set with i closed under child
Subtree(i) ==
  IF i \notin tree THEN {}
  ELSE {j \in tree : \A S \in SUBSET tree :
          i \in S /\ (\A k \in tree : parent[k] \in S => k \in S) => j \in S}

Init ==
  /\ parent = [i \in Instances |->
                 IF i \in Residents THEN ResidentParent[i] ELSE NoParent]
  /\ reg = [i \in Instances |->
              IF i \in Ephemerals \cup Latecomers THEN "unborn" ELSE "adopted"]
  /\ tree = Residents \ Latecomers /\ records = Residents \ Latecomers
  /\ ctl = [i \in Instances |-> "live"] /\ work = [i \in Instances |-> "idle"]
  /\ ended = {} /\ revived = {} /\ saved = [i \in Ephemerals |-> "no"]
  /\ rel = [i \in Ephemerals |-> "no"] /\ mine = [i \in Ephemerals |-> FALSE]
  /\ handle = [i \in Ephemerals |-> "none"]
  /\ lease = {} /\ templates = {}
  /\ acceptingSpawns = TRUE /\ acceptingTurns = TRUE /\ shutdownStarted = FALSE
  /\ mut = [m \in Mutators |-> MutIdle]
  /\ sd = [pc |-> "no", waits |-> {}, left |-> {}, cur |-> NoOne,
           atOnce |-> FALSE, broken |-> FALSE]
  /\ failures = 0

-----------------------------------------------------------------------------
(* Birth: spawnEphemeral and registerResident                              *)

\* running or idle, which an instance that has ended can be again
Takes(i) == i \notin ended \/ i \in revived

TakesChildren(p) == p \in tree /\ Takes(p) /\ ctl[p] # "disposed"

SpawnEphemeral(i, p) ==
  /\ i \in Ephemerals /\ reg[i] = "unborn"
  /\ acceptingSpawns
  /\ p # NoParent => TakesChildren(p)
  /\ parent' = [parent EXCEPT ![i] = p]
  /\ reg' = [reg EXCEPT ![i] = "resolving"]
  /\ lease' = lease \cup {i}
  /\ UNCHANGED <<nodes, turns, release, templates, gates, mut, sd, failures>>

\* registerResident: an extension persona at its first message
RegisterResident(r) ==
  /\ r \in Latecomers /\ reg[r] = "unborn"
  /\ acceptingSpawns
  /\ reg' = [reg EXCEPT ![r] = "registering"]
  /\ UNCHANGED <<parent, nodes, turns, release, holdings, gates, mut, sd,
                 failures>>

\* mutant: a refused spawn keeps its lease
RefuseKeepsLease(i) ==
  /\ reg' = [reg EXCEPT ![i] = "refused"]
  /\ templates' = templates \ {i}
  /\ UNCHANGED lease

\* the catch blocks of a failed registration
Refuse(i) ==
  /\ reg' = [reg EXCEPT ![i] = "refused"]
  /\ templates' = templates \ {i}
  /\ lease' = lease \ {i}

\* catalog.resolve answers; the registrar looks for the parent once more
SpawnResolved(i) ==
  /\ i \in Ephemerals /\ reg[i] = "resolving"
  /\ \/ /\ parent[i] # NoParent => parent[i] \in tree
        /\ reg' = [reg EXCEPT ![i] = "registering"]
        /\ templates' = templates \cup {i}
        /\ UNCHANGED lease
     \/ Refuse(i)
  /\ UNCHANGED <<parent, nodes, turns, release, gates, mut, sd, failures>>

\* agent.registered is written: RuntimeTree.insert throws on a duplicate id
\* and on a parent that has left meanwhile, and on nothing else.
Insert(i) ==
  /\ reg[i] = "registering"
  /\ IF i \notin tree /\ (parent[i] # NoParent => parent[i] \in tree)
     THEN /\ tree' = tree \cup {i}
          /\ reg' = [reg EXCEPT ![i] = "inserted"]
          /\ UNCHANGED holdings
     ELSE Refuse(i) /\ UNCHANGED tree
  /\ UNCHANGED <<parent, records, turns, release, gates, mut, sd, failures>>

RegistrationLost(i) ==
  /\ reg[i] = "registering" /\ failures < MaxFailures
  /\ failures' = failures + 1
  /\ Refuse(i)
  /\ UNCHANGED <<parent, nodes, turns, release, gates, mut, sd>>

\* adopt() asks no gate, and takes the controller that was made with this
\* registration.  A duplicate record is an error; the tree entry stays.
Adopt(i) ==
  /\ reg[i] = "inserted"
  /\ IF i \in records
     THEN Refuse(i) /\ UNCHANGED <<records, turns, handle>>
     ELSE /\ reg' = [reg EXCEPT ![i] = "adopted"]
          /\ records' = records \cup {i}
          /\ ctl' = [ctl EXCEPT ![i] = "live"] /\ work' = [work EXCEPT ![i] = "idle"]
          /\ handle' = IF i \in Ephemerals
                       THEN [handle EXCEPT ![i] = "pending"] ELSE handle
          /\ UNCHANGED holdings
  /\ UNCHANGED <<parent, tree, ended, revived, saved, rel, mine, gates, mut, sd, failures>>

-----------------------------------------------------------------------------
(* Turns and terminals                                                     *)

AcceptTurn(i) ==
  /\ acceptingTurns /\ i \in records /\ Takes(i)
  /\ ctl[i] = "live" /\ work[i] = "idle"
  /\ work' = [work EXCEPT ![i] = "busy"]
  /\ UNCHANGED <<birth, nodes, ctl, release, holdings, gates, mut, sd, failures>>

\* beginTerminal for the instances of S that have not ended
BeginTerminal(S) ==
  /\ ended' = ended \cup S
  /\ saved' = [i \in Ephemerals |->
                 IF i \in S \ ended THEN "saving" ELSE saved[i]]

AbortWork(S) ==
  work' = [i \in Instances |->
             IF i \in S /\ work[i] = "busy" THEN "aborted" ELSE work[i]]

\* The last queued turn settles and ends nothing; one that fails in an instance
\* that has ended leaves it failed.
TurnEnds(i) ==
  /\ work[i] # "idle"
  /\ work' = [work EXCEPT ![i] = "idle"]
  /\ \/ UNCHANGED revived
     \/ work[i] = "busy" /\ revived' = revived \ {i}
  /\ UNCHANGED <<birth, nodes, ctl, ended, saved, rel, mine, handle, holdings, gates,
                 mut, sd, failures>>

\* the next turn in the queue of an instance that has ended begins
Revives(i) ==
  /\ i \in ended \ revived /\ ctl[i] = "live" /\ work[i] = "busy"
  /\ revived' = revived \cup {i}
  /\ UNCHANGED <<birth, nodes, turns, ended, saved, rel, mine, handle, holdings, gates,
                 mut, sd, failures>>

\* A final, failed or interrupted turn of an ephemeral instance whose listener
\* is attached; turns left in the queue may run on.
TurnEndsInstance(i) ==
  /\ i \in Ephemerals \cap records /\ ctl[i] = "live" /\ work[i] = "busy"
  /\ \E w \in {"idle", "busy"} : work' = [work EXCEPT ![i] = w]
  /\ BeginTerminal({i})
  /\ UNCHANGED <<birth, nodes, ctl, revived, rel, mine, handle, holdings, gates, mut, sd,
                 failures>>

\* controller.cancel on each of S; a disposed controller ignores it
CancelAll(S) ==
  LET hit == {i \in S : ctl[i] = "live"}
  IN  AbortWork(hit) /\ BeginTerminal(hit) /\ revived' = revived \ hit

\* cancel(): collectSubtree throws, before any cancellation, when a node of the
\* subtree is in the tree and not adopted yet.
Cancel(i) ==
  /\ i \in Ephemerals \cap records
  /\ Subtree(i) \subseteq records
  /\ CancelAll(Subtree(i) \cup {i})
  /\ UNCHANGED <<birth, nodes, ctl, rel, mine, handle, holdings, gates, mut, sd,
                 failures>>

-----------------------------------------------------------------------------
(* Release of an ephemeral instance                                        *)

\* mutant: the record goes and the tree keeps its node
ForgetRecord(S, R) ==
  /\ records' = records \ R
  /\ lease' = lease \ R /\ templates' = templates \ R
  /\ UNCHANGED tree

\* nodes S leave the tree, records R are dropped with what they hold
Forget(S, R) ==
  /\ tree' = tree \ S
  /\ records' = records \ R
  /\ lease' = lease \ R /\ templates' = templates \ R

\* controller.dispose(): the first caller aborts and then waits for the turn in
\* flight, a later one returns at once.
Dispose(i) ==
  IF ctl[i] = "live"
  THEN ctl' = [ctl EXCEPT ![i] = "disposing"] /\ AbortWork({i})
  ELSE UNCHANGED turns

\* mutant: dispose does not wait for the turn in flight
DisposeReturnsEarly(i, atOnce) ==
  /\ ctl' = IF atOnce THEN ctl ELSE [ctl EXCEPT ![i] = "disposed"]
  /\ UNCHANGED work

DisposeReturns(i, atOnce) ==
  /\ atOnce \/ work[i] = "idle"
  /\ ctl' = IF atOnce THEN ctl ELSE [ctl EXCEPT ![i] = "disposed"]
  /\ UNCHANGED work

\* the terminal event is written: the instance's own chain goes on to
\* maybeRelease, or joins a release its last child began.
PersistTerminal(i) ==
  /\ saved[i] = "saving"
  /\ saved' = [saved EXCEPT ![i] = "saved"]
  /\ IF rel[i] = "waiting"
     THEN mine' = [mine EXCEPT ![i] = TRUE] /\ UNCHANGED rel
     ELSE IF Children(i) = {}
          THEN /\ rel' = [rel EXCEPT ![i] = "waiting"]
               /\ mine' = [mine EXCEPT ![i] = TRUE]
          ELSE UNCHANGED <<rel, mine>>
  /\ UNCHANGED <<birth, nodes, turns, ended, revived, handle, holdings, gates, mut, sd,
                 failures>>

PersistTerminalFails(i) ==
  /\ saved[i] = "saving" /\ failures < MaxFailures
  /\ failures' = failures + 1
  /\ saved' = [saved EXCEPT ![i] = "lost"]
  /\ handle' = [handle EXCEPT ![i] = "failed"]
  /\ rel' = [rel EXCEPT ![i] = IF @ = "waiting" THEN "failed" ELSE @]
  /\ revived' = revived \ {i}
  /\ UNCHANGED <<birth, nodes, turns, ended, mine, holdings, gates, mut, sd>>

\* releaseLeaf after `await record.terminalPersisted': children are looked at
\* again, and the release is given up when one has come.
ReleaseLeaf(i) ==
  /\ rel[i] = "waiting" /\ saved[i] \in {"saved", "lost"}
  /\ rel' = [rel EXCEPT ![i] = IF saved[i] = "lost" THEN "failed"
                               ELSE IF Children(i) # {} THEN "no"
                               ELSE "logging"]
  /\ UNCHANGED <<birth, nodes, turns, ended, revived, saved, mine, handle, holdings,
                 gates, mut, sd, failures>>

\* releaseLeaf throws; only the instance's own chain fails it and its handle
ReleaseThrows(i) ==
  /\ rel' = [rel EXCEPT ![i] = "failed"]
  /\ handle' = IF mine[i] THEN [handle EXCEPT ![i] = "failed"] ELSE handle
  /\ revived' = IF mine[i] THEN revived \ {i} ELSE revived
  /\ UNCHANGED turns

\* agent.disposed is written and removeRecord entered
LogDisposed(i) ==
  /\ rel[i] = "logging"
  /\ IF i \in records /\ Children(i) # {}
     THEN ReleaseThrows(i)
     ELSE /\ rel' = [rel EXCEPT ![i] =
                       IF i \in records /\ ctl[i] = "live" THEN "closing"
                       ELSE "leaving"]
          /\ IF i \in records THEN Dispose(i) ELSE UNCHANGED turns
          /\ UNCHANGED <<revived, handle>>
  /\ UNCHANGED <<birth, nodes, ended, saved, mine, holdings, gates, mut, sd,
                 failures>>

LogDisposedFails(i) ==
  /\ rel[i] = "logging" /\ failures < MaxFailures
  /\ failures' = failures + 1
  /\ ReleaseThrows(i)
  /\ UNCHANGED <<birth, nodes, ended, saved, mine, holdings, gates, mut, sd>>

\* mutant: the last child does not look after its parent
NoNextParent(i) == {}

\* the parent whose last child has just gone, if it is waiting for that
NextParent(i) ==
  {p \in Ephemerals \cap records \cap ended :
     p = parent[i] /\ Children(p) \ Subtree(i) = {} /\ rel[p] = "no"}

\* the rest of removeRecord after dispose, the handle, the parent's turn
FinishRelease(i) ==
  /\ rel[i] \in {"closing", "leaving"}
  /\ DisposeReturns(i, rel[i] = "leaving")
  /\ Forget(Subtree(i), {i})
  /\ handle' = [handle EXCEPT ![i] = IF @ = "failed" THEN @ ELSE "settled"]
  /\ rel' = [j \in Ephemerals |-> IF j = i THEN "done"
                                  ELSE IF j \in NextParent(i) THEN "waiting"
                                  ELSE rel[j]]
  /\ mine' = [j \in Ephemerals |-> mine[j] /\ j \notin NextParent(i)]
  /\ UNCHANGED <<birth, ended, revived, saved, gates, mut, sd, failures>>

-----------------------------------------------------------------------------
(* Callers that gate the session: checkpoint, reload, resident deletion    *)

CloseGates == acceptingSpawns' = FALSE /\ acceptingTurns' = FALSE

\* release() and the finally of removeResidentSubtree
Reopen ==
  IF shutdownStarted THEN UNCHANGED <<acceptingSpawns, acceptingTurns>>
  ELSE acceptingSpawns' = TRUE /\ acceptingTurns' = TRUE

\* recorded ephemerals whose parent is no recorded ephemeral
EphemeralRoots ==
  {i \in Ephemerals \cap records : parent[i] \notin Ephemerals \cap records}

Answered(S) == \A i \in S : handle[i] \in {"settled", "failed"}

\* prepareForSessionMutation up to its first await
Prepare(m, k) ==
  /\ mut[m].pc = "idle" /\ k \in Kinds \cap {"checkpoint", "reload"}
  /\ ~shutdownStarted
  /\ CloseGates
  /\ CancelAll(Ephemerals \cap records)
  /\ mut' = [mut EXCEPT ![m] = [MutIdle EXCEPT !.kind = k, !.pc = "draining",
                                               !.waits = EphemeralRoots]]
  /\ UNCHANGED <<birth, nodes, ctl, rel, mine, handle, holdings,
                 shutdownStarted, sd, failures>>

\* removeResidentSubtree up to its first await
DeleteResident(m, r) ==
  /\ mut[m].pc = "idle" /\ "delete" \in Kinds
  /\ r \in Residents \cap records /\ Subtree(r) \subseteq records
  /\ CloseGates
  /\ CancelAll(Subtree(r) \cap Ephemerals)
  /\ mut' = [mut EXCEPT ![m] =
               [MutIdle EXCEPT !.kind = "delete", !.pc = "draining",
                               !.waits = Subtree(r) \cap Ephemerals,
                               !.todo = (Subtree(r) \cup {r}) \cap Residents,
                               !.scope = {r}]]
  /\ UNCHANGED <<birth, nodes, ctl, rel, mine, handle, holdings,
                 shutdownStarted, sd, failures>>

\* collectSubtree throws on a node not adopted yet; the finally opens the gates
DeleteResidentThrows(m, r) ==
  /\ mut[m].pc = "idle" /\ "delete" \in Kinds
  /\ r \in Residents \cap records /\ ~(Subtree(r) \subseteq records)
  /\ Reopen
  /\ UNCHANGED <<birth, nodes, turns, release, holdings, shutdownStarted, mut,
                 sd, failures>>

\* interruptAndClear on every resident
InterruptResidents(S) == AbortWork({r \in S : ctl[r] = "live"})

Drained(m) ==
  /\ mut[m].pc = "draining" /\ Answered(mut[m].waits)
  /\ IF mut[m].kind = "delete"
     THEN /\ mut' = [mut EXCEPT ![m] =
                    [@ EXCEPT !.pc = "disposing", !.waits = {},
                              !.todo = mut[m].todo \cap records]]
          /\ UNCHANGED work
     ELSE /\ InterruptResidents(Residents \cap records)
          /\ mut' = [mut EXCEPT ![m] =
                       [@ EXCEPT !.pc = "quiescing", !.waits = {},
                                 !.todo = Residents \cap records]]
  /\ UNCHANGED <<birth, nodes, ctl, release, holdings, gates, sd, failures>>

\* mutant: the barrier interrupts and does not wait
QuiescedAtOnce(m, r) ==
  /\ mut[m].pc = "quiescing" /\ r \in mut[m].todo
  /\ mut' = [mut EXCEPT ![m] = [@ EXCEPT !.todo = mut[m].todo \ {r}]]
  /\ UNCHANGED <<birth, nodes, turns, release, holdings, gates, sd, failures>>

\* one resident's waitForQuiescence resolves
Quiesced(m, r) ==
  /\ mut[m].pc = "quiescing" /\ r \in mut[m].todo
  /\ work[r] = "idle"
  /\ mut' = [mut EXCEPT ![m] = [@ EXCEPT !.todo = mut[m].todo \ {r}]]
  /\ UNCHANGED <<birth, nodes, turns, release, holdings, gates, sd, failures>>

\* every store is flushed: the caller holds the barrier
Hold(m) ==
  /\ mut[m].pc = "quiescing" /\ mut[m].todo = {}
  /\ mut' = IF mut[m].kind = "checkpoint"
            THEN [mut EXCEPT ![m] = [@ EXCEPT !.pc = "holding"]]
            ELSE [mut EXCEPT ![m] =
                    [@ EXCEPT !.pc = "disposing",
                              !.todo = tree \cap records \cap Residents,
                              !.scope = tree \cap Residents]]
  /\ UNCHANGED <<birth, nodes, turns, release, holdings, gates, sd, failures>>

\* the caller's finally
Release(m) ==
  /\ mut[m].pc = "holding"
  /\ Reopen
  /\ mut' = [mut EXCEPT ![m] = MutIdle]
  /\ UNCHANGED <<birth, nodes, turns, release, holdings, shutdownStarted, sd,
                 failures>>

\* reload and deletion dispose the residents, descendants first
DisposeResident(m, r) ==
  /\ mut[m].pc = "disposing" /\ mut[m].cur = NoOne
  /\ r \in mut[m].todo /\ \A k \in mut[m].todo : parent[k] # r
  /\ Dispose(r)
  /\ mut' = [mut EXCEPT ![m] =
               [@ EXCEPT !.todo = mut[m].todo \ {r}, !.cur = r,
                         !.atOnce = (ctl[r] # "live")]]
  /\ UNCHANGED <<birth, nodes, release, holdings, gates, sd, failures>>

\* dispose returns and agent.deleted or agent.runtime_reloaded is written
ResidentDisposed(m) ==
  LET r == mut[m].cur
  IN  /\ mut[m].pc = "disposing" /\ r # NoOne
      /\ DisposeReturns(r, mut[m].atOnce)
      /\ \/ /\ mut' = [mut EXCEPT ![m] = [@ EXCEPT !.cur = NoOne]]
            /\ UNCHANGED <<acceptingSpawns, acceptingTurns, failures>>
         \/ /\ failures < MaxFailures /\ failures' = failures + 1
            /\ mut' = [mut EXCEPT ![m] = MutIdle]
            /\ Reopen
      /\ UNCHANGED <<birth, nodes, release, holdings, shutdownStarted, sd>>

\* the one topology mutation of a deletion
DeleteSubtree(m) ==
  \E r \in mut[m].scope :
      /\ mut[m].kind = "delete" /\ mut[m].pc = "disposing"
      /\ mut[m].todo = {} /\ mut[m].cur = NoOne
      /\ Forget(Subtree(r), Subtree(r) \cap records)
      /\ Reopen
      /\ mut' = [mut EXCEPT ![m] = MutIdle]
      /\ UNCHANGED <<birth, turns, release, shutdownStarted, sd, failures>>

\* reload: the subtree of every root leaves the tree, which is all of it, the
\* listed residents' records go, the barrier is released, the bootstrap begins
ClearForReload(m) ==
  /\ mut[m].kind = "reload" /\ mut[m].pc = "disposing"
  /\ mut[m].todo = {} /\ mut[m].cur = NoOne
  /\ Forget(tree, mut[m].scope)
  /\ Reopen
  /\ mut' = [mut EXCEPT ![m] = [@ EXCEPT !.pc = "booting", !.scope = {}]]
  /\ UNCHANGED <<birth, turns, release, shutdownStarted, sd, failures>>

\* bootstrapResidents registers the next definition; what the directory scan
\* found is not known here.  A duplicate record leaves its tree entry.
Boot(m, r) ==
  LET rooted == ResidentParent[r] = NoParent \/ ResidentParent[r] \in tree
      born == rooted /\ r \notin tree /\ r \notin records
  IN  /\ mut[m].pc = "booting" /\ r \in Residents \ mut[m].scope
      /\ ResidentParent[r] # NoParent => ResidentParent[r] \in mut[m].scope
      /\ tree' = IF rooted THEN tree \cup {r} ELSE tree
      /\ records' = IF born THEN records \cup {r} ELSE records
      /\ ctl' = IF born THEN [ctl EXCEPT ![r] = "live"] ELSE ctl
      /\ work' = IF born THEN [work EXCEPT ![r] = "idle"] ELSE work
      /\ mut' = IF born
                THEN [mut EXCEPT ![m] = [@ EXCEPT !.scope = mut[m].scope \cup {r}]]
                ELSE [mut EXCEPT ![m] =
                        [@ EXCEPT !.pc = "rollback", !.todo = mut[m].scope,
                                  !.scope = {}]]
      /\ UNCHANGED <<birth, release, holdings, gates, sd, failures>>

\* a registration of the bootstrap fails before it has inserted anything
BootLost(m) ==
  /\ mut[m].pc = "booting"
  /\ mut' = [mut EXCEPT ![m] = [@ EXCEPT !.pc = "rollback", !.todo = mut[m].scope,
                                         !.scope = {}]]
  /\ UNCHANGED <<birth, nodes, turns, release, holdings, gates, sd, failures>>

\* a failed bootstrap removes what it registered, last first
RollbackBegins(m, r) ==
  /\ mut[m].pc = "rollback" /\ mut[m].cur = NoOne
  /\ r \in mut[m].todo /\ \A k \in mut[m].todo : parent[k] # r
  /\ IF r \notin records
     THEN /\ mut' = [mut EXCEPT ![m] = [@ EXCEPT !.todo = mut[m].todo \ {r}]]
          /\ UNCHANGED turns
     ELSE IF Children(r) # {}
     THEN mut' = [mut EXCEPT ![m] = MutIdle] /\ UNCHANGED turns
     ELSE /\ Dispose(r)
          /\ mut' = [mut EXCEPT ![m] =
                       [@ EXCEPT !.todo = mut[m].todo \ {r}, !.cur = r,
                                 !.atOnce = (ctl[r] # "live")]]
  /\ UNCHANGED <<birth, nodes, release, holdings, gates, sd, failures>>

RollbackEnds(m) ==
  /\ mut[m].pc = "rollback" /\ mut[m].cur # NoOne
  /\ DisposeReturns(mut[m].cur, mut[m].atOnce)
  /\ Forget(Subtree(mut[m].cur), {mut[m].cur})
  /\ mut' = [mut EXCEPT ![m] = [@ EXCEPT !.cur = NoOne]]
  /\ UNCHANGED <<birth, release, gates, sd, failures>>

BootDone(m) ==
  /\ \/ mut[m].pc = "booting"
     \/ mut[m].pc = "rollback" /\ mut[m].todo = {} /\ mut[m].cur = NoOne
  /\ mut' = [mut EXCEPT ![m] = MutIdle]
  /\ UNCHANGED <<birth, nodes, turns, release, holdings, gates, sd, failures>>

-----------------------------------------------------------------------------
(* shutdown(): once, from Session.dispose                                  *)

Shutdown ==
  /\ sd.pc = "no"
  /\ shutdownStarted' = TRUE
  /\ CloseGates
  /\ CancelAll(Ephemerals \cap records)
  /\ sd' = [sd EXCEPT !.pc = "draining", !.waits = EphemeralRoots]
  /\ UNCHANGED <<birth, nodes, ctl, rel, mine, handle, holdings, mut, failures>>

ShutdownDrained ==
  /\ sd.pc = "draining" /\ Answered(sd.waits)
  /\ sd' = [sd EXCEPT !.pc = "closing", !.waits = {}, !.left = tree]
  /\ UNCHANGED <<birth, nodes, turns, release, holdings, gates, mut, failures>>

\* Descendants first, agent.session_closed is written, or not, and removeRecord
\* entered; it throws on a node that has children again.
ShutdownNext(i) ==
  /\ sd.pc = "closing"
  /\ i \in sd.left /\ \A k \in sd.left : parent[k] # i
  /\ IF i \notin records
     THEN sd' = [sd EXCEPT !.left = sd.left \ {i}] /\ UNCHANGED <<turns, failures>>
     ELSE \E lost \in BOOLEAN :
            /\ lost => failures < MaxFailures
            /\ failures' = IF lost THEN failures + 1 ELSE failures
            /\ IF Children(i) # {}
               THEN sd' = [sd EXCEPT !.pc = "failed"] /\ UNCHANGED turns
               ELSE /\ Dispose(i)
                    /\ sd' = [sd EXCEPT !.pc = "removing", !.left = sd.left \ {i},
                                        !.cur = i, !.broken = lost,
                                        !.atOnce = (ctl[i] # "live")]
  /\ UNCHANGED <<birth, nodes, release, holdings, gates, mut>>

ShutdownRemoves ==
  /\ sd.pc = "removing"
  /\ DisposeReturns(sd.cur, sd.atOnce)
  /\ Forget(Subtree(sd.cur), {sd.cur})
  /\ sd' = [sd EXCEPT !.pc = IF sd.broken THEN "failed" ELSE "closing",
                      !.cur = NoOne]
  /\ UNCHANGED <<birth, release, gates, mut, failures>>

ShutdownDone ==
  /\ sd.pc = "closing" /\ sd.left = {}
  /\ sd' = [sd EXCEPT !.pc = "done"]
  /\ UNCHANGED <<birth, nodes, turns, release, holdings, gates, mut, failures>>

-----------------------------------------------------------------------------
BirthStep(i) == SpawnResolved(i) \/ Insert(i) \/ RegistrationLost(i) \/ Adopt(i)

ReleaseStep(i) ==
  \/ PersistTerminal(i) \/ PersistTerminalFails(i) \/ ReleaseLeaf(i)
  \/ LogDisposed(i) \/ LogDisposedFails(i) \/ FinishRelease(i)

MutStep(m) ==
  \/ Drained(m) \/ Hold(m) \/ Release(m) \/ ResidentDisposed(m)
  \/ DeleteSubtree(m) \/ ClearForReload(m) \/ RollbackEnds(m) \/ BootLost(m)
  \/ BootDone(m)
  \/ \E r \in Residents :
       \/ Quiesced(m, r) \/ DisposeResident(m, r) \/ Boot(m, r)
       \/ RollbackBegins(m, r)

ShutdownStep ==
  \/ ShutdownDrained \/ ShutdownRemoves \/ ShutdownDone
  \/ \E i \in Instances : ShutdownNext(i)

Next ==
  \/ \E i \in Ephemerals : \E p \in Instances \cup {NoParent} :
       SpawnEphemeral(i, p)
  \/ \E r \in Residents : RegisterResident(r)
  \/ \E i \in Instances : BirthStep(i) \/ AcceptTurn(i) \/ TurnEnds(i)
  \/ \E i \in Ephemerals : TurnEndsInstance(i) \/ Revives(i) \/ Cancel(i) \/ ReleaseStep(i)
  \/ \E m \in Mutators :
       \/ \E k \in Kinds : Prepare(m, k)
       \/ \E r \in Residents : DeleteResident(m, r) \/ DeleteResidentThrows(m, r)
       \/ MutStep(m)
  \/ Shutdown \/ ShutdownStep

Spec == Init /\ [][Next]_vars

\* Continuations run, files are eventually written, an aborted executor
\* settles and a caller leaves its barrier; turns, spawns and cancellations
\* are free to happen or not.
Fairness ==
  /\ \A i \in Instances : WF_vars(BirthStep(i))
  /\ \A i \in Instances : WF_vars(work[i] = "aborted" /\ TurnEnds(i))
  /\ \A i \in Ephemerals : WF_vars(ReleaseStep(i))
  /\ \A m \in Mutators : WF_vars(MutStep(m))
  /\ WF_vars(ShutdownStep)

FairSpec == Spec /\ Fairness

-----------------------------------------------------------------------------
(* Properties                                                              *)

\* RuntimeTree.assertTopology never throws: whatever leaves the tree, no node
\* is left behind whose parent is gone.
TreeIsClosed == \A i \in tree : parent[i] # NoParent => parent[i] \in tree

\* What stands in the tree belongs to a record, or to a registration that is
\* about to write one: nothing is listed that nobody can cancel for good.
TreeIsOwned == \A i \in tree \ records : reg[i] = "inserted"

\* The lease keeps the session loaded exactly while an ephemeral spawn is under
\* way or recorded, and its memory template lives no longer.
NothingLeaks ==
  \A i \in Ephemerals :
    /\ i \in lease <=>
         i \in records \/ reg[i] \in {"resolving", "registering", "inserted"}
    /\ i \in templates <=>
         i \in records \/ reg[i] \in {"registering", "inserted"}

\* A settled handle tells its waiter the instance is gone: out of the tree and
\* the records, its lease returned.
CompletionMeansGone ==
  \A i \in Ephemerals :
    handle[i] = "settled" => i \notin tree \cup records \cup lease

\* ... and its executor is at rest, unless a shutdown disposed the controller
\* first: a second dispose() returns at once.
CompletionMeansAtRest ==
  \A i \in Ephemerals :
    handle[i] = "settled" => shutdownStarted \/ work[i] = "idle"

\* A settled handle is the end of the instance: it is gone, and at rest
\* (releaseLeaf, removeRecord).
CompletionIsTheEnd == CompletionMeansGone /\ CompletionMeansAtRest

Holding(m) ==
  mut[m].pc = "holding" \/ (mut[m].kind = "reload" /\ mut[m].pc = "disposing")

\* While a caller holds the barrier of prepareForSessionMutation no resident is
\* at work and no turn can begin.
HoldIsQuiet ==
  \A m \in Mutators : Holding(m) =>
    /\ ~acceptingTurns /\ ~acceptingSpawns
    /\ \A r \in Residents \cap records : work[r] = "idle"

\* Nothing reopens a session that is shutting down, whichever barrier is
\* released, whichever deletion ends after shutdown() has begun.
ShutdownIsFinal == shutdownStarted => ~acceptingSpawns /\ ~acceptingTurns

\* An instance that has ended is released and its handle answered, unless a
\* descendant lives on, an append or a release of one has failed (nothing tries
\* it again) or the session shuts down: the last child to go wakes the parent.
\* (An end is for ever, so such a moment always comes again.)
Lingers(i) ==
  \/ rel[i] = "failed"
  \/ \E j \in Subtree(i) \ {i} : j \notin ended \/ rel[j] = "failed" \/ handle[j] = "failed"

EndedIsReleased ==
  []<>(\A i \in ended : handle[i] \in {"settled", "failed"} \/ Lingers(i) \/ shutdownStarted)
=============================================================================
