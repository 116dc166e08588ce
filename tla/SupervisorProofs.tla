-------------------------- MODULE SupervisorProofs --------------------------
(***************************************************************************)
(* Proofs about Supervisor for every tree of residents, any number of      *)
(* ephemeral instances and any number of concurrent mutations: the tree    *)
(* stays closed and owned, leases and memory templates are held exactly    *)
(* while they are needed, a settled handle means the instance is gone, and *)
(* a shutdown is final.  Where callers that gate the session do not        *)
(* overlap, a held barrier is quiet and a settled handle means rest.       *)
(***************************************************************************)
EXTENDS Supervisor, TLAPS

-----------------------------------------------------------------------------
(* The tree                                                                *)

\* Subtree(i) is a part of the tree with i in it.
LEMMA SubtreeInTree ==
  ASSUME NEW i
  PROVE  /\ Subtree(i) \subseteq tree
         /\ i \in tree => i \in Subtree(i)
  BY DEF Subtree

\* A child of a visited node is visited.
LEMMA SubtreeTakesChildren ==
  ASSUME NEW i, NEW j \in tree, parent[j] \in Subtree(i)
  PROVE  j \in Subtree(i)
<1>1. i \in tree
  BY DEF Subtree
<1>2. ASSUME NEW S \in SUBSET tree, i \in S,
             \A k \in tree : parent[k] \in S => k \in S
      PROVE  j \in S
  <2>1. parent[j] \in S
    BY <1>1, <1>2 DEF Subtree
  <2> QED
    BY <1>2, <2>1
<1> QED
  BY <1>1, <1>2 DEF Subtree

\* Removing a subtree leaves no orphan.
LEMMA RemovalKeepsClosed ==
  ASSUME TreeIsClosed, NEW i, NEW j \in tree \ Subtree(i), parent[j] # NoParent
  PROVE  parent[j] \in tree \ Subtree(i)
  BY SubtreeTakesChildren DEF TreeIsClosed

ParentsFixed == \A r \in Residents : parent[r] = ResidentParent[r]

\* Below an ephemeral instance there are only ephemeral instances.
LEMMA EphemeralSubtree ==
  ASSUME TypeOK, ParentsFixed, NEW i \in Ephemerals
  PROVE  Subtree(i) \subseteq Ephemerals
<1> DEFINE S == tree \cap Ephemerals
<1>1. CASE i \notin tree
  BY <1>1 DEF Subtree
<1>2. CASE i \in tree
  <2>1. ASSUME NEW k \in tree, parent[k] \in S
        PROVE  k \in S
    <3>1. k \in Residents => parent[k] \in Residents \cup {NoParent}
      BY ParentAssumption DEF ParentsFixed
    <3>2. parent[k] \notin Residents \cup {NoParent}
      BY <2>1, IdsAssumption DEF Instances
    <3> QED
      BY <2>1, <3>1, <3>2 DEF TypeOK, Instances
  <2>2. S \in SUBSET tree /\ i \in S
    BY <1>2
  <2>3. \A k \in tree : parent[k] \in S => k \in S
    BY <2>1
  <2>4. SUFFICES ASSUME NEW j \in Subtree(i) PROVE j \in S
    OBVIOUS
  <2> HIDE DEF S
  <2> QED
    BY <1>2, <2>2, <2>3 DEF Subtree
<1> QED
  BY <1>1, <1>2

-----------------------------------------------------------------------------
(* Type correctness                                                        *)

LEMMA MutIdleType == MutIdle \in MutRecords
  BY DEF MutIdle, MutRecords

LEMMA InitType == Init => TypeOK
<1> SUFFICES ASSUME Init PROVE TypeOK
  OBVIOUS
<1>1. parent \in [Instances -> Instances \cup {NoParent}]
  BY ParentAssumption DEF Init, Instances
<1>2. mut \in [Mutators -> MutRecords] /\ sd \in ShutdownRecords
  BY MutIdleType DEF Init, ShutdownRecords
<1>3. failures \in 0..MaxFailures
  BY FailuresAssumption DEF Init
<1> QED
  BY <1>1, <1>2, <1>3 DEF Init, TypeOK, Instances

\* The steps of a birth.
LEMMA BirthType ==
  ASSUME TypeOK, NEW i \in Instances,
         \/ \E p \in Instances \cup {NoParent} : SpawnEphemeral(i, p)
         \/ RegisterResident(i)
         \/ SpawnResolved(i) \/ Insert(i) \/ RegistrationLost(i) \/ Adopt(i)
  PROVE  TypeOK'
<1>1. CASE \E p \in Instances \cup {NoParent} : SpawnEphemeral(i, p)
  <2>1. PICK p \in Instances \cup {NoParent} : SpawnEphemeral(i, p)
    BY <1>1
  <2> QED
    BY <2>1 DEF TypeOK, SpawnEphemeral, nodes, turns, release, gates
<1>2. CASE RegisterResident(i)
  BY <1>2 DEF TypeOK, RegisterResident, nodes, turns, release, holdings, gates
<1>3. CASE SpawnResolved(i)
  BY <1>3 DEF TypeOK, SpawnResolved, Refuse, nodes, turns, release, gates
<1>4. CASE Insert(i)
  BY <1>4 DEF TypeOK, Insert, Refuse, turns, release, holdings, gates
<1>5. CASE RegistrationLost(i)
  BY <1>5, FailuresAssumption
     DEF TypeOK, RegistrationLost, Refuse, nodes, turns, release, gates
<1>6. CASE Adopt(i)
  BY <1>6 DEF TypeOK, Adopt, Refuse, turns, holdings, gates
<1> QED
  BY <1>1, <1>2, <1>3, <1>4, <1>5, <1>6

\* CancelAll changes work, ended, revived and saved and keeps their types.
LEMMA CancelType ==
  ASSUME TypeOK, NEW S \in SUBSET Ephemerals, CancelAll(S)
  PROVE  /\ work' \in [Instances -> {"idle", "busy", "aborted"}]
         /\ ended' \subseteq Ephemerals /\ revived' \subseteq Ephemerals
         /\ saved' \in [Ephemerals -> {"no", "saving", "saved", "lost"}]
  BY DEF TypeOK, CancelAll, AbortWork, BeginTerminal

LEMMA DisposeType ==
  ASSUME TypeOK, NEW i \in Instances, Dispose(i)
  PROVE  /\ ctl' \in [Instances -> {"live", "disposing", "disposed"}]
         /\ work' \in [Instances -> {"idle", "busy", "aborted"}]
  BY DEF TypeOK, Dispose, AbortWork, turns

LEMMA DisposedType ==
  ASSUME TypeOK, NEW i \in Instances, NEW b, DisposeReturns(i, b)
  PROVE  /\ ctl' \in [Instances -> {"live", "disposing", "disposed"}]
         /\ work' \in [Instances -> {"idle", "busy", "aborted"}]
  BY DEF TypeOK, DisposeReturns

LEMMA ForgetType ==
  ASSUME TypeOK, NEW S, NEW R, Forget(S, R)
  PROVE  /\ tree' \subseteq Instances /\ records' \subseteq Instances
         /\ lease' \subseteq Ephemerals /\ templates' \subseteq Ephemerals
  BY DEF TypeOK, Forget

LEMMA ReopenType ==
  ASSUME TypeOK, Reopen
  PROVE  acceptingSpawns' \in BOOLEAN /\ acceptingTurns' \in BOOLEAN
<1>1. CASE shutdownStarted
  BY <1>1 DEF TypeOK, Reopen
<1>2. CASE ~shutdownStarted
  BY <1>2 DEF Reopen
<1> QED
  BY <1>1, <1>2

\* The steps of a turn.
LEMMA TurnType ==
  ASSUME TypeOK, ParentsFixed, NEW i \in Instances,
         AcceptTurn(i) \/ TurnEnds(i) \/ TurnEndsInstance(i) \/ Revives(i) \/ Cancel(i)
  PROVE  TypeOK'
<1>1. CASE AcceptTurn(i)
  BY <1>1 DEF TypeOK, AcceptTurn, birth, nodes, release, holdings, gates
<1>2. CASE TurnEnds(i)
  BY <1>2 DEF TypeOK, TurnEnds, birth, nodes, release, holdings, gates
<1>3. CASE TurnEndsInstance(i)
  BY <1>3 DEF TypeOK, TurnEndsInstance, BeginTerminal, birth, nodes, holdings,
              gates
<1>4. CASE Cancel(i)
  <2>1. Subtree(i) \cup {i} \in SUBSET Ephemerals
    BY <1>4, EphemeralSubtree DEF Cancel
  <2>2. CancelAll(Subtree(i) \cup {i})
    BY <1>4 DEF Cancel
  <2> HIDE DEF CancelAll
  <2> QED
    BY <1>4, <2>1, <2>2, CancelType
       DEF TypeOK, Cancel, birth, nodes, holdings, gates
<1>5. CASE Revives(i)
  BY <1>5 DEF TypeOK, Revives, birth, nodes, turns, holdings, gates
<1> QED
  BY <1>1, <1>2, <1>3, <1>4, <1>5

\* The steps of a release.
LEMMA ReleaseType ==
  ASSUME TypeOK, NEW i \in Ephemerals, ReleaseStep(i)
  PROVE  TypeOK'
<1> USE DEF Instances
<1>1. CASE PersistTerminal(i)
  BY <1>1 DEF TypeOK, PersistTerminal, birth, nodes, turns, holdings, gates
<1>2. CASE PersistTerminalFails(i)
  BY <1>2, FailuresAssumption
     DEF TypeOK, PersistTerminalFails, birth, nodes, turns, holdings, gates
<1>3. CASE ReleaseLeaf(i)
  BY <1>3 DEF TypeOK, ReleaseLeaf, birth, nodes, turns, holdings, gates
<1>4. CASE LogDisposed(i)
  <2>1. /\ ctl' \in [Instances -> {"live", "disposing", "disposed"}]
        /\ work' \in [Instances -> {"idle", "busy", "aborted"}]
    BY <1>4, DisposeType DEF TypeOK, LogDisposed, ReleaseThrows, turns
  <2>2. rel' \in [Ephemerals -> {"no", "waiting", "logging", "closing",
                                 "leaving", "done", "failed"}]
    BY <1>4 DEF TypeOK, LogDisposed, ReleaseThrows
  <2>3. handle' \in [Ephemerals -> {"none", "pending", "settled", "failed"}]
    BY <1>4 DEF TypeOK, LogDisposed, ReleaseThrows
  <2>4. revived' \subseteq Ephemerals
    BY <1>4 DEF TypeOK, LogDisposed, ReleaseThrows
  <2> QED
    BY <1>4, <2>1, <2>2, <2>3, <2>4
       DEF TypeOK, LogDisposed, birth, nodes, holdings, gates
<1>5. CASE LogDisposedFails(i)
  BY <1>5, FailuresAssumption
     DEF TypeOK, LogDisposedFails, ReleaseThrows, birth, nodes, turns, holdings,
         gates
<1>6. CASE FinishRelease(i)
  <2>1. /\ ctl' \in [Instances -> {"live", "disposing", "disposed"}]
        /\ work' \in [Instances -> {"idle", "busy", "aborted"}]
    BY <1>6, DisposedType DEF FinishRelease
  <2>2. /\ tree' \subseteq Instances /\ records' \subseteq Instances
        /\ lease' \subseteq Ephemerals /\ templates' \subseteq Ephemerals
    BY <1>6, ForgetType DEF FinishRelease
  <2>3. /\ rel' \in [Ephemerals -> {"no", "waiting", "logging", "closing",
                                    "leaving", "done", "failed"}]
        /\ handle' \in [Ephemerals -> {"none", "pending", "settled", "failed"}]
    BY <1>6 DEF TypeOK, FinishRelease
  <2>4. mine' \in [Ephemerals -> BOOLEAN]
    BY <1>6 DEF FinishRelease
  <2> QED
    BY <1>6, <2>1, <2>2, <2>3, <2>4 DEF TypeOK, FinishRelease, birth, gates
<1> QED
  BY <1>1, <1>2, <1>3, <1>4, <1>5, <1>6 DEF ReleaseStep

\* The callers that gate the session.
LEMMA MutTypes ==
  ASSUME TypeOK, NEW m \in Mutators
  PROVE  /\ mut[m] \in MutRecords
         /\ \A x \in MutRecords : [mut EXCEPT ![m] = x] \in [Mutators -> MutRecords]
  BY DEF TypeOK

LEMMA PrepareType ==
  ASSUME TypeOK, NEW m \in Mutators, NEW k \in Kinds, Prepare(m, k)
  PROVE  TypeOK'
<1>1. CancelAll(Ephemerals \cap records)
  BY DEF Prepare
<1>2. mut' \in [Mutators -> MutRecords]
  BY MutIdleType, MutTypes DEF Prepare, MutRecords, EphemeralRoots, TypeOK
<1> HIDE DEF CancelAll
<1> QED
  BY <1>1, <1>2, CancelType
     DEF TypeOK, Prepare, CloseGates, birth, nodes, holdings

LEMMA DeleteType ==
  ASSUME TypeOK, NEW m \in Mutators, NEW r \in Residents,
         DeleteResident(m, r) \/ DeleteResidentThrows(m, r)
  PROVE  TypeOK'
<1>1. CASE DeleteResident(m, r)
  <2>1. CancelAll(Subtree(r) \cap Ephemerals)
    BY <1>1 DEF DeleteResident
  <2>2. mut' \in [Mutators -> MutRecords]
    <3>1. [MutIdle EXCEPT !.kind = "delete", !.pc = "draining",
                           !.waits = Subtree(r) \cap Ephemerals,
                           !.todo = (Subtree(r) \cup {r}) \cap Residents,
                           !.scope = {r}] \in MutRecords
      BY <1>1, MutIdleType DEF MutRecords, DeleteResident
    <3> QED
      BY <1>1, <3>1, MutTypes DEF DeleteResident
  <2> HIDE DEF CancelAll
  <2> QED
    BY <1>1, <2>1, <2>2, CancelType
       DEF TypeOK, DeleteResident, CloseGates, birth, nodes, holdings
<1>2. CASE DeleteResidentThrows(m, r)
  BY <1>2, ReopenType
     DEF TypeOK, DeleteResidentThrows, birth, nodes, turns, release, holdings
<1> QED
  BY <1>1, <1>2

LEMMA MutStepType ==
  ASSUME TypeOK, NEW m \in Mutators, MutStep(m)
  PROVE  TypeOK'
<1> USE DEF Instances
<1>x. PICK x \in MutRecords : x = mut[m]
  BY MutTypes
<1>1. CASE Drained(m)
  <2>1. mut' \in [Mutators -> MutRecords]
    <3>1. [x EXCEPT !.pc = "disposing", !.waits = {},
                          !.todo = x.todo \cap records] \in MutRecords
      BY DEF MutRecords
    <3>2. [x EXCEPT !.pc = "quiescing", !.waits = {},
                          !.todo = Residents \cap records] \in MutRecords
      BY DEF MutRecords
    <3> QED
      BY <1>x, <1>1, <3>1, <3>2, MutTypes DEF Drained
  <2>2. work' \in [Instances -> {"idle", "busy", "aborted"}]
    BY <1>1 DEF TypeOK, Drained, InterruptResidents, AbortWork
  <2> QED
    BY <1>1, <2>1, <2>2 DEF TypeOK, Drained, birth, nodes, release, holdings, gates
<1>2. CASE Hold(m)
  <2>1. mut' \in [Mutators -> MutRecords]
    <3>1. [x EXCEPT !.pc = "holding"] \in MutRecords
      BY DEF MutRecords
    <3>2. [x EXCEPT !.pc = "disposing",
                          !.todo = tree \cap records \cap Residents,
                          !.scope = tree \cap Residents] \in MutRecords
      BY DEF MutRecords
    <3> QED
      BY <1>x, <1>2, <3>1, <3>2, MutTypes DEF Hold
  <2> QED
    BY <1>2, <2>1 DEF TypeOK, Hold, birth, nodes, turns, release, holdings, gates
<1>3. CASE Release(m)
  BY <1>3, MutIdleType, MutTypes, ReopenType
     DEF TypeOK, Release, birth, nodes, turns, release, holdings
<1>4. CASE ResidentDisposed(m)
  <2>1. mut[m].cur \in Instances
    BY <1>4, MutTypes DEF ResidentDisposed, MutRecords
  <2>2. /\ ctl' \in [Instances -> {"live", "disposing", "disposed"}]
        /\ work' \in [Instances -> {"idle", "busy", "aborted"}]
    BY <1>4, <2>1, DisposedType DEF ResidentDisposed
  <2>3. [x EXCEPT !.cur = NoOne] \in MutRecords
    BY DEF MutRecords
  <2>5. mut' \in [Mutators -> MutRecords]
    BY <1>x, <1>4, <2>3, MutTypes, MutIdleType DEF ResidentDisposed
  <2>6. failures' \in 0..MaxFailures
    BY <1>4, FailuresAssumption DEF ResidentDisposed, TypeOK
  <2>4. acceptingSpawns' \in BOOLEAN /\ acceptingTurns' \in BOOLEAN
    BY <1>4, ReopenType DEF ResidentDisposed, TypeOK
  <2> QED
    BY <1>4, <2>2, <2>4, <2>5, <2>6
       DEF TypeOK, ResidentDisposed, birth, nodes, release, holdings
<1>5. CASE DeleteSubtree(m)
  BY <1>5, MutIdleType, MutTypes, ReopenType, ForgetType
     DEF TypeOK, DeleteSubtree, birth, turns, release
<1>6. CASE ClearForReload(m)
  <2>1. mut' \in [Mutators -> MutRecords]
    <3>1. [x EXCEPT !.pc = "booting", !.scope = {}] \in MutRecords
      BY DEF MutRecords
    <3> QED
      BY <1>x, <1>6, <3>1, MutTypes DEF ClearForReload
  <2> QED
    BY <1>6, <2>1, ReopenType, ForgetType
       DEF TypeOK, ClearForReload, birth, turns, release
<1>7. CASE RollbackEnds(m)
  <2>1. mut[m].cur \in Instances
    BY <1>7, MutTypes DEF RollbackEnds, MutRecords
  <2>2. mut' \in [Mutators -> MutRecords]
    <3>1. [x EXCEPT !.cur = NoOne] \in MutRecords
      BY DEF MutRecords
    <3> QED
      BY <1>x, <1>7, <3>1, MutTypes DEF RollbackEnds
  <2> QED
    BY <1>7, <2>1, <2>2, DisposedType, ForgetType
       DEF TypeOK, RollbackEnds, birth, release, gates
<1>13. CASE BootLost(m)
  <2>1. [x EXCEPT !.pc = "rollback", !.todo = x.scope, !.scope = {}]
          \in MutRecords
    BY DEF MutRecords
  <2>2. mut' \in [Mutators -> MutRecords]
    BY <1>x, <1>13, <2>1, MutTypes DEF BootLost
  <2> QED
    BY <1>13, <2>2, FailuresAssumption
       DEF TypeOK, BootLost, birth, nodes, turns, release, holdings, gates
<1>8. CASE BootDone(m)
  BY <1>8, MutIdleType, MutTypes
     DEF TypeOK, BootDone, birth, nodes, turns, release, holdings, gates
<1>9. ASSUME NEW r \in Residents, Quiesced(m, r)
      PROVE  TypeOK'
  <2>1. mut' \in [Mutators -> MutRecords]
    <3>1. [x EXCEPT !.todo = x.todo \ {r}] \in MutRecords
      BY DEF MutRecords
    <3> QED
      BY <1>x, <1>9, <3>1, MutTypes DEF Quiesced
  <2> QED
    BY <1>9, <2>1
       DEF TypeOK, Quiesced, birth, nodes, turns, release, holdings, gates
<1>10. ASSUME NEW r \in Residents, DisposeResident(m, r)
       PROVE  TypeOK'
  <2>1. mut' \in [Mutators -> MutRecords]
    <3>1. [x EXCEPT !.todo = x.todo \ {r}, !.cur = r,
                          !.atOnce = (ctl[r] # "live")] \in MutRecords
      BY DEF MutRecords
    <3> QED
      BY <1>x, <1>10, <3>1, MutTypes DEF DisposeResident
  <2> QED
    BY <1>10, <2>1, DisposeType
       DEF TypeOK, DisposeResident, birth, nodes, release, holdings, gates
<1>11. ASSUME NEW r \in Residents, Boot(m, r)
       PROVE  TypeOK'
  <2>1. mut' \in [Mutators -> MutRecords]
    <3>1. [x EXCEPT !.scope = x.scope \cup {r}] \in MutRecords
      BY DEF MutRecords
    <3>2. [x EXCEPT !.pc = "rollback", !.todo = x.scope,
                          !.scope = {}] \in MutRecords
      BY DEF MutRecords
    <3> QED
      BY <1>x, <1>11, <3>1, <3>2, MutTypes DEF Boot
  <2>2. /\ ctl' \in [Instances -> {"live", "disposing", "disposed"}]
        /\ work' \in [Instances -> {"idle", "busy", "aborted"}]
    BY <1>11 DEF TypeOK, Boot
  <2>3. tree' \subseteq Instances /\ records' \subseteq Instances
    BY <1>11 DEF TypeOK, Boot
  <2> QED
    BY <1>11, <2>1, <2>2, <2>3 DEF TypeOK, Boot, birth, release, holdings, gates
<1>12. ASSUME NEW r \in Residents, RollbackBegins(m, r)
       PROVE  TypeOK'
  <2>1. mut' \in [Mutators -> MutRecords]
    <3>1. [x EXCEPT !.todo = x.todo \ {r}] \in MutRecords
      BY DEF MutRecords
    <3>2. [x EXCEPT !.todo = x.todo \ {r}, !.cur = r,
                          !.atOnce = (ctl[r] # "live")] \in MutRecords
      BY DEF MutRecords
    <3>3. PICK y \in MutRecords : mut' = [mut EXCEPT ![m] = y]
      <4>1. CASE r \notin records
        BY <1>x, <1>12, <3>1, <4>1 DEF RollbackBegins
      <4>2. CASE r \in records /\ Children(r) # {}
        BY <1>12, <4>2, MutIdleType DEF RollbackBegins
      <4>3. CASE r \in records /\ Children(r) = {}
        BY <1>x, <1>12, <3>2, <4>3 DEF RollbackBegins
      <4> QED
        BY <4>1, <4>2, <4>3
    <3> QED
      BY <3>3, MutTypes
  <2>2. /\ ctl' \in [Instances -> {"live", "disposing", "disposed"}]
        /\ work' \in [Instances -> {"idle", "busy", "aborted"}]
    BY <1>12, DisposeType DEF TypeOK, RollbackBegins, turns
  <2> QED
    BY <1>12, <2>1, <2>2
       DEF TypeOK, RollbackBegins, birth, nodes, release, holdings, gates
<1> QED
  BY <1>1, <1>2, <1>3, <1>4, <1>5, <1>6, <1>7, <1>8, <1>9, <1>10, <1>11, <1>12,
     <1>13 DEF MutStep

LEMMA ShutdownType ==
  ASSUME TypeOK, Shutdown \/ ShutdownStep
  PROVE  TypeOK'
<1>x. PICK x \in ShutdownRecords : x = sd
  BY DEF TypeOK
<1>1. CASE Shutdown
  <2>1. CancelAll(Ephemerals \cap records)
    BY <1>1 DEF Shutdown
  <2>2. [x EXCEPT !.pc = "draining", !.waits = EphemeralRoots] \in ShutdownRecords
    BY DEF ShutdownRecords, EphemeralRoots
  <2>3. sd' \in ShutdownRecords
    BY <1>x, <1>1, <2>2 DEF Shutdown
  <2> HIDE DEF CancelAll
  <2> QED
    BY <1>1, <2>1, <2>3, CancelType
       DEF TypeOK, Shutdown, CloseGates, birth, nodes, holdings
<1>2. CASE ShutdownDrained
  <2>1. [x EXCEPT !.pc = "closing", !.waits = {}, !.left = tree]
          \in ShutdownRecords
    BY DEF ShutdownRecords, TypeOK
  <2>2. sd' \in ShutdownRecords
    BY <1>x, <1>2, <2>1 DEF ShutdownDrained
  <2> QED
    BY <1>2, <2>2
       DEF TypeOK, ShutdownDrained, birth, nodes, turns, release, holdings, gates
<1>3. CASE ShutdownRemoves
  <2>1. sd.cur \in Instances \cup {NoOne}
    BY DEF TypeOK, ShutdownRecords
  <2>2. /\ ctl' \in [Instances -> {"live", "disposing", "disposed"}]
        /\ work' \in [Instances -> {"idle", "busy", "aborted"}]
    BY <1>3 DEF TypeOK, ShutdownRemoves, DisposeReturns
  <2>3. \A p \in {"failed", "closing"} :
          [x EXCEPT !.pc = p, !.cur = NoOne] \in ShutdownRecords
    BY DEF ShutdownRecords
  <2>4. sd' \in ShutdownRecords
    BY <1>x, <1>3, <2>3 DEF ShutdownRemoves
  <2> QED
    BY <1>3, <2>2, <2>4, ForgetType
       DEF TypeOK, ShutdownRemoves, birth, release, gates
<1>4. CASE ShutdownDone
  <2>1. [x EXCEPT !.pc = "done"] \in ShutdownRecords
    BY DEF ShutdownRecords
  <2>2. sd' \in ShutdownRecords
    BY <1>x, <1>4, <2>1 DEF ShutdownDone
  <2> QED
    BY <1>4, <2>2
       DEF TypeOK, ShutdownDone, birth, nodes, turns, release, holdings, gates
<1>5. ASSUME NEW i \in Instances, ShutdownNext(i)
      PROVE  TypeOK'
  <2>1. CASE i \notin records
    <3>1. [x EXCEPT !.left = x.left \ {i}] \in ShutdownRecords
      BY DEF ShutdownRecords
    <3>2. sd' \in ShutdownRecords
      BY <1>x, <1>5, <2>1, <3>1 DEF ShutdownNext
    <3> QED
      BY <1>5, <2>1, <3>2
         DEF TypeOK, ShutdownNext, birth, nodes, turns, release, holdings, gates
  <2>2. CASE i \in records
    <3>1. PICK lost \in BOOLEAN :
            /\ lost => failures < MaxFailures
            /\ failures' = IF lost THEN failures + 1 ELSE failures
            /\ IF Children(i) # {}
               THEN sd' = [sd EXCEPT !.pc = "failed"] /\ UNCHANGED turns
               ELSE /\ Dispose(i)
                    /\ sd' = [sd EXCEPT !.pc = "removing",
                                        !.left = sd.left \ {i},
                                        !.cur = i, !.broken = lost,
                                        !.atOnce = (ctl[i] # "live")]
      BY <1>5, <2>2 DEF ShutdownNext
    <3>2. failures' \in 0..MaxFailures
      BY <3>1, FailuresAssumption DEF TypeOK
    <3>3. /\ ctl' \in [Instances -> {"live", "disposing", "disposed"}]
          /\ work' \in [Instances -> {"idle", "busy", "aborted"}]
      BY <3>1, DisposeType DEF TypeOK, turns
    <3>4. /\ [x EXCEPT !.pc = "failed"] \in ShutdownRecords
          /\ [x EXCEPT !.pc = "removing", !.left = x.left \ {i}, !.cur = i,
                       !.broken = lost, !.atOnce = (ctl[i] # "live")]
               \in ShutdownRecords
      BY DEF ShutdownRecords
    <3>5. sd' \in ShutdownRecords
      BY <1>x, <3>1, <3>4
    <3> QED
      BY <1>5, <3>2, <3>3, <3>5
         DEF TypeOK, ShutdownNext, birth, nodes, release, holdings, gates
  <2> QED
    BY <2>1, <2>2
<1> QED
  BY <1>1, <1>2, <1>3, <1>4, <1>5 DEF ShutdownStep

-----------------------------------------------------------------------------
(* The inductive invariant                                                 *)

BornInTree == \A i \in Ephemerals \cap tree : reg[i] \in {"inserted", "adopted"}

RecordsAdopted == \A i \in Ephemerals \cap records : reg[i] = "adopted"

\* what only a recorded instance goes through
EndedAdopted ==
  \A i \in Ephemerals :
    i \in ended \/ saved[i] # "no" \/ rel[i] # "no" => reg[i] = "adopted"

CurrentAdopted == sd.cur \in Ephemerals => reg[sd.cur] = "adopted"

SettledIsGone ==
  \A i \in Ephemerals :
    handle[i] = "settled" => reg[i] = "adopted" /\ i \notin tree \cup records

IInv ==
  /\ TypeOK /\ ParentsFixed /\ TreeIsClosed /\ TreeIsOwned
  /\ BornInTree /\ RecordsAdopted /\ EndedAdopted /\ CurrentAdopted
  /\ SettledIsGone /\ NothingLeaks

LEMMA InitInv == Init => IInv
<1> SUFFICES ASSUME Init PROVE IInv
  OBVIOUS
<1>1. TypeOK
  BY InitType
<1>2. ParentsFixed
  BY DEF Init, ParentsFixed, Instances
<1>3. TreeIsClosed
  BY ParentAssumption DEF Init, TreeIsClosed, Instances
<1>4. TreeIsOwned
  BY DEF Init, TreeIsOwned
<1>5. /\ BornInTree /\ RecordsAdopted /\ EndedAdopted /\ SettledIsGone
      /\ NothingLeaks
  BY IdsAssumption
     DEF Init, BornInTree, RecordsAdopted, EndedAdopted, SettledIsGone,
         NothingLeaks, Instances
<1>6. CurrentAdopted
  BY IdsAssumption DEF Init, CurrentAdopted, Instances
<1> QED
  BY <1>1, <1>2, <1>3, <1>4, <1>5, <1>6 DEF IInv

\* Steps that leave births, tree, records and what they hold alone, and end
\* nothing that was not adopted.
LEMMA QuietSteps ==
  ASSUME IInv, TypeOK',
         UNCHANGED <<birth, nodes, holdings>>,
         \A i \in Ephemerals : reg[i] # "adopted" =>
            /\ i \in ended' => i \in ended
            /\ saved'[i] = saved[i] /\ rel'[i] = rel[i],
         \A i \in Ephemerals : handle'[i] = "settled" => handle[i] = "settled",
         sd'.cur \in Ephemerals => reg[sd'.cur] = "adopted"
  PROVE  IInv'
<1>1. ParentsFixed' /\ TreeIsClosed' /\ TreeIsOwned'
  BY DEF IInv, ParentsFixed, TreeIsClosed, TreeIsOwned, birth, nodes
<1>2. BornInTree' /\ RecordsAdopted' /\ CurrentAdopted' /\ NothingLeaks'
  BY DEF IInv, BornInTree, RecordsAdopted, CurrentAdopted, NothingLeaks, birth,
         nodes, holdings
<1>3. EndedAdopted'
  BY DEF IInv, EndedAdopted, birth
<1>4. SettledIsGone'
  BY DEF IInv, SettledIsGone, birth, nodes
<1> QED
  BY <1>1, <1>2, <1>3, <1>4 DEF IInv

\* Steps that remove nodes S and records R.
LEMMA RemovalSteps ==
  ASSUME IInv, TypeOK', NEW S, NEW R,
         Forget(S, R),
         \A j \in tree \ S : parent[j] # NoParent => parent[j] \in tree \ S,
         R \cap tree \subseteq S,
         \A i \in R \cap Ephemerals : reg[i] = "adopted",
         UNCHANGED birth,
         \A i \in Ephemerals : reg[i] # "adopted" =>
            /\ i \in ended' => i \in ended
            /\ saved'[i] = saved[i] /\ rel'[i] = rel[i],
         \A i \in Ephemerals : handle'[i] = "settled" =>
            \/ handle[i] = "settled"
            \/ reg[i] = "adopted" /\ i \in R,
         sd'.cur \in Ephemerals => reg[sd'.cur] = "adopted"
  PROVE  IInv'
<1>1. ParentsFixed' /\ TreeIsClosed'
  BY DEF IInv, ParentsFixed, TreeIsClosed, Forget, birth
<1>2. TreeIsOwned'
  BY DEF IInv, TreeIsOwned, Forget, birth
<1>3. BornInTree' /\ RecordsAdopted' /\ CurrentAdopted'
  BY DEF IInv, BornInTree, RecordsAdopted, CurrentAdopted, Forget, birth
<1>4. NothingLeaks'
  BY DEF IInv, NothingLeaks, Forget, birth
<1>5. EndedAdopted'
  BY DEF IInv, EndedAdopted, birth
<1>6. SettledIsGone'
  BY DEF IInv, SettledIsGone, Forget, birth
<1> QED
  BY <1>1, <1>2, <1>3, <1>4, <1>5, <1>6 DEF IInv

\* A birth moves one instance forward; it is out of the tree until Insert.
LEMMA BirthInv ==
  ASSUME IInv, NEW i \in Instances,
         \/ i \in Ephemerals /\ \E p \in Instances \cup {NoParent} :
                                  SpawnEphemeral(i, p)
         \/ RegisterResident(i)
         \/ BirthStep(i)
  PROVE  IInv'
<1> USE DEF Instances
<1>1. TypeOK'
  BY BirthType DEF IInv, BirthStep
<1>2. /\ UNCHANGED <<ended, saved, rel, sd>>
      /\ i \notin records => records' \in {records, records \cup {i}}
      /\ i \in records => records' = records
  BY DEF SpawnEphemeral, RegisterResident, BirthStep, SpawnResolved, Insert,
         RegistrationLost, Adopt, nodes, release
<1>3. reg[i] # "adopted" /\ \A j \in Instances \ {i} : reg'[j] = reg[j]
  BY DEF SpawnEphemeral, RegisterResident, BirthStep, SpawnResolved, Insert,
         RegistrationLost, Adopt, Refuse, IInv, TypeOK
<1>4. EndedAdopted'
  BY <1>2, <1>3 DEF IInv, EndedAdopted
<1>5. CurrentAdopted'
  BY <1>2, <1>3 DEF IInv, CurrentAdopted
<1>6. CASE i \in Ephemerals /\ \E p \in Instances \cup {NoParent} :
                                 SpawnEphemeral(i, p)
  <2>1. PICK p \in Instances \cup {NoParent} : SpawnEphemeral(i, p)
    BY <1>6
  <2>2. i \notin tree /\ i \notin records
    BY <1>6, <2>1 DEF SpawnEphemeral, IInv, BornInTree, RecordsAdopted
  <2>3. ParentsFixed' /\ TreeIsClosed'
    BY <1>6, <2>1, <2>2, IdsAssumption
       DEF SpawnEphemeral, IInv, ParentsFixed, TreeIsClosed, TypeOK, nodes
  <2>4. TreeIsOwned' /\ BornInTree' /\ RecordsAdopted' /\ SettledIsGone'
    BY <2>1, <2>2, <1>3
       DEF SpawnEphemeral, IInv, TreeIsOwned, BornInTree, RecordsAdopted,
           SettledIsGone, nodes, release, TypeOK
  <2>5. NothingLeaks'
    BY <1>6, <2>1, <2>2, <1>3 DEF SpawnEphemeral, IInv, NothingLeaks, nodes, TypeOK
  <2> QED
    BY <1>1, <1>4, <1>5, <2>3, <2>4, <2>5 DEF IInv
<1>7. CASE RegisterResident(i)
  <2>1. i \in Residents /\ i \notin Ephemerals
    BY <1>7, IdsAssumption DEF RegisterResident
  <2>2. ParentsFixed' /\ TreeIsClosed' /\ TreeIsOwned'
    BY <1>7, <1>3 DEF RegisterResident, IInv, ParentsFixed, TreeIsClosed,
                      TreeIsOwned, nodes, TypeOK
  <2>3. BornInTree' /\ RecordsAdopted' /\ SettledIsGone' /\ NothingLeaks'
    BY <1>7, <1>3, <2>1
       DEF RegisterResident, IInv, BornInTree, RecordsAdopted, SettledIsGone,
           NothingLeaks, nodes, release, holdings
  <2> QED
    BY <1>1, <1>4, <1>5, <2>2, <2>3 DEF IInv
<1>8. CASE SpawnResolved(i)
  <2>1. i \notin tree /\ i \notin records
    BY <1>8 DEF SpawnResolved, IInv, BornInTree, RecordsAdopted
  <2>2. ParentsFixed' /\ TreeIsClosed' /\ TreeIsOwned'
    BY <1>8, <1>3, <2>1 DEF SpawnResolved, IInv, ParentsFixed, TreeIsClosed,
                      TreeIsOwned, nodes, TypeOK
  <2>3. BornInTree' /\ RecordsAdopted' /\ SettledIsGone'
    BY <1>8, <1>3, <2>1
       DEF SpawnResolved, IInv, BornInTree, RecordsAdopted, SettledIsGone,
           nodes, release
  <2>4. NothingLeaks'
    BY <1>8, <1>3, <2>1
       DEF SpawnResolved, Refuse, IInv, NothingLeaks, nodes, TypeOK
  <2> QED
    BY <1>1, <1>4, <1>5, <2>2, <2>3, <2>4 DEF IInv
<1>9. CASE RegistrationLost(i)
  <2>1. i \notin Ephemerals \/ i \notin tree \cup records
    BY <1>9 DEF RegistrationLost, IInv, BornInTree, RecordsAdopted
  <2>2. ParentsFixed' /\ TreeIsClosed'
    BY <1>9 DEF RegistrationLost, IInv, ParentsFixed, TreeIsClosed, nodes
  <2>3. TreeIsOwned'
    BY <1>9, <1>3 DEF RegistrationLost, IInv, TreeIsOwned, nodes, TypeOK
  <2>4. BornInTree' /\ RecordsAdopted' /\ SettledIsGone'
    BY <1>9, <1>3, <2>1
       DEF RegistrationLost, IInv, BornInTree, RecordsAdopted, SettledIsGone,
           nodes, release
  <2>5. NothingLeaks'
    BY <1>9, <1>3, <2>1
       DEF RegistrationLost, Refuse, IInv, NothingLeaks, nodes, TypeOK
  <2> QED
    BY <1>1, <1>4, <1>5, <2>2, <2>3, <2>4, <2>5 DEF IInv
<1>10. CASE Insert(i)
  <2>1. i \notin Ephemerals \/ i \notin tree \cup records
    BY <1>10 DEF Insert, IInv, BornInTree, RecordsAdopted
  <2>2. ParentsFixed' /\ TreeIsClosed'
    BY <1>10 DEF Insert, IInv, ParentsFixed, TreeIsClosed
  <2>3. TreeIsOwned'
    BY <1>10, <1>3 DEF Insert, Refuse, IInv, TreeIsOwned, TypeOK
  <2>4. BornInTree'
    BY <1>10, <1>3, <2>1 DEF Insert, Refuse, IInv, BornInTree, TypeOK
  <2>5. RecordsAdopted' /\ SettledIsGone'
    BY <1>10, <1>3, <2>1
       DEF Insert, IInv, RecordsAdopted, SettledIsGone, release
  <2>6. NothingLeaks'
    BY <1>10, <1>3, <2>1
       DEF Insert, Refuse, IInv, NothingLeaks, holdings, TypeOK
  <2> QED
    BY <1>1, <1>4, <1>5, <2>2, <2>3, <2>4, <2>5, <2>6 DEF IInv
<1>11. CASE Adopt(i)
  <2>1. i \notin Ephemerals \/ i \notin records
    BY <1>11 DEF Adopt, IInv, RecordsAdopted
  <2>2. ParentsFixed' /\ TreeIsClosed'
    BY <1>11 DEF Adopt, IInv, ParentsFixed, TreeIsClosed
  <2>3. TreeIsOwned'
    BY <1>11, <1>3 DEF Adopt, Refuse, IInv, TreeIsOwned, TypeOK
  <2>4. BornInTree' /\ RecordsAdopted'
    BY <1>11, <1>3, <2>1
       DEF Adopt, Refuse, IInv, BornInTree, RecordsAdopted, TypeOK
  <2>5. SettledIsGone'
    BY <1>11, <1>3, <2>1 DEF Adopt, IInv, SettledIsGone, TypeOK
  <2>6. NothingLeaks'
    BY <1>11, <1>3, <2>1
       DEF Adopt, Refuse, IInv, NothingLeaks, holdings, TypeOK
  <2> QED
    BY <1>1, <1>4, <1>5, <2>2, <2>3, <2>4, <2>5, <2>6 DEF IInv
<1> QED
  BY <1>6, <1>7, <1>8, <1>9, <1>10, <1>11 DEF BirthStep

\* Cancelling recorded ephemerals ends only adopted instances.
LEMMA CancelAdopted ==
  ASSUME IInv, NEW S \in SUBSET (Ephemerals \cap records), CancelAll(S)
  PROVE  \A i \in Ephemerals : reg[i] # "adopted" =>
           /\ i \in ended' => i \in ended
           /\ saved'[i] = saved[i]
  BY DEF IInv, RecordsAdopted, CancelAll, BeginTerminal

LEMMA TurnInv ==
  ASSUME IInv, NEW i \in Instances,
         AcceptTurn(i) \/ TurnEnds(i) \/ TurnEndsInstance(i) \/ Revives(i) \/ Cancel(i)
  PROVE  IInv'
<1>1. TypeOK'
  BY TurnType DEF IInv
<1>2. UNCHANGED <<birth, nodes, holdings, rel, handle, sd>>
  BY DEF AcceptTurn, TurnEnds, TurnEndsInstance, Revives, Cancel, release
<1>3. \A j \in Ephemerals : reg[j] # "adopted" =>
        /\ j \in ended' => j \in ended
        /\ saved'[j] = saved[j]
  <2>1. CASE AcceptTurn(i) \/ TurnEnds(i) \/ Revives(i)
    BY <2>1 DEF AcceptTurn, TurnEnds, Revives, release
  <2>2. CASE TurnEndsInstance(i)
    BY <2>2 DEF TurnEndsInstance, BeginTerminal, IInv, RecordsAdopted
  <2>3. CASE Cancel(i)
    <3>1. Subtree(i) \cup {i} \in SUBSET (Ephemerals \cap records)
      BY <2>3, EphemeralSubtree DEF Cancel, IInv
    <3>2. CancelAll(Subtree(i) \cup {i})
      BY <2>3 DEF Cancel
    <3> HIDE DEF CancelAll
    <3> QED
      BY <3>1, <3>2, CancelAdopted
  <2> QED
    BY <2>1, <2>2, <2>3
<1> QED
  BY <1>1, <1>2, <1>3, QuietSteps DEF IInv, CurrentAdopted

LEMMA ReleaseInv ==
  ASSUME IInv, NEW i \in Ephemerals, ReleaseStep(i)
  PROVE  IInv'
<1>1. TypeOK'
  BY ReleaseType DEF IInv
<1>2. UNCHANGED <<birth, ended, sd>>
  BY DEF ReleaseStep, PersistTerminal, PersistTerminalFails, ReleaseLeaf,
         LogDisposed, LogDisposedFails, FinishRelease
<1>3. saved[i] # "no" \/ rel[i] # "no"
  BY DEF ReleaseStep, PersistTerminal, PersistTerminalFails, ReleaseLeaf,
         LogDisposed, LogDisposedFails, FinishRelease
<1>4. reg[i] = "adopted"
  BY <1>3 DEF IInv, EndedAdopted
<1>5. CASE ~FinishRelease(i)
  <2>1. UNCHANGED <<nodes, holdings>>
    BY <1>5 DEF ReleaseStep, PersistTerminal, PersistTerminalFails, ReleaseLeaf,
                LogDisposed, LogDisposedFails
  <2>2. \A j \in Ephemerals \ {i} :
          saved'[j] = saved[j] /\ rel'[j] = rel[j] /\ handle'[j] = handle[j]
    BY <1>5 DEF ReleaseStep, PersistTerminal, PersistTerminalFails, ReleaseLeaf,
                LogDisposed, LogDisposedFails, ReleaseThrows, IInv, TypeOK
  <2>3. handle'[i] = "settled" => handle[i] = "settled"
    BY <1>5 DEF ReleaseStep, PersistTerminal, PersistTerminalFails, ReleaseLeaf,
                LogDisposed, LogDisposedFails, ReleaseThrows, IInv, TypeOK
  <2>4. \A j \in Ephemerals : handle'[j] = "settled" => handle[j] = "settled"
    BY <2>2, <2>3
  <2> QED
    BY <1>1, <1>2, <1>4, <2>1, <2>2, <2>4, QuietSteps DEF IInv, CurrentAdopted
<1>6. CASE FinishRelease(i)
  <2>1. Forget(Subtree(i), {i}) /\ UNCHANGED saved
    BY <1>6 DEF FinishRelease
  <2>2. \A j \in tree \ Subtree(i) :
          parent[j] # NoParent => parent[j] \in tree \ Subtree(i)
    BY RemovalKeepsClosed DEF IInv
  <2>3. {i} \cap tree \subseteq Subtree(i)
    BY SubtreeInTree
  <2>4. \A j \in Ephemerals : reg[j] # "adopted" => rel'[j] = rel[j]
    BY <1>4, <1>6 DEF FinishRelease, NextParent, IInv, EndedAdopted, TypeOK
  <2>5. \A j \in Ephemerals : handle'[j] = "settled" =>
          handle[j] = "settled" \/ (reg[j] = "adopted" /\ j \in {i})
    BY <1>4, <1>6 DEF FinishRelease, IInv, TypeOK
  <2> HIDE DEF Forget, Subtree
  <2> QED
    BY <1>1, <1>2, <1>4, <2>1, <2>2, <2>3, <2>4, <2>5, RemovalSteps
       DEF IInv, CurrentAdopted
<1> QED
  BY <1>5, <1>6

LEMMA MutationInv ==
  ASSUME IInv, NEW m \in Mutators,
         \/ \E k \in Kinds : Prepare(m, k)
         \/ \E r \in Residents : DeleteResident(m, r) \/ DeleteResidentThrows(m, r)
         \/ MutStep(m)
  PROVE  IInv'
<1>1. TypeOK'
  BY PrepareType, DeleteType, MutStepType DEF IInv
<1>2. UNCHANGED <<birth, rel, handle, sd>>
  BY DEF Prepare, DeleteResident, DeleteResidentThrows, MutStep, Drained, Hold,
         Release, ResidentDisposed, DeleteSubtree, ClearForReload, RollbackEnds,
         BootLost, BootDone, Quiesced, DisposeResident, Boot, RollbackBegins,
         release
<1>3. CASE \/ \E k \in Kinds : Prepare(m, k)
           \/ \E r \in Residents : DeleteResident(m, r)
  <2>1. PICK S \in SUBSET (Ephemerals \cap records) : CancelAll(S)
    BY <1>3 DEF Prepare, DeleteResident
  <2>2. UNCHANGED <<nodes, holdings>>
    BY <1>3 DEF Prepare, DeleteResident
  <2> HIDE DEF CancelAll
  <2> QED
    BY <1>1, <1>2, <2>1, <2>2, CancelAdopted, QuietSteps DEF IInv, CurrentAdopted
<1>4. CASE \E r \in Residents :
             \/ DeleteResidentThrows(m, r) \/ Quiesced(m, r)
             \/ DisposeResident(m, r) \/ RollbackBegins(m, r)
  <2>1. UNCHANGED <<nodes, holdings, ended, saved>>
    BY <1>4 DEF DeleteResidentThrows, Quiesced, DisposeResident, RollbackBegins,
                release
  <2> QED
    BY <1>1, <1>2, <2>1, QuietSteps DEF IInv, CurrentAdopted
<1>5. CASE \/ Drained(m) \/ Hold(m) \/ Release(m) \/ ResidentDisposed(m)
           \/ BootLost(m) \/ BootDone(m)
  <2>1. UNCHANGED <<nodes, holdings, ended, saved>>
    BY <1>5 DEF Drained, Hold, Release, ResidentDisposed, BootLost, BootDone,
                release
  <2> QED
    BY <1>1, <1>2, <2>1, QuietSteps DEF IInv, CurrentAdopted
<1>6. CASE DeleteSubtree(m)
  <2>1. PICK r \in Residents : Forget(Subtree(r), Subtree(r) \cap records)
    BY <1>6, MutTypes DEF DeleteSubtree, MutRecords, IInv
  <2>2. UNCHANGED <<ended, saved>>
    BY <1>6 DEF DeleteSubtree, release
  <2>3. \A j \in tree \ Subtree(r) :
          parent[j] # NoParent => parent[j] \in tree \ Subtree(r)
    BY RemovalKeepsClosed DEF IInv
  <2>4. \A i \in Subtree(r) \cap records \cap Ephemerals : reg[i] = "adopted"
    BY DEF IInv, RecordsAdopted
  <2> HIDE DEF Forget, Subtree
  <2> QED
    BY <1>1, <1>2, <2>1, <2>2, <2>3, <2>4, RemovalSteps DEF IInv, CurrentAdopted
<1>7. CASE ClearForReload(m)
  <2>1. Forget(tree, mut[m].scope) /\ UNCHANGED <<ended, saved>>
    BY <1>7 DEF ClearForReload, release
  <2>2. mut[m].scope \cap Ephemerals = {}
    BY MutTypes, IdsAssumption DEF MutRecords, IInv
  <2> HIDE DEF Forget
  <2> QED
    BY <1>1, <1>2, <2>1, <2>2, RemovalSteps DEF IInv, CurrentAdopted
<1>8. CASE RollbackEnds(m)
  <2> DEFINE r == mut[m].cur
  <2>1. Forget(Subtree(r), {r}) /\ UNCHANGED <<ended, saved>>
    BY <1>8 DEF RollbackEnds, release
  <2>2. r \notin Ephemerals
    BY MutTypes, IdsAssumption DEF MutRecords, IInv, Instances
  <2>3. \A j \in tree \ Subtree(r) :
          parent[j] # NoParent => parent[j] \in tree \ Subtree(r)
    BY RemovalKeepsClosed DEF IInv
  <2>4. {r} \cap tree \subseteq Subtree(r)
    BY SubtreeInTree
  <2> HIDE DEF Forget, Subtree, r
  <2> QED
    BY <1>1, <1>2, <2>1, <2>2, <2>3, <2>4, RemovalSteps DEF IInv, CurrentAdopted
<1>9. ASSUME NEW r \in Residents, Boot(m, r)
      PROVE  IInv'
  <2>1. r \notin Ephemerals
    BY IdsAssumption
  <2>2. /\ tree' \in {tree, tree \cup {r}} /\ records' \in {records, records \cup {r}}
        /\ tree' # tree => parent[r] = NoParent \/ parent[r] \in tree
        /\ r \in tree' \ tree => r \in records'
        /\ UNCHANGED <<ended, saved, holdings>>
    BY <1>9 DEF Boot, IInv, ParentsFixed, release
  <2>3. ParentsFixed' /\ TreeIsClosed' /\ TreeIsOwned'
    BY <1>2, <2>2 DEF IInv, ParentsFixed, TreeIsClosed, TreeIsOwned, birth
  <2>4. BornInTree' /\ RecordsAdopted' /\ EndedAdopted' /\ CurrentAdopted'
    BY <1>2, <2>1, <2>2
       DEF IInv, BornInTree, RecordsAdopted, EndedAdopted, CurrentAdopted, birth
  <2>5. SettledIsGone' /\ NothingLeaks'
    BY <1>2, <2>1, <2>2 DEF IInv, SettledIsGone, NothingLeaks, birth, holdings
  <2> QED
    BY <1>1, <2>3, <2>4, <2>5 DEF IInv
<1> QED
  BY <1>3, <1>4, <1>5, <1>6, <1>7, <1>8, <1>9 DEF MutStep

LEMMA ShutdownInv ==
  ASSUME IInv, Shutdown \/ ShutdownStep
  PROVE  IInv'
<1>1. TypeOK'
  BY ShutdownType DEF IInv
<1>2. UNCHANGED <<birth, rel, handle>>
  BY DEF Shutdown, ShutdownStep, ShutdownDrained, ShutdownRemoves, ShutdownDone,
         ShutdownNext, release
<1>x. sd \in ShutdownRecords
  BY DEF IInv, TypeOK
<1>3. CASE Shutdown
  <2>1. CancelAll(Ephemerals \cap records)
    BY <1>3 DEF Shutdown
  <2>2. UNCHANGED <<nodes, holdings>>
    BY <1>3 DEF Shutdown
  <2>3. sd'.cur = sd.cur
    BY <1>3, <1>x DEF Shutdown, ShutdownRecords
  <2> HIDE DEF CancelAll
  <2> QED
    BY <1>1, <1>2, <2>1, <2>2, <2>3, CancelAdopted, QuietSteps
       DEF IInv, CurrentAdopted
<1>4. CASE ShutdownDrained \/ ShutdownDone
  <2>1. UNCHANGED <<nodes, holdings, ended, saved>>
    BY <1>4 DEF ShutdownDrained, ShutdownDone, release
  <2>2. sd'.cur = sd.cur
    BY <1>4, <1>x DEF ShutdownDrained, ShutdownDone, ShutdownRecords
  <2> QED
    BY <1>1, <1>2, <2>1, <2>2, QuietSteps DEF IInv, CurrentAdopted
<1>5. ASSUME NEW i \in Instances, ShutdownNext(i)
      PROVE  IInv'
  <2>1. UNCHANGED <<nodes, holdings, ended, saved>>
    BY <1>5 DEF ShutdownNext, release
  <2>2. sd'.cur = sd.cur \/ (sd'.cur = i /\ i \in records)
    BY <1>5, <1>x DEF ShutdownNext, ShutdownRecords
  <2>3. sd'.cur \in Ephemerals => reg[sd'.cur] = "adopted"
    BY <2>2 DEF IInv, CurrentAdopted, RecordsAdopted
  <2> QED
    BY <1>1, <1>2, <2>1, <2>3, QuietSteps
<1>6. CASE ShutdownRemoves
  <2> DEFINE c == sd.cur
  <2>1. Forget(Subtree(c), {c}) /\ UNCHANGED <<ended, saved>>
    BY <1>6 DEF ShutdownRemoves, release
  <2>2. \A j \in tree \ Subtree(c) :
          parent[j] # NoParent => parent[j] \in tree \ Subtree(c)
    BY RemovalKeepsClosed DEF IInv
  <2>3. {c} \cap tree \subseteq Subtree(c)
    BY SubtreeInTree
  <2>4. c \in Ephemerals => reg[c] = "adopted"
    BY DEF IInv, CurrentAdopted
  <2>5. sd'.cur \notin Ephemerals
    BY <1>6, <1>x, IdsAssumption DEF ShutdownRemoves, ShutdownRecords, Instances
  <2> HIDE DEF Forget, Subtree, c
  <2> QED
    BY <1>1, <1>2, <2>1, <2>2, <2>3, <2>4, <2>5, RemovalSteps
<1> QED
  BY <1>3, <1>4, <1>5, <1>6 DEF ShutdownStep

LEMMA NextInv == IInv /\ [Next]_vars => IInv'
<1> SUFFICES ASSUME IInv, [Next]_vars PROVE IInv'
  OBVIOUS
<1>1. CASE UNCHANGED vars
  BY <1>1 DEF vars, birth, nodes, turns, release, holdings, gates, IInv, TypeOK,
              ParentsFixed, TreeIsClosed, TreeIsOwned, BornInTree,
              RecordsAdopted, EndedAdopted, CurrentAdopted, SettledIsGone,
              NothingLeaks
<1>2. ASSUME NEW i \in Ephemerals, NEW p \in Instances \cup {NoParent},
             SpawnEphemeral(i, p)
      PROVE  IInv'
  BY <1>2, BirthInv DEF Instances
<1>3. ASSUME NEW r \in Residents, RegisterResident(r)
      PROVE  IInv'
  BY <1>3, BirthInv DEF Instances
<1>4. ASSUME NEW i \in Instances, BirthStep(i) \/ AcceptTurn(i) \/ TurnEnds(i)
      PROVE  IInv'
  BY <1>4, BirthInv, TurnInv
<1>5. ASSUME NEW i \in Ephemerals,
             TurnEndsInstance(i) \/ Revives(i) \/ Cancel(i) \/ ReleaseStep(i)
      PROVE  IInv'
  BY <1>5, TurnInv, ReleaseInv DEF Instances
<1>6. ASSUME NEW m \in Mutators,
             \/ \E k \in Kinds : Prepare(m, k)
             \/ \E r \in Residents :
                  DeleteResident(m, r) \/ DeleteResidentThrows(m, r)
             \/ MutStep(m)
      PROVE  IInv'
  BY <1>6, MutationInv
<1>7. CASE Shutdown \/ ShutdownStep
  BY <1>7, ShutdownInv
<1> QED
  BY <1>1, <1>2, <1>3, <1>4, <1>5, <1>6, <1>7 DEF Next

LEMMA Invariance == Spec => []IInv
  BY InitInv, NextInv, PTL DEF Spec

\* Every variable of the supervisor keeps its type.
THEOREM TypeCorrect == Spec => []TypeOK
<1>1. IInv => TypeOK
  BY DEF IInv
<1> QED
  BY <1>1, Invariance, PTL

\* RuntimeTree.assertTopology never throws: whatever subtree a release, a
\* deletion, a reload or a shutdown removes, no orphan stays behind.
THEOREM TreeStaysClosed == Spec => []TreeIsClosed
<1>1. IInv => TreeIsClosed
  BY DEF IInv
<1> QED
  BY <1>1, Invariance, PTL

\* A node without a record belongs to a registration that is about to adopt it.
THEOREM TreeStaysOwned == Spec => []TreeIsOwned
<1>1. IInv => TreeIsOwned
  BY DEF IInv
<1> QED
  BY <1>1, Invariance, PTL

\* The session's lease and the memory template of an ephemeral instance are
\* held exactly from its spawn to the removal of its record.
THEOREM NoLeak == Spec => []NothingLeaks
<1>1. IInv => NothingLeaks
  BY DEF IInv
<1> QED
  BY <1>1, Invariance, PTL

\* Whoever awaits a completion handle and sees it settled may rely on the
\* instance being gone and its lease returned.
THEOREM SettledMeansGone == Spec => []CompletionMeansGone
<1>1. IInv => CompletionMeansGone
  BY DEF IInv, SettledIsGone, NothingLeaks, CompletionMeansGone
<1> QED
  BY <1>1, Invariance, PTL

-----------------------------------------------------------------------------
(* Shutdown                                                                *)

LEMMA ReopenKeepsFinal ==
  ASSUME ShutdownIsFinal, Reopen, UNCHANGED shutdownStarted
  PROVE  ShutdownIsFinal'
<1>1. CASE shutdownStarted
  BY <1>1 DEF ShutdownIsFinal, Reopen
<1>2. CASE ~shutdownStarted
  BY <1>2 DEF ShutdownIsFinal
<1> QED
  BY <1>1, <1>2

\* Releasing a barrier, or the end of a deletion, never reopens a session whose
\* shutdown has begun.
THEOREM ShutdownStaysFinal == Spec => []ShutdownIsFinal
<1>1. Init => ShutdownIsFinal
  BY DEF Init, ShutdownIsFinal
<1>2. ASSUME ShutdownIsFinal, [Next]_vars
      PROVE  ShutdownIsFinal'
  <2>1. CASE UNCHANGED gates
    BY <1>2, <2>1 DEF gates, ShutdownIsFinal
  <2>2. CASE CloseGates
    BY <2>2 DEF CloseGates, ShutdownIsFinal
  <2>3. CASE Reopen /\ UNCHANGED shutdownStarted
    BY <1>2, <2>3, ReopenKeepsFinal
  <2> HIDE DEF CloseGates, Reopen
  <2>4. ASSUME NEW i \in Instances, BirthStep(i) \/ AcceptTurn(i) \/ TurnEnds(i)
        PROVE  UNCHANGED gates
    BY <2>4 DEF BirthStep, SpawnResolved, Insert, RegistrationLost, Adopt,
                AcceptTurn, TurnEnds
  <2>5. ASSUME NEW i \in Ephemerals,
               TurnEndsInstance(i) \/ Revives(i) \/ Cancel(i) \/ ReleaseStep(i)
        PROVE  UNCHANGED gates
    BY <2>5 DEF TurnEndsInstance, Revives, Cancel, ReleaseStep, PersistTerminal,
                PersistTerminalFails, ReleaseLeaf, LogDisposed,
                LogDisposedFails, FinishRelease
  <2>6. ASSUME NEW m \in Mutators, NEW k \in Kinds, Prepare(m, k)
        PROVE  CloseGates
    BY <2>6 DEF Prepare
  <2>7. ASSUME NEW m \in Mutators, NEW r \in Residents,
               DeleteResident(m, r) \/ DeleteResidentThrows(m, r)
        PROVE  CloseGates \/ (Reopen /\ UNCHANGED shutdownStarted)
    BY <2>7 DEF DeleteResident, DeleteResidentThrows
  <2>8. ASSUME NEW m \in Mutators, MutStep(m)
        PROVE  UNCHANGED gates \/ (Reopen /\ UNCHANGED shutdownStarted)
    <3>1. CASE \/ Release(m) \/ ResidentDisposed(m)
               \/ DeleteSubtree(m) \/ ClearForReload(m)
      BY <3>1 DEF Release, ResidentDisposed, DeleteSubtree, ClearForReload, gates
    <3>2. CASE \/ Drained(m) \/ Hold(m) \/ RollbackEnds(m)
               \/ BootLost(m) \/ BootDone(m)
      BY <3>2 DEF Drained, Hold, RollbackEnds, BootLost, BootDone
    <3>3. ASSUME NEW r \in Residents,
                 \/ Quiesced(m, r) \/ DisposeResident(m, r) \/ Boot(m, r)
                 \/ RollbackBegins(m, r)
          PROVE  UNCHANGED gates
      BY <3>3 DEF Quiesced, DisposeResident, Boot, RollbackBegins
    <3> QED
      BY <2>8, <3>1, <3>2, <3>3 DEF MutStep
  <2>9. Shutdown => CloseGates
    BY DEF Shutdown
  <2>10. ShutdownStep => UNCHANGED gates
    BY DEF ShutdownStep, ShutdownDrained, ShutdownNext, ShutdownRemoves,
           ShutdownDone
  <2>11. CASE UNCHANGED vars
    BY <2>1, <2>11 DEF vars
  <2>12. ASSUME NEW i \in Ephemerals, NEW p \in Instances \cup {NoParent},
                SpawnEphemeral(i, p)
         PROVE  UNCHANGED gates
    BY <2>12 DEF SpawnEphemeral
  <2>13. ASSUME NEW r \in Residents, RegisterResident(r)
         PROVE  UNCHANGED gates
    BY <2>13 DEF RegisterResident
  <2> QED
    BY <1>2, <2>1, <2>2, <2>3, <2>4, <2>5, <2>6, <2>7, <2>8, <2>9, <2>10,
       <2>11, <2>12, <2>13 DEF Next
<1> QED
  BY <1>1, <1>2, PTL DEF Spec

-----------------------------------------------------------------------------
(* The barrier of a caller that overlaps with no other                     *)

\* one caller at a time holds the gates
OneCaller == \A m, n \in Mutators : m = n

Gating(m) == mut[m].pc \in {"draining", "quiescing", "holding", "disposing"}

\* The gates stay closed for whoever closed them, and behind them a resident that
\* has come to rest stays there.
Quiet ==
  \A m \in Mutators :
    /\ Gating(m) => ~acceptingTurns /\ ~acceptingSpawns
    /\ mut[m].pc = "quiescing" =>
         \A r \in (Residents \cap records) \ mut[m].todo : work[r] = "idle"
    /\ Holding(m) => \A r \in Residents \cap records : work[r] = "idle"

\* Behind closed gates nobody leaves his rest, and who arrives has never worked.
NobodyStarts ==
  \A r \in Residents \cap records' :
    acceptingTurns \/ work'[r] = "idle" \/ (r \in records /\ work[r] # "idle")

LEMMA RestingSteps ==
  ASSUME Quiet, UNCHANGED mut, NobodyStarts,
         acceptingTurns' => acceptingTurns, acceptingSpawns' => acceptingSpawns
  PROVE  Quiet'
<1> SUFFICES ASSUME NEW m \in Mutators
             PROVE  /\ Gating(m)' => ~acceptingTurns' /\ ~acceptingSpawns'
                    /\ mut[m].pc = "quiescing" =>
                         \A r \in (Residents \cap records') \ mut[m].todo :
                           work'[r] = "idle"
                    /\ Holding(m)' =>
                         \A r \in Residents \cap records' : work'[r] = "idle"
  BY DEF Quiet
<1>1. (Gating(m)' <=> Gating(m)) /\ (Holding(m)' <=> Holding(m))
  BY DEF Gating, Holding
<1>2. /\ Gating(m) => ~acceptingTurns /\ ~acceptingSpawns
      /\ mut[m].pc = "quiescing" =>
           \A r \in (Residents \cap records) \ mut[m].todo : work[r] = "idle"
      /\ Holding(m) => \A r \in Residents \cap records : work[r] = "idle"
  BY DEF Quiet
<1>3. mut[m].pc = "quiescing" \/ Holding(m) => Gating(m)
  BY DEF Gating, Holding
<1> HIDE DEF Gating, Holding
<1> QED
  BY <1>1, <1>2, <1>3 DEF NobodyStarts

\* A turn that is cancelled, or whose controller is disposed, begins nothing.
LEMMA NoWorkBegins ==
  ASSUME TypeOK
  PROVE  /\ \A S : AbortWork(S) =>
              \A r \in Instances : work[r] = "idle" => work'[r] = "idle"
         /\ \A S : CancelAll(S) =>
              \A r \in Instances : work[r] = "idle" => work'[r] = "idle"
         /\ \A i \in Instances : Dispose(i) =>
              \A r \in Instances : work[r] = "idle" => work'[r] = "idle"
         /\ \A i \in Instances : \A b : DisposeReturns(i, b) => UNCHANGED work
<1>1. ASSUME NEW S, AbortWork(S)
      PROVE  \A r \in Instances : work[r] = "idle" => work'[r] = "idle"
  BY <1>1 DEF AbortWork
<1>2. ASSUME NEW S, CancelAll(S)
      PROVE  \A r \in Instances : work[r] = "idle" => work'[r] = "idle"
  BY <1>1, <1>2 DEF CancelAll
<1>3. ASSUME NEW i \in Instances, Dispose(i)
      PROVE  \A r \in Instances : work[r] = "idle" => work'[r] = "idle"
  BY <1>1, <1>3 DEF Dispose, turns
<1>4. \A i \in Instances : \A b : DisposeReturns(i, b) => UNCHANGED work
  BY DEF DisposeReturns
<1> QED
  BY <1>1, <1>2, <1>3, <1>4

\* Everything but the callers themselves.
LEMMA OthersKeepQuiet ==
  ASSUME TypeOK, Quiet, NEW i,
         \/ \E p \in Instances \cup {NoParent} : SpawnEphemeral(i, p)
         \/ RegisterResident(i)
         \/ i \in Instances /\ (BirthStep(i) \/ AcceptTurn(i) \/ TurnEnds(i))
         \/ /\ i \in Ephemerals
            /\ TurnEndsInstance(i) \/ Revives(i) \/ Cancel(i) \/ ReleaseStep(i)
         \/ Shutdown \/ ShutdownStep
  PROVE  Quiet'
<1>1. UNCHANGED mut
  BY DEF SpawnEphemeral, RegisterResident, BirthStep, SpawnResolved, Insert,
         RegistrationLost, Adopt, AcceptTurn, TurnEnds, TurnEndsInstance, Revives, Cancel,
         ReleaseStep, PersistTerminal, PersistTerminalFails, ReleaseLeaf,
         LogDisposed, LogDisposedFails, FinishRelease, Shutdown, ShutdownStep,
         ShutdownDrained, ShutdownNext, ShutdownRemoves, ShutdownDone
<1>2. /\ acceptingTurns' => acceptingTurns
      /\ acceptingSpawns' => acceptingSpawns
  <2>1. CASE Shutdown
    BY <2>1, Zenon DEF Shutdown, CloseGates
  <2>2. CASE \/ \E p \in Instances \cup {NoParent} : SpawnEphemeral(i, p)
             \/ RegisterResident(i) \/ BirthStep(i)
             \/ AcceptTurn(i) \/ TurnEnds(i)
    BY <2>2
       DEF SpawnEphemeral, RegisterResident, BirthStep, SpawnResolved, Insert,
           RegistrationLost, Adopt, AcceptTurn, TurnEnds, gates
  <2>3. CASE TurnEndsInstance(i) \/ Revives(i) \/ Cancel(i) \/ ReleaseStep(i)
    BY <2>3
       DEF TurnEndsInstance, Revives, Cancel, ReleaseStep, PersistTerminal,
           PersistTerminalFails, ReleaseLeaf, LogDisposed, LogDisposedFails,
           FinishRelease, gates
  <2>4. CASE ShutdownStep
    <3>1. UNCHANGED gates
      BY <2>4 DEF ShutdownStep, ShutdownDrained, ShutdownNext, ShutdownRemoves,
                  ShutdownDone
    <3> QED
      BY <3>1 DEF gates
  <2> QED
    BY <2>1, <2>2, <2>3, <2>4
<1>3. NobodyStarts
  <2>1. CASE \/ \E p \in Instances \cup {NoParent} : SpawnEphemeral(i, p)
             \/ RegisterResident(i)
             \/ SpawnResolved(i) \/ Insert(i) \/ RegistrationLost(i)
    BY <2>1 DEF SpawnEphemeral, RegisterResident, SpawnResolved, Insert,
                RegistrationLost, nodes, turns, NobodyStarts
  <2>2. CASE i \in Instances /\ Adopt(i)
    BY <2>2 DEF Adopt, NobodyStarts, TypeOK, turns, Instances
  <2>3. CASE i \in Instances /\ AcceptTurn(i)
    BY <2>3 DEF AcceptTurn, NobodyStarts
  <2>4. CASE i \in Instances /\ TurnEnds(i)
    BY <2>4 DEF TurnEnds, NobodyStarts, TypeOK, nodes, Instances
  <2>5. CASE i \in Ephemerals /\ TurnEndsInstance(i)
    BY <2>5, IdsAssumption
       DEF TurnEndsInstance, NobodyStarts, TypeOK, nodes, Instances
  <2>6. CASE i \in Ephemerals /\ Cancel(i)
    <3>1. records' = records /\ CancelAll(Subtree(i) \cup {i})
      BY <2>6 DEF Cancel, nodes
    <3> HIDE DEF CancelAll
    <3> QED
      BY <3>1, NoWorkBegins DEF NobodyStarts, Instances
  <2>7. CASE i \in Ephemerals /\ ReleaseStep(i)
    <3>1. records' \subseteq records
      BY <2>7 DEF ReleaseStep, PersistTerminal, PersistTerminalFails,
                  ReleaseLeaf, LogDisposed, LogDisposedFails, FinishRelease,
                  Forget, nodes
    <3>2. Dispose(i) \/ UNCHANGED work
      BY <2>7
         DEF ReleaseStep, PersistTerminal, PersistTerminalFails, ReleaseLeaf,
             LogDisposed, LogDisposedFails, ReleaseThrows, FinishRelease,
             DisposeReturns, turns
    <3> HIDE DEF Dispose
    <3> QED
      BY <2>7, <3>1, <3>2, NoWorkBegins DEF NobodyStarts, Instances
  <2>8. CASE Shutdown
    <3>1. records' = records /\ CancelAll(Ephemerals \cap records)
      BY <2>8 DEF Shutdown, nodes
    <3> HIDE DEF CancelAll
    <3> QED
      BY <3>1, NoWorkBegins DEF NobodyStarts, Instances
  <2>9. CASE ShutdownDrained \/ ShutdownDone
    BY <2>9 DEF ShutdownDrained, ShutdownDone, nodes, turns, NobodyStarts
  <2>10. CASE ShutdownRemoves
    <3>1. records' \subseteq records /\ UNCHANGED work
      BY <2>10 DEF ShutdownRemoves, Forget, DisposeReturns
    <3> QED
      BY <3>1 DEF NobodyStarts
  <2>12. CASE i \in Ephemerals /\ Revives(i)
    BY <2>12 DEF Revives, NobodyStarts, nodes, turns, Instances
  <2>11. ASSUME NEW j \in Instances, ShutdownNext(j)
         PROVE  NobodyStarts
    <3>1. records' = records /\ (Dispose(j) \/ UNCHANGED work)
      BY <2>11 DEF ShutdownNext, nodes, turns
    <3> HIDE DEF Dispose
    <3> QED
      BY <3>1, NoWorkBegins DEF NobodyStarts, Instances
  <2> HIDE DEF NobodyStarts
  <2> QED
    BY <2>1, <2>2, <2>3, <2>4, <2>5, <2>6, <2>7, <2>8, <2>9, <2>10, <2>11, <2>12
       DEF BirthStep, ShutdownStep
<1> QED
  BY <1>1, <1>2, <1>3, RestingSteps

\* What is to be shown of the one caller.
LEMMA OneCallerQuiet ==
  ASSUME OneCaller, NEW m \in Mutators,
         Gating(m)' => ~acceptingTurns' /\ ~acceptingSpawns',
         (mut[m].pc)' = "quiescing" =>
           \A r \in (Residents \cap records') \ (mut[m].todo)' : work'[r] = "idle",
         Holding(m)' => \A r \in Residents \cap records' : work'[r] = "idle"
  PROVE  Quiet'
<1> SUFFICES ASSUME NEW n \in Mutators
             PROVE  /\ Gating(n)' => ~acceptingTurns' /\ ~acceptingSpawns'
                    /\ (mut[n].pc)' = "quiescing" =>
                         \A r \in (Residents \cap records') \ (mut[n].todo)' :
                           work'[r] = "idle"
                    /\ Holding(n)' =>
                         \A r \in Residents \cap records' : work'[r] = "idle"
  BY DEF Quiet
<1>1. n = m
  BY DEF OneCaller
<1> QED
  BY <1>1

\* The caller's own steps: the gates are open again only when it lets go.
LEMMA CallerKeepsQuiet ==
  ASSUME TypeOK, Quiet, OneCaller, NEW m \in Mutators,
         \/ \E k \in Kinds : Prepare(m, k)
         \/ \E r \in Residents : DeleteResident(m, r) \/ DeleteResidentThrows(m, r)
         \/ MutStep(m)
  PROVE  Quiet'
<1>m. mut \in [Mutators -> MutRecords] /\ mut[m] \in MutRecords
  BY DEF TypeOK
<1>q. /\ Gating(m) => ~acceptingTurns /\ ~acceptingSpawns
      /\ mut[m].pc = "quiescing" =>
           \A r \in (Residents \cap records) \ mut[m].todo : work[r] = "idle"
      /\ Holding(m) => \A r \in Residents \cap records : work[r] = "idle"
  BY DEF Quiet
\* A caller at rest, booting or rolling back asks nothing of the residents.
<1>r. ASSUME mut'[m].pc \in {"idle", "booting", "rollback"},
             (Holding(m)' => mut'[m].pc \in {"holding", "disposing"}),
             (Gating(m)' <=> mut'[m].pc \in {"draining", "quiescing", "holding",
                                             "disposing"})
      PROVE  Quiet'
  BY <1>r, OneCallerQuiet
<1>h. /\ Holding(m)' => mut'[m].pc \in {"holding", "disposing"}
      /\ Gating(m)' <=> mut'[m].pc \in {"draining", "quiescing", "holding",
                                        "disposing"}
  BY DEF Holding, Gating
<1>1. ASSUME NEW k \in Kinds, Prepare(m, k)
      PROVE  Quiet'
  <2>1. mut'[m].pc = "draining" /\ ~acceptingTurns' /\ ~acceptingSpawns'
    BY <1>m, <1>1 DEF Prepare, CloseGates, MutIdle
  <2> QED
    BY <1>h, <2>1, OneCallerQuiet
<1>2. ASSUME NEW r \in Residents, DeleteResident(m, r)
      PROVE  Quiet'
  <2>1. mut'[m].pc = "draining" /\ ~acceptingTurns' /\ ~acceptingSpawns'
    BY <1>m, <1>2 DEF DeleteResident, CloseGates, MutIdle
  <2> QED
    BY <1>h, <2>1, OneCallerQuiet
<1>3. ASSUME NEW r \in Residents, DeleteResidentThrows(m, r)
      PROVE  Quiet'
  BY <1>3, <1>h, <1>r DEF DeleteResidentThrows
<1>4. CASE Drained(m)
  <2>0. UNCHANGED <<acceptingTurns, acceptingSpawns, records>> /\ Gating(m)
    BY <1>4 DEF Drained, gates, nodes, Gating
  <2>1. CASE mut[m].kind = "delete"
    <3>1. mut'[m].pc = "disposing" /\ mut'[m].kind = "delete"
      BY <1>m, <1>4, <2>1 DEF Drained, MutRecords
    <3>2. ~Holding(m)'
      BY <3>1 DEF Holding
    <3> QED
      BY <1>h, <1>q, <2>0, <3>1, <3>2, OneCallerQuiet
  <2>2. CASE mut[m].kind # "delete"
    <3>0. mut' = [mut EXCEPT ![m] = [@ EXCEPT !.pc = "quiescing", !.waits = {},
                                              !.todo = Residents \cap records]]
      BY <1>4, <2>2 DEF Drained
    <3>1. mut'[m].pc = "quiescing" /\ mut'[m].todo = Residents \cap records
      BY <1>m, <3>0 DEF MutRecords
    <3>2. /\ ~Holding(m)' /\ ~acceptingTurns' /\ ~acceptingSpawns'
          /\ \A r \in (Residents \cap records') \ mut'[m].todo : work'[r] = "idle"
      BY <1>h, <1>q, <2>0, <3>1
    <3> QED
      BY <3>2, OneCallerQuiet
  <2> QED
    BY <2>1, <2>2
<1>5. CASE Hold(m)
  <2>0. UNCHANGED <<acceptingTurns, acceptingSpawns, records, work>> /\ Gating(m)
    BY <1>5 DEF Hold, gates, nodes, turns, Gating
  <2>1. \A r \in Residents \cap records : work[r] = "idle"
    BY <1>5, <1>q DEF Hold
  <2>2. mut'[m].pc # "quiescing"
    BY <1>m, <1>5 DEF Hold, MutRecords
  <2> QED
    BY <1>q, <2>0, <2>1, <2>2, OneCallerQuiet
<1>6. CASE Release(m) \/ DeleteSubtree(m) \/ BootDone(m)
  <2>1. mut'[m].pc = "idle"
    <3>1. mut' = [mut EXCEPT ![m] = MutIdle]
      BY <1>6 DEF Release, DeleteSubtree, BootDone
    <3> QED
      BY <1>m, <3>1 DEF MutIdle
  <2> QED
    BY <1>h, <1>r, <2>1
<1>7. CASE ResidentDisposed(m)
  <2>1. CASE mut' = [mut EXCEPT ![m] = MutIdle]
    <3>1. mut'[m].pc = "idle"
      BY <1>m, <2>1 DEF MutIdle
    <3> QED
      BY <1>h, <1>r, <3>1
  <2>2. CASE /\ mut' = [mut EXCEPT ![m] = [@ EXCEPT !.cur = NoOne]]
             /\ UNCHANGED <<acceptingSpawns, acceptingTurns, failures>>
    <3>1. /\ mut'[m].pc = "disposing" /\ mut[m].pc = "disposing"
          /\ mut'[m].kind = mut[m].kind
      BY <1>m, <1>7, <2>2 DEF ResidentDisposed, MutRecords
    <3>2. UNCHANGED <<records, work>>
      BY <1>7 DEF ResidentDisposed, DisposeReturns, nodes
    <3>3. Gating(m) /\ (Holding(m)' => Holding(m))
      BY <3>1 DEF Gating, Holding
    <3> QED
      BY <1>q, <2>2, <3>1, <3>2, <3>3, OneCallerQuiet
  <2> QED
    BY <1>7, <2>1, <2>2 DEF ResidentDisposed
<1>8. CASE ClearForReload(m) \/ BootLost(m)
  <2>1. mut'[m].pc \in {"booting", "rollback"}
    BY <1>m, <1>8 DEF ClearForReload, BootLost, MutRecords
  <2> QED
    BY <1>h, <1>r, <2>1
<1>9. CASE RollbackEnds(m)
  <2>1. mut'[m].pc = "rollback"
    BY <1>m, <1>9 DEF RollbackEnds, MutRecords
  <2> QED
    BY <1>h, <1>r, <2>1
<1>10. ASSUME NEW r \in Residents, Quiesced(m, r)
       PROVE  Quiet'
  <2>1. mut'[m].pc = "quiescing" /\ mut'[m].todo = mut[m].todo \ {r}
    BY <1>m, <1>10 DEF Quiesced, MutRecords
  <2>2. /\ UNCHANGED <<acceptingTurns, acceptingSpawns, records, work>>
        /\ mut[m].pc = "quiescing" /\ work[r] = "idle"
    BY <1>10 DEF Quiesced, gates, nodes, turns
  <2>3. Gating(m) /\ ~Holding(m)'
    BY <1>m, <1>10, <2>1, <2>2 DEF Gating, Holding, Quiesced
  <2> QED
    BY <1>q, <2>1, <2>2, <2>3, OneCallerQuiet
<1>11. ASSUME NEW r \in Residents, DisposeResident(m, r)
       PROVE  Quiet'
  <2>1. /\ mut'[m].pc = "disposing" /\ mut[m].pc = "disposing"
        /\ mut'[m].kind = mut[m].kind
    BY <1>m, <1>11 DEF DisposeResident, MutRecords
  <2>2. UNCHANGED <<acceptingTurns, acceptingSpawns, records>> /\ Dispose(r)
    BY <1>11 DEF DisposeResident, gates, nodes
  <2>3. Gating(m) /\ (Holding(m)' => Holding(m))
    BY <2>1 DEF Gating, Holding
  <2>4. \A j \in Residents : work[j] = "idle" => work'[j] = "idle"
    BY <2>2, NoWorkBegins DEF Instances
  <2> HIDE DEF Dispose
  <2> QED
    BY <1>q, <2>1, <2>2, <2>3, <2>4, OneCallerQuiet
<1>12. ASSUME NEW r \in Residents, Boot(m, r) \/ RollbackBegins(m, r)
       PROVE  Quiet'
  <2>1. mut'[m].pc \in {"booting", "rollback", "idle"}
    <3>1. CASE Boot(m, r)
      BY <1>m, <3>1 DEF Boot, MutRecords
    <3>2. CASE RollbackBegins(m, r) /\ r \notin records
      BY <1>m, <3>2 DEF RollbackBegins, MutRecords
    <3>3. CASE RollbackBegins(m, r) /\ r \in records /\ Children(r) # {}
      BY <1>m, <3>3 DEF RollbackBegins, MutIdle
    <3>4. CASE RollbackBegins(m, r) /\ r \in records /\ Children(r) = {}
      <4>1. /\ mut[m].pc = "rollback"
            /\ mut' = [mut EXCEPT ![m] =
                        [@ EXCEPT !.todo = mut[m].todo \ {r}, !.cur = r,
                                  !.atOnce = (ctl[r] # "live")]]
        BY <3>4 DEF RollbackBegins
      <4> QED
        BY <1>m, <4>1 DEF MutRecords
    <3> QED
      BY <1>12, <3>1, <3>2, <3>3, <3>4
  <2> QED
    BY <1>h, <1>r, <2>1
<1> QED
  BY <1>1, <1>2, <1>3, <1>4, <1>5, <1>6, <1>7, <1>8, <1>9, <1>10, <1>11, <1>12
     DEF MutStep

LEMMA NextQuiet == OneCaller /\ TypeOK /\ Quiet /\ [Next]_vars => Quiet'
<1> SUFFICES ASSUME OneCaller, TypeOK, Quiet, [Next]_vars PROVE Quiet'
  OBVIOUS
<1>1. CASE UNCHANGED vars
  BY <1>1 DEF vars, nodes, turns, gates, Quiet, Gating, Holding
<1>2. ASSUME NEW i \in Ephemerals, NEW p \in Instances \cup {NoParent},
             SpawnEphemeral(i, p)
      PROVE  Quiet'
  BY <1>2, OthersKeepQuiet DEF Instances
<1>3. ASSUME NEW r \in Residents, RegisterResident(r)
      PROVE  Quiet'
  BY <1>3, OthersKeepQuiet DEF Instances
<1>4. ASSUME NEW i \in Instances, BirthStep(i) \/ AcceptTurn(i) \/ TurnEnds(i)
      PROVE  Quiet'
  BY <1>4, OthersKeepQuiet
<1>5. ASSUME NEW i \in Ephemerals,
             TurnEndsInstance(i) \/ Revives(i) \/ Cancel(i) \/ ReleaseStep(i)
      PROVE  Quiet'
  BY <1>5, OthersKeepQuiet DEF Instances
<1>6. ASSUME NEW m \in Mutators,
             \/ \E k \in Kinds : Prepare(m, k)
             \/ \E r \in Residents :
                  DeleteResident(m, r) \/ DeleteResidentThrows(m, r)
             \/ MutStep(m)
      PROVE  Quiet'
  BY <1>6, CallerKeepsQuiet
<1>7. CASE Shutdown \/ ShutdownStep
  BY <1>7, OthersKeepQuiet
<1> QED
  BY <1>1, <1>2, <1>3, <1>4, <1>5, <1>6, <1>7 DEF Next

\* While a checkpoint or a reload holds the barrier no resident is at work and
\* none can begin, when no other caller gates the session at the same time.
THEOREM HoldsAreQuiet ==
  ASSUME OneCaller
  PROVE  Spec => []HoldIsQuiet
<1>1. Init => Quiet
  BY DEF Init, Quiet, Gating, Holding, MutIdle
<1>2. TypeOK /\ Quiet => HoldIsQuiet
  BY DEF Quiet, HoldIsQuiet, Gating, Holding
<1>3. TypeOK /\ Quiet /\ [Next]_vars => Quiet'
  BY NextQuiet
<1> QED
  BY <1>1, <1>2, <1>3, TypeCorrect, PTL DEF Spec

-----------------------------------------------------------------------------
(* The end of an instance is the end of its work                           *)

\* no deletion of a resident overlaps another caller
NoOverlap == "delete" \in Kinds => OneCaller

Deleting(m) == mut[m].kind = "delete" /\ mut[m].pc \in {"draining", "disposing"}

\* What a deletion will drop is at rest, or ended with a failure.
DropsAtRest(m) ==
  Deleting(m) =>
    /\ ~acceptingTurns
    /\ \A r \in mut[m].scope : \A i \in Subtree(r) \cap Ephemerals \cap records :
         \/ mut[m].pc = "draining" /\ i \in mut[m].waits
         \/ handle[i] \in {"settled", "failed"} \/ work[i] = "idle"

\* The one release of an instance, and its executor.
EndsAtRest(i) ==
  /\ saved[i] # "no" => i \in ended
  /\ rel[i] \notin {"no", "waiting"} => saved[i] \in {"saved", "lost"}
  /\ ctl[i] # "live" => rel[i] \in {"closing", "done"}
  /\ rel[i] = "leaving" => i \notin records
  /\ reg[i] = "adopted" /\ i \notin records =>
       rel[i] = "done" \/ work[i] = "idle" \/ handle[i] = "failed"
  /\ handle[i] = "settled" => work[i] = "idle"

AllAtRest ==
  (\A m \in Mutators : DropsAtRest(m)) /\ (\A i \in Ephemerals : EndsAtRest(i))

\* A deletion interrupts nobody and waits for no resident's turn.
OnlyBarriersQuiesce == \A m \in Mutators : mut[m].pc = "quiescing" => mut[m].kind # "delete"

Rest ==
  /\ sd.pc # "no" => shutdownStarted
  /\ OnlyBarriersQuiesce
  /\ ~shutdownStarted => AllAtRest

\* Nodes X join the tree, others may leave it: nobody else comes under r.
LEMMA SubtreeGrows ==
  ASSUME IInv, NEW X \in SUBSET Instances, X \cap tree = {},
         tree' \subseteq tree \cup X, \A k \in tree : parent'[k] = parent[k],
         NEW r
  PROVE  Subtree(r)' \subseteq Subtree(r) \cup X
<1> DEFINE S == (Subtree(r) \cup X) \cap tree'
<1>1. CASE r \notin tree'
  BY <1>1 DEF Subtree
<1>2. CASE r \in tree'
  <2>1. r \in S
    BY <1>2, SubtreeInTree
  <2>2. ASSUME NEW k \in tree', parent'[k] \in S
        PROVE  k \in S
    <3>1. CASE k \in X
      BY <3>1
    <3>2. CASE k \notin X
      <4>1. k \in tree /\ parent[k] \in S
        BY <2>2, <3>2
      <4>2. parent[k] \notin X
        BY <4>1, IdsAssumption DEF IInv, TreeIsClosed
      <4>3. parent[k] \in Subtree(r)
        BY <4>1, <4>2
      <4> QED
        BY <4>1, <4>3, SubtreeTakesChildren
    <3> QED
      BY <3>1, <3>2
  <2>3. S \in SUBSET tree'
    OBVIOUS
  <2>4. \A k \in tree' : parent'[k] \in S => k \in S
    BY <2>2
  <2>5. ASSUME NEW j \in Subtree(r)' PROVE j \in S
    <3> HIDE DEF S
    <3> QED
      BY <1>2, <2>1, <2>3, <2>4, <2>5 DEF Subtree
  <2> QED
    BY <2>5
<1> QED
  BY <1>1, <1>2

\* A caller that goes on deleting, while others do something else.
LEMMA DropsKept ==
  ASSUME IInv, NEW m \in Mutators, DropsAtRest(m),
         NEW X \in SUBSET Instances, X \cap tree = {},
         tree' \subseteq tree \cup X, \A k \in tree : parent'[k] = parent[k],
         X \cap Ephemerals \cap records' = {},
         Deleting(m)' =>
           /\ Deleting(m) /\ ~acceptingTurns'
           /\ mut'[m].scope = mut[m].scope /\ mut'[m].waits = mut[m].waits
           /\ mut'[m].pc = mut[m].pc,
         \A i \in Ephemerals \cap records' :
           \/ acceptingTurns \/ work'[i] = "idle"
           \/ /\ i \in records /\ work[i] # "idle"
              /\ handle[i] \in {"settled", "failed"} =>
                   handle'[i] \in {"settled", "failed"}
  PROVE  DropsAtRest(m)'
<1>1. SUFFICES ASSUME Deleting(m)', NEW r \in mut'[m].scope,
                      NEW i \in Subtree(r)' \cap Ephemerals \cap records'
               PROVE  \/ mut'[m].pc = "draining" /\ i \in mut'[m].waits
                      \/ handle'[i] \in {"settled", "failed"} \/ work'[i] = "idle"
  BY DEF DropsAtRest
<1>2. i \in Subtree(r)
  BY SubtreeGrows
<1>3. r \in mut[m].scope /\ Deleting(m)
  BY <1>1
<1>4. CASE work'[i] = "idle"
  BY <1>4
<1>5. CASE work'[i] # "idle"
  <2>1. ~acceptingTurns
    BY <1>3 DEF DropsAtRest
  <2>2. /\ i \in records /\ work[i] # "idle"
        /\ handle[i] \in {"settled", "failed"} =>
             handle'[i] \in {"settled", "failed"}
    BY <1>5, <2>1
  <2>3. (mut[m].pc = "draining" /\ i \in mut[m].waits)
          \/ handle[i] \in {"settled", "failed"}
    BY <1>2, <1>3, <2>2 DEF DropsAtRest
  <2> QED
    BY <1>1, <2>2, <2>3
<1> QED
  BY <1>4, <1>5

\* An instance whose release stands where it stood.
LEMMA EndKept ==
  ASSUME IInv, NEW i \in Ephemerals, EndsAtRest(i),
         ended \subseteq ended',
         \/ saved'[i] = saved[i]
         \/ i \in ended' \ ended /\ saved'[i] = "saving",
         rel'[i] = rel[i], handle'[i] = handle[i], ctl'[i] = ctl[i],
         reg'[i] = "adopted" /\ i \notin records' =>
           reg[i] = "adopted" /\ i \notin records,
         i \in records' => i \in records,
         work[i] = "idle" => work'[i] = "idle" \/ i \in records'
  PROVE  EndsAtRest(i)'
<1>1. i \notin ended => saved[i] = "no" /\ rel[i] \in {"no", "waiting"}
  BY DEF EndsAtRest
<1>2. handle[i] = "settled" => i \notin records
  BY DEF IInv, SettledIsGone
<1> QED
  BY <1>1, <1>2 DEF EndsAtRest

LEMMA RestSteps ==
  ASSUME Rest, UNCHANGED <<sd, shutdownStarted>>, OnlyBarriersQuiesce',
         ~shutdownStarted /\ AllAtRest => AllAtRest'
  PROVE  Rest'
  BY DEF Rest

\* Births: a new node is not recorded yet, and a new record has never worked.
LEMMA BirthRest ==
  ASSUME IInv, Rest, NEW i,
         \/ i \in Ephemerals /\ \E p \in Instances \cup {NoParent} :
                                  SpawnEphemeral(i, p)
         \/ RegisterResident(i)
         \/ i \in Instances /\ BirthStep(i)
  PROVE  Rest'
<1>i. i \in Instances
  BY IdsAssumption DEF RegisterResident, Instances
<1>1. /\ UNCHANGED <<sd, shutdownStarted, mut, acceptingTurns>>
      /\ UNCHANGED <<ended, saved, rel>>
  BY DEF SpawnEphemeral, RegisterResident, BirthStep, SpawnResolved, Insert,
         RegistrationLost, Adopt, gates, release
<1>2. OnlyBarriersQuiesce'
  BY <1>1 DEF Rest, OnlyBarriersQuiesce
<1>3. reg[i] # "adopted" /\ \A j \in Instances \ {i} : reg'[j] = reg[j]
  BY <1>i DEF SpawnEphemeral, RegisterResident, BirthStep, SpawnResolved, Insert,
              RegistrationLost, Adopt, Refuse, IInv, TypeOK
<1>4. i \in Ephemerals => i \notin records /\ rel[i] = "no" /\ saved[i] = "no"
  BY <1>3 DEF IInv, RecordsAdopted, EndedAdopted
<1>5. i \in Ephemerals => handle[i] # "settled"
  BY <1>3 DEF IInv, SettledIsGone
<1>6. CASE ~(i \in Instances /\ Adopt(i))
  <2>1. UNCHANGED <<records, ctl, work, handle>>
    BY <1>6 DEF SpawnEphemeral, RegisterResident, BirthStep, SpawnResolved,
                Insert, RegistrationLost, nodes, turns, release
  <2>2. reg'[i] # "adopted"
    BY <1>6, <1>i
       DEF SpawnEphemeral, RegisterResident, BirthStep, SpawnResolved, Insert,
           RegistrationLost, Refuse, IInv, TypeOK
  <2>3. ASSUME AllAtRest, NEW j \in Ephemerals PROVE EndsAtRest(j)'
    BY <1>1, <1>3, <2>1, <2>2, <2>3, EndKept DEF AllAtRest, Instances
  <2>4. PICK X \in SUBSET {i} : X \cap tree = {} /\ tree' \subseteq tree \cup X
    <3>1. tree' \subseteq tree \cup {i}
      BY <1>6 DEF SpawnEphemeral, RegisterResident, BirthStep, SpawnResolved,
                  Insert, RegistrationLost, nodes
    <3>2. {i} \ tree \in SUBSET {i} /\ ({i} \ tree) \cap tree = {}
          /\ tree' \subseteq tree \cup ({i} \ tree)
      BY <3>1
    <3> QED
      BY <3>2
  <2>5. \A k \in tree : parent'[k] = parent[k]
    <3>1. CASE \E p \in Instances \cup {NoParent} : SpawnEphemeral(i, p)
      <4>1. reg[i] = "unborn" /\ i \in Ephemerals
        BY <3>1 DEF SpawnEphemeral
      <4>2. i \notin tree
        BY <4>1 DEF IInv, BornInTree
      <4> QED
        BY <3>1, <4>2 DEF SpawnEphemeral, IInv, TypeOK
    <3>2. CASE ~\E p \in Instances \cup {NoParent} : SpawnEphemeral(i, p)
      BY <1>6, <3>2 DEF RegisterResident, BirthStep, SpawnResolved, Insert,
                        RegistrationLost, birth
    <3> QED
      BY <3>1, <3>2
  <2>6. ASSUME AllAtRest, NEW m \in Mutators PROVE DropsAtRest(m)'
    <3>1. DropsAtRest(m)
      BY <2>6 DEF AllAtRest
    <3>2. X \in SUBSET Instances /\ X \cap Ephemerals \cap records' = {}
      BY <1>i, <1>4, <2>1
    <3>3. Deleting(m)' => Deleting(m) /\ ~acceptingTurns'
      BY <1>1, <3>1 DEF Deleting, DropsAtRest
    <3> HIDE DEF Deleting, DropsAtRest
    <3> QED
      BY <1>1, <2>1, <2>4, <2>5, <3>1, <3>2, <3>3, DropsKept
  <2> QED
    BY <1>1, <1>2, <2>3, <2>6, RestSteps DEF AllAtRest
<1>7. CASE i \in Instances /\ Adopt(i)
  <2>1. UNCHANGED <<parent, tree>>
    BY <1>7 DEF Adopt
  <2>2. \/ i \in records /\ UNCHANGED <<records, ctl, work, handle>>
        \/ /\ i \notin records /\ records' = records \cup {i}
           /\ ctl'[i] = "live" /\ work'[i] = "idle"
           /\ \A j \in Instances \ {i} : ctl'[j] = ctl[j] /\ work'[j] = work[j]
           /\ \A j \in Ephemerals \ {i} : handle'[j] = handle[j]
           /\ i \in Ephemerals => handle'[i] = "pending"
    BY <1>7 DEF Adopt, turns, IInv, TypeOK
  <2>3. ASSUME AllAtRest, NEW j \in Ephemerals PROVE EndsAtRest(j)'
    <3>1. CASE j = i
      BY <1>1, <1>4, <2>2, <3>1 DEF EndsAtRest
    <3>2. CASE j # i
      <4>1. j \in Instances /\ EndsAtRest(j)
        BY <2>3 DEF AllAtRest, Instances
      <4> HIDE DEF EndsAtRest
      <4> QED
        BY <1>1, <1>3, <2>2, <3>2, <4>1, EndKept
    <3> QED
      BY <3>1, <3>2
  <2>6. ASSUME AllAtRest, NEW m \in Mutators PROVE DropsAtRest(m)'
    <3>1. DropsAtRest(m)
      BY <2>6 DEF AllAtRest
    <3>2. ASSUME NEW j \in Ephemerals \cap records', work'[j] # "idle"
          PROVE  j \in records /\ work[j] # "idle" /\ handle'[j] = handle[j]
      BY <2>2, <3>2 DEF Instances
    <3>3. Deleting(m)' => Deleting(m) /\ ~acceptingTurns'
      BY <1>1, <3>1 DEF Deleting, DropsAtRest
    <3>4. \A j \in Ephemerals \cap records' :
           \/ acceptingTurns \/ work'[j] = "idle"
           \/ /\ j \in records /\ work[j] # "idle"
              /\ handle[j] \in {"settled", "failed"} =>
                   handle'[j] \in {"settled", "failed"}
      BY <3>2
    <3>5. {} \in SUBSET Instances /\ {} \cap tree = {}
          /\ tree' \subseteq tree \cup {} /\ (\A k \in tree : parent'[k] = parent[k])
          /\ {} \cap Ephemerals \cap records' = {}
      BY <2>1
    <3> HIDE DEF Deleting, DropsAtRest
    <3> QED
      BY <1>1, <3>1, <3>3, <3>4, <3>5, DropsKept
  <2> QED
    BY <1>1, <1>2, <2>3, <2>6, RestSteps DEF AllAtRest
<1> QED
  BY <1>6, <1>7

\* The gates and the callers are not touched, nodes only leave the tree.
LEMMA WorkRest ==
  ASSUME IInv, Rest, UNCHANGED <<sd, shutdownStarted, mut, acceptingTurns, birth>>,
         tree' \subseteq tree, records' \subseteq records,
         \A j \in Ephemerals \cap records :
           \/ acceptingTurns \/ work'[j] = "idle"
           \/ /\ work[j] # "idle"
              /\ handle[j] \in {"settled", "failed"} =>
                   handle'[j] \in {"settled", "failed"},
         AllAtRest => \A j \in Ephemerals : EndsAtRest(j)'
  PROVE  Rest'
<1>1. ASSUME AllAtRest, NEW m \in Mutators PROVE DropsAtRest(m)'
  <2>1. DropsAtRest(m)
    BY <1>1 DEF AllAtRest
  <2>2. Deleting(m)' => Deleting(m) /\ ~acceptingTurns'
    BY <2>1 DEF Deleting, DropsAtRest
  <2>3. \A k \in tree : parent'[k] = parent[k]
    BY DEF birth
  <2>4. {} \in SUBSET Instances /\ {} \cap tree = {} /\ tree' \subseteq tree \cup {}
        /\ {} \cap Ephemerals \cap records' = {}
    OBVIOUS
  <2> HIDE DEF Deleting, DropsAtRest
  <2> QED
    BY <2>1, <2>2, <2>3, <2>4, DropsKept
<1>2. OnlyBarriersQuiesce'
  BY DEF Rest, OnlyBarriersQuiesce
<1> QED
  BY <1>1, <1>2, RestSteps DEF AllAtRest

\* Cancelled instances end once; their executors do not begin anew.
LEMMA CancelEnds ==
  ASSUME IInv, NEW S \in SUBSET Ephemerals, CancelAll(S)
  PROVE  /\ ended \subseteq ended'
         /\ \A j \in Ephemerals :
              /\ \/ saved'[j] = saved[j]
                 \/ j \in ended' \ ended /\ saved'[j] = "saving"
              /\ work[j] = "idle" => work'[j] = "idle"
<1>1. /\ ended \subseteq ended'
      /\ \A j \in Ephemerals :
              \/ saved'[j] = saved[j]
              \/ j \in ended' \ ended /\ saved'[j] = "saving"
  BY DEF CancelAll, BeginTerminal
<1>2. \A j \in Instances : work[j] = "idle" => work'[j] = "idle"
  BY NoWorkBegins DEF IInv
<1> QED
  BY <1>1, <1>2 DEF Instances

LEMMA TurnRest ==
  ASSUME IInv, Rest, NEW i \in Instances,
         \/ AcceptTurn(i) \/ TurnEnds(i)
         \/ i \in Ephemerals /\ (TurnEndsInstance(i) \/ Revives(i) \/ Cancel(i))
  PROVE  Rest'
<1>1. UNCHANGED <<sd, shutdownStarted, mut, acceptingTurns, birth, tree, records,
                  rel, handle, ctl, reg>>
  BY DEF AcceptTurn, TurnEnds, TurnEndsInstance, Revives, Cancel, release, nodes, gates,
         birth, turns
<1>2. /\ ended \subseteq ended'
      /\ \A j \in Ephemerals :
           /\ \/ saved'[j] = saved[j]
              \/ j \in ended' \ ended /\ saved'[j] = "saving"
           /\ work[j] = "idle" => work'[j] = "idle" \/ (acceptingTurns /\ j \in records)
  <2>1. CASE AcceptTurn(i)
    BY <2>1 DEF AcceptTurn, release, IInv, TypeOK, Instances
  <2>2. CASE TurnEnds(i)
    BY <2>2 DEF TurnEnds, release, IInv, TypeOK, Instances
  <2>3. CASE i \in Ephemerals /\ TurnEndsInstance(i)
    <3>1. /\ ended \subseteq ended'
          /\ \A j \in Ephemerals :
              \/ saved'[j] = saved[j]
              \/ j \in ended' \ ended /\ saved'[j] = "saving"
      BY <2>3 DEF TurnEndsInstance, BeginTerminal
    <3>2. \A j \in Instances : work[j] = "idle" => work'[j] = "idle"
      BY <2>3 DEF TurnEndsInstance, IInv, TypeOK
    <3> QED
      BY <3>1, <3>2 DEF Instances
  <2>4. CASE i \in Ephemerals /\ Cancel(i)
    <3>1. Subtree(i) \cup {i} \in SUBSET Ephemerals /\ CancelAll(Subtree(i) \cup {i})
      BY <2>4, EphemeralSubtree DEF Cancel, IInv
    <3> HIDE DEF CancelAll
    <3> QED
      BY <3>1, CancelEnds
  <2>5. CASE i \in Ephemerals /\ Revives(i)
    BY <2>5 DEF Revives, turns
  <2> QED
    BY <2>1, <2>2, <2>3, <2>4, <2>5
<1>3. ASSUME AllAtRest, NEW j \in Ephemerals PROVE EndsAtRest(j)'
  <2>1. EndsAtRest(j)
    BY <1>3 DEF AllAtRest
  <2> HIDE DEF EndsAtRest
  <2> QED
    BY <1>1, <1>2, <2>1, EndKept
<1>4. \A j \in Ephemerals \cap records :
           \/ acceptingTurns \/ work'[j] = "idle"
           \/ /\ work[j] # "idle"
              /\ handle[j] \in {"settled", "failed"} =>
                   handle'[j] \in {"settled", "failed"}
  BY <1>1, <1>2
<1> QED
  BY <1>1, <1>3, <1>4, WorkRest

\* A release steps on for one instance; what it leaves behind has stopped.
LEMMA ReleaseRest ==
  ASSUME IInv, Rest, NEW i \in Ephemerals, ReleaseStep(i)
  PROVE  Rest'
<1>1. UNCHANGED <<sd, shutdownStarted, mut, acceptingTurns, birth, parent, reg,
                  ended>>
  BY DEF ReleaseStep, PersistTerminal, PersistTerminalFails, ReleaseLeaf,
         LogDisposed, LogDisposedFails, FinishRelease, gates, birth
<1>2. tree' \subseteq tree /\ records' \subseteq records
  BY DEF ReleaseStep, PersistTerminal, PersistTerminalFails, ReleaseLeaf,
         LogDisposed, LogDisposedFails, FinishRelease, Forget, nodes
<1>3. Dispose(i) \/ UNCHANGED work
  BY DEF ReleaseStep, PersistTerminal, PersistTerminalFails, ReleaseLeaf,
         LogDisposed, LogDisposedFails, ReleaseThrows, FinishRelease,
         DisposeReturns, turns
<1>4. \A j \in Ephemerals : work[j] = "idle" => work'[j] = "idle"
  <2> HIDE DEF Dispose
  <2> QED
    BY <1>3, NoWorkBegins DEF IInv, Instances
<1>5. \A j \in Ephemerals : handle[j] \in {"settled", "failed"} =>
        handle'[j] \in {"settled", "failed"}
  BY DEF ReleaseStep, PersistTerminal, PersistTerminalFails, ReleaseLeaf,
         LogDisposed, LogDisposedFails, ReleaseThrows, FinishRelease, IInv, TypeOK
<1>t. /\ saved \in [Ephemerals -> {"no", "saving", "saved", "lost"}]
      /\ rel \in [Ephemerals -> {"no", "waiting", "logging", "closing", "leaving",
                                 "done", "failed"}]
      /\ handle \in [Ephemerals -> {"none", "pending", "settled", "failed"}]
      /\ ctl \in [Instances -> {"live", "disposing", "disposed"}]
      /\ work \in [Instances -> {"idle", "busy", "aborted"}] /\ i \in Instances
  BY DEF IInv, TypeOK, Instances
<1>6. CASE ~FinishRelease(i)
  <2>1. UNCHANGED records
    BY <1>6 DEF ReleaseStep, PersistTerminal, PersistTerminalFails, ReleaseLeaf,
                LogDisposed, LogDisposedFails, nodes
  <2>2. ASSUME NEW j \in Ephemerals, j # i
        PROVE  saved'[j] = saved[j] /\ rel'[j] = rel[j] /\ handle'[j] = handle[j]
    BY <1>6, <1>t, <2>2
       DEF ReleaseStep, PersistTerminal, PersistTerminalFails, ReleaseLeaf,
           LogDisposed, LogDisposedFails, ReleaseThrows
  <2>3. ASSUME NEW j \in Ephemerals, j # i PROVE ctl'[j] = ctl[j]
    <3>1. Dispose(i) \/ UNCHANGED turns
      BY <1>6 DEF ReleaseStep, PersistTerminal, PersistTerminalFails, ReleaseLeaf,
                  LogDisposed, LogDisposedFails, ReleaseThrows
    <3>2. j \in Instances \ {i}
      BY <2>3 DEF Instances
    <3>3. CASE Dispose(i)
      BY <1>t, <3>2, <3>3 DEF Dispose, turns
    <3>4. CASE UNCHANGED turns
      BY <3>4 DEF turns
    <3> QED
      BY <3>1, <3>3, <3>4
  <2>4. ASSUME AllAtRest, NEW j \in Ephemerals, j # i PROVE EndsAtRest(j)'
    <3>1. EndsAtRest(j)
      BY <2>4 DEF AllAtRest
    <3> HIDE DEF EndsAtRest
    <3> QED
      BY <1>1, <1>4, <2>1, <2>2, <2>3, <2>4, <3>1, EndKept
  <2>5. ASSUME AllAtRest PROVE EndsAtRest(i)'
    <3>1. EndsAtRest(i)
      BY <2>5 DEF AllAtRest
    <3>2. CASE PersistTerminal(i)
      BY <1>1, <1>t, <2>1, <3>1, <3>2 DEF EndsAtRest, PersistTerminal, turns
    <3>3. CASE PersistTerminalFails(i)
      BY <1>1, <1>t, <2>1, <3>1, <3>3 DEF EndsAtRest, PersistTerminalFails, turns
    <3>4. CASE ReleaseLeaf(i)
      BY <1>1, <1>t, <2>1, <3>1, <3>4 DEF EndsAtRest, ReleaseLeaf, turns
    <3>5. CASE LogDisposed(i)
      <4>1. /\ rel[i] = "logging" /\ ctl[i] = "live"
            /\ saved[i] \in {"saved", "lost"} /\ UNCHANGED saved
        BY <3>1, <3>5 DEF EndsAtRest, LogDisposed
      <4>2. CASE i \in records /\ Children(i) # {}
        BY <1>1, <1>t, <2>1, <3>1, <3>5, <4>1, <4>2
           DEF EndsAtRest, LogDisposed, ReleaseThrows, turns
      <4>3. CASE i \in records /\ Children(i) = {}
        <5>1. rel'[i] = "closing" /\ UNCHANGED handle
          BY <1>t, <3>5, <4>1, <4>3 DEF LogDisposed
        <5> QED
          BY <1>1, <1>4, <2>1, <3>1, <4>1, <4>3, <5>1 DEF EndsAtRest
      <4>4. CASE i \notin records
        <5>1. rel'[i] = "leaving" /\ UNCHANGED <<handle, ctl, work>>
          BY <1>t, <3>5, <4>4 DEF LogDisposed, turns
        <5> QED
          BY <1>1, <2>1, <3>1, <4>1, <4>4, <5>1 DEF EndsAtRest
      <4> QED
        BY <4>2, <4>3, <4>4
    <3>6. CASE LogDisposedFails(i)
      BY <1>1, <1>t, <2>1, <3>1, <3>6
         DEF EndsAtRest, LogDisposedFails, ReleaseThrows, turns
    <3> QED
      BY <1>6, <3>2, <3>3, <3>4, <3>5, <3>6 DEF ReleaseStep
  <2> HIDE DEF EndsAtRest
  <2> QED
    BY <1>1, <1>2, <1>4, <1>5, <2>4, <2>5, WorkRest
<1>7. CASE FinishRelease(i)
  <2>1. /\ UNCHANGED <<saved, work>> /\ records' = records \ {i}
        /\ rel[i] \in {"closing", "leaving"}
        /\ rel[i] = "closing" => work[i] = "idle"
        /\ handle'[i] = IF handle[i] = "failed" THEN "failed" ELSE "settled"
        /\ rel'[i] = "done"
    BY <1>7, <1>t DEF FinishRelease, DisposeReturns, Forget
  <2>2. ASSUME NEW j \in Ephemerals, j # i
        PROVE  /\ handle'[j] = handle[j] /\ ctl'[j] = ctl[j]
               /\ rel'[j] = rel[j]
                    \/ (rel[j] = "no" /\ rel'[j] = "waiting" /\ j \in records)
    BY <1>7, <1>t, <2>2 DEF FinishRelease, DisposeReturns, NextParent
  <2>3. ASSUME AllAtRest PROVE EndsAtRest(i)'
    <3>1. EndsAtRest(i)
      BY <2>3 DEF AllAtRest
    <3>2. reg[i] = "adopted"
      BY <2>1 DEF IInv, EndedAdopted
    <3>3. rel[i] = "leaving" => work[i] = "idle" \/ handle[i] = "failed"
      BY <2>1, <3>1, <3>2 DEF EndsAtRest
    <3> QED
      BY <1>1, <2>1, <3>1, <3>3 DEF EndsAtRest
  <2>4. ASSUME AllAtRest, NEW j \in Ephemerals, j # i PROVE EndsAtRest(j)'
    <3>1. EndsAtRest(j)
      BY <2>4 DEF AllAtRest
    <3> QED
      BY <1>1, <2>1, <2>2, <2>4, <3>1 DEF EndsAtRest
  <2> HIDE DEF EndsAtRest
  <2> QED
    BY <1>1, <1>2, <1>4, <1>5, <2>3, <2>4, WorkRest
<1> QED
  BY <1>6, <1>7

LEMMA ShutdownRest ==
  ASSUME IInv, Rest, Shutdown \/ ShutdownStep
  PROVE  Rest'
<1>1. shutdownStarted'
  BY DEF Rest, Shutdown, ShutdownStep, ShutdownDrained, ShutdownNext,
         ShutdownRemoves, ShutdownDone, gates
<1>2. UNCHANGED mut
  BY DEF Shutdown, ShutdownStep, ShutdownDrained, ShutdownNext,
         ShutdownRemoves, ShutdownDone
<1> QED
  BY <1>1, <1>2 DEF Rest, OnlyBarriersQuiesce

\* What a caller has to keep, of itself and of the others: when the gates open,
\* or nodes join or leave the tree, nobody else is deleting.
LEMMA CallerRest ==
  ASSUME IInv, Rest, NEW m \in Mutators,
         UNCHANGED <<sd, shutdownStarted, birth, rel, handle>>,
         ended \subseteq ended',
         \A j \in Ephemerals :
           saved'[j] = saved[j] \/ (j \in ended' \ ended /\ saved'[j] = "saving"),
         \A n \in Mutators \ {m} : mut'[n] = mut[n],
         mut'[m].pc = "quiescing" => mut'[m].kind # "delete",
         acceptingTurns' => acceptingTurns \/ \A n \in Mutators \ {m} : ~Deleting(n),
         NEW X \in SUBSET Residents, X \cap tree = {}, tree' \subseteq tree \cup X,
         records' \cap Ephemerals \subseteq records,
         \A j \in Ephemerals : ctl'[j] = ctl[j],
         \A j \in Ephemerals : work[j] = "idle" => work'[j] = "idle",
         AllAtRest => DropsAtRest(m)',
         AllAtRest => \A j \in Ephemerals \cap (records \ records') :
                        work[j] = "idle" \/ handle[j] = "failed"
  PROVE  Rest'
<1>1. OnlyBarriersQuiesce'
  BY DEF Rest, OnlyBarriersQuiesce
<1>2. ASSUME AllAtRest, NEW n \in Mutators PROVE DropsAtRest(n)'
  <2>1. CASE n = m
    BY <1>2, <2>1
  <2>2. CASE n # m
    <3>1. DropsAtRest(n) /\ mut'[n] = mut[n]
      BY <1>2, <2>2 DEF AllAtRest
    <3>2. Deleting(n)' => Deleting(n) /\ ~acceptingTurns'
      BY <2>2, <3>1 DEF Deleting, DropsAtRest
    <3>3. X \in SUBSET Instances /\ X \cap Ephemerals \cap records' = {}
      BY IdsAssumption DEF Instances
    <3>4. \A k \in tree : parent'[k] = parent[k]
      BY DEF birth
    <3> HIDE DEF Deleting, DropsAtRest
    <3> QED
      BY <3>1, <3>2, <3>3, <3>4, DropsKept
  <2> QED
    BY <2>1, <2>2
<1>3. ASSUME AllAtRest, NEW j \in Ephemerals PROVE EndsAtRest(j)'
  <2>1. EndsAtRest(j)
    BY <1>3 DEF AllAtRest
  <2>2. reg'[j] = reg[j]
    BY DEF birth
  <2>3. j \in records \ records' => work'[j] = "idle" \/ handle[j] = "failed"
    BY <1>3
  <2>4. j \notin ended => saved[j] = "no" /\ rel[j] \in {"no", "waiting"}
    BY <2>1 DEF EndsAtRest
  <2> QED
    BY <2>1, <2>2, <2>3, <2>4 DEF EndsAtRest
<1> QED
  BY <1>1, <1>2, <1>3, RestSteps DEF AllAtRest

LEMMA DeleterIsAlone ==
  ASSUME IInv, NoOverlap, NEW m \in Mutators, NEW n \in Mutators,
         mut[n].kind = "delete" \/ "delete" \in Kinds
  PROVE  m = n
<1>1. mut[n].kind \in {"none"} \cup Kinds
  BY MutTypes DEF IInv, MutRecords
<1> QED
  BY <1>1 DEF NoOverlap, OneCaller

\* Closing the gates, for a barrier or for a deletion.
LEMMA ClosingRest ==
  ASSUME IInv, Rest, NEW m \in Mutators,
         \/ \E k \in Kinds : Prepare(m, k)
         \/ \E r \in Residents : DeleteResident(m, r)
  PROVE  Rest'
<1>m. mut \in [Mutators -> MutRecords]
  BY DEF IInv, TypeOK
<1>1. /\ UNCHANGED <<sd, shutdownStarted, birth, rel, handle, ctl, tree, records>>
      /\ UNCHANGED parent
      /\ ~acceptingTurns'
  BY DEF Prepare, DeleteResident, CloseGates, nodes, birth
<1>2. /\ ended \subseteq ended'
      /\ \A j \in Ephemerals :
           /\ saved'[j] = saved[j] \/ (j \in ended' \ ended /\ saved'[j] = "saving")
           /\ work[j] = "idle" => work'[j] = "idle"
  <2>1. PICK S \in SUBSET Ephemerals : CancelAll(S)
    BY DEF Prepare, DeleteResident
  <2> HIDE DEF CancelAll
  <2> QED
    BY <2>1, CancelEnds
<1>3. /\ \A n \in Mutators \ {m} : mut'[n] = mut[n]
      /\ mut'[m].pc = "draining"
  BY <1>m DEF Prepare, DeleteResident, MutIdle
<1>4. DropsAtRest(m)'
  <2>1. ASSUME NEW k \in Kinds, Prepare(m, k) PROVE ~Deleting(m)'
    BY <1>m, <2>1 DEF Prepare, MutIdle, Deleting
  <2>2. ASSUME NEW r \in Residents, DeleteResident(m, r) PROVE DropsAtRest(m)'
    <3>1. mut'[m].scope = {r} /\ mut'[m].waits = Subtree(r) \cap Ephemerals
      BY <1>m, <2>2 DEF DeleteResident, MutIdle
    <3>2. Subtree(r)' = Subtree(r)
      BY <1>1 DEF Subtree
    <3> QED
      BY <1>1, <1>3, <3>1, <3>2 DEF DropsAtRest
  <2>3. ~Deleting(m)' => DropsAtRest(m)'
    BY DEF DropsAtRest
  <2> HIDE DEF Deleting, DropsAtRest
  <2> QED
    BY <2>1, <2>2, <2>3
<1>5. {} \in SUBSET Residents /\ {} \cap tree = {} /\ tree' \subseteq tree \cup {}
  BY <1>1
<1> HIDE DEF DropsAtRest, Deleting
<1> QED
  BY <1>1, <1>2, <1>3, <1>4, <1>5, CallerRest

\* Steps of a caller that is not deleting, or that goes on deleting.
LEMMA PlainCallerRest ==
  ASSUME IInv, Rest, NEW m \in Mutators,
         UNCHANGED <<sd, shutdownStarted, birth, release>>,
         \A n \in Mutators \ {m} : mut'[n] = mut[n],
         mut'[m].pc = "quiescing" => mut'[m].kind # "delete",
         acceptingTurns' => acceptingTurns \/ \A n \in Mutators \ {m} : ~Deleting(n),
         NEW X \in SUBSET Residents, X \cap tree = {}, tree' \subseteq tree \cup X,
         records' \cap Ephemerals = records \cap Ephemerals,
         \A j \in Ephemerals : ctl'[j] = ctl[j],
         \A j \in Ephemerals : work[j] = "idle" => work'[j] = "idle",
         Deleting(m)' =>
           /\ Deleting(m) /\ (acceptingTurns' => acceptingTurns)
           /\ mut'[m].scope = mut[m].scope /\ mut'[m].waits = mut[m].waits
           /\ mut'[m].pc = mut[m].pc
  PROVE  Rest'
<1>1. UNCHANGED <<rel, handle, ended, saved>>
  BY DEF release
<1>2. \A k \in tree : parent'[k] = parent[k]
  BY DEF birth
<1>3. ASSUME AllAtRest PROVE DropsAtRest(m)'
  <2>1. DropsAtRest(m)
    BY <1>3 DEF AllAtRest
  <2>2. X \in SUBSET Instances /\ X \cap Ephemerals \cap records' = {}
    BY IdsAssumption DEF Instances
  <2>3. Deleting(m)' => ~acceptingTurns'
    BY <2>1 DEF DropsAtRest
  <2>4. \A i \in Ephemerals \cap records' :
           /\ i \in records
           /\ handle'[i] = handle[i] /\ (work[i] = "idle" => work'[i] = "idle")
    BY <1>1
  <2> HIDE DEF DropsAtRest, Deleting
  <2> QED
    BY <1>1, <1>2, <2>1, <2>2, <2>3, <2>4, DropsKept
<1>4. ended \subseteq ended'
      /\ \A j \in Ephemerals :
           saved'[j] = saved[j] \/ (j \in ended' \ ended /\ saved'[j] = "saving")
  BY <1>1
<1>5. /\ records' \cap Ephemerals \subseteq records
      /\ Ephemerals \cap (records \ records') = {}
  OBVIOUS
<1> HIDE DEF DropsAtRest, Deleting
<1> QED
  BY <1>1, <1>3, <1>4, <1>5, CallerRest

LEMMA MutStepRest ==
  ASSUME IInv, Rest, NoOverlap, NEW m \in Mutators,
         \/ \E r \in Residents : DeleteResidentThrows(m, r)
         \/ MutStep(m)
  PROVE  Rest'
<1>m. mut \in [Mutators -> MutRecords] /\ mut[m] \in MutRecords
  BY MutTypes DEF IInv, TypeOK
<1>t. /\ ctl \in [Instances -> {"live", "disposing", "disposed"}]
      /\ work \in [Instances -> {"idle", "busy", "aborted"}]
      /\ \A r \in Residents : r \notin Ephemerals /\ r \in Instances
      /\ Ephemerals \subseteq Instances
  BY IdsAssumption DEF IInv, TypeOK, Instances
<1>e. {} \in SUBSET Residents /\ {} \cap tree = {} /\ \A T : T \subseteq T \cup {}
  OBVIOUS
<1>u. UNCHANGED <<sd, shutdownStarted, birth, release>>
  BY DEF DeleteResidentThrows, MutStep, Drained, Hold, Release, ResidentDisposed,
         DeleteSubtree, ClearForReload, RollbackEnds, BootLost, BootDone,
         Quiesced, DisposeResident, Boot, RollbackBegins, gates, release
<1>s. /\ UNCHANGED <<sd, shutdownStarted, birth, rel, handle>>
      /\ ended \subseteq ended'
      /\ \A j \in Ephemerals :
           saved'[j] = saved[j] \/ (j \in ended' \ ended /\ saved'[j] = "saving")
  BY <1>u DEF release
<1>n. \A n \in Mutators \ {m} : ~Deleting(n)
  BY DeleterIsAlone DEF Deleting
<1>d. \A j \in Ephemerals : \A r \in Residents :
        /\ Dispose(r) =>
             ctl'[j] = ctl[j] /\ (work[j] = "idle" => work'[j] = "idle")
        /\ \A b : DisposeReturns(r, b) => ctl'[j] = ctl[j] /\ work'[j] = work[j]
  <2>1. ASSUME NEW j \in Ephemerals, NEW r \in Residents, Dispose(r)
        PROVE  ctl'[j] = ctl[j] /\ (work[j] = "idle" => work'[j] = "idle")
    BY <1>t, <2>1 DEF Dispose, AbortWork, turns
  <2>2. ASSUME NEW j \in Ephemerals, NEW r \in Residents, NEW b,
               DisposeReturns(r, b)
        PROVE  ctl'[j] = ctl[j] /\ work'[j] = work[j]
    BY <1>t, <2>2 DEF DisposeReturns
  <2> QED
    BY <2>1, <2>2
<1>1. ASSUME NEW r \in Residents, DeleteResidentThrows(m, r)
      PROVE  Rest'
  <2>1. UNCHANGED <<mut, tree, records, ctl, work>> /\ ~Deleting(m)'
    BY <1>1 DEF DeleteResidentThrows, nodes, turns, Deleting
  <2>2. mut'[m].pc # "quiescing"
    BY <1>1 DEF DeleteResidentThrows
  <2> HIDE DEF Deleting
  <2> QED
    BY <1>e, <1>u, <1>n, <2>1, <2>2, PlainCallerRest
<1>2. CASE Drained(m)
  <2>1. /\ \A n \in Mutators \ {m} : mut'[n] = mut[n]
        /\ UNCHANGED <<tree, records, ctl, acceptingTurns>>
        /\ mut'[m].kind = mut[m].kind /\ mut'[m].scope = mut[m].scope
        /\ mut'[m].pc = IF mut[m].kind = "delete" THEN "disposing" ELSE "quiescing"
        /\ mut[m].pc = "draining"
    <3>1. CASE mut[m].kind = "delete"
      <4>1. mut' = [mut EXCEPT ![m] = [@ EXCEPT !.pc = "disposing", !.waits = {},
                                         !.todo = mut[m].todo \cap records]]
        BY <1>2, <3>1 DEF Drained
      <4> QED
        BY <1>m, <1>2, <3>1, <4>1 DEF Drained, nodes, gates, MutRecords
    <3>2. CASE mut[m].kind # "delete"
      <4>1. mut' = [mut EXCEPT ![m] = [@ EXCEPT !.pc = "quiescing", !.waits = {},
                                                !.todo = Residents \cap records]]
        BY <1>2, <3>2 DEF Drained
      <4> QED
        BY <1>m, <1>2, <3>2, <4>1 DEF Drained, nodes, gates, MutRecords
    <3> QED
      BY <3>1, <3>2
  <2>2. \A j \in Ephemerals : work[j] = "idle" => work'[j] = "idle"
    <3>1. UNCHANGED work \/ AbortWork({r \in Residents \cap records : ctl[r] = "live"})
      BY <1>2 DEF Drained, InterruptResidents
    <3> HIDE DEF AbortWork
    <3> QED
      BY <1>t, <3>1, NoWorkBegins DEF IInv
  <2>3. ASSUME AllAtRest PROVE DropsAtRest(m)'
    <3>1. DropsAtRest(m)
      BY <2>3 DEF AllAtRest
    <3>2. \A r : Subtree(r)' = Subtree(r)
      BY <1>u, <2>1 DEF Subtree, birth
    <3>3. \A i \in mut[m].waits : handle[i] \in {"settled", "failed"}
      BY <1>2 DEF Drained, Answered
    <3>4. UNCHANGED handle
      BY <1>u DEF release
    <3>5. ASSUME Deleting(m)', NEW r \in mut'[m].scope,
                 NEW i \in Subtree(r)' \cap Ephemerals \cap records'
          PROVE  handle'[i] \in {"settled", "failed"} \/ work'[i] = "idle"
      <4>1. Deleting(m)
        BY <2>1, <3>5 DEF Deleting
      <4>2. i \in Subtree(r) \cap Ephemerals \cap records /\ r \in mut[m].scope
        BY <2>1, <3>2
      <4> HIDE DEF Deleting, Subtree
      <4> QED
        BY <2>2, <3>1, <3>3, <3>4, <4>1, <4>2 DEF DropsAtRest
    <3>6. Deleting(m)' => ~acceptingTurns'
      BY <2>1, <3>1 DEF Deleting, DropsAtRest
    <3> HIDE DEF Deleting
    <3> QED
      BY <3>5, <3>6 DEF DropsAtRest
  <2> HIDE DEF DropsAtRest, Deleting
  <2> QED
    BY <1>e, <1>s, <2>1, <2>2, <2>3, CallerRest
<1>3. CASE Hold(m)
  <2>1. /\ \A n \in Mutators \ {m} : mut'[n] = mut[n]
        /\ UNCHANGED <<tree, records, ctl, work, acceptingTurns>>
        /\ mut'[m].kind = mut[m].kind /\ mut'[m].pc # "quiescing"
        /\ mut[m].pc = "quiescing"
    BY <1>m, <1>3 DEF Hold, nodes, turns, gates, MutRecords
  <2>2. ~Deleting(m)'
    BY <2>1 DEF Deleting, Rest, OnlyBarriersQuiesce
  <2> HIDE DEF Deleting
  <2> QED
    BY <1>e, <1>u, <2>1, <2>2, PlainCallerRest
<1>4. CASE Release(m) \/ BootDone(m) \/ BootLost(m)
  <2>1. /\ \A n \in Mutators \ {m} : mut'[n] = mut[n]
        /\ mut'[m].pc \in {"idle", "rollback"}
    <3>1. CASE Release(m) \/ BootDone(m)
      BY <1>m, <3>1 DEF Release, BootDone, MutIdle
    <3>2. CASE BootLost(m)
      BY <1>m, <3>2 DEF BootLost, MutRecords
    <3> QED
      BY <1>4, <3>1, <3>2
  <2>2. UNCHANGED <<tree, records, ctl, work>>
    BY <1>4 DEF Release, BootDone, BootLost, nodes, turns
  <2>3. ~Deleting(m)'
    BY <2>1 DEF Deleting
  <2>4. mut'[m].pc # "quiescing"
    BY <2>1
  <2> HIDE DEF Deleting
  <2> QED
    BY <1>e, <1>u, <1>n, <2>1, <2>2, <2>3, <2>4, PlainCallerRest
<1>5. CASE ResidentDisposed(m)
  <2>1. mut[m].cur \in Residents
    BY <1>m, <1>5 DEF ResidentDisposed, MutRecords
  <2>2. /\ \A j \in Ephemerals : ctl'[j] = ctl[j] /\ work'[j] = work[j]
        /\ UNCHANGED <<tree, records>> /\ mut[m].pc = "disposing"
    BY <1>d, <1>5, <2>1 DEF ResidentDisposed, nodes
  <2>3. CASE mut' = [mut EXCEPT ![m] = MutIdle]
    <3>1. /\ \A n \in Mutators \ {m} : mut'[n] = mut[n]
          /\ mut'[m].pc = "idle"
      BY <1>m, <2>3 DEF MutIdle
    <3>2. ~Deleting(m)'
      BY <3>1 DEF Deleting
    <3> HIDE DEF Deleting
    <3> QED
      BY <1>e, <1>u, <1>n, <2>2, <3>1, <3>2, PlainCallerRest
  <2>4. CASE /\ mut' = [mut EXCEPT ![m] = [@ EXCEPT !.cur = NoOne]]
             /\ UNCHANGED <<acceptingSpawns, acceptingTurns, failures>>
    <3>1. /\ \A n \in Mutators \ {m} : mut'[n] = mut[n]
          /\ mut'[m].pc = mut[m].pc /\ mut'[m].kind = mut[m].kind
          /\ mut'[m].scope = mut[m].scope /\ mut'[m].waits = mut[m].waits
      BY <1>m, <2>4 DEF MutRecords
    <3>2. Deleting(m)' => Deleting(m)
      BY <3>1 DEF Deleting
    <3> HIDE DEF Deleting
    <3> QED
      BY <1>e, <1>u, <2>2, <2>4, <3>1, <3>2, PlainCallerRest
  <2> QED
    BY <1>5, <2>3, <2>4 DEF ResidentDisposed
<1>6. CASE DeleteSubtree(m)
  <2>1. PICK r \in mut[m].scope : Forget(Subtree(r), Subtree(r) \cap records)
    BY <1>6 DEF DeleteSubtree
  <2>2. /\ mut[m].kind = "delete" /\ mut[m].pc = "disposing"
        /\ mut' = [mut EXCEPT ![m] = MutIdle] /\ UNCHANGED <<ctl, work>>
    BY <1>6 DEF DeleteSubtree, turns
  <2>3. /\ \A n \in Mutators \ {m} : mut'[n] = mut[n]
        /\ mut'[m].pc = "idle"
    BY <1>m, <2>2 DEF MutIdle
  <2>4. DropsAtRest(m)'
    BY <2>3 DEF DropsAtRest, Deleting
  <2>5. tree' \subseteq tree \cup {} /\ records' \cap Ephemerals \subseteq records
        /\ records \ records' \subseteq Subtree(r) \cap records
    BY <2>1 DEF Forget
  <2>6. ASSUME AllAtRest, NEW j \in Ephemerals \cap (records \ records')
        PROVE  work[j] = "idle" \/ handle[j] = "failed"
    <3>1. DropsAtRest(m) /\ Deleting(m)
      BY <2>2, <2>6 DEF AllAtRest, Deleting
    <3>2. j \in Subtree(r) \cap Ephemerals \cap records
      BY <2>5
    <3>3. handle[j] # "settled"
      BY <3>2 DEF IInv, SettledIsGone
    <3> HIDE DEF Deleting, Subtree
    <3> QED
      BY <2>2, <3>1, <3>2, <3>3 DEF DropsAtRest
  <2> HIDE DEF DropsAtRest, Deleting, Subtree
  <2> QED
    BY <1>e, <1>n, <1>s, <2>2, <2>3, <2>4, <2>5, <2>6, CallerRest
<1>7. CASE ClearForReload(m)
  <2>1. Forget(tree, mut[m].scope) /\ UNCHANGED <<ctl, work>>
    BY <1>7 DEF ClearForReload, turns
  <2>2. /\ \A n \in Mutators \ {m} : mut'[n] = mut[n]
        /\ mut'[m].pc = "booting"
    BY <1>m, <1>7 DEF ClearForReload, MutRecords
  <2>3. ~Deleting(m)'
    BY <2>2 DEF Deleting
  <2>4. tree' \subseteq tree \cup {} /\ records' \cap Ephemerals = records \cap Ephemerals
    BY <1>m, <1>t, <2>1 DEF Forget, MutRecords
  <2> HIDE DEF Deleting
  <2> QED
    BY <1>e, <1>u, <1>n, <2>1, <2>2, <2>3, <2>4, PlainCallerRest
<1>8. CASE RollbackEnds(m)
  <2>1. mut[m].cur \in Residents
    BY <1>m, <1>8 DEF RollbackEnds, MutRecords
  <2>2. /\ \A j \in Ephemerals : ctl'[j] = ctl[j] /\ work'[j] = work[j]
        /\ UNCHANGED acceptingTurns
    BY <1>d, <1>8, <2>1 DEF RollbackEnds, gates
  <2>3. tree' \subseteq tree \cup {} /\ records' \cap Ephemerals = records \cap Ephemerals
    BY <1>t, <1>8, <2>1 DEF RollbackEnds, Forget
  <2>4. /\ \A n \in Mutators \ {m} : mut'[n] = mut[n]
        /\ mut'[m].pc = "rollback"
    BY <1>m, <1>8 DEF RollbackEnds, MutRecords
  <2>5. ~Deleting(m)'
    BY <2>4 DEF Deleting
  <2> HIDE DEF Deleting
  <2> QED
    BY <1>e, <1>u, <2>2, <2>3, <2>4, <2>5, PlainCallerRest
<1>9. ASSUME NEW r \in Residents, Quiesced(m, r)
      PROVE  Rest'
  <2>1. /\ \A n \in Mutators \ {m} : mut'[n] = mut[n]
        /\ mut'[m].pc = "quiescing" /\ mut'[m].kind = mut[m].kind
        /\ mut[m].pc = "quiescing"
        /\ UNCHANGED <<tree, records, ctl, work, acceptingTurns>>
    BY <1>m, <1>9 DEF Quiesced, MutRecords, nodes, turns, gates
  <2>2. ~Deleting(m)' /\ mut'[m].kind # "delete"
    BY <2>1 DEF Deleting, Rest, OnlyBarriersQuiesce
  <2> HIDE DEF Deleting
  <2> QED
    BY <1>e, <1>u, <2>1, <2>2, PlainCallerRest
<1>10. ASSUME NEW r \in Residents, DisposeResident(m, r)
       PROVE  Rest'
  <2>1. /\ \A n \in Mutators \ {m} : mut'[n] = mut[n]
        /\ mut'[m].pc = mut[m].pc /\ mut'[m].kind = mut[m].kind
        /\ mut'[m].scope = mut[m].scope /\ mut'[m].waits = mut[m].waits
        /\ mut[m].pc = "disposing"
    BY <1>m, <1>10 DEF DisposeResident, MutRecords
  <2>2. UNCHANGED <<tree, records, acceptingTurns>>
    BY <1>10 DEF DisposeResident, nodes, gates
  <2>3. \A j \in Ephemerals :
          ctl'[j] = ctl[j] /\ (work[j] = "idle" => work'[j] = "idle")
    BY <1>d, <1>10 DEF DisposeResident
  <2>4. Deleting(m)' => Deleting(m)
    BY <2>1 DEF Deleting
  <2> HIDE DEF Deleting
  <2> QED
    BY <1>e, <1>u, <2>1, <2>2, <2>3, <2>4, PlainCallerRest
<1>11. ASSUME NEW r \in Residents, Boot(m, r)
       PROVE  Rest'
  <2>1. /\ \A n \in Mutators \ {m} : mut'[n] = mut[n]
        /\ mut'[m].pc \in {"booting", "rollback"}
    BY <1>m, <1>11 DEF Boot, MutRecords
  <2>2. /\ tree' \subseteq tree \cup ({r} \ tree) /\ ({r} \ tree) \cap tree = {}
        /\ {r} \ tree \in SUBSET Residents
        /\ records' \cap Ephemerals = records \cap Ephemerals
        /\ UNCHANGED acceptingTurns
    BY <1>t, <1>11 DEF Boot, gates
  <2>3. \A j \in Ephemerals : ctl'[j] = ctl[j] /\ work'[j] = work[j]
    BY <1>t, <1>11 DEF Boot
  <2>4. ~Deleting(m)'
    BY <2>1 DEF Deleting
  <2> HIDE DEF Deleting
  <2> QED
    BY <1>u, <2>1, <2>2, <2>3, <2>4, PlainCallerRest
<1>12. ASSUME NEW r \in Residents, RollbackBegins(m, r)
       PROVE  Rest'
  <2>1. /\ UNCHANGED <<tree, records, acceptingTurns>>
        /\ Dispose(r) \/ UNCHANGED turns
    BY <1>12 DEF RollbackBegins, nodes, gates
  <2>2. \A j \in Ephemerals :
          ctl'[j] = ctl[j] /\ (work[j] = "idle" => work'[j] = "idle")
    BY <1>d, <2>1 DEF turns
  <2>3. /\ \A n \in Mutators \ {m} : mut'[n] = mut[n]
        /\ mut'[m].pc \in {"rollback", "idle"}
    <3>1. PICK x \in MutRecords : x = mut[m]
      BY <1>m
    <3>2. CASE r \notin records
      BY <1>m, <1>12, <3>2 DEF RollbackBegins, MutRecords
    <3>3. CASE r \in records /\ Children(r) # {}
      BY <1>m, <1>12, <3>3 DEF RollbackBegins, MutIdle
    <3>4. CASE r \in records /\ Children(r) = {}
      <4>1. /\ mut[m].pc = "rollback"
            /\ mut' = [mut EXCEPT ![m] =
                        [@ EXCEPT !.todo = mut[m].todo \ {r}, !.cur = r,
                                  !.atOnce = (ctl[r] # "live")]]
        BY <1>12, <3>4 DEF RollbackBegins
      <4> QED
        BY <1>m, <4>1 DEF MutRecords
    <3> QED
      BY <3>2, <3>3, <3>4
  <2>4. ~Deleting(m)'
    BY <2>3 DEF Deleting
  <2> HIDE DEF Deleting
  <2> QED
    BY <1>e, <1>u, <2>1, <2>2, <2>3, <2>4, PlainCallerRest
<1> QED
  BY <1>1, <1>2, <1>3, <1>4, <1>5, <1>6, <1>7, <1>8, <1>9, <1>10, <1>11, <1>12
     DEF MutStep

LEMMA NextRest == NoOverlap /\ IInv /\ Rest /\ [Next]_vars => Rest'
<1> SUFFICES ASSUME NoOverlap, IInv, Rest, [Next]_vars PROVE Rest'
  OBVIOUS
<1>1. CASE UNCHANGED vars
  BY <1>1 DEF vars, birth, nodes, turns, release, gates, Rest, AllAtRest,
              OnlyBarriersQuiesce, DropsAtRest, EndsAtRest, Deleting, Subtree
<1>2. ASSUME NEW i \in Ephemerals, NEW p \in Instances \cup {NoParent},
             SpawnEphemeral(i, p)
      PROVE  Rest'
  BY <1>2, BirthRest
<1>3. ASSUME NEW r \in Residents, RegisterResident(r)
      PROVE  Rest'
  BY <1>3, BirthRest
<1>4. ASSUME NEW i \in Instances, BirthStep(i) \/ AcceptTurn(i) \/ TurnEnds(i)
      PROVE  Rest'
  BY <1>4, BirthRest, TurnRest
<1>5. ASSUME NEW i \in Ephemerals,
             TurnEndsInstance(i) \/ Revives(i) \/ Cancel(i) \/ ReleaseStep(i)
      PROVE  Rest'
  BY <1>5, TurnRest, ReleaseRest DEF Instances
<1>6. ASSUME NEW m \in Mutators,
             \/ \E k \in Kinds : Prepare(m, k)
             \/ \E r \in Residents :
                  DeleteResident(m, r) \/ DeleteResidentThrows(m, r)
             \/ MutStep(m)
      PROVE  Rest'
  BY <1>6, ClosingRest, MutStepRest
<1>7. CASE Shutdown \/ ShutdownStep
  BY <1>7, ShutdownRest
<1> QED
  BY <1>1, <1>2, <1>3, <1>4, <1>5, <1>6, <1>7 DEF Next

\* Whoever awaits a completion handle and sees it settled may rely on the
\* instance being gone and its executor at rest, when no deletion of a resident
\* overlaps another caller.
THEOREM CompletionsAreTheEnd ==
  ASSUME NoOverlap
  PROVE  Spec => []CompletionIsTheEnd
<1>1. Init => Rest
  BY DEF Init, Rest, AllAtRest, OnlyBarriersQuiesce, DropsAtRest, EndsAtRest,
         Deleting, MutIdle, Instances
<1>2. IInv /\ Rest => CompletionIsTheEnd
  BY DEF IInv, Rest, AllAtRest, EndsAtRest, SettledIsGone, NothingLeaks,
         CompletionIsTheEnd, CompletionMeansGone, CompletionMeansAtRest
<1>3. IInv /\ Rest /\ [Next]_vars => Rest'
  BY NextRest
<1> QED
  BY <1>1, <1>2, <1>3, Invariance, PTL DEF Spec
=============================================================================
