# A verification development of the orchestrator

The orchestrator hosts *sessions*. A session is a tree of *agent instances*;
every instance has an inbox, runs turns on an AI *kernel* (an external program),
and writes its history to a *ledger*. TypeScript on one thread: concurrency here
is the interleaving of asynchronous functions at their awaits, of promise
callbacks, timers and subprocess exits, and of the process with its own death.
That is what unit tests reach least and what these modules are about.

Paths below are relative to the repository (`src/runtime/...`); in
`PROJECT.json` they have the checkout's leading `src/`.

## 1. Inventory

Each part with its state, its operations, whom it touches, what is hard about
it and what makes it correct. `PROJECT.json` lists all 37 parts with their
files, and 40 hazards at the lines where they bite.

### Modelled

**Turn controller** (`src/runtime/agent-runtime-controller.ts`, with
`runtime-config.ts` and `agent-execution.ts`). State: the queue, the active
abort signal, the pump's task, the coalescing wake, `disposed`, the instance's
state, two bindings (configuration, execution), each with current, pending and
pinned snapshots. Operations: acceptTurn, steer, interrupt, stopTurn, cancel,
dispose, stage, and the pump's suspensions. It calls the executor and is
called by session, supervisor and host feedback. Hard: control calls between
any two suspensions, and the gap between the pump's return and its `.finally`.
Correct when every accepted turn is answered exactly once, no wake-up is lost,
silent input starts nothing, a stop is not undone by queued results, and a
disposed controller is at rest.

**Supervisor** (`runtime-supervisor.ts`, `runtime-tree.ts`,
`agent-registrar.ts`, `ephemeral-agent-spawner.ts`, `agent-handle.ts`,
`session-lease.ts`). State: tree, records, the gates `acceptingSpawns` and
`acceptingTurns`, `shutdownStarted`, terminals and their persistence,
completion handles, leases, memory templates. Operations: registration in its
await steps, terminal and release, cancellation of a subtree, the mutation
barrier of checkpoint and reload, deletion of a resident, bootstrap and
rollback, shutdown. Hard: nearly each of these suspends half-way. Correct when
no orphan stays in the tree, nothing is held for ever, a settled handle is
true, a barrier is quiet and a shutdown final.

**Event store** (`src/session/async-ledger-writer.ts`,
`src/ledger/event-ledger.ts`, `event-store.ts`, `event-codec.ts`,
`ephemeral-history-recovery.ts`). State: the writer's queue and running task,
shards on disk, the ledger's current shard and append counter. Operations:
asynchronous and synchronous append, backpressure, flush, rotation, reading,
sealing after a crash. Hard: writes that fail or stop half-way, death between
any two, counters that a restart resets. Correct when order is kept, required
events are answered honestly, damage stays local and a history has one end.

**Shared history** (`src/history/coordinator.ts`, `ledger-history.ts`,
`src/kernel/history-resync.ts`, the composition and turn runner, and the codex
and cursor kernels' ownership of native conversations). State: ledger rows, a
lane with its `knownThrough` for each kernel, native conversations, the codex
checkpoint. Operations: inbound messages, restore, compose (snapshot or delta),
acknowledge at first activity, resync, answer, exit of the owner, restart.
Hard: the ledger's opinion of what a kernel knows and the kernel's
conversation are two states that drift at every failure. Correct when a kernel
at work has everything the ledger had, and nothing is given twice.

**Session manager** (`src/core/session-manager.ts`, and the lifecycle of
`session.ts`). State: the table, restorations in flight, LRU order,
`shuttingDown`. Operations: open, create, close, delete, prepareForWrite,
eviction, shutdown. Hard: calls that wait for each other. Correct when a
session has one owner, can be found, and close, delete and shutdown mean it.

**Checkpoints** (`src/checkpoint/checkpoint-manager.ts`, `snapshot-store.ts`,
`rewind-mask.ts`, `src/api/sessions.ts`). State: manifests per message, blobs, the
index of messages and rewinds, boundaries and cancels in the agents' ledgers, the
pending rewind, the baseline of the last restore. Operations: snapshot of a
message, rewind (files, conversation or both), cancel, overwriting what was
spared and undoing that, finalisation by the next message, restart. It calls the
supervisor's barrier and reads the ledgers' mask. Hard: users and agents edit the
same files between any two awaits, three stores are written one after another,
and a second rewind may begin while the first is pending. Correct when a restore
is exact or does nothing, no edit is destroyed unasked, a cancel gives back
everything, and no history is hidden without a way back.

**NPC memory outbox** (`src/npc-brain/memory/durable-memory-outbox.ts`). State: a
journal, the scheduler in memory that is its projection, running dispatches,
timer, degradation. Operations: start with its replay, enqueueHandoff, rounds,
dispatch with retry and backoff, rewriting of the journal, drain, abort, crash.
Hard: a record may fail or be cut at any of these, the rewrite replaces the
history the replay was written for, and a stop may time out. Correct when what was
accepted stays until it has an outcome, scopes keep their order, and the lock is
given away only when nothing runs.

**NPC memory transactions** (`file-memory-transaction-store.ts`,
`file-soul-memory-provider.ts`, `src/soul/layered-memory-runtime.mjs`). State: the
character's directory and index, an intent and a receipt per command. Operations:
plan, check, write, reindex, receipt, cleaning, and their resumption by the next
delivery. Hard: the process dies between any two, games share a directory but not
their intents, and people edit it by hand. Correct when a receipt is true, the
index can be relied on, and no fact is written twice or replaced.

**Delegation callbacks** (`src/core/session.ts`, the tool
`delegate_to_subagent.ts`, `src/kernel/agent-permissions.ts`). State: the map of
pending delegations by the target's address, with the delegator, five identities and
the mark of a stop; reservations of children that are being created. Operations: the
tool with its guard, reservation, delivery and roll-back, matching of a turn's end,
release of a rejected task, removal of the target, stop and interrupt. It goes through
the controllers' queues and batches, the supervisor's gate and releases, and the
kernel turn. Hard: the record and the task travel apart; turns of other origin end at
the same address, batches merge, stops spread over the map while callbacks change it.
Correct when a delegator hears the truth once, a stop wakes nobody, and no target
stays busy for a task that is gone.

### Not modelled

What has no run and why stands in section 7.

## 2. Plan

| # | module | composes / abstracts | state |
|---|---|---|---|
| 1 | `TurnController` | implements `TurnContract` | modelled, checked, proved but for liveness |
| 2 | `Supervisor` | a controller seen from outside: idle, busy, aborted | modelled, checked, safety proved (two theorems under hypotheses, section 5) |
| 3 | `EventStore` | writer, ledger, recovery | modelled, checked, safety proved |
| 4 | `SharedHistory` | ledger rows with the kernels' conversations | modelled, checked, proved |
| 5 | `SessionManager` | a session as an instance that is built and disposed | modelled, checked, safety proved |
| 6 | `Checkpoint` | manager, store and mask; edits and crashes between them | modelled, checked, proved |
| 7 | `MemoryOutbox` | journal, scheduler, a provider that remembers commands | modelled, checked, safety proved |
| 8 | `MemoryTransaction` | the provider behind it: delivery by the outbox, file system, hands | modelled, checked, safety proved |
| 9 | `Delegation` | session's map and tool over reduced controllers and supervisor | modelled, checked, proved |
| 10 | lifecycle lock, scheduler, event queue; kernel pools, registries | the older runtime | as space allows |

Abstract specifications still worth stating: a ledger as an append-only
sequence that `EventStore` implements but for torn lines; the outbox as a queue per
scope that delivers each command at least once until it has an outcome.

Every invariant and every action property a passing run checks is proved. What is left
to prove: the theorems of those abstract specifications, and the two of the supervisor
without their hypotheses.

## 3. Modules and their correspondence to the code

A rule shared by all modules: what a function does up to its next await of
something that takes time is one action; awaits that resume in the same
microtask run are part of it. Every definition's source lines are in
`PROJECT.json` under `map`.

**`TurnController`.** A turn is its arrival number; because the queue is only
pushed, shifted, spliced and rewritten in place it is kept as a set of such
numbers. `promise` is the fate of what acceptTurn returned, `pump` the place
where the pump hangs: coalescing, woken, executing, or ending (between the
loop's return and `.finally`). Inputs carry what the code tells them apart by:
handoff, urgency, type, peer or not, durability, host feedback. The executor
resolves or throws at any moment, also after an abort. `held` is a history
variable for StopHolds.

**`TurnContract`.** What a caller may rely on, with no queue and no pump: a turn
waits, is worked on at most once, one batch at a time, and is answered together
with its batch. `TurnController!KeepsContract` is the refinement, under
`status <- TurnStatus`.

**`Supervisor`.** `reg` says where a birth stands: resolving, registering, inserted,
adopted or refused. `saved`, `rel`, `mine` are the steps of a terminal and its release;
`mut` and `sd` the callers that hold the gates and shutdown(). A required append may
fail, up to MaxFailures times. `Forget` is the joint removal from tree, records, lease
and templates. An adoption brings a new controller, so a resident that comes back after
a rollback is alive again. An ephemeral instance that has ended and works off its queue
is set running and idle again by each turn (`revived`, `Revives`): it can take children
and turns then as one that has not ended can, until a cancellation, a failed turn or a
failed write says otherwise. Lookups, notifications and the instance's resources are
left out; flushing all stores is one step of the barrier.

**`EventStore`.** `log` is the sequence of lines over all shards, each the set of
events in it: a line with two is one that was torn and written on, and `Readable`
leaves it out. readAllEvents is there as an order on lines (`Before`: by shard, then by
line) and a set of events (`Loaded`), not as a list that would have to be built by
recursion. `queue` keeps cancelled entries in place as the code does. Crash,
Restart and the recovery of ephemeral histories are actions. Blobs and the cursor
returned by append() (no caller uses it) are left out.

**`SharedHistory`.** A row carries the set of messages its text holds, so that
context and repetition can be compared. `native[k]` is the kernel's private
conversation with what it holds and what it held at its last activity; `lane[k]`
what the ledger believes. `severed` is a history variable: the kernels whose
conversation was lost while their lane's position stood (below). Kernels that
take structured history, bundles and redaction are left out, as are prompts,
tools and media.

**`SessionManager`.** A session instance is named by the call that builds it;
`call` says how far each call is and whom it awaits, and, for the properties,
what was under way when it was made. The order of recent use is, for each session, the
set of those used after it. A session's own work is its lease.

**`Checkpoint`.** A manifest is the content of every file, 0 for no file; the blobs
that hold contents are apart because they can be torn. `op` is the operation that
holds the session's lock with the values it has read, `sending` the message on its
way, which takes the lock twice and is published without it. `Measure` is dirtySet's
walk, `Restore` the comparison with its preflight, and then each file has its `Turn`:
it is copied or removed (`Write`), or its removal fails and is passed over (`Leave`).
`Mark` is the ledger and the memory, `Record` the index. An append to the ledger that
fails is passed over too (`Tells`), at the end of a rewind, of a cancel, and where a
rewind gives up the one before it (`Relieves`). Any other step that fails ends its
operation (`Throw`) and may leave a torn blob behind (`Tears`), and so does a crash.
`Edit` is anybody at the files, between any two steps. `stamp` is when a message was
recorded, for the mask's way to a boundary whose input is not in the ledger. History
variables (`before`, `shown`, `hands`, `meddled`, `stuck`, `unmarked`, `cut`) say what
the properties compare with. One message is under way at a time, and one ledger stands
for those of all agents: an append reaches all of them or none. The cache of file
statistics, collection of unused blobs, and a copy that stops half-way in one file are
left out.

**`MemoryCommands`.** Commands and their scopes, which the next two modules share.

**`MemoryOutbox`.** One append, with the rewrite it may need, is one step of the
serial writer. A handoff is admitted (`Request`) and then waits for the writer
(`Enqueue`), so that a stop can begin between the two and flush it at its end; which
of the tasks that wait comes next is left open. An append that throws has left its
record in the file (`AppendLingers`) or has not (`AppendIsLost`), and a rewrite fails
before its rename or behind it. `Replayed` and `Readable` are what a start makes of a
file, `Summary` and `Rewritten` what the rewrite makes of the memory: two independent
translations, which is what the properties compare. `job` follows each dispatch,
`batches` and `round` who awaits it. A backoff is due or not; retention is a step
(`Expire`). A command's id is a hash of its handoff and a key (`CommandIdAssumption`).
The owner's lock file is external. The public drain() is left out, because nothing in
the repository but its tests calls it: stop() drains by itself.

**`MemoryTransaction`.** A delivery goes through the steps of commit() or
recoverOne(), one action each; every file appears whole, by rename, so a delivery
stops between two steps. The queue of the root and its lock file make `Free`. The
outbox is there as `Delivered` and `RecordAnswer`: a command comes again until it has an
answer, in the order of its scope. `Touch` is an editor or the writer without
transactions. All facts slug alike and compete for names. Names both modules would have
begin with MT here, so that one module can hold the proofs of both.

**`Delegation`.** An agent's controller is its queue, batch, phase and abort signal, the
supervisor its gate and the two steps that lead an ephemeral child out of the tree;
`TurnController` and `Supervisor` have the whole of both. `entry`, `from` and `silent`
are the map. `Callback` is what the observer does with a record: it leaves the map, and
the delegator's queue takes the message if its controller takes turns. `fate` says what
became of the task itself and `told` what the delegator heard: CallbackIsTrue compares
the two. Delegation d, if made to a template, has child d. Steps after an abort that
need no timer (the rejection of queued turns) are part of the step that aborts. Whom a
stop reaches, a loop in the code, is the least set closed under the edges; the filter of
stopTurn puts every kept input where its rank among the kept is. A reload, the text of a
callback and lazily made residents are left out.

**`MC...`** give the constants their values. **`...Proofs`** hold the theorems.

## 4. Runs

| run | question | states |
|---|---|---|
| `turn` | promises, batches, stop, disposal and snapshots under every interleaving of control calls; callers are answered; the contract is implemented | 833,000 |
| `supervisor_mutations` | a checkpoint, a deletion or a reload meets births, terminals and shutdown, with a resident that comes late | 1,780,000 |
| `supervisor_release` | parent and child end, with one failed append: nothing leaks, whoever has ended is released | 456,000 |
| `store` | backpressure, rotation, failed and torn writes, crash, recovery; required appends are answered | 1,610,000 |
| `history` | two kernels share a history through failures, dead owners and a restart | 841,000 |
| `sessions` | any three manager calls overlap, with room for one session | 73,000 |
| `checkpoint` | two messages, two rewinds of any mode, cancels and overwrites, two edits, one crash, failing step or failure that is passed over | 4,200,000 |
| `outbox` | two handoffs through retries, rewrites, drains, aborts and two failures of any kind | 157,000 |
| `transaction` | three facts of two games compete for names, with three interruptions and one hand | 85,000 |
| `delegation` | two delegations between residents and children, two messages of the user, one stop, interrupt, cancellation, gate or failure | 633,000 |
| `sessions_deleted`, `outbox_replay` | statements of the comments that the code does not keep | violated |

What the properties say is written above each of them. The ones that carry most:

* `CallersReturn`: acceptTurn finds a pump task that has already left its loop and
  starts no second one; the wake-up survives only because `.finally` looks at the
  queue again. `StopHolds`: after a user's stop, queued peer results stay as
  context and queued peer assignments vanish; neither may start a batch by itself.
* `NothingLeaks`, `CompletionIsTheEnd`: through every refusal, failed append,
  cancellation and shutdown, lease and memory template are held exactly as long as
  needed, and a settled handle is true. `HoldIsQuiet`: while a checkpoint or a
  reload holds the barrier nothing runs.
* `RequiredIsHonest`, `LogReadsBack`, `SealedOnce`: what a required append was told
  is what the disk says, a torn write costs at most the one event behind it, and a
  history is sealed once over any sequence of crashes.
* `FullContext`: a kernel at work has all that the ledger had when its turn was
  composed. The code has exactly two exceptions, both until the next snapshot:
  a codex owner that exits between the composition of a delta and its dispatch
  (`codex-kernel.ts:511`, where `onExit` has already removed it from the list
  the guard asks), and a cursor chat that is remembered by its name although it
  never took the snapshot (`cursor-kernel.ts:261`).
* `OwnersAreKnown`, `ClosingIsComplete`: hold for whatever calls overlap, except
  around create(), which writes session.json before it builds and is not in
  `opening` (`session-manager.ts:237`): who names the session before create()
  answers may build a second instance, and a create() in flight when shutdown() is
  called comes up afterwards. `CallsReturn`: openings wait for the sessions they
  evict, closings for openings, shutdown for all; nobody waits in a circle.
* `RewindIsExact`, `EditsSurvive`, `RedoReturns`: at the end of a rewind of the files
  everything that was not spared is as the message found it, or a damaged blob has
  stopped it before the first file; a cancel, and a rewind on top of another, overwrite
  only what the rewind before put there; and a cancel brings back files and
  conversation of the first of several rewinds in a row. `PendingIsOffered`: what the
  ledger hides as a pending rewind, the manager can un-hide. Each has exceptions the
  code makes, named in its comment and in section 6: a file that could not be removed,
  an edit made while the restore runs, a mark the ledger did not take.
* `AcceptedIsKept`, `JournalIsKnown`: an accepted command without an outcome is in the
  journal through crashes, rewrites and failed rewrites; and as long as no write has
  failed, replaying the file gives the memory. `ReleasedIsQuiet`: the lock is
  released only when no call is at the provider, though an abort may time out first.
* `ReceiptsAreTrue`, `IndexIsTrue`, `NothingLost`, `RejectedForCause`: over any
  interruptions and redeliveries a receipt's text stands once, the index lists it,
  and no step replaces another command's text.

* `CallbackIsTrue`: although merged batches carry one identity and children work off a
  queue after their end, a callback names the task that ended, with its outcome, and
  comes at most once. `StopSilences`: what a stop reaches over any chain of delegations
  reports without waking anybody, and after a stop of everything nothing runs until
  the user speaks. `NothingForgotten`: at rest every delegation has called back, except
  for the cases of section 6. `Moving` says at rest without fairness: it writes out when
  one of the system's own steps is enabled (TLC finds it the same as their ENABLED in
  every state of the run), so that the property can be proved.

Each module states its type invariant, TypeOK. It is in a run where something could
break it (`turn`, `transaction`, `store`) and proved for every module.

### Bounds

Three turns with a queue of two are the least with an overflow, a batch of two and a
turn that waits behind it; two revisions let a snapshot be staged while another is
pending. Two ephemeral instances give parent and child, siblings and an instance that is
late; a resident that comes late meets every mutation; one failed append meets every
step of births, terminals and releases. Four writer tasks with high water one reach
drop, cancel and a required task behind both; shards of two lines rotate twice, and one
torn write and one recovery cross a restart. Three turns on two kernels are a switch and
a return with a failure between; one restart separates disk from memory. Three calls on
two sessions with room for one make an eviction collide with any third call. Two rewinds
are the least in which the second inherits the anchor of the first; two files are one
that is spared and one that is restored, and the order in which a restore writes them;
two edits reach before and after. The second message is the one that finds a rewind of
the first pending and finalises it; messages and edits are three together (Moves), which
leaves two messages with an edit anywhere, and one message with two. Seven journal
records for up to fourteen make a rewrite necessary more than once; three commands in
two scopes are one that waits for its predecessor and one beside it; two faults are a
failed write and the crash behind it. Three facts are two of one game, which come in
order, and one of another game, which does not; three interruptions reach a recovery
that is interrupted. Two delegations are a chain, a crossing, or one that is merged with
or evicted by the other and the user's messages; with a queue of two an eviction is
reached. The quota of eight is in the guards but cannot bite with two delegations, so no
property is claimed for it.

Everything else the bounds cut off is repetition: each has a name (MaxTurns,
MaxFailures, MaxRevision, MaxTears, MaxRestarts, Calls, Rewinds, Edits, Faults, Moves,
Mishaps, Hands, MaxUser, MaxTroubles). Symmetry is used where ids are only compared, and
never in a run with a liveness property. `CHECK_DEADLOCK FALSE` stands in every
configuration because each system may stop: a disposed controller, a session shut down,
a process that is closed, or all bounded inputs used up.

### Fairness

*Controller*: the coalescing timer, the resumption after a wake, the executor's
settling, `.finally` and the resumption of dispose. These are the event loop's
timers and microtasks; that an executor settles is its contract (kernels have
their own timeouts). No control call is fair. *Supervisor*: the steps of births,
releases, mutations and shutdown, and the settling of an **aborted** turn only; an
unaborted one may run for ever. *Event store*: the writer's chain goes on and file
operations end, by success or error. *Session manager*: each call's next step and
each disposal. *Memory outbox*: as long as the host has to start, the timer to fire,
a backoff to run out or a call to settle (`Busy`), one of these happens (`Work`);
since handoffs, faults and attempts are finite, that is enough, and no stop, crash
or failure is owed. It is weak fairness of `Work` with its enabling condition
written out, with one more condition: no enqueue waits for the writer for ever.
*Memory transactions*: each command's next step, WF(MTWork(c)): a
delivery that cannot go on (another one holds the root) becomes possible again.
*Shared history*, *checkpoints* and *delegations*: none, they have only safety
properties.

The liveness properties have the forms []<>P and <>[]P. Each says "whenever
something waits, it is eventually done" for a condition that stays true until it is
done and can arise only boundedly often, so that nothing waiting infinitely often
is nothing waiting in the end.

## 5. Proofs

The eight proof modules are checked by TLAPS for every value of the constants, under the
named assumptions in the modelled modules (bounds are naturals, id sets disjoint, a
resident's parent is another resident that exists from the start, or none; delegations,
and the commands of the transactions, are finitely many; a command has one place in one
handoff, because its id is a hash of both (`src/npc-brain/service.ts:1657`); and the
commands of one scope stand in an order). Each
has the same plan: an inductive invariant that TLC has checked on the run's instance
(and where it was affordable on a larger one), a lemma for every action, and the
properties as consequences. Where an action touches a sequence, what it does to the
sequence is a lemma of its own, so that the lemmas about the invariant's parts speak of
places and not of Append or Tail.

**`TurnControllerProofs`**: TypeCorrect, PromisesAreKept, NoLostWakeup,
StateShowsExecution, ResidentsSurvive, DisposedMeansQuiet; on top of them
SnapshotsStayPinned, StopsHold and ContractIsKept. The inductive invariant joins TypeOK,
PromiseKept, PumpArmed, RunningIffExecuting and ResidentSurvives with `Bookkeeping`:
turns not offered yet are in no queue, a batch and an abort exist only while the
executor works, a disposed controller has an empty queue, and state "disposed" is
reached with no pump. Without it PromiseKept is not inductive (a stale batch would
answer a turn again) and DisposedIsQuiet does not follow. A lemma about the pump's
synchronous stretch, which several actions share, is proved once; then one step per
action. SnapshotsStayPinned needs no more than that reconcilePendingTurns and
executionForClaim keep the newest of two snapshots. StopsHold has the invariant Calm:
what a stop held is old, and what is still queued of it is silent and no assignment;
that a stop leaves no other turn of the session in the queue is what makes it inductive.
ContractIsKept is the refinement of TurnContract's safety half (`Spec =>
Contract!Spec`): a turn that was never offered has its first fate (Unoffered), every
action changes fates in one of four ways (ControlMoves, PumpMoves, EndMoves,
OfferMoves), and each way is a step of the contract or a stutter.

**`SupervisorProofs`**: TypeCorrect, TreeStaysClosed, TreeStaysOwned, NoLeak,
SettledMeansGone, ShutdownStaysFinal. `Subtree` is a least closed set, so that "removal
leaves no orphan" (RemovalKeepsClosed) needs no induction over depth. The invariant adds
where the ids of a birth can be (BornInTree, RecordsAdopted), that only what was adopted
ends, is saved or is released (EndedAdopted, CurrentAdopted), and SettledIsGone,
stronger than CompletionMeansGone because it forbids a settled id to be born again. Two
lemmas carry the induction: steps that leave the tree alone (QuietSteps) and steps that
remove nodes and records (RemovalSteps); every action is an instance of one of them or
of a birth. ShutdownStaysFinal has an invariant of its own, about the gates alone.
HoldsAreQuiet and CompletionsAreTheEnd have a hypothesis each, because the code keeps
the properties no further. HoldsAreQuiet assumes OneCaller: with two callers at the
gates the first to leave opens them for the other (section 6). Its invariant Quiet says
that the gates stay closed for whoever closed them, and that a resident that has come to
rest behind them stays there. CompletionsAreTheEnd assumes NoOverlap, that deletions of
residents do not overlap with another caller of the gates: TLC finds a child adopted
late under a resident that is being deleted while another caller reopens the gates, and
it works on after its handle has settled. Its invariant Rest says, until a shutdown
begins, what is at rest at each step of a release, and that everything a deletion will
drop is at rest or waited for; SubtreeGrows bounds what comes under a node by a step.

**`EventStoreProofs`**: TypeCorrect, ReadsBack, AnswersAreHonest, FlushesCover,
HistoriesEndOnce: all safety properties of the module. The invariant ties four views of
one event together. Chain: the queue is the tail of what was asked for, and the running
task stands right before it, so that `position' means the same for the writer, flush()
and the log. Untouched: what waits, or was never appended, is answered nowhere and on no
line, so that an append is always the first of its event. Ordered: lines are in the
order of shards and of positions. Written and Damage: of a stored event there is a line,
of a thrown one at most an unfinished one, and the number of stored events that cannot
be read, plus one while the last line is unfinished, is at most the number of tears; the
plus one is what makes `a tear costs one event at most' inductive. Sealing says where
the recovery stands and that nothing waits when it begins. A restart goes on in the
greatest shard there is: that it exists is GreatestNat.

**`SharedHistoryProofs`**: TypeCorrect, NoGaps and NoReplays, for any kernels, turns and
restarts. What makes them inductive is what a lane's position means for the conversation
behind it. Known: unless the conversation was severed, it (or the checkpoint it can be
restored from) holds everything up to the position and the kernel's own answers. NotHeard: at
its last activity it had nothing of what the next delta will give. Dispatched, Sent and
Taken carry both through a turn, from the composed plan over the first activity to the
answer; Bound and Numbered say that acknowledgements name a bound lane and answers are new.

**`SessionManagerProofs`**: TypeCorrect, OwnersKnown, ClosingsComplete, for any number
of overlapping calls. The invariant has a clause for each stage a call can be in
(CallsInOrder: what it waits for, what it has seen, and that what it closes is covered
by the calls it watches), MapIsLive and OpeningIsOn (the two tables hold what they say),
OneOwner (of the instances of one session one at most is neither down nor on its way)
and UpIsListed. ClosingIsComplete is not inductive without Covers: a closing must know
the opening that could still publish the session after it.

**`CheckpointProofs`**: TypeCorrect, RewindsAreExact, CancelsKeepEdits, CancelsReturn
and HiddenIsOffered: all properties of the module. For the files nobody has touched
since the first of the pending rewinds (those outside `hands`) it says that the anchor
holds them as they were before (Anchored) and that the disk is between that and the
target (Between), at every step of a rewind that writes file after file. What protects
the others is EditsSpared: from dirtySet's walk on, a file the operation will still turn
to is as the rewind before left it (Put), unless it was edited behind the walk; that a
refused, interrupted or repeated restore has left nothing else there is in SparedFiles.
Operation says what an operation at each step has read and has still to do. For the
conversation, which boundary hides what (ShownInputs, LedgerIds, LedgerTargets), that
this is nothing of what was shown but for the boundaries in `unmarked` (ShownBut), and
that a boundary no input has followed is the pending one's (Offered); for the index,
that one record at most is open (OneOpen). The exceptions of the theorems are the
properties' own; the refused restore in CancelsReturn is one that the attempt to prove
it brought up (section 6).

**`MemoryProofs`**, of the outbox: TypeCorrect, ReleasedStaysQuiet, AcceptedStaysKept,
JournalStaysKnown, ScopeOrderKept, for any handoffs, commands and scopes, any limits, and
any number of crashes and failed writes. The invariant (Invariance) says three things,
each of which the next start, the next rewrite or the next append relies on. FileTrue is
about the file alone, whatever has happened to the memory: what was accepted and has no
outcome is in it, an outcome in it is one, and what can be read stands in the order it was
handed over. Sound is about a process that is up: its memory knows the commands of its
handoffs in that order (MemoryTrue), forgets only what has an outcome (HeldIn), and who
runs is the first of its scope that is pending (RunsFirst), which gives ScopeOrder.
Steady holds until a write fails: reading the file gives the memory (Matches). It is not
inductive by itself, since a rewrite writes the error of an earlier attempt only behind an
attempt: that an error is followed by another attempt before there is an outcome (Tried,
TriedAgain) is what makes it so, and a file must keep that through a crash (Recoverable).
The lemmas below it say what Recalled and Trail are behind an append and behind a
rewrite, and what stands where in Joined sequences (Follows, Reaches, JoinedPlaces). The
recursion of Joined has its equation from JoinedRecursion, and what holds for every
length is proved by the least length for which it would not.

**`MemoryProofs`**, of the transactions: MTTypeCorrect, ReceiptsStayTrue, IndexStaysTrue,
RejectionsHaveCause, NothingIsLost: all safety properties of the module, for any
finite set of commands, any scopes and directories, any number of interruptions and
hands. The invariant adds that one delivery at a time holds the root (Alone), that a
command's text stands nowhere but at its plan (Planned: ReceiptsAreTrue is not
inductive without it, a forgotten plan would let it be written again), that nothing of
a command is in the way of a write (Clear, which makes NothingIsLost an invariant of
two steps), that commands of a scope share a name only over a removed file (Apart),
and what a delivery has achieved at each of its steps (Standing, Caused, Listing).
That planMemoryEntryAsync finds a free suffix is part of MTTypeCorrect and needs
counting: there are at most as many texts as other commands and hands
(SomeSuffixFree), so hands are counted in the invariant (Counted).

**`DelegationProofs`**: TypeCorrect, CallbacksAreTrue, StopsSilence and
NothingIsForgotten, for any agents, delegations, capacities and stops. CallbackIsTrue is
about the end of a task, its invariant about the whole way of it: a task is in one queue
or one batch, and that is with the target of its record (OnePlace); its fate says where it
is and whether its record can remain (FateShows); nobody is told while the record is there
(ToldOnce); who is idle has no batch, and who is out of the tree has neither work nor a
record (AtRest). Without OnePlace a task evicted from one queue could be answered for by
another turn, and without AtRest a removal could call back for a task that still runs.
What a callback does to the records, the queues and the fates is one lemma
(CallbackFacts), and that it keeps the invariant another (CallbackKeeps), with the step's
own contribution as its hypothesis (Accounts): each of the ten actions that call back is
an instance. StopsSilence adds Marked: a stop's delegations are past their sending and
marked for as long as they have records, and after a stop of everything there is nobody to
wake (Quiet). That the stop marks all it reaches is TargetsAre: the targets are a least
closed set within the tree, and whom the map alone leads to is among them, because a
record's target is in the tree. NothingIsForgotten is about states at rest, so its proof
looks for the step that a delegation without an answer could still take. Parting is what
it needs beyond the invariant: a child exists for one delegation, whose task nobody else
has; when that is over the child leaves; and of any children one has none among them. So
at rest a child that has not left has a descendant which never started (ChildBelow), and
that is an exception of section 6. What an action may do to one delegation (Proceeds) and
to the tree (Leads) is shown per action, and that it keeps Parting once, for all of them
(PartingKeeps).

Proved and not among the properties of the runs: PumpArmed, RunningIffExecuting,
ResidentSurvives, TreeIsClosed, CompletionMeansGone, ShutdownIsFinal.

Only model-checked: the liveness properties (CallersReturn, RequiredAnswered,
CallsReturn, AcceptedIsSettled, EveryCommandAnswered, EndedIsReleased) and the fair half
of the refinement KeepsContract, because TLAPS does no fairness. No other property of a
passing run is without a theorem. Induction is used in one form, that a non-empty set of
naturals has a least element, by way of the well-foundedness of <: the library's induction
rules take an operator, which the installed provers cannot instantiate.

## 6. What the modelling showed

Two statements of the repository the code does not keep, each a run:

* `sessions_deleted`: an open() while delete() awaits the disposal restores the
  session; delete() then removes the directory and returns with the session up.
* `outbox_replay`: the rewrite of a journal leaves one dispatch record with the last
  attempt's number, and the replay refuses a first dispatch that is not the first
  attempt: after two attempts of a command, a rewrite and a restart, the outbox
  refuses its own journal as corrupt (`durable-memory-outbox.ts:692`, `:563`).

Other behaviour the models have because the code has it, that a maintainer may
want to know:

* The controller goes on with queued turns after an ephemeral instance's terminal
  (`agent-runtime-controller.ts:231`), and an overflow evicts the oldest turn even if it
  is required (`:103`).
* A child that was resolving when the barrier closed is adopted after the drain, and its
  draining parent, hence the barrier, waits for it without bound
  (`runtime-supervisor.ts:481`). Under reload the release of an ended instance can wait
  the same way, which is why `supervisor_release` has checkpoints only.
* The release of an ephemeral instance looks for children and then awaits the
  controller's disposal; a child inserted meanwhile is removed with its parent
  (`runtime-supervisor.ts:612`, `:618`), where the comment at `:427` promises a release
  bottom-up.
* A resident target stays busy for ever when its task is evicted from a full inbox,
  cleared by an interrupt in the coalescing window or by a gate, merged with a later
  input (`kernel-turn-executor.ts:362`: the batch carries the last one's identity), or
  refused before the host's turn because of a compaction, an abort or a delegator that
  has gone. The last throws at `:107`, outside the branch whose comment (`:91`) says the
  delivery must settle "otherwise a resident remains busy forever". The `ts` that should
  collect such entries (`session.ts:95`) is never read.
* An ephemeral child whose task is rejected before its first turn, by a stop or
  interrupt in its window or by a refused delivery, has no end to be released for: it
  keeps its slot and its ended parent.
* A stop does not reach a child that is being created: the record that replaces the
  reservation has no mark. Callbacks published while the gate is closed reach the ledger
  and not the delegator's inbox.
* Two callers may hold the gates at once; the first to leave opens them for both
  (`:330`). Checkpoint calls are serialised per session, deletion and reload are not.
  HoldIsQuiet is therefore stated for one caller at a time. A deletion that overlaps
  with another caller can in this way leave a late child at work behind a settled
  handle.
* A second dispose() returns at once (CompletionMeansAtRest excepts shutdown); a
  deletion drops the record of a child adopted during its awaits (`:314`); a failed
  agent.disposed append leaves the handle pending and the lease held; a shutdown removes
  records without settling their handles.
* A torn line swallows the next event although its append succeeded
  (`event-ledger.ts:153`); a history may be reported sealed that cannot be read; the
  cursor append() returns is unreliable but unused.
* A user_input that waits is part of another turn's patch and is given again as its own
  turn; a coalesced batch names only its last source (`kernel-turn-executor.ts:362`).
* open() may join a restoration whose session was closed before it answered, and returns
  a disposed session; prepareForWrite moves a directory without waiting for a
  restoration or an eviction's disposal; a second close or delete returns before the
  first one's disposal.
* A cancel of a rewind of the conversation alone restores the files all the same, and
  has no baseline to tell edits by: what was edited since the rewind is overwritten,
  where the comment (`checkpoint-manager.ts:365`) says edits made while a rewind is
  pending are kept by default; a rewind on top of it does the same. EditsSurvive names
  the mode as its exception. A file somebody has removed counts as no edit, so a cancel
  brings it back.
* The same two operations look for edits once (`:380`, `:330`) and then restore with
  walks and copies of their own, during which the files can be edited: what is edited
  behind the first walk is overwritten or removed when its turn comes (`meddled`).
* restore() passes over a file it cannot remove (`snapshot-store.ts:450`), and the
  rewind is recorded as done with a file the message did not have. The comment above
  (`:404`) rules a partial restore out, and the copies before it keep to that.
  RewindIsExact and RedoReturns except these files (`stuck`).
* appendToAllLedgers logs an append that fails and goes on (`checkpoint-manager.ts:539`).
  A cancel then clears the pending rewind and answers that it succeeded, with the
  inputs still hidden, and there is nothing left to cancel; a rewind that gives up the
  one before it leaves that one's boundary in force. RedoReturns excepts what those
  boundaries hide, PendingIsOffered the boundaries themselves (`unmarked`).
* A blob that was torn by a crash or a failed snapshot is never written again, because
  it is there; a restore that needs it is refused, and the rewind is recorded as done.
* A rewind that is refused for a damaged blob while another one is pending is recorded
  all the same as the last restore (`lastRestoreManifestId`), so a cancel that follows
  compares with files the refused one never wrote and spares them.
* An enqueueHandoff() that throws may have left its record in the file, and later
  handoffs of its scope wait for it. It was not accepted, so a rewrite or a crash may lose
  it, and when the host hands it over again it stands behind them. ScopeOrder is about
  commands that are accepted or known (`Owed`); without that it holds on the run's
  instance and fails on a larger one, which the attempt to prove it brought up.
* stop() closes admission before it looks for pending work, so that nothing is "accepted
  after drain saw zero" (`durable-memory-outbox.ts:388`); an enqueue that was admitted
  before and waits for the writer is. The drain ends at once, the flush behind it writes
  the handoff, its caller is answered, and its commands wait for the next start.
* A failed outbox record rejects its whole round, and nothing is scheduled until the
  next handoff. Memory can have been pruned when the rewrite behind it fails.
* Two games of one character plan the same name when the first is interrupted between
  its intent and its file; its retry finds the other's text, is rejected for good, and
  its fact is lost although nobody else wrote.

## 7. Not modelled, and why

* The *older scheduler* with its conscious agents: states worth checking, next in the
  plan. *Permissions and questions*, *warm kernel pools*: registries with timers, after
  it. Of *delegations*: that the text relayed may be an earlier turn's, and that
  stopRuntime throws half-way on a child that is in the tree and not yet adopted.
* *Round delivery*: renders a difference between snapshots and changes no state. *NPC
  brain*: only its memory is modelled; the rest is batching of observations and a
  request to a provider.
* *Resident ledger recovery*, the reload coordinator's debounce, the preview of a rewind
  and the takeover of a dead owner's lock file (`file-memory-transaction-store.ts:301`)
  are listed with their hazards.
* The other kernels' protocol mappings, tool catalogues and policies, context-window
  transformations, loading of kits and templates, file-system services, model providers,
  extensions and packs, HTTP and socket surface, media gateways, observatory, terminal,
  command line and branding convert, scan or forward data and own no interleaving of
  their own. They are most of the repository's lines: what keeps state under concurrency
  is a small part of it, and the mapped share of all lines is small for that reason.
