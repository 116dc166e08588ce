----------------------------- MODULE EventStore -----------------------------
(***************************************************************************)
(* The history of one agent instance: AsyncLedgerWriter's serial queue in  *)
(* front of EventLedger's shards, the synchronous appends of the bus       *)
(* observer that bypass the queue, the process that may die in the middle  *)
(* of a line, and the recovery that seals the history of an ephemeral      *)
(* instance whose process died.                                            *)
(*                                                                         *)
(* A write that fails or dies half-way leaves a line without its newline;  *)
(* the next append goes on in that line and neither can be parsed.         *)
(***************************************************************************)
EXTENDS Naturals, Sequences, SequencesExt, FiniteSets

CONSTANTS
  Tasks,          \* events appended through the writer
  Required,       \* those with durability "required"
  Hooks,          \* events the bus observer appends synchronously
  Registration,   \* the agent.registered event
  Terminals,      \* terminal events of the instance
  Aborts,         \* agent.aborted_by_restart, one for each restart
  Nobody,
  HighWater,      \* AsyncLedgerWriter.highWater
  CheckInterval,  \* SIZE_CHECK_INTERVAL
  ShardLines,     \* MAX_SHARD_BYTES, in lines
  Lifetimes,      \* a subset of {"resident", "ephemeral"}
  MaxTears        \* bound: writes that stop half-way

Queued == Tasks \cup Aborts
Events == Queued \cup Hooks

ASSUME EventsAssumption ==
  /\ Tasks \cap Hooks = {} /\ Aborts \cap (Tasks \cup Hooks) = {}
  /\ Registration \in Required /\ Required \subseteq Tasks
  /\ Terminals \subseteq Required \ {Registration}
  /\ Nobody \notin Events
ASSUME BoundsAssumption ==
  /\ HighWater \in Nat \ {0} /\ CheckInterval \in Nat \ {0}
  /\ ShardLines \in Nat \ {0} /\ MaxTears \in Nat
ASSUME LifetimeAssumption == Lifetimes \subseteq {"resident", "ephemeral"}

VARIABLES
  fresh,          \* events nobody has appended yet
  asked,          \* this process's enqueueTask calls, in order
  queue,          \* AsyncLedgerWriter._queue
  running,        \* the task at the head of the chain, already shifted
  answer,         \* what a required append was told
  flush,          \* one flush() call: how many tasks it waits for
  log,            \* the lines on disk, in the order they were written
  ragged,         \* the last line has no newline
  lifetime,       \* what the registration says
  shard, count,   \* EventLedger._currentShard, _appendCount
  process,        \* the process: up, down, sealing (recovery) or closed
  torn            \* writes that stopped half-way so far

writer == <<asked, queue, running, answer, flush>>
disk == <<log, ragged, lifetime>>
ledger == <<shard, count>>
vars == <<fresh, writer, disk, ledger, process, torn>>

Durability(e) == IF e \in Required \cup Aborts THEN "required" ELSE "best-effort"

Entries == [ev : Queued, cancelled : BOOLEAN]
LogLines == [shard : Nat \ {0}, evs : SUBSET Events, good : BOOLEAN]

TypeOK ==
  /\ fresh \subseteq Events /\ asked \in Seq(Queued)
  /\ queue \in Seq(Entries)
  /\ running \in [ev : Queued \cup {Nobody}, ok : BOOLEAN]
  /\ answer \in [Queued -> {"none", "ok", "failed"}]
  /\ flush \in [pc : {"idle", "waiting", "returned"}, upTo : Nat]
  /\ log \in Seq(LogLines)
  /\ ragged \in BOOLEAN /\ lifetime \in Lifetimes
  /\ shard \in Nat \ {0} /\ count \in 0..(CheckInterval - 1)
  /\ process \in {"up", "down", "recovering", "sealing", "closed"}
  /\ torn \in 0..MaxTears

-----------------------------------------------------------------------------
(* EventLedger                                                             *)

\* parseEvents: lines that do not parse are left out
Readable == {k \in DOMAIN log : log[k].good}

\* readAllEvents: shard after shard, line after line
Before(i, j) ==
  log[i].shard < log[j].shard \/ (log[i].shard = log[j].shard /\ i < j)

\* what is read back
Loaded == UNION {log[k].evs : k \in Readable}

Shards == {log[k].shard : k \in DOMAIN log}

\* mutant: a restart goes back to the first shard
FirstShard == 1

\* the highest shard file there is
LastShard == IF Shards = {} THEN 1 ELSE CHOOSE n \in Shards : \A k \in Shards : k <= n

\* what goes on in an unfinished line spoils it
Spoil(l, e) == [l EXCEPT !.evs = @ \cup {e}, !.good = FALSE]

\* appendFileSync of one line, after what a torn write may have left
WriteLine(e) ==
  /\ log' = IF ragged
            THEN [log EXCEPT ![Len(log)] = Spoil(@, e)]
            ELSE Append(log, [shard |-> shard, evs |-> {e}, good |-> TRUE])
  /\ ragged' = FALSE /\ UNCHANGED lifetime

\* a write that stops half-way, at worst with only its newline missing
TearLine(e) ==
  /\ torn < MaxTears /\ torn' = torn + 1
  /\ \E whole \in BOOLEAN :
       log' = IF ragged
              THEN [log EXCEPT ![Len(log)] = Spoil(@, e)]
              ELSE Append(log, [shard |-> shard, evs |-> {e}, good |-> whole])
  /\ ragged' = TRUE /\ UNCHANGED lifetime

FullShard == Cardinality({k \in DOMAIN log' : log'[k].shard = shard}) >= ShardLines

\* the size is looked at after every CheckInterval appends
CountAndRotate ==
  IF count + 1 < CheckInterval
  THEN count' = count + 1 /\ UNCHANGED shard
  ELSE count' = 0 /\ shard' = IF FullShard THEN shard + 1 ELSE shard

AppendStored(e) == WriteLine(e) /\ CountAndRotate /\ UNCHANGED torn

\* an append that throws, with or without a part of the line on disk
AppendThrows(e) ==
  /\ TearLine(e) \/ UNCHANGED <<disk, torn>>
  /\ UNCHANGED <<shard, count>>

Init ==
  /\ fresh = Events /\ asked = <<>> /\ queue = <<>>
  /\ running = [ev |-> Nobody, ok |-> FALSE]
  /\ answer = [e \in Queued |-> "none"]
  /\ flush = [pc |-> "idle", upTo |-> 0]
  /\ log = <<>> /\ ragged = FALSE /\ lifetime \in Lifetimes
  /\ shard = 1 /\ count = 0
  /\ process = "up" /\ torn = 0

-----------------------------------------------------------------------------
(* AsyncLedgerWriter                                                       *)

BestEffort(q) ==
  {k \in DOMAIN q : Durability(q[k].ev) = "best-effort" /\ ~q[k].cancelled}

\* mutant: the oldest entry is the victim whatever its durability
DropAny(q, e) ==
  IF Durability(e) = "required" \/ Cardinality(BestEffort(q)) < HighWater THEN q
  ELSE LET waiting == {k \in DOMAIN q : ~q[k].cancelled}
       IN  [q EXCEPT ![CHOOSE k \in waiting : \A j \in waiting : k <= j].cancelled = TRUE]

\* backpressure: a best-effort event that finds HighWater of its kind waiting
\* cancels the oldest of them
Backpressure(q, e) ==
  IF Durability(e) = "required" \/ Cardinality(BestEffort(q)) < HighWater THEN q
  ELSE [q EXCEPT ![CHOOSE k \in BestEffort(q) :
                     \A j \in BestEffort(q) : k <= j].cancelled = TRUE]

EnqueueTask(e) ==
  /\ queue' = Append(Backpressure(queue, e), [ev |-> e, cancelled |-> FALSE])
  /\ asked' = Append(asked, e)
  /\ fresh' = fresh \ {e}

\* the instance's history begins with agent.registered and is required; what
\* follows its terminal event no longer matters here
EnqueueEvent(e) ==
  /\ process = "up" /\ e \in Tasks \cap fresh
  /\ e # Registration => Registration \notin fresh
  /\ EnqueueTask(e)
  /\ UNCHANGED <<running, answer, flush, disk, ledger, process, torn>>

Idle == running.ev = Nobody

Takes == [first |-> Head(queue), rest |-> Tail(queue)]

\* the next callback of the chain shifts the head and starts its write, which
\* is synchronous
TaskRuns ==
  /\ process \in {"up", "sealing"} /\ queue # <<>> /\ Idle
  /\ queue' = Takes.rest
  /\ IF Takes.first.cancelled
     THEN UNCHANGED <<running, disk, ledger, torn>>
     ELSE \/ /\ AppendStored(Takes.first.ev)
             /\ running' = [ev |-> Takes.first.ev, ok |-> TRUE]
          \/ /\ AppendThrows(Takes.first.ev)
             /\ running' = [ev |-> Takes.first.ev, ok |-> FALSE]
  /\ UNCHANGED <<fresh, asked, answer, flush, process>>

\* mutant: the error of a best-effort write escapes and breaks the chain
TaskSettlesThrowing ==
  /\ ~Idle
  /\ running.ok \/ Durability(running.ev) = "required"
  /\ answer' = [answer EXCEPT ![running.ev] = IF running.ok THEN "ok" ELSE "failed"]
  /\ running' = [ev |-> Nobody, ok |-> FALSE]
  /\ UNCHANGED <<fresh, asked, queue, flush, disk, ledger, process, torn>>

\* `await head.run()' is over; only a required append hears of an error
TaskSettles ==
  /\ ~Idle
  /\ answer' = [answer EXCEPT ![running.ev] = IF running.ok THEN "ok" ELSE "failed"]
  /\ running' = [ev |-> Nobody, ok |-> FALSE]
  /\ UNCHANGED <<fresh, asked, queue, flush, disk, ledger, process, torn>>

\* mutant: flush looks at the queue, where the task in flight is no longer
EmptiedQueue == Len(asked) - Len(queue)

\* callbacks of the chain that are over
Completed == Len(asked) - Len(queue) - (IF Idle THEN 0 ELSE 1)

FlushBegins ==
  /\ process \in {"up", "sealing"} /\ flush.pc = "idle"
  /\ flush' = [pc |-> "waiting", upTo |-> Len(asked)]
  /\ UNCHANGED <<fresh, asked, queue, running, answer, disk, ledger, process, torn>>

FlushReturns ==
  /\ flush.pc = "waiting" /\ Completed >= flush.upTo
  /\ flush' = [flush EXCEPT !.pc = "returned"]
  /\ UNCHANGED <<fresh, asked, queue, running, answer, disk, ledger, process, torn>>

-----------------------------------------------------------------------------
(* The bus observer appends in the tick of the event                       *)

HookAppends(e) ==
  /\ process = "up" /\ e \in Hooks \cap fresh
  /\ Registration \notin fresh
  /\ fresh' = fresh \ {e}
  /\ AppendStored(e) \/ AppendThrows(e)
  /\ UNCHANGED <<writer, process>>

-----------------------------------------------------------------------------
(* The process dies and starts again                                       *)

\* what waits in memory is lost; a write may be cut in the middle (bound: one
\* crash for each element of Aborts)
Crash ==
  /\ process \in {"up", "sealing", "closed"} /\ Aborts \cap fresh # {}
  /\ process' = "down"
  /\ \/ UNCHANGED <<disk, torn>>
     \/ Idle /\ queue # <<>> /\ ~Takes.first.cancelled /\ TearLine(Takes.first.ev)
  /\ asked' = SubSeq(asked, 1, Len(asked) - Len(queue))
  /\ queue' = <<>> /\ running' = [ev |-> Nobody, ok |-> FALSE]
  /\ flush' = [pc |-> "idle", upTo |-> 0]
  /\ UNCHANGED <<fresh, answer, ledger>>

Restart ==
  /\ process = "down"
  /\ process' = IF lifetime = "resident" THEN "up" ELSE "recovering"
  /\ shard' = LastShard /\ count' = 0
  /\ UNCHANGED <<fresh, writer, disk, torn>>

Has(S) == Loaded \cap S # {}

\* mutant: the instance's own terminals are not looked for
OnlyAborts == Has(Aborts)

EndsHistory == Has(Terminals \cup Aborts)

NeedsRecovery == Has({Registration}) /\ ~EndsHistory

\* recoverAbandonedEphemeralHistories on a store of its own
RecoverReads ==
  /\ process = "recovering"
  /\ IF NeedsRecovery
     THEN /\ process' = "sealing"
          /\ \E e \in Aborts \cap fresh : EnqueueTask(e)
     ELSE process' = "closed" /\ UNCHANGED <<fresh, asked, queue>>
  /\ UNCHANGED <<running, answer, flush, disk, ledger, torn>>

\* `await store.append(event, "required")' returns or throws
RecoverDone ==
  /\ process = "sealing"
  /\ \E e \in Aborts : e \in ToSet(asked) /\ answer[e] # "none" /\ Last(asked) = e
  /\ process' = "closed"
  /\ UNCHANGED <<fresh, writer, disk, ledger, torn>>

-----------------------------------------------------------------------------
Next ==
  \/ \E e \in Tasks : EnqueueEvent(e)
  \/ \E e \in Hooks : HookAppends(e)
  \/ TaskRuns \/ TaskSettles \/ FlushBegins \/ FlushReturns
  \/ Crash \/ Restart \/ RecoverReads \/ RecoverDone

Spec == Init /\ [][Next]_vars

\* the chain's callbacks run, files are written or fail
Fairness == WF_vars(TaskRuns \/ TaskSettles)

FairSpec == Spec /\ Fairness

-----------------------------------------------------------------------------
(* Properties                                                              *)

\* The log is strictly sequential: what is read back of the writer's events,
\* across shards and restarts, stands in the order it was enqueued.
OrderIsKept ==
  \A i, j \in Readable : \A a, b \in DOMAIN asked :
    Before(i, j) /\ asked[a] \in log[i].evs /\ asked[b] \in log[j].evs => a < b

\* A required event is never the victim of backpressure, and never answered
\* "ok" unless its line was written, nor "failed" with a whole line on disk (the
\* last line may lack nothing but its newline).
RequiredIsHonest ==
  /\ \A k \in DOMAIN queue :
       queue[k].cancelled => Durability(queue[k].ev) = "best-effort"
  /\ \A e \in Required :
       /\ answer[e] = "ok" => \E k \in DOMAIN log : e \in log[k].evs
       /\ answer[e] = "failed" /\ e \in Loaded => ragged

\* A write that stops half-way costs at most the one event appended after it:
\* subsequent valid lines still load.
DamageIsLocal ==
  Cardinality({e \in Queued : answer[e] = "ok" /\ e \notin Loaded}) <= torn

\* The log reads back as it was written: in order, and whole but for what a torn
\* write has cost.
LogReadsBack == TypeOK /\ OrderIsKept /\ DamageIsLocal

\* When flush() has returned, nothing enqueued before the call is waiting or in
\* flight.
FlushCovers ==
  flush.pc = "returned" =>
    \A k \in 1..flush.upTo :
      /\ asked[k] # running.ev
      /\ \A j \in DOMAIN queue : queue[j].ev # asked[k]

\* A history is sealed for the restart only when nothing else has ended it.
SealedOnce ==
  LET ends == Loaded \cap (Terminals \cup Aborts)
  IN  Cardinality(ends \cap Aborts) + (IF ends \cap Terminals # {} THEN 1 ELSE 0) <= 1

Waits(e) == running.ev = e \/ \E k \in DOMAIN queue : queue[k].ev = e

\* No required append waits for ever, whatever other writes do: it is answered,
\* unless the process dies first.
RequiredAnswered == []<>(process = "down" \/ \A e \in Required : ~ Waits(e))
=============================================================================
