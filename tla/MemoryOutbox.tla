---------------------------- MODULE MemoryOutbox ----------------------------
(***************************************************************************)
(* The durable outbox of memory commands (durable-memory-outbox.ts): a      *)
(* journal that is appended to, replayed at a start and rewritten when it   *)
(* is full; a scheduler in memory that is only a projection of it; a        *)
(* provider that remembers which commands it has carried out.  A task of    *)
(* the writer (one append, with the rewrite it may need) is one step: the   *)
(* writer runs them one after another, and a crash inside one leaves the    *)
(* record written or a torn tail the next start cuts off.                   *)
(***************************************************************************)
EXTENDS MemoryCommands, Naturals, Sequences, FiniteSets, Functions

CONSTANTS
  Handoffs,
  CommandsOf,      \* the commands of a handoff, in order
  MaxPending, MaxRetained, MaxAttempts,
  MaxJournal,      \* maxJournalBytes, in records
  Refusals,        \* commands the provider does not support or rejects
  Faults           \* bound: crashes, stops, provider calls that throw, writes that
                   \* fail and retentions that run out, all together

ASSUME OutboxAssumption ==
  /\ CommandsOf \in [Handoffs -> Seq(Commands)] /\ Handoffs \cap Commands = {}
  /\ MaxAttempts \in Nat \ {0} /\ MaxJournal \in Nat \ {0} /\ Faults \in Nat

\* the id of a command is a hash of its handoff's id and of a key that is the only
\* one of its kind there
ASSUME CommandIdAssumption ==
  \A g, h \in Handoffs : \A i \in DOMAIN CommandsOf[g], k \in DOMAIN CommandsOf[h] :
    CommandsOf[g][i] = CommandsOf[h][k] => g = h /\ i = k

VARIABLES
  journal,         \* memory-commands.v1.jsonl
  seq,             \* #nextSeq
  mem,             \* #commands
  order,           \* #handoffs, in the order of insertion
  phase,           \* down, refused (start threw), up, draining, aborting (or
                   \* done with draining), or stuck (an abort timed out)
  degraded,        \* #degradedError
  timer,           \* #timer is set
  job,             \* how far #dispatchOne is, per command
  batches,         \* the Promise.all of every round of the timer under way
  round,           \* the one a drain waits for
  admitted,        \* handoffs whose enqueue waits for the writer
  handed,          \* handoffs whose record reached the file, in order
  accepted,        \* handoffs an enqueue was answered for
  settled,         \* their commands with a terminal record since
  expired,         \* handoffs whose terminal records are out of retention
  torn,            \* a write has failed, or found no room
  faults           \* what the bound still allows

vars == <<journal, seq, mem, order, phase, degraded, timer, job, batches,
          round, admitted, handed, accepted, settled, expired, torn, faults>>

Unknown == [status |-> "unknown", attempts |-> 0, due |-> TRUE, failed |-> FALSE]
Fresh == [Unknown EXCEPT !.status = "pending"]
Terminal == {"succeeded", "dead"}

Record(type, of, attempt, n) == [type |-> type, of |-> of, attempt |-> attempt, seq |-> n]

\* what the file and the memory hold: the appends and the rewrite map it
Holding == [journal |-> journal, seq |-> seq, mem |-> mem, order |-> order]
Holds(s) == /\ journal' = s.journal /\ seq' = s.seq
            /\ mem' = s.mem /\ order' = s.order

TypeOK ==
  /\ journal \in Seq([type : {"handoff"}, of : Handoffs, attempt : {0}, seq : Nat]
                     \cup [type : {"dispatch", "retry"} \cup Terminal,
                           of : Commands, attempt : Nat, seq : Nat])
  /\ seq \in Nat /\ order \in Seq(Handoffs)
  /\ mem \in [Commands -> [status : {"unknown", "pending"} \cup Terminal,
                           attempts : Nat, due : BOOLEAN, failed : BOOLEAN]]
  /\ phase \in {"down", "refused", "up", "draining", "aborting", "stuck"}
  /\ degraded \in BOOLEAN /\ timer \in BOOLEAN
  /\ job \in [Commands -> {"idle", "dispatching", "calling",
                           "ok", "error", "refusal"}]
  /\ batches \subseteq (SUBSET Commands) \ {{}} /\ round \subseteq Commands
  /\ settled \subseteq Commands /\ expired \subseteq Handoffs
  /\ admitted \subseteq Handoffs
  /\ handed \in Seq(Handoffs) /\ accepted \subseteq Range(handed)
  /\ torn \in BOOLEAN /\ faults \in Nat

Init ==
  /\ journal = <<>> /\ seq = 1 /\ order = <<>>
  /\ mem = [c \in Commands |-> Unknown]
  /\ phase = "down" /\ degraded = FALSE /\ timer = FALSE
  /\ job = [c \in Commands |-> "idle"] /\ batches = {} /\ round = {}
  /\ admitted = {} /\ handed = <<>> /\ accepted = {} /\ settled = {} /\ expired = {}
  /\ torn = FALSE /\ faults = Faults

Strikes == faults > 0 /\ faults' = faults - 1
Calm == UNCHANGED <<torn, faults>>
WriteFails == Strikes /\ torn' = TRUE

\* the sequences in parts, one behind the other
Joined(parts) ==
  LET upto[i \in 0..Len(parts)] == IF i = 0 THEN <<>> ELSE upto[i - 1] \o parts[i]
  IN  upto[Len(parts)]

Without(s, S) == Joined([i \in 1..Len(s) |-> IF s[i] \in S THEN <<>> ELSE <<s[i]>>])

Holders(h) == Range(CommandsOf[h])
Pending(m) == {c \in Commands : m[c].status = "pending"}
Known(m) == {c \in Commands : m[c].status # "unknown"}
Running == {c \in Commands : job[c] # "idle"}

(***************************************************************************)
(* The journal: what a record does to the memory, and what #replay reads.   *)
(***************************************************************************)
Apply(s, r) ==
  CASE r.type = "handoff" ->
         [s EXCEPT !.order = Append(@, r.of),
                   !.mem = [c \in Commands |-> IF c \in Holders(r.of) THEN Fresh ELSE @[c]]]
    [] r.type = "dispatch" -> [s EXCEPT !.mem[r.of].attempts = r.attempt]
    [] r.type = "retry"    -> [s EXCEPT !.mem[r.of].due = FALSE, !.mem[r.of].failed = TRUE]
    [] OTHER               -> [s EXCEPT !.mem[r.of].status = r.type]

\* where j speaks of command c, before its line n
Lines(j, c, n) ==
  {i \in 1..(n - 1) : j[i].of = c \/ (j[i].type = "handoff" /\ c \in Holders(j[i].of))}

Latest(S) == CHOOSE i \in S : \A k \in S : k <= i

\* a handoff is new; a dispatch is the next attempt of a pending command; what
\* ends an attempt ends the last one
Readable(j) ==
  \A n \in 1..Len(j) :
    /\ j[n].seq = n
    /\ IF j[n].type = "handoff"
       THEN /\ \A i \in 1..(n - 1) : j[i].type = "handoff" => j[i].of # j[n].of
            /\ \A c \in Holders(j[n].of) : Lines(j, c, n) = {}
       ELSE LET lines == Lines(j, j[n].of, n) IN
            /\ lines # {} /\ j[Latest(lines)].type \notin Terminal
            /\ j[n].attempt = j[Latest(lines)].attempt
                              + (IF j[n].type = "dispatch" THEN 1 ELSE 0)

\* a dispatch without an outcome is due at once: its outcome is not known
Recalled(j, c) ==
  LET lines == Lines(j, c, Len(j) + 1)
      last  == j[Latest(lines)]
  IN  IF lines = {} THEN Unknown
      ELSE [status   |-> IF last.type \in Terminal THEN last.type ELSE "pending",
            attempts |-> last.attempt,
            due      |-> last.type # "retry",
            failed   |-> \E i \in lines : j[i].type = "retry"]

HandoffsIn(j) ==
  Joined([i \in 1..Len(j) |-> IF j[i].type = "handoff" THEN <<j[i].of>> ELSE <<>>])

Replayed(j) ==
  [journal |-> j, seq |-> Len(j) + 1, mem |-> [c \in Commands |-> Recalled(j, c)],
   order |-> HandoffsIn(j)]

(***************************************************************************)
(* The rewrite.  It first forgets the handoffs that are out of retention.   *)
(***************************************************************************)
\* mutant: a handoff is forgotten with its first outcome
PrunableSoon(s) == {h \in Range(s.order) : \E c \in Holders(h) : s.mem[c].status \in Terminal}

Prunable(s) ==
  {h \in Range(s.order) \cap expired : \A c \in Holders(h) : s.mem[c].status \in Terminal}

Pruned(s) ==
  LET gone == UNION {Holders(h) : h \in Prunable(s)} IN
  [s EXCEPT !.order = Without(@, Prunable(s)),
            !.mem = [c \in Commands |-> IF c \in gone THEN Unknown ELSE @[c]]]

\* mutant: an unfinished attempt is rewritten without the error before it
SummaryBare(m, c) ==
  (IF m[c].attempts > 0 THEN <<Record("dispatch", c, m[c].attempts, 0)>> ELSE <<>>)
  \o (IF m[c].status \in Terminal THEN <<Record(m[c].status, c, m[c].attempts, 0)>> ELSE <<>>)

\* the records a command is rewritten to, whatever its history was
Summary(m, c) ==
  (IF m[c].attempts > 0 THEN <<Record("dispatch", c, m[c].attempts, 0)>> ELSE <<>>)
  \o CASE m[c].status \in Terminal -> <<Record(m[c].status, c, m[c].attempts, 0)>>
       [] m[c].status = "pending" /\ m[c].attempts > 0 /\ m[c].failed ->
            <<Record("retry", c, m[c].attempts, 0)>>
       [] OTHER -> <<>>

Rewritten(s) ==
  LET OfHandoff(h) == <<Record("handoff", h, 0, 0)>>
                      \o Joined([i \in 1..Len(CommandsOf[h]) |-> Summary(s.mem, CommandsOf[h][i])])
      all == Joined([i \in 1..Len(s.order) |-> OfHandoff(s.order[i])])
  IN  [i \in 1..Len(all) |-> [all[i] EXCEPT !.seq = i]]

Compacted(s) ==
  LET p == Pruned(s) IN
  [p EXCEPT !.journal = Rewritten(p), !.seq = Len(Rewritten(p)) + 1]

\* a rewrite that fails: before the rename, or at the fsync behind it
Miscompacted(s) ==
  LET p == Pruned(s) IN {p, [p EXCEPT !.journal = Rewritten(p)]}

(***************************************************************************)
(* #appendRecord                                                            *)
(***************************************************************************)
Full(s) == Len(s.journal) >= MaxJournal

\* where a record is written: behind a rewrite when the journal is full
Roomy(s) == IF Full(s) THEN Compacted(s) ELSE s

Written(s, type, of, attempt) ==
  LET r == Record(type, of, attempt, s.seq)
      w == [s EXCEPT !.journal = Append(@, r), !.seq = @ + 1]
  IN  Apply(w, r)

\* the append fails, and the record is in the file all the same
AppendLingers(s, type, of, attempt) ==
  LET t == Roomy(s) IN
  /\ ~ Full(t) /\ ~ degraded /\ WriteFails /\ degraded' = TRUE
  /\ Holds([t EXCEPT !.journal = Append(@, Record(type, of, attempt, t.seq))])

\* the record is not in the file: the rewrite fails, it makes no room, an earlier
\* append has failed, or this one does
AppendIsLost(s) ==
  \/ /\ Full(s) /\ WriteFails
     /\ \E t \in Miscompacted(s) : Holds(t)
     /\ UNCHANGED degraded
  \/ LET t == Roomy(s) IN
     /\ Holds(t)
     /\ \/ Full(t) /\ torn' = TRUE /\ UNCHANGED <<faults, degraded>>
        \/ ~ Full(t) /\ degraded /\ Calm /\ UNCHANGED degraded
        \/ ~ Full(t) /\ ~ degraded /\ WriteFails /\ degraded' = TRUE

AppendThrows(s, type, of, attempt) ==
  AppendLingers(s, type, of, attempt) \/ AppendIsLost(s)

AppendWorks(s, type, of, attempt) ==
  /\ ~ degraded
  /\ LET t == Roomy(s) IN ~ Full(t) /\ Holds(Written(t, type, of, attempt))

(***************************************************************************)
(* start, stop, crash                                                       *)
(***************************************************************************)
Loads == Readable(journal) /\ Cardinality(Known(Replayed(journal).mem)) <= MaxRetained

Start ==
  /\ phase = "down"
  /\ LET s == Replayed(journal) IN
     \/ /\ ~ Loads /\ phase' = "refused"
        /\ UNCHANGED <<journal, seq, mem, order, timer>> /\ Calm
     \/ /\ Loads /\ phase' = "up"
        /\ Holds(IF Prunable(s) # {} THEN Compacted(s) ELSE s)
        /\ timer' = (Pending(mem') # {}) /\ Calm
     \/ /\ Loads /\ Prunable(s) # {} /\ WriteFails
        /\ \E m \in Miscompacted(s) : journal' = m.journal
        /\ UNCHANGED <<seq, mem, order, timer, phase>>
  /\ UNCHANGED <<degraded, job, batches, round, admitted, handed, accepted, settled,
                 expired>>

\* the process is gone, and with it everything but the journal
Gone ==
  /\ phase' = "down" /\ degraded' = FALSE /\ timer' = FALSE
  /\ seq' = 1 /\ mem' = [c \in Commands |-> Unknown] /\ order' = <<>>
  /\ batches' = {} /\ round' = {} /\ admitted' = {}
  /\ UNCHANGED <<handed, accepted, settled, expired>>

Up == phase \notin {"down", "refused"}

\* in the midst of a task, it may leave the rewrite without the record
Crash ==
  /\ Up /\ Strikes /\ UNCHANGED torn
  /\ Gone /\ job' = [c \in Commands |-> "idle"]
  /\ journal' \in {journal} \cup {Compacted(s).journal : s \in {t \in {Holding} : Full(t)}}

\* #schedule
Scheduled(p, m) == timer \/ (p = "up" /\ Pending(m) # {})

Stop(mode) ==
  /\ phase = "up" /\ Strikes /\ UNCHANGED torn
  /\ phase' = mode
  /\ timer' = (timer /\ mode = "draining")
  /\ UNCHANGED <<journal, seq, mem, order, degraded, job, batches, round,
                 admitted, handed, accepted, settled, expired>>

\* the caller of a drain cancels it
CancelDrain ==
  /\ phase = "draining" /\ round = {} /\ phase' = "up" /\ timer' = Scheduled("up", mem)
  /\ UNCHANGED <<journal, seq, mem, order, degraded, job, batches, round,
                 admitted, handed, accepted, settled, expired, torn, faults>>

AbortTimesOut ==
  /\ phase = "aborting" /\ Running # {} /\ phase' = "stuck"
  /\ UNCHANGED <<journal, seq, mem, order, degraded, timer, job, batches, round,
                 admitted, handed, accepted, settled, expired, torn, faults>>

\* mutant: a stop does not wait for the calls under way
FinishedAtOnce == Gone /\ UNCHANGED <<journal, job, torn, faults>>

\* #finishStop: nothing runs, the writer's tasks are done, the lock is released
Finished ==
  /\ Running = {} /\ admitted = {}
  /\ Gone /\ UNCHANGED <<journal, job, torn, faults>>

\* A drain has seen nothing pending.  What was admitted before it is written all
\* the same: the rest of the stop is an abort's, with no call to wait for.
DrainEnds ==
  /\ phase = "draining" /\ Pending(mem) = {} /\ round = {}
  /\ phase' = "aborting" /\ timer' = FALSE
  /\ UNCHANGED <<journal, seq, mem, order, degraded, job, batches, round,
                 admitted, handed, accepted, settled, expired, torn, faults>>

FinishStop == phase = "aborting" /\ Finished

\* the host may call stop again when the calls have settled after all
RetryStop == phase = "stuck" /\ Finished

(***************************************************************************)
(* enqueueHandoff                                                           *)
(***************************************************************************)
Rejects(s, h) ==
  \/ Holders(h) \cap Known(s.mem) # {}
  \/ Cardinality(Pending(s.mem)) + Len(CommandsOf[h]) > MaxPending

Retainable(s, h) == Cardinality(Known(s.mem)) + Len(CommandsOf[h]) <= MaxRetained

\* the record of h is in the file
HandedOver(h, answered) ==
  /\ handed' = Append(Without(handed, {h}), h)
  /\ settled' = settled \ Holders(h) /\ expired' = expired \ {h}
  /\ accepted' = IF answered THEN accepted \cup {h} ELSE accepted \ {h}

Admit(h, s) ==
  \/ /\ AppendWorks(s, "handoff", h, 0)
     /\ HandedOver(h, TRUE)
     /\ timer' = Scheduled(phase, mem')
     /\ UNCHANGED <<degraded, torn, faults>>
  \/ AppendLingers(s, "handoff", h, 0) /\ HandedOver(h, FALSE) /\ UNCHANGED timer
  \/ AppendIsLost(s) /\ UNCHANGED <<handed, accepted, settled, expired, timer>>

\* Admission: what is let in here is written although a stop begins meanwhile.
\* What is answered for and in retention would come out as a duplicate again.
Request(h) ==
  /\ phase = "up" /\ ~ degraded /\ h \notin admitted
  /\ h \in Range(order) \cap accepted => h \in expired
  /\ admitted' = admitted \cup {h}
  /\ UNCHANGED <<journal, seq, mem, order, phase, degraded, timer, job, batches,
                 round, handed, accepted, settled, expired, torn, faults>>

\* The writer's task.  A handoff it has already is a duplicate, and answered for.
Enqueue(h) ==
  /\ Up /\ h \in admitted /\ admitted' = admitted \ {h}
  /\ \/ /\ h \in Range(order)
        /\ accepted' = accepted \cup {h}
        /\ UNCHANGED <<journal, seq, mem, order, degraded, torn, faults, handed, settled,
                       expired, timer>>
     \/ /\ h \notin Range(order) /\ Rejects(Holding, h)
        /\ UNCHANGED <<journal, seq, mem, order, degraded, torn, faults, handed, accepted,
                       settled, expired, timer>>
     \/ /\ h \notin Range(order) /\ ~ Rejects(Holding, h)
        /\ IF Retainable(Holding, h) THEN Admit(h, Holding)
           ELSE LET t == Compacted(Holding) IN
                \/ Retainable(t, h) /\ Admit(h, t)
                \/ /\ \/ ~ Retainable(t, h) /\ Holds(t) /\ Calm
                      \/ WriteFails /\ \E m \in Miscompacted(Holding) : Holds(m)
                   /\ UNCHANGED <<degraded, handed, accepted, settled, expired, timer>>
  /\ UNCHANGED <<phase, job, batches, round>>

(***************************************************************************)
(* #runReadyInternal and #dispatchOne                                       *)
(***************************************************************************)
\* the commands of some handoffs, in order
CommandOrder(line) == Joined([i \in 1..Len(line) |-> CommandsOf[line[i]]])

\* mutant: every pending command is ready
HeadsAll == Pending(mem)

\* the first pending command of its scope
Heads ==
  LET line == CommandOrder(order) IN
  {line[i] : i \in {j \in 1..Len(line) :
     /\ mem[line[j]].status = "pending"
     /\ \A k \in 1..(j - 1) :
          mem[line[k]].status = "pending" => ScopeOf[line[k]] # ScopeOf[line[j]]}}

Ready == {c \in Heads : mem[c].due /\ job[c] = "idle"}

Picks ==
  /\ Ready # {}
  /\ job' = [c \in Commands |-> IF c \in Ready THEN "dispatching" ELSE job[c]]
  /\ UNCHANGED <<journal, seq, mem, order, phase, degraded, admitted, handed, accepted,
                 settled, expired, torn, faults>>

\* runReady by the timer; a degraded outbox throws in it
RunReady ==
  /\ phase = "up" /\ timer /\ ~ degraded
  /\ Picks
  /\ timer' = FALSE /\ batches' = batches \cup {Ready} /\ UNCHANGED round

\* a turn of #drainInternal
DrainRound ==
  /\ phase = "draining" /\ round = {}
  /\ Picks
  /\ round' = Ready /\ UNCHANGED <<timer, batches>>

\* a backoff runs out
Elapse(c) ==
  /\ Up /\ mem[c].status = "pending" /\ ~ mem[c].due
  /\ mem' = [mem EXCEPT ![c].due = TRUE]
  /\ UNCHANGED <<journal, seq, order, phase, degraded, timer, job, batches, round,
                 admitted, handed, accepted, settled, expired, torn, faults>>

Expire(h) ==
  /\ h \in Range(handed) \ expired /\ Holders(h) \subseteq settled
  /\ Strikes /\ UNCHANGED torn
  /\ expired' = expired \cup {h}
  /\ UNCHANGED <<journal, seq, mem, order, phase, degraded, timer, job, batches,
                 round, admitted, handed, accepted, settled>>

(***************************************************************************)
(* #dispatchOne is over.  Well: its batch schedules when it was the last.   *)
(* Or it rejects, and the batch with it: nobody schedules after that, but   *)
(* for a drain, which gives up and opens the outbox again.                  *)
(***************************************************************************)
Ends(c) ==
  /\ job' = [job EXCEPT ![c] = "idle"]
  /\ round' = round \ {c}

\* mutant: nobody schedules behind a batch
SucceedsIdle(c) ==
  LET mine == {b \in batches : c \in b} IN
  /\ Ends(c)
  /\ batches' = (batches \ mine) \cup ({b \ {c} : b \in mine} \ {{}})
  /\ UNCHANGED <<timer, phase>>

Succeeds(c) ==
  LET mine == {b \in batches : c \in b}
      rest == {b \ {c} : b \in mine} \ {{}}
  IN  /\ Ends(c)
      /\ batches' = (batches \ mine) \cup rest
      /\ timer' = IF {c} \in batches THEN Scheduled(phase, mem') ELSE timer
      /\ UNCHANGED phase

Rejected(c) ==
  /\ batches' = {b \in batches : c \notin b}
  /\ job' = [job EXCEPT ![c] = "idle"]
  /\ IF c \in round
     THEN /\ round' = {} /\ phase' = "up"
          /\ timer' = Scheduled("up", mem')
     ELSE UNCHANGED <<round, phase, timer>>

\* the dispatch record is in the file before the provider is called
Dispatch(c) ==
  LET attempt == mem[c].attempts + 1 IN
  /\ job[c] = "dispatching"
  /\ \/ /\ AppendWorks(Holding, "dispatch", c, attempt)
        /\ job' = [job EXCEPT ![c] = "calling"]
        /\ UNCHANGED <<phase, timer, batches, round, degraded, torn, faults>>
     \/ AppendThrows(Holding, "dispatch", c, attempt) /\ Rejected(c)
  /\ UNCHANGED <<admitted, handed, accepted, settled, expired>>

\* the provider answers; it may throw, and does when it is aborted
Answer(c, how) ==
  /\ job[c] = "calling"
  /\ \/ how = "ok" /\ c \notin Refusals /\ Calm
     \/ how = "refusal" /\ c \in Refusals /\ Calm
     \/ /\ how = "error"
        /\ IF phase \in {"aborting", "stuck"} THEN Calm ELSE Strikes /\ UNCHANGED torn
  /\ job' = [job EXCEPT ![c] = how]
  /\ UNCHANGED <<journal, seq, mem, order, phase, degraded, timer, batches, round,
                 admitted, handed, accepted, settled, expired>>

Outcome(c) ==
  CASE job[c] = "ok" -> "succeeded"
    [] job[c] = "refusal" \/ (job[c] = "error" /\ mem[c].attempts >= MaxAttempts) -> "dead"
    [] OTHER -> "retry"

\* the records of a command since its last handoff record
Trail(j, c) ==
  LET from == {i \in 1..Len(j) : j[i].type = "handoff" /\ c \in Holders(j[i].of)}
  IN  {"handoff" : f \in from}
      \cup {j[i].type : i \in {k \in 1..Len(j) : j[k].of = c /\ \A f \in from : f < k}}

Finish(c) ==
  /\ job[c] \in {"ok", "error", "refusal"}
  /\ \/ /\ AppendWorks(Holding, Outcome(c), c, mem[c].attempts)
        /\ Succeeds(c) /\ UNCHANGED <<degraded, torn, faults>>
     \/ /\ AppendThrows(Holding, Outcome(c), c, mem[c].attempts)
        /\ Rejected(c)
  /\ settled' = settled \cup {d \in {c} : Trail(journal', d) \cap Terminal # {}}
  /\ UNCHANGED <<admitted, handed, accepted, expired>>

Next ==
  \/ Start \/ Crash \/ CancelDrain \/ AbortTimesOut
  \/ DrainEnds \/ FinishStop \/ RetryStop
  \/ RunReady \/ DrainRound
  \/ \E mode \in {"draining", "aborting"} : Stop(mode)
  \/ \E h \in Handoffs : Request(h) \/ Enqueue(h) \/ Expire(h)
  \/ \E c \in Commands :
       \/ Elapse(c) \/ Dispatch(c) \/ Finish(c)
       \/ \E how \in {"ok", "error", "refusal"} : Answer(c, how)

Spec == Init /\ [][Next]_vars

\* The host, the clock, the event loop and the provider do not all stand still
\* while one of them has a step; no stop, no crash and no failure is owed.
Work ==
  \/ Start \/ RunReady \/ DrainRound \/ DrainEnds \/ FinishStop
  \/ \E c \in Commands :
       Elapse(c) \/ Dispatch(c) \/ Answer(c, "ok") \/ Answer(c, "refusal") \/ Finish(c)

\* when Work is enabled
Busy ==
  \/ phase = "down" \/ Running # {} \/ (phase = "aborting" /\ admitted = {})
  \/ Up /\ \E c \in Pending(mem) : ~ mem[c].due
  \/ phase = "up" /\ timer /\ ~ degraded /\ Ready # {}
  \/ phase = "draining" /\ (Ready # {} \/ Pending(mem) = {})

\* weak fairness of Work; no enqueue waits for the writer for ever
Fairness ==
  /\ []<>(~ Busy) \/ []<><<Work>>_vars
  /\ \A h \in Handoffs : []<>(h \notin admitted)

FairSpec == Spec /\ Fairness

(***************************************************************************)
(* Properties                                                               *)
(***************************************************************************)
\* What enqueueHandoff has answered for is in the file until it has an outcome:
\* through crashes, failed appends, rewrites and rewrites that fail, every
\* accepted command without one is in the journal, and not as a finished one.
AcceptedIsKept ==
  \A h \in accepted : \A c \in Holders(h) \ settled :
    "handoff" \in Trail(journal, c) /\ Trail(journal, c) \cap Terminal = {}

\* what others of its scope may not overtake: an enqueue that threw may have left
\* its record in the file, and owes nothing once a rewrite or a crash has lost it
Owed == UNION {Holders(h) : h \in accepted \cup Range(order)}

\* Within a scope commands reach the provider in the order they were accepted,
\* each after its predecessor has its outcome, also when a crash, a retry or a
\* rewrite lies between them.
ScopeOrder ==
  LET line == CommandOrder(handed) IN
  \A i, j \in 1..Len(line) :
    i < j /\ ScopeOf[line[i]] = ScopeOf[line[j]] /\ job[line[j]] = "calling"
      /\ line[i] \in Owed
      => line[i] \in settled

\* The scheduler is a projection of the journal: unless a write has failed,
\* reading the file back gives the memory as it is, but for the backoffs (and
\* for the journals a start refuses, which OwnJournalIsRead is about).
MemoryIsJournal ==
  LET r == Replayed(journal) IN
  Up /\ ~ torn /\ Readable(journal)
    => /\ r.order = order /\ r.seq = seq
       /\ \A c \in Commands : [r.mem[c] EXCEPT !.due = TRUE] = [mem[c] EXCEPT !.due = TRUE]

\* What the next start will read is what this one knows.
JournalIsKnown == TypeOK /\ MemoryIsJournal

\* A stop that returns leaves no call at the provider behind it, whoever started
\* it: the lock is released, and the next owner may write.
ReleasedIsQuiet == ~ Up => Running = {}

\* Every accepted command comes to an outcome and stays there, although the
\* process crashes, is stopped and started, and calls fail; unless a write has
\* failed, the journal is refused, or nobody has retried a stop that timed out.
AcceptedIsSettled ==
  <>[](\/ \A h \in accepted : Holders(h) \subseteq settled
       \/ torn \/ phase \in {"refused", "stuck"})

\* The journal is the crash authority: a start can read what the outbox has
\* written, as long as no write has failed.
OwnJournalIsRead == phase = "refused" => torn
=============================================================================
