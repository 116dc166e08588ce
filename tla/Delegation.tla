----------------------------- MODULE Delegation -----------------------------
(***************************************************************************)
(* Work that one agent of a session hands to another, and the callback that *)
(* tells the delegator about its end (delegate_to_subagent.ts, session.ts,  *)
(* kernel-turn-executor.ts).  The tool registers the delegation before it   *)
(* sends the task; the end of the turn that names it, the rejection of a    *)
(* stopped task or the removal of the target takes it out again.            *)
(*                                                                          *)
(* A controller is reduced to its queue, its batch and the signal of the    *)
(* turn in progress (TurnController has the whole of it), the supervisor to *)
(* its gate and to the way of an ephemeral child out of the tree            *)
(* (Supervisor has the whole of it).  Delegation d, when it goes to a       *)
(* template, spawns the child that is also called d.                        *)
(***************************************************************************)
EXTENDS Naturals, FiniteSets, Sequences, SequencesExt

CONSTANTS
  Residents,     \* the resident agents
  Delegations,   \* the delegations that can be made
  None,          \* no delegation
  MaxSlots,      \* delegations a session may have (8)
  Capacity,      \* inputs a controller queues (MAX_QUEUED_TURNS)
  Addressed,     \* bound: the agents the user writes to
  MaxUser,       \* bound: messages of the user
  MaxTroubles    \* bound: stops, interrupts, cancellations, gates, failures

ASSUME DelegationAssumption ==
  /\ Residents \cap Delegations = {} /\ None \notin Delegations
  /\ IsFiniteSet(Delegations)
  /\ Addressed \subseteq Residents \cup Delegations
  /\ {MaxSlots, Capacity} \subseteq Nat \ {0} /\ {MaxUser, MaxTroubles} \subseteq Nat

VARIABLES
  live,      \* the agents in the runtime tree
  closing,   \* those that were cancelled or have ended: they take no turns
  disposed,  \* those whose controller is disposed
  queue, batch, phase, aborted,   \* of every agent's controller
  entry,     \* Session.delegations, by the address of the target
  from,      \* the delegator
  silent,    \* the delegations with callbackHandoff "silent"
  gate,      \* "open", or what keeps the supervisor from accepting turns
  stage,     \* of the gate: whom it waits for
  fate,      \* history: what became of the task itself
  told,      \* history: the callbacks, each with verdict and handoff
  halted,    \* history: delegations that a stop of the user reached
  stopped,   \* history: everything was stopped and the user has not spoken since
  users, troubles

agents == <<live, closing, disposed>>
turns == <<queue, batch, phase, aborted>>
book == <<entry, from, silent>>
hold == <<gate, stage>>
seen == <<halted, stopped>>
bounds == <<users, troubles>>
vars == <<agents, turns, book, hold, fate, told, seen, bounds>>

Agents == Residents \cup Delegations
Verdicts == {"done", "failed", "cancelled"}
Fates == Verdicts \cup
  {"new", "reserved", "spawned", "refused", "sent", "merged", "unrun", "dropped", "cut"}
Task(d) == [kind |-> "task", of |-> d]
Other(kind) == [kind |-> kind, of |-> None]   \* kind "user", "note" or "quiet"
Items == {Task(d) : d \in Delegations} \cup {Other(k) : k \in {"user", "note", "quiet"}}

TypeOK ==
  /\ live \subseteq Agents /\ closing \subseteq Agents /\ disposed \subseteq Agents
  /\ queue \in [Agents -> Seq(Items)] /\ batch \in [Agents -> Seq(Items)]
  /\ phase \in [Agents -> {"idle", "starting", "turn", "resolving", "rejecting"}]
  /\ aborted \in [Agents -> BOOLEAN]
  /\ entry \in [Agents -> Delegations \cup {None}]
  /\ from \in [Delegations -> Agents \cup {None}]
  /\ silent \subseteq Delegations /\ halted \subseteq Delegations
  /\ gate \in {"open", "checkpoint"} \cup Residents /\ stage \in {"children", "residents"}
  /\ fate \in [Delegations -> Fates]
  /\ told \in [Delegations -> Seq(Verdicts \X {"turn", "silent"})]
  /\ stopped \in BOOLEAN /\ users \in Nat /\ troubles \in Nat

(***************************************************************************)
(* The tree                                                                 *)
(***************************************************************************)
Children(a) == {c \in Delegations \cap live : from[c] = a}
Ephemerals == Delegations \cap live

\* S and everything Step leads to from it: the least set that has both.
Reach(S, Step(_)) ==
  {a \in Agents : \A C \in SUBSET Agents :
                    S \subseteq C /\ (\A c \in C : Step(c) \subseteq C) => a \in C}

Subtree(a) == Reach({a}, Children)
IsAncestor(b, a) == b # a /\ a \in Subtree(b)

\* acceptTurn of supervisor and controller: no throw.
Takes(a) == gate = "open" /\ a \in live \ (closing \cup disposed)

(***************************************************************************)
(* Queues and callbacks                                                     *)
(***************************************************************************)
Wakes(q) == \E i \in DOMAIN q : q[i].kind # "quiet"
Tasks(q) == {i.of : i \in {j \in ToSet(q) : j.kind = "task"}}

\* The queue is full: the oldest input is rejected.
Fit(q) == IF Len(q) > Capacity THEN SubSeq(q, Len(q) - Capacity + 1, Len(q)) ELSE q

\* A merged batch carries the identity of its last input only.
Named(a) ==
  {d \in Delegations : \E i \in DOMAIN batch[a] :
     batch[a][i] = Task(d) /\ \A j \in DOMAIN batch[a] : j > i => batch[a][j].kind = "quiet"}

\* mutant: whatever turn ends at the address
AnsweredByAddress(a) == {d \in Delegations : entry[a] = d}

\* the delegations an end of the turn is matched with
Answered(a) == {d \in Named(a) : entry[a] = d}

Mark(f, ds, value) == [d \in Delegations |-> IF d \in ds THEN value ELSE f[d]]

\* the messages about xs that the controller of a takes
Posted(a, kind, xs) ==
  [i \in 1..Cardinality({d \in xs : from[d] = a /\ Takes(a)}) |-> Other(kind)]

Handoff(d, quiet) == IF d \in quiet THEN "silent" ELSE "turn"

\* The delegations ds leave the map, and their delegators get the message if
\* their controllers take it; q is the queues otherwise, f the fates, and quiet
\* the delegations that are marked.
Callback(ds, verdict, q, f, quiet) ==
  LET full == [a \in Agents |->
                 q[a] \o Posted(a, "note", ds \ quiet) \o Posted(a, "quiet", ds \cap quiet)]
  IN /\ entry' = [a \in Agents |-> IF entry[a] \in ds THEN None ELSE entry[a]]
     /\ silent' = quiet \ ds
     /\ told' = [d \in Delegations |->
                   IF d \in ds THEN Append(told[d], <<verdict, Handoff(d, quiet)>>) ELSE told[d]]
     /\ queue' = [a \in Agents |-> Fit(full[a])]
     /\ fate' = Mark(f, UNION {Tasks(full[a]) \ Tasks(Fit(full[a])) : a \in Agents}, "dropped")

\* mutant: a rejected task is only logged
ReleasedNever(ds, marked) == {}

\* the rejected tasks whose delegation was marked by a stop: no turn end will come
\* for them
Released(ds, marked) == {d \in ds \cap marked : \E a \in Agents : entry[a] = d}
Rejected(ds, marked) == Mark(Mark(fate, ds, "dropped"), ds \cap marked, "cut")

\* The turns of T are aborted; once its end is published, nobody asks any more.
Abort(T) ==
  aborted' = [a \in Agents |-> aborted[a] \/ (a \in T /\ phase[a] \in {"starting", "turn"})]

\* The turns of T are aborted and what is queued for them is rejected.
Clear(T) ==
  LET lost == UNION {Tasks(queue[a]) : a \in T} IN
  /\ Abort(T)
  /\ Callback(Released(lost, silent), "cancelled",
              [a \in Agents |-> IF a \in T THEN <<>> ELSE queue[a]],
              Rejected(lost, silent), silent)

Trouble == troubles < MaxTroubles /\ troubles' = troubles + 1

Init ==
  /\ live = Residents /\ closing = {} /\ disposed = {}
  /\ queue = [a \in Agents |-> <<>>] /\ batch = queue
  /\ phase = [a \in Agents |-> "idle"] /\ aborted = [a \in Agents |-> FALSE]
  /\ entry = [a \in Agents |-> None]
  /\ from = [d \in Delegations |-> None] /\ silent = {}
  /\ gate = "open" /\ stage = "children"
  /\ fate = [d \in Delegations |-> "new"] /\ told = [d \in Delegations |-> <<>>]
  /\ halted = {} /\ stopped = FALSE /\ users = 0 /\ troubles = 0

(***************************************************************************)
(* Turns                                                                    *)
(***************************************************************************)
\* An input is queued; f is the fates otherwise.
Put(a, item, f) ==
  LET full == Append(queue[a], item) IN
  /\ queue' = [queue EXCEPT ![a] = Fit(full)]
  /\ fate' = Mark(f, Tasks(full) \ Tasks(Fit(full)), "dropped")

UserSend(a) ==
  /\ users < MaxUser /\ a \in Addressed /\ Takes(a)
  /\ Put(a, Other("user"), fate)
  /\ users' = users + 1 /\ stopped' = FALSE
  /\ UNCHANGED <<agents, batch, phase, aborted, book, hold, told, halted, troubles>>

\* The coalescing window is over: everything that is queued becomes one batch.
Batch(a) ==
  /\ a \in live \ disposed /\ phase[a] = "idle" /\ Wakes(queue[a])
  /\ batch' = [batch EXCEPT ![a] = queue[a]]
  /\ queue' = [queue EXCEPT ![a] = <<>>]
  /\ phase' = [phase EXCEPT ![a] = "starting"]
  /\ UNCHANGED <<agents, aborted, book, hold, fate, told, seen, bounds>>

\* A resident works under the permissions of a delegator that must still be there.
ParentGone(a) == a \in Residents /\ \E d \in Answered(a) : from[d] \notin live

\* The host cannot be set up: a turn end is published in its name.
InitFails(a) ==
  /\ Trouble /\ phase[a] = "starting"
  /\ phase' = [phase EXCEPT ![a] = "rejecting"]
  /\ aborted' = [aborted EXCEPT ![a] = FALSE]
  /\ Callback(Answered(a), "failed", queue,
              Mark(Mark(fate, Tasks(batch[a]), "merged"), Named(a), "failed"), silent)
  /\ UNCHANGED <<agents, batch, from, hold, seen, users>>

\* The turn is refused before it begins, and nobody publishes its end: the
\* delegator is gone, it was aborted, or a compaction is running.
TurnRefused(a) ==
  /\ phase[a] = "starting"
  /\ \/ (ParentGone(a) \/ aborted[a]) /\ UNCHANGED troubles
     \/ Trouble
  /\ phase' = [phase EXCEPT ![a] = "rejecting"]
  /\ aborted' = [aborted EXCEPT ![a] = FALSE]
  /\ fate' = Mark(fate, Tasks(batch[a]), "unrun")
  /\ UNCHANGED <<agents, queue, batch, book, hold, told, seen, users>>

TurnBegins(a) ==
  /\ phase[a] = "starting" /\ ~ParentGone(a) /\ ~aborted[a]
  /\ phase' = [phase EXCEPT ![a] = "turn"]
  /\ UNCHANGED <<agents, queue, batch, aborted, book, hold, fate, told, seen, bounds>>

\* The host publishes the end of the turn, and the observer matches it; the
\* controller settles the batch when the events are flushed.
TurnEnds(a, completed) ==
  LET verdict == IF aborted[a] THEN "cancelled" ELSE IF completed THEN "done" ELSE "failed" IN
  /\ phase[a] = "turn"
  /\ IF completed \/ aborted[a] THEN UNCHANGED troubles ELSE Trouble
  /\ phase' = [phase EXCEPT ![a] = IF completed THEN "resolving" ELSE "rejecting"]
  /\ aborted' = [aborted EXCEPT ![a] = FALSE]
  /\ Callback(Answered(a), verdict, queue,
              Mark(Mark(fate, Tasks(batch[a]), "merged"), Named(a), verdict), silent)
  /\ UNCHANGED <<agents, batch, from, hold, seen, users>>

\* The promises of the batch are settled; an ephemeral agent has had its turn.
Settle(a) ==
  /\ phase[a] \in {"resolving", "rejecting"}
  /\ Callback(IF phase[a] = "rejecting" THEN Released(Tasks(batch[a]), silent) ELSE {},
              "cancelled", queue, fate, silent)
  /\ phase' = [phase EXCEPT ![a] = "idle"]
  /\ batch' = [batch EXCEPT ![a] = <<>>]
  /\ closing' = closing \cup ({a} \cap Delegations)
  /\ UNCHANGED <<live, disposed, aborted, from, hold, seen, bounds>>

(***************************************************************************)
(* delegate_to_subagent                                                     *)
(***************************************************************************)
Pending == {d \in Delegations : \E a \in Agents : entry[a] = d}
Reserved == {d \in Delegations : fate[d] \in {"reserved", "spawned"}}

\* A live child and the delegation it works on are one slot.
Slots ==
  Cardinality(Ephemerals) + Cardinality(Reserved)
    + Cardinality({a \in Agents \ Ephemerals : entry[a] # None})

MayDelegate(d, a) == fate[d] = "new" /\ phase[a] = "turn" /\ ~aborted[a]

\* delegationGuard.
Blocked(a, b) ==
  \/ entry[b] # None
  \/ Cardinality(Pending \cup Reserved) >= MaxSlots
  \/ IsAncestor(b, a)

\* To an agent that is there: guard, registration and delivery in one step.  A
\* refused delivery is rolled back.
ToTeammate(d, a, b) ==
  /\ MayDelegate(d, a) /\ b \in live \ {a} /\ ~Blocked(a, b)
  /\ from' = [from EXCEPT ![d] = a]
  /\ IF Takes(b)
     THEN /\ entry' = [entry EXCEPT ![b] = d]
          /\ Put(b, Task(d), Mark(fate, {d}, "sent"))
     ELSE fate' = Mark(fate, {d}, "refused") /\ UNCHANGED <<entry, queue>>
  /\ UNCHANGED <<agents, batch, phase, aborted, silent, hold, told, seen, bounds>>

\* To a template: the slot is reserved before the first await.
Reserve(d, a) ==
  /\ MayDelegate(d, a) /\ Slots < MaxSlots
  /\ from' = [from EXCEPT ![d] = a]
  /\ fate' = Mark(fate, {d}, "reserved")
  /\ UNCHANGED <<agents, turns, entry, silent, hold, told, seen, bounds>>

Spawn(d) ==
  /\ fate[d] = "reserved" /\ Takes(from[d])
  /\ live' = live \cup {d}
  /\ fate' = Mark(fate, {d}, "spawned")
  /\ UNCHANGED <<closing, disposed, turns, book, hold, told, seen, bounds>>

SpawnFails(d) ==
  /\ fate[d] = "reserved" /\ IF Takes(from[d]) THEN Trouble ELSE UNCHANGED troubles
  /\ fate' = Mark(fate, {d}, "refused")
  /\ UNCHANGED <<agents, turns, book, hold, told, seen, users>>

\* The tool goes on after createChild, whatever happened meanwhile: a new record
\* takes the place of the reservation, and the task is sent.
Deliver(d) ==
  /\ fate[d] = "spawned"
  /\ silent' = silent \ {d}
  /\ IF Takes(d)
     THEN /\ entry' = [entry EXCEPT ![d] = d]
          /\ Put(d, Task(d), Mark(fate, {d}, "sent"))
     ELSE fate' = Mark(fate, {d}, "refused") /\ UNCHANGED <<entry, queue>>
  /\ UNCHANGED <<agents, batch, phase, aborted, from, hold, told, seen, bounds>>

(***************************************************************************)
(* Stop and interrupt                                                       *)
(***************************************************************************)
\* Whom a delegated to, in the tree and by the map alone.
Delegates(a) == {b \in live : entry[b] # None /\ from[entry[b]] = a}
Below(a) == {b \in Agents : entry[b] # None /\ from[entry[b]] = a}

\* Who is reached over the edges of the delegations, until nothing changes.
Targets(S) == Reach(S, Delegates)

\* mutant: only what the stopped agents have delegated
SilencedOwned(T) == {d \in Pending \cup Reserved : from[d] \in T \cap live}

\* what a stop marks
Silenced(T) ==
  {d \in Pending : from[d] \in T \cap live \/ \E b \in T : entry[b] = d}
    \cup {d \in Reserved : from[d] \in T \cap live}

\* how many members of S there are up to i
Rank(i, S) == Cardinality({k \in S : k <= i})

\* Controller.stopTurn: unstarted tasks go, messages of peers wake nobody.
Calmed(q) ==
  LET kept == {i \in DOMAIN q : q[i].kind # "task"}
      Nth(n) == CHOOSE i \in kept : Rank(i, kept) = n
  IN [n \in 1..Cardinality(kept) |->
        IF q[Nth(n)].kind = "note" THEN Other("quiet") ELSE q[Nth(n)]]

\* The user stops one agent or all: every callback is marked before anything is
\* aborted.
Stop(S) ==
  LET T == Targets(S)
      quiet == silent \cup Silenced(T)
      lost == UNION {Tasks(queue[b]) : b \in T}
  IN /\ Trouble
     /\ Abort(T)
     /\ Callback(Released(lost, quiet), "cancelled",
                 [b \in Agents |-> IF b \in T THEN Calmed(queue[b]) ELSE queue[b]],
                 Rejected(lost, quiet), quiet)
     /\ halted' = halted \cup
                    {d \in Pending : \E b \in Reach(S, Below) : entry[b] = d \/ from[d] = b}
     /\ stopped' = (S = live /\ Reserved = {}
                      /\ \A b \in live : Other("user") \notin ToSet(queue[b]))
     /\ UNCHANGED <<agents, batch, phase, from, hold, users>>

\* The turn in progress, or else what waits for the window to end.
Interrupt(a) ==
  /\ Trouble /\ a \in live \ disposed
  /\ \/ phase[a] \in {"starting", "turn"} /\ Abort({a}) /\ UNCHANGED <<queue, book, fate, told>>
     \/ phase[a] = "idle" /\ Wakes(queue[a]) /\ Clear({a}) /\ UNCHANGED from
  /\ UNCHANGED <<agents, batch, phase, hold, seen, users>>

(***************************************************************************)
(* The way out                                                              *)
(***************************************************************************)
\* cancel of an ephemeral agent takes its subtree with it.
Cancel(c) ==
  /\ Trouble /\ c \in Ephemerals
  /\ closing' = closing \cup Subtree(c)
  /\ Clear(Subtree(c))
  /\ UNCHANGED <<live, disposed, batch, phase, from, hold, seen, users>>

Dispose(c) ==
  /\ c \in (Ephemerals \cap closing) \ disposed /\ Children(c) = {}
  /\ disposed' = disposed \cup {c}
  /\ Clear({c})
  /\ UNCHANGED <<live, closing, batch, phase, from, hold, seen, bounds>>

\* runtime:instance-removed.
Gone(c) ==
  /\ c \in Ephemerals \cap disposed /\ phase[c] = "idle"
  /\ live' = live \ {c}
  /\ Callback({entry[c]} \ {None}, "cancelled", queue, fate, silent)
  /\ UNCHANGED <<closing, disposed, batch, phase, aborted, from, hold, seen, bounds>>

\* The supervisor's gate, for a checkpoint or for the deletion of a resident:
\* first the ephemeral agents, then the residents, then the change itself.
Concerned == IF gate = "checkpoint" THEN live ELSE Subtree(gate)

CloseGate(kind) ==
  LET E == Delegations \cap (IF kind = "checkpoint" THEN live ELSE Subtree(kind)) IN
  /\ Trouble /\ gate = "open" /\ kind \in {"checkpoint"} \cup (Residents \cap live)
  /\ gate' = kind /\ stage' = "children"
  /\ closing' = closing \cup E
  /\ Clear(E)
  /\ UNCHANGED <<live, disposed, batch, phase, from, seen, users>>

ClearResidents ==
  /\ gate # "open" /\ stage = "children" /\ Concerned \cap Delegations = {}
  /\ stage' = "residents"
  /\ disposed' = IF gate = "checkpoint" THEN disposed ELSE disposed \cup {gate}
  /\ Clear(Concerned)
  /\ UNCHANGED <<live, closing, batch, phase, from, gate, seen, bounds>>

OpenGate ==
  /\ gate # "open" /\ stage = "residents"
  /\ \A a \in Concerned : phase[a] = "idle" /\ (a \in disposed \/ ~ Wakes(queue[a]))
  /\ gate' = "open"
  /\ live' = IF gate = "checkpoint" THEN live ELSE live \ Concerned
  /\ Callback({entry[a] : a \in live \ live'} \ {None}, "cancelled", queue, fate, silent)
  /\ UNCHANGED <<closing, disposed, batch, phase, aborted, from, stage, seen, bounds>>

Next ==
  \/ \E a \in Agents :
       \/ UserSend(a) \/ Batch(a) \/ InitFails(a) \/ TurnRefused(a) \/ TurnBegins(a)
       \/ \E completed \in BOOLEAN : TurnEnds(a, completed)
       \/ Settle(a) \/ Interrupt(a) \/ Cancel(a) \/ Dispose(a) \/ Gone(a)
       \/ \E d \in Delegations : Reserve(d, a) \/ \E b \in Agents : ToTeammate(d, a, b)
       \/ a \in live /\ Stop({a})
       \/ CloseGate(a)
  \/ \E d \in Delegations : Spawn(d) \/ SpawnFails(d) \/ Deliver(d)
  \/ Stop(live) \/ CloseGate("checkpoint") \/ ClearResidents \/ OpenGate

Spec == Init /\ [][Next]_vars

\* when one of the steps that happen by themselves is enabled: a queue is pumped, a
\* turn begins or ends, what was flushed or disposed is finished, or the tool that
\* waits for its child goes on
Moving ==
  \/ \E a \in Agents :
       \/ phase[a] # "idle"                           \* TurnBegins, ..., Settle
       \/ a \in live \ disposed /\ Wakes(queue[a])    \* Batch
       \/ a \in Ephemerals \cap closing /\ Children(a) = {}   \* Dispose
       \/ a \in Ephemerals \cap disposed              \* Gone
  \/ \E d \in Delegations : fate[d] = "spawned"      \* Deliver

(***************************************************************************)
(* Safety                                                                   *)
(***************************************************************************)
\* A callback is the truth about the task it names, and the only one: however
\* turns end, tasks are rejected and targets removed, nothing that belongs to
\* another turn of the same address is taken for the end of this task
\* (_bindDelegationCallback, finishDelegation).
CallbackIsTrue ==
  \A d \in Delegations :
    /\ Len(told[d]) <= 1
    /\ \A i \in DOMAIN told[d] :
         LET verdict == told[d][i][1] IN
           IF verdict = "cancelled" THEN fate[d] \in {"cancelled", "merged", "unrun", "dropped", "cut"}
           ELSE fate[d] = verdict

\* A stop of the user holds: what it reached over the delegations calls back
\* without waking anybody, and after a stop of everything no turn runs and none
\* is about to, until the user speaks again (stopRuntime, stopTurn).  A child
\* that was being created is not reached.
StopSilences ==
  /\ \A d \in halted : \A i \in DOMAIN told[d] : told[d][i][2] = "silent"
  /\ stopped =>
       \A a \in Agents :
         /\ phase[a] \in {"starting", "turn"} => aborted[a]
         /\ ~ Wakes(queue[a])

\* The task was rejected without its delegation having been marked, or a
\* resident was to work on it and published no end that names it.
Stranded(d) ==
  fate[d] = "dropped" \/ (fate[d] \in {"merged", "unrun"} /\ \E a \in Residents : entry[a] = d)

\* A child whose task was refused or rejected before its first turn: it has no
\* end to be released for, and its ancestors wait for it.
Unstarted == {c \in Ephemerals \ closing : fate[c] \in {"refused", "dropped", "cut"}}

\* No target stays busy: when nothing moves any more, every delegation has been
\* called back, except where its task was stranded in one of these ways or a
\* child below the target never started (_bindDelegationCallback; the catch of
\* sendToAgent; maybeRelease).
NothingForgotten ==
  \A d \in Pending :
    \/ Stranded(d) \/ Moving
    \/ \E a \in Ephemerals : entry[a] = d /\ Subtree(a) \cap Unstarted # {}
=============================================================================
