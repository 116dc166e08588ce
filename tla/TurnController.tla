--------------------------- MODULE TurnController ---------------------------
(***************************************************************************)
(* AgentRuntimeController (src/src/runtime/agent-runtime-controller.ts):   *)
(* one agent instance's inbox, its active turn, its abort signal, and the  *)
(* pump that turns queued inputs into executor calls.                      *)
(*                                                                         *)
(* JavaScript is single-threaded, so everything a handler does before its  *)
(* first await is one action here, the synchronous prefix of the pump that *)
(* acceptTurn starts included.  The pump suspends in three places only,    *)
(* and each one is a value of `pump':                                      *)
(*    "coalescing"  waiting for the coalesce timer or for a wake           *)
(*    "executing"   waiting for the executor's promise                     *)
(*    "ending"      the loop has returned (processing is false) but the    *)
(*                  .finally callback has not yet cleared pumpTask         *)
(* "woken" is the microtask gap between the wake and the resumption.       *)
(*                                                                         *)
(* A turn is named by its order of arrival.  The queue array is only ever  *)
(* pushed to, shifted, spliced or rewritten in place, so it is always in   *)
(* arrival order and the model keeps it as a set of arrival numbers.       *)
(***************************************************************************)
EXTENDS Naturals, FiniteSets

CONSTANTS
  MaxTurns,          \* bound: how many turns are ever offered
  MAX_QUEUED_TURNS,  \* capacity of the queue (50 in the code)
  Inputs,            \* the inbound events that may arrive, see InputType
  CoalesceMs,        \* values runtimeConfig may give coalesceMs
  MaxRevision        \* bound: the revision a snapshot of either binding reaches

Handoffs == {"silent", "passive", "turn", "innerLoop", "steer"}

\* What the controller tells inputs apart by: handoff, priority 0 (`urgent'),
\* event type, source "agent", the durability class, and whether the host
\* offered it as feedback.
InputType ==
  [handoff : Handoffs, urgent : BOOLEAN,
   type : {"message", "user_input", "agent_command"},
   agent : BOOLEAN, required : BOOLEAN, feedback : BOOLEAN]

NoInput == CHOOSE i \in InputType : TRUE   \* of turns not yet offered

ASSUME MaxTurnsAssumption == MaxTurns \in Nat
ASSUME QueueAssumption == MAX_QUEUED_TURNS \in Nat \ {0}
ASSUME InputsAssumption == Inputs \subseteq InputType
ASSUME CoalesceAssumption == CoalesceMs \subseteq Nat /\ CoalesceMs # {}
ASSUME RevisionAssumption == MaxRevision \in Nat \ {0}

Ids == 1 .. MaxTurns
Revisions == 1 .. MaxRevision
NoSnapshot == 0                       \* pendingSnapshot === null
Bindings == {"runtimeConfig", "execution"}

VARIABLES
  lifetime,        \* instance.lifetime, fixed at registration
  state,           \* instance.state
  accepted,        \* how many turns have been offered and not refused
  input,           \* input[t]: the queued input; stopTurn may rewrite it
  promise,         \* promise[t]: the fate of the promise acceptTurn returned
  queue,           \* this.queue, as a set of arrival numbers
  batch,           \* `turns' in pump(): what the executor is working on
  pump,            \* where pumpTask stands, see above
  aborted,         \* currentAbort.signal.aborted
  disposed,        \* this.disposed
  cancelNotified,  \* this.cancelNotified
  terminal,        \* ManagedRecord.terminal, set by the supervisor's listener
  bind,            \* RuntimeConfigBinding and AgentExecutionBinding
  held             \* history: peer turns that sat in the queue at a stop

vars == <<lifetime, state, accepted, input, promise, queue, batch, pump,
          aborted, disposed, cancelNotified, terminal, bind, held>>

States == {"registered", "idle", "running", "draining", "failed",
           "cancelled", "disposed"}

\* states in which acceptTurn throws
Refusing == {"cancelled", "failed", "draining"}

-----------------------------------------------------------------------------
(* Queue helpers                                                           *)

FirstOf(S) == {t \in S : \A u \in S : t <= u}

\* the turns of q that may start a batch; inp gives the inputs
Loud(q, inp) == {t \in q : inp[t].handoff # "silent"}

Commands(q, inp) == {t \in q : inp[t].type = "agent_command"}

\* queue.shift() when a push overfills the queue
Overflow(q) == IF Cardinality(q) > MAX_QUEUED_TURNS THEN FirstOf(q) ELSE {}

\* the next thing the pump hands to the executor: the first command alone, or
\* everything that is queued
NextBatch(q, inp) ==
  IF Commands(q, inp) # {} THEN FirstOf(Commands(q, inp)) ELSE q

\* only a plain, non-urgent, non-steering trigger waits for company
MayCoalesce(q, inp) ==
  \E t \in FirstOf(Loud(q, inp)) :
    /\ inp[t].handoff # "steer"
    /\ inp[t].type # "agent_command"
    /\ ~inp[t].urgent

\* mutant: the reject loop stops after one turn
RejectFirst(S) ==
  [t \in Ids |-> IF t \in FirstOf(S) THEN "rejected" ELSE promise[t]]

Reject(S) == [t \in Ids |-> IF t \in S THEN "rejected" ELSE promise[t]]

-----------------------------------------------------------------------------
(* Config snapshots                                                        *)

\* mutant: next() forgets `?? currentSnapshot'
UpcomingPendingOnly(b) == b.pending

Upcoming(b) == IF b.pending # NoSnapshot THEN b.pending ELSE b.current

\* reconcileAtTurnBoundary; pinForTurn does the same and returns the result
Reconcile(b) == [b EXCEPT !.current = Upcoming(b), !.pending = NoSnapshot]
Pin(b) == [Reconcile(b) EXCEPT !.pinned = Upcoming(b)]

Reconciled == [k \in Bindings |-> Reconcile(bind[k])]
Pinned(bd) == [k \in Bindings |-> Pin(bd[k])]

-----------------------------------------------------------------------------
(* The pump's synchronous stretch.  `q', `st' and `bd' are the queue, the  *)
(* instance state and the bindings the calling handler has produced.       *)

ReturnFromLoop(q, st, bd) ==
  /\ pump' = "ending"
  /\ queue' = q
  /\ batch' = {}
  /\ aborted' = FALSE
  /\ state' = st
  /\ bind' = bd

\* mutant: the batch is copied out of the queue, not spliced
StartBatchCopy(q, bd, inp) ==
  /\ pump' = "executing"
  /\ batch' = NextBatch(q, inp)
  /\ queue' = q
  /\ aborted' = FALSE
  /\ state' = "running"
  /\ bind' = Pinned(bd)

StartBatch(q, bd, inp) ==
  /\ pump' = "executing"
  /\ batch' = NextBatch(q, inp)
  /\ queue' = q \ NextBatch(q, inp)
  /\ aborted' = FALSE
  /\ state' = "running"
  /\ bind' = Pinned(bd)

StartCoalesce(q, st, bd) ==
  /\ pump' = "coalescing"
  /\ queue' = q
  /\ batch' = {}
  /\ aborted' = FALSE
  /\ state' = st
  /\ bind' = bd

\* one pass from the head of `while' to the next await
LoopTop(q, st, bd, inp) ==
  IF disposed \/ Loud(q, inp) = {}
  THEN ReturnFromLoop(q, st, bd)
  ELSE \E ms \in CoalesceMs :
         IF ms > 0 /\ MayCoalesce(q, inp)
         THEN StartCoalesce(q, st, bd)
         ELSE StartBatch(q, bd, inp)

-----------------------------------------------------------------------------
(* The supervisor's terminal listener, attached until the instance is      *)
(* disposed: the first terminal of an ephemeral instance is recorded and   *)
(* the instance starts draining; residents only log theirs.                *)

Heard == lifetime = "ephemeral" /\ ~disposed /\ terminal = "none"

OnTerminal(kind) == terminal' = IF Heard THEN kind ELSE terminal
StateAfterTerminal(st) == IF Heard THEN "draining" ELSE st

\* the state pump()'s inner finally leaves
StateAfterTurn(st) ==
  IF disposed \/ st \in {"cancelled", "failed", "draining"} THEN st ELSE "idle"

\* currentAbort?.abort() and wakeCoalesce?.()
AbortCurrent == aborted' = (pump = "executing" \/ aborted)
WakeCoalesce == pump' = IF pump = "coalescing" THEN "woken" ELSE pump

-----------------------------------------------------------------------------
Init ==
  /\ lifetime \in {"resident", "ephemeral"}
  /\ state = "idle"                       \* AgentRegistrar called start()
  /\ accepted = 0
  /\ input = [t \in Ids |-> NoInput]
  /\ promise = [t \in Ids |-> "none"]
  /\ queue = {} /\ batch = {}
  /\ pump = "none" /\ aborted = FALSE
  /\ disposed = FALSE /\ cancelNotified = FALSE
  /\ terminal = "none"
  /\ bind = [k \in Bindings |->
               [current |-> 1, pending |-> NoSnapshot, pinned |-> NoSnapshot,
                latest |-> 1]]
  /\ held = {}

\* Feedback continues active work, and is demoted to silent otherwise.
Effective(i) ==
  IF i.feedback /\ (pump # "executing" \/ aborted)
  THEN [i EXCEPT !.handoff = "silent"] ELSE i

Accepting == ~disposed /\ state \notin Refusing /\ accepted < MaxTurns

\* A passive input that finds no running pump resolves at once, unqueued.
AcceptPassive(i) ==
  /\ Accepting
  /\ Effective(i).handoff = "passive"
  /\ pump \in {"none", "ending"}
  /\ accepted' = accepted + 1
  /\ input' = [input EXCEPT ![accepted + 1] = Effective(i)]
  /\ promise' = [promise EXCEPT ![accepted + 1] = "resolved"]
  /\ UNCHANGED <<lifetime, state, queue, batch, pump, aborted, disposed,
                 cancelNotified, terminal, bind, held>>

\* The queue after the push of turn t and the overflow eviction.
Pushed(t) == (queue \cup {t}) \ Overflow(queue \cup {t})

\* acceptTurn while the pump is active, or with a silent input: the input is
\* queued; a steer aborts the turn in flight and cuts a coalesce wait short.
AcceptQueued(i) ==
  LET t == accepted + 1
      e == Effective(i)
  IN  /\ Accepting
      /\ e.handoff = "passive" => pump \notin {"none", "ending"}
      /\ pump # "none" \/ e.handoff = "silent"
      /\ accepted' = t
      /\ input' = [input EXCEPT ![t] = e]
      /\ queue' = Pushed(t)
      /\ promise' = [Reject(Overflow(queue \cup {t})) EXCEPT ![t] = "pending"]
      /\ IF e.handoff = "steer"
         THEN AbortCurrent /\ WakeCoalesce
         ELSE UNCHANGED <<aborted, pump>>
      /\ UNCHANGED <<lifetime, state, batch, disposed, cancelNotified,
                     terminal, bind, held>>

\* acceptTurn that finds no pump: schedulePump runs the loop up to its first
\* await within the same call.  The steer branch has nothing to abort here.
AcceptAndPump(i) ==
  LET t == accepted + 1
      e == Effective(i)
  IN  /\ Accepting
      /\ pump = "none" /\ e.handoff \notin {"silent", "passive"}
      /\ accepted' = t
      /\ input' = [input EXCEPT ![t] = e]
      /\ promise' = [Reject(Overflow(queue \cup {t})) EXCEPT ![t] = "pending"]
      /\ LoopTop(Pushed(t), state, bind, input')
      /\ UNCHANGED <<lifetime, disposed, cancelNotified, terminal, held>>

-----------------------------------------------------------------------------
(* The pump's three resumptions                                            *)

\* setTimeout(finish, ms)
CoalesceTimer ==
  /\ pump = "coalescing"
  /\ pump' = "woken"
  /\ UNCHANGED <<lifetime, state, accepted, input, promise, queue, batch,
                 aborted, disposed, cancelNotified, terminal, bind, held>>

\* After the wait the queue is looked at again: it may have been cleared, or
\* silenced, meanwhile.
ResumeAfterCoalesce ==
  /\ pump = "woken"
  /\ IF disposed \/ Loud(queue, input) = {}
     THEN ReturnFromLoop(queue, state, bind)
     ELSE StartBatch(queue, bind, input)
  /\ UNCHANGED <<lifetime, accepted, input, promise, disposed,
                 cancelNotified, terminal, held>>

\* execute() fulfils; a final result ends an ephemeral instance.
ExecutorResolves(final) ==
  /\ pump = "executing"
  /\ promise' = [t \in Ids |-> IF t \in batch THEN "resolved" ELSE promise[t]]
  /\ IF final THEN OnTerminal("completed") ELSE UNCHANGED terminal
  /\ LoopTop(queue,
             StateAfterTurn(IF final THEN StateAfterTerminal(state) ELSE state),
             Reconciled, input)
  /\ UNCHANGED <<lifetime, accepted, input, disposed, cancelNotified, held>>

\* execute() rejects after an abort: an ephemeral instance is cancelled, once.
AbortedTurnEnds ==
  LET terminates == lifetime = "ephemeral" /\ ~cancelNotified /\ ~disposed
  IN  /\ pump = "executing" /\ aborted
      /\ promise' = Reject(batch)
      /\ cancelNotified' = (cancelNotified \/ terminates)
      /\ IF terminates THEN OnTerminal("cancelled") ELSE UNCHANGED terminal
      /\ LoopTop(queue,
                 StateAfterTurn(IF terminates THEN StateAfterTerminal(state)
                                              ELSE state),
                 Reconciled, input)
      /\ UNCHANGED <<lifetime, accepted, input, disposed, held>>

\* execute() rejects on its own: fatal to an ephemeral instance only.
FailedTurnEnds ==
  /\ pump = "executing" /\ ~aborted
  /\ promise' = Reject(batch)
  /\ IF lifetime = "ephemeral"
     THEN /\ OnTerminal("failed")
          /\ LoopTop(queue, StateAfterTerminal("failed"), Reconciled, input)
     ELSE /\ UNCHANGED terminal
          /\ LoopTop(queue, StateAfterTurn(state), Reconciled, input)
  /\ UNCHANGED <<lifetime, accepted, input, disposed, cancelNotified, held>>

\* mutant: .finally only clears pumpTask
PumpFinallyClears ==
  /\ pump = "ending" /\ pump' = "none"
  /\ UNCHANGED <<lifetime, state, accepted, input, promise, queue, batch,
                 aborted, disposed, cancelNotified, terminal, bind, held>>

\* pump().finally(...): re-arm for what arrived while the loop was returning
PumpFinally ==
  /\ pump = "ending"
  /\ IF ~disposed /\ Loud(queue, input) # {}
     THEN LoopTop(queue, state, bind, input)
     ELSE /\ pump' = "none"
          /\ UNCHANGED <<state, queue, batch, aborted, bind>>
  /\ UNCHANGED <<lifetime, accepted, input, promise, disposed,
                 cancelNotified, terminal, held>>

-----------------------------------------------------------------------------
(* Control calls                                                           *)

Cancel ==
  /\ ~disposed
  /\ promise' = Reject(queue) /\ queue' = {}
  /\ AbortCurrent /\ WakeCoalesce
  /\ cancelNotified' = TRUE
  /\ IF cancelNotified
     THEN state' = "cancelled" /\ UNCHANGED terminal
     ELSE state' = StateAfterTerminal("cancelled") /\ OnTerminal("cancelled")
  /\ UNCHANGED <<lifetime, accepted, input, batch, disposed, bind, held>>

\* With a turn in flight only that turn is aborted; a coalescing batch is
\* rejected whole; otherwise there is nothing to interrupt.
InterruptTurn ==
  /\ ~disposed
  /\ pump \in {"executing", "coalescing"}
  /\ IF pump = "executing"
     THEN UNCHANGED <<promise, queue>>
     ELSE promise' = Reject(queue) /\ queue' = {}
  /\ AbortCurrent /\ WakeCoalesce
  /\ UNCHANGED <<lifetime, state, accepted, input, batch, disposed,
                 cancelNotified, terminal, bind, held>>

\* mutant: a stop drops assignments but leaves peers' results actionable
StopTurnLoud ==
  LET peers == {t \in queue : input[t].feedback \/ input[t].agent}
      assignments == {t \in peers : /\ ~input[t].feedback
                                    /\ input[t].type = "user_input"}
  IN  /\ ~disposed
      /\ queue' = queue \ assignments
      /\ promise' = Reject(assignments)
      /\ held' = held \cup peers
      /\ AbortCurrent /\ WakeCoalesce
      /\ UNCHANGED <<lifetime, state, accepted, input, batch, disposed,
                     cancelNotified, terminal, bind>>

\* A user stop keeps peers' results as context, drops the assignments peers
\* had queued and leaves human input actionable.
StopTurn ==
  LET peers == {t \in queue : input[t].feedback \/ input[t].agent}
      assignments == {t \in peers : /\ ~input[t].feedback
                                    /\ input[t].type = "user_input"}
  IN  /\ ~disposed
      /\ queue' = queue \ assignments
      /\ promise' = Reject(assignments)
      /\ input' = [t \in Ids |-> IF t \in peers \ assignments
                                 THEN [input[t] EXCEPT !.handoff = "silent"]
                                 ELSE input[t]]
      /\ held' = held \cup peers
      /\ AbortCurrent /\ WakeCoalesce
      /\ UNCHANGED <<lifetime, state, accepted, batch, disposed,
                     cancelNotified, terminal, bind>>

InterruptAndClear ==
  /\ ~disposed
  /\ promise' = Reject(queue) /\ queue' = {}
  /\ AbortCurrent /\ WakeCoalesce
  /\ UNCHANGED <<lifetime, state, accepted, input, batch, disposed,
                 cancelNotified, terminal, bind, held>>

\* dispose() up to `await this.pumpTask' ...
Dispose ==
  /\ ~disposed
  /\ disposed' = TRUE
  /\ promise' = Reject(queue) /\ queue' = {}
  /\ AbortCurrent /\ WakeCoalesce
  /\ UNCHANGED <<lifetime, state, accepted, input, batch, cancelNotified,
                 terminal, bind, held>>

\* mutant: dispose() does not wait for the pump
DisposeAtOnce ==
  /\ disposed /\ state # "disposed"
  /\ state' = "disposed"
  /\ UNCHANGED <<lifetime, accepted, input, promise, queue, batch, pump,
                 aborted, disposed, cancelNotified, terminal, bind, held>>

\* ... and after it
DisposeFinishes ==
  /\ disposed /\ pump = "none" /\ state # "disposed"
  /\ state' = "disposed"
  /\ UNCHANGED <<lifetime, accepted, input, promise, queue, batch, pump,
                 aborted, disposed, cancelNotified, terminal, bind, held>>

\* The supervisor could not write the terminal event: the instance is marked
\* failed, whatever it is doing.
PersistFails ==
  /\ ~disposed
  /\ terminal # "none" \/ (lifetime = "resident" /\ cancelNotified)
  /\ state # "failed"
  /\ state' = "failed"
  /\ UNCHANGED <<lifetime, accepted, input, promise, queue, batch, pump,
                 aborted, disposed, cancelNotified, terminal, bind, held>>

\* mutant: stage() writes the current snapshot
StageNow(k) ==
  /\ \A j \in Bindings : bind[j].latest < MaxRevision
  /\ bind' = [bind EXCEPT ![k].current = bind[k].latest + 1,
                          ![k].latest = bind[k].latest + 1]
  /\ UNCHANGED <<lifetime, state, accepted, input, promise, queue, batch,
                 pump, aborted, disposed, cancelNotified, terminal, held>>

\* RuntimeConfigBinding.stage / AgentExecutionBinding.stage, at any time
Stage(k) ==
  /\ \A j \in Bindings : bind[j].latest < MaxRevision
  /\ bind' = [bind EXCEPT ![k].pending = bind[k].latest + 1,
                          ![k].latest = bind[k].latest + 1]
  /\ UNCHANGED <<lifetime, state, accepted, input, promise, queue, batch,
                 pump, aborted, disposed, cancelNotified, terminal, held>>

Accept(i) == AcceptPassive(i) \/ AcceptQueued(i) \/ AcceptAndPump(i)

ExecutorSettles ==
  \/ \E final \in BOOLEAN : ExecutorResolves(final)
  \/ AbortedTurnEnds
  \/ FailedTurnEnds

Next ==
  \/ \E i \in Inputs : Accept(i)
  \/ CoalesceTimer
  \/ ResumeAfterCoalesce
  \/ ExecutorSettles
  \/ PumpFinally
  \/ Cancel
  \/ InterruptTurn
  \/ StopTurn
  \/ InterruptAndClear
  \/ Dispose
  \/ DisposeFinishes
  \/ PersistFails
  \/ \E k \in Bindings : Stage(k)

\* The event loop runs every ready timer and microtask, and the executor
\* settles its promise (kernel turns are bounded by their own deadlines).
\* Nobody is obliged to send inputs or to interrupt.
Fairness ==
  /\ WF_vars(CoalesceTimer)
  /\ WF_vars(ResumeAfterCoalesce)
  /\ WF_vars(ExecutorSettles)
  /\ WF_vars(PumpFinally)
  /\ WF_vars(DisposeFinishes)

Spec == Init /\ [][Next]_vars
FairSpec == Spec /\ Fairness

-----------------------------------------------------------------------------
(* Properties                                                              *)

BindingType == [current : Revisions, pending : Revisions \cup {NoSnapshot},
                pinned : Revisions \cup {NoSnapshot}, latest : Revisions]

\* Every variable has its type.
TypeOK ==
  /\ lifetime \in {"resident", "ephemeral"}
  /\ state \in States
  /\ accepted \in 0 .. MaxTurns
  /\ input \in [Ids -> InputType]
  /\ promise \in [Ids -> {"none", "pending", "resolved", "rejected"}]
  /\ queue \in SUBSET Ids
  /\ batch \in SUBSET Ids
  /\ pump \in {"none", "coalescing", "woken", "executing", "ending"}
  /\ aborted \in BOOLEAN
  /\ disposed \in BOOLEAN
  /\ cancelNotified \in BOOLEAN
  /\ terminal \in {"none", "completed", "failed", "cancelled"}
  /\ bind \in [Bindings -> BindingType]
  /\ held \in SUBSET Ids

\* No promise is forgotten or settled twice: an accepted turn's promise is
\* pending exactly while the turn is queued or in the batch being executed,
\* and it is never in both.  (push, shift, splice and every reject loop.)
PromiseKept ==
  /\ \A t \in Ids : promise[t] = "pending" <=> t \in queue \cup batch
  /\ queue \cap batch = {}

\* No lost wake-up: while a turn that may start a batch is queued, a pump is
\* scheduled -- also in the gap between the loop's return and the .finally
\* callback, where schedulePump refuses to start a second pump.
PumpArmed ==
  ~disposed /\ Loud(queue, input) # {} => pump # "none"

\* The instance says "running" exactly while a batch is being executed.
RunningIffExecuting ==
  state \in {"idle", "running"} /\ ~disposed
    => (state = "running" <=> pump = "executing")

\* A resident survives every interruption and every failing turn: until it is
\* cancelled or disposed it stays in a state that accepts turns.
ResidentSurvives ==
  lifetime = "resident" /\ ~cancelNotified /\ ~disposed
    => state \in {"idle", "running"}

\* Once dispose() has returned, nothing runs, nothing waits, and no accepted
\* turn is left without an answer.
DisposedIsQuiet ==
  state = "disposed" =>
    /\ pump = "none" /\ queue = {} /\ batch = {}
    /\ \A t \in Ids : promise[t] # "pending"

\* A turn works on the snapshots it was given at its start although newer ones
\* are staged meanwhile, and the newest staged snapshot is the one a next turn
\* will pin.
TurnsArePinned ==
  \A k \in Bindings :
    /\ pump = "executing" => bind[k].current = bind[k].pinned
    /\ Upcoming(bind[k]) = bind[k].latest

\* After a user stop, what peers had queued never starts a batch on its own:
\* something that came later, or from the user, waits with it; and an assignment
\* a peer had queued is never executed at all.
StopHolds ==
  [][batch' # batch /\ batch' # {} =>
       /\ \E t \in queue' \cup batch' : t \notin held
       /\ \A t \in batch' \cap held :
            input[t].feedback \/ input[t].type # "user_input"]_vars

\* Nobody waits for the controller for ever: every accepted turn that asked for
\* work is answered, or demoted to silent context by a stop, and dispose()
\* returns.  Turns are accepted and disposed of once, so it is enough that a
\* moment without anybody waiting always comes.
CallersReturn ==
  []<>(/\ \A t \in Ids : promise[t] = "pending" => input[t].handoff = "silent"
       /\ disposed => state = "disposed")

-----------------------------------------------------------------------------
(* What the controller promises its callers, see TurnContract              *)

TurnStatus ==
  [t \in Ids |-> CASE t \in batch -> "working"
                   [] t \in queue \ batch -> "waiting"
                   [] OTHER -> promise[t]]

Contract == INSTANCE TurnContract WITH status <- TurnStatus

\* The controller implements the contract of a turn: answered once, executed
\* at most once, one batch at a time, a batch answered as a whole.
KeepsContract == Contract!FairSpec
=============================================================================
