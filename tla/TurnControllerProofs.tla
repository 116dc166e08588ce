------------------------ MODULE TurnControllerProofs ------------------------
(***************************************************************************)
(* Safety of TurnController for every number of turns, every capacity,     *)
(* every set of inputs and every coalescing configuration.                 *)
(***************************************************************************)
EXTENDS TurnController, FiniteSetTheorems, TLAPS

\* What the properties need to be inductive: turns not yet offered are nowhere,
\* a batch exists only while the executor works, the abort flag belongs to a
\* batch, and a disposed controller has an empty queue for good.
Bookkeeping ==
  /\ \A t \in queue \cup batch : t <= accepted
  /\ pump # "executing" => batch = {}
  /\ aborted => pump = "executing"
  /\ disposed => queue = {}
  /\ state = "disposed" => disposed /\ pump = "none"

\* Only ephemeral instances have a terminal recorded.
ResidentHasNoTerminal == lifetime = "resident" => terminal = "none"

IInv ==
  /\ TypeOK
  /\ PromiseKept
  /\ PumpArmed
  /\ RunningIffExecuting
  /\ ResidentSurvives
  /\ Bookkeeping

-----------------------------------------------------------------------------
(* Facts about the helpers                                                 *)

LEMMA DefaultInput == NoInput \in InputType
<1>1. [handoff |-> "turn", urgent |-> FALSE, type |-> "message",
       agent |-> FALSE, required |-> FALSE, feedback |-> FALSE] \in InputType
  BY DEF InputType, Handoffs
<1> QED BY <1>1 DEF NoInput

LEMMA BindingsReconcile ==
  ASSUME bind \in [Bindings -> BindingType]
  PROVE  /\ Reconciled \in [Bindings -> BindingType]
         /\ \A bd \in [Bindings -> BindingType] :
              Pinned(bd) \in [Bindings -> BindingType]
<1>1. ASSUME NEW b \in BindingType
      PROVE  Reconcile(b) \in BindingType /\ Pin(b) \in BindingType
  BY <1>1, RevisionAssumption
     DEF Reconcile, Pin, Upcoming, BindingType, Revisions, NoSnapshot
<1> QED BY <1>1 DEF Reconciled, Pinned

LEMMA BatchIsQueued == \A q, inp : NextBatch(q, inp) \subseteq q
BY DEF NextBatch, FirstOf, Commands

LEMMA RejectType ==
  ASSUME TypeOK, NEW S \in SUBSET Ids
  PROVE  Reject(S) \in [Ids -> {"none", "pending", "resolved", "rejected"}]
BY DEF TypeOK, Reject

LEMMA EffectiveType == \A i \in Inputs : Effective(i) \in InputType
BY InputsAssumption DEF Effective, InputType, Handoffs

\* What one synchronous stretch of the pump does with queue q, leaving the
\* instance in state st if it does not start a batch.
Ran(q, st) ==
  /\ queue' \in SUBSET Ids /\ batch' \in SUBSET Ids
  /\ queue' \cup batch' = q /\ queue' \cap batch' = {}
  /\ pump' \in {"ending", "coalescing", "executing"}
  /\ pump' # "executing" => batch' = {}
  /\ aborted' = FALSE
  /\ state' = IF pump' = "executing" THEN "running" ELSE st
  /\ bind' \in [Bindings -> BindingType]

LEMMA ReturnRan ==
  ASSUME NEW q \in SUBSET Ids, NEW st, NEW bd \in [Bindings -> BindingType],
         ReturnFromLoop(q, st, bd)
  PROVE  Ran(q, st)
BY DEF ReturnFromLoop, Ran

LEMMA StartRan ==
  ASSUME NEW q \in SUBSET Ids, NEW st, NEW bd \in [Bindings -> BindingType],
         NEW inp, bind \in [Bindings -> BindingType], StartBatch(q, bd, inp)
  PROVE  Ran(q, st)
BY BatchIsQueued, BindingsReconcile DEF StartBatch, Ran

LEMMA LoopRan ==
  ASSUME NEW q \in SUBSET Ids, NEW st, NEW bd \in [Bindings -> BindingType],
         NEW inp, bind \in [Bindings -> BindingType], LoopTop(q, st, bd, inp)
  PROVE  Ran(q, st)
<1>1. CASE disposed \/ Loud(q, inp) = {}
  BY <1>1, ReturnRan DEF LoopTop
<1>2. CASE ~(disposed \/ Loud(q, inp) = {})
  <2>1. StartCoalesce(q, st, bd) \/ StartBatch(q, bd, inp)
    BY <1>2 DEF LoopTop
  <2>2. CASE StartCoalesce(q, st, bd)
    BY <2>2 DEF StartCoalesce, Ran
  <2> QED BY <2>1, <2>2, StartRan
<1> QED BY <1>1, <1>2

\* An offered turn is new, and it is not the one that an overflow evicts.
LEMMA NewTurn ==
  ASSUME TypeOK, Bookkeeping, Accepting
  PROVE  LET t == accepted + 1
         IN  /\ t \in Ids /\ t \notin queue \cup batch
             /\ t \notin Overflow(queue \cup {t})
             /\ Overflow(queue \cup {t}) \subseteq queue
             /\ Pushed(t) = (queue \ Overflow(queue \cup {t})) \cup {t}
<1> DEFINE t == accepted + 1
<1>1. t \in Ids
  BY MaxTurnsAssumption DEF TypeOK, Accepting, Ids
<1>2. \A u \in queue \cup batch : u \in Nat /\ u < t
  BY MaxTurnsAssumption DEF TypeOK, Bookkeeping, Ids
<1>3. t \notin queue \cup batch
  BY <1>2
<1>4. t \notin Overflow(queue \cup {t})
  <2>1. CASE queue = {}
    <3>1. Cardinality({t}) = 1
      BY FS_Singleton
    <3> QED BY <2>1, <3>1, QueueAssumption DEF Overflow
  <2>2. CASE queue # {}
    <3>1. PICK u \in queue : u \in Nat /\ u < t
      BY <1>2, <2>2
    <3> QED BY <3>1, <1>1 DEF Overflow, FirstOf, Ids
  <2> QED BY <2>1, <2>2
<1>5. Overflow(queue \cup {t}) \subseteq queue \cup {t}
  BY DEF Overflow, FirstOf
<1> HIDE DEF t
<1>6. Pushed(t) = (queue \ Overflow(queue \cup {t})) \cup {t}
  BY <1>4 DEF Pushed
<1> QED BY <1>1, <1>3, <1>4, <1>5, <1>6 DEF t

-----------------------------------------------------------------------------
LEMMA InitInv == Init => IInv
<1> SUFFICES ASSUME Init PROVE IInv
  OBVIOUS
<1>1. input \in [Ids -> InputType]
  BY DefaultInput DEF Init
<1>2. bind \in [Bindings -> BindingType]
  BY RevisionAssumption DEF Init, BindingType, Revisions, NoSnapshot
<1>7. accepted \in 0 .. MaxTurns
  BY MaxTurnsAssumption DEF Init
<1>8. promise \in [Ids -> {"none", "pending", "resolved", "rejected"}]
  BY DEF Init
<1>9. aborted \in BOOLEAN /\ disposed \in BOOLEAN /\ cancelNotified \in BOOLEAN
  BY DEF Init
<1>3. TypeOK
  BY <1>1, <1>2, <1>7, <1>8, <1>9 DEF Init, TypeOK, States
<1>4. PumpArmed /\ Bookkeeping
  BY DEF Init, PumpArmed, Bookkeeping, Loud
<1>5. PromiseKept
  BY DEF Init, PromiseKept
<1>6. RunningIffExecuting /\ ResidentSurvives
  BY DEF Init, RunningIffExecuting, ResidentSurvives
<1> QED BY <1>3, <1>4, <1>5, <1>6 DEF IInv

-----------------------------------------------------------------------------
\* The pump's stretch re-establishes the invariant when the promises of q are
\* exactly the pending ones and the state it is given is not "running".
LEMMA RanInv ==
  ASSUME IInv, NEW q \in SUBSET Ids, NEW st \in States, Ran(q, st),
         accepted' \in 0 .. MaxTurns,
         \A t \in q : t <= accepted',
         input' \in [Ids -> InputType],
         promise' \in [Ids -> {"none", "pending", "resolved", "rejected"}],
         \A t \in Ids : promise'[t] = "pending" <=> t \in q,
         UNCHANGED <<lifetime, disposed, held>>,
         cancelNotified' \in BOOLEAN,
         terminal' \in {"none", "completed", "failed", "cancelled"},
         disposed => q = {},
         st # "disposed",
         ~disposed => st # "running",
         lifetime = "resident" /\ ~cancelNotified' /\ ~disposed => st = "idle"
  PROVE  IInv'
<1>1. TypeOK'
  <2>1. state' \in States
    BY DEF Ran, States
  <2>2. aborted' \in BOOLEAN
    BY DEF Ran
  <2>3. pump' \in {"none", "coalescing", "woken", "executing", "ending"}
    BY DEF Ran
  <2>4. /\ queue' \in SUBSET Ids /\ batch' \in SUBSET Ids
        /\ bind' \in [Bindings -> BindingType]
    BY DEF Ran
  <2>5. lifetime' \in {"resident", "ephemeral"} /\ disposed' \in BOOLEAN
        /\ held' \in SUBSET Ids
    BY DEF IInv, TypeOK
  <2> QED BY <2>1, <2>2, <2>3, <2>4, <2>5 DEF TypeOK
<1>2. PromiseKept'
  BY DEF Ran, PromiseKept
<1>3. PumpArmed'
  BY DEF Ran, PumpArmed
<1>4. RunningIffExecuting'
  BY DEF Ran, RunningIffExecuting
<1>5. ResidentSurvives'
  BY DEF Ran, ResidentSurvives
<1>6. Bookkeeping'
  <2>1. \A t \in queue' \cup batch' : t <= accepted'
    BY DEF Ran
  <2>2. state' # "disposed"
    BY DEF Ran
  <2>3. disposed' => queue' = {}
    BY DEF Ran
  <2>4. (pump' # "executing" => batch' = {}) /\ ~aborted'
    BY DEF Ran
  <2> QED BY <2>1, <2>2, <2>3, <2>4 DEF Bookkeeping
<1> QED BY <1>1, <1>2, <1>3, <1>4, <1>5, <1>6 DEF IInv

-----------------------------------------------------------------------------
(* One lemma per action.  Inputs                                           *)

LEMMA AcceptPassiveInv ==
  ASSUME IInv, NEW i \in Inputs, AcceptPassive(i) PROVE IInv'
<1>1. accepted + 1 \in Ids /\ accepted + 1 \notin queue \cup batch
  BY NewTurn DEF IInv, AcceptPassive
<1>2. TypeOK'
  BY <1>1, EffectiveType, MaxTurnsAssumption
     DEF IInv, TypeOK, AcceptPassive, Accepting, Ids
<1>3. PromiseKept'
  BY <1>1 DEF IInv, TypeOK, PromiseKept, AcceptPassive
<1>4. PumpArmed'
  BY <1>1 DEF IInv, TypeOK, PumpArmed, AcceptPassive, Loud
<1>5. RunningIffExecuting' /\ ResidentSurvives'
  BY DEF IInv, RunningIffExecuting, ResidentSurvives, AcceptPassive
<1>6. Bookkeeping'
  BY DEF IInv, TypeOK, Bookkeeping, AcceptPassive, Ids
<1> QED BY <1>2, <1>3, <1>4, <1>5, <1>6 DEF IInv

LEMMA AcceptQueuedInv ==
  ASSUME IInv, NEW i \in Inputs, AcceptQueued(i) PROVE IInv'
<1> DEFINE t == accepted + 1
           evicted == Overflow(queue \cup {t})
<1>1. /\ t \in Ids /\ t \notin queue \cup batch
      /\ t \notin evicted /\ evicted \subseteq queue
      /\ Pushed(t) = (queue \ evicted) \cup {t}
  BY NewTurn DEF IInv, AcceptQueued
<1>2. /\ accepted' = t
      /\ input' = [input EXCEPT ![t] = Effective(i)]
      /\ queue' = Pushed(t)
      /\ promise' = [Reject(evicted) EXCEPT ![t] = "pending"]
      /\ UNCHANGED <<lifetime, state, batch, disposed, cancelNotified,
                      terminal, bind, held>>
      /\ pump # "none" \/ Effective(i).handoff = "silent"
      /\ ~disposed /\ accepted < MaxTurns
      /\ state # "disposed"
  BY DEF AcceptQueued, Accepting, IInv, Bookkeeping
<1>3. /\ aborted' \in BOOLEAN
      /\ pump' \in {"none", "coalescing", "woken", "executing", "ending"}
      /\ pump' = "executing" <=> pump = "executing"
      /\ pump' = "none" <=> pump = "none"
      /\ aborted' => pump = "executing"
  BY DEF AcceptQueued, AbortCurrent, WakeCoalesce, IInv, TypeOK, Bookkeeping
<1> HIDE DEF evicted, t
<1>4. Effective(i) \in InputType
  BY EffectiveType
<1>5. TypeOK'
  <2>1. input' \in [Ids -> InputType]
    BY <1>1, <1>2, <1>4 DEF IInv, TypeOK
  <2>2. promise' \in [Ids -> {"none", "pending", "resolved", "rejected"}]
    BY <1>1, <1>2 DEF IInv, TypeOK, Reject
  <2>3. accepted' \in 0 .. MaxTurns
    BY <1>1, <1>2, MaxTurnsAssumption DEF Ids
  <2>4. queue' \in SUBSET Ids
    BY <1>1, <1>2 DEF IInv, TypeOK
  <2> QED BY <2>1, <2>2, <2>3, <2>4, <1>2, <1>3 DEF IInv, TypeOK
<1>6. PromiseKept'
  BY <1>1, <1>2 DEF IInv, TypeOK, PromiseKept, Reject
<1>7. PumpArmed'
  BY <1>1, <1>2, <1>3 DEF IInv, TypeOK, PumpArmed, Loud
<1>8. RunningIffExecuting' /\ ResidentSurvives'
  BY <1>2, <1>3 DEF IInv, RunningIffExecuting, ResidentSurvives
<1>9. Bookkeeping'
  <2>1. \A u \in (queue \cup batch)' : u <= accepted'
    <3>1. /\ accepted \in Nat
          /\ \A u \in queue \cup batch : u \in Nat /\ u <= accepted
      BY MaxTurnsAssumption DEF IInv, TypeOK, Bookkeeping, Ids
    <3>2. queue' \subseteq queue \cup {t} /\ batch' = batch /\ accepted' = t
      BY <1>1, <1>2
    <3> QED BY <3>1, <3>2 DEF t
  <2>2. batch' = batch /\ state' = state /\ ~disposed' /\ state # "disposed"
    BY <1>2
  <2>3. pump' # "executing" => batch' = {}
    BY <2>2, <1>3 DEF IInv, Bookkeeping
  <2>4. aborted' => pump' = "executing"
    BY <1>3
  <2> QED BY <2>1, <2>2, <2>3, <2>4 DEF Bookkeeping
<1> QED BY <1>5, <1>6, <1>7, <1>8, <1>9 DEF IInv

LEMMA AcceptAndPumpInv ==
  ASSUME IInv, NEW i \in Inputs, AcceptAndPump(i) PROVE IInv'
<1> DEFINE t == accepted + 1
           evicted == Overflow(queue \cup {t})
           q == Pushed(t)
<1>1. /\ t \in Ids /\ t \notin queue \cup batch
      /\ t \notin evicted /\ evicted \subseteq queue
      /\ q = (queue \ evicted) \cup {t}
  BY NewTurn DEF IInv, AcceptAndPump
<1>2. /\ accepted' = t
      /\ input' = [input EXCEPT ![t] = Effective(i)]
      /\ promise' = [Reject(evicted) EXCEPT ![t] = "pending"]
      /\ LoopTop(q, state, bind, input')
      /\ UNCHANGED <<lifetime, disposed, cancelNotified, terminal, held>>
      /\ pump = "none" /\ ~disposed
      /\ state \notin Refusing
  BY DEF AcceptAndPump, Accepting
<1>3. q \in SUBSET Ids
  BY <1>1 DEF IInv, TypeOK
<1>4. Ran(q, state)
  BY <1>2, <1>3, LoopRan DEF IInv, TypeOK
<1>5. batch = {}
  BY <1>2 DEF IInv, Bookkeeping
<1>6. accepted' \in 0 .. MaxTurns /\ \A u \in q : u <= accepted'
  <2>1. /\ accepted \in Nat
        /\ \A u \in queue : u \in Nat /\ u <= accepted
    BY MaxTurnsAssumption DEF IInv, TypeOK, Bookkeeping, Ids
  <2>2. q \subseteq queue \cup {t} /\ accepted' = t /\ t \in Ids
    BY <1>1, <1>2
  <2> QED BY <2>1, <2>2, MaxTurnsAssumption DEF Ids
<1> HIDE DEF evicted, q, t
<1>7. input' \in [Ids -> InputType]
  BY <1>1, <1>2, EffectiveType DEF IInv, TypeOK
<1>8. /\ promise' \in [Ids -> {"none", "pending", "resolved", "rejected"}]
      /\ \A u \in Ids : promise'[u] = "pending" <=> u \in q
  BY <1>1, <1>2, <1>5 DEF IInv, TypeOK, PromiseKept, Reject
<1>9. state \in States /\ state # "disposed" /\ state # "running"
  BY <1>2 DEF IInv, TypeOK, RunningIffExecuting, Bookkeeping
<1>10. lifetime = "resident" /\ ~cancelNotified' /\ ~disposed
         => state = "idle"
  BY <1>2, <1>9 DEF IInv, ResidentSurvives
<1>11. cancelNotified' \in BOOLEAN
       /\ terminal' \in {"none", "completed", "failed", "cancelled"}
  BY <1>2 DEF IInv, TypeOK
<1> QED BY <1>2, <1>3, <1>4, <1>6, <1>7, <1>8, <1>9, <1>10, <1>11, RanInv

-----------------------------------------------------------------------------
(* The pump                                                                *)

LEMMA CoalesceTimerInv == ASSUME IInv, CoalesceTimer PROVE IInv'
BY DEF IInv, CoalesceTimer, TypeOK, PromiseKept, PumpArmed, Loud,
       RunningIffExecuting, ResidentSurvives, Bookkeeping

\* What every resumption of the pump finds in its queue.
LEMMA QueueFacts ==
  ASSUME IInv
  PROVE  /\ queue \in SUBSET Ids
         /\ accepted \in 0 .. MaxTurns
         /\ \A t \in queue : t <= accepted
         /\ input \in [Ids -> InputType]
         /\ bind \in [Bindings -> BindingType]
         /\ Reconciled \in [Bindings -> BindingType]
         /\ disposed => queue = {}
         /\ pump # "none" => state # "disposed"
BY BindingsReconcile DEF IInv, TypeOK, Bookkeeping

LEMMA ResumeInv == ASSUME IInv, ResumeAfterCoalesce PROVE IInv'
<1>1. Ran(queue, state)
  BY QueueFacts, ReturnRan, StartRan DEF ResumeAfterCoalesce
<1>2. /\ UNCHANGED <<lifetime, accepted, input, promise, disposed,
                     cancelNotified, terminal, held>>
      /\ pump = "woken"
  BY DEF ResumeAfterCoalesce
<1>3. batch = {}
  BY <1>2 DEF IInv, Bookkeeping
<1>4. \A t \in Ids : promise'[t] = "pending" <=> t \in queue
  BY <1>2, <1>3 DEF IInv, PromiseKept
<1>5. state \in States /\ (~disposed => state # "running")
  BY <1>2 DEF IInv, TypeOK, RunningIffExecuting
<1>6. lifetime = "resident" /\ ~cancelNotified' /\ ~disposed
        => state = "idle"
  BY <1>2, <1>5 DEF IInv, ResidentSurvives
<1>7. /\ promise' \in [Ids -> {"none", "pending", "resolved", "rejected"}]
      /\ cancelNotified' \in BOOLEAN
      /\ terminal' \in {"none", "completed", "failed", "cancelled"}
  BY <1>2 DEF IInv, TypeOK
<1> QED BY <1>1, <1>2, <1>4, <1>5, <1>6, <1>7, QueueFacts, RanInv

\* A batch has ended with answer a, and the instance is left in state st.
LEMMA TurnEndInv ==
  ASSUME IInv, pump = "executing", NEW a \in {"resolved", "rejected"},
         NEW st \in States,
         promise' = [t \in Ids |-> IF t \in batch THEN a ELSE promise[t]],
         LoopTop(queue, st, Reconciled, input),
         UNCHANGED <<lifetime, accepted, input, disposed, held>>,
         cancelNotified' \in BOOLEAN,
         terminal' \in {"none", "completed", "failed", "cancelled"},
         st # "disposed",
         ~disposed => st # "running",
         lifetime = "resident" /\ ~cancelNotified' /\ ~disposed => st = "idle"
  PROVE  IInv'
<1>1. Ran(queue, st)
  BY QueueFacts, LoopRan
<1>2. \A t \in Ids : promise'[t] = "pending" <=> t \in queue
  BY DEF IInv, PromiseKept
<1>3. promise' \in [Ids -> {"none", "pending", "resolved", "rejected"}]
  BY DEF IInv, TypeOK
<1> QED BY <1>1, <1>2, <1>3, QueueFacts, RanInv

\* The state after a turn, when the turn itself left state s.
LEMMA AfterTurn ==
  ASSUME NEW s \in States, s # "disposed"
  PROVE  /\ StateAfterTurn(s) \in States
         /\ StateAfterTurn(s) # "disposed"
         /\ ~disposed => StateAfterTurn(s) # "running"
         /\ ~disposed /\ s \in {"idle", "running"} => StateAfterTurn(s) = "idle"
BY DEF StateAfterTurn, States

LEMMA TerminalFacts ==
  ASSUME IInv, NEW s \in States, s # "disposed"
  PROVE  /\ StateAfterTerminal(s) \in States
         /\ StateAfterTerminal(s) # "disposed"
         /\ lifetime = "resident" => StateAfterTerminal(s) = s
BY DEF StateAfterTerminal, Heard, States

LEMMA TerminalType ==
  ASSUME IInv, NEW k \in {"completed", "failed", "cancelled"},
         OnTerminal(k) \/ UNCHANGED terminal
  PROVE  terminal' \in {"none", "completed", "failed", "cancelled"}
BY DEF OnTerminal, IInv, TypeOK

LEMMA ExecutorResolvesInv ==
  ASSUME IInv, NEW final \in BOOLEAN, ExecutorResolves(final) PROVE IInv'
<1> DEFINE s == IF final THEN StateAfterTerminal(state) ELSE state
           st == StateAfterTurn(s)
<1>1. /\ pump = "executing"
      /\ promise' = [t \in Ids |-> IF t \in batch THEN "resolved" ELSE promise[t]]
      /\ LoopTop(queue, st, Reconciled, input)
      /\ UNCHANGED <<lifetime, accepted, input, disposed, cancelNotified, held>>
      /\ OnTerminal("completed") \/ UNCHANGED terminal
  BY DEF ExecutorResolves
<1>2. state \in States /\ state # "disposed"
  BY <1>1, QueueFacts DEF IInv, TypeOK
<1>3. s \in States /\ s # "disposed" /\ (lifetime = "resident" => s = state)
  BY <1>2, TerminalFacts
<1>4. lifetime = "resident" /\ ~cancelNotified' /\ ~disposed => st = "idle"
  BY <1>1, <1>3, AfterTurn DEF IInv, ResidentSurvives
<1>5. terminal' \in {"none", "completed", "failed", "cancelled"}
  BY <1>1, TerminalType
<1>6. cancelNotified' \in BOOLEAN
  BY <1>1 DEF IInv, TypeOK
<1>7. st \in States /\ st # "disposed" /\ (~disposed => st # "running")
  BY <1>3, AfterTurn
<1> HIDE DEF st
<1> QED BY <1>1, <1>4, <1>5, <1>6, <1>7, TurnEndInv

LEMMA AbortedTurnEndsInv ==
  ASSUME IInv, AbortedTurnEnds PROVE IInv'
<1> DEFINE ends == lifetime = "ephemeral" /\ ~cancelNotified /\ ~disposed
           s == IF ends THEN StateAfterTerminal(state) ELSE state
           st == StateAfterTurn(s)
<1>1. /\ pump = "executing"
      /\ promise' = [t \in Ids |-> IF t \in batch THEN "rejected" ELSE promise[t]]
      /\ LoopTop(queue, st, Reconciled, input)
      /\ UNCHANGED <<lifetime, accepted, input, disposed, held>>
      /\ OnTerminal("cancelled") \/ UNCHANGED terminal
      /\ cancelNotified' = (cancelNotified \/ ends)
  BY DEF AbortedTurnEnds, Reject
<1>2. state \in States /\ state # "disposed"
  BY <1>1, QueueFacts DEF IInv, TypeOK
<1>3. s \in States /\ s # "disposed" /\ (lifetime = "resident" => s = state)
  BY <1>2, TerminalFacts
<1>4. lifetime = "resident" /\ ~cancelNotified' /\ ~disposed => st = "idle"
  BY <1>1, <1>3, AfterTurn DEF IInv, ResidentSurvives
<1>5. terminal' \in {"none", "completed", "failed", "cancelled"}
  BY <1>1, TerminalType
<1>6. cancelNotified' \in BOOLEAN
  BY <1>1 DEF IInv, TypeOK
<1>7. st \in States /\ st # "disposed" /\ (~disposed => st # "running")
  BY <1>3, AfterTurn
<1> HIDE DEF st
<1> QED BY <1>1, <1>4, <1>5, <1>6, <1>7, TurnEndInv

LEMMA FailedTurnEndsInv ==
  ASSUME IInv, FailedTurnEnds PROVE IInv'
<1> DEFINE st == IF lifetime = "ephemeral" THEN StateAfterTerminal("failed")
                                           ELSE StateAfterTurn(state)
<1>1. /\ pump = "executing"
      /\ promise' = [t \in Ids |-> IF t \in batch THEN "rejected" ELSE promise[t]]
      /\ LoopTop(queue, st, Reconciled, input)
      /\ UNCHANGED <<lifetime, accepted, input, disposed, cancelNotified, held>>
      /\ OnTerminal("failed") \/ UNCHANGED terminal
  BY DEF FailedTurnEnds, Reject
<1>2. state \in States /\ state # "disposed"
  BY <1>1, QueueFacts DEF IInv, TypeOK
<1>3. CASE lifetime = "ephemeral"
  <2>1. st \in {"draining", "failed"}
    BY <1>3 DEF StateAfterTerminal
  <2>2. st \in States
    BY <2>1 DEF States
  <2> QED BY <1>1, <1>3, <2>1, <2>2, TurnEndInv, TerminalType DEF IInv, TypeOK
<1>4. CASE lifetime # "ephemeral"
  <2>1. st \in States /\ st # "disposed" /\ (~disposed => st # "running")
    BY <1>2, <1>4, AfterTurn
  <2>2. ~cancelNotified' /\ ~disposed => st = "idle"
    BY <1>1, <1>2, <1>4, AfterTurn DEF IInv, TypeOK, ResidentSurvives
  <2>3. terminal' \in {"none", "completed", "failed", "cancelled"}
    BY <1>1, TerminalType
  <2>4. cancelNotified' \in BOOLEAN
    BY <1>1 DEF IInv, TypeOK
  <2> HIDE DEF st
  <2> QED BY <1>1, <2>1, <2>2, <2>3, <2>4, TurnEndInv
<1> QED BY <1>3, <1>4

LEMMA PumpFinallyInv ==
  ASSUME IInv, PumpFinally PROVE IInv'
<1>1. /\ pump = "ending"
      /\ UNCHANGED <<lifetime, accepted, input, promise, disposed,
                     cancelNotified, terminal, held>>
  BY DEF PumpFinally
<1>2. CASE ~disposed /\ Loud(queue, input) # {}
  <2>1. Ran(queue, state)
    BY <1>2, QueueFacts, LoopRan DEF PumpFinally
  <2>2. batch = {}
    BY <1>1 DEF IInv, Bookkeeping
  <2>3. \A t \in Ids : promise'[t] = "pending" <=> t \in queue
    BY <1>1, <2>2 DEF IInv, PromiseKept
  <2>4. state \in States /\ state # "running"
    BY <1>1, <1>2 DEF IInv, TypeOK, RunningIffExecuting
  <2>5. lifetime = "resident" /\ ~cancelNotified' /\ ~disposed
          => state = "idle"
    BY <1>1, <2>4 DEF IInv, ResidentSurvives
  <2>6. /\ promise' \in [Ids -> {"none", "pending", "resolved", "rejected"}]
        /\ cancelNotified' \in BOOLEAN
        /\ terminal' \in {"none", "completed", "failed", "cancelled"}
    BY <1>1 DEF IInv, TypeOK
  <2> QED BY <1>1, <2>1, <2>3, <2>4, <2>5, <2>6, QueueFacts, RanInv
<1>3. CASE ~(~disposed /\ Loud(queue, input) # {})
  <2>1. pump' = "none" /\ UNCHANGED <<state, queue, batch, aborted, bind>>
    BY <1>3 DEF PumpFinally
  <2> QED BY <1>1, <1>3, <2>1
          DEF IInv, TypeOK, PromiseKept, PumpArmed, Loud, RunningIffExecuting,
              ResidentSurvives, Bookkeeping
<1> QED BY <1>2, <1>3

-----------------------------------------------------------------------------
(* Control calls                                                           *)

\* Aborting the current turn and waking a coalesce wait, as far as the
\* invariant is concerned.
LEMMA AbortAndWake ==
  ASSUME IInv, AbortCurrent, WakeCoalesce
  PROVE  /\ aborted' \in BOOLEAN
         /\ aborted' => pump' = "executing"
         /\ pump' \in {"none", "coalescing", "woken", "executing", "ending"}
         /\ pump' = "executing" <=> pump = "executing"
         /\ pump' = "none" <=> pump = "none"
BY DEF IInv, TypeOK, Bookkeeping, AbortCurrent, WakeCoalesce

\* The calls that abort, wake and remove the turns of `out' from the queue
\* with a rejection, and end in state st.
LEMMA ControlInv ==
  ASSUME IInv, AbortCurrent, WakeCoalesce,
         NEW out \in SUBSET queue, NEW st \in States,
         queue' = queue \ out, promise' = Reject(out), state' = st,
         input' \in [Ids -> InputType],
         \A t \in Ids : input[t].handoff = "silent"
                           => input'[t].handoff = "silent",
         disposed' \in BOOLEAN, cancelNotified' \in BOOLEAN,
         terminal' \in {"none", "completed", "failed", "cancelled"},
         held' \in SUBSET Ids,
         UNCHANGED <<lifetime, accepted, batch, bind>>,
         disposed => disposed',
         disposed' => queue' = {},
         ~disposed' => st = state \/ st \notin {"idle", "running"},
         st = "disposed" => disposed' /\ pump = "none",
         lifetime = "resident" /\ ~cancelNotified' /\ ~disposed'
           => st = state /\ ~cancelNotified
  PROVE  IInv'
<1>1. TypeOK'
  <2>1. promise' \in [Ids -> {"none", "pending", "resolved", "rejected"}]
    BY DEF IInv, TypeOK, Reject
  <2>2. queue' \in SUBSET Ids /\ batch' \in SUBSET Ids
    BY DEF IInv, TypeOK
  <2> QED BY <2>1, <2>2, AbortAndWake DEF IInv, TypeOK
<1>2. PromiseKept'
  BY DEF IInv, TypeOK, PromiseKept, Reject
<1>3. PumpArmed'
  <2>1. ASSUME NEW t \in Loud(queue', input') PROVE t \in Loud(queue, input)
    BY DEF IInv, TypeOK, Loud
  <2> QED BY <2>1, AbortAndWake DEF IInv, PumpArmed
<1>4. RunningIffExecuting'
  BY AbortAndWake DEF IInv, RunningIffExecuting
<1>5. ResidentSurvives'
  BY DEF IInv, ResidentSurvives
<1>6. Bookkeeping'
  <2>1. \A t \in queue' \cup batch' : t <= accepted'
    BY DEF IInv, Bookkeeping
  <2>2. pump' # "executing" => batch' = {}
    BY AbortAndWake DEF IInv, Bookkeeping
  <2>3. state' = "disposed" => disposed' /\ pump' = "none"
    BY AbortAndWake
  <2> QED BY <2>1, <2>2, <2>3, AbortAndWake DEF Bookkeeping
<1> QED BY <1>1, <1>2, <1>3, <1>4, <1>5, <1>6 DEF IInv

LEMMA CancelInv == ASSUME IInv, Cancel PROVE IInv'
<1>1. /\ ~disposed /\ AbortCurrent /\ WakeCoalesce /\ cancelNotified' = TRUE
      /\ promise' = Reject(queue) /\ queue' = queue \ queue
      /\ UNCHANGED <<lifetime, accepted, input, batch, disposed, bind, held>>
  BY DEF Cancel
<1>2. state' \in {"cancelled", "draining"}
  BY DEF Cancel, StateAfterTerminal
<1>3. terminal' \in {"none", "completed", "failed", "cancelled"}
  BY TerminalType DEF Cancel
<1>4. state' \in States
  BY <1>2 DEF States
<1>5. input' \in [Ids -> InputType] /\ disposed' \in BOOLEAN
      /\ held' \in SUBSET Ids /\ cancelNotified' \in BOOLEAN
  BY <1>1 DEF IInv, TypeOK
<1> QED BY <1>1, <1>2, <1>3, <1>4, <1>5, ControlInv

LEMMA InterruptTurnInv == ASSUME IInv, InterruptTurn PROVE IInv'
<1>1. /\ ~disposed /\ AbortCurrent /\ WakeCoalesce
      /\ UNCHANGED <<lifetime, state, accepted, input, batch, disposed,
                     cancelNotified, terminal, bind, held>>
  BY DEF InterruptTurn
<1>2. \/ queue' = queue \ {} /\ promise' = promise
      \/ queue' = queue \ queue /\ promise' = Reject(queue)
  BY DEF InterruptTurn
<1>3. promise = Reject({})
  BY DEF IInv, TypeOK, Reject
<1>4. PICK out \in {{}, queue} : queue' = queue \ out /\ promise' = Reject(out)
  BY <1>2, <1>3
<1>5. /\ input' \in [Ids -> InputType] /\ disposed' \in BOOLEAN
      /\ held' \in SUBSET Ids /\ cancelNotified' \in BOOLEAN
      /\ terminal' \in {"none", "completed", "failed", "cancelled"}
      /\ state \in States /\ state # "disposed"
  BY <1>1 DEF IInv, TypeOK, Bookkeeping
<1> QED BY <1>1, <1>4, <1>5, ControlInv

LEMMA InterruptAndClearInv == ASSUME IInv, InterruptAndClear PROVE IInv'
<1>1. /\ ~disposed /\ AbortCurrent /\ WakeCoalesce
      /\ promise' = Reject(queue) /\ queue' = queue \ queue
      /\ UNCHANGED <<lifetime, state, accepted, input, batch, disposed,
                     cancelNotified, terminal, bind, held>>
  BY DEF InterruptAndClear
<1>2. /\ input' \in [Ids -> InputType] /\ disposed' \in BOOLEAN
      /\ held' \in SUBSET Ids /\ cancelNotified' \in BOOLEAN
      /\ terminal' \in {"none", "completed", "failed", "cancelled"}
      /\ state \in States /\ state # "disposed"
  BY <1>1 DEF IInv, TypeOK, Bookkeeping
<1> QED BY <1>1, <1>2, ControlInv

LEMMA StopTurnInv == ASSUME IInv, StopTurn PROVE IInv'
<1> DEFINE peers == {t \in queue : input[t].feedback \/ input[t].agent}
           assignments == {t \in peers : /\ ~input[t].feedback
                                         /\ input[t].type = "user_input"}
<1>1. /\ ~disposed /\ AbortCurrent /\ WakeCoalesce
      /\ queue' = queue \ assignments
      /\ promise' = Reject(assignments)
      /\ held' = held \cup peers
      /\ input' = [t \in Ids |-> IF t \in peers \ assignments
                                 THEN [input[t] EXCEPT !.handoff = "silent"]
                                 ELSE input[t]]
      /\ UNCHANGED <<lifetime, state, accepted, batch, disposed,
                     cancelNotified, terminal, bind>>
  BY DEF StopTurn
<1>2. assignments \in SUBSET queue /\ peers \in SUBSET queue
  OBVIOUS
<1> HIDE DEF peers, assignments
<1>3. /\ input' \in [Ids -> InputType]
      /\ \A t \in Ids : input[t].handoff = "silent"
                            => input'[t].handoff = "silent"
  BY <1>1 DEF IInv, TypeOK, InputType, Handoffs
<1>4. held' \in SUBSET Ids
  BY <1>1, <1>2 DEF IInv, TypeOK
<1>5. /\ disposed' \in BOOLEAN /\ cancelNotified' \in BOOLEAN
      /\ terminal' \in {"none", "completed", "failed", "cancelled"}
      /\ state \in States /\ state # "disposed"
  BY <1>1 DEF IInv, TypeOK, Bookkeeping
<1> QED BY <1>1, <1>2, <1>3, <1>4, <1>5, ControlInv

LEMMA DisposeInv == ASSUME IInv, Dispose PROVE IInv'
<1>1. /\ ~disposed /\ disposed' = TRUE /\ AbortCurrent /\ WakeCoalesce
      /\ promise' = Reject(queue) /\ queue' = queue \ queue
      /\ UNCHANGED <<lifetime, state, accepted, input, batch, cancelNotified,
                     terminal, bind, held>>
  BY DEF Dispose
<1>2. /\ input' \in [Ids -> InputType] /\ disposed' \in BOOLEAN
      /\ held' \in SUBSET Ids /\ cancelNotified' \in BOOLEAN
      /\ terminal' \in {"none", "completed", "failed", "cancelled"}
      /\ state \in States /\ state # "disposed"
  BY <1>1 DEF IInv, TypeOK, Bookkeeping
<1> QED BY <1>1, <1>2, ControlInv

LEMMA StateOnlyInv ==
  ASSUME IInv, ResidentHasNoTerminal, DisposeFinishes \/ PersistFails
  PROVE  IInv'
<1>1. /\ UNCHANGED <<lifetime, accepted, input, promise, queue, batch, pump,
                     aborted, disposed, cancelNotified, terminal, bind, held>>
      /\ \/ state' = "disposed" /\ disposed /\ pump = "none"
         \/ /\ state' = "failed" /\ ~disposed
            /\ terminal # "none" \/ (lifetime = "resident" /\ cancelNotified)
  BY DEF DisposeFinishes, PersistFails
<1>2. TypeOK' /\ PromiseKept' /\ PumpArmed' /\ RunningIffExecuting'
      /\ Bookkeeping'
  BY <1>1 DEF IInv, TypeOK, States, PromiseKept, PumpArmed, Loud,
              RunningIffExecuting, Bookkeeping
<1>3. ResidentSurvives'
  BY <1>1 DEF IInv, ResidentSurvives, ResidentHasNoTerminal
<1> QED BY <1>2, <1>3 DEF IInv

LEMMA StageInv ==
  ASSUME IInv, NEW k \in Bindings, Stage(k) PROVE IInv'
<1>1. bind' \in [Bindings -> BindingType]
  BY RevisionAssumption
     DEF IInv, TypeOK, Stage, BindingType, Revisions, NoSnapshot
<1> QED BY <1>1 DEF Stage, IInv, TypeOK, PromiseKept, PumpArmed, Loud,
                    RunningIffExecuting, ResidentSurvives, Bookkeeping

-----------------------------------------------------------------------------
(* The theorems                                                            *)

LEMMA TerminalStep ==
  ASSUME Next
  PROVE  /\ lifetime' = lifetime
         /\ \/ UNCHANGED terminal
            \/ \E k \in {"completed", "failed", "cancelled"} : OnTerminal(k)
<1>1. CASE \E i \in Inputs : Accept(i)
  BY <1>1 DEF Accept, AcceptPassive, AcceptQueued, AcceptAndPump
<1>2. CASE ExecutorSettles
  BY <1>2 DEF ExecutorSettles, ExecutorResolves, AbortedTurnEnds, FailedTurnEnds
<1>3. CASE CoalesceTimer \/ ResumeAfterCoalesce \/ PumpFinally
  BY <1>3 DEF CoalesceTimer, ResumeAfterCoalesce, PumpFinally
<1>4. CASE Cancel
  BY <1>4 DEF Cancel
<1>5. CASE \/ InterruptTurn \/ StopTurn \/ InterruptAndClear \/ Dispose
           \/ DisposeFinishes \/ PersistFails \/ \E k \in Bindings : Stage(k)
  BY <1>5 DEF InterruptTurn, StopTurn, InterruptAndClear, Dispose,
              DisposeFinishes, PersistFails, Stage
<1> QED BY <1>1, <1>2, <1>3, <1>4, <1>5 DEF Next

LEMMA ResidentTerminal == Spec => []ResidentHasNoTerminal
<1>1. Init => ResidentHasNoTerminal
  BY DEF Init, ResidentHasNoTerminal
<1>2. ResidentHasNoTerminal /\ [Next]_vars => ResidentHasNoTerminal'
  <2>1. CASE Next
    BY <2>1, TerminalStep DEF ResidentHasNoTerminal, OnTerminal, Heard
  <2>2. CASE UNCHANGED vars
    BY <2>2 DEF vars, ResidentHasNoTerminal
  <2> QED BY <2>1, <2>2
<1> QED BY <1>1, <1>2, PTL DEF Spec

LEMMA NextInv == IInv /\ ResidentHasNoTerminal /\ [Next]_vars => IInv'
<1> SUFFICES ASSUME IInv, ResidentHasNoTerminal, [Next]_vars PROVE IInv'
  OBVIOUS
<1>1. CASE \E i \in Inputs : Accept(i)
  BY <1>1, AcceptPassiveInv, AcceptQueuedInv, AcceptAndPumpInv DEF Accept
<1>2. CASE CoalesceTimer
  BY <1>2, CoalesceTimerInv
<1>3. CASE ResumeAfterCoalesce
  BY <1>3, ResumeInv
<1>4. CASE ExecutorSettles
  BY <1>4, ExecutorResolvesInv, AbortedTurnEndsInv, FailedTurnEndsInv
     DEF ExecutorSettles
<1>5. CASE PumpFinally
  BY <1>5, PumpFinallyInv
<1>6. CASE Cancel \/ InterruptTurn \/ StopTurn \/ InterruptAndClear
  BY <1>6, CancelInv, InterruptTurnInv, StopTurnInv, InterruptAndClearInv
<1>7. CASE Dispose \/ DisposeFinishes \/ PersistFails
  BY <1>7, DisposeInv, StateOnlyInv
<1>8. CASE \E k \in Bindings : Stage(k)
  BY <1>8, StageInv
<1>9. CASE UNCHANGED vars
  BY <1>9 DEF vars, IInv, TypeOK, PromiseKept, PumpArmed, Loud,
              RunningIffExecuting, ResidentSurvives, Bookkeeping
<1> QED BY <1>1, <1>2, <1>3, <1>4, <1>5, <1>6, <1>7, <1>8, <1>9 DEF Next

LEMMA Invariance == Spec => []IInv
BY InitInv, NextInv, ResidentTerminal, PTL DEF Spec

\* Every variable of the controller keeps its type.
THEOREM TypeCorrect == Spec => []TypeOK
<1>1. IInv => TypeOK
  BY DEF IInv
<1> QED BY <1>1, Invariance, PTL

\* Every accepted turn is answered exactly once: pending while queued or being
\* executed, and in one of the two places only.
THEOREM PromisesAreKept == Spec => []PromiseKept
<1>1. IInv => PromiseKept
  BY DEF IInv
<1> QED BY <1>1, Invariance, PTL

\* No wake-up is lost: queued work always has a pump scheduled.
THEOREM NoLostWakeup == Spec => []PumpArmed
<1>1. IInv => PumpArmed
  BY DEF IInv
<1> QED BY <1>1, Invariance, PTL

\* The state the tree shows is "running" exactly while a batch executes.
THEOREM StateShowsExecution == Spec => []RunningIffExecuting
<1>1. IInv => RunningIffExecuting
  BY DEF IInv
<1> QED BY <1>1, Invariance, PTL

\* No interruption and no failing turn takes a resident out of service.
THEOREM ResidentsSurvive == Spec => []ResidentSurvives
<1>1. IInv => ResidentSurvives
  BY DEF IInv
<1> QED BY <1>1, Invariance, PTL

\* A disposed controller holds no turn and owes no answer.
THEOREM DisposedMeansQuiet == Spec => []DisposedIsQuiet
<1>1. IInv => DisposedIsQuiet
  BY DEF IInv, DisposedIsQuiet, PromiseKept, Bookkeeping
<1> QED BY <1>1, Invariance, PTL

-----------------------------------------------------------------------------
(* What a caller may rely on, for every number of turns and every input:   *)
(* a turn keeps its snapshots, a stop holds, and the controller implements *)
(* its contract.  All of it rests on the invariant above.                  *)

\* A stretch of the pump takes its batch out of q, and only for a turn that may
\* start one.
LEMMA LoopFacts ==
  ASSUME NEW q, NEW st, NEW bd, NEW inp, LoopTop(q, st, bd, inp)
  PROVE  /\ queue' \cup batch' = q
         /\ batch' # {} => Loud(q, inp) # {}
<1>1. CASE disposed \/ Loud(q, inp) = {}
  BY <1>1 DEF LoopTop, ReturnFromLoop
<1>2. CASE ~(disposed \/ Loud(q, inp) = {})
  <2>1. StartCoalesce(q, st, bd) \/ StartBatch(q, bd, inp)
    BY <1>2 DEF LoopTop
  <2> QED BY <1>2, <2>1, BatchIsQueued DEF StartCoalesce, StartBatch
<1> QED BY <1>1, <1>2

-----------------------------------------------------------------------------
(* Snapshots                                                               *)

\* The newest snapshot is the one that comes next.
Newest(bd) == \A k \in Bindings : Upcoming(bd[k]) = bd[k].latest

LEMMA ReconcileKeeps ==
  ASSUME NEW b \in BindingType
  PROVE  /\ Reconcile(b) \in BindingType
         /\ Upcoming(Reconcile(b)) = Upcoming(b) /\ Reconcile(b).latest = b.latest
         /\ Upcoming(Pin(b)) = Upcoming(b) /\ Pin(b).latest = b.latest
         /\ Pin(b).current = Pin(b).pinned
BY RevisionAssumption DEF Reconcile, Pin, Upcoming, BindingType, Revisions, NoSnapshot

LEMMA LoopPins ==
  ASSUME NEW q, NEW st, NEW inp, NEW bd \in [Bindings -> BindingType], Newest(bd),
         LoopTop(q, st, bd, inp) \/ ReturnFromLoop(q, st, bd) \/ StartBatch(q, bd, inp)
  PROVE  TurnsArePinned'
<1>1. \/ pump' # "executing" /\ bind' = bd
      \/ bind' = Pinned(bd)
  BY DEF LoopTop, ReturnFromLoop, StartCoalesce, StartBatch
<1>2. CASE pump' # "executing" /\ bind' = bd
  BY <1>2 DEF TurnsArePinned, Newest
<1>3. CASE bind' = Pinned(bd)
  <2>1. ASSUME NEW k \in Bindings
        PROVE  bind'[k].current = bind'[k].pinned /\ Upcoming(bind'[k]) = bind'[k].latest
    <3>1. bd[k] \in BindingType /\ bind'[k] = Pin(bd[k])
      BY <1>3 DEF Pinned
    <3> QED BY <3>1, ReconcileKeeps DEF Newest
  <2> QED BY <2>1 DEF TurnsArePinned
<1> QED BY <1>1, <1>2, <1>3

LEMMA PinnedStep ==
  ASSUME IInv, TurnsArePinned, [Next]_vars PROVE TurnsArePinned'
<1>1. Newest(bind) /\ bind \in [Bindings -> BindingType]
  BY DEF TurnsArePinned, Newest, IInv, TypeOK
<1>2. Newest(Reconciled) /\ Reconciled \in [Bindings -> BindingType]
  BY <1>1, ReconcileKeeps DEF Newest, Reconciled
<1>3. CASE ExecutorSettles
  <2>1. \E st : LoopTop(queue, st, Reconciled, input)
    BY <1>3 DEF ExecutorSettles, ExecutorResolves, AbortedTurnEnds, FailedTurnEnds
  <2> QED BY <1>2, <2>1, LoopPins
<1>4. CASE ResumeAfterCoalesce
  BY <1>1, <1>4, LoopPins DEF ResumeAfterCoalesce
<1>5. CASE PumpFinally
  <2>1. \/ LoopTop(queue, state, bind, input)
        \/ pump' = "none" /\ bind' = bind
    BY <1>5 DEF PumpFinally
  <2> QED BY <1>1, <2>1, LoopPins DEF TurnsArePinned
<1>6. CASE \E i \in Inputs : AcceptAndPump(i)
  <2>1. \E q : LoopTop(q, state, bind, input')
    BY <1>6 DEF AcceptAndPump
  <2> QED BY <1>1, <2>1, LoopPins
<1>7. CASE \E k \in Bindings : Stage(k)
  <2>1. PICK k \in Bindings : Stage(k)
    BY <1>7
  <2>2. ASSUME NEW j \in Bindings
        PROVE  /\ bind'[j].current = bind[j].current /\ bind'[j].pinned = bind[j].pinned
               /\ Upcoming(bind'[j]) = bind'[j].latest
    BY <1>1, <2>1, RevisionAssumption
       DEF Stage, Newest, Upcoming, BindingType, Revisions, NoSnapshot
  <2>3. pump' = pump
    BY <2>1 DEF Stage
  <2> QED BY <2>2, <2>3 DEF TurnsArePinned
<1>8. CASE \/ \E i \in Inputs : AcceptPassive(i) \/ AcceptQueued(i)
           \/ CoalesceTimer \/ Cancel \/ InterruptTurn \/ StopTurn
           \/ InterruptAndClear \/ Dispose \/ DisposeFinishes \/ PersistFails
           \/ UNCHANGED vars
  <2>1. bind' = bind /\ (pump' = "executing" => pump = "executing")
    BY <1>8 DEF AcceptPassive, AcceptQueued, CoalesceTimer, Cancel, InterruptTurn,
       StopTurn, InterruptAndClear, Dispose, DisposeFinishes, PersistFails, vars,
       WakeCoalesce
  <2> QED BY <2>1 DEF TurnsArePinned
<1> QED BY <1>3, <1>4, <1>5, <1>6, <1>7, <1>8 DEF Next, Accept

\* A turn works on the snapshots it began with, and the newest one staged is the
\* next to be pinned (RuntimeConfigBinding, AgentExecutionBinding).
THEOREM SnapshotsStayPinned == Spec => []TurnsArePinned
<1>1. Init => TurnsArePinned
  BY DEF Init, TurnsArePinned, Upcoming, NoSnapshot
<1> QED BY <1>1, PinnedStep, Invariance, PTL DEF Spec

-----------------------------------------------------------------------------
(* Stops                                                                   *)

\* What sat in the queue at a stop is old, and what is still there is silent and
\* no assignment of a peer.
Calm ==
  /\ \A t \in held : t <= accepted
  /\ \A t \in held \cap queue :
       /\ input[t].handoff = "silent"
       /\ input[t].feedback \/ input[t].type # "user_input"

LEMMA CalmQuiet ==
  ASSUME Calm, queue' \subseteq queue, UNCHANGED <<held, accepted, input>>
  PROVE  Calm'
BY DEF Calm

LEMMA CalmAccept ==
  ASSUME IInv, Calm, NEW i, Accepting, accepted' = accepted + 1, held' = held,
         input' = [input EXCEPT ![accepted + 1] = Effective(i)],
         queue' \subseteq queue \cup {accepted + 1}
  PROVE  Calm'
<1>1. accepted \in Nat /\ \A t \in held : t \in Nat /\ t <= accepted
  BY MaxTurnsAssumption DEF IInv, TypeOK, Calm, Ids
<1>2. \A t \in held : t <= accepted' /\ t # accepted + 1
  BY <1>1
<1>3. \A t \in held \cap queue' : t \in queue /\ input'[t] = input[t]
  BY <1>2 DEF IInv, TypeOK
<1> QED BY <1>2, <1>3 DEF Calm

LEMMA CalmStop == ASSUME IInv, Calm, StopTurn PROVE Calm'
<1> DEFINE peers == {t \in queue : input[t].feedback \/ input[t].agent}
           assignments == {t \in peers : /\ ~input[t].feedback
                                         /\ input[t].type = "user_input"}
<1>1. /\ queue' = queue \ assignments /\ held' = held \cup peers
      /\ input' = [t \in Ids |-> IF t \in peers \ assignments
                                 THEN [input[t] EXCEPT !.handoff = "silent"]
                                 ELSE input[t]]
      /\ accepted' = accepted
  BY DEF StopTurn
<1>2. \A t \in held' : t <= accepted'
  BY <1>1 DEF Calm, IInv, Bookkeeping
<1>3. ASSUME NEW t \in held' \cap queue'
      PROVE  /\ input'[t].handoff = "silent"
             /\ input'[t].feedback \/ input'[t].type # "user_input"
  <2>1. t \in queue /\ t \notin assignments /\ t \in Ids /\ input[t] \in InputType
    BY <1>1 DEF IInv, TypeOK
  <2>2. CASE t \in peers
    <3>1. input'[t] = [input[t] EXCEPT !.handoff = "silent"]
      BY <1>1, <2>1, <2>2
    <3>2. input[t].feedback \/ input[t].type # "user_input"
      BY <2>1, <2>2
    <3> QED BY <2>1, <3>1, <3>2 DEF InputType
  <2>3. CASE t \notin peers
    <3>1. t \in held \cap queue /\ input'[t] = input[t]
      BY <1>1, <2>1, <2>3
    <3> QED BY <3>1 DEF Calm
  <2> QED BY <2>2, <2>3
<1> QED BY <1>2, <1>3 DEF Calm

\* The queue that a stretch of the pump begins with.
LEMMA LoopQueue ==
  ASSUME NEW q, NEW st, NEW bd, NEW inp,
         LoopTop(q, st, bd, inp) \/ ReturnFromLoop(q, st, bd) \/ StartBatch(q, bd, inp)
  PROVE  queue' \subseteq q
BY LoopFacts DEF ReturnFromLoop, StartBatch

LEMMA CalmStep == ASSUME IInv, Calm, [Next]_vars PROVE Calm'
<1>1. CASE \E i \in Inputs : AcceptPassive(i)
  BY <1>1, CalmAccept DEF AcceptPassive
<1>2. CASE \E i \in Inputs : AcceptQueued(i)
  BY <1>2, CalmAccept DEF AcceptQueued, Pushed
<1>3. CASE \E i \in Inputs : AcceptAndPump(i)
  <2>1. PICK i \in Inputs : AcceptAndPump(i)
    BY <1>3
  <2>2. queue' \subseteq Pushed(accepted + 1)
    BY <2>1, LoopQueue DEF AcceptAndPump
  <2>3. /\ Accepting /\ accepted' = accepted + 1 /\ held' = held
        /\ input' = [input EXCEPT ![accepted + 1] = Effective(i)]
    BY <2>1 DEF AcceptAndPump
  <2> QED BY <2>2, <2>3, CalmAccept DEF Pushed
<1>4. CASE ExecutorSettles \/ ResumeAfterCoalesce \/ PumpFinally
  <2>1. queue' \subseteq queue
    BY <1>4, LoopQueue DEF ExecutorSettles, ExecutorResolves, AbortedTurnEnds,
       FailedTurnEnds, ResumeAfterCoalesce, PumpFinally
  <2>2. UNCHANGED <<held, accepted, input>>
    BY <1>4 DEF ExecutorSettles, ExecutorResolves, AbortedTurnEnds,
       FailedTurnEnds, ResumeAfterCoalesce, PumpFinally
  <2> QED BY <2>1, <2>2, CalmQuiet
<1>5. CASE StopTurn
  BY <1>5, CalmStop
<1>6. CASE \/ CoalesceTimer \/ Cancel \/ InterruptTurn \/ InterruptAndClear \/ Dispose
           \/ DisposeFinishes \/ PersistFails \/ \E k \in Bindings : Stage(k)
           \/ UNCHANGED vars
  <2>1. queue' \subseteq queue /\ UNCHANGED <<held, accepted, input>>
    BY <1>6 DEF CoalesceTimer, Cancel, InterruptTurn, InterruptAndClear, Dispose,
       DisposeFinishes, PersistFails, Stage, vars
  <2> QED BY <2>1, CalmQuiet
<1> QED BY <1>1, <1>2, <1>3, <1>4, <1>5, <1>6 DEF Next, Accept

\* A batch that the pump takes from the queue as it stands.
LEMMA BatchOfQueue ==
  ASSUME IInv, Calm, queue' \cup batch' = queue,
         batch' # {} => Loud(queue, input) # {}
  PROVE  batch' # {} =>
           /\ \E t \in queue' \cup batch' : t \notin held
           /\ \A t \in batch' \cap held : input[t].feedback \/ input[t].type # "user_input"
BY DEF Calm, Loud

LEMMA StopStep ==
  ASSUME IInv, Calm, Next, batch' # batch, batch' # {}
  PROVE  /\ \E t \in queue' \cup batch' : t \notin held
         /\ \A t \in batch' \cap held : input[t].feedback \/ input[t].type # "user_input"
<1>1. CASE \E i \in Inputs : AcceptAndPump(i)
  <2> DEFINE new == accepted + 1
  <2>1. PICK i \in Inputs : AcceptAndPump(i)
    BY <1>1
  <2>2. /\ queue' \cup batch' = Pushed(new) /\ Loud(Pushed(new), input') # {}
        /\ input' = [input EXCEPT ![new] = Effective(i)]
    BY <2>1, LoopFacts DEF AcceptAndPump
  <2>3. Pushed(new) \subseteq queue \cup {new}
    BY DEF Pushed
  <2>4. new \notin held
    BY MaxTurnsAssumption DEF Calm, IInv, TypeOK, Ids
  <2> HIDE DEF new
  <2>5. \A t \in held : input'[t] = input[t]
    BY <2>2, <2>4 DEF IInv, TypeOK
  <2>6. PICK u \in Pushed(new) : input'[u].handoff # "silent"
    BY <2>2 DEF Loud
  <2>7. u \notin held
    BY <2>3, <2>4, <2>5, <2>6 DEF Calm
  <2>8. \A t \in batch' \cap held : input[t].feedback \/ input[t].type # "user_input"
    BY <2>2, <2>3, <2>4 DEF Calm
  <2> QED BY <2>2, <2>6, <2>7, <2>8
<1>2. CASE ResumeAfterCoalesce
  <2>1. queue' \cup batch' = queue /\ (batch' # {} => Loud(queue, input) # {})
    BY <1>2, BatchIsQueued DEF ResumeAfterCoalesce, ReturnFromLoop, StartBatch
  <2> QED BY <2>1, BatchOfQueue
<1>3. CASE ExecutorSettles \/ PumpFinally
  <2>1. \E st, bd : LoopTop(queue, st, bd, input)
    BY <1>3 DEF ExecutorSettles, ExecutorResolves, AbortedTurnEnds, FailedTurnEnds,
       PumpFinally
  <2>2. queue' \cup batch' = queue /\ (batch' # {} => Loud(queue, input) # {})
    BY <2>1, LoopFacts
  <2> QED BY <2>2, BatchOfQueue
<1>4. CASE \/ \E i \in Inputs : AcceptPassive(i) \/ AcceptQueued(i)
           \/ CoalesceTimer \/ Cancel \/ InterruptTurn \/ StopTurn
           \/ InterruptAndClear \/ Dispose \/ DisposeFinishes \/ PersistFails
           \/ \E k \in Bindings : Stage(k)
  BY <1>4 DEF AcceptPassive, AcceptQueued, CoalesceTimer, Cancel, InterruptTurn,
     StopTurn, InterruptAndClear, Dispose, DisposeFinishes, PersistFails, Stage
<1> QED BY <1>1, <1>2, <1>3, <1>4 DEF Next, Accept

\* After a user's stop, whatever peers had queued waits for something else to
\* wake the pump, and no assignment they had queued is ever executed (stopTurn).
THEOREM StopsHold == Spec => StopHolds
<1>1. Init => Calm
  BY DEF Init, Calm
<1>2. Spec => []Calm
  BY <1>1, CalmStep, Invariance, PTL DEF Spec
<1>3. ASSUME IInv, Calm, [Next]_vars
      PROVE  [batch' # batch /\ batch' # {} =>
                /\ \E t \in queue' \cup batch' : t \notin held
                /\ \A t \in batch' \cap held :
                     input[t].feedback \/ input[t].type # "user_input"]_vars
  BY <1>3, StopStep
<1> QED BY <1>2, <1>3, Invariance, PTL DEF Spec, StopHolds

-----------------------------------------------------------------------------
(* The contract                                                            *)

\* Turns that have not been offered have no promise.
Unoffered == \A t \in Ids : t > accepted => promise[t] = "none"

\* The turn that the next call may offer.
New == accepted + 1

\* What a step may do to promises, queue and batch: one turn is offered, or is
\* answered on arrival; what leaves the queue is worked on or rejected; and a
\* batch stays, or gets one answer.
Moves(fate) ==
  /\ \A u \in Ids \ (queue \cup batch \cup {New}) :
       promise'[u] = promise[u] /\ u \notin queue' \cup batch'
  /\ \A u \in queue : u \in queue' \cup batch' \/ promise'[u] = "rejected"
  /\ New \in Ids /\ New \notin queue' \cup batch' => promise'[New] \in {"none", "resolved"}
  /\ fate = "working" => batch = {} \/ batch' = batch
  /\ fate # "working" => \A u \in batch : promise'[u] = fate

Fates == {"working", "resolved", "rejected"}

LEMMA NewIsFresh ==
  ASSUME IInv, Unoffered
  PROVE  /\ accepted \in Nat
         /\ New \notin queue \cup batch
         /\ New \in Ids => promise[New] = "none"
<1>1. accepted \in Nat /\ \A t \in queue \cup batch : t \in Nat /\ t <= accepted
  BY MaxTurnsAssumption DEF IInv, TypeOK, Bookkeeping, Ids
<1>2. New > accepted /\ New \notin queue \cup batch
  BY <1>1 DEF New
<1> QED BY <1>1, <1>2 DEF Unoffered

\* Where a turn stands, from queue, batch and promise.
LEMMA StatusIs ==
  ASSUME IInv
  PROVE  /\ TurnStatus = [t \in Ids |-> TurnStatus[t]]
         /\ \A t \in Ids :
              /\ t \in batch => TurnStatus[t] = "working"
              /\ t \in queue => TurnStatus[t] = "waiting"
              /\ t \notin queue \cup batch => /\ TurnStatus[t] = promise[t]
                                              /\ promise[t] \in {"none", "resolved", "rejected"}
BY DEF TurnStatus, IInv, TypeOK, PromiseKept

LEMMA StatusIsNext ==
  ASSUME IInv'
  PROVE  /\ TurnStatus' = [t \in Ids |-> TurnStatus'[t]]
         /\ \A t \in Ids :
              /\ t \in batch' => TurnStatus'[t] = "working"
              /\ t \in queue' => TurnStatus'[t] = "waiting"
              /\ t \notin queue' \cup batch' => /\ TurnStatus'[t] = promise'[t]
                                                /\ promise'[t] \in {"none", "resolved", "rejected"}
BY DEF TurnStatus, IInv, TypeOK, PromiseKept

\* A step that moves turns in this way is one the contract allows.
LEMMA MovesAreAllowed ==
  ASSUME IInv, IInv', Unoffered, NEW fate \in Fates, Moves(fate)
  PROVE  Contract!Next
<1> DEFINE s == TurnStatus
           f == TurnStatus'
<1>1. f \in [Ids -> Contract!Statuses]
  BY StatusIsNext DEF Contract!Statuses
<1>2. Contract!Working(s) = batch /\ Contract!Working(f) = batch'
  BY StatusIs, StatusIsNext DEF Contract!Working, IInv, TypeOK
<1>3. ASSUME NEW t \in Ids \ batch PROVE f[t] \in Contract!Successors(s[t])
  <2>1. CASE t \in queue
    <3>1. s[t] = "waiting"
      BY <2>1, StatusIs
    <3>2. f[t] \in {"waiting", "working", "rejected"}
      BY <2>1, StatusIsNext DEF Moves
    <3> QED BY <3>1, <3>2 DEF Contract!Successors
  <2>2. CASE t = New
    <3>1. s[t] = "none"
      BY <2>2, NewIsFresh, StatusIs
    <3>2. f[t] \in {"none", "waiting", "working", "resolved"}
      BY <2>2, StatusIsNext DEF Moves
    <3> QED BY <3>1, <3>2 DEF Contract!Successors
  <2>3. CASE t \notin queue /\ t # New
    <3>1. f[t] = s[t] /\ s[t] \in {"none", "resolved", "rejected"}
      BY <2>3, StatusIs, StatusIsNext DEF Moves
    <3> QED BY <3>1 DEF Contract!Successors
  <2> QED BY <2>1, <2>2, <2>3
<1>4. \A t \in batch : f[t] = fate \/ (fate = "working" /\ batch' = batch)
  <2>1. CASE fate = "working"
    BY <2>1 DEF Moves
  <2>2. CASE fate # "working"
    <3>1. ASSUME NEW t \in batch PROVE f[t] = fate
      <4>1. t \in Ids /\ promise'[t] = fate /\ fate # "pending"
        BY <2>2 DEF Moves, IInv, TypeOK, Fates
      <4>2. t \notin queue' \cup batch'
        BY <4>1 DEF IInv, PromiseKept
      <4> QED BY <4>1, <4>2, StatusIsNext
    <3> QED BY <3>1
  <2> QED BY <2>1, <2>2
<1>5. \A t \in batch : f[t] = fate
  BY <1>4, StatusIsNext DEF IInv, TypeOK
<1>6. fate = "working" /\ batch # {} => batch' = batch
  BY DEF Moves
<1>7. ASSUME NEW t \in Contract!Fresh(s) \ Contract!Fresh(f) PROVE t = New
  <2>1. t \in Ids /\ s[t] = "none" /\ f[t] # "none"
    BY <1>7, <1>1 DEF Contract!Fresh
  <2>2. t \notin queue \cup batch
    BY <2>1, StatusIs
  <2> QED BY <2>1, <2>2, StatusIs, StatusIsNext DEF Moves
<1>8. fate \in {"working"} \cup Contract!Answers
  BY DEF Fates, Contract!Answers
<1>9. Contract!Step(f)
  <2>1. \A t \in Ids \ Contract!Working(s) : f[t] \in Contract!Successors(s[t])
    BY <1>2, <1>3
  <2>2. /\ \A t \in Contract!Working(s) : f[t] = fate
        /\ fate = "working" /\ Contract!Working(s) # {}
             => Contract!Working(f) = Contract!Working(s)
    BY <1>2, <1>5, <1>6
  <2>3. \A t, u \in Contract!Fresh(s) \ Contract!Fresh(f) : t = u
    BY <1>7
  <2> HIDE DEF f
  <2> QED BY <1>8, <2>1, <2>2, <2>3 DEF Contract!Step
<1> QED BY <1>1, <1>9 DEF Contract!Next

\* Nobody is offered: what leaves the queue was rejected, the batch stays.
LEMMA ControlMoves ==
  ASSUME IInv, Unoffered, NEW out \in SUBSET queue,
         queue' = queue \ out, batch' = batch, promise' = Reject(out)
  PROVE  Moves("working")
BY NewIsFresh DEF Moves, Reject, IInv, TypeOK

\* Promises stay, and at most a batch is taken.
LEMMA PumpMoves ==
  ASSUME IInv, Unoffered, batch = {} \/ batch' = batch,
         queue' \cup batch' = queue \cup batch, promise' = promise
  PROVE  Moves("working")
BY NewIsFresh DEF Moves, IInv, TypeOK

\* The batch is answered, and another may be taken.
LEMMA EndMoves ==
  ASSUME IInv, Unoffered, NEW a \in {"resolved", "rejected"},
         promise' = [t \in Ids |-> IF t \in batch THEN a ELSE promise[t]],
         queue' \cup batch' = queue
  PROVE  Moves(a)
BY NewIsFresh DEF Moves, IInv, TypeOK

\* A turn is queued, or begun with what the queue holds.
LEMMA OfferMoves ==
  ASSUME IInv, Unoffered, Accepting, batch = {} \/ batch' = batch,
         queue' \cup batch' = Pushed(New) \cup batch,
         promise' = [Reject(Overflow(queue \cup {New})) EXCEPT ![New] = "pending"]
  PROVE  Moves("working")
<1>1. /\ New \in Ids /\ New \notin queue \cup batch
      /\ Overflow(queue \cup {New}) \subseteq queue
      /\ Pushed(New) = (queue \ Overflow(queue \cup {New})) \cup {New}
  BY NewTurn DEF IInv, New
<1> HIDE DEF New
<1> QED BY <1>1 DEF Moves, Reject, IInv, TypeOK

LEMMA NextMoves ==
  ASSUME IInv, Unoffered, Next PROVE \E fate \in Fates : Moves(fate)
<1>1. CASE \E i \in Inputs : AcceptPassive(i)
  <2>1. /\ promise' = [promise EXCEPT ![New] = "resolved"]
        /\ queue' = queue /\ batch' = batch
    BY <1>1 DEF AcceptPassive, New
  <2>2. Moves("working")
    BY <2>1, NewIsFresh DEF Moves, IInv, TypeOK
  <2> QED BY <2>2 DEF Fates
<1>2. CASE \E i \in Inputs : AcceptQueued(i)
  <2>1. Moves("working")
    BY <1>2, OfferMoves DEF AcceptQueued, New
  <2> QED BY <2>1 DEF Fates
<1>3. CASE \E i \in Inputs : AcceptAndPump(i)
  <2>1. PICK i \in Inputs : AcceptAndPump(i)
    BY <1>3
  <2>2. queue' \cup batch' = Pushed(New)
    BY <2>1, LoopFacts DEF AcceptAndPump, New
  <2>3. batch = {} /\ Accepting
        /\ promise' = [Reject(Overflow(queue \cup {New})) EXCEPT ![New] = "pending"]
    BY <2>1 DEF AcceptAndPump, New, IInv, Bookkeeping
  <2>4. Moves("working")
    BY <2>2, <2>3, OfferMoves
  <2> QED BY <2>4 DEF Fates
<1>4. CASE ResumeAfterCoalesce \/ PumpFinally
  <2>1. batch = {} /\ promise' = promise
    BY <1>4 DEF ResumeAfterCoalesce, PumpFinally, IInv, Bookkeeping
  <2>2. queue' \cup batch' = queue
    BY <1>4, <2>1, LoopFacts, BatchIsQueued
       DEF ResumeAfterCoalesce, PumpFinally, ReturnFromLoop, StartBatch
  <2>3. Moves("working")
    BY <2>1, <2>2, PumpMoves
  <2> QED BY <2>3 DEF Fates
<1>5. CASE ExecutorSettles
  <2>1. /\ \E st : LoopTop(queue, st, Reconciled, input)
        /\ \E a \in {"resolved", "rejected"} :
             promise' = [t \in Ids |-> IF t \in batch THEN a ELSE promise[t]]
    BY <1>5 DEF ExecutorSettles, ExecutorResolves, AbortedTurnEnds, FailedTurnEnds, Reject
  <2>2. queue' \cup batch' = queue
    BY <2>1, LoopFacts
  <2>3. PICK a \in {"resolved", "rejected"} : Moves(a)
    BY <2>1, <2>2, EndMoves
  <2> QED BY <2>3 DEF Fates
<1>6. CASE Cancel \/ InterruptAndClear \/ Dispose
  <2>1. queue' = queue \ queue /\ batch' = batch /\ promise' = Reject(queue)
    BY <1>6 DEF Cancel, InterruptAndClear, Dispose
  <2>2. Moves("working")
    BY <2>1, ControlMoves
  <2> QED BY <2>2 DEF Fates
<1>7. CASE InterruptTurn
  <2>1. /\ batch' = batch
        /\ \/ queue' = queue /\ promise' = promise
           \/ queue' = queue \ queue /\ promise' = Reject(queue)
    BY <1>7 DEF InterruptTurn
  <2>2. Moves("working")
    BY <2>1, ControlMoves, PumpMoves
  <2> QED BY <2>2 DEF Fates
<1>8. CASE StopTurn
  <2>1. /\ batch' = batch
        /\ \E out \in SUBSET queue : queue' = queue \ out /\ promise' = Reject(out)
    BY <1>8 DEF StopTurn
  <2>2. Moves("working")
    BY <2>1, ControlMoves
  <2> QED BY <2>2 DEF Fates
<1>9. CASE CoalesceTimer \/ DisposeFinishes \/ PersistFails \/ \E k \in Bindings : Stage(k)
  <2>1. queue' = queue /\ batch' = batch /\ promise' = promise
    BY <1>9 DEF CoalesceTimer, DisposeFinishes, PersistFails, Stage
  <2>2. Moves("working")
    BY <2>1, PumpMoves
  <2> QED BY <2>2 DEF Fates
<1> QED BY <1>1, <1>2, <1>3, <1>4, <1>5, <1>6, <1>7, <1>8, <1>9 DEF Next, Accept

LEMMA OfferedStays ==
  ASSUME IInv, Unoffered, [Next]_vars PROVE Unoffered'
<1>1. CASE UNCHANGED vars
  BY <1>1 DEF vars, Unoffered
<1>2. CASE Next
  <2>1. accepted' = accepted \/ accepted' = New
    BY <1>2 DEF Next, Accept, AcceptPassive, AcceptQueued, AcceptAndPump, New,
       CoalesceTimer, ResumeAfterCoalesce, ExecutorSettles, ExecutorResolves,
       AbortedTurnEnds, FailedTurnEnds, PumpFinally, Cancel, InterruptTurn, StopTurn,
       InterruptAndClear, Dispose, DisposeFinishes, PersistFails, Stage
  <2>2. accepted' = accepted => \A t \in Ids : promise[t] = "none" => promise'[t] = "none"
    <3>1. ASSUME accepted' = accepted
          PROVE  \/ promise' = promise
                 \/ \E S \in SUBSET (queue \cup batch), a \in {"resolved", "rejected"} :
                      promise' = [t \in Ids |-> IF t \in S THEN a ELSE promise[t]]
      <4>1. ~\E i \in Inputs : Accept(i)
        BY <3>1, NewIsFresh DEF Accept, AcceptPassive, AcceptQueued, AcceptAndPump
      <4>2. CASE ExecutorSettles
        BY <4>2 DEF ExecutorSettles, ExecutorResolves, AbortedTurnEnds, FailedTurnEnds, Reject
      <4>3. CASE Cancel \/ InterruptTurn \/ StopTurn \/ InterruptAndClear \/ Dispose
        BY <4>3 DEF Cancel, InterruptTurn, StopTurn, InterruptAndClear, Dispose, Reject
      <4>4. CASE \/ CoalesceTimer \/ ResumeAfterCoalesce \/ PumpFinally
                 \/ DisposeFinishes \/ PersistFails \/ \E k \in Bindings : Stage(k)
        BY <4>4 DEF CoalesceTimer, ResumeAfterCoalesce, PumpFinally, DisposeFinishes,
           PersistFails, Stage
      <4> QED BY <1>2, <4>1, <4>2, <4>3, <4>4 DEF Next
    <3> QED BY <3>1 DEF IInv, TypeOK, PromiseKept
  <2>3. \A t \in Ids : t > New => promise'[t] = promise[t]
    <3>1. PICK fate \in Fates : Moves(fate)
      BY <1>2, NextMoves
    <3>2. ASSUME NEW t \in Ids, t > New PROVE t \notin queue \cup batch \cup {New}
      BY <3>2, MaxTurnsAssumption DEF New, IInv, TypeOK, Bookkeeping, Ids
    <3> QED BY <3>1, <3>2 DEF Moves
  <2> QED BY <2>1, <2>2, <2>3, NewIsFresh DEF Unoffered, New, Ids
<1> QED BY <1>1, <1>2

\* The controller implements the safety half of its contract: every step of it is
\* one the contract allows, or one the caller cannot see (acceptTurn and all that
\* follows from it).
THEOREM ContractIsKept == Spec => Contract!Spec
<1>1. Init => Contract!Init /\ Unoffered
  BY DEF Init, Contract!Init, TurnStatus, Unoffered
<1>2. Spec => []Unoffered
  BY <1>1, OfferedStays, Invariance, PTL DEF Spec
<1>3. IInv /\ IInv' /\ Unoffered /\ [Next]_vars => [Contract!Next]_TurnStatus
  <2>1. ASSUME IInv, IInv', Unoffered, Next PROVE Contract!Next
    BY <2>1, NextMoves, MovesAreAllowed
  <2>2. UNCHANGED vars => UNCHANGED TurnStatus
    BY DEF vars, TurnStatus
  <2> QED BY <2>1, <2>2
<1> QED BY <1>1, <1>2, <1>3, Invariance, PTL DEF Spec, Contract!Spec
=============================================================================
