--------------------------- MODULE SessionManager ---------------------------
(***************************************************************************)
(* The process-wide table of live sessions: open, create, close, delete,    *)
(* the move of an old session into its project, eviction of the least       *)
(* recently used, shutdown.  Every call is a process of its own that runs   *)
(* up to its next await; a session instance is named by the call that       *)
(* builds it.  A step ends at an await of something that takes its time.    *)
(***************************************************************************)
EXTENDS Naturals, FiniteSets

CONSTANTS
  Sids,
  Calls,         \* bound: calls made of the manager
  Kinds,         \* what calls there are
  MaxSessions,   \* LRUList.max
  Stored,        \* sessions on disk at the start
  Nothing

ASSUME SessionsAssumption == Stored \subseteq Sids /\ Nothing \notin Calls
ASSUME KindsAssumption ==
  Kinds \subseteq {"open", "create", "close", "delete", "migrate", "shutdown"}
ASSUME CapacityAssumption == MaxSessions \in Nat \ {0}

VARIABLES
  stored,        \* sessions with a session.json
  legacy,        \* those outside their project
  map,           \* SessionManager.map
  opening,       \* SessionManager.opening, by the call that restores
  order,         \* LRUList.order: of a session in the list, the part of the
                 \* list from its head up to that session
  shuttingDown,
  phase,         \* of the instance a call builds
  leased,        \* instances whose lease is held
  call           \* what is called for what, how far it is, whom it awaits, and
                 \* (for the properties) what was under way when it was called

vars == <<stored, legacy, map, opening, order, shuttingDown, phase, leased, call>>

NoCall == [kind |-> "none", sid |-> Nothing, pc |-> "idle", waits |-> {}, saw |-> {}, early |-> FALSE]

Instance(i) == phase[i] \in {"building", "live"}

CallRecords ==
  [kind : Kinds \cup {"none"}, sid : Sids \cup {Nothing},
   pc : {"idle", "building", "failing", "evicting", "joined", "draining",
         "closing", "done", "failed"},
   waits : SUBSET Calls, saw : SUBSET Calls, early : BOOLEAN]

\* who is in the map is in the list, and nobody else
TypeOK ==
  /\ stored \subseteq Sids /\ legacy \subseteq Sids
  /\ map \in [Sids -> Calls \cup {Nothing}]
  /\ opening \in [Sids -> Calls \cup {Nothing}]
  /\ order \in [Sids -> SUBSET Sids]
  /\ \A s \in Sids : IF map[s] = Nothing THEN order[s] = {} ELSE s \in order[s]
  /\ shuttingDown \in BOOLEAN
  /\ phase \in [Calls -> {"none", "building", "live", "disposing", "disposed"}]
  /\ leased \subseteq Calls
  /\ call \in [Calls -> CallRecords]

Init ==
  /\ stored = Stored /\ legacy \in SUBSET Stored
  /\ map = [s \in Sids |-> Nothing] /\ opening = [s \in Sids |-> Nothing]
  /\ order = [s \in Sids |-> {}] /\ shuttingDown = FALSE
  /\ phase = [c \in Calls |-> "none"] /\ leased = {}
  /\ call = [c \in Calls |-> NoCall]

Settled(d) == call[d].pc \in {"done", "failed"}

\* the sessions of s that are up or on the way
Up(s) == {i \in Calls : call[i].sid = s /\ Instance(i)}

\* the instances create() has under way
Creating == {d \in Calls : call[d].kind = "create" /\ call[d].pc = "building"}

Calling(c, kind, s, pc, waits) ==
  call' = [call EXCEPT ![c] =
             [kind |-> kind, sid |-> s, pc |-> pc, waits |-> waits,
              saw |-> IF kind = "shutdown" THEN Creating ELSE Up(s),
              early |-> \E d \in Creating : call[d].sid = s]]

Continue(c, pc, waits) ==
  call' = [call EXCEPT ![c].pc = pc, ![c].waits = waits]

Idle(c, kind) == call[c] = NoCall /\ kind \in Kinds

Shown(m) == {s \in Sids : m[s] # Nothing}

\* touch: s is taken out of the list and put at its end
Touched(s) ==
  [t \in Sids |-> IF t = s THEN {u \in Sids : order[u] # {}} \cup {s}
                 ELSE order[t] \ {s}]

\* remove, of each of the sessions gone
Removed(list, gone) == [t \in Sids |-> IF t \in gone THEN {} ELSE list[t] \ gone]

-----------------------------------------------------------------------------
(* open and create                                                         *)

\* mutant: every cold open restores
OpenAlone(c, s) ==
  /\ Idle(c, "open") /\ ~shuttingDown
  /\ map[s] = Nothing /\ s \in stored
  /\ Calling(c, "open", s, "building", {})
  /\ opening' = [opening EXCEPT ![s] = c]
  /\ phase' = [phase EXCEPT ![c] = "building"]
  /\ UNCHANGED <<stored, legacy, map, order, shuttingDown, leased>>

\* the in-flight restoration is published before the first await
OpenCold(c, s) ==
  /\ Idle(c, "open") /\ ~shuttingDown
  /\ map[s] = Nothing /\ opening[s] = Nothing /\ s \in stored
  /\ Calling(c, "open", s, "building", {})
  /\ opening' = [opening EXCEPT ![s] = c]
  /\ phase' = [phase EXCEPT ![c] = "building"]
  /\ UNCHANGED <<stored, legacy, map, order, shuttingDown, leased>>

OpenWarm(c, s) ==
  /\ Idle(c, "open") /\ ~shuttingDown /\ map[s] # Nothing
  /\ Calling(c, "open", s, "done", {map[s]})
  /\ order' = Touched(s)
  /\ UNCHANGED <<stored, legacy, map, opening, shuttingDown, phase, leased>>

OpenJoins(c, s) ==
  /\ Idle(c, "open") /\ ~shuttingDown
  /\ map[s] = Nothing /\ opening[s] # Nothing
  /\ Calling(c, "open", s, "joined", {opening[s]})
  /\ UNCHANGED <<stored, legacy, map, opening, order, shuttingDown, phase, leased>>

Joined(c) ==
  /\ call[c].pc = "joined"
  /\ \E d \in call[c].waits : Settled(d) /\ Continue(c, call[d].pc, call[c].waits)
  /\ UNCHANGED <<stored, legacy, map, opening, order, shuttingDown, phase, leased>>

\* refused: the manager shuts down, or there is no such session
OpenRefused(c, s) ==
  /\ Idle(c, "open")
  /\ shuttingDown \/ (map[s] = Nothing /\ opening[s] = Nothing /\ s \notin stored)
  /\ Calling(c, "open", s, "failed", {})
  /\ UNCHANGED <<stored, legacy, map, opening, order, shuttingDown, phase, leased>>

\* create() writes session.json before it builds, and is not in `opening'
Create(c, s) ==
  /\ Idle(c, "create") /\ ~shuttingDown
  /\ s \notin stored /\ \A d \in Calls : call[d].sid # s
  /\ Calling(c, "create", s, "building", {})
  /\ stored' = stored \cup {s}
  /\ phase' = [phase EXCEPT ![c] = "building"]
  /\ UNCHANGED <<legacy, map, opening, order, shuttingDown, leased>>

\* the least recently used beyond the limit, but for those at work
Victims(list, shown) ==
  {s \in Sids : /\ list[s] # {}
                /\ Cardinality(list[s]) + MaxSessions <= Cardinality(Shown(shown))
                /\ shown[s] \notin leased}

\* close() up to its await: out of map and order before the disposal
Without(m, gone) == [s \in Sids |-> IF s \in gone THEN Nothing ELSE m[s]]

Disposing(ph, ids) == [i \in Calls |-> IF i \in ids THEN "disposing" ELSE ph[i]]

\* the `finally' of open()
Leave(c) == opening' = [s \in Sids |-> IF opening[s] = c THEN Nothing ELSE opening[s]]

\* initializeRuntime is over: published, then the eviction closes its victims
Publish(c) ==
  LET s == call[c].sid
      shown == [map EXCEPT ![s] = c]
      gone == Victims(Touched(s), shown)
      closed == {shown[t] : t \in gone}
  IN  /\ call[c].pc = "building"
      /\ map' = Without(shown, gone)
      /\ order' = Removed(Touched(s), gone)
      /\ phase' = Disposing([phase EXCEPT ![c] = "live"], closed)
      /\ IF closed = {}
         THEN Continue(c, "done", {c}) /\ Leave(c)
         ELSE Continue(c, "evicting", closed) /\ UNCHANGED opening
      /\ UNCHANGED <<stored, legacy, shuttingDown, leased>>

\* mutant: what a failed build has started is not disposed
BuildFailsSilently(c) ==
  /\ call[c].pc = "building"
  /\ Continue(c, "failing", {c})
  /\ UNCHANGED <<stored, legacy, map, opening, order, shuttingDown, phase, leased>>

BuildFails(c) ==
  /\ call[c].pc = "building"
  /\ phase' = [phase EXCEPT ![c] = "disposing"]
  /\ Continue(c, "failing", {c})
  /\ UNCHANGED <<stored, legacy, map, opening, order, shuttingDown, leased>>

Over(ids) == \A i \in ids : phase[i] = "disposed"

\* the restoration is over once its victims are disposed
Opened(c) ==
  /\ call[c].pc \in {"evicting", "failing"} /\ Over(call[c].waits)
  /\ Continue(c, IF call[c].pc = "evicting" THEN "done" ELSE "failed", {c})
  /\ Leave(c)
  /\ UNCHANGED <<stored, legacy, map, order, shuttingDown, phase, leased>>

-----------------------------------------------------------------------------
(* close, delete, prepareForWrite                                          *)

Closers == {"close", "delete", "migrate"}

\* delete() removes the directory, prepareForWrite moves it
Finish(kind, s) ==
  /\ stored' = IF kind = "delete" THEN stored \ {s} ELSE stored
  /\ legacy' = IF kind \in {"delete", "migrate"} THEN legacy \ {s} ELSE legacy

CloseNow(s) ==
  /\ map' = Without(map, {s})
  /\ order' = Removed(order, {s})
  /\ phase' = Disposing(phase, {map[s]})
  /\ UNCHANGED <<stored, legacy, opening, shuttingDown, leased>>

\* a session that is up is closed at once
CloseUp(c, kind, s) ==
  /\ Idle(c, kind) /\ kind \in Closers /\ map[s] # Nothing
  /\ kind = "migrate" => s \in legacy
  /\ Calling(c, kind, s, "closing", {map[s]})
  /\ CloseNow(s)

\* mutant: a cold open is not awaited
DrainNot(c, kind, s) ==
  /\ Idle(c, kind) /\ kind \in {"close", "delete"}
  /\ map[s] = Nothing /\ opening[s] # Nothing
  /\ Calling(c, kind, s, "done", {}) /\ Finish(kind, s)
  /\ UNCHANGED <<map, opening, order, shuttingDown, phase, leased>>

\* a cold open is drained first; prepareForWrite does not
Drain(c, kind, s) ==
  /\ Idle(c, kind) /\ kind \in {"close", "delete"}
  /\ map[s] = Nothing /\ opening[s] # Nothing
  /\ Calling(c, kind, s, "draining", {opening[s]})
  /\ UNCHANGED <<stored, legacy, map, opening, order, shuttingDown, phase, leased>>

Drained(c) ==
  /\ call[c].pc = "draining" /\ call[c].kind \in Closers
  /\ \A d \in call[c].waits : Settled(d)
  /\ IF map[call[c].sid] # Nothing /\ \A d \in call[c].waits : call[d].pc = "done"
     THEN /\ Continue(c, "closing", {map[call[c].sid]})
          /\ CloseNow(call[c].sid)
     ELSE /\ Continue(c, "done", {})
          /\ Finish(call[c].kind, call[c].sid)
          /\ UNCHANGED <<map, opening, order, shuttingDown, phase, leased>>

\* nothing to close
CloseDown(c, kind, s) ==
  /\ Idle(c, kind) /\ kind \in Closers /\ map[s] = Nothing
  /\ kind \in {"close", "delete"} => opening[s] = Nothing
  /\ Calling(c, kind, s, "done", {})
  /\ Finish(kind, s)
  /\ UNCHANGED <<map, opening, order, shuttingDown, phase, leased>>

\* close() has returned
Closed(c) ==
  /\ call[c].pc = "closing" /\ Over(call[c].waits)
  /\ Continue(c, "done", {})
  /\ Finish(call[c].kind, call[c].sid)
  /\ UNCHANGED <<map, opening, order, shuttingDown, phase, leased>>

-----------------------------------------------------------------------------
(* shutdown                                                                *)

Shutdown(c) ==
  /\ Idle(c, "shutdown")
  /\ shuttingDown' = TRUE
  /\ Calling(c, "shutdown", Nothing, "draining", {opening[s] : s \in Sids} \ {Nothing})
  /\ UNCHANGED <<stored, legacy, map, opening, order, phase, leased>>

ShutdownCloses(c) ==
  /\ call[c].pc = "draining" /\ call[c].kind = "shutdown"
  /\ \A d \in call[c].waits : Settled(d)
  /\ Continue(c, "closing", {map[s] : s \in Sids} \ {Nothing})
  /\ map' = [s \in Sids |-> Nothing] /\ order' = [s \in Sids |-> {}]
  /\ phase' = Disposing(phase, {map[s] : s \in Sids} \ {Nothing})
  /\ UNCHANGED <<stored, legacy, opening, shuttingDown, leased>>

-----------------------------------------------------------------------------
(* The sessions themselves                                                 *)

Disposed(i) ==
  /\ phase[i] = "disposing"
  /\ phase' = [phase EXCEPT ![i] = "disposed"]
  /\ UNCHANGED <<stored, legacy, map, opening, order, shuttingDown, leased, call>>

\* a turn or a required write takes the lease, and gives it back
Works(i) ==
  /\ phase[i] = "live" /\ i \notin leased
  /\ leased' = leased \cup {i}
  /\ UNCHANGED <<stored, legacy, map, opening, order, shuttingDown, phase, call>>

Rests(i) ==
  /\ i \in leased
  /\ leased' = leased \ {i}
  /\ UNCHANGED <<stored, legacy, map, opening, order, shuttingDown, phase, call>>

Starts(c) ==
  \/ \E s \in Sids :
       \/ Create(c, s)
       \/ OpenCold(c, s) \/ OpenWarm(c, s) \/ OpenJoins(c, s) \/ OpenRefused(c, s)
       \/ \E kind \in Kinds :
            CloseUp(c, kind, s) \/ Drain(c, kind, s) \/ CloseDown(c, kind, s)
  \/ Shutdown(c)

Continues(c) ==
  \/ Publish(c) \/ BuildFails(c) \/ Opened(c) \/ Joined(c)
  \/ Drained(c) \/ Closed(c) \/ ShutdownCloses(c)

Next ==
  \E c \in Calls : Starts(c) \/ Continues(c) \/ Disposed(c) \/ Works(c) \/ Rests(c)

Spec == Init /\ [][Next]_vars

\* what is awaited settles: initializeRuntime, Session.dispose
Fairness == \A c \in Calls : WF_vars(Continues(c)) /\ WF_vars(Disposed(c))

FairSpec == Spec /\ Fairness

-----------------------------------------------------------------------------
(* Properties                                                              *)

\* somebody named the session before create() had answered: create() writes
\* session.json first and joins no `opening', so nobody can wait for it
NamedEarly(s) == \E c \in Calls : call[c].sid = s /\ call[c].early

\* Whatever calls overlap, a session on disk has one owner: no second tree, log
\* writer or watcher is built beside one that is up or on the way.  create() is
\* the one exception of the code, for those who do not wait for its answer.
OneOwner == \A s \in Sids : (\A i, j \in Up(s) : i = j) \/ NamedEarly(s)

\* A session that is up can be found, so that it can be closed: none is dropped
\* from the table without its disposal having begun.
UpIsListed ==
  \A i \in Calls :
    phase[i] = "live" => map[call[i].sid] = i \/ NamedEarly(call[i].sid)

\* Whoever is up is known, and known as the one owner.
OwnersAreKnown == TypeOK /\ OneOwner /\ UpIsListed

\* When close or delete has returned, what was up or on the way when it was
\* called is no longer up.
CloseCovers ==
  \A c \in Calls :
    call[c].kind \in {"close", "delete"} /\ call[c].pc = "done" =>
      \A i \in call[c].saw : ~Instance(i) \/ NamedEarly(call[c].sid)

\* When shutdown has returned nothing is up or will come up, but for a create()
\* that was under way when it was called.
ShutdownIsComplete ==
  \A c, i \in Calls :
    call[c].kind = "shutdown" /\ call[c].pc = "done" /\ Instance(i) =>
      i \in call[c].saw \/ NamedEarly(call[i].sid)

\* What has been closed, one session or all of them, stays down.
ClosingIsComplete == CloseCovers /\ ShutdownIsComplete

\* No two calls wait for each other: every call returns, though openings wait for
\* the sessions they evict and closings for the openings in flight.
CallsReturn == \A c \in Calls : (call[c].pc # "idle") ~> Settled(c)

\* "so it cannot publish a new live session after close/delete has returned":
\* a deleted session is not up.
DeletedIsDown ==
  \A c \in Calls : call[c].kind = "delete" /\ call[c].pc = "done" => Up(call[c].sid) = {}
=============================================================================
