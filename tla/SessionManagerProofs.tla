------------------------ MODULE SessionManagerProofs ------------------------
(***************************************************************************)
(* Proofs about SessionManager for any sessions, any calls in any number    *)
(* and any room: whoever is up is listed and the one owner of his session,  *)
(* and what has been closed, one session or all of them, stays down.  The   *)
(* one exception is the code's own: a session that somebody named before    *)
(* create() had answered.                                                   *)
(***************************************************************************)
EXTENDS SessionManager, TLAPS

-----------------------------------------------------------------------------
(* The invariant                                                           *)

Builders == {"open", "create"}
Restoring == {"building", "evicting", "failing"}

\* how far a call is, and the instance it builds
Stage(c) ==
  /\ phase[c] = "building" <=> call[c].pc = "building"
  /\ phase[c] # "none" => call[c].kind \in Builders
  /\ call[c].kind \notin {"none", "shutdown"} => call[c].sid \in Sids
  /\ call[c].pc \in {"idle", "joined"} => phase[c] = "none"
  /\ call[c].pc = "joined" => call[c].kind = "open"
  /\ call[c].pc = "failing" =>
       phase[c] \in {"disposing", "disposed"} /\ call[c].waits = {c}
  /\ call[c].pc = "evicting" => phase[c] # "none"
  /\ call[c].pc = "failed" => phase[c] \in {"none", "disposed"}
  /\ call[c].pc = "idle" => call[c] = NoCall
  /\ \A i \in call[c].saw : phase[i] # "none"

\* what a close or a delete has seen is closed, or waited for
Covers(c) ==
  call[c].kind \in {"close", "delete"} =>
    /\ call[c].pc = "draining" =>
         /\ \A i \in call[c].saw :
              i \in call[c].waits \/ ~Instance(i) \/ NamedEarly(call[c].sid)
         /\ \A i \in call[c].waits :
              call[i].pc # "idle" /\ call[i].sid = call[c].sid
         /\ \A i, j \in call[c].waits : i = j
    /\ call[c].pc \in {"closing", "done"} =>
         \A i \in call[c].saw : ~Instance(i) \/ NamedEarly(call[c].sid)

\* a shutdown knows every instance that is being built
CoversAll(c) ==
  call[c].kind = "shutdown" =>
    /\ shuttingDown
    /\ call[c].pc = "draining" =>
         \A i \in Calls :
           phase[i] = "building" => i \in call[c].saw \cup call[c].waits
    /\ call[c].pc \in {"closing", "done"} =>
         \A i \in Calls : Instance(i) =>
           i \in call[c].saw \/ NamedEarly(call[i].sid)

CallsInOrder == \A c \in Calls : Stage(c) /\ Covers(c) /\ CoversAll(c)

\* the table lists live sessions under their own name
MapIsLive ==
  \A s \in Sids : map[s] # Nothing =>
    phase[map[s]] = "live" /\ call[map[s]].sid = s

\* an opening is published exactly while open() is under way
OpeningIsOn ==
  /\ \A s \in Sids : opening[s] # Nothing =>
       /\ call[opening[s]].kind = "open" /\ call[opening[s]].sid = s
       /\ call[opening[s]].pc \in Restoring
  /\ \A c \in Calls :
       call[c].kind = "open" /\ call[c].pc \in Restoring => opening[call[c].sid] = c

IInv ==
  /\ TypeOK /\ CallsInOrder /\ MapIsLive /\ OpeningIsOn /\ OneOwner /\ UpIsListed

-----------------------------------------------------------------------------
(* The records of a call                                                   *)

LEMMA NoCallType == NoCall \in CallRecords
  BY DEF NoCall, CallRecords

\* the sight of a call when it is made
Sight(kind, s) == IF kind = "shutdown" THEN Creating ELSE Up(s)

LEMMA CallingFields ==
  ASSUME TypeOK, NEW c \in Calls, NEW kind, NEW s, NEW pc, NEW waits,
         Calling(c, kind, s, pc, waits)
  PROVE  /\ call'[c].kind = kind /\ call'[c].sid = s /\ call'[c].pc = pc
         /\ call'[c].waits = waits /\ call'[c].saw = Sight(kind, s)
         /\ \A d \in Calls \ {c} : call'[d] = call[d]
  BY DEF TypeOK, Calling, Sight

LEMMA CallingType ==
  ASSUME TypeOK, NEW c \in Calls, NEW kind \in Kinds, NEW s \in Sids \cup {Nothing},
         NEW pc \in {"idle", "building", "failing", "evicting", "joined",
                     "draining", "closing", "done", "failed"},
         NEW waits \in SUBSET Calls,
         Calling(c, kind, s, pc, waits)
  PROVE  call' \in [Calls -> CallRecords]
<1> DEFINE saw == IF kind = "shutdown" THEN Creating ELSE Up(s)
           early == \E d \in Creating : call[d].sid = s
<1>1. saw \in SUBSET Calls /\ early \in BOOLEAN
  BY DEF Creating, Up
<1>2. call' = [call EXCEPT ![c] = [kind |-> kind, sid |-> s, pc |-> pc,
                                   waits |-> waits, saw |-> saw, early |-> early]]
  BY DEF Calling
<1> HIDE DEF saw, early
<1>3. [kind |-> kind, sid |-> s, pc |-> pc, waits |-> waits, saw |-> saw,
       early |-> early] \in CallRecords
  BY <1>1 DEF CallRecords
<1> QED
  BY <1>2, <1>3 DEF TypeOK

LEMMA ContinueFields ==
  ASSUME TypeOK, NEW c \in Calls, NEW pc, NEW waits, Continue(c, pc, waits)
  PROVE  /\ call'[c].pc = pc /\ call'[c].waits = waits
         /\ call'[c].kind = call[c].kind /\ call'[c].sid = call[c].sid
         /\ call'[c].saw = call[c].saw /\ call'[c].early = call[c].early
         /\ \A d \in Calls \ {c} : call'[d] = call[d]
  BY DEF TypeOK, CallRecords, Continue

LEMMA ContinueType ==
  ASSUME TypeOK, NEW c \in Calls,
         NEW pc \in {"idle", "building", "failing", "evicting", "joined",
                     "draining", "closing", "done", "failed"},
         NEW waits \in SUBSET Calls, Continue(c, pc, waits)
  PROVE  call' \in [Calls -> CallRecords]
<1>1. PICK x \in CallRecords : x = call[c]
  BY DEF TypeOK
<1>2. [x EXCEPT !.pc = pc, !.waits = waits] \in CallRecords
  BY DEF CallRecords
<1>3. call' = [call EXCEPT ![c] = [x EXCEPT !.pc = pc, !.waits = waits]]
  BY <1>1 DEF Continue, TypeOK, CallRecords
<1> QED
  BY <1>2, <1>3 DEF TypeOK

\* The fields of a call that has been made.
LEMMA CallTypes ==
  ASSUME TypeOK, NEW c \in Calls
  PROVE  /\ call[c].kind \in Kinds \cup {"none"} /\ call[c].sid \in Sids \cup {Nothing}
         /\ call[c].waits \subseteq Calls /\ call[c].saw \subseteq Calls
         /\ call[c].early \in BOOLEAN
  BY DEF TypeOK, CallRecords

-----------------------------------------------------------------------------
(* What a step of one call leaves of the others                            *)

\* an instance that the step does not build grows older, or stays as it is
Ages(i) ==
  \/ phase'[i] = phase[i]
  \/ phase[i] = "live" /\ phase'[i] = "disposing"
  \/ phase[i] = "disposing" /\ phase'[i] = "disposed"

Remembers(c) ==
  call[c].pc # "idle" =>
    /\ call'[c].pc # "idle" /\ call'[c].kind = call[c].kind
    /\ call'[c].sid = call[c].sid /\ call'[c].saw = call[c].saw
    /\ call'[c].early = call[c].early

StepOf(c) ==
  /\ \A d \in Calls \ {c} : call'[d] = call[d] /\ Ages(d)
  /\ Remembers(c)
  /\ phase[c] # "none" => phase'[c] # "none"
  /\ phase'[c] = "building" =>
       phase[c] = "building" \/ (phase[c] = "none" /\ ~shuttingDown)
  /\ phase'[c] = "live" => phase[c] \in {"building", "live"}
  /\ shuttingDown => shuttingDown'

\* A call goes on knowing what it was made for.
LEMMA CallsRemember ==
  ASSUME IInv, NEW c \in Calls, StepOf(c), NEW d \in Calls, call[d].pc # "idle"
  PROVE  /\ call'[d].pc # "idle" /\ call'[d].kind = call[d].kind
         /\ call'[d].sid = call[d].sid /\ call'[d].saw = call[d].saw
         /\ call'[d].early = call[d].early
  BY DEF StepOf, Remembers

LEMMA BuiltIsCalled ==
  ASSUME IInv, NEW i \in Calls, phase[i] # "none"
  PROVE  call[i].pc # "idle" /\ call[i].sid \in Sids
  BY DEF IInv, CallsInOrder, Stage, Builders

LEMMA EarlyStays ==
  ASSUME IInv, NEW c \in Calls, StepOf(c), NEW s, NamedEarly(s)
  PROVE  NamedEarly(s)'
<1>1. PICK d \in Calls : call[d].sid = s /\ call[d].early
  BY DEF NamedEarly
<1>2. call[d].pc # "idle"
  BY <1>1 DEF IInv, CallsInOrder, Stage, NoCall
<1>3. call'[d].sid = s /\ call'[d].early
  BY <1>1, <1>2, CallsRemember
<1> QED
  BY <1>3 DEF NamedEarly

\* Nobody comes up again.
LEMMA DownStays ==
  ASSUME IInv, NEW c \in Calls, StepOf(c), NEW i \in Calls
  PROVE  /\ phase[i] # "none" => phase'[i] # "none"
         /\ phase[i] # "none" /\ ~Instance(i) => ~Instance(i)'
         /\ shuttingDown /\ ~Instance(i) => ~Instance(i)'
  BY DEF StepOf, Ages, Instance

LEMMA BuildingIsNew ==
  ASSUME IInv, NEW c \in Calls, StepOf(c), NEW i \in Calls,
         phase'[i] = "building", shuttingDown
  PROVE  phase[i] = "building"
<1>1. CASE i # c
  BY <1>1 DEF StepOf, Ages
<1>2. CASE i = c
  BY <1>2 DEF StepOf
<1> QED
  BY <1>1, <1>2

LEMMA OthersInOrder ==
  ASSUME IInv, NEW c \in Calls, StepOf(c), NEW d \in Calls, call'[d] = call[d], Ages(d)
  PROVE  Stage(d)' /\ Covers(d)' /\ CoversAll(d)'
<1>1. call'[d] = call[d] /\ Ages(d)
  OBVIOUS
<1>2. Stage(d) /\ Covers(d) /\ CoversAll(d)
  BY DEF IInv, CallsInOrder
<1>3. call[d].saw \subseteq Calls /\ call[d].waits \subseteq Calls
  BY CallTypes DEF IInv
<1>4. \A i \in call[d].saw : phase[i] # "none" /\ phase'[i] # "none"
  BY <1>2, <1>3, DownStays DEF Stage
<1>s. PICK s : s = call[d].sid
  OBVIOUS
<1>5. Stage(d)'
  <2>1. \A i \in call'[d].saw : phase'[i] # "none"
    BY <1>1, <1>4
  <2>2. call'[d].pc = "idle" => call'[d] = NoCall
    BY <1>1, <1>2 DEF Stage
  <2>3. /\ phase'[d] = "building" <=> call'[d].pc = "building"
        /\ phase'[d] # "none" => call'[d].kind \in Builders
        /\ call'[d].kind \notin {"none", "shutdown"} => call'[d].sid \in Sids
        /\ call'[d].pc \in {"idle", "joined"} => phase'[d] = "none"
        /\ call'[d].pc = "joined" => call'[d].kind = "open"
        /\ call'[d].pc = "failing" =>
             phase'[d] \in {"disposing", "disposed"} /\ call'[d].waits = {d}
        /\ call'[d].pc = "evicting" => phase'[d] # "none"
        /\ call'[d].pc = "failed" => phase'[d] \in {"none", "disposed"}
    BY <1>1, <1>2 DEF Stage, Ages
  <2> QED
    BY <2>1, <2>2, <2>3 DEF Stage, NoCall
<1>6. \A i \in call[d].saw : ~Instance(i) => ~Instance(i)'
  BY <1>3, <1>4, DownStays
<1>7. NamedEarly(s) => NamedEarly(s)'
  BY EarlyStays
<1>8. Covers(d)'
  <2>1. CASE call[d].kind \in {"close", "delete"} /\ call[d].pc = "draining"
    <3>1. ASSUME NEW i \in call[d].waits
          PROVE  call'[i].pc # "idle" /\ call'[i].sid = call'[d].sid
      <4>1. call[i].sid = call[d].sid /\ call[i].pc # "idle" /\ i \in Calls
        BY <1>2, <1>3, <2>1, <3>1 DEF Covers
      <4> QED
        BY <1>1, <4>1, CallsRemember
    <3>2. \A i \in call[d].saw :
            i \in call[d].waits \/ ~Instance(i)' \/ NamedEarly(s)'
      BY <1>2, <1>6, <1>7, <1>s, <2>1 DEF Covers
    <3> QED
      BY <1>1, <1>2, <1>s, <2>1, <3>1, <3>2 DEF Covers, NamedEarly, Instance
  <2>2. CASE call[d].kind \in {"close", "delete"} /\ call[d].pc \in {"closing", "done"}
    <3>1. \A i \in call[d].saw : ~Instance(i)' \/ NamedEarly(s)'
      BY <1>2, <1>6, <1>7, <1>s, <2>2 DEF Covers
    <3> QED
      BY <1>1, <1>s, <2>2, <3>1 DEF Covers, NamedEarly, Instance
  <2> QED
    BY <1>1, <2>1, <2>2 DEF Covers
<1>9. CoversAll(d)'
  <2>1. CASE call[d].kind = "shutdown"
    <3>1. shuttingDown /\ shuttingDown'
      BY <1>2, <2>1 DEF CoversAll, StepOf
    <3>2. ASSUME NEW i \in Calls, phase'[i] = "building" PROVE phase[i] = "building"
      BY <3>1, <3>2, BuildingIsNew
    <3>3. ASSUME NEW i \in Calls, Instance(i)', call[d].pc \in {"closing", "done"},
                 i \notin call[d].saw
          PROVE  \E e \in Calls : call'[e].sid = call'[i].sid /\ call'[e].early
      <4>1. Instance(i)
        BY <3>1, <3>3, DownStays
      <4>2. PICK t : t = call[i].sid
        OBVIOUS
      <4>3. call'[i].sid = t
        BY <4>1, <4>2, BuiltIsCalled, CallsRemember DEF Instance
      <4>4. NamedEarly(t)
        BY <1>2, <2>1, <3>3, <4>1, <4>2 DEF CoversAll
      <4>5. NamedEarly(t)'
        BY <4>4, EarlyStays
      <4> QED
        BY <4>3, <4>5 DEF NamedEarly
    <3> QED
      BY <1>1, <1>2, <2>1, <3>1, <3>2, <3>3 DEF CoversAll, NamedEarly
  <2>2. CASE call[d].kind # "shutdown"
    BY <1>1, <2>2 DEF CoversAll
  <2> QED
    BY <2>1, <2>2
<1> QED
  BY <1>5, <1>8, <1>9

\* Nobody new comes up.
LEMMA OwnersStay ==
  ASSUME IInv, NEW c \in Calls, StepOf(c),
         phase'[c] \in {"building", "live"} => phase[c] \in {"building", "live"}
  PROVE  OneOwner'
<1>1. ASSUME NEW i \in Calls, Instance(i)'
      PROVE  Instance(i) /\ call'[i].sid = call[i].sid
  <2>1. Instance(i)
    BY <1>1 DEF Instance, StepOf, Ages
  <2> QED
    BY <2>1, BuiltIsCalled, CallsRemember DEF Instance
<1>2. ASSUME NEW s \in Sids, NEW i \in Up(s)', NEW j \in Up(s)', i # j
      PROVE  NamedEarly(s)'
  <2>1. i \in Up(s) /\ j \in Up(s)
    BY <1>1, <1>2 DEF Up
  <2> QED
    BY <1>2, <2>1, EarlyStays DEF IInv, OneOwner
<1> HIDE DEF Up, NamedEarly
<1> QED
  BY <1>2 DEF OneOwner

LEMMA ListedStays ==
  ASSUME IInv, NEW c \in Calls, StepOf(c),
         \A i \in Calls : phase'[i] = "live" =>
           /\ Instance(i)
           /\ map'[call[i].sid] = i \/ NamedEarly(call[i].sid)
  PROVE  UpIsListed'
<1>1. ASSUME NEW i \in Calls, phase'[i] = "live"
      PROVE  \/ map'[call'[i].sid] = i
             \/ \E e \in Calls : call'[e].sid = call'[i].sid /\ call'[e].early
  <2>1. call'[i].sid = call[i].sid
    BY <1>1, BuiltIsCalled, CallsRemember DEF Instance
  <2>2. PICK t : t = call[i].sid
    OBVIOUS
  <2>3. NamedEarly(t) => NamedEarly(t)'
    BY EarlyStays
  <2> QED
    BY <1>1, <2>1, <2>2, <2>3 DEF NamedEarly
<1> QED
  BY <1>1 DEF UpIsListed, NamedEarly

LEMMA TableStays ==
  ASSUME IInv, NEW c \in Calls, StepOf(c),
         \A s \in Sids : map'[s] # Nothing =>
           map'[s] = map[s] /\ phase'[map[s]] = "live"
  PROVE  MapIsLive'
<1>1. ASSUME NEW s \in Sids, map'[s] # Nothing
      PROVE  phase'[map'[s]] = "live" /\ call'[map'[s]].sid = s
  <2>1. map[s] \in Calls /\ map'[s] = map[s]
    BY <1>1 DEF IInv, TypeOK
  <2>2. phase[map[s]] = "live" /\ call[map[s]].sid = s
    BY <1>1, <2>1 DEF IInv, MapIsLive
  <2> QED
    BY <1>1, <2>1, <2>2, BuiltIsCalled, CallsRemember
<1> QED
  BY <1>1 DEF MapIsLive

LEMMA OpeningStays ==
  ASSUME IInv, NEW c \in Calls, StepOf(c), UNCHANGED opening,
         /\ call'[c].kind = "open" /\ call'[c].pc \in Restoring
           <=> call[c].kind = "open" /\ call[c].pc \in Restoring
  PROVE  OpeningIsOn'
<1>1. ASSUME NEW s \in Sids, opening[s] # Nothing
      PROVE  /\ call'[opening[s]].kind = "open" /\ call'[opening[s]].sid = s
             /\ call'[opening[s]].pc \in Restoring
  <2>1. /\ opening[s] \in Calls /\ call[opening[s]].kind = "open"
        /\ call[opening[s]].sid = s /\ call[opening[s]].pc \in Restoring
    BY <1>1 DEF IInv, OpeningIsOn, TypeOK
  <2>2. call'[opening[s]].sid = s
    BY <2>1, CallsRemember DEF Restoring
  <2> QED
    BY <2>1, <2>2 DEF StepOf
<1>2. ASSUME NEW d \in Calls, call'[d].kind = "open", call'[d].pc \in Restoring
      PROVE  opening[call'[d].sid] = d
  <2>1. call[d].kind = "open" /\ call[d].pc \in Restoring
    BY <1>2 DEF StepOf
  <2>2. call'[d].sid = call[d].sid
    BY <2>1, CallsRemember DEF Restoring
  <2> QED
    BY <2>1, <2>2 DEF IInv, OpeningIsOn
<1> QED
  BY <1>1, <1>2 DEF OpeningIsOn

LEMMA OpeningLeft ==
  ASSUME IInv, NEW c \in Calls, StepOf(c), Leave(c), call'[c].pc \notin Restoring
  PROVE  OpeningIsOn'
<1>1. ASSUME NEW s \in Sids, opening'[s] # Nothing
      PROVE  /\ call'[opening'[s]].kind = "open" /\ call'[opening'[s]].sid = s
             /\ call'[opening'[s]].pc \in Restoring
  <2>1. opening'[s] = opening[s] /\ opening[s] # c /\ opening[s] # Nothing
    BY <1>1 DEF Leave
  <2>2. opening[s] \in Calls \ {c}
    BY <2>1 DEF IInv, TypeOK
  <2> QED
    BY <2>1, <2>2 DEF IInv, OpeningIsOn, StepOf
<1>2. ASSUME NEW d \in Calls, call'[d].kind = "open", call'[d].pc \in Restoring
      PROVE  opening'[call'[d].sid] = d
  <2>1. d # c /\ call'[d] = call[d]
    BY <1>2 DEF StepOf
  <2>2. opening[call[d].sid] = d
    BY <1>2, <2>1 DEF IInv, OpeningIsOn
  <2>3. call[d].sid \in Sids
    BY <1>2, <2>1 DEF IInv, CallsInOrder, Stage
  <2> QED
    BY <2>1, <2>2, <2>3 DEF Leave
<1> QED
  BY <1>1, <1>2 DEF OpeningIsOn

-----------------------------------------------------------------------------
(* The list of recently used sessions                                      *)

\* Of a session that is shown the part of the list is not empty.
LEMMA ListedIsShown ==
  ASSUME TypeOK, NEW s \in Sids
  PROVE  order[s] # {} <=> map[s] # Nothing
  BY DEF TypeOK

LEMMA TouchedType ==
  ASSUME TypeOK, NEW s \in Sids
  PROVE  /\ Touched(s) \in [Sids -> SUBSET Sids] /\ s \in Touched(s)[s]
         /\ \A t \in Sids \ {s} :
              IF map[t] = Nothing THEN Touched(s)[t] = {} ELSE t \in Touched(s)[t]
  BY DEF TypeOK, Touched

LEMMA WithoutFields ==
  ASSUME NEW m \in [Sids -> Calls \cup {Nothing}], NEW gone
  PROVE  /\ Without(m, gone) \in [Sids -> Calls \cup {Nothing}]
         /\ \A t \in Sids : Without(m, gone)[t] = IF t \in gone THEN Nothing ELSE m[t]
  BY DEF Without

LEMMA RemovedFields ==
  ASSUME NEW list \in [Sids -> SUBSET Sids], NEW gone
  PROVE  /\ Removed(list, gone) \in [Sids -> SUBSET Sids]
         /\ \A t \in Sids :
              Removed(list, gone)[t] = IF t \in gone THEN {} ELSE list[t] \ gone
  BY DEF Removed

LEMMA DisposingFields ==
  ASSUME NEW ph \in [Calls -> {"none", "building", "live", "disposing", "disposed"}],
         NEW ids
  PROVE  /\ Disposing(ph, ids)
              \in [Calls -> {"none", "building", "live", "disposing", "disposed"}]
         /\ \A i \in Calls :
              Disposing(ph, ids)[i] = IF i \in ids THEN "disposing" ELSE ph[i]
  BY DEF Disposing

\* What leaves the table leaves the list.
LEMMA TableType ==
  ASSUME NEW m \in [Sids -> Calls \cup {Nothing}],
         NEW list \in [Sids -> SUBSET Sids], NEW gone,
         \A s \in Sids : IF m[s] = Nothing THEN list[s] = {} ELSE s \in list[s],
         map' = Without(m, gone), order' = Removed(list, gone)
  PROVE  /\ map' \in [Sids -> Calls \cup {Nothing}] /\ order' \in [Sids -> SUBSET Sids]
         /\ \A s \in Sids : IF map'[s] = Nothing THEN order'[s] = {} ELSE s \in order'[s]
<1>1. /\ map' \in [Sids -> Calls \cup {Nothing}]
      /\ \A t \in Sids : map'[t] = IF t \in gone THEN Nothing ELSE m[t]
  BY WithoutFields
<1>2. /\ order' \in [Sids -> SUBSET Sids]
      /\ \A t \in Sids : order'[t] = IF t \in gone THEN {} ELSE list[t] \ gone
  BY DEF Removed
<1>3. ASSUME NEW s \in Sids
      PROVE  IF map'[s] = Nothing THEN order'[s] = {} ELSE s \in order'[s]
  BY <1>1, <1>2, <1>3
<1> QED
  BY <1>1, <1>2, <1>3

LEMMA LeaveType ==
  ASSUME TypeOK, NEW c \in Calls, Leave(c)
  PROVE  opening' \in [Sids -> Calls \cup {Nothing}]
  BY DEF TypeOK, Leave

-----------------------------------------------------------------------------
(* What the steps have in common                                           *)

\* The invariant follows from what it says of the call that made the step.
LEMMA StepKeeps ==
  ASSUME IInv, NEW c \in Calls, StepOf(c), TypeOK',
         Stage(c)', Covers(c)', CoversAll(c)',
         MapIsLive', OpeningIsOn', OneOwner', UpIsListed'
  PROVE  IInv'
<1>1. ASSUME NEW d \in Calls PROVE Stage(d)' /\ Covers(d)' /\ CoversAll(d)'
  <2>1. CASE d = c
    BY <2>1
  <2>2. CASE d # c
    <3>1. call'[d] = call[d] /\ Ages(d)
      BY <2>2 DEF StepOf
    <3> QED
      BY <3>1, OthersInOrder
  <2> QED
    BY <2>1, <2>2
<1>2. CallsInOrder'
  <2> HIDE DEF Stage, Covers, CoversAll
  <2> QED
    BY <1>1 DEF CallsInOrder
<1> QED
  BY <1>2 DEF IInv

LEMMA CallingEarly ==
  ASSUME TypeOK, NEW c \in Calls, NEW kind, NEW s, NEW pc, NEW waits,
         Calling(c, kind, s, pc, waits), NEW d \in Creating, call[d].sid = s
  PROVE  call'[c].early
<1> DEFINE early == \E e \in Creating : call[e].sid = s
<1>1. call'[c].early = early
  BY DEF TypeOK, Calling
<1>2. early
  OBVIOUS
<1> HIDE DEF early
<1> QED
  BY <1>1, <1>2

\* A call that begins has nothing to remember and has built nothing.
LEMMA IdleIsNew ==
  ASSUME IInv, NEW c \in Calls, NEW kind, Idle(c, kind)
  PROVE  /\ phase[c] = "none" /\ call[c].pc = "idle" /\ Remembers(c)
         /\ call[c].kind = "none"
  BY DEF IInv, CallsInOrder, Stage, Idle, NoCall, Remembers

\* What a call sees when it begins has been built.
LEMMA SightIsBuilt ==
  ASSUME IInv, NEW kind, NEW s, NEW i \in Sight(kind, s)
  PROVE  i \in Calls /\ phase[i] # "none"
  BY DEF IInv, CallsInOrder, Stage, Sight, Creating, Up, Instance

\* A step in which no instance is built, published or dropped.
LEMMA QuietStep ==
  ASSUME IInv, NEW c \in Calls, UNCHANGED <<map, phase>>, Remembers(c),
         \A d \in Calls \ {c} : call'[d] = call[d],
         shuttingDown => shuttingDown'
  PROVE  StepOf(c) /\ MapIsLive' /\ OneOwner' /\ UpIsListed'
<1>1. StepOf(c)
  BY DEF StepOf, Ages
<1>2. MapIsLive'
  BY <1>1, TableStays DEF IInv, MapIsLive
<1>3. OneOwner'
  BY <1>1, OwnersStay
<1>4. UpIsListed'
  BY <1>1, ListedStays DEF IInv, UpIsListed, Instance
<1> QED
  BY <1>1, <1>2, <1>3, <1>4

\* A call that begins and builds nothing.
LEMMA BeginKeeps ==
  ASSUME IInv, NEW c \in Calls, NEW kind \in Kinds, NEW s \in Sids \cup {Nothing},
         NEW pc \in {"joined", "draining", "done", "failed"},
         NEW waits \in SUBSET Calls,
         Idle(c, kind), Calling(c, kind, s, pc, waits), UNCHANGED <<map, phase, opening>>,
         kind \notin {"none", "shutdown"} => s \in Sids, pc = "joined" => kind = "open",
         shuttingDown => shuttingDown', TypeOK',
         StepOf(c) => Covers(c)' /\ CoversAll(c)'
  PROVE  IInv'
<1>1. /\ call'[c].kind = kind /\ call'[c].sid = s /\ call'[c].pc = pc
      /\ call'[c].saw = Sight(kind, s) /\ \A d \in Calls \ {c} : call'[d] = call[d]
  BY CallingFields DEF IInv
<1>2. phase[c] = "none" /\ call[c].pc = "idle" /\ Remembers(c) /\ call[c].kind = "none"
  BY IdleIsNew
<1>3. StepOf(c) /\ MapIsLive' /\ OneOwner' /\ UpIsListed'
  BY <1>1, <1>2, QuietStep
<1>4. Stage(c)'
  <2>1. \A i \in call'[c].saw : phase'[i] # "none"
    BY <1>1, SightIsBuilt
  <2> QED
    BY <1>1, <1>2, <2>1 DEF Stage
<1>5. OpeningIsOn'
  BY <1>1, <1>2, <1>3, OpeningStays DEF Restoring
<1> QED
  BY <1>3, <1>4, <1>5, StepKeeps

\* What is up and not listed is being built, by open() or by create().
LEMMA UnlistedIsKnown ==
  ASSUME IInv, NEW s \in Sids, map[s] = Nothing, NEW i \in Up(s), i # opening[s]
  PROVE  NamedEarly(s) \/ \E d \in Creating : call[d].sid = s
<1>1. i \in Calls /\ call[i].sid = s /\ Instance(i)
  BY DEF Up
<1>2. CASE phase[i] = "live"
  <2>1. i # Nothing
    BY SessionsAssumption, <1>1
  <2> QED
    BY <1>1, <1>2, <2>1 DEF IInv, UpIsListed
<1>3. CASE phase[i] = "building"
  <2>1. call[i].pc = "building" /\ call[i].kind \in Builders
    BY <1>1, <1>3 DEF IInv, CallsInOrder, Stage
  <2>2. call[i].kind # "open"
    BY <1>1, <2>1 DEF IInv, OpeningIsOn, Restoring
  <2> QED
    BY <1>1, <2>1, <2>2 DEF Creating, Builders
<1> QED
  BY <1>1, <1>2, <1>3 DEF Instance

\* A call made of such a session is early.
LEMMA CalledEarly ==
  ASSUME IInv, NEW c \in Calls, NEW kind, NEW s, NEW pc, NEW waits,
         Calling(c, kind, s, pc, waits), StepOf(c),
         NamedEarly(s) \/ \E d \in Creating : call[d].sid = s
  PROVE  NamedEarly(s)'
<1>1. CASE NamedEarly(s)
  BY <1>1, EarlyStays
<1>2. CASE \E d \in Creating : call[d].sid = s
  <2>1. call'[c].sid = s
    BY CallingFields DEF IInv
  <2>2. call'[c].early
    BY <1>2, CallingEarly DEF IInv
  <2> QED
    BY <2>1, <2>2 DEF NamedEarly
<1> QED
  BY <1>1, <1>2

-----------------------------------------------------------------------------
(* open and create                                                         *)

LEMMA OpenWarmKeeps ==
  ASSUME IInv, NEW c \in Calls, NEW s \in Sids, OpenWarm(c, s)
  PROVE  IInv'
<1>1. PICK m \in Calls : m = map[s]
  BY DEF IInv, TypeOK, OpenWarm
<1>2. /\ Idle(c, "open") /\ Calling(c, "open", s, "done", {m}) /\ "open" \in Kinds
      /\ UNCHANGED <<map, phase, opening>> /\ order' = Touched(s)
      /\ UNCHANGED <<stored, legacy, shuttingDown, leased>> /\ map[s] # Nothing
  BY <1>1 DEF OpenWarm, Idle
<1>3. call' \in [Calls -> CallRecords]
  BY <1>2, CallingType DEF IInv
<1>4. TypeOK'
  <2>1. /\ order' \in [Sids -> SUBSET Sids] /\ s \in order'[s]
        /\ \A t \in Sids \ {s} :
             IF map'[t] = Nothing THEN order'[t] = {} ELSE t \in order'[t]
    BY <1>2, TouchedType DEF IInv
  <2> QED
    BY <1>2, <1>3, <2>1 DEF IInv, TypeOK
<1>5. call'[c].kind = "open"
  BY <1>2, CallingFields DEF IInv
<1>6. Covers(c)' /\ CoversAll(c)'
  BY <1>5 DEF Covers, CoversAll
<1> QED
  BY <1>2, <1>4, <1>6, BeginKeeps

LEMMA OpenJoinsKeeps ==
  ASSUME IInv, NEW c \in Calls, NEW s \in Sids, OpenJoins(c, s)
  PROVE  IInv'
<1>1. PICK o \in Calls : o = opening[s]
  BY DEF IInv, TypeOK, OpenJoins
<1>2. /\ Idle(c, "open") /\ Calling(c, "open", s, "joined", {o}) /\ "open" \in Kinds
      /\ UNCHANGED <<stored, legacy, map, opening, order, shuttingDown, phase, leased>>
  BY <1>1 DEF OpenJoins, Idle
<1>3. call' \in [Calls -> CallRecords]
  BY <1>2, CallingType DEF IInv
<1>4. TypeOK'
  BY <1>2, <1>3 DEF IInv, TypeOK
<1>5. call'[c].kind = "open"
  BY <1>2, CallingFields DEF IInv
<1>6. Covers(c)' /\ CoversAll(c)'
  BY <1>5 DEF Covers, CoversAll
<1> QED
  BY <1>2, <1>4, <1>6, BeginKeeps

LEMMA OpenRefusedKeeps ==
  ASSUME IInv, NEW c \in Calls, NEW s \in Sids, OpenRefused(c, s)
  PROVE  IInv'
<1>2. /\ Idle(c, "open") /\ Calling(c, "open", s, "failed", {}) /\ "open" \in Kinds
      /\ UNCHANGED <<stored, legacy, map, opening, order, shuttingDown, phase, leased>>
  BY DEF OpenRefused, Idle
<1>3. call' \in [Calls -> CallRecords]
  BY <1>2, CallingType DEF IInv
<1>4. TypeOK'
  BY <1>2, <1>3 DEF IInv, TypeOK
<1>5. call'[c].kind = "open"
  BY <1>2, CallingFields DEF IInv
<1>6. Covers(c)' /\ CoversAll(c)'
  BY <1>5 DEF Covers, CoversAll
<1> QED
  BY <1>2, <1>4, <1>6, BeginKeeps

\* A call that begins to build an instance of a session that is not up, or is
\* up early.
LEMMA BuildKeeps ==
  ASSUME IInv, NEW c \in Calls, NEW kind \in Builders \cap Kinds, NEW s \in Sids,
         Idle(c, kind), Calling(c, kind, s, "building", {}), ~shuttingDown,
         phase' = [phase EXCEPT ![c] = "building"], UNCHANGED <<map, shuttingDown>>,
         TypeOK', StepOf(c) => OpeningIsOn',
         \A i \in Up(s) : NamedEarly(s) \/ \E d \in Creating : call[d].sid = s
  PROVE  IInv'
<1>1. /\ call'[c].kind = kind /\ call'[c].sid = s /\ call'[c].pc = "building"
      /\ call'[c].saw = Sight(kind, s) /\ \A d \in Calls \ {c} : call'[d] = call[d]
  BY CallingFields DEF IInv
<1>2. phase[c] = "none" /\ call[c].pc = "idle" /\ Remembers(c)
  BY IdleIsNew
<1>3. phase'[c] = "building" /\ \A i \in Calls \ {c} : phase'[i] = phase[i]
  BY DEF IInv, TypeOK
<1>4. StepOf(c)
  BY <1>1, <1>2, <1>3 DEF StepOf, Ages
<1>5. Stage(c)'
  <2>1. \A i \in call'[c].saw : phase'[i] # "none"
    BY <1>1, <1>3, SightIsBuilt
  <2> QED
    BY <1>1, <1>3, <2>1 DEF Stage, Builders
<1>6. Covers(c)' /\ CoversAll(c)'
  BY <1>1 DEF Covers, CoversAll, Builders
<1>7. MapIsLive'
  <2>1. ASSUME NEW t \in Sids, map[t] # Nothing PROVE phase'[map[t]] = "live"
    <3>1. map[t] \in Calls /\ phase[map[t]] = "live"
      BY <2>1 DEF IInv, TypeOK, MapIsLive
    <3> QED
      BY <1>2, <1>3, <3>1
  <2> QED
    BY <1>4, <2>1, TableStays
<1>8. UpIsListed'
  <2>1. ASSUME NEW i \in Calls, phase'[i] = "live" PROVE phase[i] = "live"
    BY <1>3, <2>1
  <2> QED
    BY <1>4, <2>1, ListedStays DEF IInv, UpIsListed, Instance
<1>9. OneOwner'
  <2>1. ASSUME NEW t \in Sids, NEW i \in Up(t)', NEW j \in Up(t)', i # j
        PROVE  NamedEarly(t)'
    <3>1. ASSUME NEW k \in Up(t)', k # c PROVE k \in Up(t)
      BY <1>1, <1>3, <3>1 DEF Up, Instance
    <3>2. CASE i # c /\ j # c
      <4>1. NamedEarly(t)
        BY <2>1, <3>1, <3>2 DEF IInv, OneOwner
      <4> QED
        BY <1>4, <4>1, EarlyStays
    <3>3. CASE i = c \/ j = c
      <4>1. t = s
        BY <1>1, <3>3 DEF Up
      <4>2. PICK k : k \in Up(s)
        BY <2>1, <3>1, <3>3, <4>1
      <4>3. NamedEarly(s) \/ \E d \in Creating : call[d].sid = s
        BY <4>2
      <4> QED
        BY <1>4, <4>1, <4>3, CalledEarly
    <3> QED
      BY <3>2, <3>3
  <2> HIDE DEF Up, NamedEarly
  <2> QED
    BY <2>1 DEF OneOwner
<1> QED
  BY <1>4, <1>5, <1>6, <1>7, <1>8, <1>9, StepKeeps

LEMMA OpenColdKeeps ==
  ASSUME IInv, NEW c \in Calls, NEW s \in Sids, OpenCold(c, s)
  PROVE  IInv'
<1>1. /\ Idle(c, "open") /\ Calling(c, "open", s, "building", {}) /\ ~shuttingDown
      /\ "open" \in Builders \cap Kinds
      /\ phase' = [phase EXCEPT ![c] = "building"] /\ UNCHANGED <<map, shuttingDown>>
      /\ map[s] = Nothing /\ opening[s] = Nothing
      /\ opening' = [opening EXCEPT ![s] = c]
      /\ UNCHANGED <<stored, legacy, order, leased>>
  BY DEF OpenCold, Idle, Builders
<1>2. call' \in [Calls -> CallRecords]
  BY <1>1, CallingType DEF IInv
<1>3. TypeOK'
  BY <1>1, <1>2 DEF IInv, TypeOK
<1>4. ASSUME NEW i \in Up(s)
      PROVE  NamedEarly(s) \/ \E d \in Creating : call[d].sid = s
  <2>1. i # opening[s]
    BY <1>1, SessionsAssumption DEF Up
  <2> QED
    BY <1>1, <2>1, UnlistedIsKnown
<1>5. ASSUME StepOf(c) PROVE OpeningIsOn'
  <2>1. /\ call'[c].kind = "open" /\ call'[c].sid = s /\ call'[c].pc = "building"
        /\ \A d \in Calls \ {c} : call'[d] = call[d]
    BY <1>1, CallingFields DEF IInv
  <2>2. call[c].pc = "idle"
    BY <1>1, IdleIsNew
  <2>3. opening'[s] = c /\ \A t \in Sids \ {s} : opening'[t] = opening[t]
    BY <1>1 DEF IInv, TypeOK
  <2>4. ASSUME NEW t \in Sids, opening'[t] # Nothing
        PROVE  /\ call'[opening'[t]].kind = "open" /\ call'[opening'[t]].sid = t
               /\ call'[opening'[t]].pc \in Restoring
    <3>1. CASE t = s
      BY <2>1, <2>3, <3>1 DEF Restoring
    <3>2. CASE t # s
      <4>1. opening'[t] = opening[t] /\ opening[t] \in Calls
        BY <2>3, <2>4, <3>2 DEF IInv, TypeOK
      <4>2. /\ call[opening[t]].kind = "open" /\ call[opening[t]].sid = t
            /\ call[opening[t]].pc \in Restoring
        BY <2>4, <4>1 DEF IInv, OpeningIsOn
      <4>3. opening[t] # c
        BY <2>2, <4>2 DEF Restoring
      <4> QED
        BY <2>1, <4>1, <4>2, <4>3
    <3> QED
      BY <3>1, <3>2
  <2>5. ASSUME NEW d \in Calls, call'[d].kind = "open", call'[d].pc \in Restoring
        PROVE  opening'[call'[d].sid] = d
    <3>1. CASE d = c
      BY <2>1, <2>3, <3>1
    <3>2. CASE d # c
      <4>1. call'[d] = call[d] /\ opening[call[d].sid] = d /\ call[d].sid \in Sids
        BY <2>1, <2>5, <3>2 DEF IInv, OpeningIsOn, CallsInOrder, Stage
      <4>2. call[d].sid # s
        BY <1>1, <4>1, SessionsAssumption
      <4> QED
        BY <2>3, <4>1, <4>2
    <3> QED
      BY <3>1, <3>2
  <2> QED
    BY <2>4, <2>5 DEF OpeningIsOn
<1> HIDE DEF Builders, IInv
<1> QED
  BY <1>1, <1>3, <1>4, <1>5, BuildKeeps

LEMMA CreateKeeps ==
  ASSUME IInv, NEW c \in Calls, NEW s \in Sids, Create(c, s)
  PROVE  IInv'
<1>1. /\ Idle(c, "create") /\ Calling(c, "create", s, "building", {}) /\ ~shuttingDown
      /\ "create" \in Builders \cap Kinds
      /\ phase' = [phase EXCEPT ![c] = "building"] /\ UNCHANGED <<map, shuttingDown>>
      /\ stored' = stored \cup {s} /\ \A d \in Calls : call[d].sid # s
      /\ UNCHANGED <<legacy, opening, order, leased>>
  BY DEF Create, Idle, Builders
<1>2. call' \in [Calls -> CallRecords]
  BY <1>1, CallingType DEF IInv
<1>3. TypeOK'
  BY <1>1, <1>2 DEF IInv, TypeOK
<1>4. ASSUME NEW i \in Up(s)
      PROVE  NamedEarly(s) \/ \E d \in Creating : call[d].sid = s
  BY <1>1 DEF Up
<1>5. ASSUME StepOf(c) PROVE OpeningIsOn'
  <2>1. call'[c].kind = "create" /\ call[c].pc = "idle"
    BY <1>1, CallingFields, IdleIsNew DEF IInv
  <2> QED
    BY <1>1, <1>5, <2>1, OpeningStays DEF Restoring
<1> HIDE DEF Builders, IInv
<1> QED
  BY <1>1, <1>3, <1>4, <1>5, BuildKeeps

\* A call that goes on, of the fields that do not change.
LEMMA GoesOn ==
  ASSUME IInv, NEW c \in Calls, NEW pc, NEW waits, Continue(c, pc, waits),
         call[c].pc # "idle", pc # "idle"
  PROVE  Remembers(c) /\ \A d \in Calls \ {c} : call'[d] = call[d]
  BY ContinueFields DEF IInv, Remembers

\* A call that builds is none of those that close.
LEMMA BuildersDoNotClose ==
  ASSUME IInv, NEW c \in Calls, phase[c] # "none"
  PROVE  /\ call[c].kind \notin {"close", "delete", "migrate", "shutdown"}
         /\ call'[c].kind = call[c].kind => Covers(c)' /\ CoversAll(c)'
<1>1. call[c].kind \in Builders
  BY DEF IInv, CallsInOrder, Stage
<1> QED
  BY <1>1 DEF Builders, Covers, CoversAll

LEMMA BuildFailsKeeps ==
  ASSUME IInv, NEW c \in Calls, BuildFails(c)
  PROVE  IInv'
<1>1. /\ Continue(c, "failing", {c}) /\ call[c].pc = "building"
      /\ phase' = [phase EXCEPT ![c] = "disposing"]
      /\ UNCHANGED <<stored, legacy, map, opening, order, shuttingDown, leased>>
  BY DEF BuildFails
<1>2. Remembers(c) /\ \A d \in Calls \ {c} : call'[d] = call[d]
  BY <1>1, GoesOn
<1>3. phase[c] = "building" /\ Stage(c)
  BY <1>1 DEF IInv, CallsInOrder, Stage
<1>4. phase'[c] = "disposing" /\ \A i \in Calls \ {c} : phase'[i] = phase[i]
  BY <1>1 DEF IInv, TypeOK
<1>5. StepOf(c)
  BY <1>1, <1>2, <1>4 DEF StepOf, Ages
<1>6. /\ call'[c].pc = "failing" /\ call'[c].waits = {c} /\ call'[c].kind = call[c].kind
      /\ call'[c].sid = call[c].sid /\ call'[c].saw = call[c].saw
  BY <1>1, ContinueFields DEF IInv
<1>7. Stage(c)'
  <2>1. \A i \in call'[c].saw : phase'[i] # "none"
    BY <1>3, <1>4, <1>6, CallTypes DEF IInv, Stage
  <2> QED
    BY <1>3, <1>4, <1>6, <2>1 DEF Stage
<1>8. Covers(c)' /\ CoversAll(c)'
  BY <1>3, <1>6, BuildersDoNotClose
<1>9. MapIsLive'
  <2>1. ASSUME NEW t \in Sids, map[t] # Nothing PROVE phase'[map[t]] = "live"
    <3>1. map[t] \in Calls /\ phase[map[t]] = "live"
      BY <2>1 DEF IInv, TypeOK, MapIsLive
    <3> QED
      BY <1>3, <1>4, <3>1
  <2> QED
    BY <1>1, <1>5, <2>1, TableStays
<1>10. OpeningIsOn'
  BY <1>1, <1>5, <1>6, OpeningStays DEF Restoring
<1>11. OneOwner'
  BY <1>4, <1>5, OwnersStay
<1>12. UpIsListed'
  <2>1. ASSUME NEW i \in Calls, phase'[i] = "live" PROVE phase[i] = "live"
    BY <1>4, <2>1
  <2> QED
    BY <1>1, <1>5, <2>1, ListedStays DEF IInv, UpIsListed, Instance
<1>13. TypeOK'
  <2>1. call' \in [Calls -> CallRecords]
    BY <1>1, ContinueType DEF IInv
  <2> QED
    BY <1>1, <2>1 DEF IInv, TypeOK
<1> QED
  BY <1>5, <1>7, <1>8, <1>9, <1>10, <1>11, <1>12, <1>13, StepKeeps

\* A call that goes on, while no instance changes.
LEMMA ContinueKeeps ==
  ASSUME IInv, NEW c \in Calls, NEW pc \in {"done", "failed"}, NEW waits \in SUBSET Calls,
         Continue(c, pc, waits), UNCHANGED <<map, phase, shuttingDown>>,
         call[c].pc \notin {"idle", "building"},
         pc = "failed" => phase[c] \in {"none", "disposed"},
         TypeOK', StepOf(c) => Covers(c)' /\ CoversAll(c)' /\ OpeningIsOn'
  PROVE  IInv'
<1>1. Remembers(c) /\ \A d \in Calls \ {c} : call'[d] = call[d]
  BY GoesOn
<1>2. StepOf(c) /\ MapIsLive' /\ OneOwner' /\ UpIsListed'
  BY <1>1, QuietStep
<1>3. Stage(c)'
  <2>1. /\ call'[c].pc = pc /\ call'[c].kind = call[c].kind
        /\ call'[c].sid = call[c].sid /\ call'[c].saw = call[c].saw
    BY ContinueFields DEF IInv
  <2>2. Stage(c)
    BY DEF IInv, CallsInOrder
  <2> QED
    BY <2>1, <2>2 DEF Stage
<1> QED
  BY <1>2, <1>3, StepKeeps

LEMMA OpenedKeeps ==
  ASSUME IInv, NEW c \in Calls, Opened(c)
  PROVE  IInv'
<1>1. PICK pc : pc = IF call[c].pc = "evicting" THEN "done" ELSE "failed"
  OBVIOUS
<1>2. /\ call[c].pc \in {"evicting", "failing"} /\ Over(call[c].waits)
      /\ Continue(c, pc, {c}) /\ Leave(c)
      /\ UNCHANGED <<stored, legacy, map, order, shuttingDown, phase, leased>>
  BY <1>1 DEF Opened
<1>3. pc \in {"done", "failed"}
  BY <1>1
<1>4. /\ call'[c].pc = pc /\ call'[c].kind = call[c].kind
  BY <1>2, ContinueFields DEF IInv
<1>5. Stage(c)
  BY DEF IInv, CallsInOrder
<1>6. pc = "failed" => phase[c] = "disposed"
  BY <1>1, <1>2, <1>5 DEF Stage, Over
<1>7. phase[c] # "none"
  BY <1>2, <1>5 DEF Stage
<1>8. TypeOK'
  <2>1. call' \in [Calls -> CallRecords]
    BY <1>2, <1>3, ContinueType DEF IInv
  <2>2. opening' \in [Sids -> Calls \cup {Nothing}]
    BY <1>2, LeaveType DEF IInv
  <2> QED
    BY <1>2, <2>1, <2>2 DEF IInv, TypeOK
<1>9. Covers(c)' /\ CoversAll(c)'
  BY <1>4, <1>7, BuildersDoNotClose
<1>10. StepOf(c) => OpeningIsOn'
  BY <1>2, <1>3, <1>4, OpeningLeft DEF Restoring
<1>11. call[c].pc \notin {"idle", "building"}
  BY <1>2
<1> QED
  BY <1>2, <1>3, <1>6, <1>8, <1>9, <1>10, <1>11, ContinueKeeps

LEMMA JoinedKeeps ==
  ASSUME IInv, NEW c \in Calls, Joined(c)
  PROVE  IInv'
<1>1. /\ call[c].pc = "joined" /\ call[c].waits \subseteq Calls
      /\ \E d \in call[c].waits : Settled(d) /\ Continue(c, call[d].pc, call[c].waits)
      /\ UNCHANGED <<stored, legacy, map, opening, order, shuttingDown, phase, leased>>
  BY CallTypes DEF Joined, IInv
<1>2. PICK d \in Calls : Settled(d) /\ Continue(c, call[d].pc, call[c].waits)
  BY <1>1
<1>3. PICK pc, waits : pc = call[d].pc /\ waits = call[c].waits
  OBVIOUS
<1>4. /\ pc \in {"done", "failed"} /\ waits \in SUBSET Calls /\ Continue(c, pc, waits)
  BY <1>1, <1>2, <1>3 DEF Settled
<1>5. call'[c].pc = pc /\ call'[c].kind = call[c].kind
  BY <1>4, ContinueFields DEF IInv
<1>6. phase[c] = "none" /\ call[c].kind = "open"
  BY <1>1 DEF IInv, CallsInOrder, Stage
<1>7. TypeOK'
  <2>1. call' \in [Calls -> CallRecords]
    BY <1>4, ContinueType DEF IInv
  <2> QED
    BY <1>1, <2>1 DEF IInv, TypeOK
<1>8. Covers(c)' /\ CoversAll(c)'
  BY <1>5, <1>6 DEF Covers, CoversAll
<1>9. StepOf(c) => OpeningIsOn'
  BY <1>1, <1>4, <1>5, OpeningStays DEF Restoring
<1>10. call[c].pc \notin {"idle", "building"}
  BY <1>1
<1> QED
  BY <1>1, <1>4, <1>6, <1>7, <1>8, <1>9, <1>10, ContinueKeeps

\* The session comes up and evicts others.
LEMMA PublishKeeps ==
  ASSUME IInv, NEW c \in Calls, Publish(c)
  PROVE  IInv'
<1>1. PICK s : s = call[c].sid
  OBVIOUS
<1>2. call[c].pc = "building" /\ phase[c] = "building" /\ s \in Sids
  BY <1>1 DEF Publish, IInv, CallsInOrder, Stage, Builders
<1>3. PICK shown, gone, closed :
        /\ shown = [map EXCEPT ![s] = c] /\ gone = Victims(Touched(s), shown)
        /\ closed = {shown[t] : t \in gone}
  OBVIOUS
<1>4. /\ gone \subseteq {t \in Sids : shown[t] # Nothing}
      /\ shown \in [Sids -> Calls \cup {Nothing}] /\ shown[s] = c
      /\ \A t \in Sids \ {s} : shown[t] = map[t]
      /\ closed \subseteq Calls
      /\ map' = Without(shown, gone) /\ order' = Removed(Touched(s), gone)
      /\ phase' \in [Calls -> {"none", "building", "live", "disposing", "disposed"}]
      /\ \A i \in Calls :
           phase'[i] = IF i \in closed THEN "disposing"
                       ELSE IF i = c THEN "live" ELSE phase[i]
      /\ IF closed = {} THEN Continue(c, "done", {c}) /\ Leave(c)
         ELSE Continue(c, "evicting", closed) /\ UNCHANGED opening
      /\ UNCHANGED <<stored, legacy, shuttingDown, leased>>
  <2>1. /\ map' = Without(shown, gone) /\ order' = Removed(Touched(s), gone)
        /\ phase' = Disposing([phase EXCEPT ![c] = "live"], closed)
        /\ IF closed = {} THEN Continue(c, "done", {c}) /\ Leave(c)
           ELSE Continue(c, "evicting", closed) /\ UNCHANGED opening
        /\ UNCHANGED <<stored, legacy, shuttingDown, leased>>
    BY <1>1, <1>3 DEF Publish
  <2>2. /\ shown \in [Sids -> Calls \cup {Nothing}] /\ shown[s] = c
        /\ \A t \in Sids \ {s} : shown[t] = map[t]
    BY <1>2, <1>3 DEF IInv, TypeOK
  <2>3. ASSUME NEW t \in gone PROVE t \in Sids /\ shown[t] # Nothing
    <3>1. t \in Sids /\ Touched(s)[t] # {}
      BY <1>3, <2>3 DEF Victims
    <3>2. t # s => map[t] # Nothing
      BY <1>2, <3>1, TouchedType DEF IInv
    <3> QED
      BY <2>2, <3>1, <3>2, SessionsAssumption
  <2>4. closed \subseteq Calls
    BY <1>3, <2>2, <2>3
  <2>5. /\ phase' \in [Calls -> {"none", "building", "live", "disposing", "disposed"}]
        /\ \A i \in Calls :
             phase'[i] = IF i \in closed THEN "disposing"
                         ELSE IF i = c THEN "live" ELSE phase[i]
    <3>1. PICK ph : ph = [phase EXCEPT ![c] = "live"]
      OBVIOUS
    <3>2. /\ ph \in [Calls -> {"none", "building", "live", "disposing", "disposed"}]
          /\ \A i \in Calls : ph[i] = IF i = c THEN "live" ELSE phase[i]
      BY <3>1 DEF IInv, TypeOK
    <3>3. phase' = Disposing(ph, closed)
      BY <2>1, <3>1
    <3>4. /\ phase' \in [Calls -> {"none", "building", "live", "disposing", "disposed"}]
          /\ \A i \in Calls : phase'[i] = IF i \in closed THEN "disposing" ELSE ph[i]
      BY <3>2, <3>3, DisposingFields
    <3> QED
      BY <3>2, <3>4
  <2> QED
    BY <2>1, <2>2, <2>3, <2>4, <2>5
<1>5. PICK pc, waits : /\ pc = IF closed = {} THEN "done" ELSE "evicting"
                       /\ waits = IF closed = {} THEN {c} ELSE closed
  OBVIOUS
<1>6. /\ Continue(c, pc, waits) /\ pc \in {"done", "evicting"} /\ waits \in SUBSET Calls
      /\ pc = "done" => Leave(c)
      /\ pc = "evicting" => UNCHANGED opening
  BY <1>4, <1>5
<1>7. /\ call'[c].pc = pc /\ call'[c].kind = call[c].kind /\ call'[c].sid = s
      /\ call'[c].saw = call[c].saw
  BY <1>1, <1>6, ContinueFields DEF IInv
<1>8. Remembers(c) /\ \A d \in Calls \ {c} : call'[d] = call[d]
  BY <1>2, <1>6, GoesOn
<1>9. ASSUME NEW t \in Sids, map[t] # Nothing
      PROVE  /\ map[t] \in Calls /\ map[t] # c /\ phase[map[t]] = "live"
             /\ call[map[t]].sid = t
  BY <1>2, <1>9 DEF IInv, TypeOK, MapIsLive
\* who is closed was up, under the name that goes
<1>10. ASSUME NEW i \in closed, i # c
       PROVE  phase[i] = "live" /\ call[i].sid \in gone /\ map[call[i].sid] = i
  <2>1. PICK t \in gone : i = shown[t]
    BY <1>3, <1>10
  <2>2. t # s /\ map[t] = i /\ map[t] # Nothing /\ t \in Sids
    BY <1>4, <1>10, <2>1
  <2> QED
    BY <1>9, <2>1, <2>2
<1>11. StepOf(c)
  <2>1. ASSUME NEW d \in Calls \ {c} PROVE Ages(d)
    BY <1>4, <1>10 DEF Ages
  <2> QED
    BY <1>2, <1>4, <1>8, <2>1 DEF StepOf
<1>12. Stage(c)'
  <2>1. Stage(c)
    BY DEF IInv, CallsInOrder
  <2>2. \A i \in call'[c].saw : phase'[i] # "none"
    BY <1>4, <1>7, <2>1, CallTypes DEF IInv, Stage
  <2>3. phase'[c] \in {"live", "disposing"}
    BY <1>4
  <2> QED
    BY <1>1, <1>2, <1>6, <1>7, <2>1, <2>2, <2>3 DEF Stage
<1>13. Covers(c)' /\ CoversAll(c)'
  BY <1>2, <1>7, BuildersDoNotClose
<1>14. \A t \in Sids : map'[t] = IF t \in gone THEN Nothing ELSE shown[t]
  BY <1>4 DEF Without
<1>15. MapIsLive'
  <2>1. ASSUME NEW t \in Sids, map'[t] # Nothing
        PROVE  phase'[map'[t]] = "live" /\ call'[map'[t]].sid = t
    <3>1. t \notin gone /\ map'[t] = shown[t]
      BY <1>14, <2>1
    <3>2. CASE t = s
      <4>1. c \notin closed
        <5>1. ASSUME NEW u \in gone PROVE c # shown[u]
          BY <1>4, <1>9, <3>1, <3>2, <5>1
        <5> QED
          BY <1>3, <5>1
      <4> QED
        BY <1>4, <1>7, <3>1, <3>2, <4>1
    <3>3. CASE t # s
      <4>1. map'[t] = map[t] /\ map[t] # Nothing
        BY <1>4, <2>1, <3>1, <3>3
      <4>2. map[t] \in Calls /\ map[t] # c /\ phase[map[t]] = "live" /\ call[map[t]].sid = t
        BY <1>9, <4>1
      <4>3. map[t] \notin closed
        BY <1>10, <3>1, <4>2
      <4> QED
        BY <1>4, <1>8, <4>1, <4>2, <4>3
    <3> QED
      BY <3>2, <3>3
  <2> QED
    BY <2>1 DEF MapIsLive
<1>16. OpeningIsOn'
  <2>1. CASE pc = "done"
    BY <1>6, <1>7, <1>11, <2>1, OpeningLeft DEF Restoring
  <2>2. CASE pc = "evicting"
    BY <1>2, <1>6, <1>7, <1>11, <2>2, OpeningStays DEF Restoring
  <2> QED
    BY <1>6, <2>1, <2>2
<1>17. OneOwner'
  BY <1>2, <1>11, OwnersStay
<1>18. UpIsListed'
  <2>1. ASSUME NEW i \in Calls, phase'[i] = "live"
        PROVE  Instance(i) /\ (map'[call[i].sid] = i \/ NamedEarly(call[i].sid))
    <3>0. i \notin closed
      BY <1>4, <2>1
    <3>1. CASE i = c
      <4>1. s \notin gone
        BY <1>3, <1>4, <3>0, <3>1
      <4> QED
        BY <1>1, <1>2, <1>4, <1>14, <3>1, <4>1 DEF Instance
    <3>2. CASE i # c
      <4>1. phase[i] = "live"
        BY <1>4, <2>1, <3>0, <3>2
      <4>2. PICK t \in Sids : t = call[i].sid
        BY <4>1, BuiltIsCalled
      <4>3. CASE t = s
        <5>1. i \in Up(s) /\ c \in Up(s)
          BY <1>1, <1>2, <4>1, <4>2, <4>3 DEF Up, Instance
        <5>2. NamedEarly(s)
          BY <1>2, <3>2, <5>1 DEF IInv, OneOwner
        <5> QED
          BY <4>1, <4>2, <4>3, <5>2 DEF Instance
      <4>4. CASE t # s /\ map[t] = i
        <5>1. shown[t] = i
          BY <1>4, <4>4
        <5>2. ASSUME t \in gone PROVE FALSE
          <6>1. shown[t] \in {shown[u] : u \in gone}
            BY <5>2
          <6>2. shown[t] \in closed
            BY <1>3, <6>1, Zenon
          <6> QED
            BY <3>0, <5>1, <6>2
        <5> QED
          BY <1>14, <4>1, <4>2, <5>1, <5>2 DEF Instance
      <4>5. CASE t # s /\ map[t] # i
        BY <4>1, <4>2, <4>5 DEF IInv, UpIsListed, Instance
      <4> QED
        BY <4>3, <4>4, <4>5
    <3> QED
      BY <3>1, <3>2
  <2> QED
    BY <1>11, <2>1, ListedStays
<1>19. TypeOK'
  <2>1. call' \in [Calls -> CallRecords]
    BY <1>6, ContinueType DEF IInv
  <2>2. opening' \in [Sids -> Calls \cup {Nothing}]
    BY <1>6, LeaveType DEF IInv, TypeOK
  <2>3. PICK list : list = Touched(s)
    OBVIOUS
  <2>4. list \in [Sids -> SUBSET Sids]
        /\ \A t \in Sids : IF shown[t] = Nothing THEN list[t] = {} ELSE t \in list[t]
    BY <1>2, <1>4, <2>3, TouchedType, SessionsAssumption DEF IInv
  <2>5. /\ map' \in [Sids -> Calls \cup {Nothing}] /\ order' \in [Sids -> SUBSET Sids]
        /\ \A t \in Sids : IF map'[t] = Nothing THEN order'[t] = {} ELSE t \in order'[t]
    BY <1>4, <2>3, <2>4, TableType
  <2> QED
    BY <1>4, <2>1, <2>2, <2>5 DEF IInv, TypeOK
<1> QED
  BY <1>11, <1>12, <1>13, <1>15, <1>16, <1>17, <1>18, <1>19, StepKeeps

-----------------------------------------------------------------------------
(* close, delete, prepareForWrite                                          *)

\* The sessions gone leave the table, and those they were in it begin to be
\* disposed: of everybody else nothing changes.
LEMMA ClosingStep ==
  ASSUME IInv, NEW c \in Calls, phase[c] = "none", Remembers(c),
         \A d \in Calls \ {c} : call'[d] = call[d], UNCHANGED shuttingDown,
         NEW gone \in SUBSET Sids, NEW ids \in SUBSET Calls,
         \A i \in Calls : i \in ids <=> \E t \in gone : map[t] = i,
         map' = Without(map, gone), order' = Removed(order, gone),
         phase' = Disposing(phase, ids)
  PROVE  /\ StepOf(c) /\ MapIsLive' /\ OneOwner' /\ UpIsListed'
         /\ map' \in [Sids -> Calls \cup {Nothing}] /\ order' \in [Sids -> SUBSET Sids]
         /\ \A t \in Sids : IF map'[t] = Nothing THEN order'[t] = {} ELSE t \in order'[t]
         /\ phase' \in [Calls -> {"none", "building", "live", "disposing", "disposed"}]
         /\ \A i \in Calls : phase'[i] = IF i \in ids THEN "disposing" ELSE phase[i]
<1>1. PICK m, list, ph : m = map /\ list = order /\ ph = phase
  OBVIOUS
<1>2. /\ m \in [Sids -> Calls \cup {Nothing}] /\ list \in [Sids -> SUBSET Sids]
      /\ ph \in [Calls -> {"none", "building", "live", "disposing", "disposed"}]
      /\ \A s \in Sids : IF m[s] = Nothing THEN list[s] = {} ELSE s \in list[s]
  BY <1>1 DEF IInv, TypeOK
<1>3. /\ map' = Without(m, gone) /\ order' = Removed(list, gone)
      /\ phase' = Disposing(ph, ids)
  BY <1>1
<1>4. /\ map' \in [Sids -> Calls \cup {Nothing}] /\ order' \in [Sids -> SUBSET Sids]
      /\ \A t \in Sids : IF map'[t] = Nothing THEN order'[t] = {} ELSE t \in order'[t]
  BY <1>2, <1>3, TableType
<1>5. /\ phase' \in [Calls -> {"none", "building", "live", "disposing", "disposed"}]
      /\ \A i \in Calls : phase'[i] = IF i \in ids THEN "disposing" ELSE phase[i]
  BY <1>1, <1>2, <1>3, DisposingFields
<1>6. \A t \in Sids : map'[t] = IF t \in gone THEN Nothing ELSE map[t]
  BY <1>1, <1>2, <1>3, WithoutFields
<1>7. ASSUME NEW i \in ids PROVE phase[i] = "live" /\ call[i].sid \in gone
  <2>1. PICK t \in gone : map[t] = i
    OBVIOUS
  <2>2. i # Nothing
    BY SessionsAssumption
  <2> QED
    BY <2>1, <2>2 DEF IInv, MapIsLive
<1>8. StepOf(c)
  <2>1. c \notin ids
    BY <1>7
  <2>2. ASSUME NEW d \in Calls \ {c} PROVE Ages(d)
    BY <1>5, <1>7 DEF Ages
  <2> QED
    BY <1>5, <2>1, <2>2 DEF StepOf
<1>9. MapIsLive'
  <2>1. ASSUME NEW t \in Sids, map'[t] # Nothing
        PROVE  map'[t] = map[t] /\ phase'[map[t]] = "live"
    <3>1. t \notin gone /\ map'[t] = map[t] /\ map[t] \in Calls
      BY <1>6, <2>1 DEF IInv, TypeOK
    <3>2. phase[map[t]] = "live" /\ call[map[t]].sid = t
      BY <2>1, <3>1 DEF IInv, MapIsLive
    <3>3. map[t] \notin ids
      BY <1>7, <3>1, <3>2
    <3> QED
      BY <1>5, <3>1, <3>2, <3>3
  <2> QED
    BY <1>8, <2>1, TableStays
<1>10. OneOwner'
  <2>1. phase'[c] \in {"building", "live"} => phase[c] \in {"building", "live"}
    BY <1>5
  <2> QED
    BY <1>8, <2>1, OwnersStay
<1>11. UpIsListed'
  <2>1. ASSUME NEW i \in Calls, phase'[i] = "live"
        PROVE  Instance(i) /\ (map'[call[i].sid] = i \/ NamedEarly(call[i].sid))
    <3>1. i \notin ids /\ phase[i] = "live"
      BY <1>5, <2>1
    <3>2. PICK t \in Sids : t = call[i].sid
      BY <3>1, BuiltIsCalled
    <3>3. CASE map[t] = i
      <4>1. t \notin gone
        BY <3>1, <3>3
      <4> QED
        BY <1>6, <3>1, <3>2, <3>3, <4>1 DEF Instance
    <3>4. CASE map[t] # i
      BY <3>1, <3>2, <3>4 DEF IInv, UpIsListed, Instance
    <3> QED
      BY <3>3, <3>4
  <2> QED
    BY <1>8, <2>1, ListedStays
<1> QED
  BY <1>4, <1>5, <1>8, <1>9, <1>10, <1>11

\* What close() disposes of was the owner of the session, or the session was
\* named early.
LEMMA ClosedIsCovered ==
  ASSUME IInv, NEW s \in Sids, map[s] # Nothing, NEW i \in Up(s), i # map[s]
  PROVE  NamedEarly(s)
<1>1. map[s] \in Calls /\ phase[map[s]] = "live" /\ call[map[s]].sid = s
  BY DEF IInv, TypeOK, MapIsLive
<1>2. map[s] \in Up(s)
  BY <1>1 DEF Up, Instance
<1> QED
  BY <1>2 DEF IInv, OneOwner

LEMMA CloseUpKeeps ==
  ASSUME IInv, NEW c \in Calls, NEW kind \in Kinds, NEW s \in Sids, CloseUp(c, kind, s)
  PROVE  IInv'
<1>1. PICK m \in Calls : m = map[s]
  BY DEF CloseUp, IInv, TypeOK
<1>2. /\ Idle(c, kind) /\ kind \in Closers /\ map[s] = m
      /\ Calling(c, kind, s, "closing", {m})
      /\ map' = Without(map, {s}) /\ order' = Removed(order, {s})
      /\ phase' = Disposing(phase, {m})
      /\ UNCHANGED <<stored, legacy, opening, shuttingDown, leased>>
  BY <1>1 DEF CloseUp, CloseNow
<1>3. /\ call'[c].kind = kind /\ call'[c].sid = s /\ call'[c].pc = "closing"
      /\ call'[c].saw = Sight(kind, s) /\ \A d \in Calls \ {c} : call'[d] = call[d]
  BY <1>2, CallingFields DEF IInv
<1>4. phase[c] = "none" /\ call[c].pc = "idle" /\ Remembers(c)
  BY <1>2, IdleIsNew
<1>5. /\ StepOf(c) /\ MapIsLive' /\ OneOwner' /\ UpIsListed'
      /\ map' \in [Sids -> Calls \cup {Nothing}] /\ order' \in [Sids -> SUBSET Sids]
      /\ \A t \in Sids : IF map'[t] = Nothing THEN order'[t] = {} ELSE t \in order'[t]
      /\ phase' \in [Calls -> {"none", "building", "live", "disposing", "disposed"}]
      /\ \A i \in Calls : phase'[i] = IF i \in {m} THEN "disposing" ELSE phase[i]
  <2>1. PICK gone \in SUBSET Sids, ids \in SUBSET Calls : gone = {s} /\ ids = {m}
    OBVIOUS
  <2>2. \A i \in Calls : i \in ids <=> \E t \in gone : map[t] = i
    BY <1>1, <2>1
  <2>3. /\ map' = Without(map, gone) /\ order' = Removed(order, gone)
        /\ phase' = Disposing(phase, ids) /\ UNCHANGED shuttingDown
    BY <1>2, <2>1
  <2>4. \A d \in Calls \ {c} : call'[d] = call[d]
    BY <1>3
  <2>5. /\ StepOf(c) /\ MapIsLive' /\ OneOwner' /\ UpIsListed'
        /\ map' \in [Sids -> Calls \cup {Nothing}] /\ order' \in [Sids -> SUBSET Sids]
        /\ \A t \in Sids : IF map'[t] = Nothing THEN order'[t] = {} ELSE t \in order'[t]
        /\ phase' \in [Calls -> {"none", "building", "live", "disposing", "disposed"}]
        /\ \A i \in Calls : phase'[i] = IF i \in ids THEN "disposing" ELSE phase[i]
    BY <1>4, <2>2, <2>3, <2>4, ClosingStep
  <2> QED
    BY <2>1, <2>5
<1>6. TypeOK'
  <2>1. call' \in [Calls -> CallRecords]
    BY <1>2, CallingType DEF IInv
  <2> QED
    BY <1>2, <1>5, <2>1 DEF IInv, TypeOK
<1>7. Stage(c)'
  <2>1. \A i \in call'[c].saw : phase'[i] # "none"
    BY <1>3, <1>5, SightIsBuilt
  <2>2. phase'[c] # "building" /\ (phase'[c] # "none" => c = m)
    BY <1>4, <1>5
  <2>3. c # m
    BY <1>1, <1>2, <1>4, SessionsAssumption DEF IInv, MapIsLive
  <2> QED
    BY <1>3, <2>1, <2>2, <2>3 DEF Stage
<1>8. Covers(c)'
  <2>1. ASSUME NEW i \in Up(s), kind # "shutdown" PROVE ~Instance(i)' \/ NamedEarly(s)'
    <3>1. CASE i = m
      BY <1>5, <3>1 DEF Instance
    <3>2. CASE i # m
      <4>1. NamedEarly(s)
        BY <1>1, <3>2, SessionsAssumption, ClosedIsCovered
      <4> QED
        BY <1>5, <4>1, EarlyStays
    <3> QED
      BY <3>1, <3>2
  <2> QED
    BY <1>3, <2>1 DEF Covers, Sight, NamedEarly, Instance
<1>9. CoversAll(c)'
  BY <1>2, <1>3 DEF CoversAll, Closers
<1>10. OpeningIsOn'
  BY <1>2, <1>3, <1>4, <1>5, OpeningStays DEF Restoring
<1> QED
  BY <1>5, <1>6, <1>7, <1>8, <1>9, <1>10, StepKeeps

\* delete() and prepareForWrite forget what was on disk.
LEMMA FinishType ==
  ASSUME TypeOK, NEW kind, NEW s, Finish(kind, s)
  PROVE  stored' \subseteq Sids /\ legacy' \subseteq Sids
  BY DEF TypeOK, Finish

LEMMA DrainKeeps ==
  ASSUME IInv, NEW c \in Calls, NEW kind \in Kinds, NEW s \in Sids, Drain(c, kind, s)
  PROVE  IInv'
<1>1. PICK o \in Calls : o = opening[s]
  BY DEF Drain, IInv, TypeOK
<1>2. /\ Idle(c, kind) /\ kind \in {"close", "delete"} /\ map[s] = Nothing
      /\ Calling(c, kind, s, "draining", {o})
      /\ UNCHANGED <<stored, legacy, map, opening, order, shuttingDown, phase, leased>>
  BY <1>1 DEF Drain
<1>3. /\ call'[c].kind = kind /\ call'[c].sid = s /\ call'[c].pc = "draining"
      /\ call'[c].waits = {o} /\ call'[c].saw = Up(s)
      /\ \A d \in Calls \ {c} : call'[d] = call[d]
  BY <1>2, CallingFields DEF IInv, Sight
<1>4. TypeOK'
  <2>1. Calling(c, kind, s, "draining", {o}) /\ TypeOK
    BY <1>2 DEF IInv
  <2>2. call' \in [Calls -> CallRecords]
    BY <2>1, CallingType
  <2> QED
    BY <1>2, <2>2 DEF IInv, TypeOK
<1>5. ASSUME StepOf(c) PROVE Covers(c)'
  <2>1. ASSUME NEW i \in Up(s) PROVE i = o \/ NamedEarly(s)'
    BY <1>1, <1>2, <1>5, <2>1, UnlistedIsKnown, CalledEarly
  <2>2. call[o].sid = s /\ call[o].pc \in Restoring
    BY <1>1, SessionsAssumption DEF IInv, OpeningIsOn
  <2>3. call'[o].pc # "idle" /\ call'[o].sid = s
    BY <1>5, <2>2, CallsRemember DEF Restoring
  <2> QED
    BY <1>2, <1>3, <2>1, <2>3 DEF Covers, NamedEarly
<1>6. CoversAll(c)'
  BY <1>2, <1>3 DEF CoversAll
<1> QED
  BY <1>2, <1>4, <1>5, <1>6, BeginKeeps

LEMMA CloseDownKeeps ==
  ASSUME IInv, NEW c \in Calls, NEW kind \in Kinds, NEW s \in Sids, CloseDown(c, kind, s)
  PROVE  IInv'
<1>2. /\ Idle(c, kind) /\ kind \in Closers /\ map[s] = Nothing
      /\ kind \in {"close", "delete"} => opening[s] = Nothing
      /\ Calling(c, kind, s, "done", {}) /\ Finish(kind, s)
      /\ UNCHANGED <<map, opening, order, shuttingDown, phase, leased>>
  BY DEF CloseDown
<1>3. /\ call'[c].kind = kind /\ call'[c].sid = s /\ call'[c].pc = "done"
      /\ call'[c].saw = Up(s)
  BY <1>2, CallingFields DEF IInv, Sight, Closers
<1>4. TypeOK'
  <2>1. call' \in [Calls -> CallRecords]
    BY <1>2, CallingType DEF IInv
  <2>2. stored' \subseteq Sids /\ legacy' \subseteq Sids
    BY <1>2, FinishType DEF IInv
  <2> QED
    BY <1>2, <2>1, <2>2 DEF IInv, TypeOK
<1>5. ASSUME StepOf(c) PROVE Covers(c)'
  <2>1. ASSUME NEW i \in Up(s), kind \in {"close", "delete"} PROVE NamedEarly(s)'
    <3>1. i # opening[s]
      BY <1>2, <2>1, SessionsAssumption DEF Up
    <3> QED
      BY <1>2, <1>5, <3>1, UnlistedIsKnown, CalledEarly
  <2> QED
    BY <1>3, <2>1 DEF Covers, NamedEarly
<1>6. CoversAll(c)'
  BY <1>2, <1>3 DEF CoversAll, Closers
<1> QED
  BY <1>2, <1>4, <1>5, <1>6, BeginKeeps

\* What a settled opening has built is live, or is no more.
LEMMA SettledIsUp ==
  ASSUME IInv, NEW i \in Calls, Settled(i), Instance(i)
  PROVE  phase[i] = "live" /\ call[i].pc = "done"
  BY DEF IInv, CallsInOrder, Stage, Settled, Instance

LEMMA DrainedKeeps ==
  ASSUME IInv, NEW c \in Calls, Drained(c)
  PROVE  IInv'
<1>1. PICK kind, s, W : kind = call[c].kind /\ s = call[c].sid /\ W = call[c].waits
  OBVIOUS
<1>2. /\ call[c].pc = "draining" /\ kind \in Closers
      /\ \A d \in W : Settled(d)
      /\ IF map[s] # Nothing /\ \A d \in W : call[d].pc = "done"
         THEN Continue(c, "closing", {map[s]}) /\ CloseNow(s)
         ELSE /\ Continue(c, "done", {}) /\ Finish(kind, s)
              /\ UNCHANGED <<map, opening, order, shuttingDown, phase, leased>>
  BY <1>1 DEF Drained
<1>3. Stage(c) /\ Covers(c) /\ call[c].saw \subseteq Calls /\ W \subseteq Calls
  BY <1>1, CallTypes DEF IInv, CallsInOrder
<1>4. s \in Sids /\ phase[c] = "none"
  BY <1>1, <1>2, <1>3 DEF Stage, Closers, Builders
\* who is up of what the call saw has been waited for and is listed
<1>5. ASSUME NEW i \in call[c].saw, kind \in {"close", "delete"}, Instance(i),
             ~NamedEarly(s)
      PROVE  map[s] = i /\ \A d \in W : call[d].pc = "done"
  <2>1. i \in W /\ call[i].sid = s /\ \A d \in W : d = i
    BY <1>1, <1>2, <1>3, <1>5 DEF Covers
  <2>2. phase[i] = "live" /\ call[i].pc = "done"
    BY <1>2, <1>3, <1>5, <2>1, SettledIsUp
  <2>3. map[s] = i
    BY <1>3, <1>5, <2>1, <2>2 DEF IInv, UpIsListed
  <2> QED
    BY <2>1, <2>2, <2>3
<1>6. CASE map[s] # Nothing /\ \A d \in W : call[d].pc = "done"
  <2>1. PICK m \in Calls : m = map[s]
    BY <1>4, <1>6 DEF IInv, TypeOK
  <2>2. /\ Continue(c, "closing", {m})
        /\ map' = Without(map, {s}) /\ order' = Removed(order, {s})
        /\ phase' = Disposing(phase, {m})
        /\ UNCHANGED <<stored, legacy, opening, shuttingDown, leased>>
    BY <1>2, <1>6, <2>1 DEF CloseNow
  <2>3. /\ call'[c].kind = kind /\ call'[c].sid = s /\ call'[c].pc = "closing"
        /\ call'[c].saw = call[c].saw
    BY <1>1, <2>2, ContinueFields DEF IInv
  <2>4. Remembers(c) /\ \A d \in Calls \ {c} : call'[d] = call[d]
    BY <1>2, <2>2, GoesOn
  <2>5. /\ StepOf(c) /\ MapIsLive' /\ OneOwner' /\ UpIsListed'
        /\ map' \in [Sids -> Calls \cup {Nothing}] /\ order' \in [Sids -> SUBSET Sids]
        /\ \A t \in Sids : IF map'[t] = Nothing THEN order'[t] = {} ELSE t \in order'[t]
        /\ phase' \in [Calls -> {"none", "building", "live", "disposing", "disposed"}]
        /\ \A i \in Calls : phase'[i] = IF i = m THEN "disposing" ELSE phase[i]
    <3>1. PICK gone \in SUBSET Sids, ids \in SUBSET Calls : gone = {s} /\ ids = {m}
      BY <1>4
    <3>2. \A i \in Calls : i \in ids <=> \E t \in gone : map[t] = i
      BY <2>1, <3>1
    <3>3. /\ map' = Without(map, gone) /\ order' = Removed(order, gone)
          /\ phase' = Disposing(phase, ids) /\ UNCHANGED shuttingDown
      BY <2>2, <3>1
    <3>4. /\ StepOf(c) /\ MapIsLive' /\ OneOwner' /\ UpIsListed'
          /\ map' \in [Sids -> Calls \cup {Nothing}] /\ order' \in [Sids -> SUBSET Sids]
          /\ \A t \in Sids :
               IF map'[t] = Nothing THEN order'[t] = {} ELSE t \in order'[t]
          /\ phase' \in [Calls -> {"none", "building", "live", "disposing", "disposed"}]
          /\ \A i \in Calls : phase'[i] = IF i \in ids THEN "disposing" ELSE phase[i]
      BY <1>4, <2>4, <3>2, <3>3, ClosingStep
    <3> QED
      BY <3>1, <3>4
  <2>6. TypeOK'
    <3>1. call' \in [Calls -> CallRecords]
      BY <2>2, ContinueType DEF IInv
    <3> QED
      BY <2>2, <2>5, <3>1 DEF IInv, TypeOK
  <2>7. Stage(c)'
    <3>1. \A i \in call'[c].saw : phase'[i] # "none"
      BY <1>3, <2>3, <2>5 DEF Stage
    <3>2. c # m
      BY <1>4, <1>6, <2>1 DEF IInv, MapIsLive
    <3> QED
      BY <1>1, <1>3, <1>4, <2>3, <2>5, <3>1, <3>2 DEF Stage
  <2>8. Covers(c)'
    <3>1. ASSUME NEW i \in call[c].saw, kind \in {"close", "delete"}
          PROVE  ~Instance(i)' \/ NamedEarly(s)'
      <4>1. CASE ~Instance(i)
        BY <1>3, <2>5, <4>1, DownStays DEF Stage
      <4>2. CASE NamedEarly(s)
        BY <2>5, <4>2, EarlyStays
      <4>3. CASE Instance(i) /\ ~NamedEarly(s)
        <5>1. i = m
          BY <1>5, <2>1, <3>1, <4>3
        <5> QED
          BY <2>5, <5>1 DEF Instance
      <4> QED
        BY <4>1, <4>2, <4>3
    <3> QED
      BY <2>3, <3>1 DEF Covers, NamedEarly, Instance
  <2>9. CoversAll(c)'
    BY <1>2, <2>3 DEF CoversAll, Closers
  <2>10. OpeningIsOn'
    BY <1>2, <2>2, <2>3, <2>5, OpeningStays DEF Restoring
  <2> QED
    BY <2>5, <2>6, <2>7, <2>8, <2>9, <2>10, StepKeeps
<1>7. CASE ~(map[s] # Nothing /\ \A d \in W : call[d].pc = "done")
  <2>1. /\ Continue(c, "done", {}) /\ Finish(kind, s)
        /\ UNCHANGED <<map, opening, order, shuttingDown, phase, leased>>
    BY <1>2, <1>7
  <2>2. /\ call'[c].kind = kind /\ call'[c].sid = s /\ call'[c].pc = "done"
        /\ call'[c].saw = call[c].saw
    BY <1>1, <2>1, ContinueFields DEF IInv
  <2>3. TypeOK'
    <3>1. call' \in [Calls -> CallRecords]
      BY <2>1, ContinueType DEF IInv
    <3>2. stored' \subseteq Sids /\ legacy' \subseteq Sids
      BY <2>1, FinishType DEF IInv
    <3> QED
      BY <2>1, <3>1, <3>2 DEF IInv, TypeOK
  <2>4. ASSUME StepOf(c) PROVE Covers(c)'
    <3>1. ASSUME NEW i \in call[c].saw, kind \in {"close", "delete"}
          PROVE  ~Instance(i)' \/ NamedEarly(s)'
      <4>1. CASE ~Instance(i)
        BY <2>1, <4>1 DEF Instance
      <4>2. CASE NamedEarly(s)
        BY <2>4, <4>2, EarlyStays
      <4>3. CASE Instance(i) /\ ~NamedEarly(s)
        BY <1>3, <1>5, <1>7, <3>1, <4>3, SessionsAssumption
      <4> QED
        BY <4>1, <4>2, <4>3
    <3> QED
      BY <2>2, <3>1 DEF Covers, NamedEarly, Instance
  <2>5. CoversAll(c)'
    BY <1>2, <2>2 DEF CoversAll, Closers
  <2>6. StepOf(c) => OpeningIsOn'
    BY <1>2, <2>1, <2>2, OpeningStays DEF Restoring
  <2>7. call[c].pc \notin {"idle", "building"}
    BY <1>2
  <2> QED
    BY <2>1, <2>3, <2>4, <2>5, <2>6, <2>7, ContinueKeeps
<1> QED
  BY <1>6, <1>7

LEMMA ClosedKeeps ==
  ASSUME IInv, NEW c \in Calls, Closed(c)
  PROVE  IInv'
<1>1. PICK kind, s : kind = call[c].kind /\ s = call[c].sid
  OBVIOUS
<1>2. /\ call[c].pc = "closing" /\ Continue(c, "done", {}) /\ Finish(kind, s)
      /\ UNCHANGED <<map, opening, order, shuttingDown, phase, leased>>
  BY <1>1 DEF Closed
<1>3. Stage(c) /\ Covers(c) /\ CoversAll(c) /\ call[c].saw \subseteq Calls
  BY CallTypes DEF IInv, CallsInOrder
<1>4. /\ call'[c].kind = kind /\ call'[c].sid = s /\ call'[c].pc = "done"
      /\ call'[c].saw = call[c].saw
  BY <1>1, <1>2, ContinueFields DEF IInv
<1>5. TypeOK'
  <2>1. call' \in [Calls -> CallRecords]
    BY <1>2, ContinueType DEF IInv
  <2>2. stored' \subseteq Sids /\ legacy' \subseteq Sids
    BY <1>2, FinishType DEF IInv
  <2> QED
    BY <1>2, <2>1, <2>2 DEF IInv, TypeOK
<1>6. \A i \in Calls : Instance(i)' <=> Instance(i)
  BY <1>2 DEF Instance
<1>7. ASSUME StepOf(c) PROVE Covers(c)'
  <2>1. NamedEarly(s) => NamedEarly(s)'
    BY <1>7, EarlyStays
  <2>2. ASSUME NEW i \in call[c].saw, kind \in {"close", "delete"}
        PROVE  ~Instance(i)' \/ NamedEarly(s)'
    BY <1>1, <1>2, <1>3, <1>6, <2>1, <2>2 DEF Covers
  <2> QED
    BY <1>4, <2>2 DEF Covers, NamedEarly, Instance
<1>8. ASSUME StepOf(c), kind = "shutdown" PROVE CoversAll(c)'
  <2>1. ASSUME NEW i \in Calls, Instance(i)', i \notin call[c].saw
        PROVE  \E e \in Calls : call'[e].sid = call'[i].sid /\ call'[e].early
    <3>1. PICK t : t = call[i].sid
      OBVIOUS
    <3>2. Instance(i) /\ call'[i].sid = t
      BY <1>6, <1>8, <2>1, <3>1, BuiltIsCalled, CallsRemember DEF Instance
    <3>3. NamedEarly(t)
      BY <1>1, <1>2, <1>3, <1>8, <2>1, <3>1, <3>2 DEF CoversAll
    <3>4. NamedEarly(t)'
      BY <1>8, <3>3, EarlyStays
    <3> QED
      BY <3>2, <3>4 DEF NamedEarly
  <2>2. shuttingDown'
    BY <1>1, <1>2, <1>3, <1>8 DEF CoversAll
  <2> QED
    BY <1>4, <2>1, <2>2 DEF CoversAll, NamedEarly
<1>9. kind # "shutdown" => CoversAll(c)'
  BY <1>4 DEF CoversAll
<1>10. StepOf(c) => OpeningIsOn'
  BY <1>2, <1>4, OpeningStays DEF Restoring
<1>11. call[c].pc \notin {"idle", "building"}
  BY <1>2
<1> QED
  BY <1>2, <1>5, <1>7, <1>8, <1>9, <1>10, <1>11, ContinueKeeps

-----------------------------------------------------------------------------
(* shutdown                                                                *)

LEMMA ShutdownKeeps ==
  ASSUME IInv, NEW c \in Calls, Shutdown(c)
  PROVE  IInv'
<1>1. PICK W : W = {opening[s] : s \in Sids} \ {Nothing}
  OBVIOUS
<1>2. /\ Idle(c, "shutdown") /\ "shutdown" \in Kinds /\ shuttingDown' = TRUE
      /\ Calling(c, "shutdown", Nothing, "draining", W)
      /\ UNCHANGED <<stored, legacy, map, opening, order, phase, leased>>
  BY <1>1 DEF Shutdown, Idle
<1>3. W \in SUBSET Calls
  BY <1>1 DEF IInv, TypeOK
<1>4. /\ call'[c].kind = "shutdown" /\ call'[c].pc = "draining"
      /\ call'[c].waits = W /\ call'[c].saw = Creating
  BY <1>2, CallingFields DEF IInv, Sight
<1>5. TypeOK'
  <2>1. call' \in [Calls -> CallRecords]
    BY <1>2, <1>3, CallingType DEF IInv
  <2> QED
    BY <1>2, <2>1 DEF IInv, TypeOK
<1>6. Covers(c)'
  BY <1>4 DEF Covers
\* every instance being built is awaited, or was seen
<1>7. CoversAll(c)'
  <2>1. ASSUME NEW i \in Calls, phase[i] = "building" PROVE i \in Creating \cup W
    <3>1. /\ call[i].pc = "building" /\ call[i].sid \in Sids
          /\ call[i].kind \in {"open", "create"}
      BY <2>1 DEF IInv, CallsInOrder, Stage, Builders
    <3>2. CASE call[i].kind = "open"
      <4>1. opening[call[i].sid] = i
        BY <3>1, <3>2 DEF IInv, OpeningIsOn, Restoring
      <4> QED
        BY <1>1, <3>1, <4>1, SessionsAssumption
    <3>3. CASE call[i].kind = "create"
      BY <3>1, <3>3 DEF Creating
    <3> QED
      BY <3>1, <3>2, <3>3
  <2> QED
    BY <1>2, <1>4, <2>1 DEF CoversAll
<1> QED
  BY <1>2, <1>3, <1>5, <1>6, <1>7, BeginKeeps

LEMMA ShutdownClosesKeeps ==
  ASSUME IInv, NEW c \in Calls, ShutdownCloses(c)
  PROVE  IInv'
<1>1. PICK W, ids : W = call[c].waits /\ ids = {map[s] : s \in Sids} \ {Nothing}
  OBVIOUS
<1>2. /\ call[c].pc = "draining" /\ call[c].kind = "shutdown"
      /\ \A d \in W : Settled(d)
      /\ Continue(c, "closing", ids)
      /\ map' = [s \in Sids |-> Nothing] /\ order' = [s \in Sids |-> {}]
      /\ phase' = Disposing(phase, ids)
      /\ UNCHANGED <<stored, legacy, opening, shuttingDown, leased>>
  BY <1>1 DEF ShutdownCloses
<1>3. ids \in SUBSET Calls /\ W \subseteq Calls
  BY <1>1, CallTypes DEF IInv, TypeOK
<1>4. Stage(c) /\ CoversAll(c) /\ phase[c] = "none" /\ call[c].saw \subseteq Calls
  BY <1>2, CallTypes DEF IInv, CallsInOrder, Stage, Builders
<1>5. /\ call'[c].kind = "shutdown" /\ call'[c].pc = "closing"
      /\ call'[c].saw = call[c].saw
  BY <1>2, ContinueFields DEF IInv
<1>6. Remembers(c) /\ \A d \in Calls \ {c} : call'[d] = call[d]
  BY <1>2, GoesOn
<1>7. /\ StepOf(c) /\ MapIsLive' /\ OneOwner' /\ UpIsListed'
      /\ map' \in [Sids -> Calls \cup {Nothing}] /\ order' \in [Sids -> SUBSET Sids]
      /\ \A t \in Sids : IF map'[t] = Nothing THEN order'[t] = {} ELSE t \in order'[t]
      /\ phase' \in [Calls -> {"none", "building", "live", "disposing", "disposed"}]
      /\ \A i \in Calls : phase'[i] = IF i \in ids THEN "disposing" ELSE phase[i]
  <2>1. PICK gone \in SUBSET Sids : gone = Sids
    OBVIOUS
  <2>2. \A i \in Calls : i \in ids <=> \E t \in gone : map[t] = i
    BY <1>1, <2>1, SessionsAssumption
  <2>3. map' = Without(map, gone)
    BY <1>2, <2>1 DEF Without
  <2>4. order' = Removed(order, gone)
    BY <1>2, <2>1 DEF Removed
  <2>5. phase' = Disposing(phase, ids) /\ UNCHANGED shuttingDown
    BY <1>2
  <2> QED
    BY <1>3, <1>4, <1>6, <2>2, <2>3, <2>4, <2>5, ClosingStep
<1>8. TypeOK'
  <2>1. call' \in [Calls -> CallRecords]
    BY <1>2, <1>3, ContinueType DEF IInv
  <2> QED
    BY <1>2, <1>7, <2>1 DEF IInv, TypeOK
<1>9. \A i \in ids : phase[i] = "live"
  BY <1>1 DEF IInv, MapIsLive
<1>10. Stage(c)'
  <2>1. \A i \in call'[c].saw : phase'[i] # "none"
    BY <1>4, <1>5, <1>7 DEF Stage
  <2>2. phase'[c] = "none"
    BY <1>4, <1>7, <1>9
  <2> QED
    BY <1>5, <2>1, <2>2 DEF Stage
<1>11. Covers(c)'
  BY <1>5 DEF Covers
<1>12. CoversAll(c)'
  <2>1. ASSUME NEW i \in Calls, Instance(i)', i \notin call[c].saw
        PROVE  \E e \in Calls : call'[e].sid = call'[i].sid /\ call'[e].early
    <3>1. i \notin ids /\ phase'[i] = phase[i] /\ Instance(i)
      BY <1>7, <2>1 DEF Instance
    <3>2. phase[i] # "building"
      <4>1. ASSUME phase[i] = "building" PROVE FALSE
        <5>1. i \in W
          BY <1>1, <1>2, <1>4, <2>1, <4>1 DEF CoversAll
        <5> QED
          BY <1>2, <3>1, <4>1, <5>1, SettledIsUp
      <4> QED
        BY <4>1
    <3>3. PICK t \in Sids : t = call[i].sid
      BY <3>1, BuiltIsCalled DEF Instance
    <3>4. map[t] # i
      BY <1>1, <3>1, SessionsAssumption
    <3>5. NamedEarly(t)
      BY <3>1, <3>2, <3>3, <3>4 DEF IInv, UpIsListed, Instance
    <3>6. NamedEarly(t)'
      BY <1>7, <3>5, EarlyStays
    <3>7. call'[i].sid = t
      BY <1>7, <3>1, <3>3, BuiltIsCalled, CallsRemember DEF Instance
    <3> QED
      BY <3>6, <3>7 DEF NamedEarly
  <2>2. shuttingDown'
    BY <1>2, <1>4 DEF CoversAll
  <2> QED
    BY <1>5, <2>1, <2>2 DEF CoversAll, NamedEarly
<1>13. OpeningIsOn'
  BY <1>2, <1>5, <1>7, OpeningStays DEF Restoring
<1> QED
  BY <1>7, <1>8, <1>10, <1>11, <1>12, <1>13, StepKeeps

-----------------------------------------------------------------------------
(* The sessions themselves                                                 *)

LEMMA DisposedKeeps ==
  ASSUME IInv, NEW c \in Calls, Disposed(c)
  PROVE  IInv'
<1>1. /\ phase[c] = "disposing" /\ phase' = [phase EXCEPT ![c] = "disposed"]
      /\ UNCHANGED <<stored, legacy, map, opening, order, shuttingDown, leased, call>>
  BY DEF Disposed
<1>2. phase'[c] = "disposed" /\ \A i \in Calls \ {c} : phase'[i] = phase[i]
  BY <1>1 DEF IInv, TypeOK
<1>3. StepOf(c) /\ Ages(c)
  BY <1>1, <1>2 DEF StepOf, Ages, Remembers
<1>4. Stage(c)' /\ Covers(c)' /\ CoversAll(c)'
  BY <1>1, <1>3, OthersInOrder
<1>5. MapIsLive'
  <2>1. ASSUME NEW t \in Sids, map[t] # Nothing PROVE phase'[map[t]] = "live"
    <3>1. map[t] \in Calls /\ phase[map[t]] = "live"
      BY <2>1 DEF IInv, TypeOK, MapIsLive
    <3> QED
      BY <1>1, <1>2, <3>1
  <2> QED
    BY <1>1, <1>3, <2>1, TableStays
<1>6. OpeningIsOn'
  BY <1>1, <1>3, OpeningStays
<1>7. OneOwner'
  BY <1>2, <1>3, OwnersStay
<1>8. UpIsListed'
  <2>1. ASSUME NEW i \in Calls, phase'[i] = "live" PROVE phase[i] = "live"
    BY <1>2, <2>1
  <2> QED
    BY <1>1, <1>3, <2>1, ListedStays DEF IInv, UpIsListed, Instance
<1>9. TypeOK'
  BY <1>1 DEF IInv, TypeOK
<1> QED
  BY <1>3, <1>4, <1>5, <1>6, <1>7, <1>8, <1>9, StepKeeps

\* Taking a lease, giving it back, or doing nothing.
LEMMA LeasesKeep ==
  ASSUME IInv, NEW c \in Calls, leased' \subseteq Calls,
         UNCHANGED <<stored, legacy, map, opening, order, shuttingDown, phase, call>>
  PROVE  IInv'
<1>1. Remembers(c) /\ Ages(c)
  BY DEF Remembers, Ages
<1>2. StepOf(c) /\ MapIsLive' /\ OneOwner' /\ UpIsListed'
  BY <1>1, QuietStep
<1>3. Stage(c)' /\ Covers(c)' /\ CoversAll(c)'
  BY <1>1, <1>2, OthersInOrder
<1>4. OpeningIsOn'
  BY <1>2, OpeningStays
<1>5. TypeOK'
  BY DEF IInv, TypeOK
<1> QED
  BY <1>2, <1>3, <1>4, <1>5, StepKeeps

-----------------------------------------------------------------------------
(* The theorems                                                            *)

LEMMA InitInv == Init => IInv
<1> SUFFICES ASSUME Init PROVE IInv
  OBVIOUS
<1>1. TypeOK
  <2>1. call \in [Calls -> CallRecords]
    BY NoCallType DEF Init
  <2> QED
    BY <2>1, SessionsAssumption DEF Init, TypeOK
<1>2. \A c \in Calls : call[c] = NoCall /\ phase[c] = "none"
  BY DEF Init
<1>3. CallsInOrder
  <2>1. ASSUME NEW c \in Calls PROVE Stage(c) /\ Covers(c) /\ CoversAll(c)
    <3>1. call[c].kind = "none" /\ call[c].pc = "idle" /\ call[c].saw = {}
      BY <1>2 DEF NoCall
    <3> QED
      BY <1>2, <3>1 DEF Stage, Covers, CoversAll
  <2> HIDE DEF Stage, Covers, CoversAll
  <2> QED
    BY <2>1 DEF CallsInOrder
<1>4. MapIsLive /\ OpeningIsOn
  BY <1>2 DEF Init, MapIsLive, OpeningIsOn, NoCall
<1>5. OneOwner /\ UpIsListed
  BY <1>2 DEF OneOwner, UpIsListed, Up, Instance
<1> QED
  BY <1>1, <1>3, <1>4, <1>5 DEF IInv

LEMMA NextInv == IInv /\ [Next]_vars => IInv'
<1> SUFFICES ASSUME IInv, [Next]_vars PROVE IInv'
  OBVIOUS
<1>1. CASE UNCHANGED vars
  <2>1. UNCHANGED <<stored, legacy, map, opening, order, shuttingDown, phase, call, leased>>
    BY <1>1 DEF vars
  <2>2. CASE Calls = {}
    <3>1. CallsInOrder' /\ OneOwner' /\ UpIsListed'
      BY <2>2 DEF CallsInOrder, OneOwner, UpIsListed, Up
    <3>2. TypeOK' /\ MapIsLive' /\ OpeningIsOn'
      BY <2>1, <2>2 DEF IInv, TypeOK, MapIsLive, OpeningIsOn
    <3> QED
      BY <3>1, <3>2 DEF IInv
  <2>3. CASE Calls # {}
    <3>1. PICK c \in Calls : TRUE
      BY <2>3
    <3>2. leased' \subseteq Calls
      BY <2>1 DEF IInv, TypeOK
    <3> QED
      BY <2>1, <3>1, <3>2, LeasesKeep
  <2> QED
    BY <2>2, <2>3
<1>2. ASSUME NEW c \in Calls, Starts(c) PROVE IInv'
  <2>1. CASE Shutdown(c)
    BY <2>1, ShutdownKeeps
  <2>2. ASSUME NEW s \in Sids,
               \/ Create(c, s) \/ OpenCold(c, s) \/ OpenWarm(c, s)
               \/ OpenJoins(c, s) \/ OpenRefused(c, s)
        PROVE  IInv'
    BY <2>2, CreateKeeps, OpenColdKeeps, OpenWarmKeeps, OpenJoinsKeeps, OpenRefusedKeeps
  <2>3. ASSUME NEW s \in Sids, NEW kind \in Kinds,
               CloseUp(c, kind, s) \/ Drain(c, kind, s) \/ CloseDown(c, kind, s)
        PROVE  IInv'
    BY <2>3, CloseUpKeeps, DrainKeeps, CloseDownKeeps
  <2> QED
    BY <1>2, <2>1, <2>2, <2>3 DEF Starts
<1>3. ASSUME NEW c \in Calls, Continues(c) PROVE IInv'
  BY <1>3, PublishKeeps, BuildFailsKeeps, OpenedKeeps, JoinedKeeps, DrainedKeeps,
     ClosedKeeps, ShutdownClosesKeeps DEF Continues
<1>4. ASSUME NEW c \in Calls, Disposed(c) PROVE IInv'
  BY <1>4, DisposedKeeps
<1>5. ASSUME NEW c \in Calls, Works(c) \/ Rests(c) PROVE IInv'
  <2>1. leased' \subseteq Calls
    BY <1>5 DEF IInv, TypeOK, Works, Rests
  <2>2. UNCHANGED <<stored, legacy, map, opening, order, shuttingDown, phase, call>>
    BY <1>5 DEF Works, Rests
  <2> QED
    BY <2>1, <2>2, LeasesKeep
<1> QED
  BY <1>1, <1>2, <1>3, <1>4, <1>5 DEF Next

\* What the theorems rest on: the invariant holds of every behaviour.
THEOREM Invariant == Spec => []IInv
<1> QED
  BY InitInv, NextInv, PTL DEF Spec

\* Who is in the table is in the list of recently used, and nobody else: the
\* eviction finds everybody it could close, and closes nobody twice.
THEOREM TypeCorrect == Spec => []TypeOK
<1>1. IInv => TypeOK
  BY DEF IInv
<1> QED
  BY <1>1, Invariant, PTL

\* A session on disk has one owner, whatever calls overlap, and the owner can be
\* found: no second tree, log writer or watcher beside one that is up.
THEOREM OwnersKnown == Spec => []OwnersAreKnown
<1>1. IInv => OwnersAreKnown
  BY DEF IInv, OwnersAreKnown
<1> QED
  BY <1>1, Invariant, PTL

\* When close, delete or shutdown has returned, what it closes is down for good.
THEOREM ClosingsComplete == Spec => []ClosingIsComplete
<1>1. ASSUME IInv PROVE CloseCovers
  BY <1>1 DEF IInv, CallsInOrder, Covers, CloseCovers
<1>2. ASSUME IInv PROVE ShutdownIsComplete
  BY <1>2 DEF IInv, CallsInOrder, CoversAll, ShutdownIsComplete
<1>3. IInv => ClosingIsComplete
  BY <1>1, <1>2 DEF ClosingIsComplete
<1> QED
  BY <1>3, Invariant, PTL
=============================================================================
