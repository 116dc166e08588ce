---------------------------- MODULE TurnContract ----------------------------
(***************************************************************************)
(* What a caller of AgentRuntimeController.acceptTurn may rely on, without *)
(* queues, pumps, signals or instance states: every turn is answered once, *)
(* a turn is worked on at most once, one batch is worked on at a time, and *)
(* the turns of a batch get the same answer together.                      *)
(***************************************************************************)
CONSTANT Ids
VARIABLE status

Statuses == {"none", "waiting", "working", "resolved", "rejected"}
Answers == {"resolved", "rejected"}

Working(f) == {t \in Ids : f[t] = "working"}
Fresh(f) == {t \in Ids : f[t] = "none"}

\* Where a turn that is not being worked on may go in one step.  A new turn
\* may be answered at once: a passive hint that finds nobody working.
Successors(s) ==
  CASE s = "none" -> {"none", "waiting", "working", "resolved"}
    [] s = "waiting" -> {"waiting", "working", "rejected"}
    [] OTHER -> {s}

Init == status = [t \in Ids |-> "none"]

\* One call or one resumption: at most one new turn appears; the batch in
\* work either stays, or is answered as a whole before another one begins.
Step(f) ==
  /\ \A t \in Ids \ Working(status) : f[t] \in Successors(status[t])
  /\ \E fate \in {"working"} \cup Answers :
       /\ \A t \in Working(status) : f[t] = fate
       /\ fate = "working" /\ Working(status) # {}
            => Working(f) = Working(status)
  /\ \A t, u \in Fresh(status) \ Fresh(f) : t = u

Next == status' \in [Ids -> Statuses] /\ Step(status')

Spec == Init /\ [][Next]_status

\* What has begun is answered: nothing leaves its work but for an answer, and
\* again and again nothing is at work.
Answered == []<>(Working(status) = {})

FairSpec == Spec /\ Answered
=============================================================================
