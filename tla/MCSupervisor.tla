----------------------------- MODULE MCSupervisor -----------------------------
(***************************************************************************)
(* Small instances of Supervisor for TLC.  One run follows three kinds of  *)
(* use side by side: the waits of one phrase in one generation; those of a *)
(* recognition over a restart; and requests without an id.                 *)
(***************************************************************************)
EXTENDS Supervisor

CONSTANTS a, b

MCUtts == {a}
MCStages == {"record.start", "recognize"}
MCRecognize == {"recognize"}
MCReplies == {"model.load"}
MCNoReplies == {}

\* The kinds of the requests that wait or are still to be answered
Used == {k.kind : k \in {k \in Keys : k \in pending \/ asked[k] > 0 \/ owed[k] > 0}}

\* The states whose successors are explored
Scope ==
  \/ Used \subseteq MCStages \cup {"record.cancel"} /\ generation = 1 /\ Len(todo) < 2
  \/ Used \subseteq MCRecognize \cup {"record.cancel"}
  \/ Used \subseteq MCReplies /\ generation = 1 /\ Len(todo) < 1

\* A GUI that cancels a phrase once, waits for the answer, and asks nothing of a later process
CalmNext ==
  \/ Start \/ Halt \/ Pump \/ Unwind \/ Time \/ Die
  \/ \E k \in Keys, timeout \in BOOLEAN : k \notin pending /\ generation = 1 /\ Send(k, timeout)

CalmSpec == Init /\ [][CalmNext]_vars /\ Fairness

\* A restart that waits for the exit of a process comes to its end, and a cancellation with a
\* deadline is settled, however much the worker says about the phrase
WaitsEnd == RestartEnds /\ CancelSettles
=============================================================================
