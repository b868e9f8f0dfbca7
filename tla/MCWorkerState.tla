--------------------------- MODULE MCWorkerState ---------------------------
(* Small instances of WorkerState for TLC. *)
EXTENDS WorkerState, TLC

CONSTANTS a, b, j1, j2, j3, m1, m2

MCUtts   == {a, b}
MCJobs   == {j1, j2, j3}
MCJobs2  == {j1, j2}
MCModels == {m1, m2}
MCModel  == {m1}

Symmetry == Permutations(MCJobs) \cup Permutations(MCModels)

\* The liveness run narrows the environment, never the worker: the GUI records
\* one phrase at a time and recognises no files, no device changes, no stopped
\* buffer grows old, and a message that would only be refused is not sent.
Refused ==
  out' # {} /\ \A m \in out' :
    m.type \in {"bad-state", "busy", "no-model", "restart-required"}
CalmNext ==
  /\ Next
  /\ Len(chain') <= 1 /\ stale' = {}
  /\ \A i \in DOMAIN chain' : chain'[i].step # "changed"
  /\ \A j \in Jobs : ~job'[j].file
  /\ main = "idle" => ~Refused
CalmSpec == Init /\ [][CalmNext]_vars /\ Fairness
=============================================================================
