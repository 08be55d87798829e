----------------------------- MODULE ClientJob -----------------------------
(* What a client that polls GET /jobs/{id} may see of a job, in the statuses  *)
(* of src/src/iactranslate/api/jobs.py: accepted once, run any number of      *)
(* times, and given one verdict that never changes.                           *)
CONSTANT Jobs

VARIABLE view

Verdicts == {"completed", "failed"}

TypeOK == view \in [Jobs -> {"none", "queued", "running"} \cup Verdicts]

Init == view = [j \in Jobs |-> "none"]

Accept(j) == view[j] = "none" /\ view' = [view EXCEPT ![j] = "queued"]

Run(j) == view[j] = "queued" /\ view' = [view EXCEPT ![j] = "running"]

\* Running jobs go back to the queue: one after a failure, several at a restart.
Requeue(S) ==
  /\ \A j \in S : view[j] = "running"
  /\ view' = [j \in Jobs |-> IF j \in S THEN "queued" ELSE view[j]]

Finish(j, v) == view[j] = "running" /\ view' = [view EXCEPT ![j] = v]

Next ==
  \/ \E j \in Jobs : Accept(j) \/ Run(j)
  \/ \E S \in SUBSET Jobs : Requeue(S)
  \/ \E j \in Jobs, v \in Verdicts : Finish(j, v)

Spec == Init /\ [][Next]_view
=============================================================================
