------------------------------ MODULE JobQueue ------------------------------
(***************************************************************************)
(* What the execution-job queue promises its callers, whatever the jobs do *)
(* and however often the executor dies: jobs start in the order they were  *)
(* accepted, one at a time; a job that has ended stays as it ended; a      *)
(* fragile job that was given up half way is failed, never started again.  *)
(* ManagerControl implements it.                                           *)
(***************************************************************************)
CONSTANT Request

Ended == {"succeeded", "failed", "cancelled"}

VARIABLES
  status,   \* of each request: "absent", "queued", "running" or Ended
  ahead,    \* ahead[r]: the jobs accepted before r
  fragile,  \* accepted jobs that must not be run twice
  retried   \* of the jobs that have not ended, those put back to start again

vars == <<status, ahead, fragile, retried>>

Known   == {r \in Request : status[r] # "absent"}
Waiting == {r \in Request : status[r] = "queued"}
Running == {r \in Request : status[r] = "running"}

Init ==
  /\ status = [r \in Request |-> "absent"]
  /\ ahead = [r \in Request |-> {}]
  /\ fragile = {} /\ retried = {}

\* Jobs are accepted together, behind every job known and in some order.
Accept(jobs) ==
  /\ jobs \subseteq Request \ Known
  /\ status' = [r \in Request |-> IF r \in jobs THEN "queued" ELSE status[r]]
  /\ fragile' \in {fragile, fragile \cup jobs}
  /\ \A r \in Request \ jobs : ahead'[r] = ahead[r]
  /\ \A r \in jobs : Known \subseteq ahead'[r] /\ ahead'[r] \subseteq (Known \cup jobs) \ {r}
  /\ \A r, q \in jobs : r # q => (q \in ahead'[r] <=> r \notin ahead'[q])
  /\ UNCHANGED retried

\* A job ends (or, waiting, is withdrawn).
End(r, result) ==
  /\ status[r] = "running" \/ (status[r] = "queued" /\ result = "cancelled")
  /\ status' = [status EXCEPT ![r] = result]
  /\ retried' = retried \ {r}
  /\ UNCHANGED <<ahead, fragile>>

\* Running jobs may be given up and waiting ones dropped; then, if nothing runs,
\* the job accepted first of those that wait may start.
Settled(lost, dropped) ==
  [r \in Request |-> IF r \in dropped \cup (lost \cap fragile) THEN "failed"
                     ELSE IF r \in lost THEN "queued" ELSE status[r]]

Startable(settled) ==
  {r \in Request :
     /\ \A q \in Request : settled[q] # "running"
     /\ settled[r] = "queued"
     /\ \A q \in ahead[r] : settled[q] # "queued"}

Dispatch(lost, dropped) ==
  LET settled == Settled(lost, dropped) IN
  /\ \/ status' = settled
     \/ \E next \in Startable(settled) : status' = [settled EXCEPT ![next] = "running"]
  /\ retried' = {r \in retried \cup lost : settled[r] \notin Ended}
  /\ UNCHANGED <<ahead, fragile>>

Next ==
  \/ \E jobs \in SUBSET Request : Accept(jobs)
  \/ \E r \in Request, result \in Ended : End(r, result)
  \/ \E lost \in SUBSET Running : \E dropped \in SUBSET (Waiting \cup lost) : Dispatch(lost, dropped)

Spec == Init /\ [][Next]_vars

------------------------------------------------------------------------------
\* One job at a time, as manager-executor "processes one claimed job at a time".
OneAtATime == \A r, q \in Running : r = q

\* A job that has ended keeps its result: nothing that arrives late, and no
\* recovery, reopens it.
ResultsAreFinal == [][\A r \in Request : status[r] \in Ended => status'[r] = status[r]]_vars

\* A fragile job that has started is never put back to start again.
FragileRunOnce == fragile \cap retried = {}
=============================================================================
