--------------------------- MODULE JobQueue_proofs ---------------------------
(***************************************************************************)
(* What follows from the promise of JobQueue for every queue that keeps it.*)
(***************************************************************************)
EXTENDS JobQueue, TLAPS

\* What the steps need to know of the states.
QueueInv ==
  /\ status \in [Request -> {"absent", "queued", "running"} \cup Ended]
  /\ fragile \subseteq Known /\ retried \subseteq Known
  /\ OneAtATime /\ FragileRunOnce

\* A dispatched job starts only when nothing else runs.
LEMMA DispatchStep ==
  ASSUME QueueInv, NEW lost \in SUBSET Running, NEW dropped \in SUBSET (Waiting \cup lost),
         Dispatch(lost, dropped)
  PROVE  /\ QueueInv'
         /\ \A r \in Request : status[r] \in Ended => status'[r] = status[r]
<1> DEFINE settled == Settled(lost, dropped)
<1> USE DEF QueueInv, Ended, Running, Waiting, Known
<1>1. /\ settled \in [Request -> {"absent", "queued", "running"} \cup Ended]
      /\ \A r \in Request :
           /\ settled[r] = "absent" => status[r] = "absent"
           /\ settled[r] = "running" => status[r] = "running"
           /\ status[r] \in Ended => settled[r] = status[r]
           /\ r \in lost \cap fragile => settled[r] \in Ended
  BY DEF Settled
<1>2. fragile' = fragile /\ retried' = {r \in retried \cup lost : settled[r] \notin Ended}
  BY DEF Dispatch
<1> HIDE DEF settled
<1>3. retried' \cap fragile' = {}
  BY <1>1, <1>2 DEF FragileRunOnce
<1>4. retried' \subseteq Known
  BY <1>2
<1>5. CASE status' = settled
  BY <1>1, <1>2, <1>3, <1>4, <1>5 DEF OneAtATime, FragileRunOnce
<1>6. ASSUME NEW next \in Startable(settled), status' = [settled EXCEPT ![next] = "running"]
      PROVE  /\ QueueInv'
             /\ \A r \in Request : status[r] \in Ended => status'[r] = status[r]
  <2>1. next \in Request /\ settled[next] = "queued" /\ \A q \in Request : settled[q] # "running"
    BY DEF Startable
  <2> QED BY <1>1, <1>2, <1>3, <1>4, <1>6, <2>1 DEF OneAtATime, FragileRunOnce
<1> QED BY <1>5, <1>6 DEF Dispatch, settled

LEMMA QueueStep ==
  ASSUME QueueInv, [Next]_vars
  PROVE  /\ QueueInv'
         /\ \A r \in Request : status[r] \in Ended => status'[r] = status[r]
<1>1. CASE UNCHANGED vars
  BY <1>1 DEF vars, QueueInv, Known, OneAtATime, FragileRunOnce, Running, Ended
<1>2. ASSUME NEW jobs \in SUBSET Request, Accept(jobs)
      PROVE  /\ QueueInv'
             /\ \A r \in Request : status[r] \in Ended => status'[r] = status[r]
  BY <1>2 DEF Accept, QueueInv, Known, OneAtATime, FragileRunOnce, Running, Ended
<1>3. ASSUME NEW r \in Request, NEW result \in Ended, End(r, result)
      PROVE  /\ QueueInv'
             /\ \A q \in Request : status[q] \in Ended => status'[q] = status[q]
  BY <1>3 DEF End, QueueInv, Known, OneAtATime, FragileRunOnce, Running, Ended
<1> QED BY <1>1, <1>2, <1>3, DispatchStep DEF Next

LEMMA QueueInvHolds == Spec => []QueueInv
<1>1. Init => QueueInv
  BY DEF Init, QueueInv, Known, OneAtATime, FragileRunOnce, Running
<1>2. QueueInv /\ [Next]_vars => QueueInv'
  BY QueueStep
<1> QED BY <1>1, <1>2, PTL DEF Spec

\* One job at a time.
THEOREM QueueRunsOne == Spec => []OneAtATime
<1>1. QueueInv => OneAtATime
  BY DEF QueueInv
<1> QED BY <1>1, QueueInvHolds, PTL

\* A job that has ended keeps its result.
THEOREM QueueResultsFinal == Spec => ResultsAreFinal
<1>1. QueueInv /\ [Next]_vars => [\A r \in Request : status[r] \in Ended => status'[r] = status[r]]_vars
  BY QueueStep
<1> QED BY <1>1, QueueInvHolds, PTL DEF Spec, ResultsAreFinal

\* A fragile job that has started is never put back to start again.
THEOREM QueueFragileOnce == Spec => []FragileRunOnce
<1>1. QueueInv => FragileRunOnce
  BY DEF QueueInv
<1> QED BY <1>1, QueueInvHolds, PTL
=============================================================================
