--------------------------- MODULE JobQueueProofs ---------------------------
(* What the job queue gives whoever implements it.                         *)
EXTENDS JobQueue, TLAPS

QueueInv == QueueTypeOK /\ OneWorkerPerRow

\* Every step of the queue keeps workers apart.
LEMMA QueueInvStep ==
  ASSUME NoRow \notin Rows, QueueInv, [QueueNext]_queueVars
  PROVE  QueueInv'
<1>. USE DEF QueueInv, QueueTypeOK, OneWorkerPerRow, Idlers
<1>1. ASSUME NEW r \in Rows, Submit(r) PROVE QueueInv'
  BY <1>1 DEF Submit
<1>2. ASSUME NEW r \in Rows, Remove(r) PROVE QueueInv'
  BY <1>2 DEF Remove
<1>3. ASSUME NEW r \in Rows, NEW w \in Workers, Take(w, r) PROVE QueueInv'
  BY <1>3 DEF Take
<1>4. ASSUME NEW w \in Workers, Settle(w) PROVE QueueInv'
  BY <1>4 DEF Settle
<1>5. ASSUME NEW w \in Workers, Abandon(w) PROVE QueueInv'
  BY <1>5 DEF Abandon
<1>6. CASE Lose
  BY <1>6 DEF Lose
<1>7. CASE Requeue
  BY <1>7 DEF Requeue
<1>8. CASE UNCHANGED queueVars
  BY <1>8 DEF queueVars
<1>. QED BY <1>1, <1>2, <1>3, <1>4, <1>5, <1>6, <1>7, <1>8 DEF QueueNext

\* No row is ever worked on by two workers, and none behind the queue's back.
THEOREM RowsHaveOneWorker ==
  ASSUME NoRow \notin Rows
  PROVE  QueueSpec => []OneWorkerPerRow
<1>1. QueueInit => QueueInv
  BY DEF QueueInit, QueueInv, QueueTypeOK, OneWorkerPerRow
<1>2. QueueInv /\ [QueueNext]_queueVars => QueueInv'
  BY QueueInvStep
<1>. QED BY <1>1, <1>2, PTL DEF QueueSpec, QueueInv
=============================================================================
