------------------------------ MODULE JobQueue ------------------------------
(***************************************************************************)
(* What the conversion of uploads promises, without its files, columns and *)
(* locks: a row that waits is taken by one worker at a time, and only the  *)
(* worker that has taken it settles it.  The end of the process takes all  *)
(* work away and settles nothing; the next start lets every row that was   *)
(* taken wait again.  A client submits a row again while nobody works on   *)
(* it, and may remove it at any time, for good.                            *)
(***************************************************************************)
CONSTANTS Rows, Workers, NoRow

VARIABLES
  state,   \* "none", "waiting", "taken", "ready", "failed" or "gone"
  job      \* the row each worker works on, or NoRow

queueVars == <<state, job>>

Idlers == {w \in Workers : job[w] = NoRow}

QueueInit ==
  /\ state = [r \in Rows |-> "none"]
  /\ job   = [w \in Workers |-> NoRow]

\* A new version of the row is to be converted, or needs no conversion.
Submit(r) ==
  /\ state[r] # "gone" /\ \A w \in Workers : job[w] # r
  /\ UNCHANGED job
  /\ \E s \in {"waiting", "ready"} : state' = [state EXCEPT ![r] = s]

Remove(r) ==
  /\ state[r] \notin {"none", "gone"}
  /\ state' = [state EXCEPT ![r] = "gone"]
  /\ UNCHANGED job

Take(w, r) ==
  /\ w \in Idlers /\ state[r] = "waiting"
  /\ state' = [state EXCEPT ![r] = "taken"]
  /\ job' = [job EXCEPT ![w] = r]

Settle(w) ==
  /\ w \notin Idlers /\ state[job[w]] = "taken"
  /\ job' = [job EXCEPT ![w] = NoRow]
  /\ \E s \in {"ready", "failed"} : state' = [state EXCEPT ![job[w]] = s]

\* The row is gone, or the outcome could not be recorded.
Abandon(w) ==
  /\ w \notin Idlers
  /\ job' = [job EXCEPT ![w] = NoRow]
  /\ UNCHANGED state

\* The process ends.
Lose ==
  /\ job' = [w \in Workers |-> NoRow]
  /\ UNCHANGED state

Requeue ==
  /\ Idlers = Workers
  /\ state' = [r \in Rows |-> IF state[r] = "taken" THEN "waiting" ELSE state[r]]
  /\ UNCHANGED job

QueueNext ==
  \/ \E r \in Rows : Submit(r) \/ Remove(r) \/ \E w \in Workers : Take(w, r)
  \/ \E w \in Workers : Settle(w) \/ Abandon(w)
  \/ Lose \/ Requeue

QueueSpec == QueueInit /\ [][QueueNext]_queueVars

-----------------------------------------------------------------------------

QueueTypeOK ==
  /\ state \in [Rows -> {"none", "waiting", "taken", "ready", "failed", "gone"}]
  /\ job \in [Workers -> Rows \cup {NoRow}]

\* Nothing is converted twice at once, and what is being converted is marked so, unless
\* it was removed meanwhile.
OneWorkerPerRow ==
  /\ \A v, w \in Workers : v # w /\ job[v] = job[w] => job[v] = NoRow
  /\ \A w \in Workers : job[w] # NoRow => state[job[w]] \in {"taken", "gone"}
=============================================================================
