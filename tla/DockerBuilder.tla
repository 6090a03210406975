---------------------------- MODULE DockerBuilder ----------------------------
(***************************************************************************)
(* The docker-base-builder service: the one container that may talk to     *)
(* dockerd.  A client posts a job, polls its record and deletes it.  The   *)
(* service answers at once and works in a task of its own: it waits for    *)
(* the one place there is (`queue'; asyncio.Semaphore is first come, first *)
(* served), runs a build container, takes the result out and removes the   *)
(* container after it has left the place.                                  *)
(*                                                                         *)
(* An "export" job leaves a tar named after the job in the shared          *)
(* directory; a "build" job makes an ext4 image in scratch space and moves *)
(* it into place.  A command that exceeds its time limit is given up and   *)
(* not killed.  Job ids are fresh (uuid4), so a posted id is never known.  *)
(*                                                                         *)
(* The operations take part in the steps of clients (AssetPreparation);    *)
(* each says what becomes of every variable of this module.                *)
(*                                                                         *)
(* A definition called Faulty... is the one after it with a plausible bug; *)
(* nothing uses it.  Replacing the definition by it must break a property. *)
(***************************************************************************)
EXTENDS Naturals, Sequences, FiniteSets

CONSTANTS
  Jobs,         \* the ids that may be used
  BuildJobs,    \* those posted to /build; the others go to /export-tar
  Faults,       \* what may go wrong
  MaxMishaps    \* bound: how often something does

AllFaults == {"job_fail", "slow", "rm_fail", "lost", "convert_fail", "db_busy",
              "crash", "shutdown", "builder_crash"}

ASSUME BuilderAssumption ==
  /\ BuildJobs \subseteq Jobs
  /\ MaxMishaps \in Nat /\ Faults \subseteq AllFaults

VARIABLES
  serving,    \* the service is up
  mishaps,    \* how often something went wrong
  rec,        \* the dictionary _jobs
  task,       \* what the job's task is at
  queue,      \* tasks that wait for the semaphore
  container,  \* the job's container in dockerd
  scratch,    \* jobs with a work directory under /tmp
  tar,        \* the job's tar in the shared directory
  stray,      \* history: jobs whose container docker rm -f did not remove
  late        \* history: jobs whose client does not learn that they succeed

Mishap(kind) == kind \in Faults /\ mishaps < MaxMishaps /\ mishaps' = mishaps + 1

serviceVars == <<serving, rec, task, queue, container, scratch, tar, stray, late>>
builderVars == <<serviceVars, mishaps>>

InPlace == {"run", "export", "convert"}              \* inside the semaphore
Working == {"queued", "cleanup"} \cup InPlace

BuilderInit ==
  /\ serving = TRUE /\ mishaps = 0
  /\ rec  = [j \in Jobs |-> "none"]
  /\ task = [j \in Jobs |-> "none"]
  /\ queue = <<>>
  /\ container = [j \in Jobs |-> "none"]
  /\ scratch = {}
  /\ tar = [j \in Jobs |-> "none"]
  /\ stray = {} /\ late = {}

(***************************************************************************)
(* The endpoints.                                                          *)
(***************************************************************************)

\* Faulty: the record is made and no task.
FaultyAccept(j) ==
  /\ serving /\ rec[j] = "none" /\ task[j] = "none"
  /\ rec' = [rec EXCEPT ![j] = "running"]
  /\ task' = [task EXCEPT ![j] = "queued"]
  /\ scratch' = IF j \in BuildJobs THEN scratch \cup {j} ELSE scratch
  /\ UNCHANGED <<serving, queue, container, tar, stray>>

\* start_build, start_export_tar: the record and the task, in one go.
Accept(j) ==
  /\ serving /\ rec[j] = "none" /\ task[j] = "none"
  /\ rec' = [rec EXCEPT ![j] = "running"]
  /\ task' = [task EXCEPT ![j] = "queued"]
  /\ queue' = Append(queue, j)
  /\ scratch' = IF j \in BuildJobs THEN scratch \cup {j} ELSE scratch
  /\ UNCHANGED <<serving, container, tar, stray>>

\* get_build_status: a record, or 404.
Status(j) == IF serving THEN rec[j] ELSE "unreachable"

\* delete_build_job: the record goes, whatever its task is at.  Its tar is left to
\* the client.
Forget(j) ==
  /\ rec' = IF serving THEN [rec EXCEPT ![j] = "none"] ELSE rec
  /\ UNCHANGED <<serving, task, queue, container, scratch, stray>>

\* A client leaves the jobs S; their tasks go on.
LeaveEarly(S) == late' = late \cup {j \in S : rec[j] \in {"running", "ready"}}

(***************************************************************************)
(* A job's task.                                                           *)
(***************************************************************************)

Occupied == \E j \in Jobs : task[j] \in InPlace

\* Faulty: the place is not waited for.
FaultyEnter(j) ==
  /\ queue # <<>> /\ j = Head(queue)
  /\ queue' = Tail(queue)
  /\ task' = [task EXCEPT ![j] = "run"]
  /\ container' = [container EXCEPT ![j] = "running"]
  /\ UNCHANGED <<serving, mishaps, rec, scratch, tar, stray, late>>

\* The first in the queue takes the free place and starts its container.
Enter(j) ==
  /\ queue # <<>> /\ j = Head(queue) /\ ~Occupied
  /\ queue' = Tail(queue)
  /\ task' = [task EXCEPT ![j] = "run"]
  /\ container' = [container EXCEPT ![j] = "running"]
  /\ UNCHANGED <<serving, mishaps, rec, scratch, tar, stray, late>>

\* The script ends and the container with it; an export begins to write its tar.
RunEnds(j) ==
  /\ task[j] = "run"
  /\ task' = [task EXCEPT ![j] = "export"]
  /\ container' = [container EXCEPT ![j] = "exited"]
  /\ tar' = IF j \in BuildJobs THEN tar ELSE [tar EXCEPT ![j] = "partial"]
  /\ UNCHANGED <<serving, mishaps, rec, queue, scratch, stray, late>>

\* The task leaves the place and writes the outcome into its record, which it
\* took from the dictionary at its start and which may have been deleted since.
Leave(j, outcome) ==
  /\ task' = [task EXCEPT ![j] = "cleanup"]
  /\ rec' = [rec EXCEPT ![j] = IF @ = "none" THEN @ ELSE outcome]
  /\ UNCHANGED <<serving, queue, scratch>>

Exported(j) ==
  /\ task[j] = "export"
  /\ IF j \in BuildJobs
     THEN /\ task' = [task EXCEPT ![j] = "convert"]
          /\ UNCHANGED <<serving, mishaps, rec, queue, scratch, tar>>
     ELSE /\ tar' = [tar EXCEPT ![j] = "whole"]
          /\ Leave(j, "ready") /\ UNCHANGED mishaps
  /\ UNCHANGED <<container, stray, late>>

\* mkfs.ext4 -d and os.replace, the last steps of a build job.
Converted(j) ==
  /\ task[j] = "convert"
  /\ Leave(j, "ready")
  /\ UNCHANGED <<mishaps, container, tar, stray, late>>

\* A command ends with an error; what an export wrote is removed.
JobFails(j) ==
  /\ Mishap("job_fail") /\ task[j] \in InPlace
  /\ Leave(j, "failed")
  /\ container' = [container EXCEPT ![j] = "exited"]
  /\ tar' = [tar EXCEPT ![j] = "none"]
  /\ UNCHANGED <<stray, late>>

\* A command exceeds its limit.  Given up, `docker run' leaves the container
\* running, and an export may still make its file after it was removed.
JobTimesOut(j) ==
  /\ Mishap("slow") /\ task[j] \in InPlace
  /\ Leave(j, "failed")
  /\ tar' \in {[tar EXCEPT ![j] = t] : t \in {"none", tar[j]}}
  /\ late' = IF task[j] = "export" THEN late \cup {j} ELSE late
  /\ UNCHANGED <<container, stray>>

\* The `finally', outside the semaphore: docker rm -f, whose failure is ignored.
CleanUp(j) ==
  /\ task[j] = "cleanup"
  /\ task' = [task EXCEPT ![j] = "ended"]
  /\ scratch' = scratch \ {j}
  /\ \/ /\ container' = [container EXCEPT ![j] = "none"]
        /\ UNCHANGED <<stray, mishaps>>
     \/ /\ Mishap("rm_fail")
        /\ stray' = stray \cup {j}
        /\ UNCHANGED container
  /\ UNCHANGED <<serving, rec, queue, late, tar>>

(***************************************************************************)
(* The service process.                                                    *)
(***************************************************************************)

\* The service ends: records, queue and tasks are in memory only.
BuilderCrash ==
  /\ Mishap("builder_crash")
  /\ serving /\ serving' = FALSE
  /\ rec' = [j \in Jobs |-> "none"]
  /\ task' = [j \in Jobs |-> IF task[j] = "none" THEN "none" ELSE "ended"]
  /\ queue' = <<>>
  /\ late' = late \cup {j \in BuildJobs : rec[j] = "ready"}
  /\ UNCHANGED <<container, scratch, tar, stray>>

\* Faulty: no work directory is removed.
FaultyBuilderStart ==
  /\ ~serving /\ serving' = TRUE
  /\ container' = [j \in Jobs |-> "none"]
  /\ UNCHANGED <<mishaps, rec, task, queue, scratch, tar, stray, late>>

\* _on_startup, before the first request: the containers named by either prefix
\* and the work directories are removed.  dockerd may refuse.
BuilderStart ==
  /\ ~serving /\ serving' = TRUE
  /\ \/ /\ container' = [j \in Jobs |-> "none"]
        /\ UNCHANGED <<stray, mishaps>>
     \/ /\ Mishap("rm_fail")
        /\ stray' = stray \cup {j \in Jobs : container[j] # "none"}
        /\ UNCHANGED container
  /\ scratch' = {}
  /\ UNCHANGED <<rec, task, queue, late, tar>>

(***************************************************************************)
(* Properties.                                                             *)
(***************************************************************************)

BuilderTypeOK ==
  /\ serving \in BOOLEAN /\ mishaps \in 0 .. MaxMishaps
  /\ rec \in [Jobs -> {"none", "running", "ready", "failed"}]
  /\ task \in [Jobs -> {"none", "ended"} \cup Working]
  /\ queue \in Seq(Jobs)
  /\ container \in [Jobs -> {"none", "running", "exited"}]
  /\ scratch \in SUBSET Jobs /\ stray \in SUBSET Jobs /\ late \in SUBSET Jobs
  /\ tar \in [Jobs -> {"none", "partial", "whole"}]

\* While the service is up, dockerd runs one build at a time (MAX_CONCURRENT_BUILDS),
\* apart from containers whose task left the place without them: a command that was given
\* up leaves its container running until the clean-up, which may find dockerd unwilling.
\* When the service ends, such a container and the one in the place may both run on.
OneContainerRuns ==
  serving =>
    Cardinality({j \in Jobs : container[j] = "running" /\ j \notin stray /\ task[j] # "cleanup"}) <= 1

\* While the service is up, a container or a work directory belongs to a task, or
\* is a container that docker rm -f failed to remove.
BuilderLeavesNothing ==
  serving => \A j \in Jobs :
    /\ container[j] # "none" => task[j] \in Working \/ j \in stray
    /\ j \in scratch => task[j] \in Working

\* What the service does to dockerd and its own file system, together.
DockerIsTidy == OneContainerRuns /\ BuilderLeavesNothing
=============================================================================
