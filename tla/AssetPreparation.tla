-------------------------- MODULE AssetPreparation --------------------------
(***************************************************************************)
(* The files every VM is built from, and the three tasks of the            *)
(* orchestrator that prepare them when it starts:                          *)
(*   "defaults"  the base of the conversion VM, the kernel, the default    *)
(*               root filesystem, the docker-base image;                   *)
(*   "attack"    the kernel again, then the attack machine;                *)
(*   "worker"    a docker-base image that an administrator ordered (one    *)
(*               row of run_docker_base_build_worker).                     *)
(* What is on disk already is kept.  The rest is ordered from the builder  *)
(* service (DockerBuilder), polled, and if it comes as a tar converted in  *)
(* a build VM, which puts its result in place before it is known whether   *)
(* the guest succeeded.  The kernel is downloaded to a temporary file.     *)
(*                                                                         *)
(* The job for asset a in the n-th life of the orchestrator is <<a, n>>.   *)
(***************************************************************************)
EXTENDS DockerBuilder

CONSTANTS
  Tasks,       \* the tasks that take part
  MaxBoots,    \* bound: lives of the orchestrator
  Found        \* what may be on disk at first: a set of sets of assets

Exports == {"converter", "rootfs", "attack"}    \* a tar comes back
Images  == {"base", "extra"}                    \* the image is put in place
Assets  == Exports \cup Images

Plan == [defaults |-> <<"converter", "kernel", "rootfs", "base">>,
         attack   |-> <<"kernel", "attack">>,
         worker   |-> <<"extra">>]

AllJobs == Assets \X (1 .. MaxBoots)
AssetOf(j) == j[1]

ASSUME PreparationAssumption ==
  /\ Tasks \subseteq DOMAIN Plan /\ MaxBoots \in Nat \ {0}
  /\ Found \subseteq SUBSET (Assets \cup {"kernel"})
  /\ Jobs = AllJobs /\ BuildJobs = {j \in AllJobs : AssetOf(j) \in Images}

VARIABLES
  up, boot,     \* the orchestrator is up, in which of its lives
  cl,           \* what each task is at: [at, step], step counting along its plan
  image,        \* the bootable file of each asset: "none", "broken" or "whole"
  kernel,       \* the kernel in its place: "none", "torn" or "whole"
  part,         \* who last opened the temporary kernel file
  offered,      \* defaults registered for projects to use
  attackStatus, \* attack_rootfs_build_status
  row,          \* conversion status of the administrator's row
  undeleted,    \* history: jobs whose record no client will delete
  unverified,   \* history: assets whose conversion was interrupted before its check
  overlapped,   \* history: two tasks downloaded the kernel at once
  missed        \* history: assets whose registration or download failed in this life

clientVars == <<up, boot, cl, image, kernel, part, offered, attackStatus, row,
                undeleted, unverified, overlapped, missed>>
vars == <<builderVars, clientVars>>

\* What a step that concerns orders only leaves alone.
files  == <<image, kernel, part, overlapped, unverified>>
worlds == <<up, boot, offered, missed>>

Start == [at |-> "look", step |-> 1]
End   == [at |-> "end", step |-> 0]

Planned == UNION {{Plan[t][n] : n \in DOMAIN Plan[t]} : t \in Tasks}

Item(t) == Plan[t][cl[t].step]
Job(t)  == <<Item(t), boot>>
At(t, where) == up /\ cl[t].at = where

Init ==
  /\ BuilderInit
  /\ up = TRUE /\ boot = 1
  /\ cl = [t \in Tasks |-> Start]
  /\ \E found \in Found :
       /\ image = [a \in Assets |-> IF a \in found THEN "whole" ELSE "none"]
       /\ kernel = IF "kernel" \in found THEN "whole" ELSE "none"
  /\ part = "nobody"
  /\ offered = {} /\ attackStatus = "idle" /\ row = "pending"
  /\ undeleted = {} /\ unverified = {} /\ missed = {}
  /\ overlapped = FALSE

(***************************************************************************)
(* How a task goes on after one item of its plan.                          *)
(***************************************************************************)

\* Faulty: goes one past the end of the plan.
FaultyAdvance(t, n) ==
  cl' = [cl EXCEPT ![t] = IF @.step + n > Len(Plan[t]) + 1 THEN End
                          ELSE [at |-> "look", step |-> @.step + n]]

Advance(t, n) ==
  cl' = [cl EXCEPT ![t] = IF @.step + n > Len(Plan[t]) THEN End
                          ELSE [at |-> "look", step |-> @.step + n]]

GoTo(t, where) == cl' = [cl EXCEPT ![t].at = where]

\* Faulty: what was found on disk or built is not recorded.
FaultySucceed(t) ==
  /\ Advance(t, 1)
  /\ attackStatus' = IF Item(t) = "attack" THEN "ready" ELSE attackStatus
  /\ UNCHANGED row

\* The item is there.  The default root filesystem, the docker-base and the
\* attack machine are recorded in the database next, the row its outcome.
Succeed(t) ==
  /\ IF Item(t) \in {"rootfs", "base", "attack", "extra"}
     THEN GoTo(t, "register") ELSE Advance(t, 1)
  /\ attackStatus' = IF Item(t) = "attack" THEN "ready" ELSE attackStatus
  /\ UNCHANGED row

\* An exception: the defaults go on with the next group, so without a kernel the
\* root filesystem is passed over; the other tasks note the failure and end.
Fail(t) ==
  /\ Advance(t, IF Item(t) = "kernel" THEN 2 ELSE 1)
  /\ attackStatus' = IF t = "attack" THEN "failed" ELSE attackStatus
  /\ row' = IF t = "worker" THEN "failed" ELSE row

Exists(x) == IF x = "kernel" THEN kernel # "none" ELSE image[x] # "none"

\* os.path.exists: there is a file, so nothing is to do.
Keep(t) ==
  /\ At(t, "look") /\ Exists(Item(t))
  /\ Succeed(t)
  /\ UNCHANGED <<builderVars, files, worlds, undeleted>>

(***************************************************************************)
(* The kernel.                                                             *)
(***************************************************************************)

\* Faulty: the download goes straight to the kernel's place.
FaultyBeginDownload(t) ==
  /\ At(t, "look") /\ Item(t) = "kernel" /\ kernel = "none"
  /\ GoTo(t, "download")
  /\ part' = t /\ kernel' = "torn"
  /\ overlapped' = (overlapped \/ \E u \in Tasks \ {t} : At(u, "download"))
  /\ UNCHANGED <<builderVars, worlds, image, attackStatus, row, undeleted, unverified>>

\* curl opens, and empties, the one temporary file.
BeginDownload(t) ==
  /\ At(t, "look") /\ Item(t) = "kernel" /\ kernel = "none"
  /\ GoTo(t, "download")
  /\ part' = t
  /\ overlapped' = (overlapped \/ \E u \in Tasks \ {t} : At(u, "download"))
  /\ UNCHANGED <<builderVars, worlds, image, kernel, attackStatus, row,
                 undeleted, unverified>>

\* The file is moved into place; if the other task emptied it meanwhile, it has a
\* gap until that one is through.  The second to end fills the gap, finds no file
\* to move and fails.
EndDownload(t) ==
  /\ At(t, "download")
  /\ kernel' = IF part \in {t, "nobody"} THEN "whole" ELSE "torn"
  /\ part' = "nobody"
  /\ IF part = "nobody" THEN Fail(t) /\ missed' = missed \cup {"kernel"}
     ELSE Succeed(t) /\ UNCHANGED missed
  /\ UNCHANGED <<builderVars, up, boot, offered, image, overlapped, unverified, undeleted>>

DownloadFails(t) ==
  /\ Mishap("job_fail") /\ At(t, "download")
  /\ Fail(t) /\ missed' = missed \cup {"kernel"}
  /\ UNCHANGED <<serviceVars, files, up, boot, offered, undeleted>>

(***************************************************************************)
(* run_builder_job.                                                        *)
(***************************************************************************)

tarOnly == <<serving, rec, task, queue, container, scratch, stray>>

\* The worker's row is claimed, the attack machine's status set, and the job posted.
Order(t) ==
  /\ At(t, "look") /\ Item(t) # "kernel" /\ ~Exists(Item(t))
  /\ Accept(Job(t)) /\ UNCHANGED <<late, mishaps>>
  /\ GoTo(t, "poll")
  /\ attackStatus' = IF Item(t) = "attack" THEN "building" ELSE attackStatus
  /\ row' = IF t = "worker" THEN "converting" ELSE row
  /\ UNCHANGED <<files, worlds, undeleted>>

\* The service is not reached, or its answer is lost; then a job runs that nobody
\* polls or deletes.
OrderFails(t) ==
  /\ At(t, "look") /\ Item(t) # "kernel" /\ ~Exists(Item(t))
  /\ \/ ~serving /\ UNCHANGED <<builderVars, undeleted>>
     \/ /\ Accept(Job(t)) /\ Mishap("lost")
        /\ late' = late \cup {Job(t)}
        /\ undeleted' = undeleted \cup {Job(t)}
  /\ Fail(t)
  /\ UNCHANGED <<files, worlds>>

\* The DELETE of the `finally', whose failure is ignored.
Delete(j) ==
  \/ Forget(j) /\ UNCHANGED undeleted
  \/ /\ "lost" \in Faults
     /\ undeleted' = undeleted \cup {j}
     /\ UNCHANGED tarOnly

\* Faulty: the `finally' of a preparation forgets the tar.
FaultyDropTar(j) == UNCHANGED tar

DropTar(j) == tar' = [tar EXCEPT ![j] = "none"]

PollReady(t) ==
  /\ At(t, "poll") /\ Status(Job(t)) = "ready"
  /\ Delete(Job(t))
  /\ IF Item(t) \in Images THEN Succeed(t)
     ELSE GoTo(t, "convert") /\ UNCHANGED <<attackStatus, row>>
  /\ UNCHANGED <<tar, late, mishaps, files, worlds>>

\* The job failed, or is not known since the service was started again, or the
\* service does not answer.
PollFails(t) ==
  /\ At(t, "poll") /\ Status(Job(t)) \in {"failed", "none", "unreachable"}
  /\ Delete(Job(t)) /\ DropTar(Job(t)) /\ Fail(t)
  /\ UNCHANGED <<late, mishaps, files, worlds>>

\* Faulty: the record of a job that does not end is left.
FaultyGiveUp(t) ==
  /\ At(t, "poll") /\ (Mishap("slow") \/ Mishap("lost"))
  /\ DropTar(Job(t)) /\ Fail(t)
  /\ LeaveEarly({Job(t)})
  /\ UNCHANGED <<tarOnly, undeleted, files, worlds>>

\* timeout_s passed, of which the wait for the place takes its part, or a GET
\* failed.  The record is deleted; the job, if it is at work, goes on.
GiveUp(t) ==
  /\ At(t, "poll") /\ (Mishap("slow") \/ Mishap("lost"))
  /\ Delete(Job(t)) /\ DropTar(Job(t)) /\ Fail(t)
  /\ LeaveEarly({Job(t)})
  /\ UNCHANGED <<files, worlds>>

(***************************************************************************)
(* From a tar to a bootable file.                                          *)
(***************************************************************************)

\* The converter's own base is made on the host and moved into place.
ConvertBase(t) ==
  /\ At(t, "convert") /\ Item(t) = "converter"
  /\ image' = [image EXCEPT !["converter"] = "whole"]
  /\ DropTar(Job(t)) /\ Succeed(t)
  /\ UNCHANGED <<tarOnly, late, mishaps, worlds, kernel, part, overlapped, unverified, undeleted>>

\* The others are converted by a guest that needs the kernel and the base.  Its
\* disk is put in place however the guest fared.
Convert(t) ==
  /\ At(t, "convert") /\ Item(t) # "converter"
  /\ image["converter"] = "whole" /\ kernel = "whole"
  /\ \/ image' = [image EXCEPT ![Item(t)] = "whole"] /\ UNCHANGED mishaps
     \/ image' = [image EXCEPT ![Item(t)] = "broken"] /\ Mishap("convert_fail")
  /\ GoTo(t, "check")
  /\ UNCHANGED <<serviceVars, worlds, kernel, part, overlapped, unverified, attackStatus, row,
                 undeleted>>

\* There is no base, or no kernel that boots, or the conversion fails early.
ConvertFails(t) ==
  /\ At(t, "convert")
  /\ \/ Mishap("convert_fail")
     \/ /\ Item(t) # "converter" /\ (image["converter"] = "none" \/ kernel # "whole")
        /\ UNCHANGED mishaps
  /\ DropTar(Job(t)) /\ Fail(t)
  /\ UNCHANGED <<tarOnly, late, files, worlds, undeleted>>

\* Faulty: the result stays where it is.
FaultyCheck(t) ==
  LET good == image[Item(t)] = "whole" IN
  /\ At(t, "check")
  /\ image' = image
  /\ DropTar(Job(t))
  /\ IF good THEN Succeed(t) ELSE Fail(t)
  /\ UNCHANGED <<tarOnly, late, mishaps, worlds, kernel, part, overlapped, unverified, undeleted>>

\* The guest's status is read; the result of a guest that failed is removed.
Check(t) ==
  LET good == image[Item(t)] = "whole" IN
  /\ At(t, "check")
  /\ image' = IF good THEN image ELSE [image EXCEPT ![Item(t)] = "none"]
  /\ DropTar(Job(t))
  /\ IF good THEN Succeed(t) ELSE Fail(t)
  /\ UNCHANGED <<tarOnly, late, mishaps, worlds, kernel, part, overlapped, unverified, undeleted>>

(***************************************************************************)
(* The database.                                                           *)
(***************************************************************************)

\* register_builtin_asset_records, register_docker_base_asset,
\* register_attack_machine_image, _finish_docker_base.
Register(t) ==
  /\ At(t, "register")
  /\ offered' = offered \cup (CASE Item(t) = "rootfs" -> {"kernel", "rootfs"}
                                [] Item(t) \in {"base", "attack"} -> {Item(t)}
                                [] OTHER -> {})
  /\ row' = IF t = "worker" THEN "ready" ELSE row
  /\ Advance(t, 1)
  /\ UNCHANGED <<builderVars, files, up, boot, missed, attackStatus, undeleted>>

\* The write lock is not to be had in time.  The worker tries to record a failure
\* then, which may time out as well.
RegisterTimesOut(t) ==
  /\ Mishap("db_busy") /\ At(t, "register")
  /\ missed' = missed \cup {Item(t)}
  /\ \/ Fail(t)
     \/ t = "worker" /\ Advance(t, 1) /\ UNCHANGED <<attackStatus, row>>
  /\ UNCHANGED <<serviceVars, files, up, boot, offered, undeleted>>

(***************************************************************************)
(* The two processes.                                                      *)
(***************************************************************************)

Polling    == {t \in Tasks : cl[t].at = "poll"}
Converting == {t \in Tasks : cl[t].at \in {"convert", "check"}}
JobsOf(S)  == {Job(t) : t \in S}

Down ==
  /\ up /\ boot < MaxBoots
  /\ up' = FALSE
  /\ cl' = [t \in Tasks |-> End]
  /\ attackStatus' = "idle"
  /\ unverified' = unverified \cup {Item(t) : t \in {u \in Tasks : cl[u].at = "check"}}
  /\ UNCHANGED <<boot, image, kernel, part, offered, row, overlapped, missed>>

\* The orchestrator is lost: nobody deletes the records and the tars.
Crash ==
  /\ Mishap("crash") /\ Down
  /\ late' = late \cup JobsOf(Polling \cup Converting)
  /\ undeleted' = undeleted \cup JobsOf(Polling)
  /\ UNCHANGED <<tarOnly, tar>>

\* Its tasks are cancelled: every `finally' runs, no `except Exception' does.
Shutdown ==
  /\ Mishap("shutdown") /\ Down
  /\ rec' = [j \in Jobs |-> IF serving /\ j \in JobsOf(Polling) THEN "none" ELSE rec[j]]
  /\ tar' = [j \in Jobs |-> IF j \in JobsOf(Polling \cup Converting) THEN "none" ELSE tar[j]]
  /\ LeaveEarly(JobsOf(Polling))
  /\ UNCHANGED <<undeleted, serving, task, queue, container, scratch, stray>>

\* reset_stuck_conversions, and the tasks start over; the worker has work to do
\* only if the row has no outcome.
Boot ==
  /\ ~up /\ up' = TRUE /\ boot' = boot + 1
  /\ missed' = {}
  /\ row' = IF row = "converting" THEN "pending" ELSE row
  /\ cl' = [t \in Tasks |-> IF t = "worker" /\ row' # "pending" THEN End ELSE Start]
  /\ UNCHANGED <<builderVars, files, offered, attackStatus, undeleted>>

(***************************************************************************)
(* The composition.                                                        *)
(***************************************************************************)

Client(t) ==
  \/ Keep(t) \/ BeginDownload(t) \/ EndDownload(t) \/ DownloadFails(t)
  \/ Order(t) \/ OrderFails(t) \/ PollReady(t) \/ PollFails(t) \/ GiveUp(t)
  \/ ConvertBase(t) \/ Convert(t) \/ ConvertFails(t) \/ Check(t)
  \/ Register(t) \/ RegisterTimesOut(t)

\* A build job's image appears when its task moves it into place.
PutInPlace(j) ==
  /\ Converted(j)
  /\ image' = [image EXCEPT ![AssetOf(j)] = "whole"]
  /\ UNCHANGED <<up, boot, cl, kernel, part, offered, attackStatus, row,
                 undeleted, unverified, overlapped, missed>>

Work(j) ==
  \/ (Enter(j) \/ RunEnds(j) \/ Exported(j) \/ JobFails(j) \/ JobTimesOut(j) \/ CleanUp(j))
       /\ UNCHANGED clientVars
  \/ PutInPlace(j)

Next ==
  \/ \E t \in Tasks : Client(t)
  \/ \E j \in Jobs : Work(j)
  \/ (BuilderCrash \/ BuilderStart) /\ UNCHANGED clientVars
  \/ Crash \/ Shutdown \/ Boot

Spec == Init /\ [][Next]_vars

\* Every command, request and guest has a time limit of its own, and both
\* containers are started again (restart: unless-stopped).
Fairness ==
  /\ WF_vars(\E t \in Tasks : Client(t))
  /\ WF_vars(\E j \in Jobs : Work(j))
  /\ WF_vars(BuilderStart /\ UNCHANGED clientVars)
  /\ WF_vars(Boot)

FairSpec == Spec /\ Fairness

(***************************************************************************)
(* Properties.                                                             *)
(***************************************************************************)

TypeOK ==
  /\ BuilderTypeOK
  /\ up \in BOOLEAN /\ boot \in 1 .. MaxBoots
  /\ cl \in [Tasks -> {End} \cup
       [at: {"look", "download", "poll", "convert", "check", "register"}, step: 1 .. 4]]
  /\ \A t \in Tasks : cl[t] # End => cl[t].step \in DOMAIN Plan[t]
  /\ image \in [Assets -> {"none", "broken", "whole"}]
  /\ kernel \in {"none", "torn", "whole"} /\ part \in Tasks \cup {"nobody"}
  /\ offered \in SUBSET ({"kernel"} \cup Assets)
  /\ attackStatus \in {"idle", "building", "ready", "failed"}
  /\ row \in {"pending", "converting", "ready", "failed"}
  /\ undeleted \in SUBSET Jobs
  /\ unverified \in SUBSET Assets /\ missed \in SUBSET ({"kernel"} \cup Assets)
  /\ overlapped \in BOOLEAN

\* The dictionary of jobs does not grow: a record has a client that polls it, save
\* where the answer to the POST or the DELETE was lost or the client died.
RecordHasClient ==
  \A j \in Jobs : rec[j] # "none" =>
    j \in undeleted \/ (up /\ \E t \in Polling : Job(t) = j)

\* No tar is left in the shared directory: it is being made or converted, save for
\* jobs whose client left before them and whose tar may appear after its clean-up.
TarIsInUse ==
  \A j \in Jobs : tar[j] # "none" =>
    j \in late \/ (up /\ \E t \in Polling \cup Converting : Job(t) = j)

\* Clients clean up after their jobs, in the service and in the shared directory.
ClientsCleanUp == RecordHasClient /\ TarIsInUse

\* What projects and the attack machine are built from is whole: not what a guest
\* left that failed, unless the orchestrator ended before it looked.
OfferedIsWhole ==
  \A a \in Assets :
    (a \in offered \/ (a = "attack" /\ attackStatus = "ready") \/ (a = "extra" /\ row = "ready"))
      => image[a] = "whole" \/ a \in unverified

\* The kernel in place is whole unless two tasks downloaded it at once.
KernelIsWhole == kernel = "torn" => overlapped

\* What VMs are built from is whole, with these two exceptions.
FilesAreWhole == OfferedIsWhole /\ KernelIsWhole

\* What is there is used: when the tasks are through, every file they prepare is on
\* offer.  Excepted are a file that came after its client had left, a registration
\* that timed out, and what is prepared after the kernel when that was not
\* downloaded, or was downloaded twice at once.
BuiltIsOffered ==
  \A a \in {"rootfs", "base", "attack"} \cap Planned :
    up /\ image[a] # "none" /\ (\A t \in Tasks : cl[t] = End) =>
      \/ a \in offered \cup missed
      \/ \E j \in late : AssetOf(j) = a
      \/ a # "base" /\ "kernel" \in missed

\* The preparations come to an end, for good once the processes stay up: every job does and
\* gives its place to the next, the attack machine becomes available or fails, and the
\* administrator's row is settled, unless the database was busy too long for its outcome.
PreparationEnds ==
  <>[](/\ \A j \in Jobs : task[j] \notin Working
       /\ attackStatus # "building"
       /\ row \in {"ready", "failed"} \/ "extra" \in missed)
=============================================================================
