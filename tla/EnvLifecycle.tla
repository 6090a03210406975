---------------------------- MODULE EnvLifecycle ----------------------------
(***************************************************************************)
(* The life of an environment row, from the start request that creates it  *)
(* to the stop that releases its address, with every actor that writes it: *)
(*   - the start handlers  start_env and start_attack_machine,             *)
(*   - the stop requests   stop_env, stop_attack_machine, force_stop_env,  *)
(*     update_image and delete_image,                                      *)
(*   - extend_env and extend_attack_machine,                               *)
(*   - the watchdog task, and                                              *)
(*   - the loss of the orchestrator process and its next start.            *)
(*                                                                         *)
(* Writers share one SQLite write lock: a write session issues BEGIN       *)
(* IMMEDIATE at its first statement and keeps the lock until commit or     *)
(* rollback.  `status' is what is committed; `dirty' is what the holder of *)
(* the lock has written and not committed.  start_vm holds no lock; a stop *)
(* keeps the lock while stop_vm runs.                                      *)
(*                                                                         *)
(* Time is abstracted to two facts about a live row: how old it is (`age') *)
(* and whether its expires_at has passed (`expired').  Nothing compares    *)
(* the times of a stopped row, so they are forgotten with the stop.        *)
(*                                                                         *)
(* A definition called Faulty... is the one after it with a plausible bug; *)
(* nothing uses it.  Replacing the definition by it must break a property. *)
(***************************************************************************)
EXTENDS Naturals, FiniteSets

CONSTANTS
  Envs,         \* start requests; each creates at most one environment row
  Users,
  Admins,       \* users exempt from the start limits
  Images,
  IPs,          \* the address pool, in the order allocate_ip walks it
  UserOf,       \* the user who sends the request
  ImageOf,      \* the project image the request starts
  AttackEnvs,   \* requests sent to the attack machine's start endpoint
  Unlimited,    \* rows whose image had timeout 0 when they were reserved
  MaxPerUser,   \* MAX_ENVS_PER_USER
  MaxTotal,     \* MAX_ENVS_TOTAL
  Paths,        \* the requests clients may send besides start
  Faults,       \* the failures the environment may inject
  NoEnv, NoImage

AllPaths  == {"stop_env", "force_stop", "update_image", "delete_image", "extend"}
AllFaults == {"boot_fail", "stop_fail", "db_busy", "vm_dies", "crash", "slow_launch"}

ASSUME SetsAssumption ==
  /\ IsFiniteSet(Envs) /\ IsFiniteSet(IPs)
  /\ IPs \subseteq Nat \ {0}
  /\ Admins \subseteq Users
  /\ AttackEnvs \subseteq Envs /\ Unlimited \subseteq Envs
  /\ UserOf \in [Envs -> Users] /\ ImageOf \in [Envs -> Images]
  /\ Paths \subseteq AllPaths /\ Faults \subseteq AllFaults
  /\ NoEnv \notin Envs /\ NoImage \notin Images

ASSUME LimitsAssumption == MaxPerUser \in Nat /\ MaxTotal \in Nat

VARIABLES
  status,     \* committed Environment.status, "absent" before the row exists
  ip,         \* Environment.ip_address, 0 before the row exists
  hasVm,      \* Environment.vm_id is committed
  extended,   \* Environment.extended_count
  expired,    \* rows whose expires_at has passed
  age,        \* 0: started_at under 20 s ago, 1: under 5 min, 2: older
  retired,    \* images with is_active = False
  pc,         \* where the start handler of a request is
  vm,         \* the request's microVM on the host
  lock,       \* who holds the SQLite write lock
  cur,        \* the row the lock holder has claimed and is destroying
  dirty,      \* uncommitted status written by the lock holder
  target,     \* the image of the update_image or delete_image request
  reqTodo,    \* rows that request has still to stop
  wdPhase,    \* which of its three loops the watchdog is in
  wdTodo,     \* ids the watchdog has read for that loop and not handled
  up,         \* the orchestrator process is serving
  early       \* history: rows stopped while their start was in flight

rowVars  == <<status, ip, hasVm, extended, expired, age>>
stopVars == <<cur, dirty, target, reqTodo>>
wdVars   == <<wdPhase, wdTodo>>
vars == <<status, ip, hasVm, extended, expired, age, retired, pc, vm, lock,
          cur, dirty, target, reqTodo, wdPhase, wdTodo, up, early>>

Active    == {"starting", "running", "stopping"}  \* rows that occupy an address
Stoppable == {"starting", "running"}              \* rows claim_env_for_stop takes
InFlight  == {"launching", "booted", "recorded", "failing", "cleanup"}
Lost      == {e \in Envs : pc[e] = "lost"}       \* a start handler vanished halfway
ImagePaths == {"update_image", "delete_image"}

ActiveEnvs == {e \in Envs : status[e] \in Active}
Taps       == {e \in Envs : vm[e] # "absent"}
MaxExtend  == Cardinality(IPs)   \* max_extend = len(_ip_pool()); bounds the counter
AllClean   == [e \in Envs |-> "clean"]

\* Faulty: forgets that a row being stopped may still have its guest.
FaultyInUse == {ip[e] : e \in {f \in Envs : status[f] \in {"starting", "running"}}}

\* The addresses allocate_ip reads from the table.
InUse == {ip[e] : e \in ActiveEnvs}

\* The rows of S stop: the clock no longer matters to them.
ForgetTimes(S) ==
  /\ expired' = expired \ S
  /\ age' = [e \in Envs |-> IF e \in S THEN 0 ELSE age[e]]

Init ==
  /\ status   = [e \in Envs |-> "absent"]
  /\ ip       = [e \in Envs |-> 0]
  /\ hasVm    = [e \in Envs |-> FALSE]
  /\ extended = [e \in Envs |-> 0]
  /\ expired  = {}
  /\ age      = [e \in Envs |-> 0]
  /\ retired  = {}
  /\ pc       = [e \in Envs |-> "idle"]
  /\ vm       = [e \in Envs |-> "absent"]
  /\ lock     = "free"
  /\ cur      = NoEnv
  /\ dirty    = AllClean
  /\ target   = NoImage
  /\ reqTodo  = {}
  /\ wdPhase  = "sleep"
  /\ wdTodo   = {}
  /\ up       = TRUE
  /\ early    = {}

(***************************************************************************)
(* The start handlers.                                                     *)
(***************************************************************************)

\* Faulty: the limits are compared one off.
FaultyWithinLimits(u) ==
  \/ u \in Admins
  \/ /\ Cardinality({f \in ActiveEnvs : UserOf[f] = u}) <= MaxPerUser
     /\ Cardinality(ActiveEnvs) <= MaxTotal

\* The limits a non-admin's reservation is checked against.
WithinLimits(u) ==
  \/ u \in Admins
  \/ /\ Cardinality({f \in ActiveEnvs : UserOf[f] = u}) < MaxPerUser
     /\ Cardinality(ActiveEnvs) < MaxTotal

\* Faulty: only running machines are counted.
FaultyNoOtherMachine(e) ==
  e \in AttackEnvs =>
    \A f \in Envs : status[f] = "running" /\ UserOf[f] = UserOf[e] => ImageOf[f] # ImageOf[e]

\* The attack machine endpoint refuses a user who already has a live row of its image.
NoOtherMachine(e) ==
  e \in AttackEnvs =>
    \A f \in ActiveEnvs : UserOf[f] = UserOf[e] => ImageOf[f] # ImageOf[e]

\* Faulty: trusts the neighbour table alone.
FaultyFirstFree(i) ==
  \E seen \in SUBSET IPs :
    /\ Taps = {} => seen = {}
    /\ i \in IPs \ seen
    /\ \A j \in IPs \ seen : i <= j

\* allocate_ip: the first pool address that is neither in a live row nor seen
\* in the bridge's neighbour table.  The table may miss a live guest and may
\* keep an address long gone; with no tap on the bridge it is not consulted.
FirstFree(i) ==
  \E seen \in SUBSET IPs :
    /\ Taps = {} => seen = {}
    /\ i \in IPs \ (InUse \cup seen)
    /\ \A j \in IPs \ (InUse \cup seen) : i <= j

\* From the image check to the commit of the `starting' row: one transaction.
Reserve(e) ==
  /\ up /\ pc[e] = "idle" /\ lock = "free"
  /\ ImageOf[e] \notin retired
  /\ NoOtherMachine(e)
  /\ WithinLimits(UserOf[e])
  /\ \E i \in IPs : FirstFree(i) /\ ip' = [ip EXCEPT ![e] = i]
  /\ status' = [status EXCEPT ![e] = "starting"]
  /\ pc' = [pc EXCEPT ![e] = "launching"]
  /\ UNCHANGED <<hasVm, extended, expired, age, retired, vm, lock, stopVars,
                 wdVars, up, early>>

\* start_vm returns: the microVM and its tap exist, the row does not know it.
BootVm(e) ==
  /\ pc[e] = "launching"
  /\ vm' = [vm EXCEPT ![e] = "alive"]
  /\ pc' = [pc EXCEPT ![e] = "booted"]
  /\ UNCHANGED <<rowVars, retired, lock, stopVars, wdVars, up, early>>

\* start_vm raises, having removed what it created.
BootFails(e) ==
  /\ "boot_fail" \in Faults
  /\ pc[e] = "launching"
  /\ pc' = [pc EXCEPT ![e] = "failing"]
  /\ UNCHANGED <<rowVars, retired, vm, lock, stopVars, wdVars, up, early>>

\* The handler of that exception: destroy_env on a row object without vm_id, commit.
AbortStart(e) ==
  /\ pc[e] = "failing" /\ lock = "free"
  /\ status' = [status EXCEPT ![e] = "stopped"]
  /\ ForgetTimes({e})
  /\ pc' = [pc EXCEPT ![e] = "done"]
  /\ UNCHANGED <<ip, hasVm, extended, retired, vm, lock, stopVars, wdVars, up,
                 early>>

\* env.vm_id is committed before anything else.
RecordVm(e) ==
  /\ pc[e] = "booted" /\ lock = "free"
  /\ hasVm' = [hasVm EXCEPT ![e] = TRUE]
  /\ pc' = [pc EXCEPT ![e] = "recorded"]
  /\ UNCHANGED <<status, ip, extended, expired, age, retired, vm, lock, stopVars,
                 wdVars, up, early>>

\* The row is selected again, but the session's identity map hands back the
\* object it already has (expire_on_commit=False, no populate_existing): its
\* status still reads `starting' whatever is committed, so the test for a row
\* stopped meanwhile never succeeds and `running' is written unconditionally.
GoRunning(e) ==
  /\ pc[e] = "recorded" /\ lock = "free"
  /\ status' = [status EXCEPT ![e] = "running"]
  /\ expired' = expired \ {e}
  /\ pc' = [pc EXCEPT ![e] = "done"]
  /\ UNCHANGED <<ip, hasVm, extended, age, retired, vm, lock, stopVars, wdVars,
                 up, early>>

\* The write lock is held across a wait of unknown length: for stop_vm, or for
\* update_image's download of a kernel or rootfs.
LongHold == cur # NoEnv \/ lock = "update_image"

\* Faulty: start_env, too, lets the exception through.
FaultyWriteTimesOut(e) ==
  /\ "db_busy" \in Faults
  /\ pc[e] \in {"booted", "recorded", "failing"} /\ LongHold
  /\ pc' = [pc EXCEPT ![e] = "done"]
  /\ UNCHANGED <<rowVars, retired, vm, lock, stopVars, wdVars, up, early>>

\* A write waits longer than busy_timeout (10 s) for the lock.  start_env goes on
\* to stop the VM it booted; start_attack_machine has no handler for it.
WriteTimesOut(e) ==
  /\ "db_busy" \in Faults
  /\ pc[e] \in {"booted", "recorded", "failing"} /\ LongHold
  /\ pc' = [pc EXCEPT ![e] = IF @ = "failing" THEN "done"
                             ELSE IF e \in AttackEnvs THEN "lost" ELSE "cleanup"]
  /\ UNCHANGED <<rowVars, retired, vm, lock, stopVars, wdVars, up, early>>

\* stop_vm in start_env's exception handler; a failure of it is swallowed.
CleanupVm(e) ==
  /\ pc[e] = "cleanup"
  /\ \/ vm' = [vm EXCEPT ![e] = "absent"]
     \/ "stop_fail" \in Faults /\ vm' = [vm EXCEPT ![e] = "dead"]
  /\ pc' = [pc EXCEPT ![e] = "done"]
  /\ UNCHANGED <<rowVars, retired, lock, stopVars, wdVars, up, early>>

\* extend_env, extend_attack_machine: only an admin may pass the extension
\* limit; the counter is saturated there, nothing reads it beyond.
Extend(e) ==
  /\ "extend" \in Paths /\ up /\ lock = "free"
  /\ status[e] \in Stoppable /\ e \notin Unlimited
  /\ extended[e] < MaxExtend \/ Admins # {}
  /\ expired' = expired \ {e}
  /\ extended' = [extended EXCEPT ![e] = IF @ < MaxExtend THEN @ + 1 ELSE @]
  /\ UNCHANGED <<status, ip, hasVm, age, retired, pc, vm, lock, stopVars, wdVars,
                 up, early>>

(***************************************************************************)
(* Stopping: claim_env_for_stop, destroy_env, commit.                      *)
(***************************************************************************)

CanWrite(who) == lock \in {"free", who}

\* claim_env_for_stop: the row is flushed as `stopping', nothing is committed.
Claim(e, who) ==
  /\ status[e] \in Stoppable
  /\ lock' = who
  /\ cur' = e
  /\ dirty' = [dirty EXCEPT ![e] = "stopping"]

\* Faulty: overwrites the rows the session never touched.
FaultyCommitted == dirty

\* What a commit leaves in the table.
Committed == [e \in Envs |-> IF dirty[e] = "clean" THEN status[e] ELSE dirty[e]]

\* The lock holder's transaction ends without a trace.
Rollback ==
  /\ lock' = "free" /\ cur' = NoEnv /\ dirty' = AllClean
  /\ target' = NoImage /\ reqTodo' = {}

Commit ==
  /\ status' = Committed
  /\ ForgetTimes({e \in Envs : dirty[e] # "clean"})
  /\ early' = early \cup {e \in Envs : dirty[e] # "clean" /\ pc[e] \in InFlight}
  /\ Rollback

\* Faulty: no 409 for a row that is still starting.
FaultyStopEnv(e) ==
  /\ "stop_env" \in Paths /\ up /\ lock = "free"
  /\ Claim(e, "stop_env")
  /\ UNCHANGED <<rowVars, retired, pc, vm, target, reqTodo, wdVars, up, early>>

\* stop_env, stop_attack_machine: a `starting' row is refused.
StopEnv(e) ==
  /\ "stop_env" \in Paths /\ up /\ lock = "free"
  /\ status[e] = "running"
  /\ Claim(e, "stop_env")
  /\ UNCHANGED <<rowVars, retired, pc, vm, target, reqTodo, wdVars, up, early>>

ForceStop(e) ==
  /\ "force_stop" \in Paths /\ up /\ lock = "free"
  /\ Claim(e, "force_stop")
  /\ UNCHANGED <<rowVars, retired, pc, vm, target, reqTodo, wdVars, up, early>>

\* Faulty: leaves rows that are still starting to themselves.
FaultyBeginImageRequest(who, i) ==
  /\ who \in Paths /\ up /\ lock = "free"
  /\ i \notin retired
  /\ lock' = who
  /\ target' = i
  /\ reqTodo' = {e \in Envs : ImageOf[e] = i /\ status[e] = "running"}
  /\ UNCHANGED <<rowVars, retired, pc, vm, cur, dirty, wdVars, up, early>>

\* update_image with a new kernel, rootfs or bundle, and delete_image: read the
\* image and the ids of its stoppable rows; the transaction spans all of them.
BeginImageRequest(who, i) ==
  /\ who \in Paths /\ up /\ lock = "free"
  /\ i \notin retired
  /\ lock' = who
  /\ target' = i
  /\ reqTodo' = {e \in Envs : ImageOf[e] = i /\ status[e] \in Stoppable}
  /\ UNCHANGED <<rowVars, retired, pc, vm, cur, dirty, wdVars, up, early>>

ClaimForImage(e) ==
  /\ lock \in ImagePaths /\ cur = NoEnv /\ e \in reqTodo
  /\ Claim(e, lock)
  /\ reqTodo' = reqTodo \ {e}
  /\ UNCHANGED <<rowVars, retired, pc, vm, target, wdVars, up, early>>

\* Faulty: releases the row without stopping its VM.
FaultyDestroyEnv ==
  /\ cur # NoEnv /\ dirty[cur] = "stopping"
  /\ dirty' = [dirty EXCEPT ![cur] = "stopped"]
  /\ cur' = IF lock \in ImagePaths THEN NoEnv ELSE cur
  /\ UNCHANGED <<rowVars, retired, pc, vm, lock, target, reqTodo, wdVars, up, early>>

\* destroy_env: stop_vm if the claimed row has a vm_id, then `stopped' in memory.
DestroyEnv ==
  /\ cur # NoEnv /\ dirty[cur] = "stopping"
  /\ vm' = IF hasVm[cur] THEN [vm EXCEPT ![cur] = "absent"] ELSE vm
  /\ dirty' = [dirty EXCEPT ![cur] = "stopped"]
  /\ cur' = IF lock \in ImagePaths THEN NoEnv ELSE cur
  /\ UNCHANGED <<rowVars, retired, pc, lock, target, reqTodo, wdVars, up, early>>

\* Faulty: stop_vm removes the tap before it kills the process.
FaultyDestroyFails ==
  /\ "stop_fail" \in Faults
  /\ cur # NoEnv /\ dirty[cur] = "stopping" /\ hasVm[cur]
  /\ IF lock \in ImagePaths
       THEN cur' = NoEnv /\ UNCHANGED <<lock, dirty, target, reqTodo, wdTodo>>
       ELSE /\ wdTodo' = IF lock = "watchdog" THEN wdTodo \ {cur} ELSE wdTodo
            /\ Rollback
  /\ UNCHANGED <<rowVars, retired, pc, vm, wdPhase, up, early>>

\* stop_vm raises after it has killed the process (delete_tap cannot run its
\* commands).  The image requests swallow it and keep the flushed `stopping';
\* the others roll back.
DestroyFails ==
  /\ "stop_fail" \in Faults
  /\ cur # NoEnv /\ dirty[cur] = "stopping" /\ hasVm[cur]
  /\ vm' = [vm EXCEPT ![cur] = "dead"]
  /\ IF lock \in ImagePaths
       THEN cur' = NoEnv /\ UNCHANGED <<lock, dirty, target, reqTodo, wdTodo>>
       ELSE /\ wdTodo' = IF lock = "watchdog" THEN wdTodo \ {cur} ELSE wdTodo
            /\ Rollback
  /\ UNCHANGED <<rowVars, retired, pc, wdPhase, up, early>>

\* The commit of a single-row stop.
CommitStop ==
  /\ cur # NoEnv /\ dirty[cur] = "stopped"
  /\ wdTodo' = IF lock = "watchdog" THEN wdTodo \ {cur} ELSE wdTodo
  /\ Commit
  /\ UNCHANGED <<ip, hasVm, extended, retired, pc, vm, wdPhase, up>>

\* The commit of an image request; delete_image retires the image with it.
CommitImage ==
  /\ lock \in ImagePaths /\ cur = NoEnv /\ reqTodo = {}
  /\ retired' = IF lock = "delete_image" THEN retired \cup {target} ELSE retired
  /\ Commit
  /\ UNCHANGED <<ip, hasVm, extended, pc, vm, wdVars, up>>

\* update_image fails later on (an asset, the bundle, a form field, the README):
\* the session is dropped although the VMs are gone.
RejectUpdate ==
  /\ lock = "update_image" /\ cur = NoEnv /\ reqTodo = {}
  /\ Rollback
  /\ UNCHANGED <<rowVars, retired, pc, vm, wdVars, up, early>>

(***************************************************************************)
(* The watchdog: three loops a round, each over ids read at its start.     *)
(***************************************************************************)

\* Faulty: the unlimited flag is tested the wrong way round.
FaultyExpiredRows == {e \in Envs : status[e] = "running" /\ e \in expired \cap Unlimited}

ExpiredRows == {e \in Envs : status[e] = "running" /\ e \in expired \ Unlimited}

\* Faulty: takes only rows whose VM is known.
FaultyStuckRows == {e \in Envs : status[e] = "starting" /\ age[e] = 2 /\ hasVm[e]}

StuckRows   == {e \in Envs : status[e] = "starting" /\ age[e] = 2}
GracedRows  == {e \in Envs : status[e] = "running" /\ age[e] >= 1}

\* The select of a loop takes the write lock, or already has it from the loop
\* before when that one committed nothing last.
ReadBatch(from, to, batch) ==
  /\ up /\ wdPhase = from /\ wdTodo = {} /\ CanWrite("watchdog")
  /\ lock' = "watchdog"
  /\ wdPhase' = to
  /\ wdTodo' = batch
  /\ UNCHANGED <<rowVars, retired, pc, vm, stopVars, up, early>>

WdExpired == ReadBatch("sleep", "expired", ExpiredRows)
WdStuck   == ReadBatch("expired", "stuck", StuckRows)
WdCrashed == ReadBatch("stuck", "crashed", GracedRows)

\* Faulty: a zombie process counts as alive.
FaultyLooksHealthy(e) == wdPhase = "crashed" /\ (~hasVm[e] \/ vm[e] # "absent")

\* vm_is_alive, asked of each row of the third loop before it is claimed.
LooksHealthy(e) == wdPhase = "crashed" /\ (~hasVm[e] \/ vm[e] = "alive")

WdClaim(e) ==
  /\ e \in wdTodo /\ CanWrite("watchdog") /\ cur = NoEnv
  /\ ~LooksHealthy(e)
  /\ Claim(e, "watchdog")
  /\ UNCHANGED <<rowVars, retired, pc, vm, target, reqTodo, wdVars, up, early>>

\* A healthy row is passed over without touching the database.
WdPassOver(e) ==
  /\ e \in wdTodo /\ LooksHealthy(e)
  /\ lock = "watchdog" => cur = NoEnv
  /\ wdTodo' = wdTodo \ {e}
  /\ UNCHANGED <<rowVars, retired, pc, vm, lock, stopVars, wdPhase, up, early>>

\* Someone else has stopped the row: claim_env_for_stop returns None.
WdMiss(e) ==
  /\ e \in wdTodo /\ CanWrite("watchdog") /\ cur = NoEnv
  /\ ~LooksHealthy(e) /\ status[e] \notin Stoppable
  /\ lock' = "watchdog"
  /\ wdTodo' = wdTodo \ {e}
  /\ UNCHANGED <<rowVars, retired, pc, vm, stopVars, wdPhase, up, early>>

\* The round ends: the session is closed and with it a transaction still open.
WdSleep ==
  /\ wdPhase = "crashed" /\ wdTodo = {}
  /\ wdPhase' = "sleep"
  /\ lock' = IF lock = "watchdog" THEN "free" ELSE lock
  /\ UNCHANGED <<rowVars, retired, pc, vm, stopVars, wdTodo, up, early>>

\* busy_timeout: a claim that fails costs one id, a select that fails the round.
WdTimesOut ==
  /\ "db_busy" \in Faults
  /\ wdPhase # "sleep" /\ LongHold /\ lock # "watchdog"
  /\ \/ /\ \E e \in wdTodo : ~LooksHealthy(e) /\ wdTodo' = wdTodo \ {e}
        /\ UNCHANGED wdPhase
     \/ /\ wdTodo = {} /\ wdPhase # "crashed"
        /\ wdPhase' = "sleep"
        /\ UNCHANGED wdTodo
  /\ UNCHANGED <<rowVars, retired, pc, vm, lock, stopVars, up, early>>

(***************************************************************************)
(* The host, the clock, and the orchestrator process.                      *)
(***************************************************************************)

\* The Firecracker process ends by itself (guest panic, poweroff).
VmDies(e) ==
  /\ "vm_dies" \in Faults
  /\ vm[e] = "alive"
  /\ vm' = [vm EXCEPT ![e] = "dead"]
  /\ UNCHANGED <<rowVars, retired, pc, lock, stopVars, wdVars, up, early>>

\* expires_at passes; only a running row's matters.
Expire(e) ==
  /\ status[e] = "running" /\ e \notin Unlimited \cup expired
  /\ expired' = expired \cup {e}
  /\ UNCHANGED <<status, ip, hasVm, extended, age, retired, pc, vm, lock, stopVars,
                 wdVars, up, early>>

\* started_at recedes past the grace of the crash loop, then, for a row that
\* is still starting, past the stuck threshold.  Without "slow_launch" a start
\* handler is never in flight that long.
Age(e) ==
  /\ status[e] \in Stoppable
  /\ age[e] = 0 \/ /\ age[e] = 1 /\ status[e] = "starting"
                   /\ "slow_launch" \in Faults \/ pc[e] \notin InFlight
  /\ age' = [age EXCEPT ![e] = @ + 1]
  /\ UNCHANGED <<status, ip, hasVm, extended, expired, retired, pc, vm, lock,
                 stopVars, wdVars, up, early>>

\* The orchestrator process is lost with its tasks, handlers and open
\* transaction; the Firecracker processes survive it.
Crash ==
  /\ "crash" \in Faults /\ up
  /\ up' = FALSE
  /\ pc' = [e \in Envs |-> IF pc[e] \in InFlight THEN "lost" ELSE pc[e]]
  /\ Rollback
  /\ wdPhase' = "sleep" /\ wdTodo' = {}
  /\ UNCHANGED <<rowVars, retired, vm, early>>

\* cleanup_orphaned_vms, before the first request and the watchdog: every live
\* row is stopped, and its VM too when the row knows it.
Restart ==
  /\ ~up
  /\ up' = TRUE
  /\ vm' = [e \in Envs |-> IF e \in ActiveEnvs /\ hasVm[e] THEN "absent" ELSE vm[e]]
  /\ status' = [e \in Envs |-> IF e \in ActiveEnvs THEN "stopped" ELSE status[e]]
  /\ ForgetTimes(ActiveEnvs)
  /\ UNCHANGED <<ip, hasVm, extended, retired, pc, lock, stopVars, wdVars, early>>

(***************************************************************************)
(* The specification.                                                      *)
(***************************************************************************)

Start(e) ==
  \/ Reserve(e)  \/ BootVm(e)    \/ BootFails(e)     \/ AbortStart(e)
  \/ RecordVm(e) \/ GoRunning(e) \/ WriteTimesOut(e) \/ CleanupVm(e)

StopRequest ==
  \/ \E e \in Envs : StopEnv(e) \/ ForceStop(e) \/ ClaimForImage(e)
  \/ \E who \in ImagePaths, i \in Images : BeginImageRequest(who, i)
  \/ CommitImage \/ RejectUpdate

Destroy == DestroyEnv \/ DestroyFails \/ CommitStop

Watchdog ==
  \/ WdExpired \/ WdStuck \/ WdCrashed \/ WdSleep \/ WdTimesOut
  \/ \E e \in Envs : WdClaim(e) \/ WdPassOver(e) \/ WdMiss(e)

Host == Crash \/ Restart \/ \E e \in Envs : VmDies(e) \/ Expire(e) \/ Age(e)

Next ==
  \/ \E e \in Envs : Start(e) \/ Extend(e)
  \/ StopRequest \/ Destroy \/ Watchdog \/ Host

Spec == Init /\ [][Next]_vars

(***************************************************************************)
(* What the liveness runs assume.  Handlers, tasks and the process manager *)
(* take their next step when it stays possible, and time passes; clients   *)
(* owe nothing.  Waiting for the lock gets weak fairness only: SQLite's    *)
(* busy handler polls and queues nobody.                                   *)
(***************************************************************************)
Fairness ==
  /\ \A e \in Envs :
       /\ WF_vars(BootVm(e) \/ BootFails(e))
       /\ WF_vars(AbortStart(e)) /\ WF_vars(RecordVm(e)) /\ WF_vars(GoRunning(e))
       /\ WF_vars(CleanupVm(e))
       /\ WF_vars(Age(e))
       /\ WF_vars(ClaimForImage(e))
       /\ WF_vars(WdClaim(e) \/ WdPassOver(e) \/ WdMiss(e))
  /\ WF_vars(Destroy) /\ WF_vars(CommitImage \/ RejectUpdate)
  /\ WF_vars(WdExpired) /\ WF_vars(WdStuck) /\ WF_vars(WdCrashed) /\ WF_vars(WdSleep)
  /\ WF_vars(Restart)

FairSpec == Spec /\ Fairness

(***************************************************************************)
(* The leases the rows stand for.                                          *)
(***************************************************************************)
Leases == INSTANCE IpLease WITH
  lease <- [e \in Envs |-> IF status[e] = "absent" THEN "new"
                           ELSE IF status[e] \in Active THEN "held" ELSE "released"],
  addr  <- ip

\* The lifecycle implements the lease specification (where no path stops a row
\* whose start is in flight).
ImplementsLeases == Leases!LeaseSpec

(***************************************************************************)
(* Properties.                                                             *)
(***************************************************************************)

\* Every variable keeps its type; an uncommitted status exists only under the lock.
TypeOK ==
  /\ status \in [Envs -> Active \cup {"absent", "stopped"}]
  /\ ip \in [Envs -> IPs \cup {0}]
  /\ hasVm \in [Envs -> BOOLEAN]
  /\ extended \in [Envs -> 0 .. MaxExtend]
  /\ expired \in SUBSET Envs /\ early \in SUBSET Envs
  /\ age \in [Envs -> 0 .. 2]
  /\ retired \in SUBSET Images
  /\ pc \in [Envs -> InFlight \cup {"idle", "done", "lost"}]
  /\ vm \in [Envs -> {"absent", "alive", "dead"}]
  /\ lock \in {"free", "watchdog"} \cup AllPaths
  /\ cur \in Envs \cup {NoEnv}
  /\ dirty \in [Envs -> {"clean", "stopping", "stopped"}]
  /\ target \in Images \cup {NoImage}
  /\ reqTodo \in SUBSET Envs /\ wdTodo \in SUBSET Envs
  /\ wdPhase \in {"sleep", "expired", "stuck", "crashed"}
  /\ up \in BOOLEAN

\* Two live rows share an address only if one of them was stopped while its
\* start was still in flight (and then set running again by that start).
UniqueIpUnlessEarly ==
  \A e, f \in ActiveEnvs \ early : e # f => ip[e] # ip[f]

\* No two live rows hold the same address: what allocate_ip exists for.
UniqueIp == \A e, f \in ActiveEnvs : e # f => ip[e] # ip[f]

\* Two live microVMs answer on one address only if one belongs to a start that
\* was stopped early, or that vanished and left its VM behind.
OneGuestPerIp ==
  \A e, f \in {g \in Envs : vm[g] = "alive"} \ (early \cup Lost) :
    e # f => ip[e] # ip[f]

\* A user who is no admin holds at most MAX_ENVS_PER_USER rows, not counting
\* rows revived after an early stop.
UserQuotaUnlessEarly ==
  \A u \in Users \ Admins :
    Cardinality({e \in ActiveEnvs \ early : UserOf[e] = u}) <= MaxPerUser

\* Users who are no admins hold at most MAX_ENVS_TOTAL rows together, with the
\* same exception: an admin's rows use up the total but are not held back by it.
TotalQuotaUnlessEarly ==
  Cardinality({e \in ActiveEnvs \ early : UserOf[e] \notin Admins}) <= MaxTotal

\* Both limits hold, however requests and stops come together.
QuotasUnlessEarly == UserQuotaUnlessEarly /\ TotalQuotaUnlessEarly

\* A live VM is never out of reach: its start handler is in flight, or its row
\* is live and names it.  The exceptions are handlers that vanished: in a crash,
\* and in the attack machine's start when a commit fails.
LiveVmIsReachable ==
  \A e \in Envs \ Lost :
    vm[e] = "alive" /\ pc[e] \notin InFlight => status[e] \in Active /\ hasVm[e]

\* Once delete_image has committed, nothing of that image runs or starts,
\* except rows revived after an early stop.
DeletedImageIsQuiet ==
  \A e \in Envs \ early : ImageOf[e] \in retired => status[e] \notin Stoppable

\* A row committed `stopping' keeps an address for a guest that is gone: its
\* process was killed before destroy_env failed.
StoppingRowIsDead ==
  \A e \in Envs : status[e] = "stopping" => hasVm[e] /\ vm[e] # "alive"

\* A stopped row stays stopped: its address may have gone to another row.
StoppedIsFinal == [][\A e \in Envs : status[e] = "stopped" => status'[e] = "stopped"]_vars

\* A user has at most one live attack machine.
OneAttackMachinePerUser ==
  \A e, f \in ActiveEnvs :
    /\ e # f /\ UserOf[e] = UserOf[f] /\ ImageOf[e] = ImageOf[f]
    => {e, f} \cap AttackEnvs = {}

\* The watchdog stops an expired row unless an extension comes first.
ExpiredRowEnds ==
  \A e \in Envs \ Unlimited :
    status[e] = "running" /\ e \in expired ~> status[e] # "running" \/ e \notin expired

\* A running row whose VM has ended is stopped.
CrashedRowEnds ==
  \A e \in Envs : status[e] = "running" /\ vm[e] # "alive" ~> status[e] # "running"

\* No running row stays that should not: the two loops that look after them.
RunningRowEnds == ExpiredRowEnds /\ CrashedRowEnds

\* A starting row whose handler has ended without stopping it is stopped.
AbandonedRowEnds ==
  \A e \in Envs : status[e] = "starting" /\ pc[e] \notin InFlight ~> status[e] # "starting"
=============================================================================
