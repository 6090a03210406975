----------------------------- MODULE VmLauncher -----------------------------
(***************************************************************************)
(* What one Firecracker VM needs on the host, and how it is given back.    *)
(*                                                                         *)
(* start_vm copies the root filesystem, makes a tap with its anti-spoof    *)
(* rules, a cgroup and a process, and boots it; stop_vm takes it all down  *)
(* again; run_build_vm does the same without a network, one build at a     *)
(* time.  Each resource is got or given back at a step of its own, that    *)
(* step may fail, and a network command that is given up after its 30 s    *)
(* was not killed: it may still do its work later.                         *)
(*                                                                         *)
(* The orchestrator may end with the container and every process in it,    *)
(* alone, or in good order (uvicorn runs with --reload); the next start    *)
(* sweeps up by what the environments' rows name (cleanup_orphaned_vms).   *)
(*                                                                         *)
(* A VM's identifier is fresh, so it is started once.  A definition called *)
(* Faulty... is the one after it with a plausible bug; nothing uses it.    *)
(* Replacing the definition by it must break a property.                   *)
(***************************************************************************)
EXTENDS Naturals, FiniteSets

CONSTANTS
  EnvVms,      \* the VMs of environments that may be started
  BuildVms,    \* the VMs of builds that may be requested
  MaxBuilds,   \* MAX_CONCURRENT_BUILDS
  MaxEnds,     \* bound: how often the process ends
  Faults       \* which of AllFaults may occur; other failures always may

Vms == EnvVms \cup BuildVms
AllFaults == {"slow", "crash", "kill", "reload"}

ASSUME VmsAssumption ==
  /\ IsFiniteSet(EnvVms) /\ IsFiniteSet(BuildVms) /\ EnvVms \cap BuildVms = {}
  /\ MaxBuilds \in Nat \ {0} /\ MaxEnds \in Nat
  /\ Faults \subseteq AllFaults

VARIABLES
  vm,        \* everything about each VM, the fields of which are:
             \*   pc       what the coroutine in charge of it does next
             \*   disk     its copy of the root filesystem
             \*   held     its other resources on the host
             \*   proc     its Firecracker process
             \*   late     commands that were given up and may still take effect
             \*   named    a live Environment row holds its vm_id
             \*   slow     history: a network command of its start timed out
             \*   refused  history: nft refused its rules
  serving,   \* the orchestrator: "up", "down", or "sweeping" at its start
  ends       \* how often it ended

vars == <<vm, serving, ends>>
orchestrator == <<serving, ends>>

Network   == {"tap", "rules"}
Resources == Network \cup {"cgroup", "socket", "log"}

\* Where a coroutine can be.  On the error paths of a start, "tapUndo..." and
\* "undoFiles" run without the caller knowing of a tap.
Copying  == {"copy", "inject", "recopy"}
Acquiring == Copying \cup {"tap", "plug", "guard", "cgroup", "exec", "boot"}
Undoing  == {"tapUndoRules", "tapUndoLink", "undoFiles", "undo", "undoRules", "undoLink"}
Starting == Acquiring \cup Undoing
Stopping == {"halt", "free", "stopRules", "stopLink"}
FaultyBuilding == {"copy", "unprepared", "cgroup", "exec", "boot", "guest", "reap"}
Building == {"copy", "cgroup", "exec", "boot", "guest", "reap"}
Over     == {"failed", "stopped", "ended", "unprepared", "lost", "swept"}

Idle == [pc |-> "new", disk |-> "none", held |-> {}, proc |-> "none", late |-> {},
         named |-> FALSE, slow |-> FALSE, refused |-> FALSE]

Init == vm = [v \in Vms |-> Idle] /\ serving = "up" /\ ends = 0

At(v, label) == serving = "up" /\ vm[v].pc = label
Alive(v)     == vm[v].proc \in {"running", "dying"}

(***************************************************************************)
(* The copy of the root filesystem (_prepare_writable_rootfs,              *)
(* _prepare_build_rootfs).                                                 *)
(***************************************************************************)

\* A start that the first checks refuse (files, /dev/kvm, free space) has acquired
\* nothing and is no start here.  A build waits for the semaphore.
RequestBuild(v) ==
  /\ v \in BuildVms /\ At(v, "new")
  /\ vm' = [vm EXCEPT ![v].pc = "queued"]
  /\ UNCHANGED orchestrator

BeginCopy(v) ==
  /\ \/ v \in EnvVms /\ At(v, "new")
     \/ v \in BuildVms /\ At(v, "queued")
        /\ Cardinality({b \in BuildVms : vm[b].pc \in Building}) < MaxBuilds
  /\ vm' = [vm EXCEPT ![v].pc = "copy", ![v].disk = "partial"]
  /\ UNCHANGED orchestrator

CopyDone(v) ==
  /\ At(v, "copy")
  /\ vm' = [vm EXCEPT ![v].pc = IF v \in EnvVms THEN "inject" ELSE "cgroup",
                      ![v].disk = "whole"]
  /\ UNCHANGED orchestrator

\* An environment's failed copy is removed.  A build copies inside the
\* semaphore but outside the try that removes its work directory.
CopyFails(v) ==
  /\ At(v, "copy") \/ At(v, "recopy")
  /\ vm' = IF v \in EnvVms
           THEN [vm EXCEPT ![v].pc = "failed", ![v].disk = "none"]
           ELSE [vm EXCEPT ![v].pc = "unprepared"]
  /\ UNCHANGED orchestrator

\* debugfs writes resolv.conf into the copy; when it fails halfway the copy is
\* made again without.
Inject(v) ==
  /\ At(v, "inject")
  /\ vm' = [vm EXCEPT ![v].pc = "tap"]
  /\ UNCHANGED orchestrator

FaultyInjectFails(v) ==
  /\ At(v, "inject")
  /\ vm' = [vm EXCEPT ![v].pc = "tap", ![v].disk = "torn"]
  /\ UNCHANGED orchestrator

InjectFails(v) ==
  /\ At(v, "inject")
  /\ vm' = [vm EXCEPT ![v].pc = "recopy", ![v].disk = "torn"]
  /\ UNCHANGED orchestrator

Recopy(v) ==
  /\ At(v, "recopy")
  /\ vm' = [vm EXCEPT ![v].pc = "tap", ![v].disk = "whole"]
  /\ UNCHANGED orchestrator

(***************************************************************************)
(* Network commands.  Done: the command did its work.  Given up: it raised *)
(* after 30 s and goes on by itself.                                       *)
(***************************************************************************)

\* What v's coroutine does next after a step that worked.
NextStep == [tap |-> "plug", plug |-> "guard", guard |-> "cgroup",
             tapUndoRules |-> "tapUndoLink", tapUndoLink |-> "undoFiles",
             undoRules |-> "undoLink", undoLink |-> "failed",
             stopRules |-> "stopLink", stopLink |-> "stopped"]

\* Where an exception of the step takes it: create_tap cleans up after itself
\* and raises, start_vm gives up, stop_vm raises to a caller whose row stays.
OnError == [tap |-> "undoFiles", plug |-> "tapUndoRules", guard |-> "tapUndoRules",
            tapUndoRules |-> "undoFiles", tapUndoLink |-> "undoFiles",
            undoRules |-> "failed", undoLink |-> "failed",
            stopRules |-> "up", stopLink |-> "up"]

Makes   == [tap |-> {"tap"}, plug |-> {}, guard |-> {"rules"}]
FaultyRemoves == [tapUndoRules |-> {}, undoRules |-> {}, stopRules |-> {},
            tapUndoLink |-> {"tap"}, undoLink |-> {"tap"}, stopLink |-> {"tap"}]
Removes == [tapUndoRules |-> {"rules"}, undoRules |-> {"rules"}, stopRules |-> {"rules"},
            tapUndoLink |-> {"tap"}, undoLink |-> {"tap"}, stopLink |-> {"tap"}]

\* create_tap.
Configure(v) == \E s \in DOMAIN Makes :
  /\ At(v, s)
  /\ vm' = [vm EXCEPT ![v].pc = NextStep[s], ![v].held = @ \cup Makes[s]]
  /\ UNCHANGED orchestrator

\* ip reports an error.
ConfigureFails(v) == \E s \in {"tap", "plug"} :
  /\ At(v, s)
  /\ vm' = [vm EXCEPT ![v].pc = OnError[s]]
  /\ UNCHANGED orchestrator

\* nft reports an error: a warning, and the VM starts without rules.
RulesRefused(v) ==
  /\ At(v, "guard")
  /\ vm' = [vm EXCEPT ![v].pc = NextStep["guard"], ![v].refused = TRUE]
  /\ UNCHANGED orchestrator

ConfigureTimesOut(v) == \E s \in DOMAIN Makes :
  /\ "slow" \in Faults /\ At(v, s)
  /\ vm' = [vm EXCEPT ![v].pc = OnError[s], ![v].late = @ \cup Makes[s],
                      ![v].slow = @ \/ Makes[s] # {}]
  /\ UNCHANGED orchestrator

FaultyRemove(v) == \E s \in DOMAIN Removes :
  /\ At(v, s)
  /\ vm' = [vm EXCEPT ![v].pc = NextStep[s], ![v].held = @ \ Removes[s]]
  /\ UNCHANGED orchestrator

\* delete_tap, and create_tap's own clean-up; at the end of a stop the caller's row
\* is stopped too.  Errors the commands report are
\* ignored.
Remove(v) == \E s \in DOMAIN Removes :
  /\ At(v, s)
  /\ vm' = [vm EXCEPT ![v].pc = NextStep[s], ![v].held = @ \ Removes[s],
                      ![v].named = @ /\ s # "stopLink"]
  /\ UNCHANGED orchestrator

RemoveTimesOut(v) == \E s \in DOMAIN Removes, done \in BOOLEAN :
  /\ "slow" \in Faults /\ At(v, s)
  /\ vm' = [vm EXCEPT ![v].pc = OnError[s],
                      ![v].held = IF done THEN @ \ Removes[s] ELSE @,
                      ![v].slow = @ \/ s \notin Stopping]
  /\ UNCHANGED orchestrator

TakesEffect(v) == \E r \in vm[v].late :
  /\ vm' = [vm EXCEPT ![v].late = @ \ {r}, ![v].held = @ \cup {r}]
  /\ UNCHANGED orchestrator

(***************************************************************************)
(* The process: cgroup, Firecracker, boot.                                 *)
(***************************************************************************)

\* Without a delegated cgroup tree the VM would have one thing less to give back.
Contain(v) ==
  /\ At(v, "cgroup")
  /\ vm' = [vm EXCEPT ![v].pc = "exec", ![v].held = @ \cup {"cgroup"}]
  /\ UNCHANGED orchestrator

\* A build's socket and log lie in its work directory, here its disk.
Launch(v) ==
  /\ At(v, "exec")
  /\ vm' = [vm EXCEPT ![v].pc = "boot", ![v].proc = "running",
                      ![v].held = @ \cup IF v \in EnvVms THEN {"socket", "log"} ELSE {}]
  /\ UNCHANGED orchestrator

\* InstanceStart was accepted: start_vm returns, run_build_vm waits.
Boot(v) ==
  /\ At(v, "boot") /\ vm[v].proc = "running"
  /\ vm' = [vm EXCEPT ![v].pc = IF v \in EnvVms THEN "up" ELSE "guest"]
  /\ UNCHANGED orchestrator

\* No process, no socket in time, or an error or a timeout of its API.
BootFails(v) ==
  /\ At(v, "exec") \/ At(v, "boot")
  /\ vm' = [vm EXCEPT ![v].pc = IF v \in EnvVms THEN "undo" ELSE "reap"]
  /\ UNCHANGED orchestrator

\* A cgroup can be removed when its process is gone.
Leftover(process) == IF process = "dying" THEN {"cgroup"} ELSE {}

\* The process after kill() and wait().
Reaped(v) == IF vm[v].proc = "none" THEN "none" ELSE "gone"

FaultyUndo(v) ==
  /\ At(v, "undo") \/ At(v, "undoFiles")
  /\ vm' = [vm EXCEPT ![v].pc = "failed",
                      ![v].proc = Reaped(v), ![v].disk = "none",
                      ![v].held = @ \ {"cgroup", "socket"}]
  /\ UNCHANGED orchestrator

\* The error path of start_vm: everything but the tap, which follows if the
\* handler knows of it.
Undo(v) ==
  /\ At(v, "undo") \/ At(v, "undoFiles")
  /\ vm' = [vm EXCEPT ![v].pc = IF @ = "undo" THEN "undoRules" ELSE "failed",
                      ![v].proc = Reaped(v), ![v].disk = "none",
                      ![v].held = @ \ {"cgroup", "socket"}]
  /\ UNCHANGED orchestrator

\* The guest of a build has switched itself off, or its time is up.
BuildEnds(v) ==
  /\ At(v, "guest")
  /\ vm' = [vm EXCEPT ![v].pc = "reap"]
  /\ UNCHANGED orchestrator

FaultyBuildOver(v) ==
  [vm[v] EXCEPT !.pc = "ended", !.disk = "none", !.held = @ \ {"cgroup"}]

\* run_build_vm's finally.
BuildOver(v) ==
  [vm[v] EXCEPT !.pc = "ended", !.proc = Reaped(v), !.disk = "none", !.held = @ \ {"cgroup"}]

Reap(v) ==
  /\ At(v, "reap")
  /\ vm' = [vm EXCEPT ![v] = BuildOver(v)]
  /\ UNCHANGED orchestrator

\* By itself or, after SIGKILL, at last.
ProcessEnds(v) ==
  /\ Alive(v)
  /\ vm' = [vm EXCEPT ![v].proc = "gone"]
  /\ UNCHANGED orchestrator

(***************************************************************************)
(* Rows and stops.                                                         *)
(***************************************************************************)

\* The caller of start_vm commits vm_id, or fails to.
Record(v) ==
  /\ At(v, "up") /\ ~vm[v].named
  /\ vm' = [vm EXCEPT ![v].named = TRUE]
  /\ UNCHANGED orchestrator

\* stop_vm; claim_env_for_stop lets one caller in at a time.
Halt(v) ==
  /\ At(v, "up")
  /\ vm' = [vm EXCEPT ![v].pc = "halt"]
  /\ UNCHANGED orchestrator

\* _terminate_pid: the process ends in time, or gets SIGKILL, which nobody
\* waits for.
Terminated(v) == IF Alive(v) THEN {"gone", "dying"} ELSE {vm[v].proc}

Terminate(v) == \E process \in Terminated(v) :
  /\ At(v, "halt")
  /\ vm' = [vm EXCEPT ![v].pc = "free", ![v].proc = process]
  /\ UNCHANGED orchestrator

Free(v) ==
  /\ At(v, "free")
  /\ vm' = [vm EXCEPT ![v].pc = "stopRules", ![v].disk = "none",
       ![v].held = @ \ ({"socket", "log", "cgroup"} \ Leftover(vm[v].proc))]
  /\ UNCHANGED orchestrator

(***************************************************************************)
(* The end of the orchestrator and its next start.                         *)
(***************************************************************************)

\* A VM that no coroutine looks after any more.
Abandoned(r) ==
  [r EXCEPT !.pc = IF @ \in Over \cup {"new"} THEN @ ELSE IF r.named THEN "orphan" ELSE "lost"]

\* The container ends, and with it every process in it.
Crash ==
  /\ "crash" \in Faults /\ serving # "down" /\ ends < MaxEnds
  /\ serving' = "down" /\ ends' = ends + 1
  /\ vm' = [v \in Vms |->
       [Abandoned(vm[v]) EXCEPT !.proc = Reaped(v), !.late = {}]]

\* The process ends alone; what it had started goes on.
Kill ==
  /\ "kill" \in Faults /\ serving # "down" /\ ends < MaxEnds
  /\ serving' = "down" /\ ends' = ends + 1
  /\ vm' = [v \in Vms |-> Abandoned(vm[v])]

\* uvicorn lets the requests end, so no start is cut short; the watchdog's stops
\* and the builds are cancelled.  A build that is copying is not in its try yet.
Reload ==
  /\ "reload" \in Faults /\ serving = "up" /\ ends < MaxEnds
  /\ \A v \in EnvVms : vm[v].pc \notin Starting
  /\ serving' = "down" /\ ends' = ends + 1
  /\ vm' = [v \in Vms |->
       IF v \notin BuildVms \/ vm[v].pc \notin Building THEN Abandoned(vm[v])
       ELSE IF vm[v].pc = "copy" THEN [vm[v] EXCEPT !.pc = "unprepared"]
       ELSE BuildOver(v)]

FaultyBeginSweep ==
  /\ serving = "down" /\ serving' = "sweeping" /\ UNCHANGED ends
  /\ vm' = [v \in Vms |-> [vm[v] EXCEPT
       !.held = @ \ (IF Alive(v) THEN {} ELSE {"cgroup"}),
       !.disk = IF v \in BuildVms THEN "none" ELSE @]]

\* cleanup_orphaned_vms: first what lies about without an owner, by its place.
BeginSweep ==
  /\ serving = "down" /\ serving' = "sweeping" /\ UNCHANGED ends
  /\ vm' = [v \in Vms |-> [vm[v] EXCEPT
       !.held = @ \ ({"rules"} \cup IF Alive(v) THEN {} ELSE {"cgroup"}),
       !.disk = IF v \in BuildVms THEN "none" ELSE @]]

\* Then the VMs that rows name.
Sweep(v) == \E process \in Terminated(v) :
  /\ serving = "sweeping" /\ vm[v].pc = "orphan"
  /\ vm' = [vm EXCEPT ![v].pc = "tidied", ![v].proc = process, ![v].disk = "none",
                      ![v].held = @ \cap Leftover(process)]
  /\ UNCHANGED orchestrator

\* delete_tap is given up: the start fails, and the rows stay as they were.
SweepTimesOut(v) == \E process \in Terminated(v) :
  /\ "slow" \in Faults /\ serving = "sweeping" /\ vm[v].pc = "orphan"
  /\ serving' = "down" /\ UNCHANGED ends
  /\ vm' = [w \in Vms |->
       IF w # v THEN Abandoned(vm[w])
       ELSE [vm[v] EXCEPT !.proc = process, !.disk = "none",
                          !.held = @ \cap ({"tap"} \cup Leftover(process))]]

EndSweep ==
  /\ serving = "sweeping" /\ \A v \in Vms : vm[v].pc # "orphan"
  /\ serving' = "up" /\ UNCHANGED ends
  /\ vm' = [v \in Vms |->
       IF vm[v].pc = "tidied" THEN [vm[v] EXCEPT !.pc = "swept", !.named = FALSE] ELSE vm[v]]

(***************************************************************************)
(* The specification.                                                      *)
(***************************************************************************)

\* What the coroutine in charge of v does next.
Step(v) ==
  \/ (v \in BuildVms /\ BeginCopy(v)) \/ CopyDone(v) \/ CopyFails(v)
  \/ Inject(v) \/ InjectFails(v) \/ Recopy(v)
  \/ Configure(v) \/ ConfigureFails(v) \/ RulesRefused(v) \/ ConfigureTimesOut(v)
  \/ Contain(v) \/ Launch(v) \/ Boot(v) \/ BootFails(v)
  \/ Undo(v) \/ Remove(v) \/ RemoveTimesOut(v) \/ Terminate(v) \/ Free(v)
  \/ BuildEnds(v) \/ Reap(v)

Request(v) ==
  \/ (v \in EnvVms /\ BeginCopy(v)) \/ RequestBuild(v) \/ Record(v) \/ Halt(v)

Host(v) == TakesEffect(v) \/ ProcessEnds(v)

Start == BeginSweep \/ EndSweep \/ \E v \in Vms : Sweep(v) \/ SweepTimesOut(v)

Next ==
  \/ \E v \in Vms : Step(v) \/ Request(v) \/ Host(v)
  \/ Crash \/ Kill \/ Reload \/ Start

Spec == Init /\ [][Next]_vars

\* Coroutines go on: every wait in them has a timeout.  The orchestrator is
\* started again.
Fairness == WF_vars(Start) /\ \A v \in Vms : WF_vars(Step(v))

FairSpec == Spec /\ Fairness

(***************************************************************************)
(* Properties.                                                             *)
(***************************************************************************)

\* Every VM's fields keep their types, and a row names only a VM whose start
\* returned and whose stop has not.
TypeOK ==
  /\ vm \in [Vms ->
       [pc: {"new", "queued", "up", "guest", "reap", "orphan", "tidied"}
              \cup Starting \cup Stopping \cup Over,
        disk: {"none", "partial", "whole", "torn"}, held: SUBSET Resources,
        proc: {"none", "running", "dying", "gone"}, late: SUBSET Network,
        named: BOOLEAN, slow: BOOLEAN, refused: BOOLEAN]]
  /\ \A v \in Vms : vm[v].named => vm[v].pc \in {"up", "orphan", "tidied"} \cup Stopping
  /\ serving \in {"up", "down", "sweeping"} /\ ends \in 0 .. MaxEnds

\* However a start fails, it leaves no process, copy, socket or cgroup, and no
\* tap or rules unless a network command timed out.  The log file stays.
FailedStartHoldsNothing ==
  \A v \in EnvVms : vm[v].pc = "failed" =>
    /\ ~Alive(v) /\ vm[v].disk = "none"
    /\ vm[v].held \subseteq {"log"} \cup (IF vm[v].slow THEN Network ELSE {})

\* After a stop nothing is left either, whatever was retried, but the cgroup of a
\* process that had to be killed.
StoppedHoldsNothing ==
  \A v \in EnvVms : vm[v].pc = "stopped" =>
    vm[v].proc # "running" /\ vm[v].disk = "none" /\ vm[v].held \subseteq {"cgroup"}

\* A guest in service has an undamaged disk of its own, its tap and its rules,
\* unless nft refused them.
GuestIsEquipped ==
  \A v \in EnvVms : At(v, "up") /\ vm[v].proc = "running" =>
    /\ vm[v].disk = "whole" /\ {"tap", "socket"} \subseteq vm[v].held
    /\ "rules" \in vm[v].held \/ vm[v].refused

\* Never more build guests than MAX_CONCURRENT_BUILDS, save for those that
\* outlived the orchestrator.
OneBuildGuest ==
  Cardinality({v \in BuildVms : Alive(v) /\ vm[v].pc # "lost"}) <= MaxBuilds

\* A build gives everything back on every exit; one that was cut short while it
\* copied leaves the copy.
BuildHoldsNothing ==
  \A v \in BuildVms :
    /\ vm[v].pc = "ended" => ~Alive(v) /\ vm[v].disk = "none" /\ vm[v].held = {}
    /\ vm[v].pc = "unprepared" => ~Alive(v) /\ vm[v].held = {}

\* Nothing that has ended holds what it acquired: starts that failed, stops, builds.
EndedHoldsNothing == FailedStartHoldsNothing /\ StoppedHoldsNothing /\ BuildHoldsNothing

\* The next start leaves nothing of the VMs that rows name, nothing of builds but
\* a process that outlived its orchestrator, and no rules of any VM.
SweepLeavesNothing ==
  \A v \in Vms : serving = "up" =>
    /\ vm[v].pc = "swept" =>
         vm[v].proc # "running" /\ vm[v].disk = "none" /\ vm[v].held \subseteq {"cgroup"}
    /\ vm[v].pc = "lost" =>
         (v \in BuildVms => vm[v].disk = "none") /\ ("rules" \in vm[v].held => vm[v].slow)

\* Every start, stop and build that has begun comes to an end, however its
\* commands end; a build that waits gets its turn, whatever becomes of the others.
WorkEnds ==
  LET Pending == Starting \cup Stopping \cup Building \cup {"queued"}
  IN  \A v \in Vms : vm[v].pc \in Pending ~> vm[v].pc \notin Pending
=============================================================================
