-------------------------- MODULE VmLauncherProofs --------------------------
(***************************************************************************)
(* VmLauncher for any number of VMs and builds, any limit of builds, and   *)
(* any failures, timeouts and ends of the orchestrator.                    *)
(*                                                                         *)
(* A step changes one VM, or all by the same rule, so but for the limit of *)
(* builds the invariant speaks of each VM alone: what it may hold at each  *)
(* place (EnvHolds, BuildInv), what it must have by then (EnvNeeds), and   *)
(* where its process or disk must be gone (EnvEnds).                       *)
(***************************************************************************)
EXTENDS VmLauncher, FiniteSetTheorems, TLAPS

-----------------------------------------------------------------------------
(* The inductive invariant. *)

Labels == {"new", "queued", "up", "guest", "reap", "orphan", "tidied"}
            \cup Starting \cup Stopping \cup Over
Disks  == {"none", "partial", "whole", "torn"}
Procs  == {"none", "running", "dying", "gone"}

VmRecord ==
  [pc: Labels, disk: Disks, held: SUBSET Resources, proc: Procs, late: SUBSET Network,
   named: BOOLEAN, slow: BOOLEAN, refused: BOOLEAN]

\* A row names only a VM whose start returned and whose stop has not.
NamedInv(r) == r.named => r.pc \in {"up", "orphan", "tidied"} \cup Stopping

\* Places of VMs that no coroutine looks after.
Unattended == Over \cup {"new", "orphan", "tidied"}

\* While the orchestrator does not serve, no coroutine runs; what a row names is swept.
DownOf(v) ==
  /\ serving # "up" => vm[v].pc \in Unattended
  /\ vm[v].pc \in {"orphan", "tidied"} => vm[v].named /\ serving # "up"

DownInv == \A v \in Vms : DownOf(v)

\* The resources besides {"tap", "rules"} that an environment's VM may hold at each place.
EnvHolds(r) ==
  LET Within(S) == r.held \subseteq S \cup (IF r.slow THEN Network ELSE {}) IN
  /\ r.pc \in Copying \cup {"new", "tap", "undoFiles"} => Within({})
  /\ r.pc \in {"plug", "guard", "tapUndoRules", "tapUndoLink"} => Within({"tap"})
  /\ r.pc = "cgroup" => Within(Network)
  /\ r.pc = "exec" => Within(Network \cup {"cgroup"})
  /\ r.pc = "undoRules" => Within(Network \cup {"log"})
  /\ r.pc = "undoLink" => Within({"tap", "log"})
  /\ r.pc = "failed" => Within({"log"})
  /\ r.pc = "stopRules" => Within(Network \cup {"cgroup"})
  /\ r.pc = "stopLink" => Within({"tap", "cgroup"})
  /\ r.pc \in {"stopped", "tidied", "swept"} => Within({"cgroup"})

\* What it must have by then.
EnvNeeds(r) ==
  /\ r.pc \in {"inject", "tap", "plug", "guard", "cgroup", "exec", "boot"} => r.disk = "whole"
  /\ r.pc \in {"plug", "guard", "cgroup", "exec", "boot"} => "tap" \in r.held
  /\ r.pc \in {"cgroup", "exec", "boot"} => "rules" \in r.held \/ r.refused
  /\ r.pc = "boot" => "socket" \in r.held
  /\ r.pc = "up" /\ r.proc = "running" =>
       /\ r.disk = "whole" /\ {"tap", "socket"} \subseteq r.held
       /\ "rules" \in r.held \/ r.refused

\* Its process and its disk where the one must not run and the other not be; and that a
\* command is under way on its own only after a timeout of the start.
EnvEnds(r) ==
  /\ r.pc \notin {"queued", "guest", "reap", "ended", "unprepared"}
  /\ r.slow => r.pc \in Undoing \cup {"failed", "lost"}
  /\ r.late # {} => r.slow
  /\ r.pc \in {"new", "undoRules", "undoLink", "failed", "stopRules", "stopLink", "stopped",
               "tidied", "swept"} => r.disk = "none"
  /\ r.pc \in (Acquiring \ {"boot"}) \cup {"new", "tapUndoRules", "tapUndoLink", "undoFiles"}
       => r.proc = "none"
  /\ r.pc \in {"undoRules", "undoLink", "failed"} => r.proc \notin {"running", "dying"}
  /\ r.pc \in {"free", "stopRules", "stopLink", "stopped", "tidied", "swept"}
       => r.proc # "running"

EnvInv(r) == EnvHolds(r) /\ EnvNeeds(r) /\ EnvEnds(r)

BuildInv(r) ==
  /\ r.pc \in Building \cup {"new", "queued", "ended", "unprepared", "lost"}
  /\ r.late = {} /\ ~r.slow /\ ~r.named /\ r.held \subseteq {"cgroup"}
  /\ r.pc \in {"new", "queued", "copy", "cgroup", "ended", "unprepared"} => r.held = {}
  /\ r.pc \in {"new", "queued", "copy", "cgroup", "exec", "unprepared"} => r.proc = "none"
  /\ r.pc = "ended" => r.proc \notin {"running", "dying"} /\ r.disk = "none"

\* What a sweep has removed of VMs that nobody names.
LostOf(v) ==
  serving # "down" /\ vm[v].pc = "lost" =>
    /\ v \in BuildVms => vm[v].disk = "none"
    /\ "rules" \in vm[v].held => vm[v].slow

LostInv == \A v \in Vms : LostOf(v)

PlaceInv == Cardinality({v \in BuildVms : vm[v].pc \in Building}) <= MaxBuilds

IInv ==
  /\ TypeOK /\ DownInv /\ LostInv /\ PlaceInv
  /\ \A v \in EnvVms : EnvInv(vm[v])
  /\ \A v \in BuildVms : BuildInv(vm[v])

-----------------------------------------------------------------------------
(* Types. *)

\* TypeOK in the terms used here.
LEMMA TypeIsRecord ==
  TypeOK <=> /\ vm \in [Vms -> VmRecord] /\ \A v \in Vms : NamedInv(vm[v])
             /\ serving \in {"up", "down", "sweeping"} /\ ends \in 0 .. MaxEnds
BY DEF TypeOK, VmRecord, NamedInv, Labels, Disks, Procs

\* The labels and resources that are written somewhere.
LEMMA KnownLabels ==
  /\ Starting \cup Stopping \cup Over \cup {"up", "guest", "reap", "queued", "orphan", "tidied"}
       \subseteq Labels
  /\ \A s \in DOMAIN Makes : NextStep[s] \in Labels /\ OnError[s] \in Labels
  /\ \A s \in DOMAIN Removes : NextStep[s] \in Labels /\ OnError[s] \in Labels
  /\ \A s \in DOMAIN Makes : Makes[s] \subseteq Network
  /\ Network \subseteq Resources /\ {"cgroup", "socket", "log"} \subseteq Resources
<1>1. Starting \cup Stopping \cup Over \cup {"up", "guest", "reap", "queued", "orphan", "tidied"}
        \subseteq Labels
  BY DEF Labels
<1>2. DOMAIN Makes = {"tap", "plug", "guard"}
  BY DEF Makes
<1>3. DOMAIN Removes = {"tapUndoRules", "undoRules", "stopRules", "tapUndoLink",
                        "undoLink", "stopLink"}
  BY DEF Removes
<1>4. \A s \in DOMAIN Makes : NextStep[s] \in Labels /\ OnError[s] \in Labels
  BY <1>1, <1>2 DEF NextStep, OnError, Starting, Acquiring, Undoing
<1>5. \A s \in DOMAIN Removes : NextStep[s] \in Labels /\ OnError[s] \in Labels
  BY <1>1, <1>3 DEF NextStep, OnError, Starting, Undoing, Stopping, Over
<1>6. \A s \in DOMAIN Makes : Makes[s] \subseteq Network
  BY <1>2 DEF Makes, Network
<1>. QED BY <1>1, <1>4, <1>5, <1>6 DEF Resources

\* Overwriting its place keeps the type of a VM's record.
LEMMA SetPc ==
  ASSUME NEW r \in VmRecord, NEW p \in Labels
  PROVE  [r EXCEPT !.pc = p] \in VmRecord
BY DEF VmRecord

\* Overwriting its disk keeps the type of a VM's record.
LEMMA SetDisk ==
  ASSUME NEW r \in VmRecord, NEW d \in Disks
  PROVE  [r EXCEPT !.disk = d] \in VmRecord
BY DEF VmRecord

\* Overwriting its resources keeps the type of a VM's record.
LEMMA SetHeld ==
  ASSUME NEW r \in VmRecord, NEW h \in SUBSET Resources
  PROVE  [r EXCEPT !.held = h] \in VmRecord
BY DEF VmRecord

\* Overwriting its process keeps the type of a VM's record.
LEMMA SetProc ==
  ASSUME NEW r \in VmRecord, NEW x \in Procs
  PROVE  [r EXCEPT !.proc = x] \in VmRecord
BY DEF VmRecord

\* Overwriting its commands under way keeps the type of a VM's record.
LEMMA SetLate ==
  ASSUME NEW r \in VmRecord, NEW l \in SUBSET Network
  PROVE  [r EXCEPT !.late = l] \in VmRecord
BY DEF VmRecord

\* Overwriting its row keeps the type of a VM's record.
LEMMA SetNamed ==
  ASSUME NEW r \in VmRecord, NEW n \in BOOLEAN
  PROVE  [r EXCEPT !.named = n] \in VmRecord
BY DEF VmRecord

\* Overwriting its timeout mark keeps the type of a VM's record.
LEMMA SetSlow ==
  ASSUME NEW r \in VmRecord, NEW s \in BOOLEAN
  PROVE  [r EXCEPT !.slow = s] \in VmRecord
BY DEF VmRecord

\* Overwriting its refusal mark keeps the type of a VM's record.
LEMMA SetRefused ==
  ASSUME NEW r \in VmRecord, NEW f \in BOOLEAN
  PROVE  [r EXCEPT !.refused = f] \in VmRecord
BY DEF VmRecord

\* Overwriting its place and disk keeps the type of a VM's record.
LEMMA SetPcDisk ==
  ASSUME NEW r \in VmRecord, NEW p \in Labels, NEW d \in Disks
  PROVE  [r EXCEPT !.pc = p, !.disk = d] \in VmRecord
<1>1. [r EXCEPT !.pc = p] \in VmRecord
  BY SetPc
<1>. QED BY <1>1, SetDisk

\* Overwriting its place and resources keeps the type of a VM's record.
LEMMA SetPcHeld ==
  ASSUME NEW r \in VmRecord, NEW p \in Labels, NEW h \in SUBSET Resources
  PROVE  [r EXCEPT !.pc = p, !.held = h] \in VmRecord
<1>1. [r EXCEPT !.pc = p] \in VmRecord
  BY SetPc
<1>. QED BY <1>1, SetHeld

\* Overwriting its place and refusal mark keeps the type of a VM's record.
LEMMA SetPcRefused ==
  ASSUME NEW r \in VmRecord, NEW p \in Labels, NEW f \in BOOLEAN
  PROVE  [r EXCEPT !.pc = p, !.refused = f] \in VmRecord
<1>1. [r EXCEPT !.pc = p] \in VmRecord
  BY SetPc
<1>. QED BY <1>1, SetRefused

\* Overwriting its place, commands under way and timeout mark keeps the type of a VM's record.
LEMMA SetPcLateSlow ==
  ASSUME NEW r \in VmRecord, NEW p \in Labels, NEW l \in SUBSET Network,
         NEW s \in BOOLEAN
  PROVE  [r EXCEPT !.pc = p, !.late = l, !.slow = s] \in VmRecord
<1>1. [r EXCEPT !.pc = p] \in VmRecord
  BY SetPc
<1>2. [r EXCEPT !.pc = p, !.late = l] \in VmRecord
  BY <1>1, SetLate
<1>. QED BY <1>2, SetSlow

\* Overwriting its place, process and resources keeps the type of a VM's record.
LEMMA SetPcProcHeld ==
  ASSUME NEW r \in VmRecord, NEW p \in Labels, NEW x \in Procs,
         NEW h \in SUBSET Resources
  PROVE  [r EXCEPT !.pc = p, !.proc = x, !.held = h] \in VmRecord
<1>1. [r EXCEPT !.pc = p] \in VmRecord
  BY SetPc
<1>2. [r EXCEPT !.pc = p, !.proc = x] \in VmRecord
  BY <1>1, SetProc
<1>. QED BY <1>2, SetHeld

\* Overwriting its place, process, disk and resources keeps the type of a VM's record.
LEMMA SetPcProcDiskHeld ==
  ASSUME NEW r \in VmRecord, NEW p \in Labels, NEW x \in Procs, NEW d \in Disks,
         NEW h \in SUBSET Resources
  PROVE  [r EXCEPT !.pc = p, !.proc = x, !.disk = d, !.held = h] \in VmRecord
<1>1. [r EXCEPT !.pc = p] \in VmRecord
  BY SetPc
<1>2. [r EXCEPT !.pc = p, !.proc = x] \in VmRecord
  BY <1>1, SetProc
<1>3. [r EXCEPT !.pc = p, !.proc = x, !.disk = d] \in VmRecord
  BY <1>2, SetDisk
<1>. QED BY <1>3, SetHeld

\* Overwriting its place, resources and row keeps the type of a VM's record.
LEMMA SetPcHeldNamed ==
  ASSUME NEW r \in VmRecord, NEW p \in Labels, NEW h \in SUBSET Resources,
         NEW n \in BOOLEAN
  PROVE  [r EXCEPT !.pc = p, !.held = h, !.named = n] \in VmRecord
<1>1. [r EXCEPT !.pc = p] \in VmRecord
  BY SetPc
<1>2. [r EXCEPT !.pc = p, !.held = h] \in VmRecord
  BY <1>1, SetHeld
<1>. QED BY <1>2, SetNamed

\* Overwriting its place, resources and timeout mark keeps the type of a VM's record.
LEMMA SetPcHeldSlow ==
  ASSUME NEW r \in VmRecord, NEW p \in Labels, NEW h \in SUBSET Resources,
         NEW s \in BOOLEAN
  PROVE  [r EXCEPT !.pc = p, !.held = h, !.slow = s] \in VmRecord
<1>1. [r EXCEPT !.pc = p] \in VmRecord
  BY SetPc
<1>2. [r EXCEPT !.pc = p, !.held = h] \in VmRecord
  BY <1>1, SetHeld
<1>. QED BY <1>2, SetSlow

\* Overwriting its place and process keeps the type of a VM's record.
LEMMA SetPcProc ==
  ASSUME NEW r \in VmRecord, NEW p \in Labels, NEW x \in Procs
  PROVE  [r EXCEPT !.pc = p, !.proc = x] \in VmRecord
<1>1. [r EXCEPT !.pc = p] \in VmRecord
  BY SetPc
<1>. QED BY <1>1, SetProc

\* Overwriting its place, disk and resources keeps the type of a VM's record.
LEMMA SetPcDiskHeld ==
  ASSUME NEW r \in VmRecord, NEW p \in Labels, NEW d \in Disks,
         NEW h \in SUBSET Resources
  PROVE  [r EXCEPT !.pc = p, !.disk = d, !.held = h] \in VmRecord
<1>1. [r EXCEPT !.pc = p] \in VmRecord
  BY SetPc
<1>2. [r EXCEPT !.pc = p, !.disk = d] \in VmRecord
  BY <1>1, SetDisk
<1>. QED BY <1>2, SetHeld

\* Overwriting its commands under way and resources keeps the type of a VM's record.
LEMMA SetLateHeld ==
  ASSUME NEW r \in VmRecord, NEW l \in SUBSET Network, NEW h \in SUBSET Resources
  PROVE  [r EXCEPT !.late = l, !.held = h] \in VmRecord
<1>1. [r EXCEPT !.late = l] \in VmRecord
  BY SetLate
<1>. QED BY <1>1, SetHeld

\* A process that is reaped, terminated or left alone is in a known state.
LEMMA KnownProcs ==
  ASSUME NEW v \in Vms, vm[v] \in VmRecord
  PROVE  Reaped(v) \in Procs /\ Terminated(v) \subseteq Procs
<1>1. vm[v].proc \in Procs
  BY DEF VmRecord
<1>. QED BY <1>1 DEF Reaped, Terminated, Procs

\* A VM's own steps keep the types of its fields.
LEMMA OwnType ==
  ASSUME NEW v \in Vms, vm \in [Vms -> VmRecord], Step(v) \/ Request(v) \/ Host(v)
  PROVE  vm'[v] \in VmRecord
<1>. DEFINE r == vm[v]
<1>1. /\ vm[v] \in VmRecord /\ vm[v].pc \in Labels /\ vm[v].disk \in Disks
      /\ vm[v].held \in SUBSET Resources /\ vm[v].late \in SUBSET Network
      /\ vm[v].named \in BOOLEAN /\ vm[v].slow \in BOOLEAN
  BY DEF VmRecord
<1>2. {"none", "partial", "whole", "torn"} \subseteq Disks /\ {"running", "gone"} \subseteq Procs
  BY DEF Disks, Procs
<1>3. {"copy", "inject", "recopy", "tap", "guard", "cgroup", "exec", "boot", "undo",
       "undoRules", "failed", "unprepared", "ended", "free", "stopRules", "halt"} \subseteq Labels
  BY DEF Labels, Starting, Acquiring, Copying, Undoing, Stopping, Over
<1>4. ASSUME BeginCopy(v) PROVE vm'[v] \in VmRecord
  <2>1. SUFFICES [r EXCEPT !.pc = "copy", !.disk = "partial"] \in VmRecord
    BY <1>4 DEF BeginCopy
  <2>2. "copy" \in Labels /\ "partial" \in Disks
    BY <1>1, <1>2, <1>3, KnownLabels, KnownProcs
  <2>. QED BY <1>1, <2>2, SetPcDisk
<1>5. ASSUME CopyDone(v) PROVE vm'[v] \in VmRecord
  <2>1. SUFFICES [r EXCEPT !.pc = IF v \in EnvVms THEN "inject" ELSE "cgroup",
                           !.disk = "whole"] \in VmRecord
    BY <1>5 DEF CopyDone
  <2>2. (IF v \in EnvVms THEN "inject" ELSE "cgroup") \in Labels /\ "whole" \in Disks
    BY <1>1, <1>2, <1>3, KnownLabels, KnownProcs
  <2>. QED BY <1>1, <2>2, SetPcDisk
<1>6. ASSUME CopyFails(v) PROVE vm'[v] \in VmRecord
  <2>1. SUFFICES [r EXCEPT !.pc = IF v \in EnvVms THEN "failed" ELSE "unprepared",
                           !.disk = IF v \in EnvVms THEN "none" ELSE r.disk] \in VmRecord
    BY <1>6 DEF CopyFails
  <2>2. /\ (IF v \in EnvVms THEN "failed" ELSE "unprepared") \in Labels
        /\ (IF v \in EnvVms THEN "none" ELSE r.disk) \in Disks
    BY <1>1, <1>2, <1>3, KnownLabels, KnownProcs
  <2>. QED BY <1>1, <2>2, SetPcDisk
<1>7. ASSUME Inject(v) PROVE vm'[v] \in VmRecord
  <2>1. SUFFICES [r EXCEPT !.pc = "tap"] \in VmRecord
    BY <1>7 DEF Inject
  <2>2. "tap" \in Labels
    BY <1>1, <1>2, <1>3, KnownLabels, KnownProcs
  <2>. QED BY <1>1, <2>2, SetPc
<1>8. ASSUME InjectFails(v) PROVE vm'[v] \in VmRecord
  <2>1. SUFFICES [r EXCEPT !.pc = "recopy", !.disk = "torn"] \in VmRecord
    BY <1>8 DEF InjectFails
  <2>2. "recopy" \in Labels /\ "torn" \in Disks
    BY <1>1, <1>2, <1>3, KnownLabels, KnownProcs
  <2>. QED BY <1>1, <2>2, SetPcDisk
<1>9. ASSUME Recopy(v) PROVE vm'[v] \in VmRecord
  <2>1. SUFFICES [r EXCEPT !.pc = "tap", !.disk = "whole"] \in VmRecord
    BY <1>9 DEF Recopy
  <2>2. "tap" \in Labels /\ "whole" \in Disks
    BY <1>1, <1>2, <1>3, KnownLabels, KnownProcs
  <2>. QED BY <1>1, <2>2, SetPcDisk
<1>10. ASSUME Configure(v) PROVE vm'[v] \in VmRecord
  <2>1. SUFFICES ASSUME NEW s \in DOMAIN Makes
                PROVE  [r EXCEPT !.pc = NextStep[s], !.held = r.held \cup Makes[s]] \in VmRecord
    BY <1>10 DEF Configure
  <2>2. NextStep[s] \in Labels /\ (r.held \cup Makes[s]) \in SUBSET Resources
    BY <1>1, <1>2, <1>3, KnownLabels, KnownProcs
  <2>. QED BY <1>1, <2>2, SetPcHeld
<1>11. ASSUME ConfigureFails(v) PROVE vm'[v] \in VmRecord
  <2>1. SUFFICES ASSUME NEW s \in DOMAIN Makes
                PROVE  [r EXCEPT !.pc = OnError[s]] \in VmRecord
    BY <1>11 DEF ConfigureFails, Makes
  <2>2. OnError[s] \in Labels
    BY <1>1, <1>2, <1>3, KnownLabels, KnownProcs
  <2>. QED BY <1>1, <2>2, SetPc
<1>12. ASSUME RulesRefused(v) PROVE vm'[v] \in VmRecord
  <2>1. SUFFICES [r EXCEPT !.pc = NextStep["guard"], !.refused = TRUE] \in VmRecord
    BY <1>12 DEF RulesRefused
  <2>2. NextStep["guard"] \in Labels
    BY <1>1, <1>2, <1>3, KnownLabels, KnownProcs DEF Makes
  <2>. QED BY <1>1, <2>2, SetPcRefused
<1>13. ASSUME ConfigureTimesOut(v) PROVE vm'[v] \in VmRecord
  <2>1. SUFFICES ASSUME NEW s \in DOMAIN Makes
                PROVE  [r EXCEPT !.pc = OnError[s],
                                 !.late = r.late \cup Makes[s],
                                 !.slow = r.slow \/ Makes[s] # {}] \in VmRecord
    BY <1>13 DEF ConfigureTimesOut
  <2>2. /\ OnError[s] \in Labels
        /\ (r.late \cup Makes[s]) \in SUBSET Network
        /\ (r.slow \/ Makes[s] # {}) \in BOOLEAN
    BY <1>1, <1>2, <1>3, KnownLabels, KnownProcs
  <2>. QED BY <1>1, <2>2, SetPcLateSlow
<1>14. ASSUME Contain(v) PROVE vm'[v] \in VmRecord
  <2>1. SUFFICES [r EXCEPT !.pc = "exec", !.held = r.held \cup {"cgroup"}] \in VmRecord
    BY <1>14 DEF Contain
  <2>2. "exec" \in Labels /\ (r.held \cup {"cgroup"}) \in SUBSET Resources
    BY <1>1, <1>2, <1>3, KnownLabels, KnownProcs
  <2>. QED BY <1>1, <2>2, SetPcHeld
<1>15. ASSUME Launch(v) PROVE vm'[v] \in VmRecord
  <2>1. SUFFICES [r EXCEPT !.pc = "boot",
                           !.proc = "running",
                           !.held = r.held \cup IF v \in EnvVms THEN {"socket", "log"} ELSE {}] \in VmRecord
    BY <1>15 DEF Launch
  <2>2. /\ "boot" \in Labels
        /\ "running" \in Procs
        /\ (r.held \cup IF v \in EnvVms THEN {"socket", "log"} ELSE {}) \in SUBSET Resources
    BY <1>1, <1>2, <1>3, KnownLabels, KnownProcs
  <2>. QED BY <1>1, <2>2, SetPcProcHeld
<1>16. ASSUME Boot(v) PROVE vm'[v] \in VmRecord
  <2>1. SUFFICES [r EXCEPT !.pc = IF v \in EnvVms THEN "up" ELSE "guest"] \in VmRecord
    BY <1>16 DEF Boot
  <2>2. (IF v \in EnvVms THEN "up" ELSE "guest") \in Labels
    BY <1>1, <1>2, <1>3, KnownLabels, KnownProcs
  <2>. QED BY <1>1, <2>2, SetPc
<1>17. ASSUME BootFails(v) PROVE vm'[v] \in VmRecord
  <2>1. SUFFICES [r EXCEPT !.pc = IF v \in EnvVms THEN "undo" ELSE "reap"] \in VmRecord
    BY <1>17 DEF BootFails
  <2>2. (IF v \in EnvVms THEN "undo" ELSE "reap") \in Labels
    BY <1>1, <1>2, <1>3, KnownLabels, KnownProcs
  <2>. QED BY <1>1, <2>2, SetPc
<1>18. ASSUME Undo(v) PROVE vm'[v] \in VmRecord
  <2>1. SUFFICES [r EXCEPT !.pc = IF r.pc = "undo" THEN "undoRules" ELSE "failed",
                           !.proc = Reaped(v),
                           !.disk = "none",
                           !.held = r.held \ {"cgroup", "socket"}] \in VmRecord
    BY <1>18 DEF Undo
  <2>2. /\ (IF r.pc = "undo" THEN "undoRules" ELSE "failed") \in Labels
        /\ Reaped(v) \in Procs
        /\ "none" \in Disks
        /\ (r.held \ {"cgroup", "socket"}) \in SUBSET Resources
    BY <1>1, <1>2, <1>3, KnownLabels, KnownProcs
  <2>. QED BY <1>1, <2>2, SetPcProcDiskHeld
<1>19. ASSUME Remove(v) PROVE vm'[v] \in VmRecord
  <2>1. SUFFICES ASSUME NEW s \in DOMAIN Removes
                PROVE  [r EXCEPT !.pc = NextStep[s],
                                 !.held = r.held \ Removes[s],
                                 !.named = r.named /\ s # "stopLink"] \in VmRecord
    BY <1>19 DEF Remove
  <2>2. /\ NextStep[s] \in Labels
        /\ (r.held \ Removes[s]) \in SUBSET Resources
        /\ (r.named /\ s # "stopLink") \in BOOLEAN
    BY <1>1, <1>2, <1>3, KnownLabels, KnownProcs
  <2>. QED BY <1>1, <2>2, SetPcHeldNamed
<1>20. ASSUME RemoveTimesOut(v) PROVE vm'[v] \in VmRecord
  <2>1. SUFFICES ASSUME NEW s \in DOMAIN Removes, NEW done \in BOOLEAN
                PROVE  [r EXCEPT !.pc = OnError[s],
                                 !.held = IF done THEN r.held \ Removes[s] ELSE r.held,
                                 !.slow = r.slow \/ s \notin Stopping] \in VmRecord
    BY <1>20 DEF RemoveTimesOut
  <2>2. /\ OnError[s] \in Labels
        /\ (IF done THEN r.held \ Removes[s] ELSE r.held) \in SUBSET Resources
        /\ (r.slow \/ s \notin Stopping) \in BOOLEAN
    BY <1>1, <1>2, <1>3, KnownLabels, KnownProcs
  <2>. QED BY <1>1, <2>2, SetPcHeldSlow
<1>21. ASSUME Terminate(v) PROVE vm'[v] \in VmRecord
  <2>1. SUFFICES ASSUME NEW process \in Terminated(v)
                PROVE  [r EXCEPT !.pc = "free", !.proc = process] \in VmRecord
    BY <1>21 DEF Terminate
  <2>2. "free" \in Labels /\ process \in Procs
    BY <1>1, <1>2, <1>3, KnownLabels, KnownProcs
  <2>. QED BY <1>1, <2>2, SetPcProc
<1>22. ASSUME Free(v) PROVE vm'[v] \in VmRecord
  <2>1. SUFFICES [r EXCEPT !.pc = "stopRules",
                           !.disk = "none",
                           !.held = r.held \ ({"socket", "log", "cgroup"} \ Leftover(r.proc))] \in VmRecord
    BY <1>22 DEF Free
  <2>2. /\ "stopRules" \in Labels
        /\ "none" \in Disks
        /\ (r.held \ ({"socket", "log", "cgroup"} \ Leftover(r.proc))) \in SUBSET Resources
    BY <1>1, <1>2, <1>3, KnownLabels, KnownProcs
  <2>. QED BY <1>1, <2>2, SetPcDiskHeld
<1>23. ASSUME BuildEnds(v) PROVE vm'[v] \in VmRecord
  <2>1. SUFFICES [r EXCEPT !.pc = "reap"] \in VmRecord
    BY <1>23 DEF BuildEnds
  <2>2. "reap" \in Labels
    BY <1>1, <1>2, <1>3, KnownLabels, KnownProcs
  <2>. QED BY <1>1, <2>2, SetPc
<1>24. ASSUME Reap(v) PROVE vm'[v] \in VmRecord
  <2>1. SUFFICES [r EXCEPT !.pc = "ended",
                           !.proc = Reaped(v),
                           !.disk = "none",
                           !.held = r.held \ {"cgroup"}] \in VmRecord
    BY <1>24 DEF Reap, BuildOver
  <2>2. /\ "ended" \in Labels
        /\ Reaped(v) \in Procs
        /\ "none" \in Disks
        /\ (r.held \ {"cgroup"}) \in SUBSET Resources
    BY <1>1, <1>2, <1>3, KnownLabels, KnownProcs
  <2>. QED BY <1>1, <2>2, SetPcProcDiskHeld
<1>25. ASSUME RequestBuild(v) PROVE vm'[v] \in VmRecord
  <2>1. SUFFICES [r EXCEPT !.pc = "queued"] \in VmRecord
    BY <1>25 DEF RequestBuild
  <2>2. "queued" \in Labels
    BY <1>1, <1>2, <1>3, KnownLabels, KnownProcs
  <2>. QED BY <1>1, <2>2, SetPc
<1>26. ASSUME Record(v) PROVE vm'[v] \in VmRecord
  <2>1. SUFFICES [r EXCEPT !.named = TRUE] \in VmRecord
    BY <1>26 DEF Record
  <2>. QED BY <1>1, SetNamed
<1>27. ASSUME Halt(v) PROVE vm'[v] \in VmRecord
  <2>1. SUFFICES [r EXCEPT !.pc = "halt"] \in VmRecord
    BY <1>27 DEF Halt
  <2>2. "halt" \in Labels
    BY <1>1, <1>2, <1>3, KnownLabels, KnownProcs
  <2>. QED BY <1>1, <2>2, SetPc
<1>28. ASSUME TakesEffect(v) PROVE vm'[v] \in VmRecord
  <2>1. SUFFICES ASSUME NEW c \in r.late
                PROVE  [r EXCEPT !.late = r.late \ {c}, !.held = r.held \cup {c}] \in VmRecord
    BY <1>28 DEF TakesEffect
  <2>2. (r.late \ {c}) \in SUBSET Network /\ (r.held \cup {c}) \in SUBSET Resources
    BY <1>1, <1>2, <1>3, KnownLabels, KnownProcs
  <2>. QED BY <1>1, <2>2, SetLateHeld
<1>29. ASSUME ProcessEnds(v) PROVE vm'[v] \in VmRecord
  <2>1. SUFFICES [r EXCEPT !.proc = "gone"] \in VmRecord
    BY <1>29 DEF ProcessEnds
  <2>2. "gone" \in Procs
    BY <1>1, <1>2, <1>3, KnownLabels, KnownProcs
  <2>. QED BY <1>1, <2>2, SetProc
<1>. QED BY <1>4, <1>5, <1>6, <1>7, <1>8, <1>9, <1>10, <1>11, <1>12, <1>13, <1>14,
           <1>15, <1>16, <1>17, <1>18, <1>19, <1>20, <1>21, <1>22, <1>23, <1>24,
           <1>25, <1>26, <1>27, <1>28, <1>29
           DEF Step, Request, Host

\* A VM's own steps leave the other VMs and the orchestrator alone.
LEMMA OwnStep ==
  ASSUME NEW v \in Vms, vm \in [Vms -> VmRecord], Step(v) \/ Request(v) \/ Host(v)
  PROVE  vm' = [vm EXCEPT ![v] = vm'[v]] /\ UNCHANGED <<serving, ends>>
<1>. DEFINE Goal == vm' = [vm EXCEPT ![v] = vm'[v]] /\ UNCHANGED <<serving, ends>>
<1>. USE DEF orchestrator
<1>1. ASSUME BeginCopy(v) PROVE Goal
  BY <1>1 DEF BeginCopy
<1>2. ASSUME CopyDone(v) PROVE Goal
  BY <1>2 DEF CopyDone
<1>3. ASSUME CopyFails(v) PROVE Goal
  BY <1>3 DEF CopyFails
<1>4. ASSUME Inject(v) PROVE Goal
  BY <1>4 DEF Inject
<1>5. ASSUME InjectFails(v) PROVE Goal
  BY <1>5 DEF InjectFails
<1>6. ASSUME Recopy(v) PROVE Goal
  BY <1>6 DEF Recopy
<1>7. ASSUME Configure(v) PROVE Goal
  BY <1>7 DEF Configure
<1>8. ASSUME ConfigureFails(v) PROVE Goal
  BY <1>8 DEF ConfigureFails
<1>9. ASSUME RulesRefused(v) PROVE Goal
  BY <1>9 DEF RulesRefused
<1>10. ASSUME ConfigureTimesOut(v) PROVE Goal
  BY <1>10 DEF ConfigureTimesOut
<1>11. ASSUME Contain(v) PROVE Goal
  BY <1>11 DEF Contain
<1>12. ASSUME Launch(v) PROVE Goal
  BY <1>12 DEF Launch
<1>13. ASSUME Boot(v) PROVE Goal
  BY <1>13 DEF Boot
<1>14. ASSUME BootFails(v) PROVE Goal
  BY <1>14 DEF BootFails
<1>15. ASSUME Undo(v) PROVE Goal
  BY <1>15 DEF Undo
<1>16. ASSUME Remove(v) PROVE Goal
  BY <1>16 DEF Remove
<1>17. ASSUME RemoveTimesOut(v) PROVE Goal
  BY <1>17 DEF RemoveTimesOut
<1>18. ASSUME Terminate(v) PROVE Goal
  BY <1>18 DEF Terminate
<1>19. ASSUME Free(v) PROVE Goal
  BY <1>19 DEF Free
<1>20. ASSUME BuildEnds(v) PROVE Goal
  BY <1>20 DEF BuildEnds
<1>21. ASSUME Reap(v) PROVE Goal
  BY <1>21 DEF Reap
<1>22. ASSUME RequestBuild(v) PROVE Goal
  BY <1>22 DEF RequestBuild
<1>23. ASSUME Record(v) PROVE Goal
  BY <1>23 DEF Record
<1>24. ASSUME Halt(v) PROVE Goal
  BY <1>24 DEF Halt
<1>25. ASSUME TakesEffect(v) PROVE Goal
  BY <1>25 DEF TakesEffect
<1>26. ASSUME ProcessEnds(v) PROVE Goal
  BY <1>26 DEF ProcessEnds
<1>. HIDE DEF Goal
<1>. QED BY <1>1, <1>2, <1>3, <1>4, <1>5, <1>6, <1>7, <1>8, <1>9, <1>10, <1>11, <1>12,
           <1>13, <1>14, <1>15, <1>16, <1>17, <1>18, <1>19, <1>20, <1>21, <1>22,
           <1>23, <1>24, <1>25, <1>26
           DEF Step, Request, Host, Goal

-----------------------------------------------------------------------------
(* What the steps that touch every VM make of each. *)

Same(r, s) ==
  /\ s.disk = r.disk /\ s.held = r.held /\ s.named = r.named
  /\ s.slow = r.slow /\ s.refused = r.refused

\* A VM that is abandoned changes its place and nothing else.
LEMMA AbandonedIs ==
  ASSUME NEW r \in VmRecord
  PROVE  /\ Abandoned(r) \in VmRecord
         /\ Abandoned(r).pc = IF r.pc \in Over \cup {"new"} THEN r.pc
                              ELSE IF r.named THEN "orphan" ELSE "lost"
         /\ Same(r, Abandoned(r)) /\ Abandoned(r).proc = r.proc /\ Abandoned(r).late = r.late
<1>. DEFINE p == IF r.pc \in Over \cup {"new"} THEN r.pc ELSE IF r.named THEN "orphan" ELSE "lost"
<1>1. p \in Labels
  BY DEF VmRecord, Labels, Over
<1>2. Abandoned(r) = [r EXCEPT !.pc = p]
  BY DEF Abandoned
<1>. HIDE DEF p
<1>3. Abandoned(r) \in VmRecord
  BY <1>1, <1>2, SetPc
<1>4. Abandoned(r).pc = p
  BY <1>2 DEF VmRecord
<1>5. Same(r, Abandoned(r)) /\ Abandoned(r).proc = r.proc /\ Abandoned(r).late = r.late
  BY <1>2 DEF VmRecord, Same
<1>. QED BY <1>3, <1>4, <1>5 DEF p

\* With the container every process and command ends.
LEMMA CrashIs ==
  ASSUME vm \in [Vms -> VmRecord], Crash, NEW v \in Vms
  PROVE  /\ vm'[v] \in VmRecord /\ vm'[v].pc = Abandoned(vm[v]).pc
         /\ Same(vm[v], vm'[v]) /\ vm'[v].proc = Reaped(v) /\ vm'[v].late = {}
<1>. DEFINE a == Abandoned(vm[v])
<1>1. vm'[v] = [a EXCEPT !.proc = Reaped(v), !.late = {}]
  BY DEF Crash
<1>2. a \in VmRecord /\ Same(vm[v], a)
  BY AbandonedIs
<1>3. Reaped(v) \in Procs /\ {} \in SUBSET Network
  BY KnownProcs
<1>. HIDE DEF a
<1>4. [a EXCEPT !.proc = Reaped(v)] \in VmRecord
  BY <1>2, <1>3, SetProc
<1>5. [a EXCEPT !.proc = Reaped(v), !.late = {}] \in VmRecord
  BY <1>3, <1>4, SetLate
<1>6. vm'[v].pc = a.pc /\ Same(a, vm'[v]) /\ vm'[v].proc = Reaped(v) /\ vm'[v].late = {}
  BY <1>1, <1>2 DEF VmRecord, Same
<1>. QED BY <1>1, <1>2, <1>5, <1>6 DEF a, Same

\* What run_build_vm's finally leaves of a build.
LEMMA BuildOverIs ==
  ASSUME NEW v \in Vms, vm[v] \in VmRecord
  PROVE  /\ BuildOver(v) \in VmRecord /\ BuildOver(v).pc = "ended" /\ BuildOver(v).disk = "none"
         /\ BuildOver(v).held = vm[v].held \ {"cgroup"} /\ BuildOver(v).proc = Reaped(v)
         /\ BuildOver(v).late = vm[v].late /\ BuildOver(v).named = vm[v].named
         /\ BuildOver(v).slow = vm[v].slow
<1>. DEFINE r == vm[v]
<1>1. BuildOver(v) = [r EXCEPT !.pc = "ended", !.proc = Reaped(v), !.disk = "none",
                               !.held = r.held \ {"cgroup"}]
  BY DEF BuildOver
<1>2. /\ "ended" \in Labels /\ Reaped(v) \in Procs /\ "none" \in Disks
      /\ r.held \ {"cgroup"} \in SUBSET Resources
  BY KnownProcs DEF VmRecord, Labels, Over, Disks
<1>3. r \in VmRecord
  OBVIOUS
<1>. HIDE DEF r
<1>4. [r EXCEPT !.pc = "ended"] \in VmRecord
  BY <1>2, <1>3, SetPc
<1>5. [r EXCEPT !.pc = "ended", !.proc = Reaped(v)] \in VmRecord
  BY <1>2, <1>4, SetProc
<1>6. [r EXCEPT !.pc = "ended", !.proc = Reaped(v), !.disk = "none"] \in VmRecord
  BY <1>2, <1>5, SetDisk
<1>7. BuildOver(v) \in VmRecord
  BY <1>1, <1>2, <1>6, SetHeld
<1>8. /\ BuildOver(v).pc = "ended" /\ BuildOver(v).disk = "none"
      /\ BuildOver(v).held = r.held \ {"cgroup"} /\ BuildOver(v).proc = Reaped(v)
      /\ BuildOver(v).late = r.late /\ BuildOver(v).named = r.named /\ BuildOver(v).slow = r.slow
  BY <1>1, <1>3 DEF VmRecord
<1>. QED BY <1>7, <1>8 DEF r

\* An end in good order cancels the builds and leaves the rest.
LEMMA ReloadIs ==
  ASSUME vm \in [Vms -> VmRecord], Reload, NEW v \in Vms
  PROVE  \/ /\ v \notin BuildVms \/ vm[v].pc \notin Building
            /\ vm'[v] = Abandoned(vm[v])
         \/ /\ v \in BuildVms /\ vm[v].pc = "copy" /\ vm'[v] \in VmRecord
            /\ vm'[v].pc = "unprepared" /\ Same(vm[v], vm'[v])
            /\ vm'[v].proc = vm[v].proc /\ vm'[v].late = vm[v].late
         \/ v \in BuildVms /\ vm[v].pc \in Building /\ vm'[v] = BuildOver(v)
<1>1. CASE v \notin BuildVms \/ vm[v].pc \notin Building
  BY <1>1 DEF Reload
<1>2. CASE v \in BuildVms /\ vm[v].pc \in Building /\ vm[v].pc = "copy"
  <2>1. vm'[v] = [vm[v] EXCEPT !.pc = "unprepared"]
    BY <1>2 DEF Reload
  <2>2. vm[v] \in VmRecord /\ "unprepared" \in Labels
    BY DEF Labels, Over
  <2>3. vm'[v] \in VmRecord
    BY <2>1, <2>2, SetPc
  <2>4. /\ vm'[v].pc = "unprepared" /\ Same(vm[v], vm'[v])
        /\ vm'[v].proc = vm[v].proc /\ vm'[v].late = vm[v].late
    BY <2>1, <2>2 DEF VmRecord, Same
  <2>. QED BY <1>2, <2>3, <2>4
<1>3. CASE v \in BuildVms /\ vm[v].pc \in Building /\ vm[v].pc # "copy"
  BY <1>3 DEF Reload
<1>. QED BY <1>1, <1>2, <1>3

\* The sweep by place takes rules, cgroups without a process, and work directories.
LEMMA BeginSweepIs ==
  ASSUME vm \in [Vms -> VmRecord], BeginSweep, NEW v \in Vms
  PROVE  /\ vm'[v] \in VmRecord /\ vm'[v].pc = vm[v].pc /\ vm'[v].proc = vm[v].proc
         /\ vm'[v].held = vm[v].held \ ({"rules"} \cup IF Alive(v) THEN {} ELSE {"cgroup"})
         /\ vm'[v].disk = IF v \in BuildVms THEN "none" ELSE vm[v].disk
         /\ vm'[v].late = vm[v].late /\ vm'[v].named = vm[v].named
         /\ vm'[v].slow = vm[v].slow /\ vm'[v].refused = vm[v].refused
<1>. DEFINE r == vm[v]
            h == r.held \ ({"rules"} \cup IF Alive(v) THEN {} ELSE {"cgroup"})
            d == IF v \in BuildVms THEN "none" ELSE r.disk
<1>1. vm'[v] = [r EXCEPT !.held = h, !.disk = d]
  BY DEF BeginSweep
<1>2. r \in VmRecord /\ h \in SUBSET Resources /\ d \in Disks
  BY DEF VmRecord, Disks
<1>. HIDE DEF r, h, d
<1>3. [r EXCEPT !.held = h] \in VmRecord
  BY <1>2, SetHeld
<1>4. [r EXCEPT !.held = h, !.disk = d] \in VmRecord
  BY <1>2, <1>3, SetDisk
<1>5. /\ vm'[v].pc = r.pc /\ vm'[v].proc = r.proc /\ vm'[v].held = h /\ vm'[v].disk = d
      /\ vm'[v].late = r.late /\ vm'[v].named = r.named
      /\ vm'[v].slow = r.slow /\ vm'[v].refused = r.refused
  BY <1>1, <1>2 DEF VmRecord
<1>. QED BY <1>1, <1>4, <1>5 DEF r, h, d

\* At the end of a sweep the rows of what it tidied are stopped.
LEMMA EndSweepIs ==
  ASSUME vm \in [Vms -> VmRecord], EndSweep, NEW v \in Vms
  PROVE  \/ vm[v].pc # "tidied" /\ vm'[v] = vm[v]
         \/ /\ vm[v].pc = "tidied" /\ vm'[v] \in VmRecord /\ vm'[v].pc = "swept"
            /\ vm'[v].disk = vm[v].disk /\ vm'[v].held = vm[v].held /\ vm'[v].proc = vm[v].proc
            /\ vm'[v].late = vm[v].late /\ ~vm'[v].named /\ vm'[v].slow = vm[v].slow
            /\ vm'[v].refused = vm[v].refused
<1>1. CASE vm[v].pc # "tidied"
  BY <1>1 DEF EndSweep
<1>2. CASE vm[v].pc = "tidied"
  <2>1. vm'[v] = [vm[v] EXCEPT !.pc = "swept", !.named = FALSE]
    BY <1>2 DEF EndSweep
  <2>2. vm[v] \in VmRecord /\ "swept" \in Labels
    BY DEF Labels, Over
  <2>3. [vm[v] EXCEPT !.pc = "swept"] \in VmRecord
    BY <2>2, SetPc
  <2>4. [vm[v] EXCEPT !.pc = "swept", !.named = FALSE] \in VmRecord
    BY <2>3, SetNamed
  <2>5. /\ vm'[v].pc = "swept" /\ vm'[v].disk = vm[v].disk /\ vm'[v].held = vm[v].held
        /\ vm'[v].proc = vm[v].proc /\ vm'[v].late = vm[v].late /\ ~vm'[v].named
        /\ vm'[v].slow = vm[v].slow /\ vm'[v].refused = vm[v].refused
    BY <2>1, <2>2 DEF VmRecord
  <2>. QED BY <1>2, <2>1, <2>4, <2>5
<1>. QED BY <1>1, <1>2

\* Both ways the sweep of a VM ends.
SweptUpTo(v, pc, left) ==
  \E process \in Terminated(v) :
    /\ vm'[v] \in VmRecord /\ vm'[v].pc = pc /\ vm'[v].proc = process
    /\ vm'[v].disk = "none" /\ vm'[v].held = vm[v].held \cap (left \cup Leftover(process))
    /\ vm'[v].late = vm[v].late /\ vm'[v].named = vm[v].named
    /\ vm'[v].slow = vm[v].slow /\ vm'[v].refused = vm[v].refused

\* The sweep of one VM.
LEMMA SweepIs ==
  ASSUME vm \in [Vms -> VmRecord], NEW w \in Vms, Sweep(w), NEW v \in Vms
  PROVE  /\ v # w => vm'[v] = vm[v]
         /\ v = w => SweptUpTo(v, "tidied", {})
<1>1. CASE v # w
  BY <1>1 DEF Sweep
<1>2. CASE v = w
  <2>1. PICK process \in Terminated(v) :
          vm'[v] = [vm[v] EXCEPT !.pc = "tidied", !.proc = process, !.disk = "none",
                                 !.held = vm[v].held \cap Leftover(process)]
    BY <1>2 DEF Sweep
  <2>. DEFINE r == vm[v]
              h == r.held \cap Leftover(process)
  <2>2. /\ r \in VmRecord /\ "tidied" \in Labels /\ process \in Procs /\ "none" \in Disks
        /\ h \in SUBSET Resources
    BY KnownProcs DEF VmRecord, Labels, Disks
  <2>3. vm'[v] = [r EXCEPT !.pc = "tidied", !.proc = process, !.disk = "none", !.held = h]
    BY <2>1
  <2>4. h = r.held \cap ({} \cup Leftover(process))
    OBVIOUS
  <2>. HIDE DEF r, h
  <2>5. [r EXCEPT !.pc = "tidied"] \in VmRecord
    BY <2>2, SetPc
  <2>6. [r EXCEPT !.pc = "tidied", !.proc = process] \in VmRecord
    BY <2>2, <2>5, SetProc
  <2>7. [r EXCEPT !.pc = "tidied", !.proc = process, !.disk = "none"] \in VmRecord
    BY <2>2, <2>6, SetDisk
  <2>8. vm'[v] \in VmRecord
    BY <2>2, <2>3, <2>7, SetHeld
  <2>9. /\ vm'[v].pc = "tidied" /\ vm'[v].proc = process /\ vm'[v].disk = "none"
        /\ vm'[v].held = h /\ vm'[v].late = r.late /\ vm'[v].named = r.named
        /\ vm'[v].slow = r.slow /\ vm'[v].refused = r.refused
    BY <2>2, <2>3 DEF VmRecord
  <2>. QED BY <1>2, <2>4, <2>8, <2>9 DEF r, SweptUpTo
<1>. QED BY <1>1, <1>2

\* A sweep that is given up abandons the other VMs.
LEMMA SweepTimesOutIs ==
  ASSUME vm \in [Vms -> VmRecord], NEW w \in Vms, SweepTimesOut(w), NEW v \in Vms
  PROVE  /\ v # w => vm'[v] = Abandoned(vm[v])
         /\ v = w => vm[v].pc = "orphan" /\ SweptUpTo(v, "orphan", {"tap"})
<1>1. CASE v # w
  BY <1>1 DEF SweepTimesOut
<1>2. CASE v = w
  <2>1. PICK process \in Terminated(v) :
          vm'[v] = [vm[v] EXCEPT !.proc = process, !.disk = "none",
                                 !.held = vm[v].held \cap ({"tap"} \cup Leftover(process))]
    BY <1>2 DEF SweepTimesOut
  <2>. DEFINE r == vm[v]
              h == r.held \cap ({"tap"} \cup Leftover(process))
  <2>2. /\ r \in VmRecord /\ process \in Procs /\ "none" \in Disks /\ h \in SUBSET Resources
    BY KnownProcs DEF VmRecord, Disks
  <2>3. vm'[v] = [r EXCEPT !.proc = process, !.disk = "none", !.held = h]
    BY <2>1
  <2>4. h = r.held \cap ({"tap"} \cup Leftover(process)) /\ r.pc = "orphan"
    BY <1>2 DEF SweepTimesOut
  <2>. HIDE DEF r, h
  <2>6. [r EXCEPT !.proc = process] \in VmRecord
    BY <2>2, SetProc
  <2>7. [r EXCEPT !.proc = process, !.disk = "none"] \in VmRecord
    BY <2>2, <2>6, SetDisk
  <2>8. vm'[v] \in VmRecord
    BY <2>2, <2>3, <2>7, SetHeld
  <2>9. /\ vm'[v].pc = r.pc /\ vm'[v].proc = process /\ vm'[v].disk = "none"
        /\ vm'[v].held = h /\ vm'[v].late = r.late /\ vm'[v].named = r.named
        /\ vm'[v].slow = r.slow /\ vm'[v].refused = r.refused
    BY <2>2, <2>3 DEF VmRecord
  <2>. QED BY <1>2, <2>4, <2>8, <2>9 DEF r, SweptUpTo
<1>. QED BY <1>1, <1>2

(* So one of the following holds of each VM when such a step is taken. *)

\* Left to itself by the end of the orchestrator; its process may have ended with it.
LetGo(v) ==
  /\ serving' = "down" /\ Same(vm[v], vm'[v])
  /\ vm'[v].pc = IF vm[v].pc \in Over \cup {"new"} THEN vm[v].pc
                 ELSE IF vm[v].named THEN "orphan" ELSE "lost"
  /\ vm'[v].proc \in {vm[v].proc, Reaped(v)} /\ vm'[v].late \in {vm[v].late, {}}

\* A build cancelled in its copy, and one cancelled later.
CutShort(v) ==
  /\ serving' = "down" /\ v \in BuildVms /\ Same(vm[v], vm'[v])
  /\ vm[v].pc = "copy" /\ vm'[v].pc = "unprepared"
  /\ vm'[v].proc = vm[v].proc /\ vm'[v].late = vm[v].late

Cancelled(v) ==
  /\ serving' = "down" /\ v \in BuildVms /\ vm[v].pc \in Building
  /\ vm'[v].pc = "ended" /\ vm'[v].disk = "none" /\ vm'[v].proc = Reaped(v)
  /\ vm'[v].held = vm[v].held \ {"cgroup"} /\ vm'[v].late = vm[v].late
  /\ vm'[v].named = vm[v].named /\ vm'[v].slow = vm[v].slow

\* Its rules, cgroup or work directory cleared away at the start.
Cleared(v) ==
  /\ serving = "down" /\ serving' = "sweeping"
  /\ vm'[v].pc = vm[v].pc /\ vm'[v].proc = vm[v].proc /\ vm'[v].late = vm[v].late
  /\ vm'[v].held \subseteq vm[v].held /\ "rules" \notin vm'[v].held
  /\ vm'[v].disk = IF v \in BuildVms THEN "none" ELSE vm[v].disk
  /\ vm'[v].named = vm[v].named /\ vm'[v].slow = vm[v].slow /\ vm'[v].refused = vm[v].refused

\* Swept, the row being stopped at the end, or the sweep given up at its tap.
SweptTo(v, pc, left) ==
  /\ vm[v].pc = "orphan" /\ vm'[v].pc = pc /\ vm'[v].disk = "none"
  /\ vm'[v].held \subseteq vm[v].held \cap left
  /\ vm'[v].proc # "running" /\ (~Alive(v) => vm'[v].proc = vm[v].proc)
  /\ vm'[v].late = vm[v].late /\ vm'[v].named = vm[v].named
  /\ vm'[v].slow = vm[v].slow /\ vm'[v].refused = vm[v].refused

Tidied(v)  == serving = "sweeping" /\ serving' = serving /\ SweptTo(v, "tidied", {"cgroup"})
GivenUp(v) == serving' = "down" /\ SweptTo(v, "orphan", {"tap", "cgroup"})

Settled(v) ==
  /\ serving = "sweeping" /\ serving' = "up"
  /\ vm[v].pc = "tidied" /\ vm'[v].pc = "swept" /\ ~vm'[v].named
  /\ vm'[v].disk = vm[v].disk /\ vm'[v].held = vm[v].held
  /\ vm'[v].proc = vm[v].proc /\ vm'[v].late = vm[v].late
  /\ vm'[v].slow = vm[v].slow /\ vm'[v].refused = vm[v].refused

\* Not touched.
LeftAlone(v) ==
  /\ vm'[v] = vm[v] /\ serving = "sweeping"
  /\ serving' = serving \/ (serving' = "up" /\ vm[v].pc \notin {"orphan", "tidied"})

Ruled(v) ==
  \/ LetGo(v) \/ CutShort(v) \/ Cancelled(v) \/ Cleared(v)
  \/ Tidied(v) \/ GivenUp(v) \/ Settled(v) \/ LeftAlone(v)

\* Each step that touches every VM does one of these to each, and keeps its type.
LEMMA CommonStep ==
  ASSUME vm \in [Vms -> VmRecord], Crash \/ Kill \/ Reload \/ Start, NEW v \in Vms
  PROVE  vm'[v] \in VmRecord /\ Ruled(v)
<1>1. vm[v] \in VmRecord
  OBVIOUS
<1>2. ASSUME serving' = "down", vm'[v] = Abandoned(vm[v]) PROVE vm'[v] \in VmRecord /\ LetGo(v)
  <2>1. vm'[v] \in VmRecord
    BY <1>1, <1>2, AbandonedIs
  <2>. QED BY <1>1, <1>2, <2>1, AbandonedIs DEF LetGo
<1>3. ASSUME Crash PROVE vm'[v] \in VmRecord /\ LetGo(v)
  <2>1. serving' = "down"
    BY <1>3 DEF Crash
  <2>. QED BY <1>1, <1>3, <2>1, CrashIs, AbandonedIs DEF LetGo
<1>4. ASSUME Kill PROVE vm'[v] \in VmRecord /\ LetGo(v)
  BY <1>2, <1>4 DEF Kill
<1>5. ASSUME Reload PROVE vm'[v] \in VmRecord /\ (LetGo(v) \/ CutShort(v) \/ Cancelled(v))
  <2>1. serving' = "down"
    BY <1>5 DEF Reload
  <2>2. CASE vm'[v] = Abandoned(vm[v])
    BY <1>2, <2>1, <2>2
  <2>3. CASE /\ v \in BuildVms /\ vm[v].pc = "copy" /\ vm'[v] \in VmRecord
             /\ vm'[v].pc = "unprepared" /\ Same(vm[v], vm'[v])
             /\ vm'[v].proc = vm[v].proc /\ vm'[v].late = vm[v].late
    BY <2>1, <2>3 DEF CutShort
  <2>4. CASE v \in BuildVms /\ vm[v].pc \in Building /\ vm'[v] = BuildOver(v)
    BY <1>1, <2>1, <2>4, BuildOverIs DEF Cancelled
  <2>. QED BY <1>5, <2>2, <2>3, <2>4, ReloadIs
<1>6. ASSUME BeginSweep PROVE vm'[v] \in VmRecord /\ Cleared(v)
  <2>1. serving = "down" /\ serving' = "sweeping"
    BY <1>6 DEF BeginSweep
  <2>. QED BY <1>6, <2>1, BeginSweepIs DEF Cleared
<1>7. ASSUME EndSweep PROVE vm'[v] \in VmRecord /\ (Settled(v) \/ LeftAlone(v))
  <2>1. serving = "sweeping" /\ serving' = "up" /\ vm[v].pc # "orphan"
    BY <1>7 DEF EndSweep
  <2>2. CASE vm[v].pc # "tidied" /\ vm'[v] = vm[v]
    BY <1>1, <2>1, <2>2 DEF LeftAlone
  <2>3. CASE vm[v].pc = "tidied"
    <3>1. /\ vm'[v] \in VmRecord /\ vm'[v].pc = "swept"
          /\ vm'[v].disk = vm[v].disk /\ vm'[v].held = vm[v].held /\ vm'[v].proc = vm[v].proc
          /\ vm'[v].late = vm[v].late /\ ~vm'[v].named /\ vm'[v].slow = vm[v].slow
          /\ vm'[v].refused = vm[v].refused
      BY <1>7, <2>3, EndSweepIs
    <3>. QED BY <2>1, <2>3, <3>1 DEF Settled
  <2>. QED BY <1>7, <2>2, <2>3, EndSweepIs
<1>8. ASSUME NEW pc, NEW left, SweptUpTo(v, pc, left), vm[v].pc = "orphan"
      PROVE  vm'[v] \in VmRecord /\ SweptTo(v, pc, left \cup {"cgroup"})
  <2>1. PICK process \in Terminated(v) :
          /\ vm'[v] \in VmRecord /\ vm'[v].pc = pc /\ vm'[v].proc = process
          /\ vm'[v].disk = "none" /\ vm'[v].held = vm[v].held \cap (left \cup Leftover(process))
          /\ vm'[v].late = vm[v].late /\ vm'[v].named = vm[v].named
          /\ vm'[v].slow = vm[v].slow /\ vm'[v].refused = vm[v].refused
    BY <1>8 DEF SweptUpTo
  <2>2. process # "running" /\ (~Alive(v) => process = vm[v].proc)
    BY DEF Terminated, Alive
  <2>3. vm'[v].held \subseteq vm[v].held \cap (left \cup {"cgroup"})
    BY <2>1 DEF Leftover
  <2>. QED BY <1>8, <2>1, <2>2, <2>3 DEF SweptTo
<1>9. ASSUME NEW w \in Vms, Sweep(w) PROVE vm'[v] \in VmRecord /\ (Tidied(v) \/ LeftAlone(v))
  <2>1. serving = "sweeping" /\ serving' = serving /\ vm[w].pc = "orphan"
    BY <1>9 DEF Sweep, orchestrator
  <2>2. CASE v = w
    <3>1. SweptUpTo(v, "tidied", {})
      BY <1>9, <2>2, SweepIs
    <3>2. vm'[v] \in VmRecord /\ SweptTo(v, "tidied", {} \cup {"cgroup"})
      BY <1>8, <2>1, <2>2, <3>1
    <3>3. {} \cup {"cgroup"} = {"cgroup"}
      OBVIOUS
    <3>. QED BY <2>1, <3>2, <3>3 DEF Tidied
  <2>. QED BY <1>1, <1>9, <2>1, <2>2, SweepIs DEF LeftAlone
<1>10. ASSUME NEW w \in Vms, SweepTimesOut(w)
       PROVE  vm'[v] \in VmRecord /\ (GivenUp(v) \/ LetGo(v))
  <2>1. serving' = "down"
    BY <1>10 DEF SweepTimesOut
  <2>2. CASE v = w
    <3>1. vm[v].pc = "orphan" /\ SweptUpTo(v, "orphan", {"tap"})
      BY <1>10, <2>2, SweepTimesOutIs
    <3>2. vm'[v] \in VmRecord /\ SweptTo(v, "orphan", {"tap"} \cup {"cgroup"})
      BY <1>8, <3>1
    <3>3. {"tap"} \cup {"cgroup"} = {"tap", "cgroup"}
      OBVIOUS
    <3>. QED BY <2>1, <3>2, <3>3 DEF GivenUp
  <2>. QED BY <1>2, <1>10, <2>1, <2>2, SweepTimesOutIs
<1>. QED BY <1>3, <1>4, <1>5, <1>6, <1>7, <1>9, <1>10 DEF Start, Ruled

\* The state as a whole keeps its type.
LEMMA RecordStep ==
  ASSUME vm \in [Vms -> VmRecord], Next
  PROVE  vm' \in [Vms -> VmRecord]
<1>1. ASSUME NEW v \in Vms, Step(v) \/ Request(v) \/ Host(v) PROVE vm' \in [Vms -> VmRecord]
  BY <1>1, OwnType, OwnStep
<1>2. ASSUME Crash \/ Kill \/ Reload \/ Start PROVE vm' \in [Vms -> VmRecord]
  <2>1. \A v \in Vms : vm'[v] \in VmRecord
    BY <1>2, CommonStep
  <2>2. vm' = [v \in Vms |-> vm'[v]]
    BY <1>2 DEF Crash, Kill, Reload, Start, BeginSweep, EndSweep, Sweep, SweepTimesOut
  <2>. QED BY <2>1, <2>2
<1>. QED BY <1>1, <1>2 DEF Next

\* The orchestrator's state keeps its type.
LEMMA OrchestratorStep ==
  ASSUME TypeOK, Next
  PROVE  serving' \in {"up", "down", "sweeping"} /\ ends' \in 0 .. MaxEnds
<1>1. /\ serving \in {"up", "down", "sweeping"} /\ ends \in 0 .. MaxEnds /\ MaxEnds \in Nat
      /\ vm \in [Vms -> VmRecord]
  BY VmsAssumption, TypeIsRecord DEF TypeOK
<1>2. CASE UNCHANGED <<serving, ends>>
  BY <1>1, <1>2
<1>3. CASE serving' = "down" /\ ends' = ends + 1 /\ ends < MaxEnds
  BY <1>1, <1>3
<1>4. CASE serving' \in {"up", "down", "sweeping"} /\ ends' = ends
  BY <1>1, <1>4
<1>5. CASE \E v \in Vms : Step(v) \/ Request(v) \/ Host(v)
  BY <1>1, <1>2, <1>5, OwnStep
<1>6. CASE Crash \/ Kill \/ Reload
  BY <1>3, <1>6 DEF Crash, Kill, Reload
<1>7. CASE Start
  BY <1>2, <1>4, <1>7 DEF Start, BeginSweep, EndSweep, Sweep, SweepTimesOut, orchestrator
<1>. QED BY <1>5, <1>6, <1>7 DEF Next

-----------------------------------------------------------------------------
(* Every step keeps each part of the invariant. *)

\* A row names a VM no longer than it may.
LEMMA NamedStep ==
  ASSUME IInv, Next, NEW v \in Vms
  PROVE  NamedInv(vm[v])'
<1>1. /\ vm \in [Vms -> VmRecord] /\ v \in Vms /\ vm[v] \in VmRecord /\ vm'[v] \in VmRecord
      /\ vm[v].named \in BOOLEAN /\ vm[v].slow \in BOOLEAN
      /\ NamedInv(vm[v]) /\ DownOf(v)
  BY VmsAssumption, TypeIsRecord, RecordStep DEF IInv, Vms, VmRecord, DownInv
<1>2. CASE \E w \in Vms \ {v} : Step(w) \/ Request(w) \/ Host(w)
  <2>1. vm'[v] = vm[v] /\ serving' = serving
    BY <1>1, <1>2, OwnStep
  <2>. QED BY <1>1, <2>1 DEF NamedInv
<1>3. CASE Step(v) \/ Request(v) \/ Host(v)
  <2>. USE VmsAssumption DEF IInv, TypeOK, NamedInv, DownInv, DownOf, Vms, At,
        orchestrator, Starting, Acquiring, Copying, Undoing, Stopping, Over, Building,
        Network, Resources, Unattended
  <2>1. ASSUME BeginCopy(v) PROVE NamedInv(vm[v])'
    BY <2>1 DEF BeginCopy
  <2>2. ASSUME CopyDone(v) PROVE NamedInv(vm[v])'
    BY <2>2 DEF CopyDone
  <2>3. ASSUME CopyFails(v) PROVE NamedInv(vm[v])'
    BY <2>3 DEF CopyFails
  <2>4. ASSUME Inject(v) PROVE NamedInv(vm[v])'
    BY <2>4 DEF Inject
  <2>5. ASSUME InjectFails(v) PROVE NamedInv(vm[v])'
    BY <2>5 DEF InjectFails
  <2>6. ASSUME Recopy(v) PROVE NamedInv(vm[v])'
    BY <2>6 DEF Recopy
  <2>7. ASSUME Configure(v) PROVE NamedInv(vm[v])'
    BY <2>7 DEF Configure, NextStep, Makes
  <2>8. ASSUME ConfigureFails(v) PROVE NamedInv(vm[v])'
    BY <2>8 DEF ConfigureFails, OnError
  <2>9. ASSUME RulesRefused(v) PROVE NamedInv(vm[v])'
    BY <2>9 DEF RulesRefused, NextStep
  <2>10. ASSUME ConfigureTimesOut(v) PROVE NamedInv(vm[v])'
    BY <2>10 DEF ConfigureTimesOut, OnError, Makes
  <2>11. ASSUME Contain(v) PROVE NamedInv(vm[v])'
    BY <2>11 DEF Contain
  <2>12. ASSUME Launch(v) PROVE NamedInv(vm[v])'
    BY <2>12 DEF Launch
  <2>13. ASSUME Boot(v) PROVE NamedInv(vm[v])'
    BY <2>13 DEF Boot
  <2>14. ASSUME BootFails(v) PROVE NamedInv(vm[v])'
    BY <2>14 DEF BootFails
  <2>15. ASSUME Undo(v) PROVE NamedInv(vm[v])'
    BY <2>15 DEF Undo, Reaped
  <2>16. ASSUME Remove(v) PROVE NamedInv(vm[v])'
    BY <2>16 DEF Remove, NextStep, Removes
  <2>17. ASSUME RemoveTimesOut(v) PROVE NamedInv(vm[v])'
    BY <2>17 DEF RemoveTimesOut, OnError, Removes
  <2>18. ASSUME Terminate(v) PROVE NamedInv(vm[v])'
    BY <2>18 DEF Terminate, Terminated, Alive
  <2>19. ASSUME Free(v) PROVE NamedInv(vm[v])'
    BY <2>19 DEF Free, Leftover
  <2>20. ASSUME BuildEnds(v) PROVE NamedInv(vm[v])'
    BY <2>20 DEF BuildEnds
  <2>21. ASSUME Reap(v) PROVE NamedInv(vm[v])'
    BY <2>21 DEF Reap, BuildOver, Reaped
  <2>22. ASSUME RequestBuild(v) PROVE NamedInv(vm[v])'
    BY <2>22 DEF RequestBuild
  <2>23. ASSUME Record(v) PROVE NamedInv(vm[v])'
    BY <2>23 DEF Record
  <2>24. ASSUME Halt(v) PROVE NamedInv(vm[v])'
    BY <2>24 DEF Halt
  <2>25. ASSUME TakesEffect(v) PROVE NamedInv(vm[v])'
    BY <2>25 DEF TakesEffect
  <2>26. ASSUME ProcessEnds(v) PROVE NamedInv(vm[v])'
    BY <2>26 DEF ProcessEnds, Alive
  <2>. HIDE DEF IInv, TypeOK, NamedInv, DownInv, DownOf
  <2>. QED BY <1>3, <2>1, <2>2, <2>3, <2>4, <2>5, <2>6, <2>7, <2>8, <2>9, <2>10,
             <2>11, <2>12, <2>13, <2>14, <2>15, <2>16, <2>17, <2>18, <2>19, <2>20,
             <2>21, <2>22, <2>23, <2>24, <2>25, <2>26
             DEF Step, Request, Host
<1>4. CASE Crash \/ Kill \/ Reload \/ Start
  <2>. HIDE DEF IInv
  <2>. USE DEF NamedInv, DownOf, Starting, Acquiring, Copying, Undoing, Stopping,
        Over, Building, Network, Unattended
  <2>1. ASSUME LetGo(v) PROVE NamedInv(vm[v])'
    BY <1>1, <2>1 DEF LetGo, Same, Reaped
  <2>2. ASSUME CutShort(v) PROVE NamedInv(vm[v])'
    BY <1>1, <2>2 DEF CutShort, Same
  <2>3. ASSUME Cancelled(v) PROVE NamedInv(vm[v])'
    BY <1>1, <2>3 DEF Cancelled, Reaped
  <2>4. ASSUME Cleared(v) PROVE NamedInv(vm[v])'
    BY <1>1, <2>4 DEF Cleared
  <2>5. ASSUME Tidied(v) PROVE NamedInv(vm[v])'
    BY <1>1, <2>5 DEF Tidied, SweptTo, Alive
  <2>6. ASSUME GivenUp(v) PROVE NamedInv(vm[v])'
    BY <1>1, <2>6 DEF GivenUp, SweptTo, Alive
  <2>7. ASSUME Settled(v) PROVE NamedInv(vm[v])'
    BY <1>1, <2>7 DEF Settled
  <2>8. ASSUME LeftAlone(v) PROVE NamedInv(vm[v])'
    BY <1>1, <2>8 DEF LeftAlone
  <2>. HIDE DEF NamedInv, DownOf, Starting, Acquiring, Copying, Undoing, Stopping,
        Over, Building, Network, Unattended
  <2>. QED BY <1>1, <1>4, CommonStep, <2>1, <2>2, <2>3, <2>4, <2>5, <2>6, <2>7, <2>8 DEF Ruled
<1>. QED BY <1>2, <1>3, <1>4 DEF Next

\* No coroutine is left when the orchestrator ends, and a sweep leaves nothing named.
LEMMA DownStep ==
  ASSUME IInv, Next, NEW v \in Vms
  PROVE  DownOf(v)'
<1>1. /\ vm \in [Vms -> VmRecord] /\ v \in Vms /\ vm[v] \in VmRecord /\ vm'[v] \in VmRecord
      /\ vm[v].named \in BOOLEAN /\ vm[v].slow \in BOOLEAN
      /\ NamedInv(vm[v]) /\ DownOf(v)
  BY VmsAssumption, TypeIsRecord, RecordStep DEF IInv, Vms, VmRecord, DownInv
<1>2. CASE \E w \in Vms \ {v} : Step(w) \/ Request(w) \/ Host(w)
  <2>1. vm'[v] = vm[v] /\ serving' = serving
    BY <1>1, <1>2, OwnStep
  <2>. QED BY <1>1, <2>1 DEF DownOf
<1>3. CASE Step(v) \/ Request(v) \/ Host(v)
  <2>. USE VmsAssumption DEF IInv, TypeOK, NamedInv, DownInv, DownOf, Vms, At,
        orchestrator, Starting, Acquiring, Copying, Undoing, Stopping, Over, Building,
        Network, Resources, Unattended
  <2>1. ASSUME BeginCopy(v) PROVE DownOf(v)'
    BY <2>1 DEF BeginCopy
  <2>2. ASSUME CopyDone(v) PROVE DownOf(v)'
    BY <2>2 DEF CopyDone
  <2>3. ASSUME CopyFails(v) PROVE DownOf(v)'
    BY <2>3 DEF CopyFails
  <2>4. ASSUME Inject(v) PROVE DownOf(v)'
    BY <2>4 DEF Inject
  <2>5. ASSUME InjectFails(v) PROVE DownOf(v)'
    BY <2>5 DEF InjectFails
  <2>6. ASSUME Recopy(v) PROVE DownOf(v)'
    BY <2>6 DEF Recopy
  <2>7. ASSUME Configure(v) PROVE DownOf(v)'
    BY <2>7 DEF Configure, NextStep, Makes
  <2>8. ASSUME ConfigureFails(v) PROVE DownOf(v)'
    BY <2>8 DEF ConfigureFails, OnError
  <2>9. ASSUME RulesRefused(v) PROVE DownOf(v)'
    BY <2>9 DEF RulesRefused, NextStep
  <2>10. ASSUME ConfigureTimesOut(v) PROVE DownOf(v)'
    BY <2>10 DEF ConfigureTimesOut, OnError, Makes
  <2>11. ASSUME Contain(v) PROVE DownOf(v)'
    BY <2>11 DEF Contain
  <2>12. ASSUME Launch(v) PROVE DownOf(v)'
    BY <2>12 DEF Launch
  <2>13. ASSUME Boot(v) PROVE DownOf(v)'
    BY <2>13 DEF Boot
  <2>14. ASSUME BootFails(v) PROVE DownOf(v)'
    BY <2>14 DEF BootFails
  <2>15. ASSUME Undo(v) PROVE DownOf(v)'
    BY <2>15 DEF Undo, Reaped
  <2>16. ASSUME Remove(v) PROVE DownOf(v)'
    BY <2>16 DEF Remove, NextStep, Removes
  <2>17. ASSUME RemoveTimesOut(v) PROVE DownOf(v)'
    BY <2>17 DEF RemoveTimesOut, OnError, Removes
  <2>18. ASSUME Terminate(v) PROVE DownOf(v)'
    BY <2>18 DEF Terminate, Terminated, Alive
  <2>19. ASSUME Free(v) PROVE DownOf(v)'
    BY <2>19 DEF Free, Leftover
  <2>20. ASSUME BuildEnds(v) PROVE DownOf(v)'
    BY <2>20 DEF BuildEnds
  <2>21. ASSUME Reap(v) PROVE DownOf(v)'
    BY <2>21 DEF Reap, BuildOver, Reaped
  <2>22. ASSUME RequestBuild(v) PROVE DownOf(v)'
    BY <2>22 DEF RequestBuild
  <2>23. ASSUME Record(v) PROVE DownOf(v)'
    BY <2>23 DEF Record
  <2>24. ASSUME Halt(v) PROVE DownOf(v)'
    BY <2>24 DEF Halt
  <2>25. ASSUME TakesEffect(v) PROVE DownOf(v)'
    BY <2>25 DEF TakesEffect
  <2>26. ASSUME ProcessEnds(v) PROVE DownOf(v)'
    BY <2>26 DEF ProcessEnds, Alive
  <2>. HIDE DEF IInv, TypeOK, NamedInv, DownInv, DownOf
  <2>. QED BY <1>3, <2>1, <2>2, <2>3, <2>4, <2>5, <2>6, <2>7, <2>8, <2>9, <2>10,
             <2>11, <2>12, <2>13, <2>14, <2>15, <2>16, <2>17, <2>18, <2>19, <2>20,
             <2>21, <2>22, <2>23, <2>24, <2>25, <2>26
             DEF Step, Request, Host
<1>4. CASE Crash \/ Kill \/ Reload \/ Start
  <2>. HIDE DEF IInv
  <2>. USE DEF NamedInv, DownOf, Starting, Acquiring, Copying, Undoing, Stopping,
        Over, Building, Network, Unattended
  <2>1. ASSUME LetGo(v) PROVE DownOf(v)'
    BY <1>1, <2>1 DEF LetGo, Same, Reaped
  <2>2. ASSUME CutShort(v) PROVE DownOf(v)'
    BY <1>1, <2>2 DEF CutShort, Same
  <2>3. ASSUME Cancelled(v) PROVE DownOf(v)'
    BY <1>1, <2>3 DEF Cancelled, Reaped
  <2>4. ASSUME Cleared(v) PROVE DownOf(v)'
    BY <1>1, <2>4 DEF Cleared
  <2>5. ASSUME Tidied(v) PROVE DownOf(v)'
    BY <1>1, <2>5 DEF Tidied, SweptTo, Alive
  <2>6. ASSUME GivenUp(v) PROVE DownOf(v)'
    BY <1>1, <2>6 DEF GivenUp, SweptTo, Alive
  <2>7. ASSUME Settled(v) PROVE DownOf(v)'
    BY <1>1, <2>7 DEF Settled
  <2>8. ASSUME LeftAlone(v) PROVE DownOf(v)'
    BY <1>1, <2>8 DEF LeftAlone
  <2>. HIDE DEF NamedInv, DownOf, Starting, Acquiring, Copying, Undoing, Stopping,
        Over, Building, Network, Unattended
  <2>. QED BY <1>1, <1>4, CommonStep, <2>1, <2>2, <2>3, <2>4, <2>5, <2>6, <2>7, <2>8 DEF Ruled
<1>. QED BY <1>2, <1>3, <1>4 DEF Next

\* What an environment's VM holds, has and has ended.
LEMMA EnvStep ==
  ASSUME IInv, Next, NEW v \in EnvVms
  PROVE  EnvInv(vm[v])'
<1>1. /\ vm \in [Vms -> VmRecord] /\ v \in Vms /\ vm[v] \in VmRecord /\ vm'[v] \in VmRecord
      /\ vm[v].named \in BOOLEAN /\ vm[v].slow \in BOOLEAN /\ v \notin BuildVms
      /\ NamedInv(vm[v]) /\ DownOf(v) /\ EnvInv(vm[v])
  BY VmsAssumption, TypeIsRecord, RecordStep DEF IInv, Vms, VmRecord, DownInv
<1>2. CASE \E w \in Vms \ {v} : Step(w) \/ Request(w) \/ Host(w)
  <2>1. vm'[v] = vm[v] /\ serving' = serving
    BY <1>1, <1>2, OwnStep
  <2>. QED BY <1>1, <2>1 DEF EnvInv
<1>3. CASE Step(v) \/ Request(v) \/ Host(v)
  <2>. USE VmsAssumption DEF IInv, TypeOK, DownInv, DownOf, EnvInv, EnvHolds,
        EnvNeeds, EnvEnds, Vms, At, orchestrator, Starting, Acquiring, Copying,
        Undoing, Stopping, Over, Building, Network, Resources, Unattended
  <2>1. ASSUME BeginCopy(v) PROVE EnvInv(vm[v])'
    BY <2>1 DEF BeginCopy
  <2>2. ASSUME CopyDone(v) PROVE EnvInv(vm[v])'
    BY <2>2 DEF CopyDone
  <2>3. ASSUME CopyFails(v) PROVE EnvInv(vm[v])'
    BY <2>3 DEF CopyFails
  <2>4. ASSUME Inject(v) PROVE EnvInv(vm[v])'
    BY <2>4 DEF Inject
  <2>5. ASSUME InjectFails(v) PROVE EnvInv(vm[v])'
    BY <2>5 DEF InjectFails
  <2>6. ASSUME Recopy(v) PROVE EnvInv(vm[v])'
    BY <2>6 DEF Recopy
  <2>7. ASSUME Configure(v) PROVE EnvInv(vm[v])'
    BY <2>7 DEF Configure, NextStep, Makes
  <2>8. ASSUME ConfigureFails(v) PROVE EnvInv(vm[v])'
    BY <2>8 DEF ConfigureFails, OnError
  <2>9. ASSUME RulesRefused(v) PROVE EnvInv(vm[v])'
    BY <2>9 DEF RulesRefused, NextStep
  <2>10. ASSUME ConfigureTimesOut(v) PROVE EnvInv(vm[v])'
    BY <2>10 DEF ConfigureTimesOut, OnError, Makes
  <2>11. ASSUME Contain(v) PROVE EnvInv(vm[v])'
    BY <2>11 DEF Contain
  <2>12. ASSUME Launch(v) PROVE EnvInv(vm[v])'
    BY <2>12 DEF Launch
  <2>13. ASSUME Boot(v) PROVE EnvInv(vm[v])'
    BY <2>13 DEF Boot
  <2>14. ASSUME BootFails(v) PROVE EnvInv(vm[v])'
    BY <2>14 DEF BootFails
  <2>15. ASSUME Undo(v) PROVE EnvInv(vm[v])'
    BY <2>15 DEF Undo, Reaped
  <2>16. ASSUME Remove(v) PROVE EnvInv(vm[v])'
    BY <2>16 DEF Remove, NextStep, Removes
  <2>17. ASSUME RemoveTimesOut(v) PROVE EnvInv(vm[v])'
    BY <2>17 DEF RemoveTimesOut, OnError, Removes
  <2>18. ASSUME Terminate(v) PROVE EnvInv(vm[v])'
    BY <2>18 DEF Terminate, Terminated, Alive
  <2>19. ASSUME Free(v) PROVE EnvInv(vm[v])'
    BY <2>19 DEF Free, Leftover
  <2>20. ASSUME BuildEnds(v) PROVE EnvInv(vm[v])'
    BY <2>20 DEF BuildEnds
  <2>21. ASSUME Reap(v) PROVE EnvInv(vm[v])'
    BY <2>21 DEF Reap, BuildOver, Reaped
  <2>22. ASSUME RequestBuild(v) PROVE EnvInv(vm[v])'
    BY <2>22 DEF RequestBuild
  <2>23. ASSUME Record(v) PROVE EnvInv(vm[v])'
    BY <2>23 DEF Record
  <2>24. ASSUME Halt(v) PROVE EnvInv(vm[v])'
    BY <2>24 DEF Halt
  <2>25. ASSUME TakesEffect(v) PROVE EnvInv(vm[v])'
    BY <2>25 DEF TakesEffect
  <2>26. ASSUME ProcessEnds(v) PROVE EnvInv(vm[v])'
    BY <2>26 DEF ProcessEnds, Alive
  <2>. HIDE DEF IInv, TypeOK, DownInv, DownOf, EnvInv, EnvHolds, EnvNeeds, EnvEnds
  <2>. QED BY <1>3, <2>1, <2>2, <2>3, <2>4, <2>5, <2>6, <2>7, <2>8, <2>9, <2>10,
             <2>11, <2>12, <2>13, <2>14, <2>15, <2>16, <2>17, <2>18, <2>19, <2>20,
             <2>21, <2>22, <2>23, <2>24, <2>25, <2>26
             DEF Step, Request, Host
<1>4. CASE Crash \/ Kill \/ Reload \/ Start
  <2>. HIDE DEF IInv
  <2>. USE DEF NamedInv, DownOf, EnvInv, EnvHolds, EnvNeeds, EnvEnds, Starting,
        Acquiring, Copying, Undoing, Stopping, Over, Building, Network, Unattended
  <2>1. ASSUME LetGo(v) PROVE EnvInv(vm[v])'
    BY <1>1, <2>1 DEF LetGo, Same, Reaped
  <2>2. ASSUME CutShort(v) PROVE EnvInv(vm[v])'
    BY <1>1, <2>2 DEF CutShort, Same
  <2>3. ASSUME Cancelled(v) PROVE EnvInv(vm[v])'
    BY <1>1, <2>3 DEF Cancelled, Reaped
  <2>4. ASSUME Cleared(v) PROVE EnvInv(vm[v])'
    BY <1>1, <2>4 DEF Cleared
  <2>5. ASSUME Tidied(v) PROVE EnvInv(vm[v])'
    BY <1>1, <2>5 DEF Tidied, SweptTo, Alive
  <2>6. ASSUME GivenUp(v) PROVE EnvInv(vm[v])'
    BY <1>1, <2>6 DEF GivenUp, SweptTo, Alive
  <2>7. ASSUME Settled(v) PROVE EnvInv(vm[v])'
    BY <1>1, <2>7 DEF Settled
  <2>8. ASSUME LeftAlone(v) PROVE EnvInv(vm[v])'
    BY <1>1, <2>8 DEF LeftAlone
  <2>. HIDE DEF NamedInv, DownOf, EnvInv, EnvHolds, EnvNeeds, EnvEnds, Starting,
        Acquiring, Copying, Undoing, Stopping, Over, Building, Network, Unattended
  <2>. QED BY <1>1, <1>4, CommonStep, <2>1, <2>2, <2>3, <2>4, <2>5, <2>6, <2>7, <2>8 DEF Ruled
<1>. QED BY <1>2, <1>3, <1>4 DEF Next

\* What a build holds.
LEMMA BuildStep ==
  ASSUME IInv, Next, NEW v \in BuildVms
  PROVE  BuildInv(vm[v])'
<1>1. /\ vm \in [Vms -> VmRecord] /\ v \in Vms /\ vm[v] \in VmRecord /\ vm'[v] \in VmRecord
      /\ vm[v].named \in BOOLEAN /\ vm[v].slow \in BOOLEAN
      /\ NamedInv(vm[v]) /\ DownOf(v) /\ BuildInv(vm[v])
  BY VmsAssumption, TypeIsRecord, RecordStep DEF IInv, Vms, VmRecord, DownInv
<1>2. CASE \E w \in Vms \ {v} : Step(w) \/ Request(w) \/ Host(w)
  <2>1. vm'[v] = vm[v] /\ serving' = serving
    BY <1>1, <1>2, OwnStep
  <2>. QED BY <1>1, <2>1 DEF BuildInv
<1>3. CASE Step(v) \/ Request(v) \/ Host(v)
  <2>. USE VmsAssumption DEF IInv, TypeOK, DownInv, DownOf, BuildInv, Vms, At,
        orchestrator, Starting, Acquiring, Copying, Undoing, Stopping, Over, Building,
        Network, Resources, Unattended
  <2>1. ASSUME BeginCopy(v) PROVE BuildInv(vm[v])'
    BY <2>1 DEF BeginCopy
  <2>2. ASSUME CopyDone(v) PROVE BuildInv(vm[v])'
    BY <2>2 DEF CopyDone
  <2>3. ASSUME CopyFails(v) PROVE BuildInv(vm[v])'
    BY <2>3 DEF CopyFails
  <2>4. ASSUME Inject(v) PROVE BuildInv(vm[v])'
    BY <2>4 DEF Inject
  <2>5. ASSUME InjectFails(v) PROVE BuildInv(vm[v])'
    BY <2>5 DEF InjectFails
  <2>6. ASSUME Recopy(v) PROVE BuildInv(vm[v])'
    BY <2>6 DEF Recopy
  <2>7. ASSUME Configure(v) PROVE BuildInv(vm[v])'
    BY <2>7 DEF Configure, NextStep, Makes
  <2>8. ASSUME ConfigureFails(v) PROVE BuildInv(vm[v])'
    BY <2>8 DEF ConfigureFails, OnError
  <2>9. ASSUME RulesRefused(v) PROVE BuildInv(vm[v])'
    BY <2>9 DEF RulesRefused, NextStep
  <2>10. ASSUME ConfigureTimesOut(v) PROVE BuildInv(vm[v])'
    BY <2>10 DEF ConfigureTimesOut, OnError, Makes
  <2>11. ASSUME Contain(v) PROVE BuildInv(vm[v])'
    BY <2>11 DEF Contain
  <2>12. ASSUME Launch(v) PROVE BuildInv(vm[v])'
    BY <2>12 DEF Launch
  <2>13. ASSUME Boot(v) PROVE BuildInv(vm[v])'
    BY <2>13 DEF Boot
  <2>14. ASSUME BootFails(v) PROVE BuildInv(vm[v])'
    BY <2>14 DEF BootFails
  <2>15. ASSUME Undo(v) PROVE BuildInv(vm[v])'
    BY <2>15 DEF Undo, Reaped
  <2>16. ASSUME Remove(v) PROVE BuildInv(vm[v])'
    BY <2>16 DEF Remove, NextStep, Removes
  <2>17. ASSUME RemoveTimesOut(v) PROVE BuildInv(vm[v])'
    BY <2>17 DEF RemoveTimesOut, OnError, Removes
  <2>18. ASSUME Terminate(v) PROVE BuildInv(vm[v])'
    BY <2>18 DEF Terminate, Terminated, Alive
  <2>19. ASSUME Free(v) PROVE BuildInv(vm[v])'
    BY <2>19 DEF Free, Leftover
  <2>20. ASSUME BuildEnds(v) PROVE BuildInv(vm[v])'
    BY <2>20 DEF BuildEnds
  <2>21. ASSUME Reap(v) PROVE BuildInv(vm[v])'
    BY <2>21 DEF Reap, BuildOver, Reaped
  <2>22. ASSUME RequestBuild(v) PROVE BuildInv(vm[v])'
    BY <2>22 DEF RequestBuild
  <2>23. ASSUME Record(v) PROVE BuildInv(vm[v])'
    BY <2>23 DEF Record
  <2>24. ASSUME Halt(v) PROVE BuildInv(vm[v])'
    BY <2>24 DEF Halt
  <2>25. ASSUME TakesEffect(v) PROVE BuildInv(vm[v])'
    BY <2>25 DEF TakesEffect
  <2>26. ASSUME ProcessEnds(v) PROVE BuildInv(vm[v])'
    BY <2>26 DEF ProcessEnds, Alive
  <2>. HIDE DEF IInv, TypeOK, DownInv, DownOf, BuildInv
  <2>. QED BY <1>3, <2>1, <2>2, <2>3, <2>4, <2>5, <2>6, <2>7, <2>8, <2>9, <2>10,
             <2>11, <2>12, <2>13, <2>14, <2>15, <2>16, <2>17, <2>18, <2>19, <2>20,
             <2>21, <2>22, <2>23, <2>24, <2>25, <2>26
             DEF Step, Request, Host
<1>4. CASE Crash \/ Kill \/ Reload \/ Start
  <2>. HIDE DEF IInv
  <2>. USE DEF NamedInv, DownOf, BuildInv, Starting, Acquiring, Copying, Undoing,
        Stopping, Over, Building, Network, Unattended
  <2>1. ASSUME LetGo(v) PROVE BuildInv(vm[v])'
    BY <1>1, <2>1 DEF LetGo, Same, Reaped
  <2>2. ASSUME CutShort(v) PROVE BuildInv(vm[v])'
    BY <1>1, <2>2 DEF CutShort, Same
  <2>3. ASSUME Cancelled(v) PROVE BuildInv(vm[v])'
    BY <1>1, <2>3 DEF Cancelled, Reaped
  <2>4. ASSUME Cleared(v) PROVE BuildInv(vm[v])'
    BY <1>1, <2>4 DEF Cleared
  <2>5. ASSUME Tidied(v) PROVE BuildInv(vm[v])'
    BY <1>1, <2>5 DEF Tidied, SweptTo, Alive
  <2>6. ASSUME GivenUp(v) PROVE BuildInv(vm[v])'
    BY <1>1, <2>6 DEF GivenUp, SweptTo, Alive
  <2>7. ASSUME Settled(v) PROVE BuildInv(vm[v])'
    BY <1>1, <2>7 DEF Settled
  <2>8. ASSUME LeftAlone(v) PROVE BuildInv(vm[v])'
    BY <1>1, <2>8 DEF LeftAlone
  <2>. HIDE DEF NamedInv, DownOf, BuildInv, Starting, Acquiring, Copying, Undoing,
        Stopping, Over, Building, Network, Unattended
  <2>. QED BY <1>1, <1>4, CommonStep, <2>1, <2>2, <2>3, <2>4, <2>5, <2>6, <2>7, <2>8 DEF Ruled
<1>. QED BY <1>2, <1>3, <1>4 DEF Next

\* What nobody looks after any more stays swept.
LEMMA LostStep ==
  ASSUME IInv, Next, NEW v \in Vms
  PROVE  LostOf(v)'
<1>1. /\ vm \in [Vms -> VmRecord] /\ v \in Vms /\ vm[v] \in VmRecord /\ vm'[v] \in VmRecord
      /\ vm[v].named \in BOOLEAN /\ vm[v].slow \in BOOLEAN
      /\ NamedInv(vm[v]) /\ DownOf(v) /\ LostOf(v)
  BY VmsAssumption, TypeIsRecord, RecordStep DEF IInv, Vms, VmRecord, DownInv, LostInv
<1>2. CASE \E w \in Vms \ {v} : Step(w) \/ Request(w) \/ Host(w)
  <2>1. vm'[v] = vm[v] /\ serving' = serving
    BY <1>1, <1>2, OwnStep
  <2>. QED BY <1>1, <2>1 DEF LostOf
<1>3. CASE Step(v) \/ Request(v) \/ Host(v)
  <2>. USE VmsAssumption DEF IInv, TypeOK, DownInv, DownOf, LostInv, LostOf, BuildInv,
        EnvInv, EnvEnds, Vms, At, orchestrator, Starting, Acquiring, Copying, Undoing,
        Stopping, Over, Building, Network, Resources, Unattended
  <2>1. ASSUME BeginCopy(v) PROVE LostOf(v)'
    BY <2>1 DEF BeginCopy
  <2>2. ASSUME CopyDone(v) PROVE LostOf(v)'
    BY <2>2 DEF CopyDone
  <2>3. ASSUME CopyFails(v) PROVE LostOf(v)'
    BY <2>3 DEF CopyFails
  <2>4. ASSUME Inject(v) PROVE LostOf(v)'
    BY <2>4 DEF Inject
  <2>5. ASSUME InjectFails(v) PROVE LostOf(v)'
    BY <2>5 DEF InjectFails
  <2>6. ASSUME Recopy(v) PROVE LostOf(v)'
    BY <2>6 DEF Recopy
  <2>7. ASSUME Configure(v) PROVE LostOf(v)'
    BY <2>7 DEF Configure, NextStep, Makes
  <2>8. ASSUME ConfigureFails(v) PROVE LostOf(v)'
    BY <2>8 DEF ConfigureFails, OnError
  <2>9. ASSUME RulesRefused(v) PROVE LostOf(v)'
    BY <2>9 DEF RulesRefused, NextStep
  <2>10. ASSUME ConfigureTimesOut(v) PROVE LostOf(v)'
    BY <2>10 DEF ConfigureTimesOut, OnError, Makes
  <2>11. ASSUME Contain(v) PROVE LostOf(v)'
    BY <2>11 DEF Contain
  <2>12. ASSUME Launch(v) PROVE LostOf(v)'
    BY <2>12 DEF Launch
  <2>13. ASSUME Boot(v) PROVE LostOf(v)'
    BY <2>13 DEF Boot
  <2>14. ASSUME BootFails(v) PROVE LostOf(v)'
    BY <2>14 DEF BootFails
  <2>15. ASSUME Undo(v) PROVE LostOf(v)'
    BY <2>15 DEF Undo, Reaped
  <2>16. ASSUME Remove(v) PROVE LostOf(v)'
    BY <2>16 DEF Remove, NextStep, Removes
  <2>17. ASSUME RemoveTimesOut(v) PROVE LostOf(v)'
    BY <2>17 DEF RemoveTimesOut, OnError, Removes
  <2>18. ASSUME Terminate(v) PROVE LostOf(v)'
    BY <2>18 DEF Terminate, Terminated, Alive
  <2>19. ASSUME Free(v) PROVE LostOf(v)'
    BY <2>19 DEF Free, Leftover
  <2>20. ASSUME BuildEnds(v) PROVE LostOf(v)'
    BY <2>20 DEF BuildEnds
  <2>21. ASSUME Reap(v) PROVE LostOf(v)'
    BY <2>21 DEF Reap, BuildOver, Reaped
  <2>22. ASSUME RequestBuild(v) PROVE LostOf(v)'
    BY <2>22 DEF RequestBuild
  <2>23. ASSUME Record(v) PROVE LostOf(v)'
    BY <2>23 DEF Record
  <2>24. ASSUME Halt(v) PROVE LostOf(v)'
    BY <2>24 DEF Halt
  <2>25. ASSUME TakesEffect(v) PROVE LostOf(v)'
    BY <2>25 DEF TakesEffect
  <2>26. ASSUME ProcessEnds(v) PROVE LostOf(v)'
    BY <2>26 DEF ProcessEnds, Alive
  <2>. HIDE DEF IInv, TypeOK, DownInv, DownOf, LostInv, LostOf, BuildInv, EnvInv, EnvEnds
  <2>. QED BY <1>3, <2>1, <2>2, <2>3, <2>4, <2>5, <2>6, <2>7, <2>8, <2>9, <2>10,
             <2>11, <2>12, <2>13, <2>14, <2>15, <2>16, <2>17, <2>18, <2>19, <2>20,
             <2>21, <2>22, <2>23, <2>24, <2>25, <2>26
             DEF Step, Request, Host
<1>4. CASE Crash \/ Kill \/ Reload \/ Start
  <2>. HIDE DEF IInv
  <2>. USE DEF NamedInv, DownOf, LostOf, Starting, Acquiring, Copying, Undoing,
        Stopping, Over, Building, Network, Unattended
  <2>1. ASSUME LetGo(v) PROVE LostOf(v)'
    BY <1>1, <2>1 DEF LetGo, Same, Reaped
  <2>2. ASSUME CutShort(v) PROVE LostOf(v)'
    BY <1>1, <2>2 DEF CutShort, Same
  <2>3. ASSUME Cancelled(v) PROVE LostOf(v)'
    BY <1>1, <2>3 DEF Cancelled, Reaped
  <2>4. ASSUME Cleared(v) PROVE LostOf(v)'
    BY <1>1, <2>4 DEF Cleared
  <2>5. ASSUME Tidied(v) PROVE LostOf(v)'
    BY <1>1, <2>5 DEF Tidied, SweptTo, Alive
  <2>6. ASSUME GivenUp(v) PROVE LostOf(v)'
    BY <1>1, <2>6 DEF GivenUp, SweptTo, Alive
  <2>7. ASSUME Settled(v) PROVE LostOf(v)'
    BY <1>1, <2>7 DEF Settled
  <2>8. ASSUME LeftAlone(v) PROVE LostOf(v)'
    BY <1>1, <2>8 DEF LeftAlone
  <2>. HIDE DEF NamedInv, DownOf, LostOf, Starting, Acquiring, Copying, Undoing,
        Stopping, Over, Building, Network, Unattended
  <2>. QED BY <1>1, <1>4, CommonStep, <2>1, <2>2, <2>3, <2>4, <2>5, <2>6, <2>7, <2>8 DEF Ruled
<1>. QED BY <1>2, <1>3, <1>4 DEF Next

\* A build takes a place only as it begins to copy.
LEMMA PlaceTaken ==
  ASSUME IInv, Next, NEW v \in BuildVms, vm'[v].pc \in Building, vm[v].pc \notin Building
  PROVE  BeginCopy(v)
<1>1. vm \in [Vms -> VmRecord] /\ v \in Vms /\ BuildInv(vm[v])
  BY TypeIsRecord DEF IInv, Vms
<1>2. vm[v].pc \in {"new", "queued", "ended", "unprepared", "lost"}
  BY <1>1 DEF BuildInv
<1>3. CASE \E w \in Vms \ {v} : Step(w) \/ Request(w) \/ Host(w)
  BY <1>1, <1>3, OwnStep
<1>4. CASE Step(v) \/ Request(v) \/ Host(v)
  <2>. USE <1>1, <1>2 DEF At, Building
  <2>1. ASSUME CopyDone(v) PROVE FALSE
    BY <2>1 DEF CopyDone
  <2>2. ASSUME CopyFails(v) PROVE FALSE
    BY <2>2 DEF CopyFails
  <2>3. ASSUME Inject(v) PROVE FALSE
    BY <2>3 DEF Inject
  <2>4. ASSUME InjectFails(v) PROVE FALSE
    BY <2>4 DEF InjectFails
  <2>5. ASSUME Recopy(v) PROVE FALSE
    BY <2>5 DEF Recopy
  <2>6. ASSUME Configure(v) PROVE FALSE
    BY <2>6 DEF Configure, Makes
  <2>7. ASSUME ConfigureFails(v) PROVE FALSE
    BY <2>7 DEF ConfigureFails
  <2>8. ASSUME RulesRefused(v) PROVE FALSE
    BY <2>8 DEF RulesRefused
  <2>9. ASSUME ConfigureTimesOut(v) PROVE FALSE
    BY <2>9 DEF ConfigureTimesOut, Makes
  <2>10. ASSUME Contain(v) PROVE FALSE
    BY <2>10 DEF Contain
  <2>11. ASSUME Launch(v) PROVE FALSE
    BY <2>11 DEF Launch
  <2>12. ASSUME Boot(v) PROVE FALSE
    BY <2>12 DEF Boot
  <2>13. ASSUME BootFails(v) PROVE FALSE
    BY <2>13 DEF BootFails
  <2>14. ASSUME Undo(v) PROVE FALSE
    BY <2>14 DEF Undo
  <2>15. ASSUME Remove(v) PROVE FALSE
    BY <2>15 DEF Remove, Removes
  <2>16. ASSUME RemoveTimesOut(v) PROVE FALSE
    BY <2>16 DEF RemoveTimesOut, Removes
  <2>17. ASSUME Terminate(v) PROVE FALSE
    BY <2>17 DEF Terminate
  <2>18. ASSUME Free(v) PROVE FALSE
    BY <2>18 DEF Free
  <2>19. ASSUME BuildEnds(v) PROVE FALSE
    BY <2>19 DEF BuildEnds
  <2>20. ASSUME Reap(v) PROVE FALSE
    BY <2>20 DEF Reap
  <2>21. ASSUME RequestBuild(v) PROVE FALSE
    BY <2>21 DEF RequestBuild
  <2>22. ASSUME Record(v) PROVE FALSE
    BY <2>22 DEF Record
  <2>23. ASSUME Halt(v) PROVE FALSE
    BY <2>23 DEF Halt
  <2>24. ASSUME TakesEffect(v) PROVE FALSE
    BY <2>24 DEF TakesEffect
  <2>25. ASSUME ProcessEnds(v) PROVE FALSE
    BY <2>25 DEF ProcessEnds
  <2>. QED BY <1>4, <2>1, <2>2, <2>3, <2>4, <2>5, <2>6, <2>7, <2>8, <2>9, <2>10,
             <2>11, <2>12, <2>13, <2>14, <2>15, <2>16, <2>17, <2>18, <2>19, <2>20,
             <2>21, <2>22, <2>23, <2>24, <2>25 DEF Step, Request, Host
<1>5. CASE Crash \/ Kill \/ Reload \/ Start
  BY <1>1, <1>2, <1>5, CommonStep
  DEF Ruled, LetGo, CutShort, Cancelled, Cleared, Tidied, GivenUp, SweptTo, Settled,
      LeftAlone, Building, Over
<1>. QED BY <1>3, <1>4, <1>5 DEF Next

\* So the number of builds in the semaphore stays within its limit.
LEMMA PlaceStep ==
  ASSUME IInv, Next
  PROVE  PlaceInv'
<1>. DEFINE P == {v \in BuildVms : vm[v].pc \in Building}
<1>1. /\ IsFiniteSet(P) /\ Cardinality(P) \in Nat /\ MaxBuilds \in Nat
      /\ Cardinality(P) <= MaxBuilds
  <2>1. IsFiniteSet(P)
    BY VmsAssumption, FS_Subset
  <2>. QED BY <2>1, VmsAssumption, FS_CardinalityType DEF IInv, PlaceInv
<1>2. CASE \E w \in BuildVms : BeginCopy(w)
  <2>1. PICK w \in BuildVms : BeginCopy(w)
    BY <1>2
  <2>2. w \in Vms /\ vm \in [Vms -> VmRecord] /\ (Step(w) \/ Request(w) \/ Host(w))
    BY <2>1, TypeIsRecord DEF IInv, Vms, Step
  <2>3. Cardinality(P) < MaxBuilds /\ vm[w].pc \notin Building
    BY <2>1, VmsAssumption DEF BeginCopy, At, Building
  <2>4. P' \subseteq P \cup {w}
    BY <2>2, OwnStep DEF Vms
  <2>5. IsFiniteSet(P \cup {w}) /\ Cardinality(P \cup {w}) = Cardinality(P) + 1
    BY <1>1, <2>1, <2>3, FS_AddElement
  <2>6. Cardinality(P') <= Cardinality(P \cup {w}) /\ Cardinality(P') \in Nat
    BY <2>4, <2>5, FS_Subset, FS_CardinalityType
  <2>7. Cardinality(P') <= MaxBuilds
    BY <1>1, <2>3, <2>5, <2>6
  <2>. QED BY <2>7 DEF PlaceInv
<1>3. CASE ~ \E w \in BuildVms : BeginCopy(w)
  <2>1. P' \subseteq P
    BY <1>3, PlaceTaken
  <2>2. Cardinality(P') <= Cardinality(P) /\ Cardinality(P') \in Nat
    BY <1>1, <2>1, FS_Subset, FS_CardinalityType
  <2>3. Cardinality(P') <= MaxBuilds
    BY <1>1, <2>2
  <2>. QED BY <2>3 DEF PlaceInv
<1>. QED BY <1>2, <1>3

-----------------------------------------------------------------------------
(* The invariant and what follows from it. *)

\* At first no VM has begun and nothing is held.
LEMMA IInvInit == Init => IInv
<1>. SUFFICES ASSUME Init PROVE IInv
  OBVIOUS
<1>1. vm \in [Vms -> VmRecord]
  BY DEF Init, Idle, VmRecord, Labels, Disks, Procs
<1>2. \A v \in Vms : vm[v] = Idle
  BY DEF Init
<1>3. TypeOK
  BY <1>1, <1>2, VmsAssumption, TypeIsRecord DEF Init, NamedInv, Idle
<1>4. DownInv /\ LostInv
  BY <1>2 DEF Init, Idle, DownInv, DownOf, LostInv, LostOf, Unattended
<1>5. PlaceInv
  <2>1. {v \in BuildVms : vm[v].pc \in Building} = {}
    BY <1>2 DEF Vms, Idle, Building
  <2>. QED BY <2>1, VmsAssumption, FS_EmptySet DEF PlaceInv
<1>6. ASSUME NEW v \in EnvVms PROVE EnvInv(vm[v])
  <2>1. vm[v] = Idle
    BY <1>2 DEF Vms
  <2>. QED BY <2>1 DEF Idle, EnvInv, EnvHolds, EnvNeeds, EnvEnds, Acquiring, Copying, Undoing
<1>7. ASSUME NEW v \in BuildVms PROVE BuildInv(vm[v])
  <2>1. vm[v] = Idle
    BY <1>2 DEF Vms
  <2>. QED BY <2>1 DEF Idle, BuildInv, Building
<1>. QED BY <1>3, <1>4, <1>5, <1>6, <1>7 DEF IInv

\* Every step keeps all parts of the invariant.
LEMMA IInvStep == IInv /\ [Next]_vars => IInv'
<1>. SUFFICES ASSUME IInv, [Next]_vars PROVE IInv'
  OBVIOUS
<1>1. CASE Next
  <2>1. TypeOK'
    <3>1. vm' \in [Vms -> VmRecord]
      BY <1>1, TypeIsRecord, RecordStep DEF IInv
    <3>2. \A v \in Vms : NamedInv(vm[v])'
      BY <1>1, NamedStep
    <3>3. serving' \in {"up", "down", "sweeping"} /\ ends' \in 0 .. MaxEnds
      BY <1>1, OrchestratorStep DEF IInv
    <3>. QED BY <3>1, <3>2, <3>3 DEF TypeOK, VmRecord, NamedInv, Labels, Disks, Procs
  <2>2. DownInv' /\ LostInv'
    BY <1>1, DownStep, LostStep DEF DownInv, LostInv
  <2>3. \A v \in EnvVms : EnvInv(vm[v])'
    BY <1>1, EnvStep
  <2>4. \A v \in BuildVms : BuildInv(vm[v])'
    BY <1>1, BuildStep
  <2>5. PlaceInv'
    BY <1>1, PlaceStep
  <2>. QED BY <2>1, <2>2, <2>3, <2>4, <2>5 DEF IInv
<1>2. CASE UNCHANGED vars
  BY <1>2 DEF vars, IInv, TypeOK, DownInv, DownOf, LostInv, LostOf, PlaceInv
<1>. QED BY <1>1, <1>2

\* The inductive invariant holds of every behaviour.
THEOREM Invariance == Spec => []IInv
BY IInvInit, IInvStep, PTL DEF Spec

\* The fields of every VM keep their types, and a row names only a VM whose start returned
\* and whose stop has not (start_vm, stop_vm and their callers).
THEOREM TypeCorrect == Spec => []TypeOK
<1>1. IInv => TypeOK
  BY DEF IInv
<1>. QED BY <1>1, Invariance, PTL

\* However a start, a stop or a build ends, by whatever error path and after whatever
\* timeouts, it holds nothing but what EndedHoldsNothing names (start_vm's undo, stop_vm,
\* delete_tap, run_build_vm's finally).
THEOREM NothingIsLeaked == Spec => []EndedHoldsNothing
<1>1. ASSUME IInv PROVE EndedHoldsNothing
  <2>1. FailedStartHoldsNothing
    BY <1>1 DEF IInv, EnvInv, EnvHolds, EnvEnds, FailedStartHoldsNothing, Alive
  <2>2. StoppedHoldsNothing
    BY <1>1 DEF IInv, EnvInv, EnvHolds, EnvEnds, StoppedHoldsNothing, Undoing
  <2>3. BuildHoldsNothing
    BY <1>1 DEF IInv, BuildInv, BuildHoldsNothing, Alive
  <2>. QED BY <2>1, <2>2, <2>3 DEF EndedHoldsNothing
<1>. QED BY <1>1, Invariance, PTL

\* A guest that serves has its own undamaged disk, its tap and its rules, whatever failed
\* on the way (the fallbacks of _prepare_writable_rootfs and create_tap).
THEOREM GuestsAreEquipped == Spec => []GuestIsEquipped
<1>1. IInv => GuestIsEquipped
  BY DEF IInv, EnvInv, EnvNeeds, GuestIsEquipped, At
<1>. QED BY <1>1, Invariance, PTL

\* After the start-up sweep (cleanup_orphaned_vms) nothing is left of a VM a row named, of
\* a build but a process, and no rules but of a start that timed out.
THEOREM SweepIsComplete == Spec => []SweepLeavesNothing
<1>1. ASSUME IInv PROVE SweepLeavesNothing
  <2>. SUFFICES ASSUME NEW v \in Vms, serving = "up"
                PROVE  /\ vm[v].pc = "swept" =>
                            /\ vm[v].proc # "running" /\ vm[v].disk = "none"
                            /\ vm[v].held \subseteq {"cgroup"}
                       /\ vm[v].pc = "lost" =>
                            /\ v \in BuildVms => vm[v].disk = "none"
                            /\ "rules" \in vm[v].held => vm[v].slow
    BY DEF SweepLeavesNothing
  <2>1. LostOf(v)
    BY <1>1 DEF IInv, LostInv
  <2>2. CASE v \in EnvVms
    BY <1>1, <2>1, <2>2 DEF IInv, EnvInv, EnvHolds, EnvEnds, LostOf, Undoing
  <2>3. CASE v \in BuildVms
    BY <1>1, <2>1, <2>3 DEF IInv, BuildInv, LostOf, Building
  <2>. QED BY <2>2, <2>3 DEF Vms
<1>. QED BY <1>1, Invariance, PTL

\* Never more build guests than MAX_CONCURRENT_BUILDS but for those that outlived the
\* orchestrator, for any number of builds (the semaphore of run_build_vm).
THEOREM BuildsAreLimited == Spec => []OneBuildGuest
<1>1. ASSUME IInv PROVE OneBuildGuest
  <2>. DEFINE P == {v \in BuildVms : vm[v].pc \in Building}
              G == {v \in BuildVms : Alive(v) /\ vm[v].pc # "lost"}
  <2>1. G \subseteq P
    BY <1>1 DEF IInv, BuildInv, Alive
  <2>2. IsFiniteSet(P) /\ Cardinality(P) <= MaxBuilds
    BY <1>1, VmsAssumption, FS_Subset DEF IInv, PlaceInv
  <2>3. Cardinality(G) <= Cardinality(P) /\ Cardinality(G) \in Nat /\ Cardinality(P) \in Nat
    BY <2>1, <2>2, FS_Subset, FS_CardinalityType
  <2>4. Cardinality(G) <= MaxBuilds
    BY <2>2, <2>3, VmsAssumption
  <2>. QED BY <2>4 DEF OneBuildGuest
<1>. QED BY <1>1, Invariance, PTL

=============================================================================
