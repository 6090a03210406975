------------------------ MODULE AssetPreparationProofs ------------------------
(***************************************************************************)
(* Proofs about AssetPreparation and the service it extends, DockerBuilder, *)
(* for every choice of tasks, lives of the orchestrator, initial files,     *)
(* faults and number of mishaps.                                           *)
(***************************************************************************)
EXTENDS AssetPreparation, FiniteSetTheorems, SequenceTheorems, TLAPS

-----------------------------------------------------------------------------
(* Plans.                                                                   *)

\* A plan has at most four items, each an asset or the kernel.
LEMMA PlanShape ==
  \A t \in Tasks :
    /\ Len(Plan[t]) \in 1 .. 4 /\ DOMAIN Plan[t] = 1 .. Len(Plan[t])
    /\ \A n \in DOMAIN Plan[t] : Plan[t][n] \in Assets \cup {"kernel"}
<1>1. Tasks \subseteq {"defaults", "attack", "worker"}
  BY PreparationAssumption DEF Plan
<1>. QED BY <1>1 DEF Plan, Assets, Exports, Images

\* Only the kernel is in two plans, and nothing is in a plan twice.
LEMMA PlansApart ==
  \A t, u \in Tasks : \A n \in DOMAIN Plan[t], m \in DOMAIN Plan[u] :
    Plan[t][n] = Plan[u][m] /\ Plan[t][n] # "kernel" => t = u /\ n = m
<1>1. Tasks \subseteq {"defaults", "attack", "worker"}
  BY PreparationAssumption DEF Plan
<1>. QED BY <1>1 DEF Plan

\* The worker's plan is the administrator's row, which no other task prepares.
LEMMA WorkerPlan ==
  \A t \in Tasks : \A n \in DOMAIN Plan[t] : Plan[t][n] = "extra" <=> t = "worker"
<1>1. Tasks \subseteq {"defaults", "attack", "worker"}
  BY PreparationAssumption DEF Plan
<1>. QED BY <1>1 DEF Plan

\* The attack machine is prepared by the task of that name alone.
LEMMA AttackPlan ==
  \A t \in Tasks : \A n \in DOMAIN Plan[t] : Plan[t][n] = "attack" => t = "attack"
<1>1. Tasks \subseteq {"defaults", "attack", "worker"}
  BY PreparationAssumption DEF Plan
<1>. QED BY <1>1 DEF Plan

\* A kernel that is missing costs the item after it, and that alone.
LEMMA AfterKernel ==
  \A t \in Tasks : \A n \in DOMAIN Plan[t] :
    Plan[t][n] = "kernel" => n + 1 \in DOMAIN Plan[t] /\ Plan[t][n + 1] \in {"rootfs", "attack"}
<1>1. Tasks \subseteq {"defaults", "attack", "worker"}
  BY PreparationAssumption DEF Plan
<1>. QED BY <1>1 DEF Plan

-----------------------------------------------------------------------------
(* Where a task is.                                                         *)

\* Where a task can be with which item of its plan.
PlaceInv == \A t \in Tasks :
  /\ cl[t].at = "download" => Item(t) = "kernel"
  /\ cl[t].at = "poll" => Item(t) \in Assets
  /\ cl[t].at = "convert" => Item(t) \in Exports
  /\ cl[t].at = "check" => Item(t) \in Exports \ {"converter"}
  /\ cl[t].at = "register" => Item(t) \in {"rootfs", "base", "attack", "extra"}

\* While the orchestrator is down no task is anywhere, and it has a life left.
LifeInv == ~up => boot < MaxBoots /\ \A t \in Tasks : cl[t] = End

\* The type of a task's place, from TypeOK.
Places == {"look", "download", "poll", "convert", "check", "register"}
ClTypeOK ==
  /\ cl \in [Tasks -> {End} \cup [at : Places, step : 1 .. 4]]
  /\ \A t \in Tasks : cl[t] # End => cl[t].step \in DOMAIN Plan[t]

\* TypeOK contains it.
LEMMA PlaceType == TypeOK => ClTypeOK
  BY DEF TypeOK, ClTypeOK, Places

\* A task that is somewhere is at an item of its plan.
LEMMA AtItem ==
  ASSUME ClTypeOK, NEW t \in Tasks, cl[t].at # "end"
  PROVE  /\ cl[t] # End /\ cl[t] \in [at : Places, step : 1 .. 4]
         /\ cl[t].step \in DOMAIN Plan[t]
         /\ Item(t) \in Assets \cup {"kernel"}
  BY PlanShape DEF ClTypeOK, End, Item

\* A task at the end has no other place.
LEMMA EndOrAt == ASSUME ClTypeOK, NEW t \in Tasks PROVE cl[t] = End <=> cl[t].at = "end"
  BY DEF ClTypeOK, End, Places

\* The job of an asset in this life is one of the jobs.
LEMMA JobType ==
  ASSUME TypeOK, NEW t \in Tasks, Item(t) \in Assets
  PROVE  Job(t) \in Jobs /\ AssetOf(Job(t)) = Item(t) /\ Job(t)[2] = boot
  BY PreparationAssumption DEF TypeOK, Job, AllJobs, AssetOf

\* To go elsewhere with the same item keeps the types.
LEMMA GoToType ==
  ASSUME ClTypeOK, NEW t \in Tasks, cl[t].at # "end", NEW where \in Places, GoTo(t, where)
  PROVE  /\ ClTypeOK'
         /\ cl' = [cl EXCEPT ![t] = cl'[t]]
         /\ cl'[t].at = where /\ cl'[t].step = cl[t].step /\ Item(t)' = Item(t)
         /\ cl'[t] # End
<1>1. cl'[t] = [at |-> where, step |-> cl[t].step] /\ cl' = [cl EXCEPT ![t] = cl'[t]]
  BY AtItem DEF GoTo, ClTypeOK
<1>2. cl'[t] \in [at : Places, step : 1 .. 4] /\ cl'[t] # End
  BY <1>1, AtItem DEF End
<1>. QED BY <1>1, <1>2, AtItem DEF ClTypeOK, Item

\* To go on in the plan keeps the types; it leads to a later item or to the end.
LEMMA AdvanceType ==
  ASSUME ClTypeOK, NEW t \in Tasks, cl[t].at # "end", NEW n \in {1, 2}, Advance(t, n)
  PROVE  /\ ClTypeOK'
         /\ cl' = [cl EXCEPT ![t] = cl'[t]]
         /\ \/ cl'[t] = End /\ cl[t].step + n > Len(Plan[t])
            \/ cl'[t].at = "look" /\ cl'[t].step = cl[t].step + n
         /\ cl'[t].at \in {"look", "end"}
<1>. DEFINE next == [at |-> "look", step |-> cl[t].step + n]
<1>1. cl' = [cl EXCEPT ![t] = IF cl[t].step + n > Len(Plan[t]) THEN End ELSE next]
  BY DEF Advance
<1>2. cl[t].step \in 1 .. 4 /\ Len(Plan[t]) \in 1 .. 4 /\ DOMAIN Plan[t] = 1 .. Len(Plan[t])
  BY AtItem, PlanShape
<1>3. CASE cl[t].step + n > Len(Plan[t])
  <2>1. cl' = [cl EXCEPT ![t] = End] /\ cl'[t] = End
    BY <1>1, <1>3 DEF ClTypeOK
  <2>. QED BY <1>3, <2>1 DEF ClTypeOK, End
<1>4. CASE ~(cl[t].step + n > Len(Plan[t]))
  <2>1. cl' = [cl EXCEPT ![t] = next] /\ cl'[t] = next
    BY <1>1, <1>4 DEF ClTypeOK
  <2>2. cl[t].step + n \in 1 .. 4 /\ cl[t].step + n \in DOMAIN Plan[t]
    <3>1. \A k, l \in 1 .. 4 : ~(k + n > l) => k + n \in 1 .. 4 /\ k + n \in 1 .. l
      OBVIOUS
    <3>. QED BY <1>2, <1>4, <3>1
  <2>3. next \in [at : Places, step : 1 .. 4] /\ next.step \in DOMAIN Plan[t]
    BY <2>2 DEF Places
  <2>4. next # End
    BY DEF End
  <2>5. cl'[t].at = "look" /\ cl'[t].step = cl[t].step + n
    BY <2>1
  <2>6. cl' \in [Tasks -> {End} \cup [at : Places, step : 1 .. 4]]
    BY <2>1, <2>3 DEF ClTypeOK
  <2>7. \A u \in Tasks : cl'[u] # End => cl'[u].step \in DOMAIN Plan[u]
    BY <2>1, <2>3 DEF ClTypeOK
  <2>8. cl' = [cl EXCEPT ![t] = cl'[t]]
    BY <2>1
  <2>. HIDE DEF next
  <2>. QED BY <2>5, <2>6, <2>7, <2>8 DEF ClTypeOK
<1>. QED BY <1>3, <1>4

\* Where a task goes when its item is there.
LEMMA SucceedType ==
  ASSUME TypeOK, NEW t \in Tasks, cl[t].at # "end", Succeed(t)
  PROVE  /\ ClTypeOK'
         /\ cl' = [cl EXCEPT ![t] = cl'[t]]
         /\ attackStatus' \in {"idle", "building", "ready", "failed"}
         /\ row' = row
<1>1. CASE Item(t) \in {"rootfs", "base", "attack", "extra"}
  BY <1>1, PlaceType, GoToType DEF Succeed, Places, TypeOK
<1>2. CASE Item(t) \notin {"rootfs", "base", "attack", "extra"}
  BY <1>2, PlaceType, AdvanceType DEF Succeed, TypeOK
<1>. QED BY <1>1, <1>2

\* Where a task goes when its item is not to be had.
LEMMA FailType ==
  ASSUME TypeOK, NEW t \in Tasks, cl[t].at # "end", Fail(t)
  PROVE  /\ ClTypeOK'
         /\ cl' = [cl EXCEPT ![t] = cl'[t]]
         /\ attackStatus' \in {"idle", "building", "ready", "failed"}
         /\ row' \in {"pending", "converting", "ready", "failed"}
         /\ cl'[t].at \in {"look", "end"}
  BY PlaceType, AdvanceType DEF Fail, TypeOK

\* A task takes steps while the orchestrator is up and the task is somewhere.
LEMMA Somewhere ==
  ASSUME NEW t \in Tasks, Client(t)
  PROVE  up /\ cl[t].at # "end"
  BY DEF Client, Keep, BeginDownload, EndDownload, DownloadFails, Order, OrderFails, PollReady,
     PollFails, GiveUp, ConvertBase, Convert, ConvertFails, Check, Register, RegisterTimesOut, At

-----------------------------------------------------------------------------
(* Type correctness.                                                        *)

\* A mishap is counted up to the bound.
LEMMA MishapType ==
  ASSUME mishaps \in 0 .. MaxMishaps, NEW kind, Mishap(kind)
  PROVE  mishaps' \in 0 .. MaxMishaps
  BY BuilderAssumption DEF Mishap

\* The queue of the service stays a sequence of jobs.
LEMMA QueueType ==
  ASSUME queue \in Seq(Jobs), NEW j \in Jobs
  PROVE  /\ Append(queue, j) \in Seq(Jobs)
         /\ queue # <<>> => Tail(queue) \in Seq(Jobs)
  BY AppendProperties, HeadTailProperties

\* The variables other than the places of tasks.
FilesTypeOK ==
  /\ up \in BOOLEAN /\ boot \in 1 .. MaxBoots
  /\ image \in [Assets -> {"none", "broken", "whole"}]
  /\ kernel \in {"none", "torn", "whole"} /\ part \in Tasks \cup {"nobody"}
  /\ offered \in SUBSET ({"kernel"} \cup Assets)
  /\ attackStatus \in {"idle", "building", "ready", "failed"}
  /\ row \in {"pending", "converting", "ready", "failed"}
  /\ undeleted \in SUBSET Jobs
  /\ unverified \in SUBSET Assets /\ missed \in SUBSET ({"kernel"} \cup Assets)
  /\ overlapped \in BOOLEAN

\* The three parts of TypeOK, of this state and of the next.
LEMMA TypeParts ==
  /\ TypeOK <=> BuilderTypeOK /\ ClTypeOK /\ FilesTypeOK
  /\ TypeOK' <=> BuilderTypeOK' /\ ClTypeOK' /\ FilesTypeOK'
  BY DEF TypeOK, ClTypeOK, FilesTypeOK, Places

\* The initial states have the types.
LEMMA InitType == Init => TypeOK
<1>. SUFFICES ASSUME Init PROVE TypeOK
  OBVIOUS
<1>1. BuilderTypeOK
  BY EmptySeq, BuilderAssumption DEF Init, BuilderInit, BuilderTypeOK
<1>2. ClTypeOK
  <2>1. Start \in [at : Places, step : 1 .. 4] /\ \A t \in Tasks : Start.step \in DOMAIN Plan[t]
    BY PlanShape DEF Start, Places
  <2>. QED BY <2>1 DEF Init, ClTypeOK
<1>3. FilesTypeOK
  <2>1. 1 \in 1 .. MaxBoots
    BY PreparationAssumption
  <2>. QED BY <2>1 DEF Init, FilesTypeOK
<1>. QED BY <1>1, <1>2, <1>3, TypeParts

\* Posting and leaving a job keeps the types of the service.
LEMMA DeleteType ==
  ASSUME BuilderTypeOK, undeleted \in SUBSET Jobs, NEW j \in Jobs, Delete(j),
         tar' \in {tar, [tar EXCEPT ![j] = "none"]}, late' \in {late, late \cup {j}},
         mishaps' \in 0 .. MaxMishaps
  PROVE  BuilderTypeOK' /\ undeleted' \in SUBSET Jobs
  BY DEF Delete, Forget, tarOnly, BuilderTypeOK

\* A job that is posted is recorded, queued and given its work directory.
LEMMA AcceptType ==
  ASSUME BuilderTypeOK, NEW j \in Jobs, Accept(j), late' \in {late, late \cup {j}},
         mishaps' \in 0 .. MaxMishaps
  PROVE  BuilderTypeOK'
  BY QueueType DEF Accept, BuilderTypeOK, Working

\* Every step of a task of the orchestrator keeps the types.
LEMMA ClientType ==
  ASSUME TypeOK, PlaceInv, NEW t \in Tasks, Client(t)
  PROVE  TypeOK'
<1>0. BuilderTypeOK /\ ClTypeOK /\ FilesTypeOK
  BY TypeParts
<1>a. cl[t].at # "end"
  BY Somewhere
<1>b. Item(t) \in Assets \cup {"kernel"}
  BY <1>0, <1>a, AtItem
<1>c. cl[t].at = "poll" \/ Item(t) # "kernel" => Item(t) \in Assets /\ Job(t) \in Jobs
  BY <1>b, JobType DEF PlaceInv
<1>. USE <1>0, <1>a, <1>b
<1>1. CASE Keep(t)
  BY <1>1, SucceedType, TypeParts
  DEF Keep, builderVars, serviceVars, files, worlds, BuilderTypeOK, FilesTypeOK
<1>2. CASE BeginDownload(t)
  BY <1>2, GoToType, TypeParts
  DEF BeginDownload, builderVars, serviceVars, worlds, BuilderTypeOK, FilesTypeOK, Places
<1>3. CASE EndDownload(t)
  BY <1>3, SucceedType, FailType, TypeParts
  DEF EndDownload, builderVars, serviceVars, BuilderTypeOK, FilesTypeOK
<1>4. CASE DownloadFails(t)
  BY <1>4, FailType, MishapType, TypeParts
  DEF DownloadFails, serviceVars, files, BuilderTypeOK, FilesTypeOK
<1>5. CASE Order(t)
  <2>1. BuilderTypeOK'
    BY <1>5, <1>c, AcceptType DEF Order, BuilderTypeOK
  <2>2. ClTypeOK' /\ FilesTypeOK'
    BY <1>5, GoToType DEF Order, files, worlds, FilesTypeOK, Places
  <2>. QED BY <2>1, <2>2, TypeParts
<1>6. CASE OrderFails(t)
  <2>1. BuilderTypeOK'
    BY <1>6, <1>c, AcceptType, MishapType DEF OrderFails, builderVars, serviceVars, BuilderTypeOK
  <2>2. ClTypeOK' /\ FilesTypeOK'
    BY <1>6, <1>c, FailType DEF OrderFails, files, worlds, FilesTypeOK
  <2>. QED BY <2>1, <2>2, TypeParts
<1>7. CASE PollReady(t)
  <2>1. BuilderTypeOK' /\ undeleted' \in SUBSET Jobs
    BY <1>7, <1>c, DeleteType DEF PollReady, At, BuilderTypeOK, FilesTypeOK
  <2>2. ClTypeOK' /\ FilesTypeOK'
    BY <1>7, <2>1, SucceedType, GoToType DEF PollReady, files, worlds, FilesTypeOK, Places
  <2>. QED BY <2>1, <2>2, TypeParts
<1>8. CASE PollFails(t)
  <2>1. BuilderTypeOK' /\ undeleted' \in SUBSET Jobs
    BY <1>8, <1>c, DeleteType DEF PollFails, At, DropTar, BuilderTypeOK, FilesTypeOK
  <2>2. ClTypeOK' /\ FilesTypeOK'
    BY <1>8, <2>1, FailType DEF PollFails, files, worlds, FilesTypeOK
  <2>. QED BY <2>1, <2>2, TypeParts
<1>9. CASE GiveUp(t)
  <2>0. late' \in {late, late \cup {Job(t)}} /\ mishaps' \in 0 .. MaxMishaps
    BY <1>9, MishapType DEF GiveUp, LeaveEarly, BuilderTypeOK
  <2>1. BuilderTypeOK' /\ undeleted' \in SUBSET Jobs
    BY <1>9, <1>c, <2>0, DeleteType DEF GiveUp, At, DropTar, FilesTypeOK
  <2>2. ClTypeOK' /\ FilesTypeOK'
    BY <1>9, <2>1, FailType DEF GiveUp, files, worlds, FilesTypeOK
  <2>. QED BY <2>1, <2>2, TypeParts
<1>10. CASE ConvertBase(t)
  <2>1. BuilderTypeOK'
    BY <1>10 DEF ConvertBase, DropTar, tarOnly, BuilderTypeOK
  <2>2. ClTypeOK' /\ FilesTypeOK'
    BY <1>10, SucceedType DEF ConvertBase, worlds, FilesTypeOK
  <2>. QED BY <2>1, <2>2, TypeParts
<1>11. CASE Convert(t)
  <2>1. BuilderTypeOK'
    BY <1>11, MishapType DEF Convert, serviceVars, BuilderTypeOK
  <2>2. ClTypeOK' /\ FilesTypeOK'
    BY <1>11, GoToType DEF Convert, worlds, FilesTypeOK, Places
  <2>. QED BY <2>1, <2>2, TypeParts
<1>12. CASE ConvertFails(t)
  <2>1. BuilderTypeOK'
    BY <1>12, MishapType DEF ConvertFails, DropTar, tarOnly, BuilderTypeOK
  <2>2. ClTypeOK' /\ FilesTypeOK'
    BY <1>12, FailType DEF ConvertFails, files, worlds, FilesTypeOK
  <2>. QED BY <2>1, <2>2, TypeParts
<1>13. CASE Check(t)
  <2>1. BuilderTypeOK'
    BY <1>13 DEF Check, DropTar, tarOnly, BuilderTypeOK
  <2>2. ClTypeOK' /\ FilesTypeOK'
    BY <1>13, SucceedType, FailType DEF Check, worlds, FilesTypeOK
  <2>. QED BY <2>1, <2>2, TypeParts
<1>14. CASE Register(t)
  <2>1. BuilderTypeOK'
    BY <1>14 DEF Register, builderVars, serviceVars, BuilderTypeOK
  <2>2. ClTypeOK'
    BY <1>14, AdvanceType DEF Register
  <2>3. FilesTypeOK'
    BY <1>14 DEF Register, files, FilesTypeOK, Assets, Exports, Images
  <2>. QED BY <2>1, <2>2, <2>3, TypeParts
<1>15. CASE RegisterTimesOut(t)
  <2>1. BuilderTypeOK'
    BY <1>15, MishapType DEF RegisterTimesOut, serviceVars, BuilderTypeOK
  <2>2. ClTypeOK' /\ FilesTypeOK'
    BY <1>15, FailType, AdvanceType DEF RegisterTimesOut, files, FilesTypeOK
  <2>. QED BY <2>1, <2>2, TypeParts
<1>. QED
  BY <1>1, <1>2, <1>3, <1>4, <1>5, <1>6, <1>7, <1>8, <1>9, <1>10, <1>11, <1>12, <1>13, <1>14, <1>15
  DEF Client

\* Every step of the service keeps the types.
LEMMA WorkType ==
  ASSUME TypeOK, NEW j \in Jobs, Work(j)
  PROVE  TypeOK'
<1>0. BuilderTypeOK /\ ClTypeOK /\ FilesTypeOK
  BY TypeParts
<1>1. ASSUME UNCHANGED clientVars PROVE ClTypeOK' /\ FilesTypeOK'
  BY <1>0, <1>1 DEF clientVars, ClTypeOK, FilesTypeOK
<1>2. ASSUME Enter(j) \/ RunEnds(j) PROVE BuilderTypeOK'
  BY <1>0, <1>2, QueueType DEF Enter, RunEnds, BuilderTypeOK, Working, InPlace
<1>3. ASSUME Exported(j) PROVE BuilderTypeOK'
  BY <1>0, <1>3 DEF Exported, Leave, BuilderTypeOK, Working, InPlace
<1>4. ASSUME JobFails(j) \/ JobTimesOut(j) PROVE BuilderTypeOK'
  BY <1>0, <1>4, MishapType DEF JobFails, JobTimesOut, Leave, BuilderTypeOK, Working
<1>5. ASSUME CleanUp(j) PROVE BuilderTypeOK'
  BY <1>0, <1>5, MishapType DEF CleanUp, BuilderTypeOK
<1>6. CASE PutInPlace(j)
  <2>1. BuilderTypeOK'
    BY <1>0, <1>6 DEF PutInPlace, Converted, Leave, BuilderTypeOK, Working
  <2>2. ClTypeOK' /\ FilesTypeOK'
    BY <1>0, <1>6 DEF PutInPlace, ClTypeOK, FilesTypeOK
  <2>. QED BY <2>1, <2>2, TypeParts
<1>7. CASE (Enter(j) \/ RunEnds(j) \/ Exported(j) \/ JobFails(j) \/ JobTimesOut(j) \/ CleanUp(j))
           /\ UNCHANGED clientVars
  BY <1>1, <1>2, <1>3, <1>4, <1>5, <1>7, TypeParts
<1>. QED BY <1>6, <1>7 DEF Work

\* The jobs of tasks that poll or convert.
LEMMA JobsOfType ==
  ASSUME TypeOK, PlaceInv
  PROVE  JobsOf(Polling) \subseteq Jobs /\ JobsOf(Polling \cup Converting) \subseteq Jobs
<1>1. \A t \in Polling \cup Converting : t \in Tasks /\ Item(t) \in Assets
  BY DEF PlaceInv, Polling, Converting, Assets
<1>. QED BY <1>1, JobType DEF JobsOf, Polling, Converting

\* Ends and starts of the two processes keep the types.
LEMMA ProcessType ==
  ASSUME TypeOK, PlaceInv, LifeInv,
         \/ (BuilderCrash \/ BuilderStart) /\ UNCHANGED clientVars
         \/ Crash \/ Shutdown \/ Boot
  PROVE  TypeOK'
<1>0. BuilderTypeOK /\ ClTypeOK /\ FilesTypeOK
  BY TypeParts
<1>1. CASE (BuilderCrash \/ BuilderStart) /\ UNCHANGED clientVars
  <2>1. BuilderTypeOK'
    <3>1. CASE BuilderCrash
      BY <1>0, <3>1, MishapType, EmptySeq, BuilderAssumption DEF BuilderCrash, BuilderTypeOK
    <3>2. CASE BuilderStart
      BY <1>0, <3>2, MishapType DEF BuilderStart, BuilderTypeOK
    <3>. QED BY <1>1, <3>1, <3>2
  <2>2. ClTypeOK' /\ FilesTypeOK'
    BY <1>0, <1>1 DEF clientVars, ClTypeOK, FilesTypeOK
  <2>. QED BY <2>1, <2>2, TypeParts
<1>2. ASSUME Down PROVE ClTypeOK' /\ (undeleted' \in SUBSET Jobs => FilesTypeOK')
  <2>1. ClTypeOK'
    BY <1>2 DEF Down, ClTypeOK
  <2>2. {Item(t) : t \in {u \in Tasks : cl[u].at = "check"}} \subseteq Assets
    BY DEF PlaceInv, Assets
  <2>3. undeleted' \in SUBSET Jobs => FilesTypeOK'
    BY <1>0, <1>2, <2>2 DEF Down, FilesTypeOK
  <2>. QED BY <2>1, <2>3
<1>3. CASE Crash
  <2>1. undeleted' \in SUBSET Jobs
    BY <1>0, <1>3, JobsOfType DEF Crash, FilesTypeOK
  <2>2. BuilderTypeOK'
    BY <1>0, <1>3, MishapType, JobsOfType DEF Crash, tarOnly, BuilderTypeOK
  <2>. QED BY <1>2, <1>3, <2>1, <2>2, TypeParts DEF Crash
<1>4. CASE Shutdown
  <2>1. BuilderTypeOK'
    BY <1>0, <1>4, MishapType, JobsOfType DEF Shutdown, LeaveEarly, BuilderTypeOK
  <2>. QED BY <1>0, <1>2, <1>4, <2>1, TypeParts DEF Shutdown, FilesTypeOK
<1>5. CASE Boot
  <2>1. BuilderTypeOK'
    BY <1>0, <1>5 DEF Boot, builderVars, serviceVars, BuilderTypeOK
  <2>2. Start \in [at : Places, step : 1 .. 4] /\ \A t \in Tasks : Start.step \in DOMAIN Plan[t]
    BY PlanShape DEF Start, Places
  <2>3. ClTypeOK'
    BY <1>5, <2>2 DEF Boot, ClTypeOK
  <2>4. boot' \in 1 .. MaxBoots
    BY <1>0, <1>5, PreparationAssumption DEF Boot, LifeInv, FilesTypeOK
  <2>5. FilesTypeOK'
    BY <1>0, <1>5, <2>4 DEF Boot, files, FilesTypeOK
  <2>. QED BY <2>1, <2>3, <2>5, TypeParts
<1>. QED BY <1>1, <1>3, <1>4, <1>5

-----------------------------------------------------------------------------
(* Places, one step.                                                        *)

\* A task that goes on, succeeds or fails changes its own place only.
LEMMA OwnPlace ==
  ASSUME TypeOK, NEW t \in Tasks, NEW u \in Tasks \ {t}, cl' = [cl EXCEPT ![t] = cl'[t]]
  PROVE  cl'[u] = cl[u] /\ Item(u)' = Item(u) /\ (boot' = boot => Job(u)' = Job(u))
  BY DEF TypeOK, Item, Job

\* Success leads to the registration of what is recorded, or on.
LEMMA SucceedPlace ==
  ASSUME TypeOK, NEW t \in Tasks, cl[t].at # "end", Succeed(t)
  PROVE  \/ cl'[t].at \in {"look", "end"}
         \/ /\ cl'[t].at = "register" /\ Item(t)' = Item(t)
            /\ Item(t) \in {"rootfs", "base", "attack", "extra"}
<1>1. CASE Item(t) \in {"rootfs", "base", "attack", "extra"}
  BY <1>1, PlaceType, GoToType DEF Succeed, Places
<1>2. CASE Item(t) \notin {"rootfs", "base", "attack", "extra"}
  BY <1>2, PlaceType, AdvanceType DEF Succeed
<1>. QED BY <1>1, <1>2

\* A task of the orchestrator keeps to the places of its items.
LEMMA ClientPlace ==
  ASSUME TypeOK, PlaceInv, NEW t \in Tasks, Client(t)
  PROVE  PlaceInv' /\ up /\ up' /\ boot' = boot /\ cl' = [cl EXCEPT ![t] = cl'[t]]
<1>0. up /\ up' /\ boot' = boot /\ cl[t].at # "end"
  BY DEF Client, Keep, BeginDownload, EndDownload, DownloadFails, Order, OrderFails, PollReady,
     PollFails, GiveUp, ConvertBase, Convert, ConvertFails, Check, Register, RegisterTimesOut, At,
     worlds
<1>. DEFINE Placed(u) ==
       /\ cl[u].at = "download" => Item(u) = "kernel"
       /\ cl[u].at = "poll" => Item(u) \in Assets
       /\ cl[u].at = "convert" => Item(u) \in Exports
       /\ cl[u].at = "check" => Item(u) \in Exports \ {"converter"}
       /\ cl[u].at = "register" => Item(u) \in {"rootfs", "base", "attack", "extra"}
<1>p. PlaceInv <=> \A u \in Tasks : Placed(u)
  BY DEF PlaceInv
<1>i. Item(t) \in Assets \cup {"kernel"} /\ Placed(t)
  BY <1>0, <1>p, PlaceType, AtItem
<1>s. ASSUME Succeed(t) PROVE Placed(t)' /\ cl' = [cl EXCEPT ![t] = cl'[t]]
  BY <1>0, <1>s, SucceedType, SucceedPlace
<1>f. ASSUME Fail(t) PROVE Placed(t)' /\ cl' = [cl EXCEPT ![t] = cl'[t]]
  BY <1>0, <1>f, FailType
<1>g. ASSUME NEW where \in Places, GoTo(t, where)
      PROVE  /\ cl'[t].at = where /\ Item(t)' = Item(t)
             /\ cl' = [cl EXCEPT ![t] = cl'[t]]
  BY <1>0, <1>g, PlaceType, GoToType
<1>1. Placed(t)' /\ cl' = [cl EXCEPT ![t] = cl'[t]]
  <2>1. CASE Keep(t) \/ ConvertBase(t)
    BY <2>1, <1>s DEF Keep, ConvertBase
  <2>2. CASE BeginDownload(t)
    BY <2>2, <1>g DEF BeginDownload, Places
  <2>3. CASE EndDownload(t) \/ Check(t)
    BY <2>3, <1>s, <1>f DEF EndDownload, Check
  <2>4. CASE DownloadFails(t) \/ OrderFails(t) \/ PollFails(t) \/ GiveUp(t) \/ ConvertFails(t)
    BY <2>4, <1>f DEF DownloadFails, OrderFails, PollFails, GiveUp, ConvertFails
  <2>5. CASE Order(t)
    BY <2>5, <1>g, <1>i DEF Order, Places
  <2>6. CASE PollReady(t)
    <3>1. CASE Item(t) \in Images
      BY <2>6, <3>1, <1>s DEF PollReady
    <3>2. CASE Item(t) \notin Images
      BY <2>6, <3>2, <1>g, <1>i DEF PollReady, At, Places, Assets
    <3>. QED BY <3>1, <3>2
  <2>7. CASE Convert(t)
    BY <2>7, <1>g, <1>i DEF Convert, At, Places
  <2>8. CASE Register(t) \/ RegisterTimesOut(t)
    <3>1. ASSUME Advance(t, 1) PROVE Placed(t)' /\ cl' = [cl EXCEPT ![t] = cl'[t]]
      BY <1>0, <3>1, PlaceType, AdvanceType
    <3>. QED BY <2>8, <3>1, <1>f DEF Register, RegisterTimesOut
  <2>. QED BY <2>1, <2>2, <2>3, <2>4, <2>5, <2>6, <2>7, <2>8 DEF Client
<1>2. ASSUME NEW u \in Tasks \ {t} PROVE Placed(u)'
  BY <1>1, <1>p, OwnPlace
<1>3. PlaceInv'
  BY <1>1, <1>2 DEF PlaceInv
<1>. QED BY <1>0, <1>1, <1>3

\* Every step keeps tasks in the places of their items, and a life in hand while down.
LEMMA PlaceStep ==
  ASSUME TypeOK, PlaceInv, LifeInv, Next
  PROVE  PlaceInv' /\ LifeInv'
<1>1. ASSUME NEW t \in Tasks, Client(t) PROVE PlaceInv' /\ LifeInv'
  BY <1>1, ClientPlace DEF LifeInv
<1>2. ASSUME UNCHANGED <<up, boot, cl>> PROVE PlaceInv' /\ LifeInv'
  BY <1>2 DEF PlaceInv, LifeInv, Item
<1>3. ASSUME NEW j \in Jobs, Work(j) PROVE PlaceInv' /\ LifeInv'
  BY <1>2, <1>3 DEF Work, PutInPlace, clientVars
<1>4. CASE UNCHANGED clientVars
  BY <1>2, <1>4 DEF clientVars
<1>5. ASSUME Down PROVE PlaceInv' /\ LifeInv'
  BY <1>5, PreparationAssumption DEF Down, PlaceInv, LifeInv, End, TypeOK
<1>6. CASE Boot
  BY <1>6 DEF Boot, PlaceInv, LifeInv, End, Start
<1>. QED BY <1>1, <1>3, <1>4, <1>5, <1>6 DEF Next, Crash, Shutdown

\* Every step keeps the types.
LEMMA TypeStep ==
  ASSUME TypeOK, PlaceInv, LifeInv, Next
  PROVE  TypeOK'
  BY ClientType, WorkType, ProcessType DEF Next

\* In the initial states every task looks for its first item.
LEMMA InitPlace == Init => PlaceInv /\ LifeInv
  BY DEF Init, PlaceInv, LifeInv, Start

\* A stuttering step changes nothing of this.
LEMMA StutterPlace == TypeOK /\ PlaceInv /\ LifeInv /\ UNCHANGED vars => (TypeOK /\ PlaceInv /\ LifeInv)'
  BY DEF vars, builderVars, serviceVars, clientVars, TypeOK, BuilderTypeOK, PlaceInv, LifeInv, Item

\* The types and places together are inductive.
THEOREM PlacesInvariant == Spec => [](TypeOK /\ PlaceInv /\ LifeInv)
<1>1. TypeOK /\ PlaceInv /\ LifeInv /\ [Next]_vars => (TypeOK /\ PlaceInv /\ LifeInv)'
  BY TypeStep, PlaceStep, StutterPlace
<1>. QED BY InitType, InitPlace, <1>1, PTL DEF Spec

\* Every variable keeps its type, whatever tasks, service and mishaps do.
THEOREM TypeCorrect == Spec => []TypeOK
  BY PlacesInvariant, PTL

-----------------------------------------------------------------------------
(* The service: containers, work directories and the one place.             *)

\* A job's task that waits for its place or is in it.
Building == {"queued"} \cup InPlace

\* Who waits is queued, once.
QueueInv ==
  /\ \A n \in DOMAIN queue : task[queue[n]] = "queued"
  /\ \A m, n \in DOMAIN queue : queue[m] = queue[n] => m = n
  /\ ~serving => queue = <<>>

\* Without the service there is no record and no task at work; one task is in the place.
TasksInv ==
  /\ ~serving => \A j \in Jobs : rec[j] = "none" /\ task[j] \in {"none", "ended"}
  /\ \A i, j \in Jobs : task[i] \in InPlace /\ task[j] \in InPlace => i = j
  /\ \A j \in Jobs : task[j] = "convert" => j \in BuildJobs

\* What a job has in dockerd and under /tmp, its task will remove, or tried to.
KeptInv == serving => \A j \in Jobs :
  /\ container[j] # "none" => j \in stray \/ task[j] \in InPlace \cup {"cleanup"}
  /\ j \in scratch => task[j] \in Working

\* What a record says of the job's task.
RecInv == \A j \in Jobs :
  /\ rec[j] = "running" => task[j] \in Building
  /\ rec[j] \in {"ready", "failed"} => task[j] \in {"cleanup", "ended"}

ServiceInv == QueueInv /\ TasksInv /\ KeptInv /\ RecInv

\* What a task of the orchestrator does to the service: nothing, post a job, or give
\* one up and have its record deleted.
LEMMA ClientService ==
  ASSUME TypeOK, PlaceInv, NEW t \in Tasks, Client(t)
  PROVE  \/ /\ UNCHANGED tarOnly /\ UNCHANGED undeleted
            /\ late' = late
            /\ cl[t].at # "poll" /\ cl'[t].at # "poll"
         \/ /\ Accept(Job(t)) /\ cl[t].at = "look" /\ Job(t) \in Jobs /\ Item(t) \in Assets
            /\ tar' = tar
            /\ \/ cl'[t].at = "poll" /\ Item(t)' = Item(t) /\ UNCHANGED <<late, undeleted>>
               \/ /\ cl'[t].at # "poll"
                  /\ late' = late \cup {Job(t)} /\ undeleted' = undeleted \cup {Job(t)}
         \/ /\ Delete(Job(t)) /\ cl[t].at = "poll" /\ Job(t) \in Jobs
            /\ cl'[t].at # "poll"
            /\ \/ Status(Job(t)) = "ready" /\ late' = late
               \/ Status(Job(t)) \in {"failed", "none", "unreachable"} /\ late' = late
               \/ LeaveEarly({Job(t)})
<1>0. cl[t].at # "end"
  BY Somewhere
<1>1. Item(t) \in Assets \cup {"kernel"}
  BY <1>0, PlaceType, AtItem
<1>2. ASSUME NEW where \in Places, GoTo(t, where)
      PROVE  cl'[t].at = where /\ Item(t)' = Item(t)
  BY <1>0, <1>2, PlaceType, GoToType
<1>3. ASSUME Succeed(t) PROVE cl'[t].at # "poll"
  BY <1>0, <1>3, SucceedPlace
<1>4. ASSUME Fail(t) PROVE cl'[t].at # "poll"
  BY <1>0, <1>4, FailType
<1>5. cl[t].at = "poll" \/ Item(t) # "kernel" => Item(t) \in Assets /\ Job(t) \in Jobs
  BY <1>1, JobType DEF PlaceInv
<1>6. CASE Keep(t) \/ EndDownload(t) \/ DownloadFails(t)
  BY <1>3, <1>4, <1>6 DEF Keep, EndDownload, DownloadFails, At, builderVars, serviceVars, tarOnly
<1>7. CASE BeginDownload(t)
  BY <1>2, <1>7 DEF BeginDownload, At, builderVars, serviceVars, tarOnly, Places
<1>8. CASE Order(t)
  BY <1>2, <1>5, <1>8 DEF Order, At, Accept, Places
<1>9. CASE OrderFails(t)
  BY <1>4, <1>5, <1>9 DEF OrderFails, At, Accept, builderVars, serviceVars, tarOnly
<1>10. CASE PollReady(t)
  <2>1. cl'[t].at # "poll"
    BY <1>2, <1>3, <1>10 DEF PollReady, Places
  <2>. QED BY <1>5, <1>10, <2>1 DEF PollReady, At
<1>11. CASE PollFails(t) \/ GiveUp(t)
  BY <1>4, <1>5, <1>11 DEF PollFails, GiveUp, At
<1>12. CASE ConvertBase(t) \/ ConvertFails(t) \/ Check(t)
  BY <1>3, <1>4, <1>12 DEF ConvertBase, ConvertFails, Check, At, tarOnly
<1>13. CASE Convert(t)
  BY <1>2, <1>13 DEF Convert, At, serviceVars, tarOnly, Places
<1>14. CASE Register(t) \/ RegisterTimesOut(t)
  <2>1. cl'[t].at # "poll"
    BY <1>0, <1>4, <1>14, PlaceType, AdvanceType DEF Register, RegisterTimesOut
  <2>. QED BY <1>14, <2>1
    DEF Register, RegisterTimesOut, At, builderVars, serviceVars, tarOnly
<1>. QED BY <1>6, <1>7, <1>8, <1>9, <1>10, <1>11, <1>12, <1>13, <1>14 DEF Client

\* Deleting a record keeps the invariant.
LEMMA ForgetService ==
  ASSUME BuilderTypeOK, ServiceInv, NEW S \in SUBSET Jobs,
         rec' = [j \in Jobs |-> IF serving /\ j \in S THEN "none" ELSE rec[j]],
         UNCHANGED <<serving, task, queue, container, scratch, stray>>
  PROVE  ServiceInv'
  BY DEF ServiceInv, QueueInv, TasksInv, KeptInv, RecInv, BuilderTypeOK

\* Posting a job keeps it.
LEMMA AcceptService ==
  ASSUME BuilderTypeOK, ServiceInv, NEW j \in Jobs, Accept(j)
  PROVE  ServiceInv'
<1>. USE DEF Accept, BuilderTypeOK, ServiceInv, Building, Working, InPlace
<1>1. QueueInv'
  <2>1. Len(queue') = Len(queue) + 1 /\ DOMAIN queue' = 1 .. Len(queue) + 1
        /\ DOMAIN queue = 1 .. Len(queue) /\ Len(queue) \in Nat
    BY AppendProperties, LenProperties
  <2>2. \A n \in DOMAIN queue' : queue'[n] = IF n = Len(queue) + 1 THEN j ELSE queue[n]
    BY <2>1, AppendProperties
  <2>3. \A n \in DOMAIN queue : queue[n] \in Jobs /\ task[queue[n]] = "queued" /\ queue[n] # j
    BY DEF QueueInv
  <2>4. \A n \in DOMAIN queue' : n = Len(queue) + 1 \/ n \in DOMAIN queue
    BY <2>1
  <2>5. \A n \in DOMAIN queue' : task'[queue'[n]] = "queued"
    BY <2>2, <2>3, <2>4
  <2>6. \A m, n \in DOMAIN queue' : queue'[m] = queue'[n] => m = n
    BY <2>2, <2>3, <2>4 DEF QueueInv
  <2>. QED BY <2>5, <2>6 DEF QueueInv
<1>2. TasksInv'
  BY DEF TasksInv
<1>3. KeptInv'
  BY DEF KeptInv
<1>4. RecInv'
  BY DEF RecInv
<1>. QED BY <1>1, <1>2, <1>3, <1>4

\* The first in the queue takes the place.
LEMMA EnterService ==
  ASSUME BuilderTypeOK, ServiceInv, NEW j \in Jobs, Enter(j)
  PROVE  ServiceInv'
<1>. USE DEF Enter, BuilderTypeOK, ServiceInv, Building, Working, InPlace
<1>1. /\ Len(queue) \in Nat \ {0} /\ DOMAIN queue = 1 .. Len(queue) /\ queue[1] = j
      /\ DOMAIN queue' = 1 .. Len(queue) - 1
      /\ \A n \in 1 .. Len(queue) - 1 : queue'[n] = queue[n + 1]
  BY HeadTailProperties, LenProperties, EmptySeq
<1>2. serving /\ task[j] = "queued"
  BY <1>1 DEF QueueInv
<1>3. QueueInv'
  <2>1. \A n \in DOMAIN queue' : n + 1 \in DOMAIN queue /\ queue'[n] = queue[n + 1]
    BY <1>1
  <2>2. ASSUME NEW n \in DOMAIN queue'
        PROVE  queue'[n] \in Jobs /\ queue'[n] # j /\ task[queue'[n]] = "queued"
    <3>1. n + 1 # 1 /\ 1 \in DOMAIN queue /\ n + 1 \in DOMAIN queue /\ queue'[n] = queue[n + 1]
      BY <1>1, <2>1
    <3>2. queue[n + 1] \in Jobs /\ task[queue[n + 1]] = "queued"
      BY <3>1 DEF QueueInv
    <3>3. queue[n + 1] # queue[1]
      BY <3>1 DEF QueueInv
    <3>. QED BY <1>1, <3>1, <3>2, <3>3
  <2>3. \A m, n \in DOMAIN queue' : m + 1 = n + 1 => m = n
    BY <1>1
  <2>. QED BY <1>2, <2>1, <2>2, <2>3 DEF QueueInv
<1>4. TasksInv'
  BY <1>2 DEF TasksInv, Occupied
<1>5. KeptInv'
  BY <1>2 DEF KeptInv
<1>6. RecInv'
  BY <1>2 DEF RecInv
<1>. QED BY <1>3, <1>4, <1>5, <1>6

\* A task that moves on inside its place, leaves it or cleans up keeps it.
LEMMA TaskService ==
  ASSUME BuilderTypeOK, ServiceInv, NEW j \in Jobs,
         RunEnds(j) \/ Exported(j) \/ Converted(j) \/ JobFails(j) \/ JobTimesOut(j) \/ CleanUp(j)
  PROVE  ServiceInv'
<1>. USE DEF RunEnds, Exported, Converted, JobFails, JobTimesOut, CleanUp, Leave, BuilderTypeOK,
     ServiceInv, Building, Working, InPlace
<1>1. serving
  BY DEF TasksInv
<1>2. task[j] # "queued" /\ UNCHANGED <<queue, serving>>
  OBVIOUS
<1>3. \A i \in Jobs \ {j} : /\ task'[i] = task[i] /\ rec'[i] = rec[i] /\ container'[i] = container[i]
                            /\ (i \in scratch' <=> i \in scratch) /\ (i \in stray' <=> i \in stray)
  OBVIOUS
<1>4. QueueInv'
  BY <1>1, <1>2, <1>3 DEF QueueInv
<1>5. /\ task'[j] \in InPlace => task[j] \in InPlace
      /\ task'[j] = "convert" => j \in BuildJobs
  OBVIOUS
<1>6. TasksInv'
  BY <1>1, <1>2, <1>3, <1>5 DEF TasksInv
<1>7. /\ container'[j] # "none" => j \in stray' \/ task'[j] \in InPlace \cup {"cleanup"}
      /\ j \in scratch' => task'[j] \in Working
  BY <1>1 DEF KeptInv
<1>8. KeptInv'
  BY <1>1, <1>3, <1>7 DEF KeptInv
<1>9. /\ rec'[j] = "running" => task'[j] \in Building
      /\ rec'[j] \in {"ready", "failed"} => task'[j] \in {"cleanup", "ended"}
  BY DEF RecInv
<1>10. RecInv'
  BY <1>3, <1>9 DEF RecInv
<1>. QED BY <1>4, <1>6, <1>8, <1>10

\* The end and the start of the service keep it.
LEMMA ProcessService ==
  ASSUME BuilderTypeOK, ServiceInv, BuilderCrash \/ BuilderStart
  PROVE  ServiceInv'
<1>. USE DEF BuilderTypeOK, ServiceInv, Building, Working, InPlace, QueueInv, TasksInv, KeptInv, RecInv
<1>1. CASE BuilderCrash
  BY <1>1 DEF BuilderCrash
<1>2. CASE BuilderStart
  BY <1>2 DEF BuilderStart
<1>. QED BY <1>1, <1>2

\* Every step keeps the invariant of the service.
LEMMA ServiceInvStep ==
  ASSUME TypeOK, PlaceInv, ServiceInv, Next
  PROVE  ServiceInv'
<1>0. BuilderTypeOK
  BY TypeParts
<1>1. ASSUME UNCHANGED tarOnly PROVE ServiceInv'
  BY <1>1 DEF tarOnly, ServiceInv, QueueInv, TasksInv, KeptInv, RecInv
<1>2. ASSUME NEW j \in Jobs, Forget(j) PROVE ServiceInv'
  <2>1. rec' = [i \in Jobs |-> IF serving /\ i \in {j} THEN "none" ELSE rec[i]]
    BY <1>0, <1>2 DEF Forget, BuilderTypeOK
  <2>. QED BY <1>0, <1>2, <2>1, ForgetService DEF Forget
<1>3. ASSUME NEW t \in Tasks, Client(t) PROVE ServiceInv'
  BY <1>0, <1>1, <1>2, <1>3, ClientService, AcceptService DEF Delete
<1>4. ASSUME NEW j \in Jobs, Work(j) PROVE ServiceInv'
  BY <1>0, <1>4, EnterService, TaskService DEF Work, PutInPlace
<1>5. CASE Crash \/ Boot
  BY <1>1, <1>5 DEF Crash, Boot, builderVars, serviceVars, tarOnly
<1>6. CASE Shutdown
  <2>1. JobsOf(Polling) \in SUBSET Jobs
    BY JobsOfType
  <2>. QED BY <1>0, <1>6, <2>1, ForgetService DEF Shutdown
<1>. QED BY <1>0, <1>3, <1>4, <1>5, <1>6, ProcessService DEF Next

\* The service starts with nothing at work, and stuttering changes nothing.
LEMMA ServiceInit == Init => ServiceInv
  BY EmptySeq DEF Init, BuilderInit, ServiceInv, QueueInv, TasksInv, KeptInv, RecInv, InPlace

\* A stuttering step keeps the invariant of the service.
LEMMA ServiceStutter == ServiceInv /\ UNCHANGED vars => ServiceInv'
  BY DEF vars, builderVars, serviceVars, ServiceInv, QueueInv, TasksInv, KeptInv, RecInv

\* The places and the service together are inductive.
THEOREM ServiceInvariant == Spec => []ServiceInv
<1>1. TypeOK /\ PlaceInv /\ ServiceInv /\ [Next]_vars => ServiceInv'
  BY ServiceInvStep, ServiceStutter
<1>. QED BY PlacesInvariant, ServiceInit, <1>1, PTL DEF Spec

\* The containers and work directories of the service are those of its tasks, and one
\* build container runs at a time (DockerIsTidy; MAX_CONCURRENT_BUILDS is 1).
THEOREM DockerStaysTidy == Spec => []DockerIsTidy
<1>1. TypeOK /\ ServiceInv => DockerIsTidy
  <2>. SUFFICES ASSUME TypeOK, ServiceInv, serving PROVE DockerIsTidy
    BY DEF DockerIsTidy, OneContainerRuns, BuilderLeavesNothing
  <2>. DEFINE running == {j \in Jobs : /\ container[j] = "running"
                                       /\ j \notin stray /\ task[j] # "cleanup"}
  <2>1. \A i, j \in running : i = j
    BY DEF ServiceInv, KeptInv, TasksInv
  <2>2. Cardinality(running) <= 1
    <3>1. CASE running = {}
      BY <3>1, FS_EmptySet
    <3>2. CASE running # {}
      <4>1. PICK i \in running : TRUE
        BY <3>2
      <4>2. running = {i}
        BY <2>1, <4>1
      <4>. HIDE DEF running
      <4>. QED BY <4>2, FS_Singleton
    <3>. QED BY <3>1, <3>2
  <2>3. OneContainerRuns
    BY <2>2 DEF OneContainerRuns
  <2>4. BuilderLeavesNothing
    BY DEF BuilderLeavesNothing, ServiceInv, KeptInv, Working
  <2>. QED BY <2>3, <2>4 DEF DockerIsTidy
<1>. QED BY PlacesInvariant, ServiceInvariant, <1>1, PTL

-----------------------------------------------------------------------------
(* Jobs and the tasks that wait for them.                                   *)

\* The job that a task of the running orchestrator polls, and polls or converts.
Polled(j) == up /\ \E t \in Polling : Job(t) = j
Used(j)   == up /\ \E t \in Polling \cup Converting : Job(t) = j

\* A job that waits or is in its place has its client, or the client has left it.
TaskInv == \A j \in Jobs : task[j] \in Building => j \in late \/ Polled(j)

\* A job that is polled has its record, unless its task ended with the service.
PollInv == \A t \in Polling : rec[Job(t)] # "none" \/ task[Job(t)] = "ended"

\* Build jobs make no tar.
TarInv == \A j \in Jobs : tar[j] # "none" => j \notin BuildJobs

ClientInv == TaskInv /\ PollInv /\ TarInv /\ RecordHasClient /\ TarIsInUse

\* No two tasks are at the same item, save the kernel.
LEMMA ItemsApart ==
  ASSUME TypeOK, NEW t \in Tasks, NEW u \in Tasks, cl[t].at # "end", cl[u].at # "end",
         Item(t) = Item(u), Item(t) # "kernel"
  PROVE  t = u
  BY PlaceType, AtItem, PlansApart DEF Item

\* No two tasks poll or convert the same job.
LEMMA JobsApart ==
  ASSUME TypeOK, PlaceInv, NEW t \in Polling \cup Converting, NEW u \in Polling \cup Converting,
         Job(t) = Job(u)
  PROVE  t = u
<1>1. Item(t) = Item(u) /\ Item(t) \in Assets
  BY DEF Job, PlaceInv, Polling, Converting, Assets
<1>. QED BY <1>1, ItemsApart DEF Polling, Converting, Assets, Exports, Images

\* A step of one task leaves the jobs of the others polled and used.
LEMMA StillPolled ==
  ASSUME TypeOK, PlaceInv, NEW t \in Tasks, Client(t), NEW j
  PROVE  /\ Polled(j) => Polled(j)' \/ (cl[t].at = "poll" /\ Job(t) = j)
         /\ Used(j) => Used(j)' \/ (cl[t].at \in {"poll", "convert", "check"} /\ Job(t) = j)
<1>1. up' /\ boot' = boot /\ cl' = [cl EXCEPT ![t] = cl'[t]]
  BY ClientPlace
<1>2. \A u \in Tasks \ {t} : cl'[u] = cl[u]
  BY <1>1, OwnPlace
<1>. QED BY <1>1, <1>2 DEF Polled, Used, Polling, Converting, Job, Item

\* What a task does to the tar of its job.
LEMMA ClientTar ==
  ASSUME TypeOK, PlaceInv, NEW t \in Tasks, Client(t)
  PROVE  \/ tar' = [tar EXCEPT ![Job(t)] = "none"]
         \/ /\ tar' = tar
            /\ \/ cl[t].at \notin {"poll", "convert", "check"}
               \/ cl'[t].at \in {"poll", "convert", "check"} /\ Item(t)' = Item(t)
               \/ cl[t].at = "poll" /\ Item(t) \in Images
<1>0. cl[t].at # "end"
  BY Somewhere
<1>1. ASSUME NEW where \in Places, GoTo(t, where)
      PROVE  cl'[t].at = where /\ Item(t)' = Item(t)
  BY <1>0, <1>1, PlaceType, GoToType
<1>2. CASE Keep(t) \/ BeginDownload(t) \/ EndDownload(t) \/ DownloadFails(t) \/ Order(t)
           \/ OrderFails(t) \/ Register(t) \/ RegisterTimesOut(t)
  BY <1>2 DEF Keep, BeginDownload, EndDownload, DownloadFails, Order, OrderFails, Register,
     RegisterTimesOut, At, Accept, builderVars, serviceVars
<1>3. CASE PollReady(t)
  BY <1>1, <1>3 DEF PollReady, At, Places
<1>4. CASE PollFails(t) \/ GiveUp(t) \/ ConvertBase(t) \/ ConvertFails(t) \/ Check(t)
  BY <1>4 DEF PollFails, GiveUp, ConvertBase, ConvertFails, Check, DropTar
<1>5. CASE Convert(t)
  BY <1>1, <1>5 DEF Convert, serviceVars, Places
<1>. QED BY <1>2, <1>3, <1>4, <1>5 DEF Client

\* A job that its client is done with is not at work, or counts as left.
LEMMA DoneOrLate ==
  ASSUME TypeOK, PlaceInv, ServiceInv, PollInv, NEW t \in Polling,
         \/ Status(Job(t)) \in {"ready", "failed", "none", "unreachable"}
         \/ LeaveEarly({Job(t)})
  PROVE  task[Job(t)] \in Building => Job(t) \in late'
<1>1. Job(t) \in Jobs
  BY JobType DEF PlaceInv, Polling
<1>2. rec[Job(t)] \in {"none", "running", "ready", "failed"}
  BY <1>1 DEF TypeOK, BuilderTypeOK
<1>3. rec[Job(t)] = "none" => task[Job(t)] \notin Building
  BY <1>1 DEF PollInv, Building, InPlace
<1>4. rec[Job(t)] \in {"ready", "failed"} => task[Job(t)] \notin Building
  BY <1>1 DEF ServiceInv, RecInv, Building, InPlace
<1>5. ~serving => task[Job(t)] \notin Building
  BY <1>1 DEF ServiceInv, TasksInv, Building, InPlace
<1>6. CASE LeaveEarly({Job(t)})
  BY <1>2, <1>3, <1>4, <1>6 DEF LeaveEarly
<1>7. CASE Status(Job(t)) \in {"ready", "failed", "none", "unreachable"}
  BY <1>2, <1>3, <1>4, <1>5, <1>7 DEF Status
<1>. QED BY <1>6, <1>7

\* A step of a task of the orchestrator keeps jobs and clients together.
LEMMA ClientClients ==
  ASSUME TypeOK, PlaceInv, ServiceInv, ClientInv, NEW t \in Tasks, Client(t)
  PROVE  ClientInv'
<1>0. /\ up /\ up' /\ boot' = boot /\ cl' = [cl EXCEPT ![t] = cl'[t]]
      /\ \A u \in Tasks \ {t} : cl'[u] = cl[u]
  BY ClientPlace, OwnPlace
<1>1. Item(t)' = Item(t) => Job(t)' = Job(t)
  BY <1>0 DEF Job
<1>2. BuilderTypeOK /\ undeleted \in SUBSET Jobs
  BY DEF TypeOK
<1>j. PICK job : job = Job(t)
  OBVIOUS
<1>a. ASSUME UNCHANGED tarOnly, UNCHANGED undeleted, late' = late,
             cl[t].at # "poll", cl'[t].at # "poll"
      PROVE  TaskInv' /\ RecordHasClient' /\ PollInv'
  <2>1. TaskInv'
    BY <1>a, StillPolled DEF ClientInv, TaskInv, tarOnly
  <2>2. RecordHasClient'
    BY <1>a, StillPolled DEF ClientInv, RecordHasClient, Polled, tarOnly
  <2>3. PollInv'
    BY <1>0, <1>a DEF ClientInv, PollInv, Polling, tarOnly, Job, Item
  <2>. QED BY <2>1, <2>2, <2>3
<1>b. ASSUME Accept(job), cl[t].at = "look", job \in Jobs,
             \/ cl'[t].at = "poll" /\ Item(t)' = Item(t) /\ UNCHANGED <<late, undeleted>>
             \/ /\ cl'[t].at # "poll"
                /\ late' = late \cup {job} /\ undeleted' = undeleted \cup {job}
      PROVE  TaskInv' /\ RecordHasClient' /\ PollInv'
  <2>0. /\ \A j \in Jobs \ {job} : rec'[j] = rec[j] /\ task'[j] = task[j]
        /\ rec'[job] = "running"
    BY <1>2, <1>b DEF Accept, BuilderTypeOK
  <2>1. Polled(job)' \/ (job \in late' /\ job \in undeleted')
    <3>1. CASE cl'[t].at = "poll" /\ Item(t)' = Item(t)
      <4>1. t \in Polling' /\ Job(t)' = job
        BY <1>j, <1>1, <3>1 DEF Polling
      <4>. QED BY <1>0, <4>1 DEF Polled, Polling, Job, Item
    <3>. QED BY <1>b, <3>1
  <2>2. TaskInv'
    <3>1. \A j \in Jobs : (j \in late \/ Polled(j)) => (j \in late' \/ Polled(j)')
      BY <1>b, StillPolled
    <3>2. \A j \in Jobs : task'[j] \in Building => j \in late' \/ Polled(j)'
      BY <2>0, <2>1, <3>1 DEF ClientInv, TaskInv
    <3>. QED BY <3>2 DEF TaskInv
  <2>3. RecordHasClient'
    BY <1>b, <2>0, <2>1, StillPolled DEF ClientInv, RecordHasClient, Polled
  <2>4. PollInv'
    <3>. SUFFICES ASSUME NEW u \in Polling' PROVE rec'[Job(u)'] # "none" \/ task'[Job(u)'] = "ended"
      BY DEF PollInv
    <3>1. CASE u = t
      BY <1>j, <1>1, <1>b, <2>0, <3>1 DEF Polling
    <3>2. CASE u # t
      <4>1. u \in Polling /\ Job(u)' = Job(u) /\ Job(u) \in Jobs
        BY <1>0, <3>2, JobsOfType DEF Polling, JobsOf, Job, Item
      <4>. QED BY <2>0, <4>1 DEF ClientInv, PollInv
    <3>. QED BY <3>1, <3>2
  <2>. QED BY <2>2, <2>3, <2>4
<1>c. ASSUME Delete(job), cl[t].at = "poll", job \in Jobs, cl'[t].at # "poll",
             \/ Status(job) = "ready" /\ late' = late
             \/ Status(job) \in {"failed", "none", "unreachable"} /\ late' = late
             \/ LeaveEarly({job})
      PROVE  TaskInv' /\ RecordHasClient' /\ PollInv'
  <2>0. /\ \A j \in Jobs \ {job} : rec'[j] = rec[j]
        /\ rec'[job] = "none" \/ job \in undeleted'
        /\ task' = task /\ late \subseteq late' /\ undeleted \subseteq undeleted'
    <3>1. /\ \A j \in Jobs \ {job} : rec'[j] = rec[j]
          /\ rec'[job] = "none" \/ job \in undeleted'
      BY <1>2, <1>c DEF Delete, Forget, tarOnly, BuilderTypeOK, ServiceInv, TasksInv
    <3>2. task' = task /\ late \subseteq late' /\ undeleted \subseteq undeleted'
      BY <1>c DEF Delete, Forget, tarOnly, LeaveEarly
    <3>. QED BY <3>1, <3>2
  <2>1. t \in Polling
    BY <1>c DEF Polling
  <2>2. task[job] \in Building => job \in late'
    BY <1>c, <1>j, <2>1, DoneOrLate DEF ClientInv
  <2>3. TaskInv'
    <3>1. \A j \in Jobs : task'[j] \in Building => j \in late' \/ Polled(j)'
      BY <1>j, <2>0, <2>2, StillPolled DEF ClientInv, TaskInv
    <3>. QED BY <3>1 DEF TaskInv
  <2>4. RecordHasClient'
    BY <1>j, <2>0, StillPolled DEF ClientInv, RecordHasClient, Polled
  <2>5. PollInv'
    <3>. SUFFICES ASSUME NEW u \in Polling' PROVE rec'[Job(u)'] # "none" \/ task'[Job(u)'] = "ended"
      BY DEF PollInv
    <3>1. u \in Polling /\ u # t /\ Job(u)' = Job(u) /\ Job(u) \in Jobs
      BY <1>0, <1>c, JobsOfType DEF Polling, JobsOf, Job, Item
    <3>2. Job(u) # job
      BY <1>j, <2>1, <3>1, JobsApart
    <3>. QED BY <2>0, <3>1, <3>2 DEF ClientInv, PollInv
  <2>. QED BY <2>3, <2>4, <2>5
<1>3. TaskInv' /\ RecordHasClient' /\ PollInv' /\ late \subseteq late'
  <2>1. late \subseteq late'
    BY ClientService DEF LeaveEarly
  <2>. QED BY <1>j, <1>a, <1>b, <1>c, <2>1, ClientService
<1>4. \A j \in Jobs : tar'[j] = tar[j] \/ tar'[j] = "none"
  BY <1>2, ClientTar DEF BuilderTypeOK
<1>5. TarInv'
  BY <1>4 DEF ClientInv, TarInv
<1>6. TarIsInUse'
  <2>1. SUFFICES ASSUME NEW j \in Jobs, tar'[j] # "none" PROVE j \in late' \/ Used(j)'
    BY DEF TarIsInUse, Used
  <2>2. tar[j] # "none" /\ (j \in late \/ Used(j))
    BY <1>4, <2>1 DEF ClientInv, TarIsInUse, Used
  <2>3. CASE j \in late
    BY <1>3, <2>3
  <2>4. CASE Used(j) /\ ~(cl[t].at \in {"poll", "convert", "check"} /\ Job(t) = j)
    BY <2>4, StillPolled
  <2>5. CASE cl[t].at \in {"poll", "convert", "check"} /\ Job(t) = j
    <3>1. tar' = tar
      BY <1>2, <2>1, <2>5, ClientTar DEF BuilderTypeOK
    <3>2. ~(cl[t].at = "poll" /\ Item(t) \in Images)
      BY <2>2, <2>5, JobType, PreparationAssumption DEF ClientInv, TarInv, Assets
    <3>3. tar' # [tar EXCEPT ![Job(t)] = "none"]
      BY <1>2, <2>1, <2>5 DEF BuilderTypeOK
    <3>4. cl'[t].at \in {"poll", "convert", "check"} /\ Item(t)' = Item(t)
      BY <2>5, <3>2, <3>3, ClientTar
    <3>5. t \in (Polling \cup Converting)' /\ Job(t)' = j
      BY <1>1, <2>5, <3>4 DEF Polling, Converting
    <3>. QED BY <1>0, <3>5 DEF Used, Polling, Converting, Job, Item
  <2>. QED BY <2>2, <2>3, <2>4, <2>5
<1>. QED BY <1>3, <1>5, <1>6 DEF ClientInv

\* A job whose task goes on keeps its client.
LEMMA WorkClients ==
  ASSUME TypeOK, PlaceInv, ServiceInv, ClientInv, NEW j \in Jobs, Work(j)
  PROVE  ClientInv'
<1>0. /\ UNCHANGED <<up, boot, cl, undeleted>>
      /\ late \subseteq late'
      /\ \A i \in Jobs \ {j} : task'[i] = task[i] /\ rec'[i] = rec[i]
                              /\ (tar'[i] = tar[i] \/ tar'[i] = "none")
  <2>1. BuilderTypeOK
    BY DEF TypeOK
  <2>2. UNCHANGED <<up, boot, cl, undeleted>>
    BY DEF Work, PutInPlace, clientVars
  <2>. QED BY <2>1, <2>2 DEF Work, PutInPlace, Enter, RunEnds, Exported, Converted, JobFails,
       JobTimesOut, CleanUp, Leave, BuilderTypeOK
<1>1. /\ rec'[j] = "none" <=> rec[j] = "none"
      /\ task'[j] \in Building => task[j] \in Building
      /\ task[j] # "ended"
      /\ tar'[j] # "none" => tar[j] # "none" \/ (task[j] \in Building /\ j \notin BuildJobs)
  <2>1. BuilderTypeOK
    BY DEF TypeOK
  <2>2. CASE Enter(j)
    <3>1. task[j] = "queued"
      BY <2>1, <2>2, HeadTailProperties, LenProperties, EmptySeq
      DEF Enter, ServiceInv, QueueInv, BuilderTypeOK
    <3>. QED BY <2>1, <2>2, <3>1 DEF Enter, BuilderTypeOK, Building, InPlace
  <2>3. CASE RunEnds(j) \/ Exported(j) \/ Converted(j) \/ JobFails(j) \/ JobTimesOut(j) \/ CleanUp(j)
    BY <2>1, <2>3 DEF RunEnds, Exported, Converted, JobFails, JobTimesOut, CleanUp, Leave,
       BuilderTypeOK, Building, InPlace
  <2>. QED BY <2>2, <2>3 DEF Work, PutInPlace
<1>2. /\ \A i : Polled(i) <=> Polled(i)'
      /\ \A i : Used(i) <=> Used(i)'
  BY <1>0 DEF Polled, Used, Polling, Converting, Job, Item
<1>3. TaskInv'
  <2>1. \A i \in Jobs : task'[i] \in Building => i \in late' \/ Polled(i)'
    BY <1>0, <1>1, <1>2 DEF ClientInv, TaskInv
  <2>. QED BY <2>1 DEF TaskInv
<1>4. RecordHasClient'
  BY <1>0, <1>1, <1>2 DEF ClientInv, RecordHasClient, Polled
<1>5. PollInv'
  <2>. SUFFICES ASSUME NEW u \in Polling' PROVE rec'[Job(u)'] # "none" \/ task'[Job(u)'] = "ended"
    BY DEF PollInv
  <2>1. u \in Polling /\ Job(u)' = Job(u) /\ Job(u) \in Jobs
    BY <1>0, JobsOfType DEF Polling, JobsOf, Job, Item
  <2>. QED BY <1>0, <1>1, <2>1 DEF ClientInv, PollInv
<1>6. TarInv'
  BY <1>0, <1>1 DEF ClientInv, TarInv
<1>7. TarIsInUse'
  <2>1. \A i : Polled(i) => Used(i)
    BY DEF Polled, Used
  <2>2. \A i \in Jobs : tar'[i] # "none" => i \in late' \/ Used(i)'
    BY <1>0, <1>1, <1>2, <2>1 DEF ClientInv, TaskInv, TarIsInUse, Used
  <2>. QED BY <2>2 DEF TarIsInUse, Used
<1>. QED BY <1>3, <1>4, <1>5, <1>6, <1>7 DEF ClientInv

\* So it does when the service or the orchestrator ends or starts.
LEMMA ProcessClients ==
  ASSUME TypeOK, PlaceInv, LifeInv, ServiceInv, ClientInv,
         \/ (BuilderCrash \/ BuilderStart) /\ UNCHANGED clientVars
         \/ Crash \/ Shutdown \/ Boot
  PROVE  ClientInv'
<1>0. BuilderTypeOK
  BY DEF TypeOK
<1>1. CASE (BuilderCrash \/ BuilderStart) /\ UNCHANGED clientVars
  <2>1. UNCHANGED <<up, boot, cl, undeleted, tar>> /\ late \subseteq late'
    BY <1>1 DEF BuilderCrash, BuilderStart, clientVars
  <2>2. \A i \in Jobs : /\ task'[i] \in Building => task[i] \in Building
                        /\ rec'[i] # "none" => rec[i] # "none"
                        /\ rec[i] # "none" \/ task[i] = "ended"
                              => rec'[i] # "none" \/ task'[i] = "ended"
    BY <1>0, <1>1 DEF BuilderCrash, BuilderStart, Building, InPlace, BuilderTypeOK, ServiceInv, RecInv
  <2>3. /\ \A i : Polled(i) <=> Polled(i)'
        /\ \A i : Used(i) <=> Used(i)'
    BY <2>1 DEF Polled, Used, Polling, Converting, Job, Item
  <2>4. TaskInv'
    <3>1. \A i \in Jobs : task'[i] \in Building => i \in late' \/ Polled(i)'
      BY <2>1, <2>2, <2>3 DEF ClientInv, TaskInv
    <3>. QED BY <3>1 DEF TaskInv
  <2>5. RecordHasClient'
    BY <2>1, <2>2, <2>3 DEF ClientInv, RecordHasClient, Polled
  <2>6. PollInv'
    <3>. SUFFICES ASSUME NEW u \in Polling' PROVE rec'[Job(u)'] # "none" \/ task'[Job(u)'] = "ended"
      BY DEF PollInv
    <3>1. u \in Polling /\ Job(u)' = Job(u) /\ Job(u) \in Jobs
      BY <2>1, JobsOfType DEF Polling, JobsOf, Job, Item
    <3>. QED BY <2>2, <3>1 DEF ClientInv, PollInv
  <2>7. TarInv'
    BY <2>1 DEF ClientInv, TarInv
  <2>8. TarIsInUse'
    BY <2>1, <2>3 DEF ClientInv, TarIsInUse, Used
  <2>. QED BY <2>4, <2>5, <2>6, <2>7, <2>8 DEF ClientInv
<1>2. ASSUME Down PROVE PollInv'
  BY <1>2 DEF Down, PollInv, Polling, End
<1>3. /\ \A i : Polled(i) <=> up /\ i \in JobsOf(Polling)
      /\ \A i : Used(i) <=> up /\ i \in JobsOf(Polling \cup Converting)
  BY DEF Polled, Used, JobsOf
<1>4. CASE Crash
  <2>1. /\ JobsOf(Polling) \subseteq late' /\ JobsOf(Polling) \subseteq undeleted'
        /\ JobsOf(Polling \cup Converting) \subseteq late'
        /\ late \subseteq late' /\ undeleted \subseteq undeleted'
        /\ task' = task /\ rec' = rec /\ tar' = tar
    BY <1>4 DEF Crash, JobsOf, tarOnly
  <2>2. TaskInv'
    BY <1>3, <2>1 DEF ClientInv, TaskInv
  <2>3. RecordHasClient'
    BY <1>3, <2>1 DEF ClientInv, RecordHasClient, Polled
  <2>4. TarIsInUse' /\ TarInv'
    BY <1>3, <2>1 DEF ClientInv, TarIsInUse, TarInv, Used
  <2>. QED BY <1>2, <1>4, <2>2, <2>3, <2>4 DEF Crash, ClientInv
<1>5. CASE Shutdown
  <2>1. /\ late \subseteq late' /\ undeleted' = undeleted /\ task' = task
        /\ \A i \in Jobs : rec'[i] # "none" => rec[i] # "none" /\ ~(serving /\ i \in JobsOf(Polling))
        /\ \A i \in Jobs : tar'[i] # "none" => tar[i] # "none" /\ i \notin JobsOf(Polling \cup Converting)
        /\ \A i \in JobsOf(Polling) : rec[i] \in {"running", "ready"} => i \in late'
    BY <1>5 DEF Shutdown, LeaveEarly
  <2>2. \A i \in JobsOf(Polling) : i \in Jobs /\ (rec[i] = "none" => task[i] = "ended")
    BY JobsOfType DEF ClientInv, PollInv, JobsOf
  <2>3. \A i \in JobsOf(Polling) : task[i] \in Building => i \in late'
    BY <1>0, <2>1, <2>2 DEF ServiceInv, RecInv, BuilderTypeOK, Building, InPlace
  <2>4. TaskInv'
    BY <1>3, <2>1, <2>3 DEF ClientInv, TaskInv
  <2>5. RecordHasClient'
    BY <1>3, <2>1 DEF ClientInv, RecordHasClient, Polled, ServiceInv, TasksInv
  <2>6. TarIsInUse' /\ TarInv'
    BY <1>3, <2>1 DEF ClientInv, TarIsInUse, TarInv, Used
  <2>. QED BY <1>2, <1>5, <2>4, <2>5, <2>6 DEF Shutdown, ClientInv
<1>6. CASE Boot
  <2>1. UNCHANGED <<rec, task, tar, late, undeleted>> /\ ~up
    BY <1>6 DEF Boot, builderVars, serviceVars
  <2>2. PollInv'
    BY <1>6 DEF Boot, PollInv, Polling, End, Start
  <2>. QED BY <2>1, <2>2 DEF ClientInv, TaskInv, TarInv, RecordHasClient, TarIsInUse, Polled
<1>. QED BY <1>1, <1>4, <1>5, <1>6

\* At first there is no job.
LEMMA ClientInit == Init => ClientInv
  BY DEF Init, BuilderInit, ClientInv, TaskInv, PollInv, TarInv, RecordHasClient, TarIsInUse, Polling,
     Start, Building, InPlace

\* Stuttering changes nothing of this.
LEMMA ClientStutter == ClientInv /\ UNCHANGED vars => ClientInv'
  BY DEF vars, builderVars, serviceVars, clientVars, ClientInv, TaskInv, PollInv, TarInv,
     RecordHasClient, TarIsInUse, Polled, Polling, Converting, Job, Item

\* Jobs and clients stay together in every state.
THEOREM ClientInvariant == Spec => []ClientInv
<1>1. TypeOK /\ PlaceInv /\ LifeInv /\ ServiceInv /\ ClientInv /\ [Next]_vars => ClientInv'
  BY ClientClients, WorkClients, ProcessClients, ClientStutter DEF Next
<1>. QED BY PlacesInvariant, ServiceInvariant, ClientInit, <1>1, PTL DEF Spec

\* Records and tars of jobs do not outlive their use, save for the jobs whose client was
\* lost or whose answer was (ClientsCleanUp).
THEOREM ClientsDoCleanUp == Spec => []ClientsCleanUp
<1>1. ClientInv => ClientsCleanUp
  BY DEF ClientInv, ClientsCleanUp
<1>. QED BY ClientInvariant, <1>1, PTL

-----------------------------------------------------------------------------
(* The kernel.                                                              *)

\* A download has the temporary file to itself, or another one took it.
KernelInv ==
  /\ \A t \in Tasks : cl[t].at = "download" => part \in {t, "nobody"} \/ overlapped
  /\ KernelIsWhole

\* Every step keeps it.
LEMMA KernelStep ==
  ASSUME TypeOK, PlaceInv, KernelInv, [Next]_vars
  PROVE  KernelInv'
<1>1. ASSUME UNCHANGED <<cl, kernel, part, overlapped>> PROVE KernelInv'
  BY <1>1 DEF KernelInv, KernelIsWhole
<1>2. ASSUME NEW t \in Tasks, Client(t) PROVE KernelInv'
  <2>0. /\ up /\ cl' = [cl EXCEPT ![t] = cl'[t]]
        /\ \A u \in Tasks \ {t} : cl'[u] = cl[u]
    BY <1>2, ClientPlace, OwnPlace
  <2>1. CASE BeginDownload(t)
    BY <2>0, <2>1 DEF BeginDownload, KernelInv, KernelIsWhole, At
  <2>a. cl[t].at # "end"
    BY <1>2, Somewhere
  <2>2. CASE EndDownload(t)
    <3>1. cl'[t].at # "download"
      BY <2>a, <2>2, SucceedPlace, FailType DEF EndDownload
    <3>. QED BY <2>0, <2>2, <3>1 DEF EndDownload, KernelInv, KernelIsWhole, At
  <2>3. CASE ~BeginDownload(t) /\ ~EndDownload(t)
    <3>1. UNCHANGED <<kernel, part, overlapped>>
      BY <1>2, <2>3 DEF Client, Keep, DownloadFails, Order, OrderFails, PollReady, PollFails,
         GiveUp, ConvertBase, Convert, ConvertFails, Check, Register, RegisterTimesOut, files
    <3>2. cl'[t].at # "download"
      <4>1. ASSUME NEW where \in Places, GoTo(t, where) PROVE cl'[t].at = where
        BY <2>a, <4>1, PlaceType, GoToType
      <4>2. ASSUME Succeed(t) \/ Fail(t) \/ Advance(t, 1) PROVE cl'[t].at # "download"
        BY <2>a, <4>2, PlaceType, SucceedPlace, FailType, AdvanceType
      <4>. QED BY <1>2, <2>3, <4>1, <4>2
           DEF Client, Keep, DownloadFails, Order, OrderFails, PollReady, PollFails, GiveUp,
           ConvertBase, Convert, ConvertFails, Check, Register, RegisterTimesOut, Places
    <3>. QED BY <2>0, <3>1, <3>2 DEF KernelInv, KernelIsWhole
  <2>. QED BY <2>1, <2>2, <2>3
<1>3. ASSUME NEW j \in Jobs, Work(j) PROVE KernelInv'
  BY <1>1, <1>3 DEF Work, PutInPlace, clientVars
<1>4. CASE UNCHANGED clientVars \/ UNCHANGED vars
  BY <1>1, <1>4 DEF clientVars, vars
<1>5. ASSUME Down PROVE KernelInv'
  BY <1>5 DEF Down, KernelInv, KernelIsWhole, End
<1>6. CASE Boot
  BY <1>6 DEF Boot, files, KernelInv, KernelIsWhole, Start, End
<1>. QED BY <1>2, <1>3, <1>4, <1>5, <1>6 DEF Next, Crash, Shutdown

\* The kernel in place is whole, unless two tasks downloaded it at once (KernelIsWhole).
THEOREM KernelInvariant == Spec => []KernelInv
<1>1. Init => KernelInv
  BY DEF Init, KernelInv, KernelIsWhole, Start
<1>. QED BY PlacesInvariant, KernelStep, <1>1, PTL DEF Spec

-----------------------------------------------------------------------------
(* The files of the assets.                                                 *)

\* What a task at its item knows: nothing is in place that a guest is to make, the status
\* says that the attack machine is being built, what is made again is not on offer but for
\* an interrupted check, and what is to be recorded is whole.
ItemInv == \A t \in Tasks :
  /\ cl[t].at \in {"poll", "convert"} /\ Item(t) \in Exports => image[Item(t)] = "none"
  /\ cl[t].at \in {"poll", "convert", "check"} /\ Item(t) = "attack" => attackStatus = "building"
  /\ cl[t].at \in {"poll", "convert", "check"} => Item(t) \notin offered \/ Item(t) \in unverified
  /\ cl[t].at = "register" => image[Item(t)] = "whole" \/ Item(t) \in unverified

\* A file that a failed guest left is about to be removed, or its check was interrupted.
BrokenInv == \A a \in Assets :
  image[a] = "broken" => a \in unverified \/ \E t \in Tasks : cl[t].at = "check" /\ Item(t) = a

\* The image of a build job that succeeded is in place.
ReadyInv == \A j \in BuildJobs : rec[j] = "ready" => image[AssetOf(j)] = "whole"

ImageInv == ItemInv /\ BrokenInv /\ ReadyInv /\ OfferedIsWhole

\* What a step of a task does to files, database and status.
LEMMA ClientFiles ==
  ASSUME TypeOK, PlaceInv, NEW t \in Tasks, Client(t)
  PROVE  /\ unverified' = unverified
         /\ attackStatus' = attackStatus \/ Item(t) = "attack" \/ t = "attack"
         /\ \A a \in Assets : image'[a] = image[a] \/ (a = Item(t) /\ cl[t].at \in {"convert", "check"})
         /\ \A a \in Assets : a \in offered' =>
              a \in offered \/ (a = Item(t) /\ cl[t].at = "register" /\ image' = image)
         /\ attackStatus' = "ready" =>
              \/ attackStatus = "ready"
              \/ /\ Item(t) = "attack"
                 /\ \/ cl[t].at = "look" /\ image' = image /\ image["attack"] # "none"
                    \/ image'["attack"] = "whole"
         /\ row' = "ready" =>
              row = "ready" \/ (Item(t) = "extra" /\ cl[t].at = "register" /\ image' = image)
         /\ cl[t].at \in {"convert", "check"} /\ image'[Item(t)] = "broken" =>
              \/ cl'[t].at = "check" /\ Item(t)' = Item(t)
              \/ cl[t].at = "convert" /\ image' = image
<1>0. cl[t].at # "end"
  BY Somewhere
<1>1. image \in [Assets -> {"none", "broken", "whole"}] /\ "attack" \in Assets
  BY DEF TypeOK, Assets, Exports, Images
<1>2. cl[t].at \in {"convert", "check"} => Item(t) \in Exports
  BY DEF PlaceInv
<1>3. ASSUME Fail(t) PROVE /\ attackStatus' = IF t = "attack" THEN "failed" ELSE attackStatus
                           /\ row' \in {row, "failed"}
  BY <1>3 DEF Fail
<1>4. ASSUME Succeed(t) PROVE /\ attackStatus' = IF Item(t) = "attack" THEN "ready" ELSE attackStatus
                              /\ row' = row
  BY <1>4 DEF Succeed
<1>5. CASE Keep(t)
  BY <1>4, <1>5 DEF Keep, At, Exists, files, worlds
<1>6. CASE BeginDownload(t) \/ DownloadFails(t) \/ OrderFails(t) \/ PollFails(t) \/ GiveUp(t)
  BY <1>3, <1>6 DEF BeginDownload, DownloadFails, OrderFails, PollFails, GiveUp, At, files, worlds
<1>7. CASE EndDownload(t)
  <2>1. Item(t) = "kernel" /\ cl[t].at = "download"
    BY <1>7 DEF EndDownload, At, PlaceInv
  <2>. QED BY <1>3, <1>4, <1>7, <2>1 DEF EndDownload
<1>8. CASE Order(t)
  BY <1>8 DEF Order, At, files, worlds
<1>9. CASE PollReady(t)
  BY <1>4, <1>9 DEF PollReady, At, files, worlds, Images
<1>10. CASE ConvertBase(t)
  BY <1>1, <1>4, <1>10 DEF ConvertBase, At, worlds
<1>11. CASE Convert(t)
  <2>1. cl'[t].at = "check" /\ Item(t)' = Item(t)
    BY <1>0, <1>11, PlaceType, GoToType DEF Convert, Places
  <2>. QED BY <1>1, <1>11, <2>1 DEF Convert, At, worlds
<1>12. CASE ConvertFails(t)
  BY <1>3, <1>12 DEF ConvertFails, At, files, worlds
<1>13. CASE Check(t)
  <2>1. Item(t) \in Assets
    BY <1>2, <1>13 DEF Check, At, Assets
  <2>2. image'[Item(t)] # "broken"
    BY <1>1, <1>13, <2>1 DEF Check
  <2>3. CASE image[Item(t)] = "whole"
    BY <1>1, <1>4, <1>13, <2>2, <2>3 DEF Check, At, worlds
  <2>4. CASE image[Item(t)] # "whole"
    BY <1>1, <1>3, <1>13, <2>1, <2>2, <2>4 DEF Check, At, worlds
  <2>. QED BY <2>3, <2>4
<1>14. CASE Register(t)
  <2>1. t = "worker" => Item(t) = "extra"
    BY <1>0, PlaceType, AtItem, WorkerPlan DEF Item
  <2>. QED BY <1>14, <2>1 DEF Register, At, files, Assets, Exports, Images
<1>15. CASE RegisterTimesOut(t)
  BY <1>3, <1>15 DEF RegisterTimesOut, At, files
<1>. QED BY <1>5, <1>6, <1>7, <1>8, <1>9, <1>10, <1>11, <1>12, <1>13, <1>14, <1>15 DEF Client

\* Where a step leads a task, and what it found there.
LEMMA ClientGoes ==
  ASSUME TypeOK, PlaceInv, NEW t \in Tasks, Client(t)
  PROVE  \/ cl'[t].at \in {"look", "end", "download"}
         \/ /\ Item(t)' = Item(t) /\ Item(t) \in Assets
            /\ \/ /\ cl[t].at = "look" /\ cl'[t].at = "register"
                  /\ image' = image /\ image[Item(t)] # "none"
               \/ /\ cl[t].at = "look" /\ cl'[t].at = "poll"
                  /\ image' = image /\ offered' = offered /\ image[Item(t)] = "none"
                  /\ Item(t) = "attack" => attackStatus' = "building"
               \/ /\ cl[t].at = "poll" /\ cl'[t].at = "register" /\ image' = image
                  /\ Item(t) \in Images /\ Status(Job(t)) = "ready"
               \/ /\ cl[t].at = "poll" /\ cl'[t].at = "convert" /\ Item(t) \in Exports
                  /\ image' = image /\ offered' = offered /\ attackStatus' = attackStatus
               \/ /\ cl[t].at = "convert" /\ cl'[t].at = "check"
                  /\ offered' = offered /\ attackStatus' = attackStatus
               \/ /\ cl[t].at = "check" /\ cl'[t].at = "register"
                  /\ image'[Item(t)] = "whole"
<1>0. cl[t].at # "end"
  BY Somewhere
<1>1. Item(t) \in Assets \cup {"kernel"}
  BY <1>0, PlaceType, AtItem
<1>2. ASSUME NEW where \in Places, GoTo(t, where)
      PROVE  cl'[t].at = where /\ Item(t)' = Item(t)
  BY <1>0, <1>2, PlaceType, GoToType
<1>3. ASSUME Succeed(t)
      PROVE  \/ cl'[t].at \in {"look", "end"}
             \/ cl'[t].at = "register" /\ Item(t)' = Item(t) /\ Item(t) \in Assets
  BY <1>0, <1>3, SucceedPlace DEF Assets, Exports, Images
<1>4. ASSUME Fail(t) \/ Advance(t, 1) PROVE cl'[t].at \in {"look", "end"}
  BY <1>0, <1>4, PlaceType, FailType, AdvanceType
<1>5. cl[t].at \in {"poll", "convert", "check"} => Item(t) \in Assets
  BY DEF PlaceInv, Assets
<1>6. CASE Keep(t)
  BY <1>3, <1>6 DEF Keep, At, Exists, files, Assets, Exports, Images
<1>7. CASE BeginDownload(t)
  BY <1>2, <1>7 DEF BeginDownload, Places
<1>8. CASE DownloadFails(t) \/ OrderFails(t) \/ PollFails(t) \/ GiveUp(t) \/ ConvertFails(t)
           \/ Register(t) \/ RegisterTimesOut(t)
  BY <1>4, <1>8 DEF DownloadFails, OrderFails, PollFails, GiveUp, ConvertFails, Register,
     RegisterTimesOut
<1>9. CASE EndDownload(t)
  <2>1. Item(t) = "kernel"
    BY <1>9 DEF EndDownload, At, PlaceInv
  <2>. QED BY <1>3, <1>4, <1>9, <2>1 DEF EndDownload, Assets, Exports, Images
<1>10. CASE Order(t)
  BY <1>1, <1>2, <1>10 DEF Order, At, Exists, files, worlds, Places
<1>11. CASE PollReady(t)
  <2>1. CASE Item(t) \in Images
    BY <1>3, <1>11, <2>1 DEF PollReady, At, files
  <2>2. CASE Item(t) \notin Images
    BY <1>2, <1>5, <1>11, <2>2 DEF PollReady, At, files, worlds, Places, Assets
  <2>. QED BY <2>1, <2>2
<1>12. CASE ConvertBase(t)
  <2>1. cl'[t].at \in {"look", "end"}
    BY <1>0, <1>12, PlaceType, AdvanceType DEF ConvertBase, Succeed
  <2>. QED BY <2>1
<1>13. CASE Convert(t)
  BY <1>2, <1>5, <1>13 DEF Convert, At, worlds, Places
<1>14. CASE Check(t)
  BY <1>3, <1>4, <1>14 DEF Check, At
<1>. QED BY <1>6, <1>7, <1>8, <1>9, <1>10, <1>11, <1>12, <1>13, <1>14 DEF Client

\* What a step of a task does to the records of other jobs, and to the left jobs.
LEMMA ClientRecords ==
  ASSUME TypeOK, PlaceInv, NEW t \in Tasks, Client(t)
  PROVE  /\ \A j \in Jobs : rec'[j] = rec[j] \/ j = Job(t)
         /\ \A j \in Jobs : rec'[j] = "ready" => rec[j] = "ready"
         /\ late \subseteq late'
<1>1. BuilderTypeOK
  BY DEF TypeOK
<1>2. ASSUME Accept(Job(t)) \/ Delete(Job(t)) \/ UNCHANGED tarOnly
      PROVE  /\ \A j \in Jobs : rec'[j] = rec[j] \/ j = Job(t)
             /\ \A j \in Jobs : rec'[j] = "ready" => rec[j] = "ready"
  BY <1>1, <1>2 DEF Accept, Delete, Forget, tarOnly, BuilderTypeOK
<1>3. late \subseteq late'
  BY ClientService DEF LeaveEarly
<1>. QED BY <1>2, <1>3, ClientService

\* A step of a task keeps what is known of the items of all.
LEMMA ClientItems ==
  ASSUME TypeOK, PlaceInv, ImageInv, NEW t \in Tasks, Client(t)
  PROVE  ItemInv'
<1>0. \A u \in Tasks \ {t} : cl'[u] = cl[u] /\ Item(u)' = Item(u)
  BY ClientPlace, OwnPlace DEF Item
<1>. SUFFICES ASSUME NEW u \in Tasks
     PROVE /\ cl'[u].at \in {"poll", "convert"} /\ Item(u)' \in Exports => image'[Item(u)'] = "none"
           /\ cl'[u].at \in {"poll", "convert", "check"} /\ Item(u)' = "attack"
                => attackStatus' = "building"
           /\ cl'[u].at \in {"poll", "convert", "check"}
                => Item(u)' \notin offered' \/ Item(u)' \in unverified'
           /\ cl'[u].at = "register" => image'[Item(u)'] = "whole" \/ Item(u)' \in unverified'
  BY DEF ItemInv
<1>1. CASE u # t
  <2>1. cl'[u] = cl[u] /\ Item(u)' = Item(u)
    BY <1>0, <1>1
  <2>2. SUFFICES ASSUME cl[u].at \in {"poll", "convert", "check", "register"}
        PROVE /\ cl[u].at \in {"poll", "convert"} /\ Item(u) \in Exports => image'[Item(u)] = "none"
              /\ cl[u].at \in {"poll", "convert", "check"} /\ Item(u) = "attack"
                   => attackStatus' = "building"
              /\ cl[u].at \in {"poll", "convert", "check"}
                   => Item(u) \notin offered' \/ Item(u) \in unverified'
              /\ cl[u].at = "register" => image'[Item(u)] = "whole" \/ Item(u) \in unverified'
    BY <2>1
  <2>3. Item(u) \in Assets /\ Item(u) # "kernel" /\ cl[u].at # "end"
    BY <2>2 DEF PlaceInv, Assets, Exports, Images
  <2>4. cl[t].at # "end"
    BY Somewhere
  <2>5. Item(t) # Item(u)
    BY <1>1, <2>3, <2>4, ItemsApart
  <2>6. Item(u) = "attack" => u = "attack"
    BY <2>3, PlaceType, AtItem, AttackPlan DEF Item
  <2>7. image'[Item(u)] = image[Item(u)] /\ unverified' = unverified
    BY <2>3, <2>5, ClientFiles
  <2>8. Item(u) \in offered' => Item(u) \in offered
    BY <2>3, <2>5, ClientFiles
  <2>9. Item(u) = "attack" => attackStatus' = attackStatus
    BY <1>1, <2>5, <2>6, ClientFiles
  <2>. QED BY <2>7, <2>8, <2>9 DEF ImageInv, ItemInv
<1>2. CASE u = t
  <2>1. CASE cl'[t].at \in {"look", "end", "download"}
    BY <1>2, <2>1
  <2>2. CASE /\ cl[t].at = "look" /\ cl'[t].at = "register" /\ Item(t)' = Item(t)
             /\ image' = image /\ image[Item(t)] # "none" /\ Item(t) \in Assets
    <3>1. image[Item(t)] = "broken" => Item(t) \in unverified
      <4>1. ASSUME NEW v \in Tasks, cl[v].at = "check", Item(v) = Item(t) PROVE FALSE
        BY <2>2, <4>1, ItemsApart DEF Assets, Exports, Images
      <4>. QED BY <2>2, <4>1 DEF ImageInv, BrokenInv
    <3>2. image[Item(t)] \in {"none", "broken", "whole"}
      BY <2>2 DEF TypeOK
    <3>. QED BY <1>2, <2>2, <3>1, <3>2, ClientFiles
  <2>3. CASE /\ cl[t].at = "look" /\ cl'[t].at = "poll" /\ Item(t)' = Item(t)
             /\ image' = image /\ offered' = offered /\ image[Item(t)] = "none"
             /\ Item(t) = "attack" => attackStatus' = "building" /\ Item(t) \in Assets
    <3>1. Item(t) \in offered => Item(t) \in unverified
      <4>1. Item(t) \in Assets
        BY <2>3, ClientGoes
      <4>. QED BY <2>3, <4>1 DEF ImageInv, OfferedIsWhole
    <3>. QED BY <1>2, <2>3, <3>1, ClientFiles
  <2>4. CASE /\ cl[t].at = "poll" /\ cl'[t].at = "register" /\ image' = image
             /\ Item(t) \in Images /\ Status(Job(t)) = "ready" /\ Item(t)' = Item(t)
    <3>1. Job(t) \in BuildJobs /\ AssetOf(Job(t)) = Item(t)
      BY <2>4, JobType, PreparationAssumption DEF Assets
    <3>2. rec[Job(t)] = "ready"
      BY <2>4 DEF Status
    <3>3. image[Item(t)] = "whole"
      BY <3>1, <3>2 DEF ImageInv, ReadyInv
    <3>. QED BY <1>2, <2>4, <3>3
  <2>5. CASE /\ cl[t].at = "poll" /\ cl'[t].at = "convert" /\ Item(t) \in Exports
             /\ image' = image /\ offered' = offered /\ attackStatus' = attackStatus
             /\ Item(t)' = Item(t)
    BY <1>2, <2>5, ClientFiles DEF ImageInv, ItemInv
  <2>6. CASE /\ cl[t].at = "convert" /\ cl'[t].at = "check" /\ Item(t)' = Item(t)
             /\ offered' = offered /\ attackStatus' = attackStatus
    BY <1>2, <2>6, ClientFiles DEF ImageInv, ItemInv
  <2>7. CASE /\ cl[t].at = "check" /\ cl'[t].at = "register" /\ Item(t)' = Item(t)
             /\ image'[Item(t)] = "whole"
    BY <1>2, <2>7
  <2>. QED BY <2>1, <2>2, <2>3, <2>4, <2>5, <2>6, <2>7, ClientGoes
<1>. QED BY <1>1, <1>2

\* It keeps the rest as well.
LEMMA ClientImages ==
  ASSUME TypeOK, PlaceInv, ImageInv, NEW t \in Tasks, Client(t)
  PROVE  ImageInv'
<1>0. /\ cl[t].at # "end"
      /\ \A u \in Tasks \ {t} : cl'[u] = cl[u] /\ Item(u)' = Item(u)
  BY Somewhere, ClientPlace, OwnPlace DEF Item
<1>1. image' \in [Assets -> {"none", "broken", "whole"}] /\ image \in [Assets -> {"none", "broken", "whole"}]
  BY ClientType DEF TypeOK
<1>2. cl[t].at \in {"convert", "check"} => Item(t) \in Exports /\ Item(t) \in Assets
  BY DEF PlaceInv, Assets
<1>3. BrokenInv'
  <2>. SUFFICES ASSUME NEW a \in Assets, image'[a] = "broken", a \notin unverified'
       PROVE \E u \in Tasks : cl'[u].at = "check" /\ Item(u)' = a
    BY DEF BrokenInv
  <2>0. a \notin unverified
    BY ClientFiles
  <2>1. CASE a = Item(t) /\ cl[t].at \in {"convert", "check"}
    <3>1. CASE cl'[t].at = "check" /\ Item(t)' = Item(t)
      BY <2>1, <3>1
    <3>2. CASE cl[t].at = "convert" /\ image' = image
      <4>1. PICK u \in Tasks : cl[u].at = "check" /\ Item(u) = a
        BY <2>0, <3>2 DEF ImageInv, BrokenInv
      <4>2. u = t
        BY <2>1, <3>2, <4>1, ItemsApart DEF Assets, Exports, Images
      <4>. QED BY <3>2, <4>1, <4>2
    <3>. QED BY <2>1, <3>1, <3>2, ClientFiles
  <2>2. CASE ~(a = Item(t) /\ cl[t].at \in {"convert", "check"})
    <3>1. image[a] = "broken"
      BY <2>2, ClientFiles
    <3>2. PICK u \in Tasks : cl[u].at = "check" /\ Item(u) = a
      BY <2>0, <3>1 DEF ImageInv, BrokenInv
    <3>3. u # t
      BY <2>2, <3>2
    <3>. QED BY <1>0, <3>2, <3>3
  <2>. QED BY <2>1, <2>2
<1>4. ReadyInv'
  <2>. SUFFICES ASSUME NEW j \in BuildJobs, rec'[j] = "ready" PROVE image'[AssetOf(j)] = "whole"
    BY DEF ReadyInv, AssetOf
  <2>1. AssetOf(j) \in Assets /\ AssetOf(j) \notin Exports /\ j \in Jobs
    BY PreparationAssumption DEF Assets, Images, Exports
  <2>2. rec[j] = "ready"
    BY <2>1, ClientRecords
  <2>. QED BY <1>2, <2>1, <2>2, ClientFiles DEF ImageInv, ReadyInv
<1>5. OfferedIsWhole'
  <2>. SUFFICES ASSUME NEW a \in Assets,
                       \/ a \in offered' \/ (a = "attack" /\ attackStatus' = "ready")
                       \/ (a = "extra" /\ row' = "ready")
       PROVE image'[a] = "whole" \/ a \in unverified'
    BY DEF OfferedIsWhole
  <2>0. unverified' = unverified
    BY ClientFiles
  <2>1. CASE a \in offered \/ (a = "attack" /\ attackStatus = "ready") \/ (a = "extra" /\ row = "ready")
    <3>1. image[a] = "whole" \/ a \in unverified
      BY <2>1 DEF ImageInv, OfferedIsWhole
    <3>2. CASE a = Item(t) /\ cl[t].at \in {"convert", "check"}
      <4>1. a # "extra" /\ (a = "attack" => attackStatus = "building")
        BY <1>2, <3>2 DEF ImageInv, ItemInv, Exports
      <4>2. a \in offered
        BY <2>1, <4>1
      <4>. QED BY <2>0, <3>2, <4>2 DEF ImageInv, ItemInv
    <3>3. CASE ~(a = Item(t) /\ cl[t].at \in {"convert", "check"})
      BY <2>0, <3>1, <3>3, ClientFiles
    <3>. QED BY <3>2, <3>3
  <2>2. CASE a = Item(t) /\ cl[t].at = "register" /\ image' = image
    BY <2>0, <2>2 DEF ImageInv, ItemInv
  <2>3. CASE a = "attack" /\ image'["attack"] = "whole"
    BY <2>3
  <2>4. CASE a = "attack" /\ Item(t) = "attack" /\ cl[t].at = "look" /\ image' = image
             /\ image["attack"] # "none"
    <3>1. image["attack"] = "broken" => "attack" \in unverified
      <4>1. ASSUME NEW u \in Tasks, cl[u].at = "check", Item(u) = "attack" PROVE FALSE
        BY <2>4, <4>1, ItemsApart
      <4>. QED BY <2>4, <4>1 DEF ImageInv, BrokenInv
    <3>. QED BY <1>1, <2>0, <2>4, <3>1
  <2>. QED BY <2>1, <2>2, <2>3, <2>4, ClientFiles
<1>. QED BY <1>3, <1>4, <1>5, ClientItems DEF ImageInv

\* A job's task puts whole images of build jobs in place, and nothing else.
LEMMA WorkImages ==
  ASSUME TypeOK, PlaceInv, ServiceInv, ImageInv, NEW j \in Jobs, Work(j)
  PROVE  ImageInv'
<1>0. image \in [Assets -> {"none", "broken", "whole"}] /\ BuilderTypeOK
  BY DEF TypeOK
<1>1. UNCHANGED <<cl, offered, attackStatus, row, unverified>>
  BY DEF Work, PutInPlace, clientVars
<1>2. \A a \in Assets : image'[a] = image[a] \/ (image'[a] = "whole" /\ a \in Images)
  <2>1. CASE PutInPlace(j)
    <3>1. AssetOf(j) \in Images
      BY <2>1, PreparationAssumption DEF PutInPlace, Converted, ServiceInv, TasksInv
    <3>. QED BY <1>0, <2>1, <3>1 DEF PutInPlace
  <2>2. CASE UNCHANGED clientVars
    BY <2>2 DEF clientVars
  <2>. QED BY <2>1, <2>2 DEF Work
<1>3. \A i \in BuildJobs : rec'[i] = "ready" => rec[i] = "ready" \/ image'[AssetOf(i)] = "whole"
  <2>1. CASE PutInPlace(j)
    <3>1. AssetOf(j) \in Assets
      BY PreparationAssumption DEF AllJobs, AssetOf
    <3>2. image'[AssetOf(j)] = "whole"
      BY <1>0, <2>1, <3>1 DEF PutInPlace
    <3>3. \A i \in Jobs \ {j} : rec'[i] = rec[i]
      BY <1>0, <2>1 DEF PutInPlace, Converted, Leave, BuilderTypeOK
    <3>. QED BY <3>2, <3>3, BuilderAssumption
  <2>2. CASE Enter(j) \/ RunEnds(j) \/ Exported(j) \/ JobFails(j) \/ JobTimesOut(j) \/ CleanUp(j)
    BY <1>0, <2>2, BuilderAssumption DEF Enter, RunEnds, Exported, JobFails, JobTimesOut, CleanUp, Leave,
       BuilderTypeOK
  <2>. QED BY <2>1, <2>2 DEF Work
<1>4. ItemInv'
  <2>1. \A u \in Tasks : cl[u].at \in {"poll", "convert", "check", "register"} => Item(u) \in Assets
    BY DEF PlaceInv, Assets, Exports, Images
  <2>2. \A u \in Tasks : Item(u) \in Exports => Item(u) \in Assets /\ Item(u) \notin Images
    BY DEF Assets, Exports, Images
  <2>. QED BY <1>1, <1>2, <2>1, <2>2 DEF ImageInv, ItemInv, Item
<1>5. BrokenInv'
  BY <1>1, <1>2 DEF ImageInv, BrokenInv, Item
<1>6. ReadyInv'
  <2>1. \A i \in BuildJobs : AssetOf(i) \in Assets
    BY PreparationAssumption DEF Assets
  <2>2. \A i \in BuildJobs : rec'[i] = "ready" => image'[AssetOf(i)] = "whole"
    BY <1>2, <1>3, <2>1 DEF ImageInv, ReadyInv
  <2>. QED BY <2>2 DEF ReadyInv, AssetOf
<1>7. OfferedIsWhole'
  BY <1>1, <1>2 DEF ImageInv, OfferedIsWhole
<1>. QED BY <1>4, <1>5, <1>6, <1>7 DEF ImageInv

\* Neither process takes a file away as it ends or starts.
LEMMA ProcessImages ==
  ASSUME TypeOK, PlaceInv, LifeInv, ImageInv,
         \/ (BuilderCrash \/ BuilderStart) /\ UNCHANGED clientVars
         \/ Crash \/ Shutdown \/ Boot \/ UNCHANGED vars
  PROVE  ImageInv'
<1>1. ASSUME UNCHANGED clientVars, \A j \in BuildJobs : rec'[j] = "ready" => rec[j] = "ready"
      PROVE  ImageInv'
  BY <1>1 DEF clientVars, ImageInv, ItemInv, BrokenInv, ReadyInv, OfferedIsWhole, Item, AssetOf
<1>2. CASE (BuilderCrash \/ BuilderStart) /\ UNCHANGED clientVars
  <2>1. \A j \in BuildJobs : rec'[j] = "ready" => rec[j] = "ready"
    BY <1>2, BuilderAssumption DEF BuilderCrash, BuilderStart
  <2>. QED BY <1>1, <1>2, <2>1
<1>3. CASE UNCHANGED vars
  BY <1>1, <1>3 DEF vars, builderVars, serviceVars
<1>4. CASE Crash \/ Shutdown
  <2>1. Down /\ \A j \in BuildJobs : rec'[j] = "ready" => rec[j] = "ready"
    BY <1>4, BuilderAssumption DEF Crash, Shutdown, tarOnly
  <2>2. ItemInv'
    BY <2>1 DEF Down, ItemInv, End
  <2>3. BrokenInv'
    BY <2>1 DEF Down, ImageInv, BrokenInv
  <2>4. ReadyInv'
    BY <2>1 DEF Down, ImageInv, ReadyInv, AssetOf
  <2>5. OfferedIsWhole'
    BY <2>1 DEF Down, ImageInv, OfferedIsWhole
  <2>. QED BY <2>2, <2>3, <2>4, <2>5 DEF ImageInv
<1>5. CASE Boot
  <2>1. /\ UNCHANGED <<rec, image, unverified, offered, attackStatus>>
        /\ ~up /\ (row' = "ready" => row = "ready")
        /\ \A t \in Tasks : cl'[t].at \in {"look", "end"}
    BY <1>5 DEF Boot, builderVars, serviceVars, files, Start, End
  <2>2. \A t \in Tasks : cl[t].at # "check"
    BY <2>1 DEF LifeInv, End
  <2>3. ItemInv'
    BY <2>1 DEF ItemInv
  <2>4. BrokenInv'
    BY <2>1, <2>2 DEF ImageInv, BrokenInv
  <2>5. ReadyInv'
    BY <2>1 DEF ImageInv, ReadyInv, AssetOf
  <2>6. OfferedIsWhole'
    BY <2>1 DEF ImageInv, OfferedIsWhole
  <2>. QED BY <2>3, <2>4, <2>5, <2>6 DEF ImageInv
<1>. QED BY <1>2, <1>3, <1>4, <1>5

\* At first every file is whole or not there, and nothing is on offer.
LEMMA ImageInit == Init => ImageInv
<1>. SUFFICES ASSUME Init PROVE ImageInv
  OBVIOUS
<1>1. /\ \A a \in Assets : image[a] \in {"none", "whole"}
      /\ offered = {} /\ attackStatus = "idle" /\ row = "pending"
      /\ \A t \in Tasks : cl[t].at = "look"
  BY DEF Init, Start
<1>2. \A j \in BuildJobs : rec[j] = "none"
  BY BuilderAssumption DEF Init, BuilderInit
<1>. QED BY <1>1, <1>2 DEF ImageInv, ItemInv, BrokenInv, ReadyInv, OfferedIsWhole

\* Nothing is recorded that a guest left broken, in every state.
THEOREM ImageInvariant == Spec => []ImageInv
<1>1. TypeOK /\ PlaceInv /\ LifeInv /\ ServiceInv /\ ImageInv /\ [Next]_vars => ImageInv'
  BY ClientImages, WorkImages, ProcessImages DEF Next
<1>. QED BY PlacesInvariant, ServiceInvariant, ImageInit, <1>1, PTL DEF Spec

\* What VMs are built from is whole, but for an interrupted check and a kernel that two
\* tasks downloaded at once (FilesAreWhole).
THEOREM FilesStayWhole == Spec => []FilesAreWhole
<1>1. KernelInv /\ ImageInv => FilesAreWhole
  BY DEF KernelInv, ImageInv, FilesAreWhole
<1>. QED BY KernelInvariant, ImageInvariant, <1>1, PTL

-----------------------------------------------------------------------------
(* What is there is used.                                                   *)

\* What a task prepares for others to use, and whether that came to be: it is on offer, its
\* registration timed out, its job was left, or there was no kernel for it.
Wanted    == {"rootfs", "base", "attack"}
Behind(a) == \E j \in late : AssetOf(j) = a
Dealt(a)  == a \in offered \cup missed \/ Behind(a) \/ (a # "base" /\ "kernel" \in missed)

\* A task is through with the n-th item of its plan.
Past(t, n) == cl[t] = End \/ cl[t].step > n

\* While a task polls for an image, the image appears as its record says so.
PollsInv == \A t \in Tasks :
  cl[t].at = "poll" /\ Item(t) \in Images /\ image[Item(t)] # "none" =>
    rec[Job(t)] = "ready" \/ Behind(Item(t))

\* What a task is through with, and is there, has been dealt with.
PastInv == up => \A t \in Tasks : \A n \in DOMAIN Plan[t] :
  Plan[t][n] \in Wanted /\ image[Plan[t][n]] # "none" /\ Past(t, n) => Dealt(Plan[t][n])

OfferInv == PollsInv /\ PastInv

\* Within a life of the orchestrator, what is dealt with remains so.
LEMMA StillDealt ==
  ASSUME TypeOK, PlaceInv, NEW t \in Tasks, Client(t)
  PROVE  offered \subseteq offered' /\ missed \subseteq missed' /\ late \subseteq late'
<1>1. offered \subseteq offered' /\ missed \subseteq missed'
  BY DEF Client, Keep, BeginDownload, EndDownload, DownloadFails, Order, OrderFails, PollReady,
     PollFails, GiveUp, ConvertBase, Convert, ConvertFails, Check, Register, RegisterTimesOut, worlds
<1>. QED BY <1>1, ClientRecords

\* A task goes on to the next item when it has dealt with the one before, or there is none;
\* it passes over the next one when there is no kernel.
LEMMA ClientPasses ==
  ASSUME TypeOK, PlaceInv, ServiceInv, ImageInv, PollsInv, NEW t \in Tasks, Client(t)
  PROVE  \/ cl'[t].at # "end" /\ cl'[t].step = cl[t].step
         \/ /\ Advance(t, 1)
            /\ Item(t) \in Wanted =>
                 \/ image'[Item(t)] = "none" \/ Item(t) \in offered' \cup missed'
                 \/ \E j \in late' : AssetOf(j) = Item(t)
         \/ Advance(t, 2) /\ Item(t) = "kernel" /\ "kernel" \in missed'
<1>0. cl[t].at # "end"
  BY Somewhere
<1>1. ASSUME NEW where \in Places, GoTo(t, where)
      PROVE  cl'[t].at # "end" /\ cl'[t].step = cl[t].step
  BY <1>0, <1>1, PlaceType, GoToType DEF Places
<1>2. ASSUME Succeed(t)
      PROVE  \/ cl'[t].at # "end" /\ cl'[t].step = cl[t].step
             \/ Advance(t, 1) /\ Item(t) \notin Wanted
  BY <1>1, <1>2 DEF Succeed, Places, Wanted
<1>3. ASSUME Fail(t), Item(t) # "kernel" PROVE Advance(t, 1)
  BY <1>3 DEF Fail
<1>4. ASSUME Fail(t), Item(t) = "kernel" PROVE Advance(t, 2)
  BY <1>4 DEF Fail
<1>5. CASE Keep(t) \/ ConvertBase(t)
  BY <1>2, <1>5 DEF Keep, ConvertBase
<1>6. CASE BeginDownload(t) \/ Order(t) \/ Convert(t)
  BY <1>1, <1>6 DEF BeginDownload, Order, Convert, Places
<1>7. CASE EndDownload(t) \/ DownloadFails(t)
  <2>1. Item(t) = "kernel"
    BY <1>7 DEF EndDownload, DownloadFails, At, PlaceInv
  <2>. QED BY <1>2, <1>4, <1>7, <2>1 DEF EndDownload, DownloadFails
<1>8. CASE OrderFails(t)
  BY <1>3, <1>8 DEF OrderFails, Exists, files
<1>9. CASE PollReady(t)
  BY <1>1, <1>2, <1>9 DEF PollReady, Places
<1>10. CASE PollFails(t) \/ GiveUp(t)
  <2>1. cl[t].at = "poll" /\ Item(t) \in Assets /\ image' = image /\ Fail(t)
    BY <1>10 DEF PollFails, GiveUp, At, files, PlaceInv
  <2>2. Item(t) # "kernel" /\ Job(t) \in Jobs /\ AssetOf(Job(t)) = Item(t)
    BY <2>1, JobType DEF Assets, Exports, Images
  <2>3. CASE image[Item(t)] = "none"
    BY <1>3, <2>1, <2>2, <2>3
  <2>4. CASE image[Item(t)] # "none"
    <3>1. Item(t) \in Images
      BY <2>1, <2>4 DEF ImageInv, ItemInv, Assets
    <3>2. rec[Job(t)] = "ready" \/ Behind(Item(t))
      BY <2>1, <2>4, <3>1 DEF PollsInv
    <3>3. rec[Job(t)] = "ready" => Job(t) \in late'
      <4>1. CASE PollFails(t)
        BY <2>2, <4>1 DEF PollFails, Status, ServiceInv, TasksInv
      <4>2. CASE GiveUp(t)
        BY <4>2 DEF GiveUp, LeaveEarly
      <4>. QED BY <1>10, <4>1, <4>2
    <3>4. \E j \in late' : AssetOf(j) = Item(t)
      BY <2>2, <3>2, <3>3, StillDealt DEF Behind
    <3>. QED BY <1>3, <2>1, <2>2, <3>4
  <2>. QED BY <2>3, <2>4
<1>11. CASE ConvertFails(t)
  <2>1. Item(t) \in Exports /\ cl[t].at = "convert" /\ image' = image /\ Fail(t)
    BY <1>11 DEF ConvertFails, At, files, PlaceInv
  <2>2. image'[Item(t)] = "none" /\ Item(t) # "kernel"
    BY <2>1 DEF ImageInv, ItemInv, Exports
  <2>. QED BY <1>3, <2>1, <2>2
<1>12. CASE Check(t)
  <2>1. Item(t) \in Assets /\ Item(t) # "kernel"
    BY <1>12 DEF Check, At, PlaceInv, Assets, Exports, Images
  <2>2. CASE image[Item(t)] = "whole"
    BY <1>2, <1>12, <2>2 DEF Check
  <2>3. CASE image[Item(t)] # "whole"
    <3>1. image'[Item(t)] = "none" /\ Fail(t)
      BY <1>12, <2>1, <2>3 DEF Check, TypeOK
    <3>. QED BY <1>3, <2>1, <3>1
  <2>. QED BY <2>2, <2>3
<1>13. CASE Register(t)
  <2>1. Item(t) \in Wanted => Item(t) \in offered'
    BY <1>13 DEF Register, Wanted
  <2>. QED BY <1>13, <2>1 DEF Register
<1>14. CASE RegisterTimesOut(t)
  <2>1. Item(t) # "kernel" /\ Item(t) \in missed'
    BY <1>14 DEF RegisterTimesOut, At, PlaceInv
  <2>. QED BY <1>3, <1>14, <2>1 DEF RegisterTimesOut
<1>. QED BY <1>5, <1>6, <1>7, <1>8, <1>9, <1>10, <1>11, <1>12, <1>13, <1>14 DEF Client

\* So what it is through with after the step, and is there, has been dealt with.
LEMMA ClientPast ==
  ASSUME TypeOK, PlaceInv, ServiceInv, ImageInv, OfferInv, NEW t \in Tasks, Client(t)
  PROVE  PastInv'
<1>0. /\ up /\ cl[t].at # "end" /\ \A u \in Tasks \ {t} : cl'[u] = cl[u]
      /\ offered \subseteq offered' /\ missed \subseteq missed' /\ late \subseteq late'
  BY Somewhere, ClientPlace, OwnPlace, StillDealt
<1>1. /\ cl[t] # End /\ cl[t].step \in DOMAIN Plan[t] /\ Item(t) = Plan[t][cl[t].step]
      /\ cl[t].step \in 1 .. 4
  BY <1>0, PlaceType, AtItem DEF Item
<1>. SUFFICES ASSUME NEW u \in Tasks, NEW n \in DOMAIN Plan[u], Plan[u][n] \in Wanted,
                     image'[Plan[u][n]] # "none", Past(u, n)'
     PROVE Dealt(Plan[u][n])'
  BY DEF PastInv
<1>2. PICK a : a = Plan[u][n] /\ a \in Assets /\ a # "kernel"
  BY DEF Wanted, Assets, Exports, Images
<1>3. ASSUME a = Item(t) PROVE u = t /\ n = cl[t].step
  <2>1. Plan[u][n] = Plan[t][cl[t].step] /\ Plan[u][n] # "kernel"
    BY <1>1, <1>2, <1>3
  <2>. QED BY <1>1, <2>1, PlansApart
<1>4. ASSUME Past(u, n), a # Item(t) PROVE Dealt(a)'
  <2>1. image'[a] = image[a]
    BY <1>2, <1>4, ClientFiles
  <2>2. Dealt(a)
    BY <1>0, <1>2, <1>4, <2>1 DEF OfferInv, PastInv
  <2>. QED BY <1>0, <2>2 DEF Dealt, Behind
<1>5. CASE u # t
  BY <1>0, <1>2, <1>3, <1>4, <1>5 DEF Past
<1>6. CASE u = t /\ Past(t, n)
  <2>1. a # Item(t)
    <3>1. cl[t].step > n /\ n \in 1 .. 4
      BY <1>1, <1>6, PlanShape DEF Past
    <3>2. n # cl[t].step
      BY <1>1, <3>1
    <3>. QED BY <1>3, <3>2
  <2>. QED BY <1>2, <1>4, <1>6, <2>1
<1>7. CASE u = t /\ ~Past(t, n)
  <2>0. n \in 1 .. 4 /\ n \in 1 .. Len(Plan[t]) /\ Len(Plan[t]) \in 1 .. 4 /\ ~(cl[t].step > n)
    BY <1>7, PlanShape DEF Past
  <2>1. ASSUME NEW k \in {1, 2}, Advance(t, k) PROVE n < cl[t].step + k
    <3>1. \/ cl'[t] = End /\ cl[t].step + k > Len(Plan[t])
          \/ cl'[t].at = "look" /\ cl'[t].step = cl[t].step + k
      BY <1>0, <2>1, PlaceType, AdvanceType
    <3>2. cl[t].step + k > Len(Plan[t]) \/ cl[t].step + k > n
      BY <1>7, <3>1 DEF Past, End
    <3>3. \A p, q, r \in 1 .. 4 : q <= r /\ (p + k > r \/ p + k > q) => q < p + k
      OBVIOUS
    <3>4. n <= Len(Plan[t])
      BY <2>0
    <3>. QED BY <1>1, <2>0, <3>2, <3>3, <3>4
  <2>2. ~(cl'[t].at # "end" /\ cl'[t].step = cl[t].step)
    BY <1>7 DEF Past, End
  <2>3. CASE /\ Advance(t, 1)
             /\ Item(t) \in Wanted =>
                  \/ image'[Item(t)] = "none" \/ Item(t) \in offered' \cup missed'
                  \/ \E j \in late' : AssetOf(j) = Item(t)
    <3>1. n < cl[t].step + 1
      BY <2>1, <2>3
    <3>2. \A p, q \in 1 .. 4 : ~(p > q) /\ q < p + 1 => q = p
      OBVIOUS
    <3>3. a = Item(t)
      BY <1>1, <1>2, <1>7, <2>0, <3>1, <3>2
    <3>4. a \in offered' \cup missed' \/ \E j \in late' : AssetOf(j) = a
      BY <1>2, <2>3, <3>3
    <3>5. Dealt(a)'
      BY <3>4 DEF Dealt, Behind, AssetOf
    <3>. QED BY <1>2, <3>5
  <2>4. CASE Advance(t, 2) /\ Item(t) = "kernel" /\ "kernel" \in missed'
    <3>1. n < cl[t].step + 2
      BY <2>1, <2>4
    <3>2. \A p, q \in 1 .. 4 : ~(p > q) /\ q < p + 2 => q = p \/ q = p + 1
      OBVIOUS
    <3>3. n = cl[t].step \/ n = cl[t].step + 1
      BY <1>1, <2>0, <3>1, <3>2
    <3>4. a \in {"rootfs", "attack"}
      BY <1>1, <1>2, <1>7, <2>4, <3>3, AfterKernel
    <3>5. Dealt(a)'
      BY <2>4, <3>4 DEF Dealt
    <3>. QED BY <1>2, <3>5
  <2>5. PollsInv
    BY DEF OfferInv
  <2>. QED BY <2>2, <2>3, <2>4, <2>5, ClientPasses
<1>. QED BY <1>5, <1>6, <1>7

\* A step of a task keeps what is known of images that are polled for.
LEMMA ClientPolls ==
  ASSUME TypeOK, PlaceInv, OfferInv, NEW t \in Tasks, Client(t)
  PROVE  PollsInv'
<1>0. /\ cl[t].at # "end" /\ boot' = boot
      /\ \A u \in Tasks \ {t} : cl'[u] = cl[u]
  BY Somewhere, ClientPlace, OwnPlace
<1>. SUFFICES ASSUME NEW u \in Tasks, cl'[u].at = "poll", Item(u)' \in Images,
                     image'[Item(u)'] # "none"
     PROVE rec'[Job(u)'] = "ready" \/ \E j \in late' : AssetOf(j) = Item(u)'
  BY DEF PollsInv, Behind, AssetOf
<1>1. CASE u = t
  BY <1>1, ClientGoes
<1>2. CASE u # t
  <2>1. cl'[u] = cl[u] /\ Item(u)' = Item(u) /\ Job(u)' = Job(u)
    BY <1>0, <1>2 DEF Item, Job
  <2>2. Item(u) \in Assets /\ cl[u].at = "poll" /\ Job(u) \in Jobs /\ Item(u) # "kernel"
    BY <2>1, JobType DEF Assets, Exports, Images
  <2>3. Item(t) # Item(u)
    BY <1>0, <1>2, <2>2, ItemsApart
  <2>4. image'[Item(u)] = image[Item(u)]
    BY <2>2, <2>3, ClientFiles
  <2>5. rec'[Job(u)] = rec[Job(u)]
    <3>1. Job(u) # Job(t)
      BY <2>3 DEF Job
    <3>. QED BY <2>2, <3>1, ClientRecords
  <2>. QED BY <2>1, <2>2, <2>4, <2>5, ClientRecords DEF OfferInv, PollsInv, Behind
<1>. QED BY <1>1, <1>2

\* An image that a job's task puts in place is recorded for the client that polls it.
LEMMA WorkOffers ==
  ASSUME TypeOK, PlaceInv, ServiceInv, ClientInv, OfferInv, NEW j \in Jobs, Work(j)
  PROVE  OfferInv'
<1>0. BuilderTypeOK /\ image \in [Assets -> {"none", "broken", "whole"}]
  BY DEF TypeOK
<1>1. UNCHANGED <<up, boot, cl, offered, missed>> /\ late \subseteq late'
  <2>1. UNCHANGED <<up, boot, cl, offered, missed>>
    BY DEF Work, PutInPlace, clientVars
  <2>. QED BY <2>1 DEF Work, PutInPlace, Enter, RunEnds, Exported, Converted, JobFails, JobTimesOut,
       CleanUp, Leave
<1>2. \A i \in Jobs : rec[i] = "ready" => rec'[i] = "ready"
  <2>1. rec[j] = "ready" => task[j] \notin InPlace
    BY DEF ServiceInv, RecInv, InPlace
  <2>. QED BY <1>0, <2>1 DEF Work, PutInPlace, Enter, RunEnds, Exported, Converted, JobFails,
       JobTimesOut, CleanUp, Leave, BuilderTypeOK, InPlace
<1>3. \A a \in Assets : image'[a] = image[a] \/ (PutInPlace(j) /\ a = AssetOf(j))
  BY <1>0 DEF Work, PutInPlace, clientVars
<1>4. ASSUME PutInPlace(j), j \notin late
      PROVE  \E v \in Tasks : /\ cl[v].at = "poll" /\ Job(v) = j /\ AssetOf(j) = Item(v)
                              /\ Item(v) \in Assets /\ rec'[j] = "ready"
  <2>1. task[j] = "convert"
    BY <1>4 DEF PutInPlace, Converted
  <2>2. PICK v \in Polling : Job(v) = j
    BY <1>4, <2>1 DEF ClientInv, TaskInv, Polled, Building, InPlace
  <2>3. Item(v) \in Assets /\ AssetOf(j) = Item(v)
    BY <2>2, JobType DEF PlaceInv, Polling
  <2>4. rec[j] # "none"
    BY <2>1, <2>2 DEF ClientInv, PollInv
  <2>5. rec'[j] = "ready"
    BY <1>0, <1>4, <2>4 DEF PutInPlace, Converted, Leave, BuilderTypeOK
  <2>. QED BY <2>2, <2>3, <2>5 DEF Polling
<1>5. PollsInv'
  <2>. SUFFICES ASSUME NEW u \in Tasks, cl'[u].at = "poll", Item(u)' \in Images,
                       image'[Item(u)'] # "none"
       PROVE rec'[Job(u)'] = "ready" \/ \E i \in late' : AssetOf(i) = Item(u)'
    BY DEF PollsInv, Behind, AssetOf
  <2>1. /\ Item(u)' = Item(u) /\ Job(u)' = Job(u) /\ cl[u].at = "poll" /\ Item(u) \in Images
        /\ Item(u) \in Assets /\ Item(u) # "kernel"
    BY <1>1 DEF Item, Job, Assets, Exports, Images
  <2>2. Job(u) \in Jobs
    BY <2>1, JobType
  <2>3. CASE image[Item(u)] # "none"
    BY <1>1, <1>2, <2>1, <2>2, <2>3 DEF OfferInv, PollsInv, Behind
  <2>4. CASE PutInPlace(j) /\ Item(u) = AssetOf(j)
    <3>1. CASE j \in late
      BY <1>1, <2>1, <2>4, <3>1
    <3>2. CASE j \notin late
      <4>1. PICK v \in Tasks : /\ cl[v].at = "poll" /\ Job(v) = j /\ AssetOf(j) = Item(v)
                               /\ rec'[j] = "ready"
        BY <1>4, <2>4, <3>2
      <4>2. v = u
        BY <2>1, <2>4, <4>1, ItemsApart
      <4>. QED BY <2>1, <4>1, <4>2
    <3>. QED BY <3>1, <3>2
  <2>. QED BY <1>3, <2>1, <2>3, <2>4
<1>6. PastInv'
  <2>. SUFFICES ASSUME up, NEW u \in Tasks, NEW n \in DOMAIN Plan[u], Plan[u][n] \in Wanted,
                       image'[Plan[u][n]] # "none", Past(u, n)
       PROVE Dealt(Plan[u][n])'
    BY <1>1 DEF PastInv, Past
  <2>1. PICK a : a = Plan[u][n] /\ a \in Assets /\ a # "kernel"
    BY DEF Wanted, Assets, Exports, Images
  <2>2. CASE image[a] # "none"
    <3>1. Dealt(a)
      BY <2>1, <2>2 DEF OfferInv, PastInv
    <3>2. Dealt(a)'
      BY <1>1, <3>1 DEF Dealt, Behind
    <3>. QED BY <2>1, <3>2
  <2>3. CASE PutInPlace(j) /\ a = AssetOf(j)
    <3>1. CASE j \in late
      <4>1. Dealt(a)'
        BY <1>1, <2>3, <3>1 DEF Dealt, Behind, AssetOf
      <4>. QED BY <2>1, <4>1
    <3>2. CASE j \notin late
      <4>1. PICK v \in Tasks : cl[v].at = "poll" /\ a = Item(v)
        BY <1>4, <2>3, <3>2
      <4>2. cl[v].step \in DOMAIN Plan[v] /\ cl[v].step \in 1 .. 4 /\ cl[v] # End
        BY <4>1, PlaceType, AtItem
      <4>3. u = v /\ n = cl[v].step
        <5>1. Plan[u][n] = Plan[v][cl[v].step] /\ Plan[u][n] # "kernel"
          BY <2>1, <4>1 DEF Item
        <5>. QED BY <4>2, <5>1, PlansApart
      <4>. QED BY <4>2, <4>3 DEF Past
    <3>. QED BY <3>1, <3>2
  <2>. QED BY <1>3, <2>1, <2>2, <2>3
<1>. QED BY <1>5, <1>6 DEF OfferInv

\* A crash of the service leaves the jobs that were through; a start of the orchestrator
\* starts every plan over.
LEMMA ProcessOffers ==
  ASSUME TypeOK, PlaceInv, OfferInv,
         \/ (BuilderCrash \/ BuilderStart) /\ UNCHANGED clientVars
         \/ Crash \/ Shutdown \/ Boot \/ UNCHANGED vars
  PROVE  OfferInv'
<1>1. ASSUME UNCHANGED clientVars, late \subseteq late',
             \A t \in Tasks : cl[t].at = "poll" /\ Item(t) \in Images /\ rec[Job(t)] = "ready" =>
               rec'[Job(t)] = "ready" \/ Job(t) \in late'
      PROVE  OfferInv'
  <2>1. UNCHANGED <<up, boot, cl, offered, missed, image>>
    BY <1>1 DEF clientVars
  <2>2. PollsInv'
    <3>. SUFFICES ASSUME NEW u \in Tasks, cl'[u].at = "poll", Item(u)' \in Images,
                         image'[Item(u)'] # "none"
         PROVE rec'[Job(u)'] = "ready" \/ \E i \in late' : AssetOf(i) = Item(u)'
      BY DEF PollsInv, Behind, AssetOf
    <3>1. /\ Item(u)' = Item(u) /\ Job(u)' = Job(u) /\ cl[u].at = "poll" /\ Item(u) \in Images
          /\ AssetOf(Job(u)) = Item(u)
      BY <2>1, JobType DEF Item, Job, Assets
    <3>. QED BY <1>1, <2>1, <3>1 DEF OfferInv, PollsInv, Behind
  <2>3. PastInv'
    <3>. SUFFICES ASSUME up, NEW u \in Tasks, NEW n \in DOMAIN Plan[u], Plan[u][n] \in Wanted,
                         image[Plan[u][n]] # "none", Past(u, n)
         PROVE Dealt(Plan[u][n])'
      BY <2>1 DEF PastInv, Past
    <3>1. Dealt(Plan[u][n])
      BY DEF OfferInv, PastInv
    <3>. QED BY <1>1, <2>1, <3>1 DEF Dealt, Behind
  <2>. QED BY <2>2, <2>3 DEF OfferInv
<1>2. CASE BuilderCrash /\ UNCHANGED clientVars
  <2>1. \A t \in Tasks : cl[t].at = "poll" /\ Item(t) \in Images => Job(t) \in BuildJobs
    BY JobType, PreparationAssumption DEF Assets
  <2>. QED BY <1>1, <1>2, <2>1 DEF BuilderCrash
<1>3. CASE (BuilderStart /\ UNCHANGED clientVars) \/ UNCHANGED vars
  BY <1>1, <1>3 DEF BuilderStart, vars, builderVars, serviceVars
<1>4. CASE Crash \/ Shutdown
  BY <1>4 DEF Crash, Shutdown, Down, OfferInv, PollsInv, PastInv, End
<1>5. CASE Boot
  <2>1. PollsInv'
    BY <1>5 DEF Boot, PollsInv, Start, End
  <2>2. PastInv'
    <3>. SUFFICES ASSUME NEW u \in Tasks, NEW n \in DOMAIN Plan[u], Plan[u][n] \in Wanted, Past(u, n)'
         PROVE FALSE
      BY DEF PastInv
    <3>1. u # "worker"
      BY WorkerPlan DEF Wanted
    <3>2. cl'[u] = Start
      BY <1>5, <3>1 DEF Boot
    <3>3. n \in 1 .. 4
      BY PlanShape
    <3>. QED BY <3>2, <3>3 DEF Past, Start, End
  <2>. QED BY <2>1, <2>2 DEF OfferInv
<1>. QED BY <1>2, <1>3, <1>4, <1>5

\* At first no task polls or is through with anything.
LEMMA OfferInit == Init => OfferInv
<1>1. ASSUME Init, NEW t \in Tasks, NEW n \in DOMAIN Plan[t] PROVE ~Past(t, n)
  <2>1. n \in 1 .. 4
    BY PlanShape
  <2>. QED BY <1>1, <2>1 DEF Init, Past, Start, End
<1>2. Init => PastInv
  BY <1>1 DEF PastInv
<1>3. Init => PollsInv
  BY DEF Init, PollsInv, Start
<1>. QED BY <1>2, <1>3 DEF OfferInv

\* Images and plans keep in step with each other in every state.
THEOREM OfferInvariant == Spec => []OfferInv
<1>1. /\ TypeOK /\ PlaceInv /\ LifeInv /\ ServiceInv /\ ClientInv /\ ImageInv /\ OfferInv
      /\ [Next]_vars
      => OfferInv'
  BY ClientPast, ClientPolls, WorkOffers, ProcessOffers DEF Next, OfferInv
<1>. QED BY PlacesInvariant, ServiceInvariant, ClientInvariant, ImageInvariant, OfferInit, <1>1, PTL
     DEF Spec

\* When the tasks are through, every file they prepare is on offer, with the exceptions that
\* BuiltIsOffered names.
THEOREM WhatIsBuiltIsOffered == Spec => []BuiltIsOffered
<1>1. OfferInv => BuiltIsOffered
  <2>. SUFFICES ASSUME OfferInv, NEW a \in {"rootfs", "base", "attack"} \cap Planned, up,
                       image[a] # "none", \A t \in Tasks : cl[t] = End
       PROVE \/ a \in offered \cup missed \/ (\E j \in late : AssetOf(j) = a)
             \/ (a # "base" /\ "kernel" \in missed)
    BY DEF BuiltIsOffered
  <2>1. PICK t \in Tasks : \E n \in DOMAIN Plan[t] : a = Plan[t][n]
    BY DEF Planned
  <2>. QED BY <2>1 DEF OfferInv, PastInv, Past, Wanted, Dealt, Behind
<1>. QED BY OfferInvariant, <1>1, PTL
=============================================================================
