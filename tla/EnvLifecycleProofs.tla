------------------------- MODULE EnvLifecycleProofs -------------------------
(***************************************************************************)
(* Proofs about EnvLifecycle for every number of requests, users, images   *)
(* and addresses, and every choice of Paths and Faults.                    *)
(*                                                                         *)
(* The invariant IInv is TypeOK and UniqueIpUnlessEarly strengthened by    *)
(* what makes them inductive: who may have written what under the SQLite   *)
(* lock (LockInv), that a start in flight still owns its row unless it was *)
(* stopped early (FlightInv), and that nothing is in flight while the      *)
(* orchestrator is down (DownInv).                                         *)
(***************************************************************************)
EXTENDS EnvLifecycle, FiniteSetTheorems, TLAPS

\* A free lock has no claim under it; a single-row stop has written one row
\* at most, and only rows that were stoppable are written.  The watchdog holds
\* on to the id of the row it is stopping.
LockInv ==
  /\ lock \in ImagePaths => target \in Images
  /\ lock = "free" => cur = NoEnv
  /\ lock = "watchdog" /\ cur # NoEnv => cur \in wdTodo
  /\ lock \notin ImagePaths => \A e \in Envs : dirty[e] # "clean" => e = cur
  /\ \A e \in Envs : dirty[e] # "clean" => status[e] \in Stoppable

\* The row of a start in flight is starting, or was stopped early.
FlightInv == \A e \in Envs : pc[e] \in InFlight => status[e] = "starting" \/ e \in early

\* A process that is down holds no lock and runs no start handler or watchdog.
DownInv ==
  ~up => lock = "free" /\ wdTodo = {} /\ \A e \in Envs : pc[e] \notin InFlight

IInv == TypeOK /\ LockInv /\ FlightInv /\ DownInv /\ UniqueIpUnlessEarly

\* The extension limit is a natural number.
LEMMA MaxExtendType == MaxExtend \in Nat
  BY FS_CardinalityType, SetsAssumption DEF MaxExtend

\* With no claim outstanding, every row reads as it is committed.
LEMMA FreeIsClean ==
  ASSUME TypeOK, LockInv, lock = "free"
  PROVE  \A e \in Envs : dirty[e] = "clean"
  BY SetsAssumption DEF TypeOK, LockInv, ImagePaths

-----------------------------------------------------------------------------
(* The initial states.                                                      *)

\* A fresh table satisfies the invariant.
LEMMA InitIInv == Init => IInv
  BY MaxExtendType, SetsAssumption
  DEF Init, IInv, TypeOK, LockInv, FlightInv, DownInv, UniqueIpUnlessEarly, ActiveEnvs,
      Active, InFlight, AllClean, ImagePaths, AllPaths, Stoppable

-----------------------------------------------------------------------------
(* Type correctness of one step.                                            *)

\* Every action keeps the types.
LEMMA TypeStep ==
  ASSUME TypeOK, LockInv, Next
  PROVE  TypeOK'
<1>. USE SetsAssumption, MaxExtendType
     DEF TypeOK, rowVars, stopVars, wdVars
<1>1. ASSUME NEW e \in Envs, Start(e) PROVE TypeOK'
  <2>1. CASE Reserve(e)
    BY <2>1 DEF Reserve, FirstFree, Active, InFlight
  <2>2. CASE BootVm(e)
    BY <2>2 DEF BootVm, InFlight
  <2>3. CASE BootFails(e)
    BY <2>3 DEF BootFails, InFlight
  <2>4. CASE AbortStart(e)
    BY <2>4 DEF AbortStart, ForgetTimes
  <2>5. CASE RecordVm(e)
    BY <2>5 DEF RecordVm, InFlight
  <2>6. CASE GoRunning(e)
    BY <2>6 DEF GoRunning, Active
  <2>7. CASE WriteTimesOut(e)
    BY <2>7 DEF WriteTimesOut, InFlight
  <2>8. CASE CleanupVm(e)
    BY <2>8 DEF CleanupVm
  <2>. QED BY <1>1, <2>1, <2>2, <2>3, <2>4, <2>5, <2>6, <2>7, <2>8 DEF Start
<1>2. ASSUME NEW e \in Envs, Extend(e) PROVE TypeOK'
  BY <1>2 DEF Extend
<1>3. ASSUME StopRequest PROVE TypeOK'
  <2>1. ASSUME NEW e \in Envs, StopEnv(e) PROVE TypeOK'
    BY <2>1 DEF StopEnv, Claim, AllPaths
  <2>2. ASSUME NEW e \in Envs, ForceStop(e) PROVE TypeOK'
    BY <2>2 DEF ForceStop, Claim, AllPaths
  <2>3. ASSUME NEW e \in Envs, ClaimForImage(e) PROVE TypeOK'
    BY <2>3 DEF ClaimForImage, Claim
  <2>4. ASSUME NEW who \in ImagePaths, NEW i \in Images, BeginImageRequest(who, i)
        PROVE  TypeOK'
    BY <2>4 DEF BeginImageRequest, ImagePaths, AllPaths
  <2>5. CASE CommitImage
    BY <2>5 DEF CommitImage, Commit, Committed, Rollback, ForgetTimes, AllClean, LockInv,
       ImagePaths, Active
  <2>6. CASE RejectUpdate
    BY <2>6 DEF RejectUpdate, Rollback, AllClean
  <2>. QED BY <1>3, <2>1, <2>2, <2>3, <2>4, <2>5, <2>6 DEF StopRequest
<1>4. ASSUME Destroy PROVE TypeOK'
  <2>1. CASE DestroyEnv
    BY <2>1 DEF DestroyEnv
  <2>2. CASE DestroyFails
    BY <2>2 DEF DestroyFails, Rollback, AllClean
  <2>3. CASE CommitStop
    BY <2>3 DEF CommitStop, Commit, Committed, Rollback, ForgetTimes, AllClean, Active
  <2>. QED BY <1>4, <2>1, <2>2, <2>3 DEF Destroy
<1>5. ASSUME Watchdog PROVE TypeOK'
  <2>1. CASE WdExpired
    BY <2>1 DEF WdExpired, ReadBatch, ExpiredRows
  <2>2. CASE WdStuck
    BY <2>2 DEF WdStuck, ReadBatch, StuckRows
  <2>3. CASE WdCrashed
    BY <2>3 DEF WdCrashed, ReadBatch, GracedRows
  <2>4. CASE WdSleep
    BY <2>4 DEF WdSleep
  <2>5. CASE WdTimesOut
    BY <2>5 DEF WdTimesOut
  <2>6. ASSUME NEW e \in Envs, WdClaim(e) \/ WdPassOver(e) \/ WdMiss(e) PROVE TypeOK'
    BY <2>6 DEF WdClaim, WdPassOver, WdMiss, Claim
  <2>. QED BY <1>5, <2>1, <2>2, <2>3, <2>4, <2>5, <2>6 DEF Watchdog
<1>6. ASSUME Host PROVE TypeOK'
  <2>1. CASE Crash
    BY <2>1 DEF Crash, Rollback, AllClean
  <2>2. CASE Restart
    BY <2>2 DEF Restart, ForgetTimes, Active
  <2>3. ASSUME NEW e \in Envs, VmDies(e) PROVE TypeOK'
    BY <2>3 DEF VmDies
  <2>4. ASSUME NEW e \in Envs, Expire(e) PROVE TypeOK'
    BY <2>4 DEF Expire
  <2>5. ASSUME NEW e \in Envs, Age(e) PROVE TypeOK'
    BY <2>5 DEF Age
  <2>. QED BY <1>6, <2>1, <2>2, <2>3, <2>4, <2>5 DEF Host
<1>. QED BY <1>1, <1>2, <1>3, <1>4, <1>5, <1>6 DEF Next

-----------------------------------------------------------------------------
(* The lock discipline, one step.                                           *)

\* Every action keeps the lock discipline.
LEMMA LockStep ==
  ASSUME TypeOK, LockInv, DownInv, Next
  PROVE  LockInv'
<1>. USE SetsAssumption DEF LockInv, TypeOK, ImagePaths, Stoppable, rowVars, stopVars, wdVars
<1>1. ASSUME NEW e \in Envs, Start(e) \/ Extend(e) PROVE LockInv'
  <2>1. CASE Reserve(e) \/ AbortStart(e) \/ GoRunning(e)
    BY <2>1, FreeIsClean DEF Reserve, AbortStart, GoRunning
  <2>2. CASE BootVm(e) \/ BootFails(e) \/ RecordVm(e) \/ WriteTimesOut(e) \/ CleanupVm(e)
    BY <2>2 DEF BootVm, BootFails, RecordVm, WriteTimesOut, CleanupVm
  <2>3. CASE Extend(e)
    BY <2>3 DEF Extend
  <2>. QED BY <1>1, <2>1, <2>2, <2>3 DEF Start
<1>2. ASSUME StopRequest PROVE LockInv'
  <2>1. ASSUME NEW e \in Envs, StopEnv(e) \/ ForceStop(e) PROVE LockInv'
    BY <2>1, FreeIsClean DEF StopEnv, ForceStop, Claim
  <2>2. ASSUME NEW e \in Envs, ClaimForImage(e) PROVE LockInv'
    BY <2>2 DEF ClaimForImage, Claim
  <2>3. ASSUME NEW who \in ImagePaths, NEW i \in Images, BeginImageRequest(who, i)
        PROVE  LockInv'
    BY <2>3 DEF BeginImageRequest
  <2>4. CASE CommitImage
    BY <2>4 DEF CommitImage, Commit, Committed, Rollback, AllClean
  <2>5. CASE RejectUpdate
    BY <2>5 DEF RejectUpdate, Rollback, AllClean
  <2>. QED BY <1>2, <2>1, <2>2, <2>3, <2>4, <2>5 DEF StopRequest
<1>3. ASSUME Destroy PROVE LockInv'
  <2>1. CASE DestroyEnv
    BY <2>1 DEF DestroyEnv
  <2>2. CASE DestroyFails
    BY <2>2 DEF DestroyFails, Rollback, AllClean
  <2>3. CASE CommitStop
    BY <2>3 DEF CommitStop, Commit, Committed, Rollback, AllClean
  <2>. QED BY <1>3, <2>1, <2>2, <2>3 DEF Destroy
<1>4. ASSUME Watchdog PROVE LockInv'
  <2>1. CASE WdExpired \/ WdStuck \/ WdCrashed
    BY <2>1, FreeIsClean DEF WdExpired, WdStuck, WdCrashed, ReadBatch, CanWrite
  <2>2. CASE WdSleep
    BY <2>2 DEF WdSleep
  <2>3. CASE WdTimesOut
    BY <2>3 DEF WdTimesOut
  <2>4. ASSUME NEW e \in Envs, WdClaim(e) PROVE LockInv'
    BY <2>4, FreeIsClean DEF WdClaim, Claim, CanWrite
  <2>5. ASSUME NEW e \in Envs, WdPassOver(e) \/ WdMiss(e) PROVE LockInv'
    BY <2>5, FreeIsClean DEF WdPassOver, WdMiss, CanWrite
  <2>. QED BY <1>4, <2>1, <2>2, <2>3, <2>4, <2>5 DEF Watchdog
<1>5. ASSUME Host PROVE LockInv'
  <2>1. CASE Crash
    BY <2>1 DEF Crash, Rollback, AllClean
  <2>2. CASE Restart
    BY <2>2, FreeIsClean DEF Restart, DownInv
  <2>3. ASSUME NEW e \in Envs, VmDies(e) \/ Expire(e) \/ Age(e) PROVE LockInv'
    BY <2>3 DEF VmDies, Expire, Age
  <2>. QED BY <1>5, <2>1, <2>2, <2>3 DEF Host
<1>. QED BY <1>1, <1>2, <1>3, <1>4, <1>5 DEF Next

-----------------------------------------------------------------------------
(* The process that is down.                                                *)

\* Only a restart leaves the state in which the process is down.
LEMMA DownStep ==
  ASSUME TypeOK, LockInv, DownInv, Next
  PROVE  DownInv'
<1>. USE DEF rowVars, stopVars, wdVars
<1>1. CASE Crash
  BY <1>1 DEF Crash, Rollback, DownInv, TypeOK, InFlight
<1>2. CASE Restart
  BY <1>2 DEF Restart, DownInv
<1>3. CASE up /\ ~Crash
  <2>1. ASSUME NEW e \in Envs, Start(e) \/ Extend(e) PROVE up'
    BY <1>3, <2>1 DEF Start, Reserve, BootVm, BootFails, AbortStart, RecordVm, GoRunning,
       WriteTimesOut, CleanupVm, Extend
  <2>2. ASSUME StopRequest PROVE up'
    BY <1>3, <2>2 DEF StopRequest, StopEnv, ForceStop, ClaimForImage, BeginImageRequest,
       CommitImage, RejectUpdate
  <2>3. ASSUME Destroy PROVE up'
    BY <1>3, <2>3 DEF Destroy, DestroyEnv, DestroyFails, CommitStop
  <2>4. ASSUME Watchdog PROVE up'
    BY <1>3, <2>4 DEF Watchdog, WdExpired, WdStuck, WdCrashed, ReadBatch, WdSleep,
       WdTimesOut, WdClaim, WdPassOver, WdMiss
  <2>5. ASSUME Host PROVE up'
    BY <1>3, <2>5 DEF Host, Restart, VmDies, Expire, Age
  <2>. QED BY <2>1, <2>2, <2>3, <2>4, <2>5 DEF Next, DownInv
<1>4. CASE ~up /\ ~Restart
  <2>1. lock = "free" /\ cur = NoEnv /\ wdTodo = {} /\ \A e \in Envs : pc[e] \notin InFlight
    BY <1>4 DEF DownInv, LockInv
  <2>2. ASSUME NEW e \in Envs, Start(e) \/ Extend(e) PROVE FALSE
    BY <1>4, <2>1, <2>2 DEF Start, Reserve, BootVm, BootFails, AbortStart, RecordVm,
       GoRunning, WriteTimesOut, CleanupVm, Extend, InFlight
  <2>3. ~StopRequest
    BY <1>4, <2>1 DEF StopRequest, StopEnv, ForceStop, ClaimForImage, BeginImageRequest,
       CommitImage, RejectUpdate, ImagePaths
  <2>4. ~Destroy
    BY <2>1 DEF Destroy, DestroyEnv, DestroyFails, CommitStop
  <2>5. ASSUME Watchdog PROVE UNCHANGED <<pc, wdTodo>> /\ lock' = "free"
    BY <1>4, <2>1, <2>5 DEF Watchdog, WdExpired, WdStuck, WdCrashed, ReadBatch, WdSleep,
       WdTimesOut, WdClaim, WdPassOver, WdMiss
  <2>6. ASSUME Host PROVE UNCHANGED <<pc, wdTodo, lock>>
    BY <1>4, <2>6 DEF Host, Crash, VmDies, Expire, Age
  <2>. QED BY <2>1, <2>2, <2>3, <2>4, <2>5, <2>6 DEF Next, DownInv
<1>. QED BY <1>1, <1>2, <1>3, <1>4

-----------------------------------------------------------------------------
(* Rows and start handlers, one step.                                       *)

\* A commit under the lock only moves stoppable rows to stopping or stopped,
\* and remembers those it stops early.
LEMMA CommitKeeps ==
  ASSUME TypeOK, LockInv, FlightInv, Commit, pc' = pc
  PROVE  /\ FlightInv'
         /\ ActiveEnvs' \ early' \subseteq ActiveEnvs \ early
  BY DEF TypeOK, LockInv, FlightInv, Commit, Committed, ActiveEnvs, Active, Stoppable

\* A step that changes no address and adds no row to the live rows that were
\* never stopped early.
FewerLive == ip' = ip /\ ActiveEnvs' \ early' \subseteq ActiveEnvs \ early

\* Only a reservation adds one: GoRunning revives none but rows stopped early.
LEMMA RowStep ==
  ASSUME IInv, Next
  PROVE  FlightInv' /\ (FewerLive \/ \E e \in Envs : Reserve(e))
<1>. DEFINE Goal == FlightInv' /\ (FewerLive \/ \E e \in Envs : Reserve(e))
<1>. USE DEF IInv, rowVars, stopVars, wdVars
<1>u. ASSUME UNCHANGED <<status, ip, early>>,
             \A e \in Envs : pc'[e] \in InFlight => pc[e] \in InFlight
      PROVE  Goal
  BY <1>u DEF FlightInv, FewerLive, ActiveEnvs
<1>1. ASSUME NEW e \in Envs, Start(e) \/ Extend(e) PROVE Goal
  <2>1. CASE Reserve(e)
    BY <2>1 DEF Reserve, FlightInv, TypeOK, Active
  <2>2. CASE AbortStart(e)
    BY <2>2 DEF FewerLive, AbortStart, FlightInv, ActiveEnvs, TypeOK, Active, InFlight
  <2>3. CASE GoRunning(e)
    <3>1. e \in ActiveEnvs \/ e \in early
      BY <2>3 DEF GoRunning, FlightInv, InFlight, ActiveEnvs, Active
    <3>. QED BY <2>3, <3>1 DEF FewerLive, GoRunning, FlightInv, ActiveEnvs, TypeOK, Active,
         InFlight
  <2>4. CASE BootVm(e) \/ BootFails(e) \/ RecordVm(e) \/ WriteTimesOut(e) \/ CleanupVm(e)
    BY <2>4, <1>u DEF BootVm, BootFails, RecordVm, WriteTimesOut, CleanupVm, TypeOK, InFlight
  <2>5. CASE Extend(e)
    BY <2>5, <1>u DEF Extend
  <2>. QED BY <1>1, <2>1, <2>2, <2>3, <2>4, <2>5 DEF Start
<1>2. ASSUME StopRequest PROVE Goal
  <2>1. CASE CommitImage
    BY <2>1, CommitKeeps DEF CommitImage, FewerLive
  <2>2. CASE RejectUpdate
    BY <2>2, <1>u DEF RejectUpdate
  <2>3. ASSUME NEW e \in Envs, StopEnv(e) \/ ForceStop(e) \/ ClaimForImage(e) PROVE Goal
    BY <2>3, <1>u DEF StopEnv, ForceStop, ClaimForImage
  <2>4. ASSUME NEW who \in ImagePaths, NEW i \in Images, BeginImageRequest(who, i)
        PROVE  Goal
    BY <2>4, <1>u DEF BeginImageRequest
  <2>. QED BY <1>2, <2>1, <2>2, <2>3, <2>4 DEF StopRequest
<1>3. ASSUME Destroy PROVE Goal
  <2>1. CASE CommitStop
    BY <2>1, CommitKeeps DEF CommitStop, FewerLive
  <2>2. CASE DestroyEnv \/ DestroyFails
    BY <2>2, <1>u DEF DestroyEnv, DestroyFails
  <2>. QED BY <1>3, <2>1, <2>2 DEF Destroy
<1>4. ASSUME Watchdog PROVE Goal
  BY <1>4, <1>u DEF Watchdog, WdExpired, WdStuck, WdCrashed, ReadBatch, WdSleep, WdTimesOut,
     WdClaim, WdPassOver, WdMiss
<1>5. ASSUME Host PROVE Goal
  <2>1. CASE Crash
    BY <2>1, <1>u DEF Crash, TypeOK, InFlight
  <2>2. CASE Restart
    BY <2>2 DEF FewerLive, Restart, FlightInv, DownInv, ActiveEnvs, Active
  <2>3. ASSUME NEW e \in Envs, VmDies(e) \/ Expire(e) \/ Age(e) PROVE Goal
    BY <2>3, <1>u DEF VmDies, Expire, Age
  <2>. QED BY <1>5, <2>1, <2>2, <2>3 DEF Host
<1>. QED BY <1>1, <1>2, <1>3, <1>4, <1>5 DEF Next

\* A reservation takes an address no live row has.
LEMMA UniqueStep ==
  ASSUME IInv, Next
  PROVE  UniqueIpUnlessEarly'
<1>1. CASE FewerLive
  BY <1>1 DEF FewerLive, IInv, UniqueIpUnlessEarly
<1>2. ASSUME NEW e \in Envs, Reserve(e) PROVE UniqueIpUnlessEarly'
  <2>1. PICK i \in IPs : FirstFree(i) /\ ip' = [ip EXCEPT ![e] = i]
    BY <1>2 DEF Reserve
  <2>2. i \notin InUse
    BY <2>1 DEF FirstFree
  <2>3. ActiveEnvs' \subseteq ActiveEnvs \cup {e} /\ early' = early
    BY <1>2 DEF Reserve, ActiveEnvs, Active, IInv, TypeOK
  <2>4. \A f \in ActiveEnvs \ {e} : ip'[f] = ip[f] /\ ip[f] # i
    BY <2>1, <2>2 DEF InUse, IInv, TypeOK, ActiveEnvs
  <2>5. ip'[e] = i
    BY <2>1 DEF IInv, TypeOK
  <2>. QED BY <2>3, <2>4, <2>5 DEF IInv, UniqueIpUnlessEarly
<1>. QED BY <1>1, <1>2, RowStep

-----------------------------------------------------------------------------
(* The theorems.                                                            *)

\* A stuttering step keeps the invariant.
LEMMA StutterIInv == IInv /\ UNCHANGED vars => IInv'
  BY DEF vars, rowVars, stopVars, wdVars, IInv, TypeOK, LockInv, FlightInv, DownInv,
     UniqueIpUnlessEarly, ActiveEnvs

\* IInv is an inductive invariant of the lifecycle.
THEOREM Invariant == Spec => []IInv
<1>1. IInv /\ [Next]_vars => IInv'
  BY TypeStep, LockStep, DownStep, RowStep, UniqueStep, StutterIInv DEF IInv
<1>. QED BY InitIInv, <1>1, PTL DEF Spec

\* Every variable keeps its type, whatever the interleaving of handlers,
\* watchdog, crashes and restarts.
THEOREM TypeCorrect == Spec => []TypeOK
  BY Invariant, PTL DEF IInv

\* allocate_ip gives out no address of a live row: two live rows share one only
\* when a start that was stopped in flight has set its row running again.
THEOREM AddressesUniqueUnlessEarly == Spec => []UniqueIpUnlessEarly
  BY Invariant, PTL DEF IInv

-----------------------------------------------------------------------------
(* The limits on live rows.                                                 *)

\* One reservation by a user within the limits keeps a set of live rows
\* within the bound that set was counted against.
LEMMA AddOne ==
  ASSUME NEW S, IsFiniteSet(S), NEW max \in Nat, Cardinality(S) < max,
         NEW e, NEW T, T \subseteq S \cup {e}
  PROVE  Cardinality(T) <= max
<1>1. /\ IsFiniteSet(S \cup {e})
      /\ Cardinality(S \cup {e}) = IF e \in S THEN Cardinality(S) ELSE Cardinality(S) + 1
  BY FS_AddElement
<1>2. Cardinality(S) \in Nat /\ Cardinality(T) \in Nat /\ Cardinality(T) <= Cardinality(S \cup {e})
  BY <1>1, FS_Subset, FS_CardinalityType
<1>. QED BY <1>1, <1>2

\* A subset stays within the bound.
LEMMA NoMore ==
  ASSUME NEW S, IsFiniteSet(S), NEW max \in Nat, Cardinality(S) <= max, NEW T, T \subseteq S
  PROVE  Cardinality(T) <= max
  BY FS_Subset, FS_CardinalityType

\* Counted: the rows of one user; CountedAll: the rows of users under the limits.
Counted(u) == {e \in ActiveEnvs \ early : UserOf[e] = u}
CountedAll == {e \in ActiveEnvs \ early : UserOf[e] \notin Admins}

\* Live rows are requests, of which there are finitely many.
LEMMA LiveFinite == IsFiniteSet(ActiveEnvs)
  BY SetsAssumption, FS_Subset DEF ActiveEnvs

\* Reservations are checked before they count; nothing else adds a row.
LEMMA QuotaStep ==
  ASSUME IInv, Next, UserQuotaUnlessEarly, TotalQuotaUnlessEarly
  PROVE  UserQuotaUnlessEarly' /\ TotalQuotaUnlessEarly'
<1>. USE LimitsAssumption, SetsAssumption
<1>0. IsFiniteSet(CountedAll) /\ \A u \in Users : IsFiniteSet(Counted(u))
  BY LiveFinite, FS_Subset DEF Counted, CountedAll
<1>1. CASE FewerLive
  <2>1. CountedAll' \subseteq CountedAll /\ \A u \in Users : Counted(u)' \subseteq Counted(u)
    BY <1>1 DEF FewerLive, Counted, CountedAll
  <2>. QED BY <1>0, <2>1, NoMore DEF UserQuotaUnlessEarly, TotalQuotaUnlessEarly, Counted, CountedAll
<1>2. ASSUME NEW e \in Envs, Reserve(e)
      PROVE  UserQuotaUnlessEarly' /\ TotalQuotaUnlessEarly'
  <2>1. ActiveEnvs' \subseteq ActiveEnvs \cup {e} /\ early' = early
    BY <1>2 DEF Reserve, ActiveEnvs, Active, IInv, TypeOK
  <2>2. WithinLimits(UserOf[e])
    BY <1>2 DEF Reserve
  <2>3. ASSUME NEW u \in Users \ Admins PROVE Cardinality(Counted(u)') <= MaxPerUser
    <3>1. CASE UserOf[e] = u
      <4>. DEFINE S == {f \in ActiveEnvs : UserOf[f] = u}
      <4>1. Cardinality(S) < MaxPerUser /\ IsFiniteSet(S)
        BY <2>2, <3>1, LiveFinite, FS_Subset DEF WithinLimits
      <4>2. Counted(u)' \subseteq S \cup {e}
        BY <2>1 DEF Counted
      <4>. HIDE DEF S
      <4>. QED BY <4>1, <4>2, AddOne
    <3>2. CASE UserOf[e] # u
      <4>1. Counted(u)' \subseteq Counted(u)
        BY <2>1, <3>2 DEF Counted
      <4>2. Cardinality(Counted(u)) <= MaxPerUser
        BY DEF UserQuotaUnlessEarly, Counted
      <4>. QED BY <1>0, <4>1, <4>2, NoMore
    <3>. QED BY <3>1, <3>2
  <2>4. Cardinality(CountedAll') <= MaxTotal
    <3>1. CASE UserOf[e] \notin Admins
      <4>1. Cardinality(ActiveEnvs) < MaxTotal
        BY <2>2, <3>1 DEF WithinLimits
      <4>2. CountedAll' \subseteq ActiveEnvs \cup {e}
        BY <2>1 DEF CountedAll
      <4>. QED BY <4>1, <4>2, LiveFinite, AddOne
    <3>2. CASE UserOf[e] \in Admins
      <4>1. CountedAll' \subseteq CountedAll
        BY <2>1, <3>2 DEF CountedAll
      <4>2. Cardinality(CountedAll) <= MaxTotal
        BY DEF TotalQuotaUnlessEarly, CountedAll
      <4>. QED BY <1>0, <4>1, <4>2, NoMore
    <3>. QED BY <3>1, <3>2
  <2>. QED BY <2>3, <2>4 DEF UserQuotaUnlessEarly, TotalQuotaUnlessEarly, Counted, CountedAll
<1>. QED BY <1>1, <1>2, RowStep

\* MAX_ENVS_PER_USER and MAX_ENVS_TOTAL bound the live rows of users who are no
\* admins, except for rows revived by a start that was stopped in flight.
THEOREM QuotasHold == Spec => []QuotasUnlessEarly
<1>. DEFINE Quotas == UserQuotaUnlessEarly /\ TotalQuotaUnlessEarly
<1>1. Init => Quotas
  <2>. SUFFICES ASSUME Init PROVE Quotas
    OBVIOUS
  <2>1. ActiveEnvs = {}
    BY DEF Init, ActiveEnvs, Active
  <2>. QED BY <2>1, FS_EmptySet, LimitsAssumption DEF UserQuotaUnlessEarly, TotalQuotaUnlessEarly
<1>2. IInv /\ Quotas /\ [Next]_vars => Quotas'
  <2>1. ASSUME UNCHANGED vars PROVE Quotas' <=> Quotas
    BY <2>1 DEF vars, UserQuotaUnlessEarly, TotalQuotaUnlessEarly, ActiveEnvs
  <2>. QED BY <2>1, QuotaStep
<1>3. Quotas <=> QuotasUnlessEarly
  BY DEF QuotasUnlessEarly
<1>. QED BY <1>1, <1>2, <1>3, Invariant, PTL DEF Spec

-----------------------------------------------------------------------------
(* Rows and the guests they name.                                           *)

\* What the program counter of a start tells about its VM and its row.  A VM is
\* there from the boot on, the row names it from the next commit on, and once the
\* handler is done a live VM has a live row, which no stop is about to release.
GuestInv == \A e \in Envs :
  /\ pc[e] \in {"idle", "launching", "failing"} => vm[e] = "absent"
  /\ hasVm[e] => pc[e] \notin {"idle", "launching", "booted", "failing"}
  /\ pc[e] = "recorded" => hasVm[e]
  /\ vm[e] = "alive" /\ pc[e] \notin InFlight \cup {"lost"} =>
       status[e] \in Active /\ hasVm[e] /\ dirty[e] # "stopped"

\* A row flushed or committed as `stopping', other than the one whose VM is being
\* stopped, has seen stop_vm fail after the process was killed.
StopInv ==
  /\ \A e \in Envs :
       status[e] = "stopping" \/ (dirty[e] = "stopping" /\ e # cur) =>
         hasVm[e] /\ vm[e] # "alive"
  /\ cur # NoEnv /\ lock \in ImagePaths => dirty[cur] = "stopping"

\* Every action keeps the correspondence of handler, row and VM.
LEMMA GuestStep ==
  ASSUME IInv, GuestInv, Next
  PROVE  GuestInv'
<1>. USE SetsAssumption
     DEF IInv, GuestInv, TypeOK, InFlight, rowVars, stopVars, wdVars
<1>1. ASSUME NEW e \in Envs, Start(e) \/ Extend(e) PROVE GuestInv'
  <2>1. CASE Reserve(e)
    BY <2>1 DEF Reserve
  <2>2. CASE BootVm(e) \/ BootFails(e)
    BY <2>2 DEF BootVm, BootFails
  <2>3. CASE AbortStart(e)
    BY <2>3 DEF AbortStart
  <2>4. CASE RecordVm(e)
    BY <2>4 DEF RecordVm
  <2>5. CASE GoRunning(e)
    BY <2>5, FreeIsClean DEF GoRunning, Active
  <2>6. CASE WriteTimesOut(e)
    BY <2>6 DEF WriteTimesOut
  <2>7. CASE CleanupVm(e)
    BY <2>7 DEF CleanupVm
  <2>8. CASE Extend(e)
    BY <2>8 DEF Extend
  <2>. QED BY <1>1, <2>1, <2>2, <2>3, <2>4, <2>5, <2>6, <2>7, <2>8 DEF Start
<1>2. ASSUME Commit, UNCHANGED <<hasVm, pc, vm>> PROVE GuestInv'
  BY <1>2 DEF Commit, Committed, Rollback, AllClean, Active
<1>3. ASSUME StopRequest PROVE GuestInv'
  <2>1. ASSUME NEW e \in Envs, StopEnv(e) \/ ForceStop(e) \/ ClaimForImage(e) PROVE GuestInv'
    BY <2>1 DEF StopEnv, ForceStop, ClaimForImage, Claim
  <2>2. ASSUME NEW who \in ImagePaths, NEW i \in Images, BeginImageRequest(who, i)
        PROVE  GuestInv'
    BY <2>2 DEF BeginImageRequest
  <2>3. CASE CommitImage
    BY <2>3, <1>2 DEF CommitImage
  <2>4. CASE RejectUpdate
    BY <2>4 DEF RejectUpdate, Rollback, AllClean
  <2>. QED BY <1>3, <2>1, <2>2, <2>3, <2>4 DEF StopRequest
<1>4. ASSUME Destroy PROVE GuestInv'
  <2>1. CASE DestroyEnv
    BY <2>1 DEF DestroyEnv
  <2>2. CASE DestroyFails
    BY <2>2 DEF DestroyFails, Rollback, AllClean
  <2>3. CASE CommitStop
    BY <2>3, <1>2 DEF CommitStop
  <2>. QED BY <1>4, <2>1, <2>2, <2>3 DEF Destroy
<1>5. ASSUME Watchdog PROVE GuestInv'
  <2>1. ASSUME NEW e \in Envs, WdClaim(e) PROVE GuestInv'
    BY <2>1 DEF WdClaim, Claim
  <2>2. ASSUME NEW e \in Envs, WdPassOver(e) \/ WdMiss(e) PROVE GuestInv'
    BY <2>2 DEF WdPassOver, WdMiss
  <2>3. CASE WdExpired \/ WdStuck \/ WdCrashed \/ WdSleep \/ WdTimesOut
    BY <2>3 DEF WdExpired, WdStuck, WdCrashed, ReadBatch, WdSleep, WdTimesOut
  <2>. QED BY <1>5, <2>1, <2>2, <2>3 DEF Watchdog
<1>6. ASSUME Host PROVE GuestInv'
  <2>1. CASE Crash
    BY <2>1 DEF Crash, Rollback, AllClean
  <2>2. CASE Restart
    BY <2>2 DEF Restart, ActiveEnvs, DownInv
  <2>3. ASSUME NEW e \in Envs, VmDies(e) \/ Expire(e) \/ Age(e) PROVE GuestInv'
    BY <2>3 DEF VmDies, Expire, Age
  <2>. QED BY <1>6, <2>1, <2>2, <2>3 DEF Host
<1>. QED BY <1>1, <1>3, <1>4, <1>5, <1>6 DEF Next

\* Every action keeps StopInv: only a stop_vm that has failed leaves `stopping' behind.
LEMMA StopStep ==
  ASSUME IInv, GuestInv, StopInv, Next
  PROVE  StopInv'
<1>. USE SetsAssumption
     DEF IInv, GuestInv, StopInv, LockInv, TypeOK, ImagePaths, rowVars, stopVars, wdVars
<1>1. ASSUME NEW e \in Envs, Start(e) \/ Extend(e) PROVE StopInv'
  <2>1. CASE Reserve(e) \/ AbortStart(e) \/ GoRunning(e)
    BY <2>1 DEF Reserve, AbortStart, GoRunning
  <2>2. CASE BootVm(e) \/ BootFails(e) \/ RecordVm(e)
    BY <2>2 DEF BootVm, BootFails, RecordVm
  <2>3. CASE WriteTimesOut(e) \/ CleanupVm(e)
    BY <2>3 DEF WriteTimesOut, CleanupVm
  <2>4. CASE Extend(e)
    BY <2>4 DEF Extend
  <2>. QED BY <1>1, <2>1, <2>2, <2>3, <2>4 DEF Start
<1>2. ASSUME StopRequest PROVE StopInv'
  <2>1. ASSUME NEW e \in Envs, StopEnv(e) \/ ForceStop(e) PROVE StopInv'
    BY <2>1, FreeIsClean DEF StopEnv, ForceStop, Claim
  <2>2. ASSUME NEW e \in Envs, ClaimForImage(e) PROVE StopInv'
    BY <2>2 DEF ClaimForImage, Claim
  <2>3. ASSUME NEW who \in ImagePaths, NEW i \in Images, BeginImageRequest(who, i)
        PROVE  StopInv'
    BY <2>3 DEF BeginImageRequest
  <2>4. CASE CommitImage
    BY <2>4 DEF CommitImage, Commit, Committed, Rollback, AllClean
  <2>5. CASE RejectUpdate
    BY <2>5 DEF RejectUpdate, Rollback, AllClean
  <2>. QED BY <1>2, <2>1, <2>2, <2>3, <2>4, <2>5 DEF StopRequest
<1>3. ASSUME Destroy PROVE StopInv'
  <2>1. CASE DestroyEnv
    BY <2>1 DEF DestroyEnv
  <2>2. CASE DestroyFails
    BY <2>2 DEF DestroyFails, Rollback, AllClean
  <2>3. CASE CommitStop
    BY <2>3 DEF CommitStop, Commit, Committed, Rollback, AllClean
  <2>. QED BY <1>3, <2>1, <2>2, <2>3 DEF Destroy
<1>4. ASSUME Watchdog PROVE StopInv'
  <2>1. ASSUME NEW e \in Envs, WdClaim(e) PROVE StopInv'
    BY <2>1, FreeIsClean DEF WdClaim, Claim, CanWrite
  <2>2. ASSUME NEW e \in Envs, WdPassOver(e) \/ WdMiss(e) PROVE StopInv'
    BY <2>2 DEF WdPassOver, WdMiss
  <2>3. CASE WdExpired \/ WdStuck \/ WdCrashed \/ WdSleep \/ WdTimesOut
    BY <2>3 DEF WdExpired, WdStuck, WdCrashed, ReadBatch, WdSleep, WdTimesOut
  <2>. QED BY <1>4, <2>1, <2>2, <2>3 DEF Watchdog
<1>5. ASSUME Host PROVE StopInv'
  <2>1. CASE Crash
    BY <2>1 DEF Crash, Rollback, AllClean
  <2>2. CASE Restart
    BY <2>2 DEF Restart, ActiveEnvs, Active
  <2>3. ASSUME NEW e \in Envs, VmDies(e) \/ Expire(e) \/ Age(e) PROVE StopInv'
    BY <2>3 DEF VmDies, Expire, Age
  <2>. QED BY <1>5, <2>1, <2>2, <2>3 DEF Host
<1>. QED BY <1>1, <1>2, <1>3, <1>4, <1>5 DEF Next

\* GuestInv and StopInv are invariants of the lifecycle.
THEOREM GuestInvariant == Spec => [](GuestInv /\ StopInv)
<1>1. Init => GuestInv /\ StopInv
  BY DEF Init, GuestInv, StopInv, InFlight, AllClean
<1>2. IInv /\ GuestInv /\ StopInv /\ [Next]_vars => (GuestInv /\ StopInv)'
  <2>1. ASSUME GuestInv, StopInv, UNCHANGED vars PROVE (GuestInv /\ StopInv)'
    BY <2>1 DEF GuestInv, StopInv, vars, rowVars, stopVars, wdVars
  <2>. QED BY <2>1, GuestStep, StopStep
<1>. QED BY <1>1, <1>2, Invariant, PTL DEF Spec

\* A live VM has its start handler or a live row that names it, unless the handler
\* vanished: no interleaving of stops, timeouts and crashes orphans one otherwise.
THEOREM LiveVmsReachable == Spec => []LiveVmIsReachable
<1>1. GuestInv => LiveVmIsReachable
  BY DEF GuestInv, LiveVmIsReachable, Lost
<1>. QED BY <1>1, GuestInvariant, PTL

\* A row left `stopping' keeps its address for a guest that is gone.
THEOREM StoppingRowsAreDead == Spec => []StoppingRowIsDead
<1>1. StopInv => StoppingRowIsDead
  BY DEF StopInv, StoppingRowIsDead
<1>. QED BY <1>1, GuestInvariant, PTL

\* No two live guests answer on one address: each has a live row of its own, which
\* the lease of the address belongs to.
THEOREM GuestsHaveTheirAddress == Spec => []OneGuestPerIp
<1>1. IInv /\ GuestInv => OneGuestPerIp
  <2>. SUFFICES ASSUME IInv, GuestInv,
                       NEW e \in Envs \ (early \cup Lost), vm[e] = "alive"
                PROVE  e \in ActiveEnvs \ early
    BY DEF IInv, UniqueIpUnlessEarly, OneGuestPerIp
  <2>. QED BY DEF IInv, FlightInv, GuestInv, Lost, ActiveEnvs, Active
<1>. QED BY <1>1, Invariant, GuestInvariant, PTL

-----------------------------------------------------------------------------
(* Deleted images.                                                          *)

\* An image request has still to claim, or has claimed, every stoppable row of its image;
\* a retired image has none.
RetireInv ==
  /\ lock \in ImagePaths =>
       \A e \in Envs : ImageOf[e] = target /\ status[e] \in Stoppable =>
         e \in reqTodo \/ dirty[e] # "clean"
  /\ DeletedImageIsQuiet

\* Every action keeps RetireInv: while an image request has the lock no row becomes
\* stoppable, and afterwards none of a retired image is reserved.
LEMMA RetireStep ==
  ASSUME IInv, RetireInv, Next
  PROVE  RetireInv'
<1>. USE SetsAssumption
     DEF IInv, RetireInv, DeletedImageIsQuiet, LockInv, FlightInv, TypeOK, ImagePaths, Stoppable,
         InFlight, rowVars, stopVars, wdVars
<1>1. ASSUME NEW e \in Envs, Start(e) \/ Extend(e) PROVE RetireInv'
  <2>1. CASE Reserve(e)
    BY <2>1 DEF Reserve
  <2>2. CASE AbortStart(e) \/ GoRunning(e)
    BY <2>2 DEF AbortStart, GoRunning
  <2>3. CASE BootVm(e) \/ BootFails(e) \/ RecordVm(e) \/ WriteTimesOut(e) \/ CleanupVm(e)
    BY <2>3 DEF BootVm, BootFails, RecordVm, WriteTimesOut, CleanupVm
  <2>4. CASE Extend(e)
    BY <2>4 DEF Extend
  <2>. QED BY <1>1, <2>1, <2>2, <2>3, <2>4 DEF Start
<1>2. ASSUME StopRequest PROVE RetireInv'
  <2>1. ASSUME NEW e \in Envs, StopEnv(e) \/ ForceStop(e) PROVE RetireInv'
    BY <2>1 DEF StopEnv, ForceStop, Claim
  <2>2. ASSUME NEW e \in Envs, ClaimForImage(e) PROVE RetireInv'
    BY <2>2 DEF ClaimForImage, Claim
  <2>3. ASSUME NEW who \in ImagePaths, NEW i \in Images, BeginImageRequest(who, i)
        PROVE  RetireInv'
    BY <2>3 DEF BeginImageRequest
  <2>4. CASE CommitImage
    BY <2>4 DEF CommitImage, Commit, Committed, Rollback, AllClean
  <2>5. CASE RejectUpdate
    BY <2>5 DEF RejectUpdate, Rollback, AllClean
  <2>. QED BY <1>2, <2>1, <2>2, <2>3, <2>4, <2>5 DEF StopRequest
<1>3. ASSUME Destroy PROVE RetireInv'
  <2>1. CASE DestroyEnv
    BY <2>1 DEF DestroyEnv
  <2>2. CASE DestroyFails
    BY <2>2 DEF DestroyFails, Rollback, AllClean
  <2>3. CASE CommitStop
    BY <2>3 DEF CommitStop, Commit, Committed, Rollback, AllClean
  <2>. QED BY <1>3, <2>1, <2>2, <2>3 DEF Destroy
<1>4. ASSUME Watchdog PROVE RetireInv'
  <2>1. ASSUME NEW e \in Envs, WdClaim(e) PROVE RetireInv'
    BY <2>1 DEF WdClaim, Claim
  <2>2. ASSUME NEW e \in Envs, WdPassOver(e) \/ WdMiss(e) PROVE RetireInv'
    BY <2>2 DEF WdPassOver, WdMiss
  <2>3. CASE WdExpired \/ WdStuck \/ WdCrashed \/ WdSleep \/ WdTimesOut
    BY <2>3 DEF WdExpired, WdStuck, WdCrashed, ReadBatch, WdSleep, WdTimesOut
  <2>. QED BY <1>4, <2>1, <2>2, <2>3 DEF Watchdog
<1>5. ASSUME Host PROVE RetireInv'
  <2>1. CASE Crash
    BY <2>1 DEF Crash, Rollback, AllClean
  <2>2. CASE Restart
    BY <2>2 DEF Restart, DownInv, ActiveEnvs, Active
  <2>3. ASSUME NEW e \in Envs, VmDies(e) \/ Expire(e) \/ Age(e) PROVE RetireInv'
    BY <2>3 DEF VmDies, Expire, Age
  <2>. QED BY <1>5, <2>1, <2>2, <2>3 DEF Host
<1>. QED BY <1>1, <1>2, <1>3, <1>4, <1>5 DEF Next

\* Once delete_image has committed, nothing of that image runs or starts, except rows
\* revived after an early stop.
THEOREM DeletedImagesAreQuiet == Spec => []DeletedImageIsQuiet
<1>1. Init => RetireInv
  BY DEF Init, RetireInv, DeletedImageIsQuiet, ImagePaths
<1>2. IInv /\ RetireInv /\ [Next]_vars => RetireInv'
  <2>1. ASSUME RetireInv, UNCHANGED vars PROVE RetireInv'
    BY <2>1 DEF RetireInv, DeletedImageIsQuiet, vars, rowVars, stopVars
  <2>. QED BY <2>1, RetireStep
<1>3. RetireInv => DeletedImageIsQuiet
  BY DEF RetireInv
<1>. QED BY <1>1, <1>2, <1>3, Invariant, PTL DEF Spec

-----------------------------------------------------------------------------
(* Attack machines.                                                         *)

\* Nobody starts the attack machine's image through the project endpoint, which refuses
\* it to everyone but administrators: it is private and has no owner.
MachinesApart ==
  \A e \in AttackEnvs, f \in Envs \ AttackEnvs :
    UserOf[e] = UserOf[f] => ImageOf[e] # ImageOf[f]

\* The property, with the exception that UniqueIpUnlessEarly makes too.
OneMachineUnlessEarly ==
  \A e, f \in ActiveEnvs \ early :
    /\ e # f /\ UserOf[e] = UserOf[f] /\ ImageOf[e] = ImageOf[f]
    => {e, f} \cap AttackEnvs = {}

\* A reservation is refused where the user has a machine; nothing else adds a row.
LEMMA MachineStep ==
  ASSUME MachinesApart, IInv, OneMachineUnlessEarly, Next
  PROVE  OneMachineUnlessEarly'
<1>1. CASE FewerLive
  BY <1>1 DEF FewerLive, OneMachineUnlessEarly
<1>2. ASSUME NEW e \in Envs, Reserve(e) PROVE OneMachineUnlessEarly'
  <2>1. ActiveEnvs' \subseteq ActiveEnvs \cup {e} /\ early' = early
    BY <1>2 DEF Reserve, ActiveEnvs, Active, IInv, TypeOK
  <2>2. ASSUME NEW f \in ActiveEnvs, f # e, UserOf[e] = UserOf[f], ImageOf[e] = ImageOf[f]
        PROVE  {e, f} \cap AttackEnvs = {}
    <3>1. e \notin AttackEnvs
      BY <1>2, <2>2 DEF Reserve, NoOtherMachine
    <3>2. f \notin AttackEnvs
      BY <2>2, <3>1 DEF MachinesApart, ActiveEnvs
    <3>. QED BY <3>1, <3>2
  <2>. QED BY <2>1, <2>2 DEF OneMachineUnlessEarly
<1>. QED BY <1>1, <1>2, RowStep

\* A user has at most one live attack machine, rows revived after an early stop aside.
THEOREM OneAttackMachineUnlessEarly ==
  ASSUME MachinesApart PROVE Spec => []OneMachineUnlessEarly
<1>1. Init => OneMachineUnlessEarly
  BY DEF Init, OneMachineUnlessEarly, ActiveEnvs, Active
<1>2. IInv /\ OneMachineUnlessEarly /\ [Next]_vars => OneMachineUnlessEarly'
  <2>1. ASSUME OneMachineUnlessEarly, UNCHANGED vars PROVE OneMachineUnlessEarly'
    BY <2>1 DEF OneMachineUnlessEarly, ActiveEnvs, vars
  <2>. QED BY <2>1, MachineStep
<1>. QED BY <1>1, <1>2, Invariant, PTL DEF Spec

-----------------------------------------------------------------------------
(* Where nothing stops a row whose start is in flight.  The routes force_   *)
(* stop, update_image and delete_image do, and so does the watchdog when a  *)
(* start outlives its stuck threshold.                                      *)

NoEarlyStop ==
  /\ Paths \cap {"force_stop", "update_image", "delete_image"} = {}
  /\ "slow_launch" \notin Faults

Settled == {e \in Envs : pc[e] \in {"done", "lost"}}

\* Whatever a stop may pick belongs to a start that has ended.
QuietInv ==
  /\ early = {}
  /\ lock \notin ImagePaths \cup {"force_stop"}
  /\ wdTodo \subseteq Settled
  /\ \A e \in Envs :
       /\ status[e] = "absent" <=> pc[e] = "idle"
       /\ pc[e] \in InFlight => status[e] = "starting"
       /\ status[e] = "running" \/ age[e] = 2 \/ dirty[e] # "clean" => e \in Settled

\* Every action left keeps stops away from starts in flight.
LEMMA QuietStep ==
  ASSUME NoEarlyStop, IInv, QuietInv, Next
  PROVE  QuietInv'
<1>0. ~RejectUpdate /\ ~CommitImage
  BY DEF QuietInv, ImagePaths, RejectUpdate, CommitImage
<1>. USE SetsAssumption
     DEF NoEarlyStop, IInv, QuietInv, TypeOK, Settled, InFlight, ImagePaths, rowVars,
         stopVars, wdVars
<1>1. ASSUME NEW e \in Envs, Start(e) \/ Extend(e) PROVE QuietInv'
  <2>1. CASE Reserve(e)
    BY <2>1 DEF Reserve
  <2>2. CASE BootVm(e) \/ BootFails(e) \/ RecordVm(e)
    BY <2>2 DEF BootVm, BootFails, RecordVm
  <2>3. CASE AbortStart(e) \/ GoRunning(e)
    BY <2>3 DEF AbortStart, GoRunning, ForgetTimes
  <2>4. CASE WriteTimesOut(e) \/ CleanupVm(e)
    BY <2>4 DEF WriteTimesOut, CleanupVm
  <2>5. CASE Extend(e)
    BY <2>5 DEF Extend
  <2>. QED BY <1>1, <2>1, <2>2, <2>3, <2>4, <2>5 DEF Start
<1>2. ASSUME StopRequest PROVE QuietInv'
  <2>1. ASSUME NEW e \in Envs, StopEnv(e) PROVE QuietInv'
    BY <2>1 DEF StopEnv, Claim
  <2>. QED BY <1>0, <1>2, <2>1 DEF StopRequest, ForceStop, ClaimForImage, BeginImageRequest
<1>3. ASSUME Destroy PROVE QuietInv'
  <2>1. CASE DestroyEnv
    BY <2>1 DEF DestroyEnv
  <2>2. CASE DestroyFails
    BY <2>2 DEF DestroyFails, Rollback, AllClean
  <2>3. CASE CommitStop
    BY <2>3 DEF CommitStop, Commit, Committed, Rollback, ForgetTimes, AllClean, LockInv,
       Stoppable
  <2>. QED BY <1>3, <2>1, <2>2, <2>3 DEF Destroy
<1>4. ASSUME Watchdog PROVE QuietInv'
  <2>1. CASE WdExpired
    BY <2>1 DEF WdExpired, ReadBatch, ExpiredRows
  <2>2. CASE WdStuck
    BY <2>2 DEF WdStuck, ReadBatch, StuckRows
  <2>3. CASE WdCrashed
    BY <2>3 DEF WdCrashed, ReadBatch, GracedRows
  <2>4. CASE WdSleep \/ WdTimesOut
    BY <2>4 DEF WdSleep, WdTimesOut
  <2>5. ASSUME NEW e \in Envs, WdClaim(e) PROVE QuietInv'
    BY <2>5 DEF WdClaim, Claim
  <2>6. ASSUME NEW e \in Envs, WdPassOver(e) \/ WdMiss(e) PROVE QuietInv'
    BY <2>6 DEF WdPassOver, WdMiss
  <2>. QED BY <1>4, <2>1, <2>2, <2>3, <2>4, <2>5, <2>6 DEF Watchdog
<1>5. ASSUME Host PROVE QuietInv'
  <2>1. CASE Crash
    BY <2>1 DEF Crash, Rollback, AllClean
  <2>2. CASE Restart
    BY <2>2 DEF Restart, ForgetTimes, ActiveEnvs, Active, DownInv
  <2>3. ASSUME NEW e \in Envs, VmDies(e) \/ Expire(e) PROVE QuietInv'
    BY <2>3 DEF VmDies, Expire
  <2>4. ASSUME NEW e \in Envs, Age(e) PROVE QuietInv'
    BY <2>4 DEF Age
  <2>. QED BY <1>5, <2>1, <2>2, <2>3, <2>4 DEF Host
<1>. QED BY <1>1, <1>2, <1>3, <1>4, <1>5 DEF Next

\* QuietInv is an invariant of the lifecycle without early stops.
LEMMA QuietInvariant == ASSUME NoEarlyStop PROVE Spec => []QuietInv
<1>1. Init => QuietInv
  BY DEF Init, QuietInv, Settled, InFlight, ImagePaths, AllClean
<1>2. IInv /\ QuietInv /\ [Next]_vars => QuietInv'
  <2>1. ASSUME QuietInv, UNCHANGED vars PROVE QuietInv'
    BY <2>1 DEF QuietInv, Settled, vars, rowVars, stopVars, wdVars
  <2>. QED BY <2>1, QuietStep
<1>. QED BY <1>1, <1>2, Invariant, PTL DEF Spec

\* allocate_ip gives every live row an address of its own.
THEOREM AddressesUnique == ASSUME NoEarlyStop PROVE Spec => []UniqueIp
<1>1. UniqueIpUnlessEarly /\ QuietInv => UniqueIp
  BY DEF UniqueIpUnlessEarly, UniqueIp, QuietInv
<1>. QED BY <1>1, AddressesUniqueUnlessEarly, QuietInvariant, PTL

\* A user has at most one live attack machine.
THEOREM OneAttackMachine ==
  ASSUME MachinesApart, NoEarlyStop PROVE Spec => []OneAttackMachinePerUser
<1>1. OneMachineUnlessEarly /\ QuietInv => OneAttackMachinePerUser
  BY DEF OneMachineUnlessEarly, OneAttackMachinePerUser, QuietInv
<1>. QED BY <1>1, OneAttackMachineUnlessEarly, QuietInvariant, PTL

-----------------------------------------------------------------------------
(* What a step does to the committed rows.                                  *)

\* A reservation, an end of rows that were live, a change among live states,
\* or nothing.
LEMMA RowChange ==
  ASSUME IInv, QuietInv, Next
  PROVE  \/ \E e \in Envs : Reserve(e)
         \/ /\ ip' = ip
            /\ \A e \in Envs : status'[e] # status[e] =>
                 status[e] \in Active /\ status'[e] \in Active \cup {"stopped"}
<1>. DEFINE Kept == /\ ip' = ip
                    /\ \A e \in Envs : status'[e] # status[e] =>
                         status[e] \in Active /\ status'[e] \in Active \cup {"stopped"}
<1>. USE DEF rowVars
<1>1. ASSUME NEW e \in Envs, Start(e) \/ Extend(e), ~Reserve(e) PROVE Kept
  <2>1. CASE AbortStart(e) \/ GoRunning(e)
    BY <2>1 DEF AbortStart, GoRunning, IInv, TypeOK, QuietInv, InFlight, Active
  <2>2. CASE ~AbortStart(e) /\ ~GoRunning(e)
    BY <1>1, <2>2 DEF Start, BootVm, BootFails, RecordVm, WriteTimesOut, CleanupVm, Extend
  <2>. QED BY <2>1, <2>2
<1>2. ASSUME Commit, ip' = ip PROVE Kept
  BY <1>2 DEF Commit, Committed, IInv, TypeOK, LockInv, Active, Stoppable
<1>3. ASSUME StopRequest PROVE Kept
  BY <1>2, <1>3 DEF StopRequest, StopEnv, ForceStop, ClaimForImage, BeginImageRequest,
     CommitImage, RejectUpdate
<1>4. ASSUME Destroy PROVE Kept
  BY <1>2, <1>4 DEF Destroy, DestroyEnv, DestroyFails, CommitStop
<1>5. ASSUME Watchdog PROVE Kept
  BY <1>5 DEF Watchdog, WdExpired, WdStuck, WdCrashed, ReadBatch, WdSleep, WdTimesOut,
     WdClaim, WdPassOver, WdMiss
<1>6. ASSUME Host PROVE Kept
  BY <1>6 DEF Host, Crash, Restart, VmDies, Expire, Age, ActiveEnvs, Active
<1>. QED BY <1>1, <1>3, <1>4, <1>5, <1>6 DEF Next

\* A row that is stopped is never set live again.
THEOREM StoppedForGood == ASSUME NoEarlyStop PROVE Spec => StoppedIsFinal
<1>1. IInv /\ QuietInv /\ [Next]_vars =>
        [\A e \in Envs : status[e] = "stopped" => status'[e] = "stopped"]_vars
  <2>. SUFFICES ASSUME IInv, QuietInv, Next, NEW e \in Envs, status[e] = "stopped"
                PROVE  status'[e] = "stopped"
    OBVIOUS
  <2>1. ASSUME NEW f \in Envs, Reserve(f) PROVE status'[e] = "stopped"
    <3>1. e # f
      BY <2>1 DEF Reserve, QuietInv
    <3>. QED BY <2>1, <3>1 DEF Reserve, IInv, TypeOK
  <2>. QED BY <2>1, RowChange DEF Active
<1>. QED BY <1>1, Invariant, QuietInvariant, PTL DEF StoppedIsFinal, Spec

-----------------------------------------------------------------------------
(* Refinement of IpLease.                                                   *)

\* The lease a row stands for.
LeaseOf == [e \in Envs |-> IF status[e] = "absent" THEN "new"
                           ELSE IF status[e] \in Active THEN "held" ELSE "released"]

\* The leases held are those of the live rows.
LEMMA HeldIsLive == Leases!Held = ActiveEnvs
  BY DEF Leases!Held, ActiveEnvs, Active

\* IpLease counts with an instance of FiniteSets of its own.
LEMMA SameCardinality == \A S : Leases!Cardinality(S) = Cardinality(S)
  BY DEF Cardinality, Leases!Cardinality

\* Every step of the lifecycle is a step of the leases or none.
LEMMA LeaseStep ==
  ASSUME IInv, QuietInv, [Next]_vars
  PROVE  [Leases!LeaseNext]_(Leases!leaseVars)
<1>1. ASSUME NEW e \in Envs, Reserve(e) PROVE Leases!Grant(e)
  <2>1. LeaseOf[e] = "new" /\ LeaseOf' = [LeaseOf EXCEPT ![e] = "held"]
    BY <1>1 DEF Reserve, LeaseOf, QuietInv, IInv, TypeOK, Active
  <2>2. Leases!Entitled(UserOf[e])
    <3>1. {f \in Leases!Held : UserOf[f] = UserOf[e]} = {f \in ActiveEnvs : UserOf[f] = UserOf[e]}
      BY HeldIsLive
    <3>. QED BY <1>1, <3>1, HeldIsLive, SameCardinality DEF Reserve, WithinLimits, Leases!Entitled
  <2>3. \E i \in IPs \ {ip[f] : f \in Leases!Held} : ip' = [ip EXCEPT ![e] = i]
    BY <1>1, HeldIsLive DEF Reserve, FirstFree, InUse
  <2>. QED BY <2>1, <2>2, <2>3 DEF Leases!Grant, LeaseOf
<1>2. ASSUME ip' = ip,
             \A e \in Envs : status'[e] # status[e] =>
               status[e] \in Active /\ status'[e] \in Active \cup {"stopped"}
      PROVE  [Leases!LeaseNext]_(Leases!leaseVars)
  <2>1. PICK Ended \in SUBSET ActiveEnvs : Ended = {e \in ActiveEnvs : status'[e] = "stopped"}
    OBVIOUS
  <2>2. LeaseOf' = [e \in Envs |-> IF e \in Ended THEN "released" ELSE LeaseOf[e]]
    BY <1>2, <2>1 DEF LeaseOf, ActiveEnvs, Active
  <2>3. CASE Ended = {}
    <3>1. LeaseOf' = LeaseOf
      BY <2>2, <2>3 DEF LeaseOf
    <3>. QED BY <1>2, <3>1 DEF Leases!leaseVars, LeaseOf
  <2>4. CASE Ended # {}
    <3>1. Leases!Release(Ended)
      BY <1>2, <2>2, <2>4 DEF Leases!Release, LeaseOf
    <3>. QED BY <3>1, HeldIsLive DEF Leases!LeaseNext
  <2>. QED BY <2>3, <2>4
<1>3. CASE UNCHANGED vars
  BY <1>3, <1>2 DEF vars
<1>. QED BY <1>1, <1>2, <1>3, RowChange DEF Leases!LeaseNext

\* The handlers, the watchdog, crashes and restarts together implement the
\* lease specification: an address is granted free, within the limits, once,
\* and released for good.
THEOREM LifecycleImplementsLeases == ASSUME NoEarlyStop PROVE Spec => ImplementsLeases
<1>1. Init => Leases!LeaseInit
  BY DEF Init, Leases!LeaseInit
<1>2. IInv /\ QuietInv /\ [Next]_vars => [Leases!LeaseNext]_(Leases!leaseVars)
  BY LeaseStep
<1>. QED
  BY <1>1, <1>2, Invariant, QuietInvariant, PTL
  DEF ImplementsLeases, Spec, Leases!LeaseSpec
=============================================================================
