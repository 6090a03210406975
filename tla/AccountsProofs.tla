--------------------------- MODULE AccountsProofs ---------------------------
(***************************************************************************)
(* Accounts for any number of users, projects, requests and faults: what   *)
(* is safe while delete_user commits between its steps.                    *)
(*                                                                         *)
(* The inductive invariant ties the open transaction of a deletion to the  *)
(* committed rows (UnsavedInv), its lists to the environments it has found *)
(* (DelInv, ListedInv), and each row to its project and start (RowInv).    *)
(***************************************************************************)
EXTENDS Accounts, TLAPS

-----------------------------------------------------------------------------
(* The inductive invariant. *)

RowInv ==
  \A e \in Starts :
    /\ row[e] \notin {"absent", "gone"} => project[e.on] = "there"
    /\ at[e] \in {"booting", "booted"} => row[e] # "absent"
    /\ row[e] = "running" => at[e] = "done"
    /\ vm[e] = "dead" => at[e] = "done"

\* What the open transaction has removed, and what it has not.
UnsavedInv ==
  /\ \A e \in unsaved.stopping : row[e] = "running" /\ vm[e] = "dead"
  /\ del.todo \cap unsaved.envs = {}
  /\ \A p \in unsaved.projects :
       /\ \A e \in Starts : e.on = p => row[e] = "absent" \/ e \in unsaved.envs
       /\ \A s \in shares : s[1] = p => s \in unsaved.shares

DelInv ==
  /\ del.at # "none" => del.req \in Requests /\ del.user \in Users /\ del.req.by # del.user
  /\ del.at = "project" => del.project \in Projects
  /\ del.at = "projects" => del.todo = {}

\* A listed environment that was not let go of is at rest with no VM, or is still on the
\* lists that will reach its row.
ListedInv ==
  \A e \in listed \ missed :
    IF Live(e) /\ vm[e] # "dead"
    THEN /\ e \notin unsaved.envs
         /\ del.at # "none" /\ e.by = del.user => e \in del.todo
         /\ del.at = "project" /\ e.on = del.project => e \in del.todo
    ELSE at[e] = "done" /\ vm[e] # "alive"

IInv == TypeOK /\ RowInv /\ UnsavedInv /\ DelInv /\ ListedInv

\* To strike an environment off the list changes nothing else that is to be done.
LEMMA Struck ==
  ASSUME TypeOK, NEW e \in Starts, NEW k \in Starts \cup {Nobody}, Strike(e, k)
  PROVE  /\ del' \in [at: {"none", "own", "projects", "project"}, req: Requests \cup {Nobody},
                     user: Users \cup {Nobody}, todo: SUBSET Starts,
                     projects: SUBSET Projects, project: Projects \cup {Nobody},
                     kept: Starts \cup {Nobody}]
         /\ del'.todo = del.todo \ {e} /\ del'.at = del.at /\ del'.req = del.req
         /\ del'.user = del.user /\ del'.project = del.project
BY DEF TypeOK, Strike

\* What is open when the lock is not to be had: the deletion ends, or drops one of its list.
LEMMA WaitedTooLong ==
  ASSUME TypeOK, WaitsTooLong
  PROVE  /\ UNCHANGED <<people, things, row, vm, listed, belated>>
         /\ ~locked /\ unsaved = Nothing
         /\ \/ /\ Done(del.req) /\ del' = Idle /\ locked' = FALSE /\ unsaved' = Nothing
               /\ UNCHANGED missed
            \/ /\ del.at = "project" /\ UNCHANGED <<at, locked, unsaved>>
               /\ \E e \in Starts : Strike(e, del.kept) /\ missed' = missed \cup {e}
BY DEF WaitsTooLong, Abort, TypeOK

\* A stop that raises ends the deletion in its first loop, and marks the row in its second.
LEMMA StopFailed ==
  ASSUME TypeOK, NEW e \in Starts, StopFails(e)
  PROVE  /\ UNCHANGED <<people, things, row, listed, missed, belated>>
         /\ e \in del.todo /\ row[e] = "running"
         /\ vm' \in [Starts -> {"absent", "alive", "dead"}]
         /\ \A f \in Starts : vm'[f] = IF f = e THEN "dead" ELSE vm[f]
         /\ \/ /\ del.at = "own" /\ Done(del.req) /\ del' = Idle /\ locked' = FALSE /\ unsaved' = Nothing
            \/ /\ del.at = "project" /\ Strike(e, Nobody) /\ locked' = TRUE /\ UNCHANGED at
               /\ unsaved' = [unsaved EXCEPT !.stopping = unsaved.stopping \cup {e}]
<1>1. /\ vm' = [vm EXCEPT ![e] = "dead"] /\ vm \in [Starts -> {"absent", "alive", "dead"}]
      /\ e \in del.todo /\ row[e] = "running"
  BY DEF StopFails, TypeOK
<1>. QED BY <1>1 DEF StopFails, Abort

-----------------------------------------------------------------------------
(* One lemma per part, one step per action. *)

\* Types.
LEMMA TypeStep ==
  ASSUME IInv, Next
  PROVE  TypeOK'
<1>. USE RequestsAssumption DEF IInv, TypeOK, Starts, Of, people, things, envs,
        deletion, Done
<1>1. ASSUME NEW r \in Requests, Arrive(r) PROVE TypeOK'
  BY <1>1 DEF Arrive
<1>2. ASSUME NEW r \in Requests, UpdateUser(r) PROVE TypeOK'
  BY <1>2 DEF UpdateUser, Waits, Note, UserOps
<1>3. ASSUME NEW r \in Requests, Upload(r) PROVE TypeOK'
  BY <1>3 DEF Upload, Waits, Note, UserOps
<1>4. ASSUME NEW r \in Requests, Share(r) PROVE TypeOK'
  BY <1>4 DEF Share, Waits, Note, UserOps, MayManage
<1>5. ASSUME NEW r \in Requests, Unshare(r) PROVE TypeOK'
  BY <1>5 DEF Unshare, Waits, Note, UserOps, MayManage
<1>6. ASSUME NEW r \in Requests, BeginDelete(r) PROVE TypeOK'
  <2>. DEFINE mine == ToStop({e \in Starts : e.by = r.on})
  <2>1. mine \subseteq Starts
    BY DEF ToStop
  <2>2. /\ del' = [Idle EXCEPT !.at = "own", !.req = r, !.user = r.on, !.todo = mine]
        /\ listed' = listed \cup mine /\ missed' = missed \ mine
        /\ locked' = TRUE /\ at' = [at EXCEPT ![r] = "deleting"]
        /\ r.on \in Users
        /\ UNCHANGED <<role, active, things, row, vm, unsaved>>
    BY <1>6 DEF BeginDelete, Reads
  <2>3. belated' \subseteq Requests /\ crossed' \in BOOLEAN
    BY <1>6 DEF BeginDelete, Note
  <2>. HIDE DEF mine
  <2>. QED BY <2>1, <2>2, <2>3 DEF Idle
<1>7. ASSUME NEW e \in Starts, Reserve(e) PROVE TypeOK'
  BY <1>7 DEF Reserve, Waits, Note, UserOps
<1>8. ASSUME NEW e \in Starts, Boot(e) PROVE TypeOK'
  BY <1>8 DEF Boot
<1>9. ASSUME NEW e \in Starts, Confirm(e) PROVE TypeOK'
  BY <1>9 DEF Confirm
<1>10. ASSUME NEW e \in Starts, Stop(e) PROVE TypeOK'
  BY <1>10 DEF Stop, Ends, Live
<1>11. ASSUME NEW e \in Starts, StopOne(e) PROVE TypeOK'
  <2>1. PICK k \in Starts \cup {Nobody} : Strike(e, k)
    BY <1>11 DEF StopOne
  <2>2. del' \in [at: {"none", "own", "projects", "project"}, req: Requests \cup {Nobody},
                   user: Users \cup {Nobody}, todo: SUBSET Starts,
                   projects: SUBSET Projects, project: Projects \cup {Nobody},
                   kept: Starts \cup {Nobody}]
    BY <2>1, Struck
  <2>3. row' \in [Starts -> {"absent", "starting", "running", "stopping", "stopped", "gone"}]
    BY <1>11 DEF StopOne, Saved, Removed
  <2>4. vm' \in [Starts -> {"absent", "alive", "dead"}] /\ missed' \subseteq Starts
    BY <1>11 DEF StopOne, Ends
  <2>5. /\ project' \in [Projects -> {"absent", "there", "gone"}]
        /\ shares' \subseteq Projects \X Users
    BY <1>11 DEF StopOne, SaveThings
  <2>6. /\ unsaved' = Nothing /\ locked' = FALSE
        /\ UNCHANGED <<role, active, crossed, owner, at, listed, belated>>
    BY <1>11 DEF StopOne
  <2>7. unsaved' \in [envs: SUBSET Starts, projects: SUBSET Projects,
                     shares: SUBSET (Projects \X Users), stopping: SUBSET Starts]
    BY <2>6 DEF Nothing
  <2>. QED BY <2>2, <2>3, <2>4, <2>5, <2>6, <2>7
<1>12. ASSUME NEW e \in Starts, PassOver(e) PROVE TypeOK'
  BY <1>12, Struck DEF PassOver, Live
<1>13. ASSUME NEW e \in Starts, StopFails(e) PROVE TypeOK'
  <2>1. /\ UNCHANGED <<people, things, row, listed, missed, belated>>
        /\ vm' \in [Starts -> {"absent", "alive", "dead"}]
    BY <1>13, StopFailed
  <2>2. CASE Done(del.req) /\ del' = Idle /\ locked' = FALSE /\ unsaved' = Nothing
    <3>1. at' \in [Requests -> {"new", "in", "admin", "booting", "booted", "deleting", "done"}]
      BY <2>2
    <3>2. unsaved' \in [envs: SUBSET Starts, projects: SUBSET Projects,
                       shares: SUBSET (Projects \X Users), stopping: SUBSET Starts]
      BY <2>2 DEF Nothing
    <3>3. del' \in [at: {"none", "own", "projects", "project"}, req: Requests \cup {Nobody},
                   user: Users \cup {Nobody}, todo: SUBSET Starts,
                   projects: SUBSET Projects, project: Projects \cup {Nobody},
                   kept: Starts \cup {Nobody}]
      BY <2>2 DEF Idle
    <3>. QED BY <2>1, <2>2, <3>1, <3>2, <3>3
  <2>3. CASE /\ Strike(e, Nobody) /\ locked' = TRUE /\ UNCHANGED at
             /\ unsaved' = [unsaved EXCEPT !.stopping = unsaved.stopping \cup {e}]
    <3>1. unsaved.stopping \cup {e} \in SUBSET Starts
      OBVIOUS
    <3>2. unsaved' \in [envs: SUBSET Starts, projects: SUBSET Projects,
                       shares: SUBSET (Projects \X Users), stopping: SUBSET Starts]
      BY <2>3, <3>1
    <3>3. del' \in [at: {"none", "own", "projects", "project"}, req: Requests \cup {Nobody},
                   user: Users \cup {Nobody}, todo: SUBSET Starts,
                   projects: SUBSET Projects, project: Projects \cup {Nobody},
                   kept: Starts \cup {Nobody}]
      BY <2>3, Struck
    <3>. QED BY <2>1, <2>3, <3>2, <3>3
  <2>. QED BY <1>13, <2>2, <2>3, StopFailed
<1>14. ASSUME WaitsTooLong PROVE TypeOK'
  <2>1. CASE Abort /\ UNCHANGED missed
    BY <1>14, <2>1 DEF WaitsTooLong, Abort, Idle, Nothing
  <2>2. CASE ~(Abort /\ UNCHANGED missed)
    <3>1. PICK e \in Starts : Strike(e, del.kept) /\ missed' = missed \cup {e}
      BY <1>14, <2>2 DEF WaitsTooLong
    <3>2. del' \in [at: {"none", "own", "projects", "project"}, req: Requests \cup {Nobody},
                   user: Users \cup {Nobody}, todo: SUBSET Starts,
                   projects: SUBSET Projects, project: Projects \cup {Nobody},
                   kept: Starts \cup {Nobody}]
      BY <3>1, Struck
    <3>3. UNCHANGED <<people, things, row, vm, listed, belated, at, locked, unsaved>>
      BY <1>14, <2>2 DEF WaitsTooLong
    <3>. QED BY <3>1, <3>2, <3>3
  <2>. QED BY <2>1, <2>2
<1>15. ASSUME ReadProjects PROVE TypeOK'
  BY <1>15 DEF ReadProjects
<1>16. ASSUME NEW p \in Projects, BeginProject(p) PROVE TypeOK'
  BY <1>16 DEF BeginProject, Reads, ToStop, Live, Removed
<1>17. ASSUME DropProject PROVE TypeOK'
  <2>1. CASE Abort
    BY <1>17, <2>1 DEF DropProject, Abort, Idle, Nothing
  <2>2. CASE ~Abort
    <3>1. /\ del.at = "project" /\ del.todo = {} /\ locked' = TRUE
          /\ ~\E s \in shares \ unsaved.shares : s[1] = del.project
          /\ unsaved' = [unsaved EXCEPT !.projects = @ \cup {del.project},
                !.envs = @ \cup {e \in Starts : e.on = del.project /\ row[e] # "absent"}]
          /\ del' = [del EXCEPT !.at = "projects"]
          /\ UNCHANGED <<at, people, things, envs, belated>>
      BY <1>17, <2>2 DEF DropProject
    <3>2. del.project \in Projects
      BY <3>1 DEF DelInv
    <3>3. unsaved' \in [envs: SUBSET Starts, projects: SUBSET Projects,
                        shares: SUBSET (Projects \X Users), stopping: SUBSET Starts]
      <4>. DEFINE ended == {e \in Starts : e.on = del.project /\ row[e] # "absent"}
      <4>1. /\ unsaved.projects \cup {del.project} \in SUBSET Projects
            /\ unsaved.envs \cup ended \in SUBSET Starts
        BY <3>2
      <4>2. unsaved' = [unsaved EXCEPT !.projects = unsaved.projects \cup {del.project},
                                       !.envs = unsaved.envs \cup ended]
        BY <3>1
      <4>. HIDE DEF ended
      <4>. QED BY <4>1, <4>2
    <3>4. del' \in [at: {"none", "own", "projects", "project"}, req: Requests \cup {Nobody},
                    user: Users \cup {Nobody}, todo: SUBSET Starts,
                    projects: SUBSET Projects, project: Projects \cup {Nobody},
                    kept: Starts \cup {Nobody}]
      BY <3>1
    <3>. QED BY <3>1, <3>3, <3>4
  <2>. QED BY <2>1, <2>2
<1>18. ASSUME EndDelete PROVE TypeOK'
  BY <1>18 DEF EndDelete, Abort, Idle, Nothing, Saved, Removed, SaveThings
<1>. QED BY <1>1, <1>2, <1>3, <1>4, <1>5, <1>6, <1>7, <1>8, <1>9, <1>10, <1>11, <1>12,
           <1>13, <1>14, <1>15, <1>16, <1>17, <1>18
           DEF Next, Act, Start, Delete

\* A row leads to its project until both go: they go in one commit.
LEMMA RowStep ==
  ASSUME IInv, Next
  PROVE  RowInv'
<1>. USE RequestsAssumption DEF IInv, TypeOK, RowInv, UnsavedInv, Starts, Of, people,
        things, envs, deletion, Done
<1>1. ASSUME NEW r \in Requests, Arrive(r) PROVE RowInv'
  BY <1>1 DEF Arrive
<1>2. ASSUME NEW r \in Requests, UpdateUser(r) PROVE RowInv'
  BY <1>2 DEF UpdateUser, Waits, Note, UserOps
<1>3. ASSUME NEW r \in Requests, Upload(r) PROVE RowInv'
  BY <1>3 DEF Upload, Waits, Note, UserOps
<1>4. ASSUME NEW r \in Requests, Share(r) PROVE RowInv'
  BY <1>4 DEF Share, Waits, Note, UserOps, MayManage
<1>5. ASSUME NEW r \in Requests, Unshare(r) PROVE RowInv'
  BY <1>5 DEF Unshare, Waits, Note, UserOps, MayManage
<1>6. ASSUME NEW r \in Requests, BeginDelete(r) PROVE RowInv'
  BY <1>6 DEF BeginDelete, Waits, Note, Idle, Reads, ToStop, Live, Removed, UserOps,
     Nothing
<1>7. ASSUME NEW e \in Starts, Reserve(e) PROVE RowInv'
  BY <1>7 DEF Reserve, Waits, Note, UserOps
<1>8. ASSUME NEW e \in Starts, Boot(e) PROVE RowInv'
  BY <1>8 DEF Boot
<1>9. ASSUME NEW e \in Starts, Confirm(e) PROVE RowInv'
  BY <1>9 DEF Confirm
<1>10. ASSUME NEW e \in Starts, Stop(e) PROVE RowInv'
  BY <1>10 DEF Stop, Ends, Live
<1>11. ASSUME NEW e \in Starts, StopOne(e) PROVE RowInv'
  <2>1. /\ \A f \in Starts : vm'[f] = "dead" => vm[f] = "dead"
        /\ UNCHANGED at
        /\ \A f \in Starts : row'[f] = IF f = e THEN "stopped" ELSE Saved(f)
        /\ \A p \in Projects :
             project'[p] = IF p \in unsaved.projects THEN "gone" ELSE project[p]
    BY <1>11 DEF StopOne, Ends, SaveThings
  <2>2. e \in del.todo /\ row[e] \in {"starting", "running"}
    BY <1>11 DEF StopOne, Live
  <2>3. ASSUME NEW f \in Starts
        PROVE  /\ row'[f] \notin {"absent", "gone"} => project'[f.on] = "there"
               /\ row'[f] = "running" => at'[f] = "done"
               /\ row[f] # "absent" => row'[f] # "absent"
               /\ vm'[f] = "dead" => at'[f] = "done"
    <3>1. f.on \in Projects
      BY DEF UserOps
    <3>2. CASE f = e
      BY <2>1, <2>2, <3>1, <3>2
    <3>3. CASE f # e
      BY <2>1, <3>1, <3>3 DEF Saved, Removed
    <3>. QED BY <3>2, <3>3
  <2>. QED BY <2>1, <2>3
<1>12. ASSUME NEW e \in Starts, PassOver(e) PROVE RowInv'
  BY <1>12 DEF PassOver, Strike, Live
<1>13. ASSUME NEW e \in Starts, StopFails(e) PROVE RowInv'
  BY <1>13 DEF StopFails, Strike, Abort, Idle, Nothing
<1>14. ASSUME WaitsTooLong PROVE RowInv'
  <2>1. UNCHANGED <<row, vm, project>> /\ (UNCHANGED at \/ Done(del.req))
    BY <1>14, WaitedTooLong
  <2>2. \A f \in Starts : at'[f] = at[f] \/ at'[f] = "done"
    BY <2>1
  <2>. QED BY <2>1, <2>2
<1>15. ASSUME ReadProjects PROVE RowInv'
  BY <1>15 DEF ReadProjects
<1>16. ASSUME NEW p \in Projects, BeginProject(p) PROVE RowInv'
  BY <1>16 DEF BeginProject, Reads, ToStop, Live, Removed
<1>17. ASSUME DropProject PROVE RowInv'
  BY <1>17 DEF DropProject, Abort, Idle, Nothing
<1>18. ASSUME EndDelete PROVE RowInv'
  <2>1. /\ at' = [at EXCEPT ![del.req] = "done"] /\ UNCHANGED vm
        /\ \A f \in Starts :
             row'[f] = IF f.by = del.user /\ row[f] # "absent" THEN "gone" ELSE Saved(f)
        /\ \A p \in Projects :
             project'[p] = IF p \in unsaved.projects THEN "gone" ELSE project[p]
    BY <1>18 DEF EndDelete, Abort
  <2>2. ASSUME NEW f \in Starts
        PROVE  /\ row'[f] \notin {"absent", "gone"} => project'[f.on] = "there"
               /\ row'[f] = "running" => row[f] = "running"
               /\ row[f] # "absent" => row'[f] # "absent"
    <3>1. f.on \in Projects
      BY DEF UserOps
    <3>. QED BY <2>1, <3>1 DEF Saved, Removed
  <2>3. \A f \in Starts : at'[f] = at[f] \/ at'[f] = "done"
    BY <2>1
  <2>. QED BY <2>1, <2>2, <2>3
<1>. QED BY <1>1, <1>2, <1>3, <1>4, <1>5, <1>6, <1>7, <1>8, <1>9, <1>10, <1>11, <1>12,
           <1>13, <1>14, <1>15, <1>16, <1>17, <1>18
           DEF Next, Act, Start, Delete

\* Nobody writes between a deletion's removals and its commit.
LEMMA UnsavedStep ==
  ASSUME IInv, Next
  PROVE  UnsavedInv'
<1>. USE RequestsAssumption DEF IInv, TypeOK, UnsavedInv, RowInv, DelInv, Nothing,
        Starts, Of, people, things, envs, deletion, Done
<1>1. ASSUME NEW r \in Requests, Arrive(r) PROVE UnsavedInv'
  BY <1>1 DEF Arrive
<1>2. ASSUME NEW r \in Requests, UpdateUser(r) PROVE UnsavedInv'
  BY <1>2 DEF UpdateUser, Waits, Note, UserOps
<1>3. ASSUME NEW r \in Requests, Upload(r) PROVE UnsavedInv'
  BY <1>3 DEF Upload, Waits, Note, UserOps
<1>4. ASSUME NEW r \in Requests, Share(r) PROVE UnsavedInv'
  BY <1>4 DEF Share, Waits, Note, UserOps, MayManage
<1>5. ASSUME NEW r \in Requests, Unshare(r) PROVE UnsavedInv'
  BY <1>5 DEF Unshare, Waits, Note, UserOps, MayManage
<1>6. ASSUME NEW r \in Requests, BeginDelete(r) PROVE UnsavedInv'
  BY <1>6 DEF BeginDelete, Waits, Note, Idle, Reads, ToStop, Live, Removed, UserOps,
     Nothing
<1>7. ASSUME NEW e \in Starts, Reserve(e) PROVE UnsavedInv'
  BY <1>7 DEF Reserve, Waits, Note, UserOps
<1>8. ASSUME NEW e \in Starts, Boot(e) PROVE UnsavedInv'
  BY <1>8 DEF Boot
<1>9. ASSUME NEW e \in Starts, Confirm(e) PROVE UnsavedInv'
  BY <1>9 DEF Confirm
<1>10. ASSUME NEW e \in Starts, Stop(e) PROVE UnsavedInv'
  BY <1>10 DEF Stop, Ends, Live
<1>11. ASSUME NEW e \in Starts, StopOne(e) PROVE UnsavedInv'
  BY <1>11 DEF StopOne, Ends, Strike, SaveThings, Saved, Removed, Live, Nothing
<1>12. ASSUME NEW e \in Starts, PassOver(e) PROVE UnsavedInv'
  BY <1>12 DEF PassOver, Strike, Live
<1>13. ASSUME NEW e \in Starts, StopFails(e) PROVE UnsavedInv'
  <2>1. /\ UNCHANGED <<project, shares, row, listed, missed>>
        /\ e \in del.todo /\ row[e] = "running"
        /\ \A f \in Starts : vm'[f] = IF f = e THEN "dead" ELSE vm[f]
    BY <1>13, StopFailed
  <2>2. CASE Done(del.req) /\ del' = Idle /\ unsaved' = Nothing
    <3>1. \A f \in Starts : at'[f] = at[f] \/ at'[f] = "done"
      BY <2>2
    <3>2. del'.at = "none" /\ del'.todo = {} /\ unsaved' = Nothing
      BY <2>2 DEF Idle
    <3>. QED BY <2>1, <3>1, <3>2 DEF Nothing
  <2>3. CASE /\ Strike(e, Nobody) /\ UNCHANGED at
             /\ unsaved' = [unsaved EXCEPT !.stopping = unsaved.stopping \cup {e}]
    <3>1. /\ del'.todo = del.todo \ {e} /\ del'.at = del.at /\ del'.req = del.req
          /\ del'.user = del.user /\ del'.project = del.project
      BY <2>3, Struck
    <3>2. /\ unsaved'.envs = unsaved.envs /\ unsaved'.projects = unsaved.projects
          /\ unsaved'.shares = unsaved.shares /\ unsaved'.stopping = unsaved.stopping \cup {e}
      BY <2>3
    <3>. QED BY <2>1, <2>3, <3>1, <3>2
  <2>. QED BY <1>13, <2>2, <2>3, StopFailed
<1>14. ASSUME WaitsTooLong PROVE UnsavedInv'
  <2>1. UNCHANGED <<project, shares, row, vm, listed>>
    BY <1>14, WaitedTooLong
  <2>2. CASE Done(del.req) /\ del' = Idle /\ unsaved' = Nothing /\ UNCHANGED missed
    <3>1. \A f \in Starts : at'[f] = at[f] \/ at'[f] = "done"
      BY <2>2
    <3>2. del'.at = "none" /\ del'.todo = {} /\ unsaved' = Nothing
      BY <2>2 DEF Idle
    <3>. QED BY <2>1, <2>2, <3>1, <3>2 DEF Nothing
  <2>3. CASE /\ UNCHANGED <<at, locked, unsaved>>
             /\ \E e \in Starts : Strike(e, del.kept) /\ missed' = missed \cup {e}
    <3>1. PICK e \in Starts : Strike(e, del.kept) /\ missed' = missed \cup {e}
      BY <2>3
    <3>2. /\ del'.todo = del.todo \ {e} /\ del'.at = del.at /\ del'.req = del.req
          /\ del'.user = del.user /\ del'.project = del.project
      BY <3>1, Struck
    <3>3. missed' = missed \cup {e}
      BY <3>1
    <3>. QED BY <2>1, <2>3, <3>2, <3>3
  <2>. QED BY <1>14, <2>2, <2>3, WaitedTooLong
<1>15. ASSUME ReadProjects PROVE UnsavedInv'
  BY <1>15 DEF ReadProjects
<1>16. ASSUME NEW p \in Projects, BeginProject(p) PROVE UnsavedInv'
  BY <1>16 DEF BeginProject, Reads, ToStop, Live, Removed
<1>17. ASSUME DropProject PROVE UnsavedInv'
  <2>1. CASE Abort
    BY <1>17, <2>1 DEF DropProject, Abort, Idle, Nothing
  <2>2. CASE ~Abort
    <3>1. /\ del.at = "project" /\ del.todo = {} /\ locked' = TRUE
          /\ ~\E s \in shares \ unsaved.shares : s[1] = del.project
          /\ unsaved' = [unsaved EXCEPT !.projects = @ \cup {del.project},
                !.envs = @ \cup {e \in Starts : e.on = del.project /\ row[e] # "absent"}]
          /\ del' = [del EXCEPT !.at = "projects"]
          /\ UNCHANGED <<at, people, things, envs, belated>>
      BY <1>17, <2>2 DEF DropProject
    <3>2. del'.at = "projects" /\ del'.todo = del.todo /\ del'.req = del.req /\ del'.user = del.user
      BY <3>1
    <3>3. /\ unsaved'.projects = unsaved.projects \cup {del.project}
          /\ unsaved'.envs = unsaved.envs \cup {e \in Starts : e.on = del.project /\ row[e] # "absent"}
          /\ unsaved'.shares = unsaved.shares /\ unsaved'.stopping = unsaved.stopping
      BY <3>1
    <3>. QED BY <3>1, <3>2, <3>3
  <2>. QED BY <2>1, <2>2
<1>18. ASSUME EndDelete PROVE UnsavedInv'
  BY <1>18 DEF EndDelete, Abort, Idle, Nothing, Saved, Removed, SaveThings
<1>. QED BY <1>1, <1>2, <1>3, <1>4, <1>5, <1>6, <1>7, <1>8, <1>9, <1>10, <1>11, <1>12,
           <1>13, <1>14, <1>15, <1>16, <1>17, <1>18
           DEF Next, Act, Start, Delete

\* One deletion at a time, never of oneself.
LEMMA DelStep ==
  ASSUME IInv, Next
  PROVE  DelInv'
<1>. USE RequestsAssumption DEF IInv, TypeOK, DelInv, Starts, Of, people, things,
        envs, deletion, Done
<1>1. ASSUME NEW r \in Requests, Arrive(r) PROVE DelInv'
  BY <1>1 DEF Arrive
<1>2. ASSUME NEW r \in Requests, UpdateUser(r) PROVE DelInv'
  BY <1>2 DEF UpdateUser, Waits, Note, UserOps
<1>3. ASSUME NEW r \in Requests, Upload(r) PROVE DelInv'
  BY <1>3 DEF Upload, Waits, Note, UserOps
<1>4. ASSUME NEW r \in Requests, Share(r) PROVE DelInv'
  BY <1>4 DEF Share, Waits, Note, UserOps, MayManage
<1>5. ASSUME NEW r \in Requests, Unshare(r) PROVE DelInv'
  BY <1>5 DEF Unshare, Waits, Note, UserOps, MayManage
<1>6. ASSUME NEW r \in Requests, BeginDelete(r) PROVE DelInv'
  BY <1>6 DEF BeginDelete, Waits, Note, Idle, Reads, ToStop, Live, Removed, UserOps,
     Nothing
<1>7. ASSUME NEW e \in Starts, Reserve(e) PROVE DelInv'
  BY <1>7 DEF Reserve, Waits, Note, UserOps
<1>8. ASSUME NEW e \in Starts, Boot(e) PROVE DelInv'
  BY <1>8 DEF Boot
<1>9. ASSUME NEW e \in Starts, Confirm(e) PROVE DelInv'
  BY <1>9 DEF Confirm
<1>10. ASSUME NEW e \in Starts, Stop(e) PROVE DelInv'
  BY <1>10 DEF Stop, Ends, Live
<1>11. ASSUME NEW e \in Starts, StopOne(e) PROVE DelInv'
  BY <1>11 DEF StopOne, Ends, Strike, SaveThings, Saved, Removed, Live, Nothing
<1>12. ASSUME NEW e \in Starts, PassOver(e) PROVE DelInv'
  BY <1>12 DEF PassOver, Strike, Live
<1>13. ASSUME NEW e \in Starts, StopFails(e) PROVE DelInv'
  <2>1. /\ UNCHANGED <<project, shares, row, listed, missed>>
        /\ e \in del.todo /\ row[e] = "running"
        /\ \A f \in Starts : vm'[f] = IF f = e THEN "dead" ELSE vm[f]
    BY <1>13, StopFailed
  <2>2. CASE Done(del.req) /\ del' = Idle /\ unsaved' = Nothing
    <3>1. \A f \in Starts : at'[f] = at[f] \/ at'[f] = "done"
      BY <2>2
    <3>2. del'.at = "none" /\ del'.todo = {} /\ unsaved' = Nothing
      BY <2>2 DEF Idle
    <3>. QED BY <2>1, <3>1, <3>2 DEF Nothing
  <2>3. CASE /\ Strike(e, Nobody) /\ UNCHANGED at
             /\ unsaved' = [unsaved EXCEPT !.stopping = unsaved.stopping \cup {e}]
    <3>1. /\ del'.todo = del.todo \ {e} /\ del'.at = del.at /\ del'.req = del.req
          /\ del'.user = del.user /\ del'.project = del.project
      BY <2>3, Struck
    <3>2. /\ unsaved'.envs = unsaved.envs /\ unsaved'.projects = unsaved.projects
          /\ unsaved'.shares = unsaved.shares /\ unsaved'.stopping = unsaved.stopping \cup {e}
      BY <2>3
    <3>. QED BY <2>1, <2>3, <3>1, <3>2
  <2>. QED BY <1>13, <2>2, <2>3, StopFailed
<1>14. ASSUME WaitsTooLong PROVE DelInv'
  <2>1. UNCHANGED <<project, shares, row, vm, listed>>
    BY <1>14, WaitedTooLong
  <2>2. CASE Done(del.req) /\ del' = Idle /\ unsaved' = Nothing /\ UNCHANGED missed
    <3>1. \A f \in Starts : at'[f] = at[f] \/ at'[f] = "done"
      BY <2>2
    <3>2. del'.at = "none" /\ del'.todo = {} /\ unsaved' = Nothing
      BY <2>2 DEF Idle
    <3>. QED BY <2>1, <2>2, <3>1, <3>2 DEF Nothing
  <2>3. CASE /\ UNCHANGED <<at, locked, unsaved>>
             /\ \E e \in Starts : Strike(e, del.kept) /\ missed' = missed \cup {e}
    <3>1. PICK e \in Starts : Strike(e, del.kept) /\ missed' = missed \cup {e}
      BY <2>3
    <3>2. /\ del'.todo = del.todo \ {e} /\ del'.at = del.at /\ del'.req = del.req
          /\ del'.user = del.user /\ del'.project = del.project
      BY <3>1, Struck
    <3>3. missed' = missed \cup {e}
      BY <3>1
    <3>. QED BY <2>1, <2>3, <3>2, <3>3
  <2>. QED BY <1>14, <2>2, <2>3, WaitedTooLong
<1>15. ASSUME ReadProjects PROVE DelInv'
  BY <1>15 DEF ReadProjects
<1>16. ASSUME NEW p \in Projects, BeginProject(p) PROVE DelInv'
  BY <1>16 DEF BeginProject, Reads, ToStop, Live, Removed
<1>17. ASSUME DropProject PROVE DelInv'
  BY <1>17 DEF DropProject, Abort, Idle, Nothing
<1>18. ASSUME EndDelete PROVE DelInv'
  BY <1>18 DEF EndDelete, Abort, Idle, Nothing, Saved, Removed, SaveThings
<1>. QED BY <1>1, <1>2, <1>3, <1>4, <1>5, <1>6, <1>7, <1>8, <1>9, <1>10, <1>11, <1>12,
           <1>13, <1>14, <1>15, <1>16, <1>17, <1>18
           DEF Next, Act, Start, Delete

\* An environment leaves the lists stopped, or with the deletion.
LEMMA ListedStep ==
  ASSUME IInv, Next
  PROVE  ListedInv'
<1>. USE RequestsAssumption DEF IInv, TypeOK, ListedInv, Live, RowInv, UnsavedInv, DelInv,
        Starts, Of, people, things, envs, deletion, Done
<1>1. ASSUME NEW r \in Requests, Arrive(r) PROVE ListedInv'
  BY <1>1 DEF Arrive
<1>2. ASSUME NEW r \in Requests, UpdateUser(r) PROVE ListedInv'
  BY <1>2 DEF UpdateUser, Waits, Note, UserOps
<1>3. ASSUME NEW r \in Requests, Upload(r) PROVE ListedInv'
  BY <1>3 DEF Upload, Waits, Note, UserOps
<1>4. ASSUME NEW r \in Requests, Share(r) PROVE ListedInv'
  BY <1>4 DEF Share, Waits, Note, UserOps, MayManage
<1>5. ASSUME NEW r \in Requests, Unshare(r) PROVE ListedInv'
  BY <1>5 DEF Unshare, Waits, Note, UserOps, MayManage
<1>6. ASSUME NEW r \in Requests, BeginDelete(r) PROVE ListedInv'
  BY <1>6 DEF BeginDelete, Waits, Note, Idle, Reads, ToStop, Live, Removed, UserOps,
     Nothing
<1>7. ASSUME NEW e \in Starts, Reserve(e) PROVE ListedInv'
  BY <1>7 DEF Reserve, Waits, Note, UserOps
<1>8. ASSUME NEW e \in Starts, Boot(e) PROVE ListedInv'
  BY <1>8 DEF Boot
<1>9. ASSUME NEW e \in Starts, Confirm(e) PROVE ListedInv'
  BY <1>9 DEF Confirm
<1>10. ASSUME NEW e \in Starts, Stop(e) PROVE ListedInv'
  BY <1>10 DEF Stop, Ends, Live
<1>11. ASSUME NEW e \in Starts, StopOne(e) PROVE ListedInv'
  BY <1>11 DEF StopOne, Ends, Strike, SaveThings, Saved, Removed, Live, Nothing
<1>12. ASSUME NEW e \in Starts, PassOver(e) PROVE ListedInv'
  BY <1>12 DEF PassOver, Strike, Live
<1>13. ASSUME NEW e \in Starts, StopFails(e) PROVE ListedInv'
  <2>1. /\ UNCHANGED <<project, shares, row, listed, missed>>
        /\ e \in del.todo /\ row[e] = "running"
        /\ \A f \in Starts : vm'[f] = IF f = e THEN "dead" ELSE vm[f]
    BY <1>13, StopFailed
  <2>2. CASE Done(del.req) /\ del' = Idle /\ unsaved' = Nothing
    <3>1. \A f \in Starts : at'[f] = at[f] \/ at'[f] = "done"
      BY <2>2
    <3>2. del'.at = "none" /\ del'.todo = {} /\ unsaved' = Nothing
      BY <2>2 DEF Idle
    <3>. QED BY <2>1, <3>1, <3>2 DEF Nothing
  <2>3. CASE /\ Strike(e, Nobody) /\ UNCHANGED at
             /\ unsaved' = [unsaved EXCEPT !.stopping = unsaved.stopping \cup {e}]
    <3>1. /\ del'.todo = del.todo \ {e} /\ del'.at = del.at /\ del'.req = del.req
          /\ del'.user = del.user /\ del'.project = del.project
      BY <2>3, Struck
    <3>2. /\ unsaved'.envs = unsaved.envs /\ unsaved'.projects = unsaved.projects
          /\ unsaved'.shares = unsaved.shares /\ unsaved'.stopping = unsaved.stopping \cup {e}
      BY <2>3
    <3>. QED BY <2>1, <2>3, <3>1, <3>2
  <2>. QED BY <1>13, <2>2, <2>3, StopFailed
<1>14. ASSUME WaitsTooLong PROVE ListedInv'
  <2>1. UNCHANGED <<project, shares, row, vm, listed>>
    BY <1>14, WaitedTooLong
  <2>2. CASE Done(del.req) /\ del' = Idle /\ unsaved' = Nothing /\ UNCHANGED missed
    <3>1. \A f \in Starts : at'[f] = at[f] \/ at'[f] = "done"
      BY <2>2
    <3>2. del'.at = "none" /\ del'.todo = {} /\ unsaved' = Nothing
      BY <2>2 DEF Idle
    <3>. QED BY <2>1, <2>2, <3>1, <3>2 DEF Nothing
  <2>3. CASE /\ UNCHANGED <<at, locked, unsaved>>
             /\ \E e \in Starts : Strike(e, del.kept) /\ missed' = missed \cup {e}
    <3>1. PICK e \in Starts : Strike(e, del.kept) /\ missed' = missed \cup {e}
      BY <2>3
    <3>2. /\ del'.todo = del.todo \ {e} /\ del'.at = del.at /\ del'.req = del.req
          /\ del'.user = del.user /\ del'.project = del.project
      BY <3>1, Struck
    <3>3. missed' = missed \cup {e}
      BY <3>1
    <3>. QED BY <2>1, <2>3, <3>2, <3>3
  <2>. QED BY <1>14, <2>2, <2>3, WaitedTooLong
<1>15. ASSUME ReadProjects PROVE ListedInv'
  BY <1>15 DEF ReadProjects
<1>16. ASSUME NEW p \in Projects, BeginProject(p) PROVE ListedInv'
  BY <1>16 DEF BeginProject, Reads, ToStop, Live, Removed
<1>17. ASSUME DropProject PROVE ListedInv'
  <2>1. CASE Abort
    BY <1>17, <2>1 DEF DropProject, Abort, Idle, Nothing
  <2>2. CASE ~Abort
    <3>1. /\ del.at = "project" /\ del.todo = {} /\ locked' = TRUE
          /\ ~\E s \in shares \ unsaved.shares : s[1] = del.project
          /\ unsaved' = [unsaved EXCEPT !.projects = @ \cup {del.project},
                !.envs = @ \cup {e \in Starts : e.on = del.project /\ row[e] # "absent"}]
          /\ del' = [del EXCEPT !.at = "projects"]
          /\ UNCHANGED <<at, people, things, envs, belated>>
      BY <1>17, <2>2 DEF DropProject
    <3>2. del'.at = "projects" /\ del'.todo = del.todo /\ del'.req = del.req /\ del'.user = del.user
      BY <3>1
    <3>3. /\ unsaved'.projects = unsaved.projects \cup {del.project}
          /\ unsaved'.envs = unsaved.envs \cup {e \in Starts : e.on = del.project /\ row[e] # "absent"}
          /\ unsaved'.shares = unsaved.shares /\ unsaved'.stopping = unsaved.stopping
      BY <3>1
    <3>. QED BY <3>1, <3>2, <3>3
  <2>. QED BY <2>1, <2>2
<1>18. ASSUME EndDelete PROVE ListedInv'
  BY <1>18 DEF EndDelete, Abort, Idle, Nothing, Saved, Removed, SaveThings
<1>. QED BY <1>1, <1>2, <1>3, <1>4, <1>5, <1>6, <1>7, <1>8, <1>9, <1>10, <1>11, <1>12,
           <1>13, <1>14, <1>15, <1>16, <1>17, <1>18
           DEF Next, Act, Start, Delete

-----------------------------------------------------------------------------
(* The theorems. *)

LEMMA Invariant == Spec => []IInv
<1>1. Init => IInv
  <2>. SUFFICES ASSUME Init PROVE IInv
    OBVIOUS
  <2>1. TypeOK
    BY RequestsAssumption DEF Init, TypeOK, Idle, Nothing
  <2>2. RowInv /\ UnsavedInv /\ DelInv /\ ListedInv
    BY RequestsAssumption DEF Init, RowInv, UnsavedInv, DelInv, ListedInv, Starts, Of, Idle, Nothing
  <2>. QED BY <2>1, <2>2 DEF IInv
<1>2. IInv /\ [Next]_vars => IInv'
  <2>1. CASE Next
    BY <2>1, TypeStep, RowStep, UnsavedStep, DelStep, ListedStep DEF IInv
  <2>2. CASE UNCHANGED vars
    BY <2>2 DEF vars, IInv, TypeOK, RowInv, UnsavedInv, DelInv, ListedInv, Live
  <2>. QED BY <2>1, <2>2
<1>. QED BY <1>1, <1>2, PTL DEF Spec

\* Every variable keeps its type.
THEOREM TypeCorrect == Spec => []TypeOK
BY Invariant, PTL DEF IInv

\* Whoever runs an environment that a deletion read as live: when its row goes, its start
\* is over and its VM is not alive, though the deletion commits between its claims and others
\* stop, start and confirm in between; save for what somebody let go of with no VM stopped.
THEOREM ListedAreStopped == Spec => []ListedIsStopped
<1>1. IInv => ListedIsStopped
  BY DEF IInv, ListedInv, ListedIsStopped, Live
<1>. QED BY <1>1, Invariant, PTL

\* A share goes before its project, or with its user.
LEMMA SharesStep ==
  ASSUME IInv, SharesHaveBoth, Next
  PROVE  SharesHaveBoth'
<1>. USE RequestsAssumption DEF IInv, TypeOK, UnsavedInv, SharesHaveBoth, Starts, Of,
        people, things, envs, deletion, Done
<1>1. ASSUME NEW r \in Requests, Arrive(r) PROVE SharesHaveBoth'
  BY <1>1 DEF Arrive
<1>2. ASSUME NEW r \in Requests, UpdateUser(r) PROVE SharesHaveBoth'
  BY <1>2 DEF UpdateUser, Waits, Note, UserOps
<1>3. ASSUME NEW r \in Requests, Upload(r) PROVE SharesHaveBoth'
  BY <1>3 DEF Upload, Waits, Note, UserOps
<1>4. ASSUME NEW r \in Requests, Share(r) PROVE SharesHaveBoth'
  BY <1>4 DEF Share, Waits, Note, UserOps, MayManage
<1>5. ASSUME NEW r \in Requests, Unshare(r) PROVE SharesHaveBoth'
  BY <1>5 DEF Unshare, Waits, Note, UserOps, MayManage
<1>6. ASSUME NEW r \in Requests, BeginDelete(r) PROVE SharesHaveBoth'
  BY <1>6 DEF BeginDelete, Waits, Note, Idle, Reads, ToStop, Live, Removed, UserOps,
     Nothing
<1>7. ASSUME NEW e \in Starts, Reserve(e) PROVE SharesHaveBoth'
  BY <1>7 DEF Reserve, Waits, Note, UserOps
<1>8. ASSUME NEW e \in Starts, Boot(e) PROVE SharesHaveBoth'
  BY <1>8 DEF Boot
<1>9. ASSUME NEW e \in Starts, Confirm(e) PROVE SharesHaveBoth'
  BY <1>9 DEF Confirm
<1>10. ASSUME NEW e \in Starts, Stop(e) PROVE SharesHaveBoth'
  BY <1>10 DEF Stop, Ends, Live
<1>11. ASSUME NEW e \in Starts, StopOne(e) PROVE SharesHaveBoth'
  BY <1>11 DEF StopOne, Ends, Strike, SaveThings, Saved, Removed, Live, Nothing
<1>12. ASSUME NEW e \in Starts, PassOver(e) PROVE SharesHaveBoth'
  BY <1>12 DEF PassOver, Strike, Live
<1>13. ASSUME NEW e \in Starts, StopFails(e) PROVE SharesHaveBoth'
  BY <1>13 DEF StopFails, Strike, Abort, Idle, Nothing
<1>14. ASSUME WaitsTooLong PROVE SharesHaveBoth'
  BY <1>14 DEF WaitsTooLong, Strike, Abort, Idle, Nothing
<1>15. ASSUME ReadProjects PROVE SharesHaveBoth'
  BY <1>15 DEF ReadProjects
<1>16. ASSUME NEW p \in Projects, BeginProject(p) PROVE SharesHaveBoth'
  BY <1>16 DEF BeginProject, Reads, ToStop, Live, Removed
<1>17. ASSUME DropProject PROVE SharesHaveBoth'
  BY <1>17 DEF DropProject, Abort, Idle, Nothing
<1>18. ASSUME EndDelete PROVE SharesHaveBoth'
  BY <1>18 DEF EndDelete, Abort, Idle, Nothing, Saved, Removed, SaveThings
<1>. QED BY <1>1, <1>2, <1>3, <1>4, <1>5, <1>6, <1>7, <1>8, <1>9, <1>10, <1>11, <1>12,
           <1>13, <1>14, <1>15, <1>16, <1>17, <1>18
           DEF Next, Act, Start, Delete

\* No environment's row and no share leads to a project or user that is gone.
THEOREM NothingIsLeftDangling == Spec => []NothingDangles
<1>1. Init => SharesHaveBoth
  BY DEF Init, SharesHaveBoth
<1>2. IInv /\ SharesHaveBoth /\ [Next]_vars => SharesHaveBoth'
  <2>1. CASE Next
    BY <2>1, SharesStep
  <2>2. CASE UNCHANGED vars
    BY <2>2 DEF vars, SharesHaveBoth
  <2>. QED BY <2>1, <2>2
<1>3. IInv => EnvHasProject
  BY DEF IInv, RowInv, EnvHasProject, Live
<1>4. EnvHasProject /\ SharesHaveBoth => NothingDangles
  BY DEF NothingDangles
<1>. QED BY <1>1, <1>2, <1>3, <1>4, Invariant, PTL DEF Spec

\* What a removed user has is made by requests let in before.
LEMMA RemovedStep ==
  ASSUME IInv, RemovedUserLeavesNothing, Next
  PROVE  RemovedUserLeavesNothing'
<1>. USE RequestsAssumption DEF IInv, TypeOK, RowInv, UnsavedInv,
        RemovedUserLeavesNothing, Starts, Of, people, things, envs, deletion, Done
<1>1. ASSUME NEW r \in Requests, Arrive(r) PROVE RemovedUserLeavesNothing'
  BY <1>1 DEF Arrive
<1>2. ASSUME NEW r \in Requests, UpdateUser(r) PROVE RemovedUserLeavesNothing'
  BY <1>2 DEF UpdateUser, Waits, Note, UserOps
<1>3. ASSUME NEW r \in Requests, Upload(r) PROVE RemovedUserLeavesNothing'
  BY <1>3 DEF Upload, Waits, Note, UserOps
<1>4. ASSUME NEW r \in Requests, Share(r) PROVE RemovedUserLeavesNothing'
  BY <1>4 DEF Share, Waits, Note, UserOps, MayManage
<1>5. ASSUME NEW r \in Requests, Unshare(r) PROVE RemovedUserLeavesNothing'
  BY <1>5 DEF Unshare, Waits, Note, UserOps, MayManage
<1>6. ASSUME NEW r \in Requests, BeginDelete(r) PROVE RemovedUserLeavesNothing'
  BY <1>6 DEF BeginDelete, Waits, Note, Idle, Reads, ToStop, Live, Removed, UserOps,
     Nothing
<1>7. ASSUME NEW e \in Starts, Reserve(e) PROVE RemovedUserLeavesNothing'
  BY <1>7 DEF Reserve, Waits, Note, UserOps
<1>8. ASSUME NEW e \in Starts, Boot(e) PROVE RemovedUserLeavesNothing'
  BY <1>8 DEF Boot
<1>9. ASSUME NEW e \in Starts, Confirm(e) PROVE RemovedUserLeavesNothing'
  BY <1>9 DEF Confirm
<1>10. ASSUME NEW e \in Starts, Stop(e) PROVE RemovedUserLeavesNothing'
  BY <1>10 DEF Stop, Ends, Live
<1>11. ASSUME NEW e \in Starts, StopOne(e) PROVE RemovedUserLeavesNothing'
  BY <1>11 DEF StopOne, Ends, Strike, SaveThings, Saved, Removed, Live, Nothing
<1>12. ASSUME NEW e \in Starts, PassOver(e) PROVE RemovedUserLeavesNothing'
  BY <1>12 DEF PassOver, Strike, Live
<1>13. ASSUME NEW e \in Starts, StopFails(e) PROVE RemovedUserLeavesNothing'
  BY <1>13 DEF StopFails, Strike, Abort, Idle, Nothing
<1>14. ASSUME WaitsTooLong PROVE RemovedUserLeavesNothing'
  <2>1. UNCHANGED <<people, things, row, belated>>
    BY <1>14, WaitedTooLong
  <2>. QED BY <2>1
<1>15. ASSUME ReadProjects PROVE RemovedUserLeavesNothing'
  BY <1>15 DEF ReadProjects
<1>16. ASSUME NEW p \in Projects, BeginProject(p) PROVE RemovedUserLeavesNothing'
  BY <1>16 DEF BeginProject, Reads, ToStop, Live, Removed
<1>17. ASSUME DropProject PROVE RemovedUserLeavesNothing'
  BY <1>17 DEF DropProject, Abort, Idle, Nothing
<1>18. ASSUME EndDelete PROVE RemovedUserLeavesNothing'
  BY <1>18 DEF EndDelete, Abort, Idle, Nothing, Saved, Removed, SaveThings
<1>. QED BY <1>1, <1>2, <1>3, <1>4, <1>5, <1>6, <1>7, <1>8, <1>9, <1>10, <1>11, <1>12,
           <1>13, <1>14, <1>15, <1>16, <1>17, <1>18
           DEF Next, Act, Start, Delete

\* A user who is gone has left neither rows nor shares nor projects, but for those made by
\* requests that were let in before and ran after.
THEOREM RemovedLeaveNothing == Spec => []RemovedUserLeavesNothing
<1>1. Init => RemovedUserLeavesNothing
  BY DEF Init, RemovedUserLeavesNothing
<1>2. IInv /\ RemovedUserLeavesNothing /\ [Next]_vars => RemovedUserLeavesNothing'
  <2>1. CASE Next
    BY <2>1, RemovedStep
  <2>2. CASE UNCHANGED vars
    BY <2>2 DEF vars, RemovedUserLeavesNothing
  <2>. QED BY <2>1, <2>2
<1>. QED BY <1>1, <1>2, Invariant, PTL DEF Spec

\* Who takes the last but one administrator's rights keeps the last.
LEMMA LockoutStep ==
  ASSUME IInv, NoLockout, Next
  PROVE  NoLockout'
<1>. USE RequestsAssumption DEF IInv, TypeOK, DelInv, NoLockout, Admin, Starts, Of,
        people, things, envs, deletion, Done
<1>1. ASSUME NEW r \in Requests, Arrive(r) PROVE NoLockout'
  BY <1>1 DEF Arrive
<1>2. ASSUME NEW r \in Requests, UpdateUser(r) PROVE NoLockout'
  BY <1>2 DEF UpdateUser, Waits, Note, UserOps
<1>3. ASSUME NEW r \in Requests, Upload(r) PROVE NoLockout'
  BY <1>3 DEF Upload, Waits, Note, UserOps
<1>4. ASSUME NEW r \in Requests, Share(r) PROVE NoLockout'
  BY <1>4 DEF Share, Waits, Note, UserOps, MayManage
<1>5. ASSUME NEW r \in Requests, Unshare(r) PROVE NoLockout'
  BY <1>5 DEF Unshare, Waits, Note, UserOps, MayManage
<1>6. ASSUME NEW r \in Requests, BeginDelete(r) PROVE NoLockout'
  BY <1>6 DEF BeginDelete, Waits, Note, Idle, Reads, ToStop, Live, Removed, UserOps,
     Nothing
<1>7. ASSUME NEW e \in Starts, Reserve(e) PROVE NoLockout'
  BY <1>7 DEF Reserve, Waits, Note, UserOps
<1>8. ASSUME NEW e \in Starts, Boot(e) PROVE NoLockout'
  BY <1>8 DEF Boot
<1>9. ASSUME NEW e \in Starts, Confirm(e) PROVE NoLockout'
  BY <1>9 DEF Confirm
<1>10. ASSUME NEW e \in Starts, Stop(e) PROVE NoLockout'
  BY <1>10 DEF Stop, Ends, Live
<1>11. ASSUME NEW e \in Starts, StopOne(e) PROVE NoLockout'
  BY <1>11 DEF StopOne, Ends, Strike, SaveThings, Saved, Removed, Live, Nothing
<1>12. ASSUME NEW e \in Starts, PassOver(e) PROVE NoLockout'
  BY <1>12 DEF PassOver, Strike, Live
<1>13. ASSUME NEW e \in Starts, StopFails(e) PROVE NoLockout'
  BY <1>13 DEF StopFails, Strike, Abort, Idle, Nothing
<1>14. ASSUME WaitsTooLong PROVE NoLockout'
  BY <1>14 DEF WaitsTooLong, Strike, Abort, Idle, Nothing
<1>15. ASSUME ReadProjects PROVE NoLockout'
  BY <1>15 DEF ReadProjects
<1>16. ASSUME NEW p \in Projects, BeginProject(p) PROVE NoLockout'
  BY <1>16 DEF BeginProject, Reads, ToStop, Live, Removed
<1>17. ASSUME DropProject PROVE NoLockout'
  BY <1>17 DEF DropProject, Abort, Idle, Nothing
<1>18. ASSUME EndDelete PROVE NoLockout'
  BY <1>18 DEF EndDelete, Abort, Idle, Nothing, Saved, Removed, SaveThings
<1>. QED BY <1>1, <1>2, <1>3, <1>4, <1>5, <1>6, <1>7, <1>8, <1>9, <1>10, <1>11, <1>12,
           <1>13, <1>14, <1>15, <1>16, <1>17, <1>18
           DEF Next, Act, Start, Delete

\* However many administrators demote, disable and delete each other, one is left, unless
\* two requests to do so overlapped.
THEOREM SomebodyAdministers == Spec => []NoLockout
<1>1. Init => NoLockout
  BY RequestsAssumption DEF Init, NoLockout, Admin
<1>2. IInv /\ NoLockout /\ [Next]_vars => NoLockout'
  <2>1. CASE Next
    BY <2>1, LockoutStep
  <2>2. CASE UNCHANGED vars
    BY <2>2 DEF vars, NoLockout, Admin
  <2>. QED BY <2>1, <2>2
<1>. QED BY <1>1, <1>2, Invariant, PTL DEF Spec
=============================================================================
