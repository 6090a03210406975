------------------------------ MODULE Accounts ------------------------------
(***************************************************************************)
(* Users, the projects they own and share, and delete_user, which removes  *)
(* a user with everything that hangs on it while others go on working.     *)
(*                                                                         *)
(* A request is let in by a session that reads committed rows without a    *)
(* lock; the handler then acts on the user object it was given, however    *)
(* long it waits for the write lock.  Except for delete_user a handler's   *)
(* transaction is one step here.  delete_user commits after every          *)
(* environment it stops, and anyone may write in between.  A request that  *)
(* is refused writes nothing and is left out: here it goes no further.     *)
(*                                                                         *)
(* Bounds: each request is sent once, and one user is deleted at a time.   *)
(*                                                                         *)
(* A definition called Faulty... is the one after it with a plausible bug; *)
(* nothing uses it.  Replacing the definition by it must break a property. *)
(***************************************************************************)
EXTENDS Naturals, FiniteSets

CONSTANTS
  Users, Projects,
  Requests,     \* records [op, by, on]; a share also says [with]
  FirstAdmins,  \* admins at first
  OwnerOf,      \* owners of the projects there at first
  Faults,       \* what may go wrong
  Nobody

UserOps == {"promote", "demote", "disable", "enable"}

ASSUME RequestsAssumption ==
  /\ FirstAdmins \subseteq Users /\ Nobody \notin Users
  /\ DOMAIN OwnerOf \subseteq Projects /\ \A p \in DOMAIN OwnerOf : OwnerOf[p] \in Users
  /\ \A r \in Requests :
       /\ r.op \in UserOps \cup {"delete", "start", "upload", "share", "unshare"}
       /\ r.by \in Users
       /\ r.on \in IF r.op \in UserOps \cup {"delete"} THEN Users ELSE Projects
       /\ r.op \in {"share", "unshare"} => r.with \in Users
  /\ Faults \subseteq {"stop_fail", "db_busy"}

Of(op) == {r \in Requests : r.op = op}
Starts == Of("start")             \* each makes at most one environment

VARIABLES
  role,      \* of each user: "user", "admin" or "gone"
  active,    \* users who are not disabled
  project,   \* of each project: "absent", "there" or "gone"
  owner,     \* its owner; Nobody if the column is empty
  shares,    \* collaborators: <<project, user>>
  at,        \* what each request is at
  row,       \* committed status of a start's environment
  vm,        \* its VM
  del,       \* the deletion under way: where it is, what is left of its lists, and the
             \* environment its variable env refers to, if that was loaded without a VM
  locked,    \* it has a transaction open
  unsaved,   \* what that transaction has removed or marked
  crossed,   \* history: an administrator lost the rights before the request acted
  belated,   \* history: requests that acted for a user who was gone
  listed,    \* history: environments a deletion read as starting or running
  missed     \* history: environments somebody let go of with no VM stopped, see ListedIsStopped

vars == <<role, active, project, owner, shares, at, row, vm, del, locked, unsaved,
          crossed, belated, listed, missed>>
people   == <<role, active, crossed>>
things   == <<project, owner, shares>>
envs     == <<row, vm, listed, missed>>
deletion == <<del, locked, unsaved>>

Nothing == [envs |-> {}, projects |-> {}, shares |-> {}, stopping |-> {}]
Idle    == [at |-> "none", req |-> Nobody, user |-> Nobody, todo |-> {}, projects |-> {},
            project |-> Nobody, kept |-> Nobody]

Live(e) == row[e] \in {"starting", "running"}       \* what claim_env_for_stop takes
Admin(u)     == role[u] = "admin" /\ active[u]
LetIn(u)     == role[u] # "gone" /\ active[u]

Init ==
  /\ role = [u \in Users |-> IF u \in FirstAdmins THEN "admin" ELSE "user"]
  /\ active = [u \in Users |-> TRUE]
  /\ project = [p \in Projects |-> IF p \in DOMAIN OwnerOf THEN "there" ELSE "absent"]
  /\ owner = [p \in Projects |-> IF p \in DOMAIN OwnerOf THEN OwnerOf[p] ELSE Nobody]
  /\ shares = {}
  /\ at = [r \in Requests |-> "new"]
  /\ row = [e \in Starts |-> "absent"]
  /\ vm = [e \in Starts |-> "absent"]
  /\ del = Idle /\ locked = FALSE /\ unsaved = Nothing
  /\ crossed = FALSE /\ belated = {} /\ listed = {} /\ missed = {}

(***************************************************************************)
(* Requests.                                                               *)
(***************************************************************************)

\* get_current_user, require_admin: the sender's row as it is committed now.
Arrive(r) ==
  /\ at[r] = "new"
  /\ IF r.op \in UserOps \cup {"delete"} THEN Admin(r.by) ELSE LetIn(r.by)
  /\ at' = [at EXCEPT ![r] = IF role[r.by] = "admin" THEN "admin" ELSE "in"]
  /\ UNCHANGED <<people, things, envs, deletion, belated>>

Waits(r)   == at[r] \in {"in", "admin"} /\ ~locked
AsAdmin(r) == at[r] = "admin"
Done(r)    == at' = [at EXCEPT ![r] = "done"]

\* The request is acted on for a user object that may be out of date.
Note(r) ==
  /\ belated' = IF role[r.by] = "gone" THEN belated \cup {r} ELSE belated
  /\ crossed' = (crossed \/ (r.op \in UserOps \cup {"delete"} /\ ~Admin(r.by)))

\* Faulty: one may demote oneself.
FaultyUpdateUser(r) ==
  /\ Waits(r) /\ r.op \in UserOps /\ role[r.on] # "gone"
  /\ role' = [role EXCEPT ![r.on] = IF r.op = "promote" THEN "admin"
                                      ELSE IF r.op = "demote" THEN "user" ELSE @]
  /\ active' = [active EXCEPT ![r.on] = r.op = "enable" \/ (@ /\ r.op # "disable")]
  /\ Note(r) /\ Done(r)
  /\ UNCHANGED <<things, envs, deletion>>

\* update_user: nobody may demote or disable himself.
UpdateUser(r) ==
  /\ Waits(r) /\ r.op \in UserOps /\ role[r.on] # "gone"
  /\ r.op \in {"demote", "disable"} => r.by # r.on
  /\ role' = [role EXCEPT ![r.on] = IF r.op = "promote" THEN "admin"
                                      ELSE IF r.op = "demote" THEN "user" ELSE @]
  /\ active' = [active EXCEPT ![r.on] = r.op = "enable" \/ (@ /\ r.op # "disable")]
  /\ Note(r) /\ Done(r)
  /\ UNCHANGED <<things, envs, deletion>>

\* upload_image, from the check of the slug to the commit.
Upload(r) ==
  /\ Waits(r) /\ r.op = "upload" /\ project[r.on] = "absent"
  /\ project' = [project EXCEPT ![r.on] = "there"]
  /\ owner' = [owner EXCEPT ![r.on] = r.by]
  /\ Note(r) /\ Done(r)
  /\ UNCHANGED <<role, active, shares, envs, deletion>>

\* _get_image_as_owner_or_admin: by the owner's name, so the owner is there.
MayManage(r, p) ==
  /\ project[p] = "there" /\ owner[p] # Nobody /\ role[owner[p]] # "gone"
  /\ AsAdmin(r) \/ owner[p] = r.by

\* Faulty: whom the project is shared with is not looked up.
FaultyShare(r) ==
  /\ Waits(r) /\ r.op = "share" /\ MayManage(r, r.on)
  /\ r.with # owner[r.on] /\ <<r.on, r.with>> \notin shares
  /\ shares' = shares \cup {<<r.on, r.with>>}
  /\ Note(r) /\ Done(r)
  /\ UNCHANGED <<role, active, project, owner, envs, deletion>>

\* add_collaborator.
Share(r) ==
  /\ Waits(r) /\ r.op = "share" /\ MayManage(r, r.on)
  /\ role[r.with] # "gone" /\ r.with # owner[r.on] /\ <<r.on, r.with>> \notin shares
  /\ shares' = shares \cup {<<r.on, r.with>>}
  /\ Note(r) /\ Done(r)
  /\ UNCHANGED <<role, active, project, owner, envs, deletion>>

\* remove_collaborator.
Unshare(r) ==
  /\ Waits(r) /\ r.op = "unshare" /\ MayManage(r, r.on)
  /\ <<r.on, r.with>> \in shares
  /\ shares' = shares \ {<<r.on, r.with>>}
  /\ Note(r) /\ Done(r)
  /\ UNCHANGED <<role, active, project, owner, envs, deletion>>

(***************************************************************************)
(* Starting an environment: what EnvLifecycle tells in full.               *)
(***************************************************************************)

\* _can_see, for a private project.
MaySee(r, p) == AsAdmin(r) \/ owner[p] = r.by \/ <<p, r.by>> \in shares

\* The project is read, and the row written, in one transaction.
Reserve(e) ==
  /\ Waits(e) /\ e.op = "start" /\ project[e.on] = "there" /\ MaySee(e, e.on)
  /\ row' = [row EXCEPT ![e] = "starting"]
  /\ at' = [at EXCEPT ![e] = "booting"]
  /\ Note(e)
  /\ UNCHANGED <<role, active, things, vm, listed, missed, deletion>>

Boot(e) ==
  /\ at[e] = "booting"
  /\ vm' = [vm EXCEPT ![e] = "alive"]
  /\ at' = [at EXCEPT ![e] = "booted"]
  /\ UNCHANGED <<people, things, row, listed, missed, deletion, belated>>

\* The VM is recorded and the row set running, whatever it was set to meanwhile; if the row is gone, the update finds
\* none and the handler stops the VM.
Confirm(e) ==
  /\ at[e] = "booted" /\ ~locked
  /\ IF row[e] = "gone"
     THEN vm' = [vm EXCEPT ![e] = "absent"] /\ UNCHANGED row
     ELSE row' = [row EXCEPT ![e] = "running"] /\ UNCHANGED vm
  /\ Done(e)
  /\ UNCHANGED <<people, things, listed, missed, deletion, belated>>

\* The VM of an environment is stopped if the claimed object names it.
Ends(e, named) ==
  /\ vm' = IF named THEN [vm EXCEPT ![e] = "absent"] ELSE vm
  /\ missed' = IF named THEN missed ELSE missed \cup {e}

\* Anyone who may, watchdog included, stops it: claim, destroy, commit.
Stop(e) ==
  /\ Live(e) /\ ~locked
  /\ Ends(e, row[e] = "running")
  /\ row' = [row EXCEPT ![e] = "stopped"]
  /\ UNCHANGED <<people, things, at, listed, deletion, belated>>

(***************************************************************************)
(* delete_user.                                                            *)
(***************************************************************************)

\* The open transaction is committed, with the changes of this step.
Removed(e)  == e \in unsaved.envs
Saved(e)    == IF Removed(e) THEN "gone" ELSE IF e \in unsaved.stopping THEN "stopping" ELSE row[e]
SaveThings ==
  /\ project' = [p \in Projects |-> IF p \in unsaved.projects THEN "gone" ELSE project[p]]
  /\ shares' = shares \ unsaved.shares

\* Faulty: what the transaction had changed is kept for the next.
FaultyAbort ==
  /\ Done(del.req)
  /\ del' = Idle /\ locked' = FALSE /\ UNCHANGED unsaved

Abort ==
  /\ Done(del.req)
  /\ del' = Idle /\ locked' = FALSE /\ unsaved' = Nothing

ToStop(S) == {e \in S : Live(e) /\ ~Removed(e)}
Reads(S)  == listed' = listed \cup S /\ missed' = missed \ S

\* The user is read, once, and so are the environments to stop.
BeginDelete(r) ==
  LET mine == ToStop({e \in Starts : e.by = r.on}) IN
  /\ Waits(r) /\ r.op = "delete" /\ del = Idle
  /\ r.by # r.on /\ role[r.on] = "user"
  /\ del' = [Idle EXCEPT !.at = "own", !.req = r, !.user = r.on, !.todo = mine]
  /\ Reads(mine)
  /\ locked' = TRUE
  /\ Note(r)
  /\ at' = [at EXCEPT ![r] = "deleting"]
  /\ UNCHANGED <<role, active, things, row, vm, unsaved>>

Strike(e, kept) == del' = [del EXCEPT !.todo = @ \ {e}, !.kept = kept]

\* Faulty: stops what is still starting only.
FaultyStopOne(e) ==
  /\ del.at \in {"own", "project"} /\ e \in del.todo /\ Live(e)
  /\ row' = [f \in Starts |-> IF f = e THEN "stopped" ELSE Saved(f)]
  /\ SaveThings /\ Strike(e, Nobody)
  /\ locked' = FALSE /\ unsaved' = Nothing
  /\ UNCHANGED <<people, owner, at, vm, listed, missed, belated>>

\* claim_env_for_stop, destroy_env, commit.  An object of the row that the session still
\* has is not refreshed by the claim: what env refers to since the first loop, loaded
\* while the row was starting, names no VM however the row reads now.
StopOne(e) ==
  LET named == row[e] = "running" /\ del.kept # e IN
  /\ del.at \in {"own", "project"} /\ e \in del.todo /\ Live(e)
  /\ Ends(e, named)
  /\ row' = [f \in Starts |-> IF f = e THEN "stopped" ELSE Saved(f)]
  /\ SaveThings /\ Strike(e, IF named THEN Nobody ELSE e)
  /\ locked' = FALSE /\ unsaved' = Nothing
  /\ UNCHANGED <<people, owner, at, listed, belated>>

\* It has been stopped already.
PassOver(e) ==
  /\ del.at \in {"own", "project"} /\ e \in del.todo /\ ~Live(e)
  /\ Strike(e, Nobody)
  /\ locked' = TRUE
  /\ UNCHANGED <<people, things, at, envs, unsaved, belated>>

\* stop_vm raises once the process is killed.  The first loop lets the exception
\* through, the loop over a project's environments goes on.
StopFails(e) ==
  /\ "stop_fail" \in Faults
  /\ del.at \in {"own", "project"} /\ e \in del.todo /\ row[e] = "running" /\ del.kept # e
  /\ vm' = [vm EXCEPT ![e] = "dead"]
  /\ IF del.at = "own" THEN Abort
     ELSE /\ Strike(e, Nobody) /\ locked' = TRUE
          /\ unsaved' = [unsaved EXCEPT !.stopping = @ \cup {e}]
          /\ UNCHANGED at
  /\ UNCHANGED <<people, things, row, listed, missed, belated>>

\* After a commit the write lock is not to be had in time.  The loop over a
\* project's environments goes on to the next.
WaitsTooLong ==
  /\ "db_busy" \in Faults
  /\ del.at \in {"own", "project", "projects"} /\ ~locked
  /\ \/ /\ del.at # "project" \/ del.todo = {}
        /\ Abort /\ UNCHANGED missed
     \/ /\ del.at = "project"
        /\ \E e \in del.todo : Strike(e, del.kept) /\ missed' = missed \cup {e}
        /\ UNCHANGED <<at, locked, unsaved>>
  /\ UNCHANGED <<people, things, row, vm, listed, belated>>

\* The user's projects are read.
ReadProjects ==
  /\ del.at = "own" /\ del.todo = {}
  /\ del' = [del EXCEPT !.at = "projects",
                        !.projects = {p \in Projects : project[p] = "there" /\ owner[p] = del.user}]
  /\ locked' = TRUE
  /\ UNCHANGED <<people, things, at, envs, unsaved, belated>>

\* The next project: its collaborators go, its environments are read.
BeginProject(p) ==
  LET its == ToStop({e \in Starts : e.on = p}) IN
  /\ del.at = "projects" /\ p \in del.projects
  /\ del' = [del EXCEPT !.at = "project", !.project = p, !.projects = @ \ {p}, !.todo = its]
  /\ Reads(its)
  /\ unsaved' = [unsaved EXCEPT !.shares = @ \cup {s \in shares : s[1] = p}]
  /\ locked' = TRUE
  /\ UNCHANGED <<people, things, at, row, vm, belated>>

\* Faulty: only the rows that were stopped go with the project.
FaultyDropProject ==
  /\ del.at = "project" /\ del.todo = {}
  /\ LET p == del.project IN
     IF \E s \in shares \ unsaved.shares : s[1] = p THEN Abort
     ELSE /\ unsaved' = [unsaved EXCEPT !.projects = @ \cup {p},
                           !.envs = @ \cup {e \in Starts : e.on = p /\ row[e] = "stopped"}]
          /\ del' = [del EXCEPT !.at = "projects"]
          /\ locked' = TRUE
          /\ UNCHANGED at
  /\ UNCHANGED <<people, things, envs, belated>>

\* Its environments' rows go, and the project.  A collaborator added since the others
\* were removed makes that fail: the mapper empties his row's image_id, which is NOT NULL.
DropProject ==
  /\ del.at = "project" /\ del.todo = {}
  /\ LET p == del.project IN
     IF \E s \in shares \ unsaved.shares : s[1] = p THEN Abort
     ELSE /\ unsaved' = [unsaved EXCEPT !.projects = @ \cup {p},
                           !.envs = @ \cup {e \in Starts : e.on = p /\ row[e] # "absent"}]
          /\ del' = [del EXCEPT !.at = "projects"]
          /\ locked' = TRUE
          /\ UNCHANGED at
  /\ UNCHANGED <<people, things, envs, belated>>

\* Faulty: the user's environments elsewhere are forgotten.
FaultyEndDelete ==
  /\ del.at = "projects" /\ del.projects = {}
  /\ role' = [role EXCEPT ![del.user] = "gone"]
  /\ row' = [e \in Starts |-> Saved(e)]
  /\ project' = [p \in Projects |-> IF p \in unsaved.projects THEN "gone" ELSE project[p]]
  /\ shares' = {s \in shares \ unsaved.shares : s[2] # del.user}
  /\ owner' = [p \in Projects |-> IF owner[p] = del.user THEN Nobody ELSE owner[p]]
  /\ Abort
  /\ crossed' = (crossed \/ ~Admin(del.req.by))
  /\ UNCHANGED <<active, vm, listed, missed, belated>>

\* What is left goes with the user: his part in other projects, his other rows.  The
\* mapper empties owner_id of projects that have come since they were read.
EndDelete ==
  /\ del.at = "projects" /\ del.projects = {}
  /\ role' = [role EXCEPT ![del.user] = "gone"]
  /\ row' = [e \in Starts |-> IF e.by = del.user /\ row[e] # "absent" THEN "gone" ELSE Saved(e)]
  /\ project' = [p \in Projects |-> IF p \in unsaved.projects THEN "gone" ELSE project[p]]
  /\ shares' = {s \in shares \ unsaved.shares : s[2] # del.user}
  /\ owner' = [p \in Projects |-> IF owner[p] = del.user THEN Nobody ELSE owner[p]]
  /\ Abort
  /\ crossed' = (crossed \/ ~Admin(del.req.by))
  /\ UNCHANGED <<active, vm, listed, missed, belated>>

(***************************************************************************)
(* The specification.                                                      *)
(***************************************************************************)

Act(r) ==
  \/ Arrive(r) \/ UpdateUser(r) \/ Upload(r) \/ Share(r) \/ Unshare(r)
  \/ BeginDelete(r)

Start(e) == Reserve(e) \/ Boot(e) \/ Confirm(e) \/ Stop(e)

Delete ==
  \/ \E e \in Starts : StopOne(e) \/ PassOver(e) \/ StopFails(e)
  \/ WaitsTooLong \/ ReadProjects \/ DropProject \/ EndDelete
  \/ \E p \in Projects : BeginProject(p)

Next == (\E r \in Requests : Act(r)) \/ (\E e \in Starts : Start(e)) \/ Delete

Spec == Init /\ [][Next]_vars

(***************************************************************************)
(* Properties.                                                             *)
(***************************************************************************)

TypeOK ==
  /\ role \in [Users -> {"user", "admin", "gone"}] /\ active \in [Users -> BOOLEAN]
  /\ project \in [Projects -> {"absent", "there", "gone"}]
  /\ owner \in [Projects -> Users \cup {Nobody}] /\ shares \subseteq Projects \X Users
  /\ at \in [Requests -> {"new", "in", "admin", "booting", "booted", "deleting", "done"}]
  /\ row \in [Starts -> {"absent", "starting", "running", "stopping", "stopped", "gone"}]
  /\ vm \in [Starts -> {"absent", "alive", "dead"}]
  /\ del \in [at: {"none", "own", "projects", "project"}, req: Requests \cup {Nobody},
              user: Users \cup {Nobody}, todo: SUBSET Starts, projects: SUBSET Projects,
              project: Projects \cup {Nobody}, kept: Starts \cup {Nobody}]
  /\ unsaved \in [envs: SUBSET Starts, projects: SUBSET Projects,
                  shares: SUBSET (Projects \X Users), stopping: SUBSET Starts]
  /\ locked \in BOOLEAN /\ (~locked => unsaved = Nothing)
  /\ crossed \in BOOLEAN
  /\ belated \subseteq Requests /\ listed \subseteq Starts /\ missed \subseteq Starts

\* What a deletion has read as live is stopped before its row goes, whoever runs it and
\* whoever else stops or starts meanwhile.  Excepted is what it let go of with no VM
\* stopped: it had no lock in time, the row was claimed before its VM was recorded, or
\* env still referred to the object of such a claim.
ListedIsStopped ==
  \A e \in listed \ missed : row[e] = "gone" => at[e] = "done" /\ vm[e] # "alive"

\* Somebody can always administer: nobody may take the rights from himself, and an
\* administrator is not deleted.  Two who take them from each other at once are the
\* exception: each was let in before the other was done.
NoLockout == FirstAdmins # {} => crossed \/ \E u \in Users : Admin(u)

\* The row of a running environment leads to its project, whatever deletions ran beside
\* its start: list_all_envs reads the project of every such row.
EnvHasProject == \A e \in Starts : Live(e) => project[e.on] = "there"

\* A project is shared only while it is there, with users who are there:
\* list_collaborators reads the name of each.
SharesHaveBoth == \A s \in shares : project[s[1]] = "there" /\ role[s[2]] # "gone"

\* No row leads nowhere.
NothingDangles == EnvHasProject /\ SharesHaveBoth

\* A user who is gone has no environment, no part in a project and no project, but for
\* what requests let in before have made after.
RemovedUserLeavesNothing ==
  \A u \in Users : role[u] = "gone" =>
    /\ \A e \in Starts \ belated : e.by = u => row[e] \in {"absent", "gone"}
    /\ \A s \in shares : s[2] # u
    /\ \A p \in Projects :
         project[p] = "there" /\ owner[p] = u => \E r \in belated : r.on = p

\* admin.py: containers others are running are stopped, too, before the rows go.
StoppedBeforeRemoved ==
  \A e \in Starts : row[e] = "gone" /\ at[e] = "done" => vm[e] # "alive"
=============================================================================
