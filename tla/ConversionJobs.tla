--------------------------- MODULE ConversionJobs ---------------------------
(***************************************************************************)
(* How an uploaded root filesystem becomes one that a VM can boot.         *)
(*                                                                         *)
(* A row (an Image or a DefaultRootfsAsset) is created `ready' when the    *)
(* upload is an ext4 file, and `pending' when it has to be converted.      *)
(* Three workers, one task each, claim pending rows one at a time, work    *)
(* without a lock for minutes, and record the outcome by row id:           *)
(*   "convert"  tar archives of projects and of shared defaults,           *)
(*   "bundle"   Compose bundles,                                           *)
(*   "base"     docker-base images, built from nothing.                    *)
(* Meanwhile a project may be uploaded again (update_image), a row may be  *)
(* deleted with files it names, and the process may be stopped or lost.    *)
(*                                                                         *)
(* Every file has a fresh name, written <<row, version>>: `archives' are   *)
(* the uploaded sources on disk, `rootfs' the bootable files.  Version 0   *)
(* in a row stands for no source, or for a shared default as the path.     *)
(* Handlers hold SQLite's write lock from their first statement; those     *)
(* that need no more than the database and the disk are one action.        *)
(*                                                                         *)
(* A definition called Faulty... is the one after it with a plausible bug; *)
(* nothing uses it.  Replacing the definition by it must break a property. *)
(***************************************************************************)
EXTENDS Naturals, FiniteSets

CONSTANTS
  Rows,         \* the rows that may be created
  KindOf,       \* "os" and "compose" projects; "asset" and "base" defaults
  MaxRows,      \* bound: rows that are asked for
  MaxVersion,   \* bound: uploads per row
  MaxStops,     \* bound: how often the process ends
  Requests,     \* what clients do besides creating rows
  Faults,       \* what may go wrong
  NoRow

AllRequests == {"update", "overtake", "delete"}
AllFaults   == {"convert_fail", "reject", "db_busy", "crash", "shutdown"}
Kinds       == {"os", "compose", "asset", "base"}
Workers     == {"convert", "bundle", "base"}
Versions    == 0 .. MaxVersion

ASSUME RowsAssumption ==
  /\ KindOf \in [Rows -> Kinds] /\ NoRow \notin Rows
  /\ MaxVersion \in Nat \ {0} /\ MaxRows \in Nat /\ MaxStops \in Nat
  /\ Requests \subseteq AllRequests /\ Faults \subseteq AllFaults

VARIABLES
  conv,       \* the row's conversion status, "absent" before and "deleted" after it
  source,     \* rootfs_source_archive_path, source_archive_path
  path,       \* rootfs_path, file_path
  latest,     \* the last version uploaded for the row
  archives,   \* sources on disk
  rootfs,     \* bootable files on disk
  wk,         \* what each worker is at, and what it remembers of the row
  req,        \* the request that has changed files and is to commit the columns here
  up,         \* the orchestrator process is serving
  stops,      \* how often it ended
  overtaken,  \* history: rows updated or deleted while a worker had them
  torn        \* history: rows whose files were changed for a transaction that was lost

rowVars == <<conv, source, path, latest>>
vars == <<conv, source, path, latest, archives, rootfs, wk, req, up, stops, overtaken, torn>>

Unsettled == {"pending", "converting"}
Gone      == {"absent", "deleted"}
OnJob     == {"claimed", "convert", "built", "failed"}
Idle      == [at |-> "idle", row |-> NoRow, src |-> 0, dst |-> 0]
NoRequest == [row |-> NoRow, conv |-> "absent", source |-> 0, path |-> 0]

Busy(r) == \E w \in Workers : wk[w].row = r
Free    == up /\ req = NoRequest      \* the write lock is free

\* Nobody has asked for the row yet.
New(r) == conv[r] = "absent" /\ latest[r] = 0 /\ Cardinality({s \in Rows : latest[s] # 0}) < MaxRows

Init ==
  /\ conv   = [r \in Rows |-> "absent"]
  /\ source = [r \in Rows |-> 0]
  /\ path   = [r \in Rows |-> 0]
  /\ latest = [r \in Rows |-> 0]
  /\ archives = {} /\ rootfs = {}
  /\ wk  = [w \in Workers |-> Idle]
  /\ req = NoRequest
  /\ up  = TRUE /\ stops = 0
  /\ overtaken = {} /\ torn = {}

(***************************************************************************)
(* Uploads.                                                                *)
(***************************************************************************)

\* What a client may send for a row: a tar or bundle to convert, a bootable
\* file, or one of the shared defaults.
Forms(k) ==
  [os      |-> {"archive", "ext4", "default"},
   compose |-> {"archive"},
   asset   |-> {"archive", "ext4"},
   base    |-> {}][k]

\* The columns that version v of the row gets, by what was sent.
Columns(r, form, v) ==
  [row    |-> r,
   conv   |-> IF form = "archive" THEN "pending" ELSE "ready",
   source |-> IF form = "archive" THEN v ELSE 0,
   path   |-> IF form = "default" THEN 0 ELSE v]

SavedArchive(r, form, v) == IF form = "archive" THEN {<<r, v>>} ELSE {}
SavedRootfs(r, form, v)  == IF form = "ext4" THEN {<<r, v>>} ELSE {}

WriteRow(c) ==
  /\ conv'   = [conv EXCEPT ![c.row] = c.conv]
  /\ source' = [source EXCEPT ![c.row] = c.source]
  /\ path'   = [path EXCEPT ![c.row] = c.path]

\* upload_image, create_default_asset, where all goes well.
Upload(r, form) ==
  /\ Free /\ New(r) /\ form \in Forms(KindOf[r])
  /\ latest' = [latest EXCEPT ![r] = 1]
  /\ archives' = archives \cup SavedArchive(r, form, 1)
  /\ rootfs' = rootfs \cup SavedRootfs(r, form, 1)
  /\ WriteRow(Columns(r, form, 1))
  /\ UNCHANGED <<wk, req, up, stops, overtaken, torn>>

\* The upload fails once its file is stored, and there will be no row for it: a README
\* that is too long is refused and takes nothing else with it, or the insert is not
\* committed.  A default is stored before the write lock is asked for.  (A crash before
\* the insert leaves the same file: it is this step, and Crash.)
UploadFails(r, form) ==
  /\ up /\ New(r) /\ form \in Forms(KindOf[r]) \ {"default"}
  /\ IF KindOf[r] = "asset" THEN "db_busy" \in Faults ELSE Free /\ "reject" \in Faults
  /\ latest' = [latest EXCEPT ![r] = 1]
  /\ archives' = archives \cup SavedArchive(r, form, 1)
  /\ rootfs' = rootfs \cup SavedRootfs(r, form, 1)
  /\ torn' = torn \cup {r}
  /\ UNCHANGED <<conv, source, path, wk, req, up, stops, overtaken>>

\* build_docker_base_asset: nothing is uploaded, the worker builds it.
OrderBase(r) ==
  /\ Free /\ New(r) /\ KindOf[r] = "base"
  /\ latest' = [latest EXCEPT ![r] = 1]
  /\ WriteRow([row |-> r, conv |-> "pending", source |-> 0, path |-> 1])
  /\ UNCHANGED <<archives, rootfs, wk, req, up, stops, overtaken, torn>>

\* Faulty: removes only the old archive.
FaultyBeginUpdate(r, form) ==
  /\ "update" \in Requests /\ Free
  /\ KindOf[r] \in {"os", "compose"} /\ conv[r] \notin Gone
  /\ form \in Forms(KindOf[r]) /\ (form = "default" => path[r] # 0)
  /\ latest[r] < MaxVersion
  /\ "overtake" \in Requests \/ ~Busy(r)
  /\ LET v == latest[r] + 1 IN
       /\ latest' = [latest EXCEPT ![r] = v]
       /\ req' = Columns(r, form, v)
       /\ archives' = (archives \cup SavedArchive(r, form, v)) \ {<<r, source[r]>>}
       /\ rootfs' = rootfs \cup SavedRootfs(r, form, v)
  /\ overtaken' = IF Busy(r) THEN overtaken \cup {r} ELSE overtaken
  /\ UNCHANGED <<conv, source, path, wk, up, stops, torn>>

\* update_image with a new rootfs or bundle: the new file is stored, the columns
\* are set in memory, and the files the row named are removed, before any commit.
BeginUpdate(r, form) ==
  /\ "update" \in Requests /\ Free
  /\ KindOf[r] \in {"os", "compose"} /\ conv[r] \notin Gone
  /\ form \in Forms(KindOf[r]) /\ (form = "default" => path[r] # 0)
  /\ latest[r] < MaxVersion
  /\ "overtake" \in Requests \/ ~Busy(r)
  /\ LET v == latest[r] + 1 IN
       /\ latest' = [latest EXCEPT ![r] = v]
       /\ req' = Columns(r, form, v)
       /\ archives' = (archives \cup SavedArchive(r, form, v)) \ {<<r, source[r]>>}
       /\ rootfs' = (rootfs \cup SavedRootfs(r, form, v)) \ {<<r, path[r]>>}
  /\ overtaken' = IF Busy(r) THEN overtaken \cup {r} ELSE overtaken
  /\ UNCHANGED <<conv, source, path, wk, up, stops, torn>>

\* A row that is to go loses its rootfs before the commit.
BeginDelete(r) ==
  /\ "delete" \in Requests /\ Free /\ conv[r] \notin Gone
  /\ req' = [NoRequest EXCEPT !.row = r, !.conv = "deleted"]
  /\ rootfs' = rootfs \ {<<r, path[r]>>}
  /\ overtaken' = IF Busy(r) THEN overtaken \cup {r} ELSE overtaken
  /\ UNCHANGED <<rowVars, wk, up, stops, torn>>

\* delete_default_asset removes both files of a default.
DeleteAsset(r) ==
  /\ KindOf[r] \in {"asset", "base"}
  /\ archives' = archives \ {<<r, source[r]>>}
  /\ BeginDelete(r)

\* delete_user, for each project the user owns: the rootfs only.
DeleteProject(r) ==
  /\ KindOf[r] \in {"os", "compose"}
  /\ BeginDelete(r)
  /\ UNCHANGED archives

Commit ==
  /\ req # NoRequest
  /\ WriteRow(req)
  /\ req' = NoRequest
  /\ UNCHANGED <<latest, archives, rootfs, wk, up, stops, overtaken, torn>>

\* The request fails after it changed files: update_image refuses a form field or the
\* README, delete_user meets a collaborator who came meanwhile or goes no further with
\* another project, any commit may fail.  The session is rolled back, the files are not.
Rollback ==
  /\ "reject" \in Faults /\ req # NoRequest
  /\ torn' = torn \cup {req.row}
  /\ req' = NoRequest
  /\ UNCHANGED <<rowVars, archives, rootfs, wk, up, stops, overtaken>>

(***************************************************************************)
(* The workers.                                                            *)
(***************************************************************************)

\* Faulty: the defaults are left to another worker.
FaultyServes(w) ==
  [convert |-> {"os"}, bundle |-> {"compose"}, base |-> {"base"}][w]

Serves(w) ==
  [convert |-> {"os", "asset"}, bundle |-> {"compose"}, base |-> {"base"}][w]

\* Claim a pending row and commit; defaults come before projects.  The bundle
\* worker keeps the id only.
Claim(w, r) ==
  /\ Free /\ wk[w] = Idle
  /\ conv[r] = "pending" /\ KindOf[r] \in Serves(w)
  /\ KindOf[r] = "os" => \A a \in Rows : KindOf[a] = "asset" => conv[a] # "pending"
  /\ conv' = [conv EXCEPT ![r] = "converting"]
  /\ wk' = [wk EXCEPT ![w] =
              IF w = "bundle" THEN [Idle EXCEPT !.at = "claimed", !.row = r]
              ELSE [at |-> "convert", row |-> r, src |-> source[r], dst |-> path[r]]]
  /\ UNCHANGED <<source, path, latest, archives, rootfs, req, up, stops, overtaken, torn>>

\* Faulty: reads the row and forgets that it may be gone.
FaultyReadBundle ==
  LET r == wk["bundle"].row IN
  /\ Free /\ wk["bundle"].at = "claimed"
  /\ wk' = [wk EXCEPT !["bundle"] =
              [at |-> "convert", row |-> r, src |-> source[r], dst |-> path[r]]]
  /\ UNCHANGED <<rowVars, archives, rootfs, req, up, stops, overtaken, torn>>

\* The bundle worker reads the row in a session of its own; a deleted row ends the job.
ReadBundle ==
  LET r == wk["bundle"].row IN
  /\ Free /\ wk["bundle"].at = "claimed"
  /\ wk' = [wk EXCEPT !["bundle"] =
              IF conv[r] = "deleted" THEN Idle
              ELSE [at |-> "convert", row |-> r, src |-> source[r], dst |-> path[r]]]
  /\ UNCHANGED <<rowVars, archives, rootfs, req, up, stops, overtaken, torn>>

HasSource(w) == w = "base" \/ <<wk[w].row, wk[w].src>> \in archives

\* The converted file is moved to its place in one step (os.replace).
Convert(w) ==
  /\ wk[w].at = "convert" /\ HasSource(w)
  /\ rootfs' = rootfs \cup {<<wk[w].row, wk[w].dst>>}
  /\ wk' = [wk EXCEPT ![w].at = "built"]
  /\ UNCHANGED <<rowVars, archives, req, up, stops, overtaken, torn>>

\* The conversion fails, or finds no source.  The bundle worker removes what may
\* be in its place; the tar conversion does so if it got as far as a result.
ConvertFails(w) ==
  LET dst == {<<wk[w].row, wk[w].dst>>} IN
  /\ wk[w].at = "convert"
  /\ "convert_fail" \in Faults \/ ~HasSource(w)
  /\ \/ w = "bundle" /\ rootfs' = rootfs \ dst
     \/ w = "convert" /\ HasSource(w) /\ rootfs' = rootfs \ dst
     \/ w # "bundle" /\ UNCHANGED rootfs
  /\ wk' = [wk EXCEPT ![w].at = "failed"]
  /\ UNCHANGED <<rowVars, archives, req, up, stops, overtaken, torn>>

\* Faulty: does not notice that the row is gone.
FaultyFinish(w) ==
  LET r == wk[w].row
      built == wk[w].at = "built" IN
  /\ Free /\ wk[w].at \in {"built", "failed"}
  /\ conv' = [conv EXCEPT ![r] = IF built THEN "ready" ELSE "failed"]
  /\ source' = [source EXCEPT ![r] = 0]
  /\ path' = IF w = "bundle" /\ built THEN [path EXCEPT ![r] = wk[w].dst] ELSE path
  /\ wk' = [wk EXCEPT ![w].at = "cleanup",
                      ![w].src = IF w = "bundle" THEN source[r] ELSE @]
  /\ UNCHANGED <<latest, archives, rootfs, req, up, stops, overtaken, torn>>

\* The outcome is recorded by row id, whatever the row has become meanwhile: the
\* source is forgotten, and a bundle's file becomes the row's rootfs.
Finish(w) ==
  LET r == wk[w].row
      built == wk[w].at = "built" IN
  /\ Free /\ wk[w].at \in {"built", "failed"} /\ conv[r] # "deleted"
  /\ conv' = [conv EXCEPT ![r] = IF built THEN "ready" ELSE "failed"]
  /\ source' = [source EXCEPT ![r] = 0]
  /\ path' = IF w = "bundle" /\ built THEN [path EXCEPT ![r] = wk[w].dst] ELSE path
  /\ wk' = [wk EXCEPT ![w].at = "cleanup",
                      ![w].src = IF w = "bundle" THEN source[r] ELSE @]
  /\ UNCHANGED <<latest, archives, rootfs, req, up, stops, overtaken, torn>>

\* The row is gone: nothing to record, and nothing to remove for the bundle worker.
FinishDeleted(w) ==
  /\ Free /\ wk[w].at \in {"built", "failed"} /\ conv[wk[w].row] = "deleted"
  /\ wk' = [wk EXCEPT ![w] = IF w = "convert" THEN [@ EXCEPT !.at = "cleanup"] ELSE Idle]
  /\ UNCHANGED <<rowVars, archives, rootfs, req, up, stops, overtaken, torn>>

\* Faulty: tries to record the same outcome once more.
FaultyWriteTimesOut(w) ==
  /\ "db_busy" \in Faults
  /\ wk[w].at = "built"
  /\ rootfs' = IF w = "bundle" THEN rootfs \ {<<wk[w].row, wk[w].dst>>} ELSE rootfs
  /\ UNCHANGED <<rowVars, archives, wk, req, up, stops, overtaken, torn>>

\* A session waits longer than busy_timeout for the write lock, which the stop
\* of an environment may hold as well.  To record a success then counts as a
\* failure; to record a failure, or to read the bundle's row, ends the job.
WriteTimesOut(w) ==
  /\ "db_busy" \in Faults
  /\ \/ /\ wk[w].at = "built"
        /\ rootfs' = IF w = "bundle" THEN rootfs \ {<<wk[w].row, wk[w].dst>>} ELSE rootfs
        /\ wk' = [wk EXCEPT ![w].at = "failed"]
     \/ /\ wk[w].at \in {"claimed", "failed"}
        /\ wk' = [wk EXCEPT ![w] = IF w = "convert" THEN [@ EXCEPT !.at = "cleanup"] ELSE Idle]
        /\ UNCHANGED rootfs
  /\ UNCHANGED <<rowVars, archives, req, up, stops, overtaken, torn>>

\* The source is removed: the one that was converted, or for a bundle the one
\* that the row named at the end.
Cleanup(w) ==
  /\ wk[w].at = "cleanup"
  /\ archives' = archives \ {<<wk[w].row, wk[w].src>>}
  /\ wk' = [wk EXCEPT ![w] = Idle]
  /\ UNCHANGED <<rowVars, rootfs, req, up, stops, overtaken, torn>>

(***************************************************************************)
(* The orchestrator process.                                               *)
(***************************************************************************)

\* The process ends with its tasks; files outlive the clean-up due to them.
Stop ==
  /\ up /\ stops < MaxStops
  /\ up' = FALSE /\ stops' = stops + 1
  /\ wk' = [w \in Workers |-> Idle]
  /\ torn' = torn \cup ({wk[w].row : w \in {v \in Workers : wk[v].at = "cleanup"}}
                         \cup ({req.row} \ {NoRow}))
  /\ UNCHANGED <<rowVars, rootfs, overtaken>>

Crash ==
  /\ "crash" \in Faults
  /\ Stop
  /\ req' = NoRequest
  /\ UNCHANGED archives

\* Faulty: every worker removes its source when it is cancelled.
FaultyShutdown ==
  /\ "shutdown" \in Faults /\ req = NoRequest
  /\ Stop
  /\ archives' = archives \ {<<wk[w].row, wk[w].src>> : w \in Workers}
  /\ UNCHANGED req

\* An orderly end waits for requests and cancels the workers.  Whatever the tar
\* worker is doing, its `finally' removes the source.
Shutdown ==
  /\ "shutdown" \in Faults /\ req = NoRequest
  /\ Stop
  /\ archives' = archives \ {<<wk["convert"].row, wk["convert"].src>>}
  /\ UNCHANGED req

\* Faulty: forgets the shared defaults.
FaultyRestart ==
  /\ ~up /\ up' = TRUE
  /\ conv' = [r \in Rows |-> IF conv[r] = "converting" /\ KindOf[r] \in {"os", "compose"}
                             THEN "pending" ELSE conv[r]]
  /\ UNCHANGED <<source, path, latest, archives, rootfs, wk, req, stops, overtaken, torn>>

\* reset_stuck_conversions, before the workers start.
Restart ==
  /\ ~up /\ up' = TRUE
  /\ conv' = [r \in Rows |-> IF conv[r] = "converting" THEN "pending" ELSE conv[r]]
  /\ UNCHANGED <<source, path, latest, archives, rootfs, wk, req, stops, overtaken, torn>>

(***************************************************************************)
(* The specification.                                                      *)
(***************************************************************************)

Request ==
  \/ \E r \in Rows : \E form \in Forms(KindOf[r]) :
       Upload(r, form) \/ UploadFails(r, form) \/ BeginUpdate(r, form)
  \/ \E r \in Rows : OrderBase(r) \/ DeleteAsset(r) \/ DeleteProject(r)
  \/ Commit \/ Rollback

Work(w) ==
  \/ \E r \in Rows : Claim(w, r)
  \/ w = "bundle" /\ ReadBundle
  \/ Convert(w) \/ ConvertFails(w) \/ Finish(w) \/ FinishDeleted(w) \/ WriteTimesOut(w)
  \/ Cleanup(w)

Next == Request \/ (\E w \in Workers : Work(w)) \/ Crash \/ Shutdown \/ Restart

Spec == Init /\ [][Next]_vars

\* The tasks go on while they can (a conversion has a hard timeout of its own),
\* a request that holds the lock ends, and the process is started again.
Fairness ==
  /\ \A w \in Workers : WF_vars(Work(w))
  /\ WF_vars(Commit \/ Rollback)
  /\ WF_vars(Restart)

FairSpec == Spec /\ Fairness

(***************************************************************************)
(* The queue the rows stand for.                                           *)
(***************************************************************************)
\* What the queue calls a conversion status.
NameOf == [absent |-> "none", pending |-> "waiting", converting |-> "taken",
           ready |-> "ready", failed |-> "failed", deleted |-> "gone"]

Queue == INSTANCE JobQueue WITH
  state <- [r \in Rows |-> NameOf[conv[r]]],
  job   <- [w \in Workers |-> IF wk[w].at \in OnJob THEN wk[w].row ELSE NoRow]

\* The workers implement the job queue, through failures, lock timeouts, deletions and
\* ends of the process at any point of a job (where no update meets a running job).
ImplementsQueue == Queue!QueueSpec

(***************************************************************************)
(* Properties.                                                             *)
(***************************************************************************)

Named == Rows \X (Versions \ {0})

\* Every variable keeps its type; a worker without a job remembers no row, and one
\* that converts knows where to put the result.
TypeOK ==
  /\ conv \in [Rows -> Unsettled \cup Gone \cup {"ready", "failed"}]
  /\ source \in [Rows -> Versions] /\ path \in [Rows -> Versions]
  /\ latest \in [Rows -> Versions]
  /\ archives \in SUBSET Named /\ rootfs \in SUBSET Named
  /\ wk \in [Workers -> {Idle} \cup
       [at: {"claimed"}, row: Rows, src: {0}, dst: {0}] \cup
       [at: {"convert", "built", "failed", "cleanup"}, row: Rows,
        src: Versions, dst: 1 .. MaxVersion]]
  /\ req \in {NoRequest} \cup
       [row: Rows, conv: {"ready", "pending", "deleted"}, source: Versions, path: Versions]
  /\ up \in BOOLEAN /\ stops \in 0 .. MaxStops
  /\ overtaken \in SUBSET Rows /\ torn \in SUBSET Rows

\* Rows without one of the exceptions named below, and not being updated or deleted now.
Settled == Rows \ (overtaken \cup torn \cup {req.row})

\* What a start boots is there: a ready row names a shared default or a file on
\* disk.  Excepted are rows updated or deleted while a worker had them, and rows whose
\* update or deletion was rolled back or lost after it had removed their files.
ReadyIsBuilt ==
  \A r \in Settled : conv[r] = "ready" => path[r] = 0 \/ <<r, path[r]>> \in rootfs

\* A bundle that is waiting or being built keeps its source through failures,
\* lock timeouts, crashes and orderly ends, so it can be built again.
BundleKeepsSource ==
  \A r \in Settled :
    KindOf[r] = "compose" /\ conv[r] \in Unsettled => <<r, source[r]>> \in archives

\* Nothing is left behind: with no worker on a row, every file of it on disk is one the
\* row names.  The exceptions are the same, uploads that failed once their file was
\* stored, and the sources of deleted projects.
NoStrayFiles ==
  \A r \in Settled :
    ~Busy(r) =>
      /\ \A v \in Versions : <<r, v>> \in rootfs => path[r] = v
      /\ \A v \in Versions : <<r, v>> \in archives =>
           source[r] = v \/ (conv[r] = "deleted" /\ KindOf[r] \in {"os", "compose"})

\* `converting' means that a worker is on the row.
ConvertingHasWorker == \A r \in Rows : up /\ conv[r] = "converting" => Busy(r)

\* Every upload that has to be converted ends ready or failed, or is deleted.
UploadsSettle == \A r \in Rows : conv[r] \in Unsettled ~> conv[r] \notin Unsettled

\* A start is refused until the row's rootfs has been converted; a start reads the
\* row under the write lock.
StartBlockedUntilBuilt ==
  \A r \in Rows : Free /\ conv[r] = "ready" => path[r] = 0 \/ <<r, path[r]>> \in rootfs
=============================================================================
