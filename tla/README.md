# Hack-Bento in TLA+

Hack-Bento is an orchestrator for hands-on security exercises. Users start
*environments*: Firecracker microVMs that run a project's image on an address of
one bridge. One Python process (FastAPI, asyncio, one SQLite file) serves the
requests, runs the background tasks and drives the host with `ip`, `nft`, `lsof`
and the Firecracker API; a second container, the docker-base-builder, makes images
with Docker for it. This directory specifies the part of it whose errors a
test hardly reaches: many handlers and tasks that interleave at every `await`,
share rows and one write lock, hold host resources the table only describes, and
may be lost halfway.

Paths below are relative to `src/orchestrator/`; `server.py` is
`src/docker/docker-base-builder/server.py`, and `README.md:184` the repository's own README.

## Modules

| Module | Stands for |
| --- | --- |
| `IpLease` | What the lifecycle promises about addresses (abstract). |
| `JobQueue` | What the conversion workers promise about rows (abstract). |
| `EnvLifecycle` | An environment row from its start request to its stop, with every actor that writes it. |
| `VmLauncher` | What one microVM needs on the host, got and given back step by step; build VMs and their one place. |
| `ConversionJobs` | Uploaded root filesystems on their way to bootable ones: uploads, three workers, their files. |
| `DockerBuilder` | The builder service: its records, tasks, queue, containers and tars. |
| `AssetPreparation` | The tasks that prepare kernel, default images and attack machine, as clients of `DockerBuilder`, which it extends. |
| `WriteLock` | SQLite's write lock and `_ip_lock`, and the order in which each kind of request takes them. |
| `Accounts` | Users, projects, collaborators, and the deletion of a user beside everybody else's requests. |
| `IpLeaseProofs`, `EnvLifecycleProofs`, `JobQueueProofs`, `ConversionJobsProofs`, `VmLauncherProofs`, `AssetPreparationProofs`, `WriteLockProofs`, `AccountsProofs` | Inductive invariants and theorems about the modules they are named for (TLAPS). |
| `MCEnvLifecycle`, `MCConversionJobs`, `MCAssetPreparation`, `MCWriteLock`, `MCAccounts` | The small instances that TLC checks, one `.cfg` for each question; `VmLauncher` needs no definitions and is run by `MCVmLauncher.cfg` directly. |

Between `EnvLifecycle`, `VmLauncher` and `ConversionJobs` the interface is an
outcome: `BootVm` or `BootFails` for what `VmLauncher` tells in full, `Convert` or
`ConvertFails` for a build VM or a job of the builder. `Accounts` retells a
start in three steps, for what matters to it is between which of them a deletion falls.

`PROJECT.json` lists the components, the runs, the source lines of every
definition, the findings, the hazards and the theorems.

## Inventory

### Environment lifecycle — modelled (`EnvLifecycle`)

* **State.** The `environments` table (`models.py:203-217`): status
  (`starting`, `running`, `stopping`, `stopped`), address, `vm_id`, `started_at`,
  `expires_at`, `extended_count`; `images.is_active`; the host's microVMs and taps.
* **Operations.** `start_env`, `extend_env`, `stop_env` (`routers/envs.py`), the
  same three for the personal attack machine (`routers/attack_machine.py`),
  `force_stop_env` (`routers/admin.py`), `update_image` and `delete_image`, which
  stop an image's environments (`routers/images.py`), the watchdog's three loops
  (`services/watchdog.py`), `allocate_ip` (`services/network.py`), and
  `cleanup_orphaned_vms` when the process starts (`services/smolvm.py`,
  `main.py`).
* **Interaction.** All share the table through write sessions that take SQLite's
  write lock at their first statement (`database.py:38-53`). A start commits
  three times and holds no lock while the VM boots; a stop holds it from the claim
  to the commit, with `stop_vm` in between.
* **Hard.** Stops that land between the commits of a start; rows read before a
  boot and written after it; ids the watchdog read a while ago; a lock held longer
  than others wait; `stop_vm` that fails halfway; a process lost with VMs running.
* **Correct when** live rows have addresses of their own, limits hold, no live VM
  is out of the table's reach, a stopped row stays stopped, a deleted image runs
  nothing, and expired, crashed and abandoned rows are eventually stopped.

### VM launcher and network — modelled (`VmLauncher`; `EnvLifecycle` sees success or failure)

* **State.** Firecracker processes, sockets, tap devices, nft tables, cgroups,
  copies of root filesystems, `_fc_pids` (`services/smolvm.py`,
  `services/network.py`).
* **Operations.** `start_vm`, `stop_vm`, `vm_is_alive`, `create_tap`, `delete_tap`,
  `cleanup_orphaned_vms`.
* **Hard.** Each acquires several resources and may fail, time out or be cancelled
  between two; the error path must give back exactly what was acquired.
  `create_tap`'s own clean-up runs a command that may raise (`network.py:303`).
* **Correct when** a failed start leaves no resource, a stop leaves none or
  reports it, and nothing belongs to two VMs.

### Conversion workers — modelled (`ConversionJobs`)

* **State.** `images.rootfs_conversion_status`, its source and `rootfs_path`, the
  files they name; one task each in `services/rootfs_convert.py`,
  `services/bundle_build.py`, `services/docker_base_assets.py`.
* **Operations.** Claim the oldest pending row, convert, record the outcome;
  re-upload through `update_image`; delete rows and files (`routers/admin.py`); put
  claimed rows back after a restart; refuse a start while a conversion is pending,
  running or failed (`routers/envs.py:101-110`).
* **Hard.** A re-upload while the old source converts: the outcome is recorded by
  row id alone. Files are deleted before the transaction that stops naming them
  commits. A shutdown cancels a conversion, whose `finally` deletes the source of
  a row that will be queued again.
* **Correct when** a `ready` row names a file that exists, no source is removed while
  it is needed, no file outlives the row that names it, and every pending row ends
  `ready` or `failed`.

### Build VMs — modelled (`VmLauncher`)

* **State.** `image_build.py`: a semaphore of one, work directories, a cgroup and a
  guest without a network.
* **Hard.** Failure, the hard timeout or a cancellation at any point between taking the
  semaphore and giving it back; the copy is made before the `try`.
* **Correct when** at most one build guest runs, everything is given back on every
  exit, and every build gets its turn.

### Builder service and its client — modelled (`DockerBuilder`, `AssetPreparation`)

* **State.** `server.py`: a dictionary of records, one task for each job, a semaphore
  of one, containers in dockerd, work directories, tars in a shared directory. The client
  (`run_builder_job`, `services/rootfs_tar.py:34-67`) keeps nothing but the job's id.
* **Operations.** `POST /build` and `/export-tar`, `GET`, `DELETE`; the tasks; the
  clean-up when the service starts.
* **Hard.** The client gives up while the job goes on; an answer is lost; the service
  restarts and forgets; a command that is given up is not killed.
* **Correct when** a job whose client is gone ends and leaves nothing, one container
  runs at a time, and every record has somebody who deletes it.

### Preparation of assets at start-up — modelled (`AssetPreparation`)

* **State.** The kernel, the converter's base, the default root filesystem, the
  docker-base image and the attack machine on disk; what the database offers; `attack_rootfs_build_status`.
* **Operations.** `ensure_default_vm_assets` (`services/default_assets.py`),
  `ensure_attack_machine_assets`, the docker-base worker's job, the kernel's
  download (`services/firecracker_setup.py`), `convert_tar_to_ext4`.
* **Hard.** The three tasks run beside each other and each other's files are their
  tools: two download the kernel through one temporary file, conversions need the
  base that another task makes, and a result is moved into place before it is
  known to be good.
* **Correct when** what is offered is whole, what is there is offered, and every task ends.

### Write sessions and `_ip_lock` — modelled (`WriteLock`; what is written under them in `EnvLifecycle`)

* **State.** SQLite's write lock, its 10 s busy timeout, the in-process `_ip_lock`.
* **Hard.** `start_env` takes the write lock and then `_ip_lock`; `extend_env`
  takes them the other way round (`routers/envs.py:234`). Only the busy timeout
  ends that wait.
* **Correct when** no handler waits for ever, none keeps a lock on its way out, and a
  start and an extension that meet both get an answer.

### Users, projects and collaborators — partly (`Accounts`)

* **State.** `users` (role, `is_active`), `images` (owner), `image_collaborators`,
  and the environments that hang on them.
* **Operations.** `update_user`, `delete_user` (`routers/admin.py`),
  `add_collaborator`, `remove_collaborator` (`routers/users.py`), uploads, starts and
  stops as far as they make and end rows; the check of who asks (`deps.py`).
* **Hard.** `delete_user` commits between its claims, swallows what fails in one of its
  loops, and works with lists it has read before; requests act for users and
  rights that are gone when the lock is theirs.
* **Correct when** what a deletion listed is stopped before its row goes, no row leads
  nowhere, a removed user leaves nothing, and somebody can always administer.

### Not modelled, and staying so

* Log-ins against LDAP, OAuth and local hashes, and the encoding of tokens: library
  calls without shared state. What a request is allowed is read from the user's row
  (`deps.py`), which `Accounts` has.
* User names and their choice, passwords, `create_user`, text fields, readme and icon of a
  project, and public and protected projects: single writes that race with nothing
  another request reads, or would only widen who may start what.
* The Guacamole proxy: token encryption and byte forwarding.
* The scripts that run in build containers and guests, and what they install: text here.
* Configuration, migrations, pages, `setup.sh`, `bento-pack`, packaging.

## `EnvLifecycle`

### State

| Variable | In the code |
| --- | --- |
| `status`, `ip`, `hasVm`, `extended` | The committed columns `status`, `ip_address`, `vm_id IS NOT NULL`, `extended_count`. |
| `expired`, `age` | `expires_at < now`; how far `started_at` lies back, in the classes the watchdog tells apart: under 20 s, under 5 min, older. |
| `retired` | `Image.is_active = False`. |
| `pc[e]` | The await a start handler is at: `launching` in `start_vm`, `booted` before the commit of `vm_id`, `recorded` before the commit of `running`, `failing` and `cleanup` in the error paths, `done`, or `lost` when the handler vanished halfway. |
| `vm[e]` | The host's side: no process and no tap; a live guest; or `dead`, the process gone and the tap still there. |
| `lock`, `cur`, `dirty` | Who holds the write lock, the row it has claimed and is destroying, and the statuses it has flushed and not committed. |
| `target`, `reqTodo` | The image and the remaining row ids of an `update_image` or `delete_image` request. |
| `wdPhase`, `wdTodo` | The watchdog's loop and the ids that loop has read and not handled. |
| `up` | The orchestrator is serving. |
| `early` | A history variable: rows stopped while their start was in flight. No guard reads it. |

### Actions

| Actions | In the code |
| --- | --- |
| `Reserve` | From the image check to the commit of the `starting` row: image, limits, address (`FirstFree`), insert. One transaction. |
| `BootVm`, `BootFails`, `AbortStart` | `start_vm` returns or raises; `destroy_env` on a row without `vm_id`, commit. |
| `RecordVm`, `GoRunning` | The two commits after the boot. |
| `WriteTimesOut`, `CleanupVm` | `database is locked` in one of those commits, and what the handler does then: `start_env` stops the VM, `start_attack_machine` lets the exception through. |
| `Extend` | `extend_env` and `extend_attack_machine`. |
| `StopEnv`, `ForceStop` | Guard and `claim_env_for_stop` of the single-row stops. |
| `BeginImageRequest`, `ClaimForImage`, `CommitImage`, `RejectUpdate` | `update_image` and `delete_image`: one transaction over all stoppable rows, which `update_image` may still drop. |
| `DestroyEnv`, `DestroyFails`, `CommitStop` | `destroy_env` under the lock, its failure, the commit. |
| `WdExpired`, `WdStuck`, `WdCrashed`, `WdClaim`, `WdPassOver`, `WdMiss`, `WdSleep`, `WdTimesOut` | A round of `run_watchdog`: the select of each loop, then each id; a claim that fails costs that id, a select that fails costs the round. |
| `Crash`, `Restart` | The process is lost with its tasks and open transaction; the next start runs `cleanup_orphaned_vms` before anything else. |
| `VmDies`, `Expire`, `Age` | The guest ends by itself; time passes. |

Two details of the code carry much of the model:

* **The identity map.** Before it writes `running`, a start handler selects its
  row again to see whether it was stopped meanwhile. The session already holds the
  object, commits do not expire it (`expire_on_commit=False`, `database.py:10`), and the
  select does not ask to refresh it, so the handler tests the status it wrote
  itself. `GoRunning` therefore has no guard on `status`.
* **Claims are flushed, not committed.** `stopping` is visible to others only if
  somebody commits it halfway, which `update_image` and `delete_image` do when
  `destroy_env` raises. `dirty` keeps the two apart.

### Abstractions

* A request creates one row, and an identifier in `Envs` is that request. A user
  starts again with another identifier. Rows are never deleted here (see `Accounts`).
* A write transaction that awaits nothing but the database is one action. Those that
  wait for something else (a stop waiting for `stop_vm`, an image request waiting
  for stops and downloads) hold `lock` over several actions. `_ip_lock` is always
  taken inside or around such a transaction and adds no exclusion to it; its
  effect on waiting is the subject of `WriteLock`. The host commands
  of `allocate_ip` are taken to answer within the busy timeout.
* A lock timeout is possible only while somebody holds the lock for long
  (`LongHold`): a stop or an image request. Uploads and downloads hold it over awaits
  too and are among the writers of `WriteLock`, not here. Stop requests and extensions that time out change nothing and need no
  action.
* The neighbour table that `allocate_ip` also consults is a nondeterministic set:
  it may miss a live guest and may remember one that is gone. Without a tap on the
  bridge it is not consulted.
* The order in which the watchdog handles the ids of a batch is left open.
* `extended` is capped at the number of addresses, which is the code's own limit
  (`max_extend = len(_ip_pool())`); only an administrator passes it, and nothing
  reads the value beyond.
* The image whose environments an update stops is always `web` or `kali`; a name
  change without new files stops nothing and is not an action.

### Properties

Exact statements are in the module, each under a comment.

* `UniqueIpUnlessEarly`, `UniqueIp`: two live rows never share an address — always
  when no start is stopped in flight, and otherwise except for such rows.
* `OneGuestPerIp`: the same of live guests, which a stop must have removed before
  its row releases the address.
* `QuotasUnlessEarly`: both limits, per user and in total. The total counts
  administrators' rows but refuses only others.
* `LiveVmIsReachable`: a live VM is named by a live row or is still in the hands of
  its start handler, unless that handler vanished.
* `DeletedImageIsQuiet`: no start slips in between the rows `delete_image` reads and
  the image it retires.
* `StoppingRowIsDead`: a row left `stopping` has a `vm_id`, and its guest is gone, whenever it was stopped.
* `OneAttackMachinePerUser`: for users who are no administrators. One who is may start
  the attack image through the project endpoint as well, which does not look for
  the other machine (`routers/envs.py:97`).
* `ImplementsLeases`: the rows implement `IpLease`, which grants an address free, within
  the limits and once, and never gives back what was released.
* `StoppedIsFinal`: a stopped row stays stopped. `ImplementsLeases` says so too; by itself it is what
  the run `revived` refutes where early stops are possible.
* Under fairness: `RunningRowEnds` (a running row that has expired, or whose guest is
  dead, is stopped) and `AbandonedRowEnds` (so is a `starting` row whose handler ended).

A definition named `Faulty...` is a plausible bug in the definition after it. It
is used nowhere; put in that definition's place it must break the property
`PROJECT.json` pairs it with, which shows that the property can fail.

## `ConversionJobs`

### State

| Variable | In the code |
| --- | --- |
| `conv`, `source`, `path` | `rootfs_conversion_status`, `rootfs_source_archive_path`, `rootfs_path` of an image; `conversion_status`, `source_archive_path`, `file_path` of a shared default. |
| `latest` | How often the row was uploaded: the version its newest files carry. |
| `archives`, `rootfs` | The files on disk: uploaded tars and bundles; ext4 files. |
| `wk[w]` | The await worker `w` is at, with the locals that outlive it: the row's id, the source and destination it read. `claimed` is the bundle worker between its claim and its read. |
| `req` | The columns that `update_image` has set in memory and not committed, or the deletion (`"deleted"`) of a row whose files are removed already. The request holds the write lock meanwhile. |
| `up`, `stops` | The process serves; how often it ended. |
| `overtaken`, `torn` | History variables, read by no guard: rows updated or deleted while a worker had them; rows whose files were changed for a transaction that was then rolled back or lost, or by an end of the process before a clean-up. |

### Actions

| Actions | In the code |
| --- | --- |
| `Upload`, `OrderBase` | `upload_image` and `create_default_asset` when all goes well; `build_docker_base_asset`. |
| `UploadFails` | The same two, once the rootfs or bundle is stored: the README is too long (413, which removes the README alone), or the insert is not committed. The file stays and there is no row. |
| `BeginUpdate` | `update_image` with a new rootfs or bundle: store the new file, set the columns, remove the old files. |
| `DeleteAsset`, `DeleteProject` | `delete_default_asset`; the images of a user that `delete_user` removes: the files go (`BeginDelete`), the row has yet to. |
| `Commit`, `Rollback` | The end of either: the columns are written, or the row is removed; or the request fails after it changed files, and only what the database knows is taken back. |
| `Claim`, `ReadBundle` | The workers' `_claim_pending`; the bundle worker reads the paths in a second session. |
| `Convert`, `ConvertFails` | `convert_tar_to_ext4`, the build in `_process_one`, `build_docker_base_rootfs_at`. |
| `Finish`, `FinishDeleted`, `WriteTimesOut`, `Cleanup` | The workers' `_finish`, when the row is there, is gone, or the database is locked; the removal of the source. |
| `Crash`, `Shutdown`, `Restart` | The process is lost; `lifespan` cancels the tasks, so `_convert_one` runs its `finally`; `reset_stuck_conversions`. |

The three workers share the actions; what differs is in them: the tar worker removes
the source it claimed, always (`finally`); the bundle worker the source the row
names when it finishes, in `_finish` alone; the docker-base worker has none.

### Abstractions

* A file is `<<row, version>>`, since every name is a fresh UUID: the destination
  of an upload has the version of its source. Version 0 as a path is a shared
  default, which is always on disk and which `_safe_remove` spares; a default
  that projects refer to cannot be deleted.
* An upload that goes well is one action, since nobody reads a file before a row names it. One
  that fails, or that a crash interrupts (`UploadFails`, then `Crash`), has stored its file.
* Files are removed before the commit that makes it right, in an update and in both deletions;
  `Commit` and `Rollback` come after, or the process is lost in between. `Rollback` stands for
  whatever fails there: a refused form field, a README, a collaborator who was added while
  `delete_user` waited for a VM (`Accounts` tells how), another project of the same user, a
  commit that does not succeed. The projects of one user are
  removed one after the other here, each with its own `Commit` or `Rollback`; in the code two may share one
  transaction, which the same two outcomes one after the other stand for.
* The build VM and the builder service succeed or fail; so do the checks of a
  bundle. `build_phase` is only shown. A conversion that ends between the move of
  its result and its last check is `ConvertFails`.
* Lock timeouts may happen at any moment (`db_busy`): stops, uploads and downloads
  hold the lock longer than `busy_timeout`, and most of them belong to other
  modules. A claim that times out is retried and needs no action.
* `delete_image` leaves files and columns alone and is not an action here.
* `MaxRows` bounds the rows that are asked for, `MaxVersion` the uploads per row, `MaxStops` the ends of the process.
  `Requests` and `Faults` choose what a run includes; `overtake` allows an update
  while a worker has the row.

### Properties

* `ReadyIsBuilt`: the file of a ready row is on disk.
* `BundleKeepsSource`: a bundle that waits or is being built has its source.
* `NoStrayFiles`: files without a worker are named by their row.
* `ConvertingHasWorker`; under fairness `UploadsSettle`.
* `ImplementsQueue`: the rows and workers implement `JobQueue`. A worker takes a row that waits and
  no other has; only it settles the row; the end of the process settles nothing and what was taken waits
  again; what is removed stays removed. Code comments claim as much for the claim
  (`services/rootfs_convert.py:36-41`). A job whose record times out is abandoned, the row stays
  taken; one whose row was removed is abandoned too. An update that meets a running job breaks it.

The first three set aside the rows in `overtaken` and `torn` and the row of the
current `req`: re-uploads and deletions that meet a running job, and transactions that are lost
after files were stored or removed, do break them: such a row names a file that is gone, or such
a file stays that no row names. They show that nothing else does. `NoStrayFiles` also sets aside the uploaded source of a
deleted project: `delete_user` removes `archive_path`, an old column, and not
`rootfs_source_archive_path` (`routers/admin.py:220-225`). `StartBlockedUntilBuilt` is
such a concern without exceptions, as the repository states it; the run `unbuilt` refutes it.

## `VmLauncher`

### State

`vm[v]` is a record for each VM of an environment or a build:

| Field | In the code |
| --- | --- |
| `pc` | The step the coroutine in charge is about to take. The steps of `_start_firecracker` and `create_tap` are `copy`, `inject`, `recopy`, `tap`, `plug`, `guard`, `cgroup`, `exec`, `boot`; `tapUndoRules`, `tapUndoLink` are `create_tap`'s `except`, `undo` and what follows the `except` of the start; `halt`, `free`, `stopRules`, `stopLink` are `_stop_firecracker`; `queued`, `guest`, `reap` are `run_build_vm`. `orphan`, `tidied` are VMs a sweep has before it; `failed`, `stopped`, `ended`, `unprepared`, `lost`, `swept` are ends. |
| `disk` | The VM's copy: `partial` (its `.tmp`), `whole`, `torn` by a `debugfs` that was killed, or none. For a build, its work directory. |
| `held` | The tap, its nft table, the cgroup, the API socket, the log. |
| `proc` | The Firecracker process; `dying` after a SIGKILL nobody waited for. |
| `late` | Network commands whose caller stopped waiting (`asyncio.wait_for` in `network._run` does not kill them). |
| `named` | A live row holds the `vm_id`. |
| `slow`, `refused` | History variables: a network command of the start timed out and could not be undone for certain; nft refused the rules. |

`serving` is the orchestrator, `ends` counts its ends.

### Actions

| Actions | In the code |
| --- | --- |
| `BeginCopy`, `CopyDone`, `CopyFails`, `Inject`, `InjectFails`, `Recopy` | `_prepare_writable_rootfs` with `_write_resolv_conf`; `_prepare_build_rootfs`. |
| `Configure`, `ConfigureFails`, `RulesRefused`, `ConfigureTimesOut` | The three commands of `create_tap` (two of the code's are `plug`): done, refused by `ip`, refused by `nft`, given up. |
| `Remove`, `RemoveTimesOut` | The commands of `delete_tap`, wherever it is called from, and of `create_tap`'s clean-up. |
| `TakesEffect` | A command that was given up does its work after all. |
| `Contain`, `Launch`, `Boot`, `BootFails` | The cgroup, the process, the socket and the API calls. |
| `Undo` | The `except` of `_start_firecracker`, up to `delete_tap`. |
| `Halt`, `Terminate`, `Free` | `_stop_firecracker`, up to `delete_tap`. |
| `RequestBuild`, `BuildEnds`, `Reap` | `run_build_vm`: the wait for the semaphore, the end of the guest or its timeout, the `finally`. |
| `Record`, `ProcessEnds` | The caller commits `vm_id`; a guest ends, or a killed process is gone at last. |
| `Crash`, `Kill`, `Reload` | The container ends with its processes; the server process alone; the server in good order, as `uvicorn --reload` (`entrypoint.sh`) does when a file changes. |
| `BeginSweep`, `Sweep`, `SweepTimesOut`, `EndSweep` | `cleanup_orphaned_vms` before the first request; when it raises, `lifespan` fails and the start is repeated. |

`NextStep` and `OnError` are the control flow of the network commands in one place:
where a coroutine goes when the command worked, and where its exception is caught.
`OnError["tapUndoRules"] = "undoFiles"` is the gap of `create_tap`: if nft is given up
during its clean-up, `ip link del` is skipped (`services/network.py:303`), and the caller, to
whom no tap was returned, does not delete it either.

### Abstractions

* A VM's identifier is fresh, and the eight characters of it that name tap and rules are
  taken to be unique too.
* A start refused by the first checks acquires nothing and is no action. The check of
  free space is one of them: it keeps nothing reserved, so the copy may still fail.
* The calls of Firecracker's API are one step that works or fails. The cgroup is always
  made: where it cannot be, there is one thing less to give back. `_fc_pids` and
  `_fc_rootfs_paths` are caches of what `/proc` and the disk say and are left out.
* Errors that `ip` and `nft` report while something is removed are ignored by the
  code and not modelled; only their timeouts are.
* Synchronous code up to the next `await` is one step.

### Properties

* `EndedHoldsNothing`: starts that failed, stops and builds have given everything back,
  with the leftovers the code does leave named in its three parts: the log
  of a failed start, the tap of a start with a timeout, the cgroup of a process that had
  to be killed, the copy of a build that failed while copying.
* `GuestIsEquipped`: a guest in service has an undamaged disk, its tap and its rules.
* `OneBuildGuest`: builds respect their limit.
* `SweepLeavesNothing`: what the next start removes. It finds VMs by the `vm_id` of
  their rows: of a start that was under way, tap and copy stay for good, and
  every later `allocate_ip` sees that tap on the bridge.
* Under fairness `WorkEnds`: starts, stops and builds end, and builds get their turn.

## `DockerBuilder` and `AssetPreparation`

### State

| Variable | In the code |
| --- | --- |
| `serving`, `rec`, `task`, `queue` | The service's process: its dictionary `_jobs`, what each job's task is at, and the tasks that wait for the semaphore, which `asyncio` serves in order. |
| `container`, `scratch`, `tar` | dockerd's containers, the work directories, the tars of the shared directory. |
| `up`, `boot`, `cl[t]` | The orchestrator's process, which of its lives this is, and where each of the tasks `defaults`, `attack` and `worker` is along its `Plan`. |
| `image`, `kernel`, `part` | The bootable files (`broken` is what a guest that failed left), the kernel (`torn`: a writer still has it open), and who opened the temporary kernel file last. |
| `offered`, `attackStatus`, `row` | Built-in rows in the database, `attack_rootfs_build_status`, and the conversion status of an administrator's docker-base row. |
| `stray`, `late`, `undeleted`, `unverified`, `overlapped`, `missed` | History variables, read by no guard, each naming an exception of a property. |

`mishaps` counts what goes wrong, up to `MaxMishaps`.

### Actions

| Actions | In the code |
| --- | --- |
| `Accept`, `Status`, `Forget` | The endpoints, as parts of the client's steps. |
| `Enter`, `RunEnds`, `Exported`, `Converted`, `CleanUp` | A job's task: into the semaphore, the container's script, the result taken out, an ext4 image made of it, the `finally`. |
| `JobFails`, `JobTimesOut` | A command ends with an error, or is given up and goes on. |
| `BuilderCrash`, `BuilderStart` | The service ends with its memory; `_on_startup` removes containers and work directories. |
| `Keep`, `Order`, `OrderFails`, `PollReady`, `PollFails`, `GiveUp` | `os.path.exists`; `run_builder_job` with its `finally`: the `POST`, the polls, the time limit, the `DELETE`, each of which may be lost. |
| `BeginDownload`, `EndDownload`, `DownloadFails` | `curl` to the temporary file, `shutil.move`. |
| `ConvertBase`, `Convert`, `ConvertFails`, `Check` | `convert_tar_to_ext4`: the guest's disk is put in place, then the guest's status is read and a bad result removed. |
| `Register`, `RegisterTimesOut` | The rows of built-in defaults, the attack machine's image, the worker's outcome. |
| `Crash`, `Shutdown`, `Boot` | The orchestrator is lost; ends in good order, so every `finally` runs and no `except Exception`; starts again with `reset_stuck_conversions`. |

`AssetPreparation` composes the two: a client's step takes an endpoint's step with it, and
the last step of a build job (`PutInPlace`) moves a file that the tasks look for.

### Abstractions

* The job for an asset in the n-th life of the orchestrator is `<<asset, n>>`: job ids are
  fresh, and a task orders an asset once in a life.
* What the tasks do between two items of their plans (directories, `chmod`, version
  checks) has no effect on each other. The host has `/dev/kvm`; without it the tasks do nothing.
* Of an administrator's orders one row stands for all: the worker takes them one by one.
  Uploads that are converted meanwhile are the subject of `ConversionJobs`.
* Each mishap is one event; `lost` may also take the `DELETE` of any job, which costs nothing.

### Properties

* `DockerIsTidy`: while the service is up, one container runs at a time, apart from those whose
  task has left the place without them, and a container or work directory belongs to a task. When the service
  ends, a container that outlived its command and the next one may both run on.
* `ClientsCleanUp`: a record has a client that polls it, and a tar one that uses it, but
  for what was lost, or for jobs whose client left before them.
* `FilesAreWhole`: what is offered is whole unless a crash came between the move and the
  check; the kernel is whole unless two tasks downloaded it at once.
* `BuiltIsOffered`: when the tasks are through, every file they prepare is on offer, but for
  files that came after their client had left, registrations that timed out, and what lacked its kernel.
* Under fairness `PreparationEnds`: jobs end, the attack machine is ready or failed, the
  administrator's row is settled.

## `WriteLock`

A request of one of four kinds goes through phases (`Phases`): a start
reserves its row under both locks, then records its VM and sets it running under the
write lock; an extension of an environment takes `_ip_lock` first and the write lock inside it,
one of the attack machine the other way round; all other writers (stops, uploads, the
tasks) take the write lock. `write` and `address` are the two locks. The second is a
queue, for `asyncio.Lock` wakes its waiters in order; the first is anybody's who tries when
it is free, for SQLite's busy handler polls. `TimesOut` is that handler giving up,
`Refuse` a check under the locks that fails; both leave through `Release`, as does `Commit`.

* `LocksAreInUse`: a lock is held by the request whose plan says so at this point, and
  nobody else waits or holds. So no way out of a handler keeps one.
* `CircleHasExtension`: where two requests wait for each other, `extend_env` is one of them.
* Under fairness `AllAnswered`: every request ends, if only with an error.

Abstractions: both locks of a phase are given back in one step, which nobody can tell
from two, since no request waits for both at once; the 10 s are a choice that is open from the first moment;
that a user was looked up before in a session without a lock has no effect here.

## `Accounts`

### State

| Variable | In the code |
| --- | --- |
| `role`, `active` | `users.role`, `users.is_active`; `gone` is a deleted row. |
| `project`, `owner`, `shares` | `images` and `owner_id`, `image_collaborators`. |
| `at[r]` | Where each request is: `in` or `admin` when it was let in, with the user object it keeps from then on; then the steps of a start, `deleting`, `done`. |
| `row`, `vm` | A start's `environments` row and its VM. |
| `del` | The deletion under way: its loop, what is left of the lists it has read, and `kept`: the environment whose row object the variable `env` still refers to, if that was loaded without a `vm_id`. |
| `locked`, `unsaved` | The deletion has a transaction open; what that has flushed. |
| `crossed`, `belated`, `listed`, `missed` | History variables, read by no guard. `listed` has what a deletion read as starting or running, `missed` what somebody let go of since with no VM stopped. |

### Actions

`Arrive` is `get_current_user` and `require_admin`, which read committed rows without a lock;
everything after acts on what they returned. `UpdateUser`, `Upload`, `Share`, `Unshare` are one
transaction each. `Reserve`, `Boot`, `Confirm`, `Stop` retell a start and a stop.

`delete_user` is taken apart: `BeginDelete` reads the user and his environments; `StopOne`
claims, destroys and commits, and so ends the transaction with whatever it had flushed. It stops
the VM that the claimed object names (`Ends`), which is not always the row's: the session keeps objects
across commits (`expire_on_commit=False`), the claim has no `populate_existing`, and `env` still holds the
last row of the first loop. If that was claimed while it was starting, and its handler has set it
running since, the loop over a project claims it again, gets the object without a `vm_id`, and stops nothing.
`PassOver` and `StopFails` are the other outcomes; `ReadProjects`, `BeginProject`,
`DropProject` go through his projects; `EndDelete` removes what is left with the user.
`WaitsTooLong` is the write lock not to be had after one of those commits. What SQLAlchemy's
mapper does to rows that still refer to a removed one is part of `DropProject` (a new
collaborator makes it fail, since `image_id` is NOT NULL) and `EndDelete` (`owner_id` of a new
project is emptied).

### Abstractions

* Each request is sent once and one user is deleted at a time. Refused requests write
  nothing and go no further.
* Projects are private. Environments expire, crash and time out in `EnvLifecycle`; here `Stop`
  stands for whoever stops one. `Confirm` is the two commits after the boot in one.
* `_seed_admin`, which makes an administrator at start-up, does so only if the name is free.

### Properties

* `ListedIsStopped`: when the row of what a deletion read as starting or running goes, its start is
  over and its VM is not alive, whoever runs it and whoever stops or starts it meanwhile. What is in
  `missed` is set aside, for there the code does lose VMs: the lock timed out, a row was claimed before its VM
  was recorded, or the claim returned the object of such a claim.
* `NothingDangles`: live rows have a project, shares a project and a user.
* `RemovedUserLeavesNothing`: a user who is gone has no environment, share or project, but
  for what requests let in before have made after.
* `NoLockout`: there is an active administrator, unless one lost the rights between the
  check of his request and its action.
* `StoppedBeforeRemoved`, without the list, is what the comment says and the run `removed` refutes.

## Runs

### Passing

| Run | Instance | Shows |
| --- | --- | --- |
| `full` (`MCEnvFull.cfg`) | 2 requests of 1 user, 2 addresses, 1 image; all stop paths, all faults; symmetric requests | Addresses, guests, orphans, image deletion, `stopping` rows. About 650,000 states. |
| `lease` (`MCEnvLease.cfg`) | 2 requests of a user and 2 of an administrator, each for a project and the attack machine; 1 per user, 1 in total; 3 addresses; no path that stops a start in flight | The lifecycle refines `IpLease`; both limits, with an administrator's rows in the total; one attack machine. About 1,800,000 states. |
| `watchdog` (`MCEnvWatchdog.cfg`) | 2 requests, one with no expiry, extensions, crashes, guests that end, lock timeouts; `FairSpec` | The liveness properties of the lifecycle. About 31,000 states. |
| `files` (`MCJobsFiles.cfg`) | Any 2 of a tar project, a bundle, a tar default and a docker-base; 2 uploads of each project; 1 end of the process; updates of rows no worker has, deletions, all faults | Ready rows are on disk, waiting bundles have their source, no stray files; the workers implement `JobQueue`. About 500,000 states. |
| `settle` (`MCJobsSettle.cfg`) | Any 2 of the same four rows; all requests, failures, 1 crash; `FairSpec` | Every upload settles; `converting` has a worker. About 224,000 states. |
| `launch` (`MCVmLauncher.cfg`) | 1 environment's VM, 2 build VMs, 1 place; every failure, timeouts of network commands, 1 end of the orchestrator, each of the three ways; `FairSpec` | What is over holds nothing, guests are equipped, sweeps, and everything begun ends. About 122,000 states. |
| `assets` (`MCAssets.cfg`) | All three tasks; installations that lack the converter's base and the default root filesystem, kernel and attack machine, or both docker-base images; 2 lives of the orchestrator, 1 mishap of any kind; `FairSpec` | The service and the shared directory are left clean, what is offered is whole, everything ends. About 250,000 states. |
| `locks` (`MCWriteLock.cfg`) | 2 starts, an extension of each kind, another writer; `FairSpec` | Locks are given back, the circle has an `extend_env`, every request is answered. About 13,000 states. |
| `accounts` (`MCAccounts.cfg`) | 2 administrators, 2 users, both deleted; a project, its collaborator and a new upload; uploads and starts beside, 3 requests by which administrators demote and disable each other | What a deletion leaves behind is consistent. About 1,500,000 states. |

Why these bounds suffice for `EnvLifecycle`: the conflicts are between two rows over an address and a
third over the limits, and each row meets every actor alone. Two requests reach
every pair of program points; one row may be stopped, its address given to the
second, and the first set running again, which takes exactly two. Further
requests matter where a limit must be exceeded while others are in flight: two
of a user, with limits of one, and an administrator's for the total. Two addresses make `FirstFree` choose and let the neighbour table hide one.
Every class of age and expiry the code tells apart is present. The symmetry of
`full` and `lease` exchanges requests that are equal in every constant, or that play
the same part; the liveness run uses none.

For `ConversionJobs`: rows share nothing but the workers and the lock, and what is claimed first is
decided between two, so every pair of kinds (`MaxRows` is 2, of four rows) is what
matters: a project and a default contend for one worker and show its order, others for the lock. A version that is
being replaced and the one that replaces it are two; a third adds a repetition. One end
of the process meets every point of a job and of an update.

For `VmLauncher`: VMs share only the place of the builds and the orchestrator, and a
sweep treats each by itself, so one environment's VM meets everything. Two builds are
what the one place needs. One end of the process meets every step of all three.

For `AssetPreparation`: the tasks meet over the kernel and the converter's base, and
over the builder's one place; `Found` (`MCFound`) lets each of these meetings happen and spares the
product of all that may be missing. One mishap meets every step of all tasks and jobs, and is
in itself enough to start every error path; a second life runs every task again over what the first left,
with the first life's jobs still at work.

For `WriteLock`: a circle takes two, one for each order; a second start and a
writer compete for whatever is given back; three requests in the queue of `_ip_lock`
make its order matter.

For `Accounts`: one deletion meets every program point of a start, of a share and of an upload,
by the deleted user and by another; a second deletion meets what the first left. Two
administrators are the fewest that can leave none.

Deadlock is checked in the runs of `EnvLifecycle`: the watchdog always has a next
round. It is not in those of `ConversionJobs`, where all rows may be settled,
uploads used up, and the workers idle: in the code they poll on; nor in `launch`, where
every VM may be over, nor in `assets`, `locks` and `accounts`, whose tasks and requests come to an end.

`UserOf`, `ImageOf`, `KindOf` and the other parameters are bound to definitions of
the `MC` modules; no definition of the modules under test is replaced.

### Fairness

`FairSpec` assumes weak fairness of what the event loop runs once it is due: the steps of
handlers and tasks in flight, the outcome of `start_vm` and `stop_vm` (both have
timeouts of their own), the passing of the ages, and the process manager's restart
(`restart: unless-stopped` in `docker-compose.yml`). Clients owe nothing: starts, stops, extensions
have none. Nor have failures. Steps that wait for the write lock get weak fairness
only, because SQLite's busy handler polls and keeps no queue; the properties hold
nevertheless, since every lock holder that matters is finite. A client that extends a
row for ever keeps it alive: `RunningRowEnds` allows for it.

In `ConversionJobs`, each worker is a loop that tries again after every exception,
and each conversion has a hard timeout (`image_build.DEFAULT_BUILD_TIMEOUT_S`,
`_BUILDER_JOB_TIMEOUT_S`), hence weak fairness of `Work(w)`; a request that has
changed files ends (`Commit` or `Rollback`), and the process is
started again. Lock timeouts are left out of `settle`: with `db_busy`, `ConvertingHasWorker`
fails, because the record of a success and then of the failure may both time out,
which ends the job (`services/rootfs_convert.py:94`) and leaves the row
`converting` until a restart.

In `VmLauncher`, a coroutine that has begun goes on (weak fairness of `Step(v)`):
the socket, the API, the network commands and a build's guest are waited for with
timeouts, and the copy is local I/O. Nobody owes a request, a stop, or the end of a
guest; that a build whose guest hangs still ends is what its timeout is for. The
orchestrator is started again.

In `AssetPreparation` the clients' and the jobs' steps go on, for every command, request
and guest has a time limit (`_BUILDER_JOB_TIMEOUT_S`, the limits of `server.py`), and both containers
are started again (`restart: unless-stopped`). The fairness is of the steps of all tasks and of all jobs
together, not of each: none can go on for ever while another waits, since plans and jobs are finite.
In `WriteLock` each request that has arrived goes on (weak fairness of `Step(r)`); nobody is
promised the write lock, for SQLite keeps no queue, and `AllAnswered` rests on the timeout.

### Violations: where code and words disagree

Each run checks one statement the repository makes and finds a behaviour of the code against it.

| Run | Statement | What happens |
| --- | --- | --- |
| `revived` | A row stopped during its boot is not set running (`routers/envs.py:186-188`). | An administrator stops a row while it boots; the handler reads its own stale object and commits `running`. The address may be somebody else's by then. |
| `removed` | Containers others are running are stopped too, before the rows go (`routers/admin.py`, in `delete_user`). | An environment is claimed while it starts, and its handler sets it running after that commit. The loop over the project claims it once more, gets the first claim's object, which names no VM, and stops nothing; the row goes, the VM does not. |
| `unbuilt` | Launching is blocked until the conversion completes (`README.md:184`). | A project is uploaded again while its old rootfs converts; the old job marks the row ready. The new file was never made, its source is forgotten, and the start guard lets the row through. |

Further behaviours of this kind met while modelling are part of the models, are named by the
exceptions of properties, and have no run of their own:

* `delete_image` swallows a `stop_vm` that fails and commits a `stopping` row, which keeps its
  place in the limits until the next restart (`routers/images.py:1029-1035`).
* The commit of `vm_id` in `start_attack_machine` may time out behind a long stop; nothing
  catches it, and no row names the VM (`routers/attack_machine.py:212`).
* A shutdown cancels a conversion, whose `finally` removes the source of the row that the next
  start queues again (`services/rootfs_convert.py:96-101`).
* A deletion's loop over a project's environments swallows a lock timeout and removes the
  rows with their VMs running (`routers/admin.py:217`).
* That loop's claim may return the object of the first loop's, which names no VM, and the VM of
  a row that has come to run goes on without it (`routers/admin.py:212`).
* A deletion that fails after `_safe_remove` leaves a ready row without its file
  (`routers/admin.py:223`, `453-468`), as a rejected `update_image` does.
* An upload that is refused for its README, or not committed, leaves its rootfs or bundle on disk
  (`routers/images.py:632-650`, `routers/admin.py:330-381`).

## Proofs

TLAPS proves the following for every value of the constants that satisfies the named
assumptions of the modules: for `EnvLifecycle` `SetsAssumption` (the sets of
requests and addresses are finite, addresses are positive, the maps are total) and
`LimitsAssumption` (limits are natural numbers); for the others, that each request or
row has a kind and that the constants are of the sets they should be; for `VmLauncher`
also that the sets of VMs are finite and disjoint; for `DockerBuilder` and `AssetPreparation`
(`BuilderAssumption`, `PreparationAssumption`) that the jobs are those of the assets in each life.
Every invariant and every action property that a run finds to hold is stated by a theorem;
`TypeCorrect` in each of the modules is `Spec => []TypeOK`.

### `EnvLifecycle`

`AddressesUniqueUnlessEarly` and `QuotasHold` (both limits) are not inductive by
themselves. `IInv` adds three parts:

* `LockInv`: nothing is claimed or flushed under a free lock; a single-row stop
  has flushed no row but its own; only stoppable rows have been flushed. Without
  it a commit might write any row.
* `FlightInv`: the row of a start in flight is `starting`, or was stopped early. Without
  it `GoRunning` might bring back a row whose address has been given away, and the row
  would not be in `early`.
* `DownInv`: a process that is down has no lock and no handler, so `Restart` cannot
  stop a row behind a start's back.

`Invariant` proves `Spec => []IInv` with one lemma per conjunct and, in each, one
step per action. `QuotasHold` follows from `IInv` by comparing cardinalities: only
`Reserve` makes the counted set grow, by one element, under a strict bound.

Rows and guests take two more parts, which hold each other up and are proved together
(`GuestInvariant`):

* `GuestInv` is the correspondence of `pc`, `hasVm` and `vm`: before the boot there is no VM, from
  the commit of `vm_id` on the row names it, and once the handler is done a live VM has a live row
  that no flushed stop is about to release.
* `StopInv`: a row `stopping`, flushed or committed, other than the one being destroyed, has
  seen `stop_vm` fail after the process was killed. Without it a commit might release the address of a live guest.

From them follow `LiveVmsReachable`, `StoppingRowsAreDead` and, with the unique addresses,
`GuestsHaveTheirAddress`. `DeletedImagesAreQuiet` needs `RetireInv`: an image request has still to
claim, or has claimed, every stoppable row of its image.

Four more hold under the further assumption `NoEarlyStop`, stated in their
`ASSUME`: `Paths` contains no `force_stop`, `update_image` or `delete_image`, and
`Faults` no `slow_launch`, so nothing stops a row whose start is in flight.

* `AddressesUnique`: `Spec => []UniqueIp`.
* `StoppedForGood`: `Spec => StoppedIsFinal`.
* `LifecycleImplementsLeases`: `Spec => ImplementsLeases`, with the refinement
  mapping from `status` and `ip` to leases.
* `OneAttackMachine`: `Spec => []OneAttackMachinePerUser`. It also assumes `MachinesApart`: nobody's requests
  through the project endpoint are for the attack machine's image, which that endpoint refuses to everyone but
  administrators. `OneAttackMachineUnlessEarly` is the same without `NoEarlyStop`, for rows
  that were not stopped early.

They rest on `QuietInv`: no row is stopped early, and a row's status and its
handler's program counter agree. The `revived` run shows that the assumption is
needed. `LeasesExclusive` proves the abstract promise itself, so the refinement
gives exclusive addresses a second time, by way of the specification.

### `WriteLock`

`LocksHeldInUse` and `CircleNeedsExtension`. The inductive invariant adds to `LocksAreInUse`
where a request may be on its way (its phase is one of its kind's, and it has at most
as many locks as the phase takes) and that nobody is in the queue twice. That a phase has one
of three shapes (`PhaseShapes`), and only an extension that which leads into the circle
(`OnlyExtension`), are lemmas about `Phases`.

### `Accounts`

`ListedAreStopped`, `NothingIsLeftDangling`, `RemovedLeaveNothing`, `SomebodyAdministers`. The
first two need an invariant with four parts besides the types: `RowInv` (a row that is there has its
project, and a running one, or one with a dead VM, a handler that is done), `UnsavedInv` (a project the open transaction has
removed leaves no row and no share that it has not removed as well; what it has marked `stopping` has a dead VM),
`DelInv` (whom a deletion is for), and `ListedInv`: a listed environment that nobody has let go of is either
over, with a handler that is done and no VM alive, or live, not among the removed, and still on
the list of the loop that will reach its row. Without the last a deletion might remove a row it had passed over. `Struck`
says that to take an environment off the list changes no other part of what is to be done;
`WaitedTooLong` and `StopFailed` are the two ways to do so that stop nothing. The other two are inductive beside these.

### `ConversionJobs`

`ReadyRowsAreBuilt`, `BundlesKeepTheirSource`, `FilesAreNamed`, and, in the absence of lock
timeouts (`"db_busy" \notin Faults`, stated in its `ASSUME`), `ConvertingIsWorkedOn`. `IInv` has
six parts besides the types and the first two properties: `JobInv` ties what a worker remembers (source and
destination) to what its row says unless the row is `overtaken`; `ReqInv` an open update or deletion
to the files it has left on disk; `FilesInv` the files of a settled row to its columns; `KindInv` workers to the rows they
serve; `PathInv` says which rows have a destination, `VersionInv` that names are fresh.

`WorkersImplementQueue` is `Spec => ImplementsQueue` where `Requests` lacks `"overtake"`. Nothing then
moves a worker's row but to delete it, and a row that is being updated has no worker (`UnmovedInv`, inductive
beside `IInv`): a worker's row is `converting` or gone, which is all that `Settle` asks, and what a
`Commit` writes is a submission or a removal. Lock timeouts are allowed: they abandon jobs. `RowsHaveOneWorker` is the abstract promise: no row
has two workers, and a row that is worked on is taken or gone. In `JobQueue` any worker may take any
row, so this does not rest on the way the code divides the rows among its workers.

### `VmLauncher`

`NothingIsLeaked` (`EndedHoldsNothing`), `GuestsAreEquipped`, `SweepIsComplete` and
`BuildsAreLimited`. A step changes one VM (`OwnStep`), or all by one rule (`CommonStep`, which names
the eight things it can do to a VM), so the invariant speaks of each VM alone: `EnvHolds` what
an environment's VM may hold at each `pc`, `EnvNeeds` what it must have by then, `EnvEnds`
where its process or disk must be gone and where a late command can still exist, `BuildInv` the same for
builds. `DownInv` says that no coroutine runs while the orchestrator is not up, which is why the sweep
meets only named and lost VMs; `LostInv` that what was swept by place stays swept. `PlaceInv`
counts the builds in the semaphore; `PlaceTaken` shows that only `BeginCopy`, under a strict bound,
adds one.

### `DockerBuilder` and `AssetPreparation`

Five theorems follow `TypeCorrect`, each from an invariant of its own on top of the ones before:

* `DockerStaysTidy` (`DockerIsTidy`) from `ServiceInv`: the queue holds each waiting job once, one task is
  in the place, what a job has in dockerd and under `/tmp` its task will remove or has tried to, and
  a record agrees with its task.
* `ClientsDoCleanUp` (`ClientsCleanUp`) from `ClientInv`: a job that waits or works has a client that polls
  it, or the client has left; a job that is polled has its record unless the service ended.
* `FilesStayWhole` (`FilesAreWhole`) from `KernelInv` (a download has the temporary file to itself, or
  `overlapped` says otherwise) and `ImageInv` (what a task knows of its item, who is about to check a
  broken file, that a ready build job's image is in place).
* `WhatIsBuiltIsOffered` (`BuiltIsOffered`) from `OfferInv`: what a task is through with, and is there,
  has been dealt with: it is on offer or has one of the named reasons. The last stands on all the others.

A task is one of three fixed plans, so facts about plans (`PlansApart`: only the kernel is in two) are lemmas by
cases. `PlaceInv` says at which item a task can be in which place. What a client's step does to service, tars,
files, and records is stated once in lemmas (`ClientService`, `ClientTar`, `ClientFiles`, `ClientGoes`,
`ClientRecords`, `ClientPasses`), which every later proof cites instead of the fourteen actions.

Two properties had to be stated more carefully to be provable, as TLC then confirmed outside the
bounds of its run: with two mishaps a container that outlived its command and the next one
are both alive when the service ends, so `OneContainerRuns` speaks of the service that is up; and an installation that
runs only some of the tasks does not register what the others prepare, so `BuiltIsOffered` speaks of `Planned` files.

### Only model-checked

* The liveness properties (`RunningRowEnds`, `AbandonedRowEnds`, `UploadsSettle`, `WorkEnds`,
  `PreparationEnds`, `AllAnswered`), with the fairness they assume: liveness and `ENABLED` are out of the
  prover's reach.
* What the violation runs refute has no proof, of course; `StoppedIsFinal` has one where its assumption holds.

## What could follow

1. **Composition**: `EnvLifecycle` with `VmLauncher` in place of `BootVm` and
   `DestroyEnv`; `ConversionJobs` with the builds of `VmLauncher` in place of `Convert`,
   whose semaphore the workers share. Both products are beyond TLC's reach at the bounds
   above unless the parts are reduced first. A contract of a guest's life that both
   `EnvLifecycle` and `VmLauncher` refine would say the same in two proofs.
2. **More of the routers**: visibility of projects, and the log-ins' use of the user's row.
