# Yesnas server: a TLA+ verification project

TLA+ models of the parts of this server whose correctness depends on the order
in which things happen, checked with TLC on small instances and, for the
modules marked *proved*, with TLAPS for every value of the constants.
`PROJECT.json` is the machine-readable index: components, runs, the source lines
behind each definition, hazards, findings, theorems.

    tlc -workers 2 -config JobsRace.cfg MCJobs.tla
    tlapm JobsProofs.tla

## 1. The system

A single Go process serves an HTTP API (`router.go`) to the NAS's web client.
State lives in one SQLite database reached over *one* connection
(`database/db.go`), in files, and in the kernel (mounts, btrfs). Every request
has a goroutine of its own; two more run in the background: the job worker and
the cloud monitor.

| component | state | operations | what is hard |
|---|---|---|---|
| job queue (`jobs/jobs.go`) | `jobs` table; maps of cancel functions and stop reasons; upload-cache files | enqueue, list (sweeps first), pause, resume, cancel, delete; claim, run, heartbeat | handlers read a status and act on it later, while the worker moves it; crashes; a heartbeat that may be late |
| resumable uploads (`files/uploads.go`) | `<id>.json`, `<id>.bin`, a map of locks | tus create, HEAD, PATCH, DELETE; finalization to a path or to the queue | metadata read before the lock; cut connections; non-atomic save; finalization repeated after a crash |
| Google Drive client (`storage/google_drive.go`) | tokens, rclone configuration, mounts | upload, refresh, mount, usage | partial uploads, cancellation in mid-body |
| accounts (`users`, `auth`) | `users`, `groups`, `user_groups`, `user_sessions` | login, logout, create, update, delete, change of password | check-then-act on rows, whole-row updates, two-statement creations |
| storage pools (`storagepool`) | devices, mount units, mounts, rows | create, format, replace, delete | a dozen external commands, each of which may fail or be cut by a crash |
| snapshots (`storagepool/snapshots.go`) | btrfs subvolumes, their rows | take, delete, restore with or without a backup | a restore destroys the data before it puts others in their place; nothing is locked |
| automatic snapshots (`storagepool/create.go`, `update.go`, `jobs/jobs.go`) | schedule and next time in a pool's row, jobs | set up, queue what is due, run | the next time is read, computed and stored in three places while users change the schedule |
| transcoding (`files/transcode.go`), thumbnails | map of HLS jobs, cache directories and files | manifest, segment, stop, idle cancellation | viewers share a job that may end, fail or be cancelled under them |
| event stream (`events`), pool benchmark | a channel of 32 per connection, temporary files | sample, benchmark, leave | slow readers, clients that leave at a full channel, benchmarks that share a file |
| trash and file operations (`files`) | files, `recycle_bin`, favourites | move, copy, rename, delete to trash | check-then-rename, file and record in two steps |
| account linking, cloud monitor, network storage (`storage`, `cloudmonitor`) | rows and tokens, `rclone.conf`, mounts | register, link, mount, bring back, delete | a configuration file that is rewritten whole without a lock; lost answers; mounts gone with a reboot |
| sharing, monitoring, docker, audit | see `PROJECT.json` | | mostly I/O |

How they interact: a finished upload to a cloud storage calls
`jobs.EnqueueCloudSync`, which hands its temporary file to the queue; the worker
reads it through the Drive client and removes it; the worker also inserts and
runs automatic snapshot jobs for the pools; every handler writes the audit log;
every request passes `auth.Middleware`.

What makes each correct: a job ends once, for a reason somebody gave, and says
what happened to the file; an upload delivers exactly the client's bytes or
nothing; an account's rows are consistent after any mix of requests; a pool
operation answered with success has left the pool whole whatever failed before
it, and touches no other pool's devices; what a restore destroys is in the
backup that was asked for; no day of a schedule is skipped or taken twice; a
shared transcode has one writer and is always released; an event stream loses no
event and frees whoever leaves; a file operation destroys only what it was asked
to, and the trash and its rows agree; a device stays able to link, a deleted
storage leaves nothing, and every mount comes back.

## 2. The modules

| module | what | proofs | run |
|---|---|---|---|
| `JobLifecycle`, `Jobs` | the queue of cloud uploads and its abstract specification | `JobsProofs` | `jobs_race`, `jobs_drain` |
| `Delivery`, `Uploads` | the promise of the upload API; resumable uploads, composed with a job reduced to its effect on the file | `UploadsProofs` | `uploads_files` |
| `Directory`, `Accounts` | the operations on the accounts' tables; users, groups, sessions and the one connection | `AccountsProofs` | `accounts_rows`, `accounts_last_admin` |
| `Pools` | create, delete, format and replace as sequences of commands that can fail | `PoolsProofs` | `pools_whole` |
| `Snapshots` | creation, deletion and restore of snapshots, command by command | `SnapshotsProofs` | `snapshots_restore` |
| `AutoSnapshots` | the schedule of a pool, the queue that turns it into jobs, the calendar | `SnapshotsProofs` | `autosnapshots_due` |
| `Media` | transcodes shared by viewers, MP4 and thumbnail caches | `MediaProofs` | `media_caches` |
| `Streams` | the event stream and the benchmarks it carries | `StreamsProofs` | `streams_serve` |
| `FileOps` | rename, move, copy, folders, trash, the end of an upload in one tree | `FileOpsProofs` | `fileops_tree` |
| `Cloud` | registration, links, `rclone.conf`, mounts, network shares, monitor, deletion | `UploadsProofs` | `cloud_links` |

Each has an `MC` module, with the symmetry of its instance if it has any.
`AutoSnapshots` takes
the handlers of the queue as one step each, because `Jobs` has them apart, and a
snapshot as one, because `Snapshots` has it apart; `FileOps` takes from `Uploads`
only what the end of an upload does to the tree; `Cloud` and `Jobs` meet in the
worker, whose upload may refresh a token (`StartRefresh`, `PersistRefreshed`).
`First` in `AutoSnapshots` is the reference definition for the calendar: the least
allowed midnight after a time. The loops of `NextAutoSnapshotTime` and
`nextAutoSnapshotAfter` are checked against it in every reachable state, and
proved equal to it.

The proofs about `AutoSnapshots` are in `SnapshotsProofs`, and those about `Cloud` in
`UploadsProofs`: a proof module extends both of its modules, which therefore have
no name in common (`AutoInit`, `CloudNext`, `GoesTo`, `Die`, `Nil`).

The runs check each property on a small instance with every failure the code
handles. What the invariants of the proofs (`IInv`, `WInv`, `AutoInv`, `CloudInv`)
add, three properties that are steps to them (`StopHasReason` and
`DropIsAsked` of `Jobs`, `TemporariesOwned` of `Streams`), and two that follow from
a property that is run (`RowsOwned` and `GoneStaysGone` of `Accounts`, from
`ImplementsDirectory`) are proved for every instance and not run. Every invariant
was found inductive only after TLC had agreed that it holds: each can be added to
the `INVARIANTS` of its run.

In every module a definition named `Slip...` is a plausible fault of the
definition after it: put in its place, it breaks the property that
`PROJECT.json` names under `mutants`. No specification uses one.

## 3. The job queue: `Jobs`, `JobLifecycle`

*Actors* are the worker and the goroutines of requests; `pc` says where each
stands. Each SQL statement, file operation and registry operation is one step,
because the single connection makes a statement atomic and nothing makes two
statements atomic. A statement or a removal may fail where it does anything. A
handler then answers 500 and stops, but the worker drops the error and goes on as
if nothing had happened: `RowFails`, `Scrub`, and the second disjuncts of `Verify`,
`Inspect` and the sweep.

| model | code |
|---|---|
| `status`, `stale` | column `status`; `updated_at` older than `runningJobStaleAfter` |
| `cached`, `remote` | the file under the upload cache; the file on Google Drive |
| `cancels`, `reasons`, `ctxDone` | `runningJobCancels`, `runningJobStopReasons`, the upload's context |
| `SweepSelect`, `SweepMark`, `SweepScrub` | `markStaleRunningJobs`, which the worker runs each tick and every request before it reads |
| `HandlePause` ... `DeleteRow` | the handlers, one action per step |
| `ClaimSelect`, `ClaimTake` | `claimNextPendingJob`: select the oldest, then update if it is still pending |
| `OpenPayload` ... `Deleted` | `runCloudSyncJob` and every branch at its end |
| `Deliver` | `UploadGoogleDriveReader`: the file appears complete, or an error does |
| `Age`, `Beat` | the row of a running job passes `runningJobStaleAfter`, owned or not: `startJobHeartbeat` only logs errors and its ticker may be late; a heartbeat comes after all |
| `RowFails`, `Abandon` | the error of a statement: a handler's answer 500, the worker's `_ = update...` |
| `Scrub` | `cleanupCloudSyncLocalPayload`, which only logs a removal that failed |
| `litter`, `adrift`, `refused` | history: files whose removal failed, rows the worker let go while running, cancels and deletes that could not be written |
| `Crash` | the registry and the goroutines go, rows and files stay |

Runs:

* `jobs_race` — one job, three requests at once, one fault (a statement or a
  removal that fails, or a crash) at any point, all interleavings, and a heartbeat
  that may be late at any time. A sweep may so fail a job that is being uploaded.
  One job is enough for the table's rows, which only meet in the choice of the
  next job (`jobs_drain` has two); three handlers are enough for one to act on
  what a second changed while a third sweeps. Checks that a success is delivered,
  that a finished job leaves its cache file only if its removal failed (`litter`),
  that a running row is the worker's or one it let go (`adrift`), that an ended
  job is not taken up again, and that the whole refines `JobLifecycle`. One fault
  is enough to end any path early, and what the code does after a fault does not
  depend on another; the proofs have no bound.
* `jobs_drain` — two jobs and one fault, liveness: when requests stop, the queue
  drains, with the rows that a crash or a dropped error left running.
  *Fairness*: weak, for the steps of each goroutine (the scheduler runs a
  goroutine that can run, and the worker's ticker fires again and again) and for
  the passing of time over a running row that the worker does not have; a row that
  it has need not grow stale. Nothing has to fail. It assumes that an
  upload ends, with success or an error; the HTTP client has no deadline, so a
  peer that goes silent would break this assumption, not the model.

*Proved* (`JobsProofs`): all of the safety properties above, that the worker stops
and drops a job only for a reason that a client gave, and the refinement, for
any number of jobs, handlers, crashes and failing statements and removals. The properties are not inductive
by themselves: that a success is delivered needs that the worker, from
`delivered` to `succeed`, works on a delivered file (`DeliveredFirst`); that a
stop has a reason needs that the registry holds exactly the upload in progress
(`RegistryIsExact`) and that reasons come from clients (`ReasonIsAsked`).
`IInv` is their conjunction.

What the code does not promise, and the models show: a job whose file is in the
cloud may end as `failed`, when a sweep fell into its upload or the worker died
before it wrote the row (the next run then finds the file there already); and
when `currentJobStatus` cannot be read after an upload that failed, a paused job
is taken for a failed one and loses its file, so that a resume answers 409.

## 4. Resumable uploads: `Delivery`, `Uploads`

A file is the set of positions written so far: an honest client sends at an
offset the bytes the file has there, so which positions were written is all
that tells files apart. Missing positions are holes.

| model | code |
|---|---|
| `dest` | the storage and path in the metadata (a local target, or the cloud) |
| `saved`, `offset` | `<id>.json`: absent, torn or whole, and `meta.Offset` |
| `temp`, `target`, `remote`, `queue` | `<id>.bin`, the files at targets, the cloud's file, waiting jobs |
| `lockOf`, `held`, `ref` | `uploadPatchLocks`, its channels, the lock a handler got |
| `seen`, `fd` | the handler's copy of the offset; its open file, which stays valid when the name goes |
| `PatchLoad` ... `Forget` | `HandleTusPatch`, one action per file, lock or map operation |
| `DeleteLoad`, `ScrubTemp`, `ScrubMeta`, `EndLock` | `HandleTusDelete`, which takes no lock |
| `Finalize`, `Persist` | `finalizeTusUpload`, `persistUploadedFile` |
| `SyncDeliver`, `SyncEnd` | what a job of `Jobs` does to the file |

`over` and `spoiled` are history: uploads stored (or refused because their
target exists), and uploads terminated, overrun or failed in finalization. The
properties promise nothing of a terminated upload beyond locks.

`Delivery` is what the API promises, with requests, metadata, locks, temporary
files and jobs abstracted away: bytes are received and never lost, and once all
are there the upload is stored, once and whole, or refused because its target
exists, or handed over and delivered to the cloud once. The refinement mapping
shows of each upload the bytes in its temporary file while it is `Current`, and
nothing after (`Received`). An upload that has gone astray (`spoiled`) may end
anyhow, but it touches no file beside its own target.

Runs: `uploads_files` has one upload of length 2, two requests, one crash, every
failure at every step, to a local or a cloud storage. Locks, metadata and
temporary files are per upload, so a second upload adds interleavings only at a
common target (`FileOps` has two items that come to one name). Length 2 lets a PATCH
stop short of, at and past the end, and leaves room for a hole. The run checks
`ImplementsDelivery` too. Lock objects: one more than
handlers. Deadlock is not an error: a finished upload has nothing left to do.

*Proved* (`UploadsProofs`): `OffsetIsBacked`, `DeliveredIsWhole`,
`LockedIsPatched`, `PatchesExclusive` and types, for any uploads, lengths,
handlers, locks and crashes. The argument: as long as an upload is `Current`, all its
PATCHes got the same lock (`Locking`), so a handler past `TryLock` is alone;
its bytes are then in its file up to what it saw (`Bytes`), so what it saves is
backed; finalization starts with the file whole and is decided once (`Once`).
`WriteFacts` says what a write can do to the files, wherever the open file is
linked by then; the remaining lemmas take one action each.

`UploadRefinement` shows, for any of these constants, that `Uploads` implements
`Delivery`, step by step: most steps are seen as nothing (`Unseen`); a write is
`Receive`, or nothing when it goes to a file that is stored already, whose bytes it
repeats; the decision at the end is `Store` or `Settle` and meets the file whole
(`AtFinalization`); whatever terminates, overruns or fails is `Stray`; a job is
`Deliver`. This needs from the invariant that the decision is taken once (`Once`):
a PATCH that finalizes again after a crash must be seen as nothing.

## 5. Accounts: `Directory`, `Accounts`

*Actors* are requests. Each statement is one step, taken while no transaction has
the connection (`At`, `conn`): the pool has one (`db.go:38`), so a transaction
shuts everybody else out and a handler that asked for a second connection
inside one would stop the server. Foreign keys and cascades are those of
`init.sql`; `InitDB` switches them on.

| model | code |
|---|---|
| `user`, `account`, `group`, `member`, `status`, `owner` | the rows of `users`, `groups`, `user_groups`, `user_sessions` |
| `conn`, `draft` | the open transaction, and `user_groups` as it sees it |
| `item`, `edit`, `want`, `todo` | what a handler read, and what it was asked for: the columns of an update, the groups |
| `Login`, `CreateSession` | `HandleLogin`: authentication, then the insertion, with anything in between |
| `HandleLogout`, `Relook`, `RevokeSession` | the middleware's lookup, the handler's own, the update |
| `HandleCreate`, `Check`, `Insert`, `Begin`, `Fill`, `Commit` | `Create` and `ReplaceUserGroups`, in that order |
| `HandleUpdate`, `Load`, `Check`, `Write`, ... | `Update`: the row is read, merged with the request and written back whole |
| `HandleDelete`, `Find`, `CountAdmins`, `Remove` | the deletion of a user and its check for the last administrator |
| `StatementFails`, `Crash` | an error of any statement; the restart, with `EnsureDefaultAdmin` |

A session that was revoked and one whose time has passed are both `closed`: no
query tells them apart. `late` is history: the updates whose copy of a password has been overtaken. With
it `PasswordKept` says exactly how far the lost update goes that a whole-row
write makes possible: a password is restored only by an update that was
in progress when it was changed.

`Directory` is what the API promises of its tables, with statements, connection and
transactions abstracted away: an operation takes effect once and whole, or not
at all, and only where the rows that it refers to are. Its input `asked` says which
operation each request has been let through to; the refinement mapping `Asked`
reads it off `pc` and what the handler holds, so that a statement that writes for
another user, other columns or other groups than were asked for is no step of
`Directory`. A request that fails is seen as nothing at the point where it fails:
a creation whose groups are refused has registered the user, and says so in
`Directory` by two operations.

Runs: `accounts_rows` has two users, one group, two sessions, two passwords and
two requests of any kind. Two requests show every race of this code, which
is always between what one read and another wrote; two users are needed for one
to outlive the other, and for the first to be made by a restart; two sessions let an
administrator act while somebody else's login is half done. `NewAccount` and
`Edit` bound what requests ask for (one kind of account; a change of password,
or of role and status). Restarts are not bounded: nothing in the state grows with
them. `NobodyStuck` is stated with ENABLED, as a property of states: an unanswered
request has a step, or the transaction has one whose end it waits for. The run
checks `ImplementsDirectory` too. `accounts_last_admin` is the finding of section 14.
Neither run checks deadlock: when nobody is left and ids have run out, nothing can
happen.

*Proved* (`AccountsProofs`): types, `RowsOwned`, `GoneStaysGone`, `GroupsWhole`,
`PasswordKept`, `OneIsWaitedFor` and the refinement, for any number of users,
groups, sessions and requests: the
run has one group, the theorem shows that a set of many is replaced as a whole.
The invariant adds where each handler stands and for whom (`InPlace`), that the
connection is held exactly by a handler in `fill`,
whose draft differs from the table in its own user only (`InTransaction`), and
that an update that is not late has read the current password (`Copies`).

`Refinement` shows that `Accounts` implements `Directory`. One lemma for each step
that writes a table names the operation that it is seen as; the one that says most
is `Commit`, by which the deletion and the insertions of a transaction become one
`Assign`: the rows that its draft refers to are still there, because nobody else
had the connection. `DirectoryKeepsRows` shows that `Directory` says enough: from it
alone, without `Accounts`, follow `RowsOwned` and `GoneStaysGone`.

## 6. Storage pools: `Pools`

*Actors* are requests. Each external command (`umount`, `wipefs`, `mkfs.btrfs`,
`tee`, `systemctl`, `btrfs`) and each statement is a step; `Fail` ends a request
at any of them, as every handler does with an error and without undoing
anything, and `Crash` and `Reboot` end all requests.

| model | code |
|---|---|
| `disk` | what `blkid` and `btrfs filesystem show` would say of a device: nothing, the system, or a filesystem with its uuid, its devices and its `data` subvolume |
| `mount` | `/proc/mounts`, by path |
| `unit`, `enabled` | the unit file of a path, naming a uuid, and its link to `local-fs.target` |
| `storage`, `pool`, `devs` | the rows of `storage`, `storage_pool`, `storage_pool_device`; a pool and its storage share an id |
| `HandleCreatePool` ... `AddPool` | `CreatePool`, from the search for a path to the rows |
| `CheckDevice`, `FreeDevice`, `WipeChecked` | `forcePreparePoolDevices`, device by device |
| `HandleFormatPool`, `Dismount`, `DisableUnit`, `RemoveUnit`, `WipeOwn`, `MakeFilesystem` ... `Refresh` | `FormatPool` |
| `HandleDeletePool`, ..., `DropPool`, `DropStorage`, `FindUnmounted`, `CleanupMountPath` | `DeletePool`; as `erase`, with `WipeDevices` |
| `HandleReplaceDevice`, ..., `ReplaceDevice`, `UpdateDevice` | `ReplaceDevice` |
| `Reboot` | systemd starts the enabled units whose filesystem is complete; `nofail` lets any of them be missed |

A path is a hash of the name, and the two are one. Pools with no data lose
nothing that the properties could see, so one flag stands for the content of a
filesystem. What happens at a path that is not mounted is left out, except that
`RemoveAll` and `rm -rf` empty a filesystem that was mounted after the check.
External behaviour used: `mkfs.btrfs` refuses a mounted device and writes a new
uuid; a filesystem mounts when all its devices hold it; `btrfs replace` moves
one device's part and wipes the old device; `enable --now` of an active unit
does nothing.

`sound` is history: the pools whose last creation or format was answered with
success and that no request has begun to take apart. `SoundPools` says that such
a pool is whole (its registered devices hold one filesystem with its data, and
its unit will mount exactly that one) whatever leftovers it was built on. One
point is exempt, and rightly so in this code: between `btrfs replace` and the
update of the row the two disagree, and a failure there leaves them so.

Runs:

* `pools_whole` has two requests at once, two names, three devices of which one is
  a system disk, two ids of pools, and two uuids: those of two filesystems, or of
  one and of a unit left over from another. One pool may span both free devices or
  each have its own, so a device can go from one pool to the next through every
  half-finished request. Deadlock is not checked, as a request whose command
  cannot succeed still ends by `Fail`.

Nothing in the code keeps two requests from working on one name or one device at
the same time (there is no lock per pool or device), and nothing in the model does.
Such requests interleave command by command and do spoil each other's work: a
format and a deletion of one pool, or two creations that have both passed the
check with one device. Two histories say where that has happened, and the
properties are exact about how far it reaches:

* `met` has the names of requests that were at work on one name, or with one
  device, at the same time. `SoundPools` and `DeletedClean` hold of every other
  name, whatever goes on at those that are in it.
* `overtaken` has the devices registered while another request was past its check
  with them, or had taken them from the tables. They are the only ones that
  `RegisteredKept` excuses; every other is wiped only by requests about its own
  pool. This is the race of `devices.go:117`, and the run has it: without the
  excuse TLC finds the device of one pool wiped by the creation of another.

`Apart` is a bound: when TRUE, once two requests have met, a third begins only apart
from those at work and at a name that is not in `met`. Two that have met run to
their ends in every interleaving, and requests elsewhere go on beside and after
them. The proofs do not need the bound, and neither do smaller instances: with two
devices TLC has checked `WInv` with `Apart` FALSE.

A device has one path. The code compares paths (`store.go:169`), so that a link
under `/dev/disk/by-id` to a registered disk, or a partition of it, passes its
check; requests that name one device by two paths are left out, and
`RegisteredKept` says nothing about them.

*Proved* (`PoolsProofs`), for any devices, names, uuids and requests, and whether or
not requests meet: types (with the cascade: a device row has its pool) and
`SystemDiskKept`. Only a creation and a replacement look for system mounts; that
no other request touches a system disk holds because devices enter the tables
only through them. The invariant (`Checked`) follows a device from the check to
the row: no registered device is a system disk, nor is one that a format or a
deletion has read, nor one that a creation or a replacement has already dealt
with; and when `mkfs.btrfs` or `btrfs replace` starts all are dealt with. `InPlace` ties
each point of a handler to the requests that come to it.

*Proved* without hypotheses as well, for any failures, crashes and reboots between
two commands: `RegisteredKept`, `SoundPools` and `DeletedClean`. The first needs
`RInv`: a registered device that was not overtaken has one pool (`Owned`), and the
requests that may write on it (`Has`) are about that pool. The other two need a
longer invariant, `WInv`, whose parts speak of the names outside `met`:

* `Orderly`: what holds at all names: who is at rest has no name, a storage row
  keeps its name, a uuid belongs to one filesystem;
* `Separate`: requests with a name or a device in common, pools with a device in
  common, and a request that may write on another's device, have met;
* `Identified`: the unit of such a name is the only one to name its filesystem, and
  what is mounted there is what the unit names;
* `Settled`, `Dealt`: what a request may rely on in the tables, and that the
  devices that it has checked, or taken out of the tables, are nobody's;
* `Down`: what a request has unmounted, disabled or removed at its path stays so;
* `Built`: what it has built on its devices stays there, from the new filesystem
  (`Marked`) over the unit that names it (`Carries`) to the pool that starts at
  boot with its data (`Stocked`);
* `Standing`: a pool in `sound` has all of this, but for the point after the swap.

The argument is one of frames: a request writes on the devices it has and on the
mount and unit of its own name only. What it has, another request or pool can only
have as well if the two have met, and then at least one of them is given up; the
lemmas on frames show that the parts survive for every other request and pool, and
the lemma of an action has only its own request and pool left. That a meeting
itself disturbs nobody else is shown once, where requests begin (`Meet`).

## 7. Snapshots: `Snapshots`

*Actors* are requests about one pool; the uploads that go on meanwhile are the
action `Store`. Each btrfs command and each statement is a step, any of them may
fail (`Fail`), and `Crash` ends all requests. Nothing is locked in the code, and
nothing is in the model.

| model | code |
|---|---|
| `kind`, `files` | what lies at the pool's `data`: a subvolume, a plain directory, nothing; its files |
| `shape`, `held` | what lies at each path of a snapshot, read-only, writable, or with a subvolume nested in it; its files |
| `rows`, `source` | `storage_pool_snapshot`: the id by path, and `source_path` |
| `CreateSnapshot`, `TakeSnapshot`, `RecordSnapshot` | `CreateSnapshot` |
| `DeleteSnapshot`, `Erase`, `DeleteSnapshotRecord` | `DeleteSnapshot` |
| `RestoreSnapshot`, `BackUp`, `RecordBackup`, `DropData`, `InstallSnapshot` | `RestoreSnapshot` |

`begun`, `erased` and `promised` are history: the files a request found when it
began, the snapshots that a deletion removed, the files that a restore left to
its backup. `btrfs subvolume snapshot` is external: it refuses a source that is
no subvolume and goes below its target when that exists.

Run `snapshots_restore`: two requests, two files, a name, a backup, three ids. One
backup name suffices because two restores in the same second share it, which is
the hard case; two files tell apart what was there before and what came since.

*Proved* (`SnapshotsProofs`), for any requests, files and names: types,
`BackupHolds`, `OneInstalls`, `RecordedIsThere`. The invariant says what a request
that stands before a step has made (`InPlace`), that a restore about to destroy
has its backup (`BackedUp`), and that what is at a path has a shape its commands
can make (`Shapes`). That two restores never stand together past the deletion is
not obvious, as no lock sees to it: it holds because the deletion is refused
when the data are gone or are no subvolume.

What the code does not promise: a restore that fails or dies between deletion and
snapshot leaves the pool without data, and no later restore can succeed; an
upload in that gap makes a plain directory, the snapshot goes below it, and the
restore still reports success; what is uploaded between the backup and the
deletion is lost; a deletion whose row stayed leaves a row that cannot be
deleted; a deletion decided on an old list may remove a snapshot made anew
under the same path.

## 8. Automatic snapshots: `AutoSnapshots`

Time is a number of slots, the first of each day its midnight. The worker reads
the pools, queues what is due one statement at a time, then claims and runs the
oldest job; users change schedules and pause, resume or drop jobs between any
two of these steps.

| model | code |
|---|---|
| `pool` | `auto_snapshot_enabled`, `auto_snapshot_schedule`, `auto_snapshot_next_at` |
| `job` | rows of `jobs` of this type that have not ended |
| `worker`, `stop` | the worker's locals and the rows it has read, the stop reason of the running job |
| `UpdatePool` | the request that sets a pool up |
| `ListPools`, `CheckWaiting`, `UpdateAutoSnapshotQueued`, `enqueueAutoSnapshotJob` | `enqueueDueAutoSnapshotJobs` |
| `claimNextPendingJob`, `LoadPool`, `MakeSnapshot`, `UpdateAutoSnapshotSuccess`, `updateSuccess` | `runAutoSnapshotJob` |
| `NextAutoSnapshotTime`, `nextAutoSnapshotAfter` | the functions of these names |

`since`, `made` and `amiss` are history: when a pool was last set up, queued or
snapshotted; the last occurrence that got a job; and that the row's next time
was written from a row read too early, or that a job was lost after it was
moved. `amiss` is the honest limit of `NextIsFirst`: `UpdateAutoSnapshotQueued`
and `UpdateAutoSnapshotSuccess` write what they computed from a row that the user
may have changed, and the job is inserted after the row was moved.

Run `autosnapshots_due`: a week of three days, two slots a day, two weeks; a
daily schedule and one of one day in the week; one pool (pools only share the
worker, which takes them in turn); two jobs, so that a second can be made while
the first waits, runs or is paused; one fault. *Fairness*: the worker's loop goes
on and a heartbeat that stopped is noticed. Nothing is assumed of users or of
the clock; `HeldUp` names what they can do: whoever resumes and pauses a job in
time keeps the pool from being queued.

*Proved* (`SnapshotsProofs`), for any pools, jobs, length of the week and of the day,
calendar and number of faults (a natural number: `FaultsAssumption`):

* `NextIsFirstDate`: `NextAutoSnapshotTime`, which looks only at the next midnights
  up to the same day next week, is `First`, the least allowed moment after the
  time, and does not fail;
* `AfterIsNext`: the loop of `nextAutoSnapshotAfter`, a recursive function, ends at
  the value of `NextAutoSnapshotTime`, however many occurrences were missed. The
  induction goes by the least element of a set of numbers (lemma `Least`, from the
  properties of finite sets): a time at which the two differ has a later one;
* `NextIsFirst`, `OneWaits` and `AtMostOnce`, from the invariant `AutoInv`. `Dated`
  says that nothing is dated in the future and what the worker holds at each
  point; `Fresh`, that what is still to be queued was read due, at an occurrence
  that no job was made for, and that an enabled row is past those that have one;
  `Clear`, that between the check for waiting jobs and the insertion of one only
  a resumed job can have come to wait; `Moved`, that in between the row has the
  first date after the reading, or after it was set up if that was later. `amiss`
  and the jobs' `resumed` are the limits, as in the run.

Left out: the schedules by name (`hourly`, `daily`, `monthly`), which
`UpdatePool` refuses to store; changes of the clock and of the zone.

## 9. Transcodes and thumbnails: `Media`

| model | code |
|---|---|
| `hlsJobs`, `state`, `completed`, `cancelled` | the map, and of each job its goroutine (with the three deferred calls apart), its flag, its context |
| `idle`, `noticed` | time since `lastAccess`; the watcher has read it and will cancel |
| `manifest` | `index.m3u8` in the directory |
| `lock`, `tmp`, `mp4` | the lock per file, the temporary and the MP4 |
| `frame`, `thumb` | the frame taken from the video and the thumbnail |
| `HandleHLSManifest`, `StartHLSJob`, `TouchJob`, `SeeManifest`, `SeeDone`, `TimeOut` | a viewer of the stream |
| `WriteSegment` ... `CloseDone`, `Notice`, `CancelIdle` | the job's goroutine and its watcher |
| `HandlePlayableContent` ... `Send` | `HandlePlayableContent`, `transcodeToMP4` |
| `HandleThumbnail` ... `Release` | `GetOrCreateThumbnail` and its slots |

Run `media_caches`: two viewers, two jobs (two lives of one stream's transcode), one
tick to the viewer's limit and one to the watcher's, one slot. The limits of the
code, 45 seconds and two minutes, matter only by their order, which
`LimitAssumption` states; with equal limits the run has the closest race. Time may
pass at any point but past a limit that somebody is to act on: a goroutine is not
delayed by the 75 seconds between the two. *Fairness*: goroutines that can go on
do, locks and slots are handed on in turn, and a cancelled context kills
ffmpeg. The ffmpeg of a stream may hang for ever, and both liveness properties
hold in spite of that.

*Proved* (`MediaProofs`), for any viewers, jobs, limits and slots: types,
`OneWriter`, `WatchedIsKept`, `EncodedOnce`. The invariant ties the entry of the map
to the one job at work (`Mapped`), the time a viewer has waited to the time its
job was last touched (`Fresh`), and the lock to who encodes (`Locked`).

What the code does not promise: a viewer who looked for the manifest before a
transcode ended and comes to the map after starts a second one over the finished
stream, and cancelling that removes it; a playlist cut by a crash is served from
then on, and so is a thumbnail that was not wholly written; one viewer's stop
cancels for all; the watcher may cancel for a viewer who came just after it read.

## 10. The event stream and benchmarks: `Streams`

| model | code |
|---|---|
| `handler`, `done`, `events`, `out` | the loop of `HandleEvents`, its context, its channel, the event being written |
| `sampler`, `bench`, `sent` | the producers, and how many events the benchmark has put |
| `Put` | `emit`: room in the channel, or the end of the context |
| `file`, `own`, `remote` | `.yesnas-benchmark.tmp` of a pool; the local and remote files of a cloud benchmark, named after it |
| `Resolve` ... `EmitResult` | `BenchmarkPoolStream`, `BenchmarkCloudPoolStream`, `BenchmarkGoogleDrive` |

Run `streams_serve`: one connection that samples and benchmarks, so that two
producers meet at one channel. The channel holds three events and each stage of a
benchmark makes three, so that several events of both wait in it in every order,
it fills, and it drains part-way; with 32 it fills later, with the same choices.
Connections share nothing but the file of a benchmark, and a read that fails
because another benchmark has removed it is one of the failures that any command
may have; the proofs are for any number of connections. *Fairness*: commands end, at the latest with their context; a select does
not pass over the end of its context for ever. Nothing makes a client read, and
`LeaverFreed` does not need it to.

*Proved* (`StreamsProofs`), for any clients, channel and length of a benchmark: types,
`EveryEventInOrder`, and `TemporariesOwned`: the temporaries of a benchmark
outlive it only through a crash or a removal that failed.

## 11. Files and trash: `FileOps`

Files and folders have an identity, and `place` says in which folder under which
name each is; a path is resolved anew at each step, as the kernel does.
Each check, removal, rename, copy and statement is a step that may fail;
`Crash` ends all requests.

| model | code |
|---|---|
| `recorded` | rows of `recycle_bin` |
| `Check` | `resolveConflictTarget`, `nextAvailablePath` |
| `HandleRename`, `HandleMove`, `HandleCopy`, `removePath`, `movePath`, `copyPath` | the handlers, and the functions of these names with their fallbacks |
| `HandleDelete`, `AddRecycleBinItem`, `RollBack` | `HandleDelete` |
| `HandleCreateFolder`, `Upload`, `StatTarget`, `persistUploadedFile` | new folders, and the end of an upload |
| `Yields`, `Arrive`, `Spots` | `rename(2)`, and `mv` and `cp`, which go into a folder |

`safe` is history: of each request the items it found at its start, was not asked
to overwrite, and nobody moved since. `OnlyNewcomersLost` says exactly how far the
gap between check and rename goes: what is lost came to the target after the check.

Run `fileops_tree`: two requests, two files, a folder, two names. A folder is needed for
a target that becomes one (so that `mv` goes into it) and for a target within
its source; the second file is the newcomer.

*Proved* (`FileOpsProofs`), for any requests, items and names: types,
`OnlyNewcomersLost`, `RecordedInTrash`, `NothingStranded`. The invariant: no
spot has two items and every parent is there (`Sound`), two deletions never hold
one item (`Apart`), and each request is aimed at nothing that it keeps safe and
keeps the folders of what it keeps safe (`Good`).

What the code does not promise: a move that fails after it removed its target has
lost the target; a child moved onto its own parent with overwrite takes the
source along; the name and type in a row may be of another item, which took the
path between `stat` and rename; uploads and new folders below the trash are not
refused. Left out: the stats that only refuse earlier what fails later, the
content of copied folders, a `mv` across devices that is cut, and favourites,
which nothing adds. There is no operation that restores or purges.

## 12. Cloud and network storages: `Cloud`

*Actors* are requests, the monitor and the worker's token refresh. Every call of
the broker, statement, command, and read and write of `rclone.conf` is a step.

| model | code |
|---|---|
| `conn`, `known` | the row of the device with its key; the key the broker knows |
| `session` | the session at the broker and its row |
| `rows`, `tokens` | rows of `storage`; those with rows in the two tables of tokens |
| `conf`, `mount` | sections of `rclone.conf`; how a storage is mounted (a mount that others may use, or not) |
| `StartCloudOAuth` ... `SaveToken` | `StartCloudOAuthViaBroker`, `CompleteCloudOAuthViaBroker` |
| `ReadConfig`, `TakeConfig`, `WriteConfig` | `upsertGoogleDriveRcloneConfig`, `removeGoogleDriveRcloneConfig` |
| `LookDrive`, `MountDrive`, `LookShare`, `MountShare` | `EnsureGoogleDriveMounted`, `EnsureNetworkStorageMounted` |
| `CreateNetworkStorage`, `AddShare`, `CleanupMountPath` | `CreateNetworkStorage` and its undoing |
| `DeletePool` ... `RemovePath` | `DeletePool` for storages of these kinds |
| `ListStorages`, `CheckStorage` | the monitor's round |
| `Die` | the process dies, maybe amid a write of the file; or the machine reboots |

A read meets an empty file while somebody writes it, since `os.WriteFile`
truncates first. `met` and `stray` are history: storages that were deleted while
another actor was at them, and shares whose creation was cut off before it
ended. They are the limits of `NothingLeft` and `FilesKept`: the code excludes
neither, and `rm -rf` of a mount point can go into a drive that the monitor has
mounted again from a list it took before.

Run `cloud_links`: two drives and a share, one session, two keys, two requests at
once, one fault. A new device gets three requests (a link begun twice and
completed, or a share created, benchmarked and deleted); a registered one with any
of the storages, whose drives are unmounted or mounted for root alone, gets one
more beside the monitor and the refresh. Two drives are needed for a
section to be lost by the writing of another. With two there instead of
one (8.3 million states) the safety properties hold as well; that takes longer than
a run should. *Fairness*: the
monitor's ticker goes on, and what a request that has begun waits for ends;
requests and faults are bounded by `budget`, so `Heals` speaks of what is left
when they end: every storage with a token gets its section and its mount back.

*Proved* (`UploadsProofs`), for any storages, sessions, keys and requests and any
number of faults: `RegisteredKnown`, `NothingLeft`, `FilesKept` and types, from the
invariant `CloudInv`:

* `Stands`: where each actor can stand, for what and for whom, and that it holds a
  copy of the sections only between the read and the write;
* `Keys`: the broker knows no key but that of the row, and whoever is to mark the
  row registered has had that key registered;
* `Listed`, `Alone`: whoever is at a storage, its id was given out; a token has its
  row; nobody is at a share that is being created but its creator;
* `Cleared`: once a deletion has taken the section out, or unmounted the storage,
  this stays so unless another actor is, or was, at the storage;
* `Vanished`: a storage whose row is gone has no section and no mount, and no actor
  is left that could make one: none has its section in its copy, none links,
  watches or benchmarks it.

One lemma, `Moves`, says once what a step of one actor that makes no storage has to
see to for all of this; most actions are instances of it, and the three that make
a storage or its row (`CreateOrReconnect`, `CreateNetworkStorage`, the end of a
creation) have proofs of their own. The constants are assumed to be
what they stand for: ids of storages and sessions are apart, `Nil` is neither an id
nor a key nor a row (`StorageAssumption`, `KeyAssumption`), and a key can be
generated.

Left out: the status and figures of a row (a failed mount after which the usage
can still be read is shown as online); the account's identity; OneDrive and
Dropbox, linked alike but not looked after by the monitor, so that they are not
mounted again after a reboot; which of two tokens is the newer (a refresh may
overwrite one that a renewed link has stored); the tokens that rclone writes
into the file by itself; the pool rows that a listing re-creates. The exchange
at the broker is done once: a failure after it leaves a storage without a token,
which the monitor passes over.

## 13. What is only model-checked, or not modelled

Model-checked only: liveness (`QueueDrains`, `Answered`, `AbandonedEnds`,
`LeaverFreed`, `DueIsTaken`, `Heals`) and one half of `NobodyStuck`, because
fairness and ENABLED are out of the prover's reach: that what the next step of a
request needs is there (`Ready`), or that it waits for a transaction of which
this is true, is proved (`NobodyWaitsInVain`); that there is then a step is not. Every other
property of a passing run is a theorem, and none has a hypothesis.
Deadlock is not checked in runs where every request may be done and ids, jobs or
faults have run out.

Not modelled:

* in `Jobs`, progress and messages, payloads that cannot be decoded, and requests
  whose first read fails; in `Uploads`, HEAD, which only reads, sudo
  fallbacks (which do what the plain calls do), a copy across devices (temporary
  files lie under the mount of their storage), and dishonest or changing content;
* in `Accounts`, names, avatars and descriptions, with the two operations that
  write nothing else, and the rows of the audit log;
* in `Pools`, RAID rules and sizes, legacy fstab entries, a device that
  disappears, and a device named by two paths, of which the code's check (equality
  of paths) takes one for unregistered;
* in `AutoSnapshots`, daylight saving, by which a midnight may be missing or come
  twice; in `Cloud`, an rclone daemon that dies and leaves a listed mount;
* file sharing, whose requests write one row in one statement or run one
  `systemctl`; Docker and system monitoring, which run commands or read `/proc` and
  parse what they find (the readers of a pull's two outputs share nothing but a
  mutex around what they write and the percentage shown); the audit log, which
  appends rows and filters them; the router. What could be wrong with them is in
  parsing and formatting, of which the models say nothing.

External behaviour is modelled from its use: SQLite executes a statement
atomically; `os.Rename` and `os.Remove` are atomic, `os.WriteFile` is not; an
open file survives the removal of its name; Drive never shows a file that is not
complete; btrfs, systemd, ffmpeg, rclone and mount as said in each section.

## 14. Findings

* `accounts_last_admin`: a deletion counts two administrators, the other one is
  deleted or loses the role before it deletes, and none is left. The run's counterexample is against the promise that
  `users/handler.go` makes in its message.

Five more disagreements between a message or comment and the code were met while
modelling; they are part of the models, and the properties above are stated so
as to hold in spite of them:

* a cancel that read `running` overwrites `success` or `failed`, because
  `updateCancelled` does not look at the status (`CancelRow` in `Jobs`);
* a sweep fails a job that is no longer stale, because its update looks at the
  status and not at `updated_at` (`SweepMark` in `Jobs`);
* two uploads to one path both pass the check for an existing file, and the
  second replaces the first (`Persist` in `Uploads`, `StatTarget` in `FileOps`);
* the bytes of a PATCH that is refused for its length stay in the file, and the
  upload may later be stored with one byte too many (`spoiled` in `Uploads`);
* two creations at the same time both find a device unregistered, and it ends up
  in two pools, of which the second has wiped the first (`overtaken` in `Pools`).
