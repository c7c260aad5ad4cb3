# A TLA+ verification of udisksd

`udisksd` lets unprivileged programs mount, unlock, set up and remove storage
over D-Bus, and cleans up behind them when a device disappears.  Method calls
run in threads of their own, uevents arrive from udev through a probing thread,
file systems come and go by other hands, and a clean-up thread works on three
kinds of lists kept in small state files that outlive the daemon.  This project
models those interactions, checks them with TLC and proves what matters most
with TLAPS.

Contents: [inventory](#inventory) - [modules](#modules) -
[MountState](#mountstate) - [StackCleanup](#stackcleanup) -
[MethodCalls](#methodcalls-and-the-handlers) - [Jobs](#jobs) - [DeviceJobs](#devicejobs) -
[DeviceTables](#devicetables) - [runs](#runs-and-bounds) - [proofs](#proofs) -
[findings](#findings) - [what is left out](#what-is-left-out) - [plan](#plan).

## Inventory

| Component | Source | State | Operations | Hard because |
|---|---|---|---|---|
| Mount and unmount | `udiskslinuxfilesystem.c` | the `MountPoints` property, a lock per Filesystem interface | `Mount`, `Unmount`, and the maintenance calls (`SetLabel`, `Resize`, `Check`, `Repair`, `TakeOwnership`, `SetUUID`) | calls on several devices at once, an administrator's mounts, a device that goes away half-way, a directory to create and to remove |
| State and clean-up | `udisksstate.c` | `mounted-fs`, `mounted-fs-persistent`, `unlocked-crypto-dev`, `loop`, `mdraid`, `modules`; their cache; `state->lock`; the clean-up thread and its main context | `add_*`, `find_*`, `has_*`, `check`, `check_block` | two phases over stacked devices, steps that fail, files that survive crashes and reboots |
| Block objects | `udiskslinuxblockobject.c`, `udiskslinuxblock.c` | the D-Bus object of a device, its clean-up lock | lock, try-lock, release; `Format`, `Rescan`, opening devices | an object may be removed and replaced while a handler holds it |
| Provider | `udiskslinuxprovider.c`, `udiskslinuxdevice.c` | tables from sysfs paths to objects, the queue of probe requests | `on_uevent`, probing, `handle_uevent`, coldplug, housekeeping | two threads, synthetic uevents with a time-out, spurious uevents |
| Daemon | `udisksdaemon.c`, `udisksdaemonutil.c`, `main.c` | owns everything above; jobs; object manager | start-up, `wait_for_object_sync`, launching jobs, `trigger_uevent_sync` | start-up order, late answers |
| Jobs | `udisksbasejob.c`, `udiskssimplejob.c`, `udisksthreadedjob.c`, `udisksspawnedjob.c` | the job object, a thread or a child process, a cancellable | start, `start_sync`, cancel, complete | cancellation against completion, reaping children, completion exactly once |
| Mount monitor | `udisksmountmonitor.c` | a cache of `/proc/self/mountinfo` and `/proc/swaps` with checksums, the list last signalled | queries, `reload_mounts` | queries from any thread against reloads in the main loop |
| Encrypted devices | `udiskslinuxencrypted.c` | `unlocked-crypto-dev` entries, a lock per block | `Unlock`, `Lock`, key slots, `Resize`, `Convert` | device-mapper numbers are reused; the cleartext object appears later |
| Loop devices | `udiskslinuxloop.c`, `udiskslinuxmanager.c` | `loop` entries | `LoopSetup`, `Delete`, `SetAutoclear` | backing files that vanish |
| MD RAID | `udiskslinuxmdraid.c`, `udiskslinuxmdraidobject.c` | `mdraid` entries, a sync job | `Start`, `Stop`, members, bitmap, sync action | a job that follows a kernel thread |
| Partitions | `udiskslinuxpartitiontable.c`, `udiskslinuxpartition.c` | none of their own | create, delete, resize, flags | the new object is waited for |
| Drives, ATA, NVMe | `udiskslinuxdrive*.c`, `udisksata.c`, `udiskslinuxnvme*.c` | SMART data, selftest / format / sanitize jobs | `Eject`, `PowerOff`, selftests, secure erase, format, sanitize | long jobs exclusive of each other, polled and cancellable |
| Module manager | `udisksmodulemanager.c`, `udisksmodule.c` | loaded modules, the `modules` state file | `EnableModules`, `EnableModule` | crash recovery of what was enabled |
| LVM2, ZFS | `modules/lvm2`, `modules/zfs` | objects for groups, volumes, pools | delayed, coalesced updates | an answer for a state that has changed since |
| BTRFS, iSCSI, LSM | `modules/btrfs`, `modules/iscsi`, `modules/lsm` | little | wrappers around tools and libraries | - |
| Configuration | `udisksconfigmanager.c`, `udiskslinuxmountoptions.c`, fstab / crypttab / utab entries | parsed text | lookups | - |
| Client library, tools | `udisks/`, `tools/` | a D-Bus client's | presentation | - |

How they interact: a D-Bus handler thread takes the lock of its interface, then
the clean-up lock of its block object, then `state->lock` for as long as it
reads or writes a state file.  The clean-up thread holds `state->lock` for a
whole pass and only *tries* clean-up locks.  The main thread runs the provider's
uevent handlers and the mount monitor's callbacks, refreshes the D-Bus
properties and queues checks in the clean-up thread's context; it never takes a
clean-up lock, and `state->lock` and the locks of the interfaces only for as long
as it brings one exported object up to date.

`PROJECT.json` lists the components with what is modelled of each, and the
hazards - the places where this code can go wrong and a test would hardly
reach - with the properties that cover them.

## Modules

| Module | Models |
|---|---|
| `MountState` | mounting, unmounting, the two `mounted-fs` files and the clean-up thread |
| `StackCleanup` | encrypted, loop and RAID devices that udisksd sets up, the three state files that list them, and both stages of a clean-up pass |
| `MethodCalls` | the threads of D-Bus method calls with their mutexes, jobs, uevents and waits; the probing, the main and the clean-up thread |
| `HandlerAlone` | what `MethodCalls` comes to for one thread: the abstract specification that each of its threads implements |
| `HandlerSteps`, `HandlerHelpers` | the vocabulary in which a handler is written down; how a helper becomes part of its caller |
| `BlockHandlers` | the methods of Block, Filesystem and Encrypted |
| `StorageHandlers` | Swapspace, Loop, Partition, PartitionTable, MDRaid, Manager and the methods that load modules |
| `DriveHandlers` | Drive, Drive.Ata and the NVMe interfaces |
| `LVM2Handlers`, `ZFSHandlers`, `ModuleHandlers` | the methods of the modules (the last: BTRFS, iSCSI, LSM) |
| `AllHandlers` | all of them together: the programs of `MethodCalls` and `HandlerAlone` |
| `Jobs` | simple, threaded and spawned jobs, from launch to disposal |
| `JobPromise` | what the Job interface promises its clients: the abstract specification that `Jobs` implements |
| `DeviceJobs` | the jobs that follow an operation of a drive: ATA and NVMe self-tests, sanitize, the formatting of a namespace |
| `DeviceTables` | the provider's tables and the way of a uevent to them, start-up, coldplug, housekeeping |
| `MC...` | small instances of the module they are named after |
| `MountStateProofs`, `MountCleanupProofs`, `StackCleanupProofs`, `MethodCallsProofs`, `JobsProofs`, `DeviceJobsProofs`, `DeviceTablesProofs`, `DeviceStackProofs` | inductive invariants and the theorems that follow; `MountCleanupProofs` builds on `MountStateProofs`, `DeviceStackProofs` on `DeviceTablesProofs` |

The components share a few things, and each looks at the others' part through an
abstraction.  For `MountState` the first stage of a pass dooms any subset of
`Stacked`; for `StackCleanup` a device has a file system and an entry for it or
not; both contain the locking that connects them.  `MethodCalls` knows the state
files and the clean-up thread only by their locks, what a uevent does only by
whose changes it makes visible, and jobs only by their outcome; what it leaves out of each
is in `MountState` and `StackCleanup`, `DeviceTables` and `Jobs`.  `DeviceJobs`
takes from `Jobs` that a job which was launched ends once.

## MountState

State, and where it is in the code:

| Variable | In the code |
|---|---|
| `media`, `mnt`, `dirs`, `uevents` | the kernel, udev and the file system tree |
| `exported`, `gen` | the provider's block objects; `gen` counts how often the object of a device was replaced, since a replaced object has a clean-up lock of its own |
| `known` | the `MountPoints` properties together with the list the mount monitor last signalled |
| `files` | the two state files (their cache always agrees with them here) |
| `lockOwner` | `state->lock` |
| `checkQueued` | an idle source of the clean-up thread's context; several of them do no more than one |
| `doomed` | `devs_to_clean` |
| `scan` | the locals of `udisks_state_check_mounted_fs` and `..._entry`: which file, which entries are still to be examined, which are kept, the entry at hand and how far its clean-up is |
| `pc`, `op`, `obj`, `hmp`, `made` | the handler threads: where they are, `Mount` or `Unmount`, the object they took, `mount_point_to_use`, `dir_created` |
| `ours`, `foreign`, `disturbed` | history that no action reads |

The clean-up lock of a block object and the lock of a Filesystem interface are
not variables: who holds them follows from the program counters
(`HoldsCleanup`, `FsLocked`, `scan.held`).

Actions of the clean-up thread: `StartPass` (`udisks_state_check_in_thread`),
`CheckEntry` (one entry, up to the decision to keep it), `LazyUmount` /
`LazyUmountFails`, `RemoveDirectory` / `RemoveDirectoryFails`, `SaveFile`.  The
same actions run in a handler for `udisks_state_check_block`.  What phase one of
a pass finds dead among encrypted, loop and RAID devices is any subset of the
devices in `Stacked` that have an entry.

Actions of a handler, in order: `Call`, `LockFilesystem`, `LockForCleanup`,
`StartCheckBlock`; for Mount `PrepareMount`, `CalculateMountPoint`,
`MakeDirectory`, `Mount` or `MountFails`, `RecordMount`; for Unmount
`PrepareUnmount`, `FindMountPoint`, `Unmount` or `UnmountFails`, and a second
`StartCheckBlock`; for both `TriggerUevent`, `Release`, `Recheck`, and `Refuse`
wherever an authorization or an argument may fail.

The main thread: `ProcessUevent` (provider), `ReloadMounts` (mount monitor).
The world: media pulled and inserted, devices plugged and unplugged, root's
mounts and unmounts, uevents of other devices, and `Restart` - the daemon killed
at any point and started again, with or without a reboot in between.

What is abstracted, and why it does not matter to the properties: the user id in
an entry only selects an authorization, which the model refuses or grants
freely; a clean-up of an entry reads mountinfo and sysfs in one step although the
code reads them one after the other under a lock that does not stop the kernel
either; the retry loops of `bd_fs_mount` over file system types and over
authorization end in one success or one failure; two fstab lines never name one
device or one mount point.

Properties:

* `TypeOK` - the one type invariant.
* `LiveMountRecorded` - a file system a handler mounted and that is still mounted
  has an entry or a handler about to write it.
* `NoStrayDirectory` - a directory a handler created is removed or named by an
  entry through which it will be, but for those in `foreign`: see below.
* `OneEntryPerMountPoint` - a file never holds two entries for a mount point.
* `BusyDeviceUntouched` - the clean-up thread neither unmounts nor forgets a
  device while a handler works on its object.
* `CallsReturn` - no order of the three locks leaves a call waiting; where checks are
  asked for without end `state->lock` may always go to the clean-up thread, and the
  property says nothing.
* `GoneDeviceForgotten` - when a device is gone for good, so are its entries, where no
  clean-up step fails and root leaves the mount points alone: otherwise the entry
  waits for the next check, as in the property after this one.
* `StaleEntryForgotten` - an entry kept because a clean-up step failed is cleaned
  up by a later check.

Three windows have no remedy in the code and are excepted by name, not by a bound:
the daemon killed between `bd_fs_mount` and `udisks_state_add_mounted_fs`
(`foreign`, `ours`); root mounting on a directory udisksd created (`foreign`);
and a mount point unmounted between those two calls (`disturbed`) - the entry
written next then names a mount that is gone and may replace the newer entry of
another handler that mounted there meanwhile.

One more exception of `NoStrayDirectory` is no accident: the mount point of an fstab line
is made as well (`handle_mount_fstab`, `udiskslinuxfilesystem.c:968`), and once a file
system was mounted on it nobody removes it again, neither `handle_unmount` nor the clean-up,
which leaves an entry with `fstab-mount` its directory (`udisksstate.c:817`).  `Mount` enters
it in `foreign`.  Until then it is like any other: made for a mount that fails, it goes again
(`MountFails`).

Fairness (`FairSpec`): every thread of the daemon runs - weak fairness of
the clean-up thread's steps, of each handler's, of each uevent's processing and
of the mount monitor's reload.  The world owes nothing.  A `GMutex` makes no
promise to a waiter when others keep taking it: that is why `CallsReturn` is about
behaviours without an endless supply of checks, and why `StaleEntryForgotten`,
which needs one (`[]<>checkQueued`), also has the return of each call as a
premise.  Which of the two a behaviour is about follows from the budget it begins
with.

## StackCleanup

A *foundation* (`Base`) is what can be set up: a crypto device, a file, an array.
A *device* (`Dev`) is a dm, loop or md number; numbers are used again.

| Variable | In the code |
|---|---|
| `present`, `back`, `mounted`, `autoclear`, `uevents` | the kernel and udev: crypto devices plugged in, what is behind each number (for a crypto device this is what `dm/uuid` identifies, for a loop device what `loop/backing_file` shows), which numbers have a file system mounted |
| `known`, `view`, `gen` | the objects on the bus: `view[d]` is the `CryptoBackingDevice`, the backing file or the array the object of `d` shows |
| `files` | `unlocked-crypto-dev`, `loop`, `mdraid` |
| `fs` | the devices in `mounted-fs` |
| `lockOwner`, `checkQueued`, `doomed` | `state->lock`, the clean-up thread's idle source, `devs_to_clean` |
| `scan` | where `udisks_state_check_in_thread` is: the stage, the file, the entries still to be examined and kept |
| `pc`, `op`, `arg`, `lock`, `dev` | the handler threads |
| `ours`, `disturbed` | history that no action reads |

A pass is `StartPass`; `Decide` for each entry of the three files and `Decided`
between them (`check_only`: nothing is torn down, `devs_to_clean` is collected);
`KeepFs` or `CleanFs` for each entry of `mounted-fs`, then `FsDone`; and, for
real, `CheckEntry`, `CloseStale` or `CloseStaleFails`, and `SaveFile` after each
file.  Both stages walk the files in the order crypto, loop, mdraid (`After`).

The handlers, each a path through the same steps:

| Method | Steps |
|---|---|
| `Encrypted.Unlock` | `LockForCleanup`, `CheckBlock`, `Check`, `OpenDevice`, `Appears` or `DoesNotAppear`, `Record`, `Release`, `Return` |
| `Encrypted.Lock` | `LockForCleanup`, `CheckBlock`, `Find`, `Close`, `Release`, `Return` |
| `Manager.LoopSetup` | `OpenDevice`, `Record`, `Trigger`, `Return`; no clean-up lock and no check |
| `Loop.Delete` | as Lock; `CloseLater` sets autoclear on a device in use |
| `MDRaid.Start` | `Check`, `OpenDevice`, `Appears` or `DoesNotAppear`, `Record`, `Return`; no lock, no check |
| `MDRaid.Stop` | `Find`, `Close`, `Return`; no lock, no check |
| `Filesystem.Mount` | `LockForCleanup`, `CheckBlock`, `Mount`, `Record`, `Release`, `Return` |

`Refuse` stands for every early return.  The main thread is `ProcessUevent`.  The
world pulls and plugs crypto devices, opens, closes and unmounts as root, moves
backing files, and kills the daemon (`Restart`).

What is abstracted: mount points, which are `MountState`'s subject; several
uevents of a device that wait together are one, because sysfs is read when they
are handled; a foundation is not itself a device of the model, and a crypto
device that is plugged in again while the old cleartext device is still there has
a new number, so it is not the same foundation (`Plug`); root mounts no file
system by hand; the check that the mount monitor asks for after an unmount is
queued at once, which only lets it run earlier; and the wait of `Lock` for the
object to go away is part of `Close`, as only its reply depends on it.

Properties:

* `TypeOK` - the one type invariant.
* `SetUpRecorded` - what a handler set up and is still set up is on record, or
  the handler is about to record it.
* `OneEntryPerDevice` - a number has one entry per file.
* `GoneCryptoForgotten` - a crypto device pulled for good leaves no entry,
  although the cleartext device can be closed, and its entry go, only after the
  file system on it.
* `DeadEntryForgotten` - an entry whose device is gone for good goes, arrays
  excepted.
* `ReusedDeviceLeftAlone` - what a comment says of a device that is not to be
  touched; see the findings.

Excepted by name: a device whose object did not appear within
`UDISKS_DEFAULT_WAIT_TIMEOUT` or whose handler was killed before it recorded it
(out of `ours`); one that another hand tore down before it was recorded, and one
that was mistaken for another because its object was out of date (`disturbed`); a
loop device whose backing file was moved, which the code gives up on purpose.

Fairness (`FairSpec`): weak fairness of the clean-up thread, of each handler and
of the processing of each device's uevents.  In the run of the liveness
properties no step of the clean-up thread fails: after a failing `luks_close` the
entry is kept for the next check, but nothing asks for one.

## MethodCalls and the handlers

A handler is a value: `[body |-> steps, out |-> steps]`, the steps up to and the
steps under its `out:` label.  A step that may fail carries in `fail` what the
handler does before it jumps to `out:`; an early return that passes `out:` by ends
in `Return`.  `HandlerSteps` has an operator for each step that the source's handlers
are made of, `BlockHandlers` and the five modules like it write each D-Bus method with
them, helpers included (`Sub` of `HandlerHelpers` embeds a helper, whose failure becomes the caller's),
and `MethodCalls` says what a step does:

| Variable | In the code |
|---|---|
| `call`, `todo`, `found`, `answers`, `job`, `changed`, `waiting`, `late`, `flocked`, `pools` | a thread of the method-call pool: the method it is in, what is left of it, `object != NULL`, what the caller was sent, the last job it launched, whether it has changed the device, whether it is inside `trigger_uevent_sync`, the waits that gave up, the lock on the partition table, a ZFS pool it changed and what the exported pools show of that |
| `holder` | the mutexes: one for each kind, of the one device all calls are about |
| `unseen`, `queue`, `probed` | changes that the exported objects do not show yet, synthetic uevents on their way to the probing thread, and probed ones on their way to the main thread, each with what it read |
| `wake`, `cleaner`, `rounds` | the clean-up thread |
| `calls` | those still to be made |

`ThreadStep` has an action per kind of step: `Begin` and `End` of a call, `GoOut` to
`out:`, `Choose` for a branch on data, `Send` an answer, `TestStep`, `LookUp` of the
object, `TakeMutex`, `PassThrough` and `LeaveMutex`, `Ask` for a clean-up check, `JobStep`,
`Work` by a tool, `Trigger` a uevent, `PoolStep` on a ZFS pool, `Arrive` where a
wait ends, `TableLock`.  `GiveUpUevent` and `GiveUpObject` are the time-outs.
`Probe` reads the device, `Apply` brings the exported objects up to date and wakes
who waits for that uevent, `AnswerRequest` and `PeriodicPoll` list the ZFS pools,
and `CleanerStart`, `CleanerTry`, `CleanerWork`, `CleanerEnd` are a pass.

What is abstracted: a test of arguments, properties, users, authorizations is a
step that succeeds or fails; a branch on data a choice of its arms; a loop
at most two rounds; which device a call is about, as all are about one; `Change` by
a tool is one change, shown or not.  `/etc/fstab` and `/etc/crypttab` are edited by
steps that may fail.

`HandlerAlone` is one thread of that, with its own variables only.  A mutex it does
not hold is free sooner or later, a uevent it waits for comes back (`UeventComes`), an
object it waits for appears, or the wait gives up; what it has changed may be
exported at any time by another's uevent or by the poll of the pools (`Exported`), and
`hidden` says that it is not yet.  There is nothing else that the rest of the daemon can
do to a handler: that is the theorem `EachRunsAlone`.  `waiting` and `hidden` take
the place of the queues, `held` of `holder`, `gaveUp` of the counter `late`, so that
no bound is left.

Properties of a handler, checked of `HandlerAlone` in the run `handlers` on every path of
every method, without a bound:

* `AnsweredOnce` - on every path, the early returns included, the caller is
  answered exactly once, and never with a success after the last job failed.
* `NothingLeftBehind` - a handler that returns holds no mutex, no running job, no
  lock on the partition table.  One path is excepted by name:
  `CreatePartitionAndFormat` hands that lock to the function that answers, which is
  not called when the format fails (`udiskslinuxpartitiontable.c:685-737`): the
  descriptor stays open and locked.
* `ProperUse` - no mutex is taken twice or given back by another, no job completed
  twice or replaced while it runs.
* `MainNotHeldUp` - nobody waits for the main thread with a mutex the main thread
  needs.
* `SettledAtReply` - a client told of success reads the new properties.  The
  methods in `AnswerBeforeView` neither send a uevent and wait for it nor wait for
  an object, so they promise nothing, and are excepted by name.
* `PoolsAskedFor` - a ZFS method that ends well has asked to list what it changed.

Properties of the threads together, checked of `MethodCalls` in the run `methods`:

* `TypeOK` - the one type invariant; a uevent is of a thread or of the kernel, never of
  one that has returned (`Disowned`: the callback's data was on its stack).
* `HandlersActAlone` - each thread starts and steps as `HandlerAlone` does, whatever the others
  do.  This is the refinement that carries the six properties above over to calls
  that run at the same time: nobody else may give back its mutex, end its wait with
  an older uevent, or unexport its change.
* `CallsReturn` - every call comes to an end.
* `ViewFollows` - once calls stop, the exported objects come to show the devices.

Fairness: weak fairness of each thread's steps, of `Probe`, `Apply`, the listings
and the clean-up thread.  That a caller calls or a wait gives up is nobody's duty:
a call has to return without that.

## Jobs

`mode` says which kind of job a behaviour is about: `simple`, `threadedSync`,
`threadedAsync` or `spawned`.  The other variables are the job object (`exported`),
logind's cookie (`inhibited`), the success of each `Completed` (`signals`), the
work or the command, the thread that handles `Cancel` with the `GCancellable`, and for
a spawned job its main loop: the sources attached (`sources`), those a round has
gathered and not yet dispatched (`batch`), the child, what is to be written to it
and what it still writes.

Actions: `Launch` (`common_job`); `SimpleBegin`, `SimpleEnd`, `SimpleComplete`;
`ThreadedStart`, `FuncBegin`, `FuncEnd`, `ThreadedFinish`; `StartCheck`,
`StartConnect`, `StartSpawn` (the three moments at which a cancellation can
meet the start of a command); `Gather`, then `ReadOutput`, `WriteInput`,
`ChildWatch` or `EmitError` for each source of the round, and `LoopEnd`;
`CancelCall`, `CancelJob`; `ChildOutput`, `ChildExit`.  `Release` is
`udisks_spawned_job_release_resources`, which leaves the idle source that reports an
error where it is: that is what `job_cancelled` is about.

* `PromiseKept` - `Jobs` implements `JobPromise`: the object is on the bus and the
  system inhibited from the launch to the one `Completed`, which comes, and no
  sooner than the work has stopped.  The mapping counts `signals` for the stage of
  the job and takes a queued task for work that has not begun.
* `SuccessIsReal` - success is said only of work that succeeded, and not of a
  threaded job a client cancelled before it completed.
* `NothingLeftOver` - after the call that launched it no object, cookie, source,
  connection or child that was not reaped is left.
* `CompletedOnce` - see the findings.  `Cancelled` names the modes whose jobs
  `jobs` lets a client cancel; a spawned job that is cancelled completes twice
  on some interleavings, and is the subject of `job_cancelled` alone.

Fairness: the launching thread, the task, the loop, a `Cancel` that is under way,
and a command that is not waiting for its output to be read exits at last.

## DeviceJobs

A drive tests, sanitizes or formats itself; a job of the daemon watches it; the
drive's interface keeps a pointer to the job in a *slot* (`selftest_job`,
`sanitize_job`, `format_job`), by which calls exclude each other.  `kind` is the
interface: `ata`, `nvme` (controller) or `format` (namespace).  A call, the
operation it starts and the job have one number.

| Variable | In the code |
|---|---|
| `device` | what the drive does, and whose it is |
| `log` | `smart_*`, `selftest_log` and `sanitize_log` of the interface: of either work, whether the drive was at it when the log about it was read last |
| `slots` | the pointers |
| `stage`, `what`, `cancelled` | each job: where its function is, what it watches, its `GCancellable` |
| `pc`, `op`, `own` | the threads of method calls |
| `seen` | what a thread or a job has read from the drive and not stored yet; a log may be `"unread"` |
| `misses` | how many more readings fail in part |
| `skipped`, `whose` | history: see below |

Method calls: `StartTest` and `LaunchIfNone` (ATA, two critical sections),
`StartAndLaunch` (NVMe, one), `Sanitize`, `StartFormat` and `FormatEnds`,
`AbortTest` and `CancelWatcher`, `CheckSlot` (the loop around `g_cond_wait`),
`Refresh` and `Update`.  Jobs: `Begin`, `Poll` or `PollFails`, `StoreReading`, `Look`,
`FormatPoll`, `Wake` after a sleep, `Leave`, `Complete`; `ClientCancel` is
`Job.Cancel`.  A lock of an interface is held within one action only.

A reading of an NVMe controller (`Read`, `Store`) is of three logs, and
`refresh_smart_sync` succeeds or fails with the one about the health alone.  That the
self-test or the sanitize log could not be read it tells nobody
(`udiskslinuxnvmecontroller.c:408-413`, 445): the log is left as it was (`MayMiss`,
`"unread"`), and a job goes on to look at it.  When it is the log about the health that
fails, the others are put in place and the job ends (`PollFails`).

* `SlotIsLive` - the pointer in a slot is that of a job that is not freed.  Except
  (`skipped`): an ATA job cancelled before its function began never empties the slot
  (`udiskslinuxdriveata.c:1192`); the next test is then refused
  (`udiskslinuxdriveata.c:1255`), and an abort cancels a job that is no more
  (`udiskslinuxdriveata.c:1047`).
* `WatchedToTheEnd` - a job that goes by its own reading of the drive claims to have seen
  the end of its operation only when it came.  `whose` says by whose reading it goes.  It may
  be another's in two ways: another thread stored an older reading between the job's own
  and its look at it; or the job's own reading of the log failed unnoticed before any
  had succeeded, and it looks at what was there when it began.
* `SlotFreed` - when calls stop, and NVMe logs can be read again, the slots are emptied.
* `AloneReturns` - a handler that waits for a job alone returns.
* `WaitersReturn` - so does every one that waits: see the findings.

Fairness: threads run, jobs proceed, a drive comes to the end of what it does.  That
readings fail in part only so often (`misses`) is a bound and not fairness: a log that can
never be read again after it showed the work under way keeps a job that nobody cancels, and
its slot, for good.  A
secure erase, whose flag has no job to poll, is not modelled.

## DeviceTables

`machine` is a machine: its devices, their kind, what they lie on, their VPD and
NQN, what may be on them, and the arrays that udev ever reports a device to run (`arrays`;
a machine with all of them for each device leaves nothing out).  The world (`present`, `label`, `array`, `ready`)
changes it; each change is a uevent in `bus`; the monitor and the probing
thread (`Listen`, `OnUevent`) take it to `posted`; `Apply` on the main thread
applies it to `tables` by `HandleUevent`, which is the composition of the
source's handlers: arrays (`ForMDRaid`), drives (`ForDrive`), blocks (`ForBlock`),
modules (`ForModules`) and subsystems (`ForSubsystem`).  `StartEnumerate` coldplugs
twice; `EnsureModules` (a module is activated) and `UpdateBlockObjects` (fstab or
crypttab changed) bring up to date device by device (`TodoStep`) on the main
thread and so overtake the queue.  Housekeeping runs in its own thread
(`HoldDrives`, `Housekeep`, `HousekeepingDone`) and, for a new drive,
`InitialHousekeeping`.  The tables by path hold no reference: an entry whose object is
freed becomes `Freed`.

A listing of devices (coldplug, `EnsureModules`, `UpdateBlockObjects`) is any sequence
of those there are in the order of their names (`Listings`).

* `EntriesLive` - no entry of such a table outlives its object (one conjunct for each of
  the three tables).  Of the entries by the path of an array device those are excepted that
  are not `Alone`: udev reports one array of two devices in turn.  Of them it is false:
  coldplug's list holds `md0`, which runs array A; before the daemon listens `md0` is
  stopped and `md1` runs A.  Both paths then lead to one object, which is freed when `md1`
  goes, while the entry of `md0`, of which no uevent is to come, stays.  `Renumbered` is that
  machine; without the exception the run `devices` finds it.  Any number of arrays,
  each run by a device of its own and lying on one another, are no exception.
* `BlocksFollow`, `DrivesFollow`, `ArraysFollow`, `CleartextFollows`,
  `SubsystemsFollow` - once the queues are empty the objects, the interfaces of a
  block object, the paths of a drive, the members and the device of an array, the
  cleartext device and the members of an NVMe subsystem are those of the devices
  there are.  Of devices that are not `Alone`, `ArraysFollow` promises their membership in
  arrays, and not what they run.
* `EveryDriveHasItsRun` - a drive has had its housekeeping run or will have it.

`slipped` collects devices one of whose uevents the handlers are blind to
(`Overlooked` has the list: an NQN that could not be read yet, a mapping updated
when it was gone, a superblock that replaced another, ...), since no
later uevent corrects them.  The properties say nothing of these.
A device has one mapping at a time (`Mapped`), under any name: what is unlocked is held
(`udiskslinuxencrypted.c:436`).
Only safety is stated here: that uevents are applied is `MethodCalls`' `ViewFollows`.

## Runs and bounds

The runs are instances in the `MC` modules.  In `MountState` and `StackCleanup` a
budget bounds hot-plug events, what root does, method calls, restarts, failing
clean-up steps and, in `MountState`, whether other devices have uevents; `Budgets`
is a set of them, of which a behaviour begins with one.  Every interesting case
needs one or two of each: two calls are enough for two handlers to meet or for a
handler to meet what an earlier one left; one hot-plug event for a device to go away
under them.  Without such bounds the counters `gen` and the uevent queues would
grow for ever.

| Run | Instance | Shows |
|---|---|---|
| `mount_crash` | 3 devices (one in fstab that the first stage may doom), 2 mount points (one persistent), 2 threads; four budgets: two calls and root; two calls, a hot-plug event, a restart; one call with a hot-plug event, a restart, a failing step, checks without end; one call with root, a failing step, checks without end | what is in the files covers what is in the kernel and on disk, and handlers and clean-up thread keep out of each other's way |
| `mount_live` | 1 device, 1 mount point, 2 threads, three budgets, fair | calls return, gone devices are forgotten, kept entries are cleaned up later |
| `stack` | 2 crypto devices, a file and an array, one dm, one loop and one md number, 2 threads; three budgets: two calls, a move of root's, a failing step, a restart; one call and one each of these with a hot-plug event; two calls, a hot-plug event, a failing step | the safety properties when numbers are scarce and used again; for handlers that take the clean-up lock and for those that take none |
| `stack_live` | a crypto device and a file, a number for each, 1 thread, 2 calls, fair | nothing gone stays on record |
| `stack_reused` | 2 foundations, 1 number | a finding, see below |
| `handlers` | every method of the daemon and of its modules on each of its paths, one call after the other, no bounds | every path of every handler answers once, leaves nothing behind, does not hold up the main thread and has its change exported before it claims success |
| `methods` | the same methods, alone against the clean-up, probing and main threads; `Unlock` and `Mount` also against each other and themselves; one wait per call that gives up, one pass, one probed uevent waiting, fair | to each caller the daemon is a handler that runs alone; every call returns and the objects come to show the devices |
| `jobs` | the four modes, of which all but `spawned` may be cancelled; up to two pieces of input and two of output, fair | jobs implement what the interface promises |
| `job_cancelled` | a spawned job that is cancelled | a finding |
| `device_jobs` | 2 threads, six budgets: all methods of ATA, and of NVMe with a partial reading, 2 calls and a cancellation; all of NVMe, 2 calls, two partial readings; starts and aborts of ATA, 3 calls and a cancellation, and of NVMe, 3 calls; formats, 3 calls and a cancellation; fair | slots, jobs and waiting handlers agree |
| `job_awaited` | one namespace, two calls, fair | a finding |
| `devices` | six machines: two paths to one partitioned drive; a disk and an array device that runs one of two arrays and may be a member of the other; two array devices, one a member of the other's array; an array that either of two devices may run; a crypto device with a mapping under one of two names; an NVMe controller with a namespace; 3 changes of the world, one more while a uevent is on its way, one timer, activation or edit | the tables name only what is there, and the objects follow the devices |

Two calls are what it takes to unlock and to mount or lock; one number for two
foundations makes every reuse happen; three calls to an interface of a drive are a
start and two that meet; three changes are a device that comes, goes and comes back,
or an array that is assembled, loses a member and stops.  A call of a method outside `Racing`
is made alone, with the clean-up thread and the main thread for company: mutexes, not
data, are what calls share in `MethodCalls`, and the two racing methods hold the lock of an
interface, the clean-up lock and `state->lock` over the longest stretches.  A run of the stack model starts with any of its
crypto devices plugged in, so that one hot-plug event is either a pull or an
arrival.

Threads are interchangeable, and so are the two devices fstab does not name in
`mount_crash`, and the crypto devices and the files in `stack`:
those runs declare the symmetry.  Runs of liveness properties declare none.

`CHECK_DEADLOCK FALSE` in every configuration but `Handlers.cfg`: when the budgets are spent and
every call has returned, an idle daemon has nothing to do.  `handlers` has no budget,
and its thread may always be called again.

## Proofs

`MountStateProofs` proves, for every choice of the constants that satisfies
`ConstantsAssumption` and `NoEntryAssumption` - any number of devices, mount
points and threads, any budgets, any fstab:

* `TypeCorrect`: `Spec => []TypeOK`
* `MountsRecorded`: `Spec => []LiveMountRecorded`
* `MountPointsUnique`: `Spec => []OneEntryPerMountPoint`

All three follow from `Invariance`: `Spec => []IInv`.  `LiveMountRecorded` is not
inductive: while a pass is under way the file is about to be overwritten by what
the pass kept.  `IInv` adds what makes it so - `ScanOK`: what a pass still has to
examine, has kept and has at hand is exactly what the file held when it was opened,
and only the owner of `state->lock` changes either; `HandlerShape`: what a handler
knows at each program counter; `MountedUntilRecorded`: between its `bd_fs_mount`
and its record a handler's mount is there unless it was disturbed; `Covered`: a
live mount is recorded in the file that the pass will leave behind, not only
in the one that is there now.  There is one lemma per action.

`MountCleanupProofs` goes on from there, under the same assumptions:

* `NoDirectoryLeft`: `Spec => []NoStrayDirectory`
* `BusyDevicesSheltered`: `Spec => BusyDeviceUntouched`

from `CleanupInvariance`: `Spec => []CInv`.  Neither is inductive, even with `IInv`.  A
directory is made before anything is mounted on it and before it is recorded,
and removed after its entry was taken out of the scan; so `DirectoriesNamed` says
who answers for it at each moment - an entry that will survive the pass, the entry
whose directory the pass is about to remove, or a handler on its way to record it - and
needs `EntriesFit`: a mount point has one file in which it may be recorded, so
that a crash cannot leave it in the other.  `FstabPointsMade` has the mount points of fstab,
which no entry ever removes: one that is not yet in `foreign` has a handler that made it and
has not mounted there.  That the clean-up thread keeps
its hands off a device a handler works on is not a matter of the moment
either: it drops an entry on the strength of a clean-up lock it held earlier.
`Sheltered` says that no entry which the pass has dropped or has at hand is of an object
a handler has locked, and `ObjectsPast` that the object of a device that has gone will
never be the current one again.

`StackCleanupProofs` proves, likewise for any foundations, numbers, kinds, threads
and budgets:

* `StackTypeCorrect`: `Spec => []TypeOK`
* `SetUpsRecorded`: `Spec => []SetUpRecorded`
* `StackEntriesUnique`: `Spec => []OneEntryPerDevice`

from `StackInvariance`: `Spec => []IInv`.  The strengthening has the same shape and
other reasons.  `ScanOK`: a pass holds `state->lock` from its start to its end, and what its second
stage still has to examine, has at hand or has kept is in the file it works on.
`HandlerShape`: which operation can be where, and that a handler past
`OpenDevice` has a device.  `HeldUntilRecorded`: a device a handler has opened
stays what it opened until it is recorded, unless it is `disturbed`.  `OursAreSetUp`:
what counts as a handler's is set up.  `Covered`: every such device is awaited by
its handler, or has an entry that *survives* the pass that is under way.  The
last is what `SetUpRecorded` lacks: `SaveFile` overwrites the file with what the
pass kept, so an entry in the file is worth nothing if the pass has dropped it.

`MethodCallsProofs`, for any programs, threads, mutexes and bounds:

* `TypeCorrect`: `Spec => []TypeOK`
* `EachRunsAlone`: `Spec => Alone(t)!Spec` for each thread `t`
* `AllRunAlone`: `Spec => HandlersActAlone`

Every step of a thread is the step of that name in `HandlerAlone`; a step of
anybody else is a stutter, `Exported` or `UeventComes`.  Two of those need an
invariant.  When the main thread applies the uevent that a thread waits for, what the
thread changed must become visible: `UeventsExpected` says that a uevent with
its name is the only one, that the thread waits for it, and that once probed it was read
after the thread's last change.  When the clean-up thread unlocks, it must be its
own lock: `CleanerHolds`.  `ThreadsRest` excludes that a thread between two
calls has steps left.  The invariants of `HandlerAlone` themselves are facts about the
steps of 167 concrete handlers: TLC walks all of them without a bound, and the theorem
says that any number of threads at once can do no more.

`JobsProofs`, for any lengths of input and output and whoever may cancel:

* `TypeCorrect`: `Spec => []TypeOK`
* `SuccessIsClaimedRightly`: `Spec => SuccessIsReal`
* `LeavesNothing`: `Spec => [](Unharmed => NothingLeftOver)`
* `CompletesOnce`: `Spec => [](Unharmed => CompletedOnce)`
* `ImplementsPromise`: every step maps to a step of `JobPromise` or a stutter as long as
  the job is `Unharmed`
* `UncancelledImplementsPromise`: where no client may cancel a spawned job nothing is
  excepted

A job is `Unharmed` unless it is a spawned one that was cancelled, and the finding
`job_cancelled` shows that without this all three are false.  In the invariant, `Counted`
ties the exported object to the number of `Completed`, `Progress` says where
the work can be at each place of the launching thread, and `Tidy` that a spawned job
has one reason to end: either an error source to dispatch or a child to wait for.

`DeviceJobsProofs`, for any number of threads, calls and cancellations and each
interface:

* `TypeCorrect`: `Spec => []TypeOK`
* `SlotsLive`: `Spec => []SlotIsLive`
* `WatchesToTheEnd`: `Spec => WatchedToTheEnd`

A slot is filled in one critical section and emptied in another, by another
thread.  The invariant says whose job can be in a slot (`SlotsMatch`), that the number of a
call is its own (`Numbered`, `Unlaunched`), and, for the last theorem, that while the drive
is at work every reading a job took since shows it, and so does the log if it is the job's own
(`ReadingsShowIt`).  Readings fail in part as often as they like.

`DeviceTablesProofs`, for any machine, any number of changes of the world and of uevents
on their way:

* `TypeCorrect`: `Spec => []TypeOK`
* `MembersKnown`: `Spec => [](MemberEntriesLive /\ DriveEntriesLive)`, and
  `EntriesKnown`: `Spec => []EntriesLive`
* `BlocksSettle`, `DrivesSettle`, `SubsystemsSettle`: `BlocksFollow`, `DrivesFollow`,
  `SubsystemsFollow`
* `RunsAhead`: `Spec => []EveryDriveHasItsRun`

`BlocksFollow` and its like speak of empty queues only; what leads there is
`Follows`: of each device that has not slipped, the last uevent under way - in the bus, at
the main thread's door, or in a coldplug's list, in that order - tells how the
device is, and if none is under way the tables do.  The difficulty is coldplug, which
overtakes the queue: it applies a device's present state before older uevents.  The
invariant therefore has four judgements on a queue (`Quiet`, `Last`, `Stays`, `Comes`)
and combines them over the three queues.  `TablesOK` says that the tables by path and
those by object agree, `WorldShape`, `QueueShape` and `StartShape` what machines,
uevents and a start-up look like.  In `EntriesKnown` it matters that a uevent of an array
device carries no UUID once the array has stopped, so that the entry by path is all that is
known of it.  `ArraysOK` therefore has that entry lead to one of the device's own arrays,
the object of which, if the device is `Alone`, is there and is run by it.

`DeviceStackProofs` goes on to what two devices have to do with each other: a mapping
with the device below it, an array with its members.  One's uevent changes the object of
the other, and the four judgements on a queue are no longer enough.

* `CleartextsSettle`: `Spec => []CleartextFollows`.  `OneMapping` is what device-mapper
  grants and `BackingsOK` what a block object knows of the device below.  `Stacks`
  speaks of each device p that has not slipped and of all that is to come, in the order in
  which it will be applied (`Coming`: the coldplug list, then the two queues).
  `Known`: a mapping that is there has joined p's object, or a uevent of either to come will
  tie them (`Linked`), whichever of the two objects comes up first.  `Outdated`: a mapping
  that has gone will be told gone before its successor is shown (`Outlived`), and what p names
  has an object that names p.  This last conjunct holds the pointer to a freed object off:
  `block_pre_remove` empties it with the mapping's removal, in whatever state p's own
  uevents are.
* `ArraysSettle`: `Spec => []ArraysFollow`, for any arrays on any machine.  The object that a
  uevent of a stopped array is about is, again, known by the entry of the path only.
  The invariant therefore has the arrays a device ran and that it is still told of: `History`
  is one array for each uevent in the queues, from what those already applied said
  to the one it runs now.  The entry of its path leads to one of them, or to nothing
  with news to come (`Leads`); and so does what coldplug listed, which is applied before
  older uevents and may be ahead of them (`Ahead`).  All this is said of devices that are
  `Alone`; that nobody else's uevent touches the array of one is `Apart`.  `MembershipKnown`: a device is a
  member of no other object than that of its entry.  `Carried`: with no uevent under way a
  device's membership is what its superblock says, and an array is watched as long as its
  device is there.  `ArraysFit` has tables and objects agree, with no object that nothing is
  in (`InUse`).

Only model-checked:

* what holds under fairness, which is out of the prover's reach: all liveness properties,
  and the fairness of `JobPromise` in the refinement (`PromiseKept`);
* the six invariants of `HandlerAlone`: its programs are concrete data, built with a recursive
  operator (`Sub`), and TLC walks every path of them without a bound;
* that a job which was cancelled and is not `Unharmed` can harm the daemon: the run
  `job_cancelled`.

## Findings

`stack_reused` - of a dm number that has another `dm/uuid` than its entry says,
`src/src/udisksstate.c:1195` remarks "the dm device might have been reused..." and
the code sets `attempt_no_cleanup`.  The first stage does not look at it: the
number goes into `devs_to_clean` (`src/src/udisksstate.c:1230`), and the live file
system that udisksd mounted on the new device is lazily unmounted, because the entry of
the old one is stale.  The same happens to a loop device whose backing file has
another name than recorded, of which `src/src/udisksstate.c:1571` says "we simply just
give up managing the loop device" (`src/src/udisksstate.c:1592`).

`job_cancelled` - "When a job completes, the #org.freedesktop.UDisks2.Job::Completed
signal is emitted" (`src/data/org.freedesktop.UDisks2.xml:3462`), and
`on_job_completed` asserts that it is run once (`src/src/udisksdaemon.c:792`).
The cancellation of a spawned job attaches an idle source that completes it
(`src/src/udisksspawnedjob.c:268`).  If the command's exit is dispatched
in the same round, or the command could not be started, the job completes for that
reason too; nothing takes the idle source away, and `Completed` is emitted again.

`job_awaited` - "This call blocks until the format operation has finished"
(`src/data/org.freedesktop.UDisks2.xml:1619`).  When the job of a format is done it
empties the slot and wakes one waiter (`g_cond_signal`,
`src/src/udiskslinuxnvmenamespace.c:230`).  Before that one has the lock again a second
call may put its own job into the slot, so that the first goes on waiting; when the
second job ends both calls wait, and one of them is never woken.
`src/src/udiskslinuxnvmecontroller.c:609` does the same to two aborts.

## What is left out

Everything `PROJECT.json` lists as `not_modelled`, with the reason: the writing of
state files (a file and its cache are one here), text configuration, the crypttab
and utab monitors, the client library and the tools.  Of components listed as `partly`:
the mount monitor's cache and checksums; the sync job of an array; the flag and the
job of a secure erase, and what a drive's configuration applies; the modules' state file and
the loading of plug-ins; the delayed listings of LVM2 and the objects of ZFS pools; the
timers of LSM and the export of iSCSI sessions.  Authorization decisions, the
values of properties that are only copied from udev or sysfs and the contents of
file systems are abstracted everywhere.  In `DeviceTables` a mapping lies on no other
mapping, so that the way down through the slaves (`src/src/udiskslinuxblock.c:1034`)
is one step.

`PROJECT.json` lists hazards without a property, each with its reason.

## Plan

1. `MountState`, `StackCleanup`; `MethodCalls` and the handlers; `Jobs` and
   `JobPromise`; `DeviceJobs`; `DeviceTables` - done, model-checked.
2. The safety properties of these, and the refinements of `JobPromise` and `HandlerAlone`,
   as theorems - done but for what "only model-checked" lists.
3. Action properties of the state files: an entry goes only when what it stands for has gone
   (`MountState`, `StackCleanup`).
4. `MountMonitor`: queries from any thread against reloads, with a failing read;
   shown to implement one in which every change is signalled once.
5. `StateStore`: the cache and the files under failing writes and crashes; crash
   recovery of enabled modules.
6. The sync job of an array; the delayed listings of LVM2 and ZFS.
