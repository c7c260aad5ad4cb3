----------------------------- MODULE MountState -----------------------------
(***************************************************************************)
(* Mounting and unmounting through udisksd, the two mounted-fs state files *)
(* and the clean-up thread that keeps them in step with the kernel.        *)
(*                                                                         *)
(* Actors: D-Bus handler threads running handle_mount / handle_unmount     *)
(* (udiskslinuxfilesystem.c), the clean-up thread of UDisksState           *)
(* (udisksstate.c), the provider that turns uevents into objects, and the  *)
(* world: the kernel, udev and an administrator at a shell.                *)
(*                                                                         *)
(* Three locks order them.  A handler takes the file system lock of its    *)
(* object, then the clean-up lock of its block object, then state->lock;   *)
(* the clean-up thread holds state->lock for a whole pass and only tries   *)
(* the clean-up locks.  The first two are represented by the program       *)
(* counters of the threads that hold them, state->lock by lockOwner.       *)
(***************************************************************************)
EXTENDS Naturals, FiniteSets, Sequences

CONSTANTS
    Dev,        \* block devices, by dev_t
    Mp,         \* mount points, by path
    Thread,     \* D-Bus method handler threads
    Cleaner,    \* the clean-up thread
    Nobody,     \* the owner of a free lock
    NoDev,      \* what is mounted on a free mount point
    NoMp,       \* the fstab mount point of a device that fstab does not name
    NoEntry,    \* no state file entry under examination
    FstabMp,    \* the mount point fstab gives to each device
    UserMount,  \* devices fstab names with user, users or x-udisks-auth
    Persistent, \* mount points that survive a reboot
    Stacked,    \* devices that phase one of a pass may decide to tear down
    Budgets     \* bounds on what the world does, see the actions that Spend:
                \* a behaviour starts with one of them

(* Hot-plug events, root's mounts and unmounts, method calls, restarts,    *)
(* failing clean-up steps, uevents of other devices.                       *)
BudgetKind == {"hotplug", "external", "calls", "crash", "fault", "other"}

ASSUME ConstantsAssumption ==
    /\ Cleaner \notin Thread /\ Nobody \notin Thread /\ Cleaner # Nobody
    /\ NoDev \notin Dev /\ NoMp \notin Mp
    /\ FstabMp \in [Dev -> Mp \cup {NoMp}]
    /\ \A d, e \in Dev : FstabMp[d] = FstabMp[e] => d = e \/ FstabMp[d] = NoMp
    /\ UserMount \subseteq Dev
    /\ Persistent \subseteq Mp /\ Stacked \subseteq Dev
    /\ Budgets \subseteq [BudgetKind -> Nat]

(* An entry of mounted-fs or mounted-fs-persistent.  mounted-by-uid only   *)
(* selects an authorization and is left out.                               *)
Entry == [mp : Mp, dev : Dev, fstab : BOOLEAN]
ASSUME NoEntryAssumption == NoEntry \notin Entry

File == {"run", "persistent"}     \* /run/udisks2 and /var/lib/udisks2

VARIABLES
    \* --- the kernel, udev and the file system tree
    media,      \* media[d]: "ok", "empty" (node there, size 0) or "gone"
    mnt,        \* mnt[m]: the device mounted on m, or NoDev
    dirs,       \* the mount points that exist as directories
    uevents,    \* uevents[d]: uevents of d the provider has not handled yet
    budget,     \* what is left of one of Budgets
    \* --- the daemon's view of the world
    exported,   \* devices with an object on the bus
    gen,        \* gen[d]: how often the object of d has been replaced
    known,      \* known[m]: the device whose MountPoints property lists m
    \* --- UDisksState
    files,      \* files[f]: the entries of state file f
    lockOwner,  \* who holds state->lock
    checkQueued,\* an idle source of the clean-up context is pending
    doomed,     \* devs_to_clean of the current pass
    scan,       \* progress of udisks_state_check_mounted_fs
    \* --- handlers
    pc,         \* pc[t]: what thread t does next
    op,         \* op[t]: "mount" or "unmount"
    obj,        \* obj[t]: the block object, as its device and generation
    hmp,        \* hmp[t]: mount_point_to_use of mount, mount_point of unmount
    made,       \* made[t]: dir_created
    \* --- history, read by no action
    ours,       \* mount points whose present mount was made by a handler
    foreign,    \* directories that udisksd will not remove: root mounted there,
                \* the handler was killed before it recorded them, or the mount
                \* on an fstab mount point succeeded
    disturbed   \* mount points unmounted between a handler's bd_fs_mount and
                \* its udisks_state_add_mounted_fs

world    == <<media, mnt, dirs, uevents>>
view     == <<exported, gen, known>>
stateVar == <<files, lockOwner, checkQueued, doomed, scan>>
handler  == <<pc, op, obj, hmp, made>>
history  == <<ours, foreign, disturbed>>
vars     == <<world, budget, view, stateVar, handler, history>>
-----------------------------------------------------------------------------
Media   == {"ok", "empty", "gone"}
Action  == {"add", "change", "remove"}
Op      == {"mount", "unmount"}
PC      == {"idle", "fsLock", "cleanupLock", "stateLock", "scan", "checked",
            "calculate", "mkdir", "mounting", "record", "find", "umount", "restateLock",
            "umountAsUser", "rescan", "uevent", "release", "recheck"}
Stage   == {"none", "pick", "umount", "rmdir"}

(* Program counters at which a handler holds the clean-up lock of obj[t].  *)
HoldsCleanup == PC \ {"idle", "fsLock", "cleanupLock", "recheck"}

Actor == Thread \cup {Cleaner}
Current(d) == <<d, gen[d]>>

(* The file system lock: handle_unmount queues the clean-up check before   *)
(* it unlocks, handle_mount after.                                         *)
FsLocked(t) ==
    \/ pc[t] \in HoldsCleanup \cup {"cleanupLock"}
    \/ pc[t] = "recheck" /\ op[t] = "unmount"

Spend(k) == budget[k] > 0 /\ budget' = [budget EXCEPT ![k] = @ - 1]

MountPoints(d) == {m \in Mp : known[m] = d}      \* the MountPoints property
MountedAt(d)   == {m \in Mp : mnt[m] = d}
Entries        == files["run"] \cup files["persistent"]

(* A uevent is queued behind the ones udev has already sent; a change that *)
(* directly follows a change tells the provider nothing more.              *)
Send(d, a) ==
    uevents' = IF a = "change" /\ uevents[d] # <<>> /\ uevents[d][Len(uevents[d])] = a
               THEN uevents
               ELSE [uevents EXCEPT ![d] = Append(@, a)]

(* The file system on m goes away, by whoever's hand.                      *)
Detach(m) ==
    /\ mnt[m] # NoDev
    /\ mnt' = [mnt EXCEPT ![m] = NoDev]
    /\ ours' = ours \ {m}
    /\ disturbed' = IF \E t \in Thread : pc[t] = "record" /\ hmp[t] = m
                    THEN disturbed \cup {m} ELSE disturbed
-----------------------------------------------------------------------------
(* udisks_state_check_mounted_fs and udisks_state_check_mounted_fs_entry,  *)
(* run by the holder of state->lock: the clean-up thread over all entries, *)
(* a handler in udisks_state_check_block over those of its own device.     *)

NoScan == [file |-> "none", todo |-> {}, kept |-> {}, changed |-> FALSE,
           cur |-> NoEntry, stage |-> "none", held |-> <<>>]

Matches(a, e) == a = Cleaner \/ e.dev = obj[a][1]

(* Entries of other devices are kept without looking at them.              *)
OpenFile(f, a) ==
    [NoScan EXCEPT !.file = f, !.stage = "pick",
                   !.todo = {e \in files[f] : Matches(a, e)},
                   !.kept = {e \in files[f] : ~Matches(a, e)}]

(* The lock of d's block object, as udisks_daemon_find_block finds it now. *)
CleanupBusy(d) == /\ d \in exported
                  /\ \E t \in Thread : pc[t] \in HoldsCleanup /\ obj[t] = Current(d)

Done == [scan EXCEPT !.cur = NoEntry, !.stage = "pick", !.held = <<>>]
(* Mutant: the entry is reset before it is put back.                       *)
KeepAfterReset == scan' = [Done EXCEPT !.kept = @ \cup {Done.cur}]

Keep == scan' = [Done EXCEPT !.kept = @ \cup {scan.cur}]
Drop == scan' = [Done EXCEPT !.changed = TRUE]

(* An entry stays as it is while it is mounted and its device is there to  *)
(* stay.  The size of the device, and of its disk, decides whether it is.  *)
IsMounted(e)     == mnt[e.mp] = e.dev
DeviceExists(d)  == media[d] = "ok"
EntryHasDevice(e) == DeviceExists(e.dev) /\ e.dev \notin doomed   \* mutant: mounted or not
EntryIsLive(e)   == IsMounted(e) /\ DeviceExists(e.dev) /\ e.dev \notin doomed

Skip(e) == scan' = [scan EXCEPT !.todo = @ \ {e}, !.kept = @ \cup {e}]

NeverBusy(a, e) == FALSE     \* mutant: the clean-up lock is not asked for
TryLockFails(a, e) == a = Cleaner /\ CleanupBusy(e.dev)

CleanUp(a, e) ==
    scan' = [scan EXCEPT !.todo = @ \ {e}, !.cur = e,
                         !.stage = IF IsMounted(e) THEN "umount" ELSE "rmdir",
                         !.held = IF a = Cleaner /\ e.dev \in exported
                                  THEN Current(e.dev) ELSE <<>>]

(* Mutant: the clean-up lock is waited for, with state->lock held.         *)
CheckEntryBlocking(a) ==
    /\ lockOwner = a /\ scan.stage = "pick"
    /\ \E e \in scan.todo : /\ ~TryLockFails(a, e)
                            /\ IF EntryIsLive(e) THEN Skip(e) ELSE CleanUp(a, e)
    /\ UNCHANGED <<world, budget, view, files, lockOwner, checkQueued, doomed,
                   handler, history>>

CheckEntry(a) ==
    /\ lockOwner = a /\ scan.stage = "pick"
    /\ \E e \in scan.todo : IF TryLockFails(a, e) \/ EntryIsLive(e)
                           THEN Skip(e) ELSE CleanUp(a, e)
    /\ UNCHANGED <<world, budget, view, files, lockOwner, checkQueued, doomed,
                   handler, history>>

(* umount -l names the mount point, whatever is mounted there by now.      *)
LazyUmount(a) ==
    /\ lockOwner = a /\ scan.stage = "umount"
    /\ Detach(scan.cur.mp)
    /\ IF media[scan.cur.dev] = "gone"
       THEN UNCHANGED uevents
       ELSE Send(scan.cur.dev, "change")
    /\ scan' = [scan EXCEPT !.stage = "rmdir"]
    /\ UNCHANGED <<media, dirs, budget, view, files, lockOwner, checkQueued,
                   doomed, handler, foreign>>

LazyUmountFails(a) ==
    /\ lockOwner = a /\ scan.stage = "umount"
    /\ \/ mnt[scan.cur.mp] = NoDev /\ UNCHANGED budget
       \/ mnt[scan.cur.mp] # NoDev /\ Spend("fault")
    /\ Keep
    /\ UNCHANGED <<world, view, files, lockOwner, checkQueued, doomed,
                   handler, history>>

NeedsRmdir == ~scan.cur.fstab /\ scan.cur.mp \in dirs

RemoveDirectory(a) ==
    /\ lockOwner = a /\ scan.stage = "rmdir"
    /\ IF NeedsRmdir
       THEN /\ mnt[scan.cur.mp] = NoDev
            /\ dirs' = dirs \ {scan.cur.mp}
            /\ foreign' = foreign \ {scan.cur.mp}
       ELSE UNCHANGED <<dirs, foreign>>
    /\ Drop
    /\ UNCHANGED <<media, mnt, uevents, budget, view, files, lockOwner,
                   checkQueued, doomed, handler, ours, disturbed>>

RemoveDirectoryFails(a) ==
    /\ lockOwner = a /\ scan.stage = "rmdir" /\ NeedsRmdir
    /\ \/ mnt[scan.cur.mp] # NoDev /\ UNCHANGED budget
       \/ mnt[scan.cur.mp] = NoDev /\ Spend("fault")
    /\ Keep
    /\ UNCHANGED <<world, view, files, lockOwner, checkQueued, doomed,
                   handler, history>>

(* Every entry of the file is examined: what was kept of the entries read  *)
(* at the start is written back if it is less, and after the second file   *)
(* state->lock is released.                                                *)
SaveFile(a) ==
    /\ lockOwner = a /\ scan.stage = "pick" /\ scan.todo = {}
    /\ files' = IF scan.changed THEN [files EXCEPT ![scan.file] = scan.kept] ELSE files
    /\ IF scan.file = "run"
       THEN /\ scan' = OpenFile("persistent", a)
            /\ UNCHANGED <<lockOwner, doomed, pc>>
       ELSE /\ scan' = NoScan /\ lockOwner' = Nobody
            /\ doomed' = {}
            /\ pc' = IF a = Cleaner THEN pc
                     ELSE [pc EXCEPT ![a] = IF @ = "scan" THEN "checked" ELSE "uevent"]
    /\ UNCHANGED <<world, budget, view, checkQueued, op, obj, hmp, made, history>>

Scan(a) == \/ CheckEntry(a) \/ LazyUmount(a) \/ LazyUmountFails(a)
           \/ RemoveDirectory(a) \/ RemoveDirectoryFails(a) \/ SaveFile(a)

(* udisks_state_check_in_thread.  Which stacked devices phase one finds    *)
(* dead is decided by entries this module does not hold; it matters for    *)
(* those that have a mounted-fs entry.                                     *)
StartPass ==
    /\ checkQueued /\ lockOwner = Nobody
    /\ checkQueued' = FALSE
    /\ lockOwner' = Cleaner
    /\ doomed' \in SUBSET {d \in Stacked : \E f \in File : \E e \in files[f] : e.dev = d}
    /\ scan' = OpenFile("run", Cleaner)
    /\ UNCHANGED <<world, budget, view, files, handler, history>>
-----------------------------------------------------------------------------
(* What handle_mount and handle_unmount share.                             *)

Goto(t, l) == pc' = [pc EXCEPT ![t] = l]

Call(t) ==
    /\ pc[t] = "idle" /\ Spend("calls")
    /\ \E d \in exported, o \in Op :
          /\ obj' = [obj EXCEPT ![t] = Current(d)]
          /\ op' = [op EXCEPT ![t] = o]
    /\ Goto(t, "fsLock")
    /\ UNCHANGED <<world, view, stateVar, hmp, made, history>>

(* udisks_daemon_util_dup_object fails when the object has been removed.   *)
LockFilesystem(t) ==
    /\ pc[t] = "fsLock"
    /\ \A u \in Thread : ~(FsLocked(u) /\ obj[u] = obj[t])
    /\ IF obj[t][1] \in exported /\ obj[t] = Current(obj[t][1])
       THEN Goto(t, "cleanupLock") /\ UNCHANGED obj
       ELSE Goto(t, "idle") /\ obj' = [obj EXCEPT ![t] = <<>>]
    /\ UNCHANGED <<world, budget, view, stateVar, op, hmp, made, history>>

LockForCleanup(t) ==
    /\ pc[t] = "cleanupLock" /\ scan.held # obj[t]
    /\ \A u \in Thread : ~(pc[u] \in HoldsCleanup /\ obj[u] = obj[t])
    /\ Goto(t, "stateLock")
    /\ UNCHANGED <<world, budget, view, stateVar, op, obj, hmp, made, history>>

(* udisks_state_check_block: a handler waits here for a pass to end.       *)
StartCheckBlock(t) ==
    /\ pc[t] \in {"stateLock", "restateLock"} /\ lockOwner = Nobody
    /\ lockOwner' = t
    /\ scan' = OpenFile("run", t)
    /\ Goto(t, IF pc[t] = "stateLock" THEN "scan" ELSE "rescan")
    /\ UNCHANGED <<world, budget, view, files, checkQueued, doomed, op, obj,
                   hmp, made, history>>

(* An authorization that is refused, an unknown user, a wrong usage, ...   *)
Refuse(t) ==
    /\ pc[t] \in {"checked", "calculate", "find"}
    /\ Goto(t, "release")
    /\ UNCHANGED <<world, budget, view, stateVar, op, obj, hmp, made, history>>

(* The uevent both handlers send before they reply.  Each waits for it to  *)
(* be handled for at most UDISKS_DEFAULT_WAIT_TIMEOUT, so it may go on     *)
(* before that.                                                            *)
TriggerUevent(t) ==
    /\ pc[t] = "uevent"
    /\ IF media[obj[t][1]] = "gone" THEN UNCHANGED uevents ELSE Send(obj[t][1], "change")
    /\ Goto(t, "release")
    /\ UNCHANGED <<media, mnt, dirs, budget, view, stateVar, op, obj, hmp, made,
                   history>>

Release(t) ==
    /\ pc[t] = "release"
    /\ Goto(t, "recheck")
    /\ UNCHANGED <<world, budget, view, stateVar, op, obj, hmp, made, history>>

(* Mutant: the check is queued by handle_unmount only.                     *)
RecheckUnmount(t) ==
    /\ pc[t] = "recheck"
    /\ checkQueued' = (checkQueued \/ op[t] = "unmount")
    /\ Goto(t, "idle")
    /\ obj' = [obj EXCEPT ![t] = <<>>]
    /\ hmp' = [hmp EXCEPT ![t] = NoMp]
    /\ made' = [made EXCEPT ![t] = FALSE]
    /\ UNCHANGED <<world, budget, view, files, lockOwner, doomed, scan, op, history>>

(* udisks_state_check, queued once the clean-up lock is free again.        *)
Recheck(t) ==
    /\ pc[t] = "recheck"
    /\ checkQueued' = TRUE
    /\ Goto(t, "idle")
    /\ obj' = [obj EXCEPT ![t] = <<>>]
    /\ hmp' = [hmp EXCEPT ![t] = NoMp]
    /\ made' = [made EXCEPT ![t] = FALSE]
    /\ UNCHANGED <<world, budget, view, files, lockOwner, doomed, scan, op, history>>
-----------------------------------------------------------------------------
(* handle_mount                                                            *)

Device(t)  == obj[t][1]
IsFstab(t) == hmp[t] = FstabMp[Device(t)]

(* is_system_managed ignores an fstab line whose mount point is taken.     *)
SystemManaged(d) == FstabMp[d] # NoMp /\ mnt[FstabMp[d]] \in {NoDev, d}

(* calculate_mount_point appends a number until the name is free.  Fstab   *)
(* lines are taken to name mount points outside MOUNT_BASE/$USER.          *)
FstabPoints == {FstabMp[d] : d \in Dev} \ {NoMp}
Dynamic     == Mp \ FstabPoints

PrepareMount(t) ==
    /\ pc[t] = "checked" /\ op[t] = "mount"
    /\ MountPoints(Device(t)) = {}
    /\ IF SystemManaged(Device(t))
       THEN hmp' = [hmp EXCEPT ![t] = FstabMp[Device(t)]] /\ Goto(t, "mkdir")
       ELSE UNCHANGED hmp /\ Goto(t, "calculate")
    /\ UNCHANGED <<world, budget, view, stateVar, op, obj, made, history>>

(* Once polkit has agreed, which may take a while.                         *)
CalculateMountPoint(t) ==
    /\ pc[t] = "calculate"
    /\ \E m \in Dynamic \ dirs : hmp' = [hmp EXCEPT ![t] = m]
    /\ Goto(t, "mkdir")
    /\ UNCHANGED <<world, budget, view, stateVar, op, obj, made, history>>

(* g_mkdir fails on a directory somebody else made in the meantime,        *)
(* g_mkdir_with_parents is not even called for one that is there.          *)
MakeDirectory(t) ==
    /\ pc[t] = "mkdir"
    /\ \/ /\ hmp[t] \notin dirs
          /\ dirs' = dirs \cup {hmp[t]}
          /\ made' = [made EXCEPT ![t] = TRUE]
          /\ Goto(t, "mounting")
       \/ /\ hmp[t] \in dirs /\ IsFstab(t)
          /\ Goto(t, "mounting")
          /\ UNCHANGED <<dirs, made>>
       \/ /\ hmp[t] \in dirs => ~IsFstab(t)
          /\ Goto(t, "release")
          /\ UNCHANGED <<dirs, made>>
    /\ UNCHANGED <<media, mnt, uevents, budget, view, stateVar, op, obj, hmp, history>>

Mount(t) ==
    /\ pc[t] = "mounting"
    /\ hmp[t] \in dirs /\ mnt[hmp[t]] = NoDev /\ media[Device(t)] = "ok"
    /\ mnt' = [mnt EXCEPT ![hmp[t]] = Device(t)]
    /\ ours' = ours \cup {hmp[t]}
    /\ foreign' = IF IsFstab(t) THEN foreign \cup {hmp[t]} ELSE foreign
    /\ Goto(t, "record")
    /\ UNCHANGED <<media, dirs, uevents, budget, view, stateVar, op, obj, hmp,
                   made, disturbed>>

(* bd_fs_mount may fail at any time; the directory made for it goes again. *)
MountFails(t) ==
    /\ pc[t] = "mounting"
    /\ dirs' = IF made[t] /\ mnt[hmp[t]] = NoDev THEN dirs \ {hmp[t]} ELSE dirs
    /\ foreign' = foreign \cap dirs'
    /\ Goto(t, "release")
    /\ UNCHANGED <<media, mnt, uevents, budget, view, stateVar, op, obj, hmp,
                   made, ours, disturbed>>

(* udisks_state_add_mounted_fs                                             *)
RecordInRun(t) == "run"     \* mutant: whatever survives a reboot
RecordFile(t) == IF IsFstab(t) \/ hmp[t] \notin Persistent THEN "run" ELSE "persistent"

AddMountedFsOnly(s, e) == s \cup {e}     \* mutant: the stale entry stays
AddMountedFs(s, e) == {x \in s : x.mp # e.mp} \cup {e}

(* Mutant: the file is read and written without state->lock.               *)
RecordMountUnlocked(t) ==
    /\ pc[t] = "record"
    /\ files' = [files EXCEPT ![RecordFile(t)] =
                   AddMountedFs(@, [mp |-> hmp[t], dev |-> Device(t), fstab |-> IsFstab(t)])]
    /\ Goto(t, "uevent")
    /\ UNCHANGED <<world, budget, view, lockOwner, checkQueued, doomed, scan,
                   op, obj, hmp, made, history>>

RecordMount(t) ==
    /\ pc[t] = "record" /\ lockOwner = Nobody
    /\ files' = [files EXCEPT ![RecordFile(t)] =
                   AddMountedFs(@, [mp |-> hmp[t], dev |-> Device(t), fstab |-> IsFstab(t)])]
    /\ Goto(t, "uevent")
    /\ UNCHANGED <<world, budget, view, lockOwner, checkQueued, doomed, scan,
                   op, obj, hmp, made, history>>
-----------------------------------------------------------------------------
(* handle_unmount                                                          *)

PrepareUnmount(t) ==
    /\ pc[t] = "checked" /\ op[t] = "unmount"
    /\ MountPoints(Device(t)) # {}
    /\ IF SystemManaged(Device(t)) /\ Device(t) \in UserMount
       THEN hmp' = [hmp EXCEPT ![t] = FstabMp[Device(t)]] /\ Goto(t, "umountAsUser")
       ELSE UNCHANGED hmp /\ Goto(t, "find")
    /\ UNCHANGED <<world, budget, view, stateVar, op, obj, made, history>>

(* udisks_state_find_mounted_fs searches the persistent file last; without *)
(* an entry the device is unmounted by name.                               *)
RecordedAt(d, f) == {e.mp : e \in {x \in files[f] : x.dev = d}}

FindMountPoint(t) ==
    /\ pc[t] = "find" /\ lockOwner = Nobody
    /\ LET run == RecordedAt(Device(t), "run")
           found == IF run # {} THEN run ELSE RecordedAt(Device(t), "persistent")
       IN \E m \in IF found # {} THEN found ELSE {NoMp} : hmp' = [hmp EXCEPT ![t] = m]
    /\ Goto(t, "umount")
    /\ UNCHANGED <<world, budget, view, stateVar, op, obj, made, history>>

Unmount(t) ==
    /\ pc[t] \in {"umount", "umountAsUser"}
    /\ \E m \in IF hmp[t] = NoMp THEN MountedAt(Device(t)) ELSE {hmp[t]} :
          Detach(m)
    /\ Goto(t, IF pc[t] = "umount" THEN "restateLock" ELSE "uevent")
    /\ UNCHANGED <<media, dirs, uevents, budget, view, stateVar, op, obj, hmp,
                   made, foreign>>

(* Nothing is mounted there, the file system is busy, ...                  *)
UnmountFails(t) ==
    /\ pc[t] \in {"umount", "umountAsUser"}
    /\ Goto(t, "release")
    /\ UNCHANGED <<world, budget, view, stateVar, op, obj, hmp, made, history>>

Handler(t) ==
    \/ LockFilesystem(t) \/ LockForCleanup(t) \/ StartCheckBlock(t) \/ Refuse(t)
    \/ PrepareMount(t) \/ CalculateMountPoint(t) \/ MakeDirectory(t)
    \/ Mount(t) \/ MountFails(t) \/ RecordMount(t)
    \/ PrepareUnmount(t) \/ FindMountPoint(t) \/ Unmount(t) \/ UnmountFails(t)
    \/ TriggerUevent(t) \/ Release(t) \/ Recheck(t)
-----------------------------------------------------------------------------
(* The provider and the mount monitor bring the daemon's view up to date.  *)

Refreshed(d) == [m \in Mp |-> IF mnt[m] = d THEN d
                              ELSE IF known[m] = d THEN NoDev ELSE known[m]]

(* handle_block_uevent: removal drops the object, any other action makes   *)
(* or updates it; a clean-up check follows unless the device was added.    *)
ProcessUevent(d) ==
    /\ uevents[d] # <<>>
    /\ uevents' = [uevents EXCEPT ![d] = Tail(@)]
    /\ IF Head(uevents[d]) = "remove"
       THEN /\ exported' = exported \ {d}
            /\ gen' = [gen EXCEPT ![d] = @ + 1]
            /\ UNCHANGED known
       ELSE /\ exported' = exported \cup {d}
            /\ known' = Refreshed(d)
            /\ UNCHANGED gen
    /\ checkQueued' = (checkQueued \/ Head(uevents[d]) # "add"
                                   \/ \E m \in MountPoints(d) : mnt[m] # d)
    /\ UNCHANGED <<media, mnt, dirs, budget, files, lockOwner, doomed, scan,
                   handler, history>>

(* reload_mounts: every removal since the last reload is signalled.        *)
ReloadMounts ==
    /\ known # mnt
    /\ known' = mnt
    /\ checkQueued' = (checkQueued \/ \E m \in Mp : known[m] \notin {NoDev, mnt[m]})
    /\ UNCHANGED <<world, budget, exported, gen, files, lockOwner, doomed, scan,
                   handler, history>>
-----------------------------------------------------------------------------
(* The world, as often as budget allows.                                   *)

PullMedia(d) ==
    /\ media[d] = "ok" /\ Spend("hotplug")
    /\ media' = [media EXCEPT ![d] = "empty"] /\ Send(d, "change")
    /\ UNCHANGED <<mnt, dirs, view, stateVar, handler, history>>

InsertMedia(d) ==
    /\ media[d] = "empty" /\ Spend("hotplug")
    /\ media' = [media EXCEPT ![d] = "ok"] /\ Send(d, "change")
    /\ UNCHANGED <<mnt, dirs, view, stateVar, handler, history>>

Unplug(d) ==
    /\ media[d] # "gone" /\ Spend("hotplug")
    /\ media' = [media EXCEPT ![d] = "gone"] /\ Send(d, "remove")
    /\ UNCHANGED <<mnt, dirs, view, stateVar, handler, history>>

(* The kernel hands out a dev_t again only when nothing holds it.          *)
Plug(d) ==
    /\ media[d] = "gone" /\ MountedAt(d) = {} /\ Spend("hotplug")
    /\ media' = [media EXCEPT ![d] = "ok"] /\ Send(d, "add")
    /\ UNCHANGED <<mnt, dirs, view, stateVar, handler, history>>

RootMounts(d, m) ==
    /\ media[d] = "ok" /\ mnt[m] = NoDev /\ Spend("external")
    /\ mnt' = [mnt EXCEPT ![m] = d] /\ dirs' = dirs \cup {m}
    /\ foreign' = foreign \cup {m}
    /\ UNCHANGED <<media, uevents, view, stateVar, handler, ours, disturbed>>

RootUnmounts(m) ==
    /\ Detach(m) /\ Spend("external")
    /\ UNCHANGED <<media, dirs, uevents, view, stateVar, handler, foreign>>

(* A change uevent of a device this module does not hold, any number of    *)
(* times where budget has them at all.                                     *)
OtherUevent ==
    /\ budget["other"] > 0 /\ ~checkQueued
    /\ checkQueued' = TRUE
    /\ UNCHANGED <<world, budget, view, files, lockOwner, doomed, scan, handler, history>>

(* The daemon is killed and started again, or the machine is: threads and  *)
(* locks are gone, the state files are read back, coldplug exports what is *)
(* there and udisks_daemon_constructed queues a check.                     *)
Restart(reboot) ==
    /\ Spend("crash")
    /\ mnt' = IF reboot THEN [m \in Mp |-> NoDev] ELSE mnt
    /\ dirs' = IF reboot THEN dirs \cap Persistent ELSE dirs
    /\ files' = IF reboot THEN [files EXCEPT !["run"] = {}] ELSE files
    /\ ours' = {m \in ours : ~reboot /\ \A t \in Thread : pc[t] = "record" => hmp[t] # m}
    /\ foreign' = (foreign \cup {hmp[t] : t \in {u \in Thread : made[u] /\ pc[u] \in {"mounting", "record"}}})
                  \cap dirs'
    /\ uevents' = [d \in Dev |-> <<>>]
    /\ exported' = {d \in Dev : media[d] # "gone"}
    /\ gen' = [d \in Dev |-> 0]
    /\ known' = mnt'
    /\ lockOwner' = Nobody /\ checkQueued' = TRUE /\ doomed' = {} /\ scan' = NoScan
    /\ pc' = [t \in Thread |-> "idle"] /\ obj' = [t \in Thread |-> <<>>]
    /\ hmp' = [t \in Thread |-> NoMp] /\ made' = [t \in Thread |-> FALSE]
    /\ UNCHANGED <<media, op, disturbed>>

World == \/ \E d \in Dev : PullMedia(d) \/ InsertMedia(d) \/ Unplug(d) \/ Plug(d)
         \/ \E d \in Dev, m \in Mp : RootMounts(d, m)
         \/ \E m \in Mp : RootUnmounts(m)
         \/ OtherUevent
         \/ \E reboot \in BOOLEAN : Restart(reboot)
-----------------------------------------------------------------------------
Init ==
    /\ media = [d \in Dev |-> "ok"]
    /\ mnt = [m \in Mp |-> NoDev] /\ dirs = {}
    /\ uevents = [d \in Dev |-> <<>>]
    /\ budget \in Budgets
    /\ exported = Dev /\ gen = [d \in Dev |-> 0] /\ known = mnt
    /\ files = [f \in File |-> {}]
    /\ lockOwner = Nobody /\ checkQueued = TRUE /\ doomed = {} /\ scan = NoScan
    /\ pc = [t \in Thread |-> "idle"] /\ op = [t \in Thread |-> "mount"]
    /\ obj = [t \in Thread |-> <<>>] /\ hmp = [t \in Thread |-> NoMp]
    /\ made = [t \in Thread |-> FALSE]
    /\ ours = {} /\ foreign = {} /\ disturbed = {}

Next == \/ StartPass \/ \E a \in Actor : Scan(a)
        \/ \E t \in Thread : Call(t) \/ Handler(t)
        \/ \E d \in Dev : ProcessUevent(d)
        \/ ReloadMounts \/ World

Spec == Init /\ [][Next]_vars

(* Every thread of the daemon runs; the world owes it nothing.             *)
Fairness ==
    /\ WF_vars(StartPass)
    /\ \A a \in Actor : WF_vars(Scan(a))
    /\ \A t \in Thread : WF_vars(Handler(t))
    /\ \A d \in Dev : WF_vars(ProcessUevent(d))
    /\ WF_vars(ReloadMounts)

FairSpec == Spec /\ Fairness
-----------------------------------------------------------------------------
(* Properties                                                              *)

ScanType == [file : File \cup {"none"}, todo : SUBSET Entry, kept : SUBSET Entry,
             changed : BOOLEAN, cur : Entry \cup {NoEntry}, stage : Stage,
             held : (Dev \X Nat) \cup {<<>>}]

WorldOK ==
    /\ media \in [Dev -> Media] /\ mnt \in [Mp -> Dev \cup {NoDev}]
    /\ dirs \subseteq Mp /\ uevents \in [Dev -> Seq(Action)]
    /\ budget \in [BudgetKind -> Nat]

ViewOK ==
    /\ exported \subseteq Dev /\ gen \in [Dev -> Nat]
    /\ known \in [Mp -> Dev \cup {NoDev}]

StateOK ==
    /\ files \in [File -> SUBSET Entry]
    /\ lockOwner \in Actor \cup {Nobody} /\ checkQueued \in BOOLEAN
    /\ doomed \subseteq Dev /\ scan \in ScanType

HandlerOK ==
    /\ pc \in [Thread -> PC] /\ op \in [Thread -> Op]
    /\ obj \in [Thread -> (Dev \X Nat) \cup {<<>>}]
    /\ hmp \in [Thread -> Mp \cup {NoMp}] /\ made \in [Thread -> BOOLEAN]

HistoryOK == ours \subseteq Mp /\ foreign \subseteq Mp /\ disturbed \subseteq Mp

(* The state of the daemon and of the world around it is well formed.      *)
TypeOK == WorldOK /\ ViewOK /\ StateOK /\ HandlerOK /\ HistoryOK

Recorded(m, d) == \E e \in Entries : e.mp = m /\ e.dev = d

(* What udisksd mounted it can also clean up: every file system a handler  *)
(* mounted and that is still mounted has its entry in a state file, or the *)
(* handler is about to write it (handle_mount, udisks_state_add_mounted_fs *)
(* against the clean-up thread, other handlers and root).  Excepted is a   *)
(* mount point that somebody unmounts before its entry is written: the     *)
(* entry then names a mount that is gone, and may replace a newer one.     *)
LiveMountRecorded ==
    \A m \in ours \ disturbed :
        \/ Recorded(m, mnt[m])
        \/ \E t \in Thread : pc[t] = "record" /\ hmp[t] = m

(* No directory is left behind: a mount point a handler created is removed *)
(* or is named by an entry through which it will be.  Excepted are, by     *)
(* foreign: one that root mounted on; one whose handler was killed before  *)
(* it recorded it; and an fstab mount point that was mounted.  That one is *)
(* made too (handle_mount_fstab, g_mkdir_with_parents) but stays once it   *)
(* was used: handle_unmount removes no directory and the clean-up none of  *)
(* an entry with fstab-mount set.  An fstab mount point made for a mount   *)
(* that failed is removed again.                                           *)
NoStrayDirectory ==
    \A m \in dirs \ foreign :
        \/ \E e \in Entries : e.mp = m
        \/ \E t \in Thread : /\ pc[t] \in {"mounting", "record"}
                             /\ made[t] /\ hmp[t] = m

(* A mount point has one entry in a state file: udisks_state_add_mounted_fs*)
(* removes the stale one before it adds its own.                           *)
OneEntryPerMountPoint ==
    \A f \in File : \A e1, e2 \in files[f] : e1.mp = e2.mp => e1 = e2

(* While a handler works on the object that stands for a device, nobody    *)
(* else unmounts the file systems recorded for it or forgets them: that is *)
(* what the clean-up lock of the block object is for.                      *)
Working(t) == pc[t] \in HoldsCleanup \ {"stateLock", "restateLock", "release"}

EntriesOf(d) == {e \in Entries : e.dev = d}

BusyDeviceUntouched ==
    [][ \A t \in Thread :
          (Working(t) /\ obj[t][1] \in exported /\ obj[t] = Current(obj[t][1])
           /\ Scan(Cleaner))
          => \A e \in EntriesOf(obj[t][1]) : e \in Entries' /\ mnt'[e.mp] = mnt[e.mp] ]_vars

(* Calls come back: no order of the three locks leaves a handler waiting,  *)
(* unless checks are asked for without end and state->lock, which is not   *)
(* fair, always goes to the clean-up thread.                               *)
EachCallReturns == \A t \in Thread : pc[t] # "idle" ~> pc[t] = "idle"
CallsReturn == budget["other"] = 0 => EachCallReturns

(* When a device is gone for good, the clean-up thread ends up with no     *)
(* entry for it: an entry skipped because a handler held the device is     *)
(* looked at again once the handler is done.  That is so where neither     *)
(* umount -l nor rmdir fails and root leaves the mount points alone.       *)
GoneDeviceForgotten ==
    budget["fault"] = 0 /\ budget["external"] = 0 =>
    \A d \in Dev : <>[](media[d] = "gone") => <>[](EntriesOf(d) = {})

(* An entry that was kept because umount -l or rmdir failed "so we can     *)
(* clean it up later" is cleaned up later: as long as something asks for a *)
(* check now and then, and calls come back, no entry stays whose mount     *)
(* point has nothing mounted on it.  The failure itself queues no check.   *)
Stale(m, d) == Recorded(m, d) /\ mnt[m] = NoDev

StaleEntryForgotten ==
    []<>checkQueued /\ EachCallReturns
        => \A d \in Dev, m \in Mp : Stale(m, d) ~> ~Stale(m, d)
=============================================================================
