------------------------- MODULE MountCleanupProofs -------------------------
(***************************************************************************)
(* What the clean-up of mount points leaves alone and what it does not     *)
(* leave behind, for every set of devices, mount points and threads and    *)
(* for every budget, checked by TLAPS on top of MountStateProofs.          *)
(***************************************************************************)
EXTENDS MountStateProofs

(* A mount point has one file in which it may be recorded, and only an     *)
(* fstab mount point is recorded as one.                                   *)
FileOf(m) == IF m \in FstabPoints \/ m \notin Persistent THEN "run" ELSE "persistent"

EntriesFit ==
    \A f \in File : \A e \in files[f] :
        f = FileOf(e.mp) /\ (e.fstab => e.mp \in FstabPoints)

(* A handler mounts where fstab says or on a directory it made itself.     *)
MountsWhereItMay ==
    \A t \in Thread :
        /\ pc[t] \in HasMountPoint => hmp[t] \in Dynamic \/ IsFstab(t)
        /\ pc[t] \in {"mounting", "record"} /\ hmp[t] \notin FstabPoints => made[t]

(* A directory that the daemon made is named by an entry that will still   *)
(* be there or be cleaned up by the scan under way, or by a handler; once  *)
(* something is mounted there, it is the handler that mounted it.          *)
Remaining == Survivors \cup (IF scan.stage = "rmdir" THEN {scan.cur} ELSE {})

Making(m) == \E t \in Thread : pc[t] = "mounting" /\ made[t] /\ hmp[t] = m

Named(m) ==
    \/ \E e \in Remaining : e.mp = m
    \/ AtRecord(m)
    \/ Making(m) /\ mnt[m] = NoDev

DirectoriesNamed ==
    /\ \A m \in Mp : mnt[m] # NoDev => m \in dirs
    /\ \A m \in dirs \ (foreign \cup FstabPoints) : Named(m)

(* An fstab mount point is made by the handler that is about to mount, and *)
(* is not to be removed once anything has been mounted there.              *)
FstabPointsMade ==
    \A m \in (dirs \cap FstabPoints) \ foreign : Making(m) /\ mnt[m] = NoDev

(* A handler's object is of the past once its device has been removed.     *)
ObjectsPast ==
    \A t \in Thread : pc[t] # "idle" =>
        /\ obj[t][2] <= gen[obj[t][1]]
        /\ obj[t][1] \notin exported => obj[t][2] < gen[obj[t][1]]

(* The entries that the clean-up thread has dropped, or may drop, from the *)
(* file it works on are not of a device that a handler works on.           *)
Condemned ==
    (files[scan.file] \ (scan.todo \cup scan.kept))
        \cup (IF scan.stage \in {"umount", "rmdir"} THEN {scan.cur} ELSE {})

Sheltered ==
    lockOwner = Cleaner =>
        \A t \in Thread : Working(t) => \A e \in Condemned : obj[t] # Current(e.dev)

CInv == /\ EntriesFit /\ OneEntryPerMountPoint /\ MountsWhereItMay
        /\ DirectoriesNamed /\ FstabPointsMade /\ ObjectsPast /\ Sheltered
-----------------------------------------------------------------------------
-----------------------------------------------------------------------------
(* Only udisks_state_add_mounted_fs adds an entry.                         *)
LEMMA FilesShrink ==
    ASSUME IInv, ConstantsAssumption, [Next]_vars, \A t \in Thread : ~RecordMount(t)
    PROVE  \A f \in File : files'[f] \subseteq files[f]
<1>1. ASSUME NEW a \in Actor, Scan(a)
      PROVE  \A f \in File : files'[f] \subseteq files[f]
  <2>1. CASE SaveFile(a)
    BY <2>1 DEF SaveFile, IInv, ScanOK
  <2> QED
    BY <1>1, <2>1 DEF Scan, CheckEntry, LazyUmount, LazyUmountFails, RemoveDirectory,
       RemoveDirectoryFails
<1>2. ASSUME NEW t \in Thread, Handler(t)
      PROVE  UNCHANGED files
  BY <1>2, HandlerElsewhereScan DEF HandlerElsewhere, StartCheckBlock
<1>3. ASSUME NEW reboot \in BOOLEAN, Restart(reboot)
      PROVE  \A f \in File : files'[f] \subseteq files[f]
  BY <1>3 DEF Restart
<1>4. CASE World
  BY <1>3, <1>4, WorldScan
<1>5. CASE StartPass \/ (\E t \in Thread : Call(t)) \/ (\E d \in Dev : ProcessUevent(d))
           \/ ReloadMounts \/ UNCHANGED vars
  BY <1>5 DEF StartPass, Call, ProcessUevent, ReloadMounts, vars, stateVar
<1> QED BY <1>1, <1>2, <1>4, <1>5 DEF Next

LEMMA EntriesFitStep ==
    ASSUME IInv, ConstantsAssumption, EntriesFit, MountsWhereItMay, [Next]_vars
    PROVE  EntriesFit'
<1>1. ASSUME NEW t \in Thread, RecordMount(t)
      PROVE  EntriesFit'
  <2> DEFINE new == [mp |-> hmp[t], dev |-> Device(t), fstab |-> IsFstab(t)]
  <2>1. RecordFile(t) \in File
    BY DEF RecordFile, File
  <2>2. \A f \in File : files'[f] = IF f = RecordFile(t)
                                   THEN {x \in files[f] : x.mp # new.mp} \cup {new}
                                   ELSE files[f]
    BY <1>1 DEF RecordMount, AddMountedFs, IInv, TypeOK, StateOK
  <2>3. hmp[t] \in Mp /\ Device(t) \in Dev
    BY <1>1 DEF RecordMount, IInv, HandlerShape, HasMountPoint, Device
  <2>4. IsFstab(t) => hmp[t] \in FstabPoints
    BY <2>3 DEF IsFstab, FstabPoints
  <2>5. ~IsFstab(t) => hmp[t] \notin FstabPoints
    BY <1>1 DEF RecordMount, MountsWhereItMay, HasMountPoint, Dynamic
  <2>6. RecordFile(t) = FileOf(new.mp)
    BY <2>4, <2>5 DEF RecordFile, FileOf
  <2>7. new.fstab => new.mp \in FstabPoints
    BY <2>4
  <2> HIDE DEF new
  <2> SUFFICES ASSUME NEW f \in File, NEW e \in files'[f]
               PROVE  f = FileOf(e.mp) /\ (e.fstab => e.mp \in FstabPoints)
    BY DEF EntriesFit
  <2>8. e \in files[f] \/ (f = RecordFile(t) /\ e = new)
    BY <2>2
  <2> QED BY <2>6, <2>7, <2>8 DEF EntriesFit
<1>2. CASE \A t \in Thread : ~RecordMount(t)
  BY <1>2, FilesShrink DEF EntriesFit
<1> QED BY <1>1, <1>2

(* The moves of one thread leave the others where they are.                *)
LEMMA MountsWhereItMayHandler ==
    ASSUME TypeOK, HandlerShape, ConstantsAssumption, MountsWhereItMay,
           NEW t \in Thread, Handler(t)
    PROVE  MountsWhereItMay'
<1> USE DEF TypeOK, HandlerOK, MountsWhereItMay, HasMountPoint, IsFstab, Device, Goto
<1>1. CASE LockFilesystem(t) \/ LockForCleanup(t) \/ StartCheckBlock(t) \/ Refuse(t)
  <2>1. pc'[t] \notin HasMountPoint
    BY <1>1 DEF LockFilesystem, LockForCleanup, StartCheckBlock, Refuse
  <2>2. /\ UNCHANGED <<hmp, made>>
        /\ \A u \in Thread \ {t} : pc'[u] = pc[u] /\ obj'[u] = obj[u]
    BY <1>1 DEF LockFilesystem, LockForCleanup, StartCheckBlock, Refuse
  <2> QED BY <2>1, <2>2
<1>2. CASE PrepareMount(t) \/ CalculateMountPoint(t)
  <2>1. pc'[t] = "calculate" \/ (pc'[t] = "mkdir" /\ (hmp'[t] \in Dynamic \/ IsFstab(t)'))
    BY <1>2 DEF PrepareMount, CalculateMountPoint
  <2>2. /\ UNCHANGED <<obj, made>>
        /\ \A u \in Thread \ {t} : pc'[u] = pc[u] /\ hmp'[u] = hmp[u]
    BY <1>2 DEF PrepareMount, CalculateMountPoint
  <2> QED BY <2>1, <2>2
<1>3. CASE MakeDirectory(t)
  <2>1. hmp[t] \in Mp /\ obj[t][1] \in Dev
    BY <1>3 DEF MakeDirectory, HandlerShape
  <2>2. hmp[t] \in FstabPoints \/ made'[t] \/ pc'[t] = "release"
    BY <1>3, <2>1 DEF MakeDirectory, FstabPoints
  <2>3. pc[t] = "mkdir" /\ pc'[t] \in {"mounting", "release"}
    BY <1>3 DEF MakeDirectory
  <2>4. /\ UNCHANGED <<obj, hmp>>
        /\ \A u \in Thread \ {t} : pc'[u] = pc[u] /\ made'[u] = made[u]
    BY <1>3 DEF MakeDirectory
  <2> QED BY <2>2, <2>3, <2>4
<1>4. CASE Mount(t)
  BY <1>4 DEF Mount
<1>5. CASE MountFails(t) \/ RecordMount(t)
  BY <1>5 DEF MountFails, RecordMount
<1>6. CASE PrepareUnmount(t) \/ FindMountPoint(t)
  <2>1. pc'[t] \notin HasMountPoint
    BY <1>6 DEF PrepareUnmount, FindMountPoint
  <2>2. /\ UNCHANGED <<obj, made>>
        /\ \A u \in Thread \ {t} : pc'[u] = pc[u] /\ hmp'[u] = hmp[u]
    BY <1>6 DEF PrepareUnmount, FindMountPoint
  <2> QED BY <2>1, <2>2
<1>7. CASE Unmount(t) \/ UnmountFails(t) \/ TriggerUevent(t) \/ Release(t)
  BY <1>7 DEF Unmount, UnmountFails, TriggerUevent, Release
<1>8. CASE Recheck(t)
  BY <1>8 DEF Recheck
<1> QED BY <1>1, <1>2, <1>3, <1>4, <1>5, <1>6, <1>7, <1>8 DEF Handler

LEMMA MountsWhereItMayStep ==
    ASSUME IInv, ConstantsAssumption, MountsWhereItMay, [Next]_vars
    PROVE  MountsWhereItMay'
<1>1. CASE UNCHANGED <<pc, obj, hmp, made>>
  BY <1>1 DEF MountsWhereItMay, IsFstab, Device
<1>2. ASSUME NEW a \in Actor, Scan(a)
      PROVE  MountsWhereItMay'
  <2>1. CASE SaveFile(a)
    BY <2>1 DEF SaveFile, IInv, TypeOK, HandlerOK, MountsWhereItMay, IsFstab, Device, HasMountPoint
  <2> QED
    BY <1>1, <1>2, <2>1 DEF Scan, CheckEntry, LazyUmount, LazyUmountFails, RemoveDirectory,
       RemoveDirectoryFails, handler
<1>3. ASSUME NEW t \in Thread, Call(t)
      PROVE  MountsWhereItMay'
  BY <1>3 DEF Call, Goto, MountsWhereItMay, IsFstab, Device, HasMountPoint
<1>4. ASSUME NEW t \in Thread, Handler(t)
      PROVE  MountsWhereItMay'
  BY <1>4, MountsWhereItMayHandler DEF IInv
<1>5. CASE World
  <2>1. ASSUME NEW reboot \in BOOLEAN, Restart(reboot)
        PROVE  MountsWhereItMay'
    BY <2>1 DEF Restart, MountsWhereItMay, HasMountPoint
  <2> QED
    BY <1>1, <1>5, <2>1 DEF World, PullMedia, InsertMedia, Unplug, Plug, RootMounts, RootUnmounts,
       OtherUevent, handler
<1>6. CASE StartPass \/ (\E d \in Dev : ProcessUevent(d)) \/ ReloadMounts \/ UNCHANGED vars
  BY <1>1, <1>6 DEF StartPass, ProcessUevent, ReloadMounts, vars, handler
<1> QED BY <1>2, <1>3, <1>4, <1>5, <1>6 DEF Next
-----------------------------------------------------------------------------
(* Objects are replaced by the provider only, which never takes one back.  *)
LEMMA ObjectsPastStep ==
    ASSUME IInv, ConstantsAssumption, ObjectsPast, [Next]_vars
    PROVE  ObjectsPast'
<1> USE DEF IInv, TypeOK, ViewOK, HandlerOK
<1>1. CASE UNCHANGED <<pc, obj, gen, exported>>
  BY <1>1 DEF ObjectsPast
<1>2. ASSUME NEW a \in Actor, Scan(a)
      PROVE  ObjectsPast'
  <2>1. CASE SaveFile(a)
    BY <2>1 DEF SaveFile, view, ScanOK, ObjectsPast
  <2> QED
    BY <1>1, <1>2, <2>1 DEF Scan, CheckEntry, LazyUmount, LazyUmountFails, RemoveDirectory,
       RemoveDirectoryFails, handler, view
<1>3. ASSUME NEW t \in Thread, Call(t)
      PROVE  ObjectsPast'
  BY <1>3 DEF Call, Goto, view, Current, ObjectsPast
<1>4. ASSUME NEW t \in Thread, Handler(t)
      PROVE  ObjectsPast'
  <2>1. \A u \in Thread : pc'[u] # "idle" => pc[u] # "idle" /\ obj'[u] = obj[u]
    BY <1>4 DEF Handler, Goto, LockFilesystem, LockForCleanup, StartCheckBlock, Refuse,
       PrepareMount, CalculateMountPoint, MakeDirectory, Mount, MountFails, RecordMount,
       PrepareUnmount, FindMountPoint, Unmount, UnmountFails, TriggerUevent, Release, Recheck
  <2>2. UNCHANGED <<gen, exported>>
    BY <1>4 DEF Handler, LockFilesystem, LockForCleanup, StartCheckBlock, Refuse, PrepareMount,
       CalculateMountPoint, MakeDirectory, Mount, MountFails, RecordMount, PrepareUnmount,
       FindMountPoint, Unmount, UnmountFails, TriggerUevent, Release, Recheck, view
  <2> QED BY <2>1, <2>2 DEF ObjectsPast
<1>5. ASSUME NEW d \in Dev, ProcessUevent(d)
      PROVE  ObjectsPast'
  <2>1. UNCHANGED <<pc, obj>>
    BY <1>5 DEF ProcessUevent, handler
  <2>2. CASE exported' = exported \cup {d} /\ UNCHANGED gen
    BY <2>1, <2>2 DEF ObjectsPast
  <2>3. CASE exported' = exported \ {d} /\ gen' = [gen EXCEPT ![d] = @ + 1]
    <3> SUFFICES ASSUME NEW t \in Thread, pc[t] # "idle"
                 PROVE  /\ obj[t][2] <= gen'[obj[t][1]]
                        /\ obj[t][1] \notin exported' => obj[t][2] < gen'[obj[t][1]]
      BY <2>1 DEF ObjectsPast
    <3>1. obj[t] \in Dev \X Nat
      BY DEF HandlerShape
    <3>2. CASE obj[t][1] = d
      BY <2>3, <3>1 DEF ObjectsPast
    <3>3. CASE obj[t][1] # d
      BY <2>3, <3>3 DEF ObjectsPast
    <3> QED BY <3>2, <3>3
  <2> QED BY <1>5, <2>2, <2>3 DEF ProcessUevent
<1>6. CASE World
  <2>1. ASSUME NEW reboot \in BOOLEAN, Restart(reboot)
        PROVE  ObjectsPast'
    BY <2>1 DEF Restart, ObjectsPast
  <2> QED
    BY <1>1, <1>6, <2>1 DEF World, PullMedia, InsertMedia, Unplug, Plug, RootMounts, RootUnmounts,
       OtherUevent, handler, view
<1>7. CASE StartPass \/ ReloadMounts \/ UNCHANGED vars
  BY <1>1, <1>7 DEF StartPass, ReloadMounts, vars, handler, view
<1> QED BY <1>2, <1>3, <1>4, <1>5, <1>6, <1>7 DEF Next
-----------------------------------------------------------------------------
(* No handler begins to work while the clean-up thread has state->lock.    *)
LEMMA ShelteredFrame ==
    ASSUME Sheltered, lockOwner' = Cleaner => lockOwner = Cleaner,
           lockOwner' = Cleaner => Condemned' \subseteq Condemned,
           UNCHANGED gen,
           \A t \in Thread : Working(t)' => Working(t) /\ obj'[t] = obj[t]
    PROVE  Sheltered'
BY DEF Sheltered, Current

LEMMA ShelteredScan ==
    ASSUME IInv, ConstantsAssumption, ObjectsPast, Sheltered, Scan(Cleaner)
    PROVE  Sheltered'
<1> USE DEF IInv, TypeOK, StateOK
<1>1. lockOwner = Cleaner /\ Cleaner \in Actor /\ Cleaner # Nobody
  BY DEF Scan, CheckEntry, LazyUmount, LazyUmountFails, RemoveDirectory, RemoveDirectoryFails,
     SaveFile
<1>2. UNCHANGED <<pc, obj, gen>>
  BY DEF Scan, CheckEntry, LazyUmount, LazyUmountFails, RemoveDirectory, RemoveDirectoryFails,
     SaveFile, handler, view
<1>3. \A t \in Thread : Working(t)' => Working(t) /\ obj'[t] = obj[t]
  BY <1>2 DEF Working
<1>4. ASSUME Condemned' \subseteq Condemned
      PROVE  Sheltered'
  BY <1>1, <1>2, <1>3, <1>4, ShelteredFrame
<1>5. CASE CheckEntry(Cleaner)
  <2>1. PICK e \in scan.todo : \/ Skip(e)
                               \/ CleanUp(Cleaner, e) /\ ~TryLockFails(Cleaner, e)
    BY <1>5 DEF CheckEntry
  <2>2. UNCHANGED files /\ scan.stage = "pick"
    BY <1>5 DEF CheckEntry
  <2>3. CASE Skip(e)
    <3>1. Condemned' \subseteq Condemned
      BY <2>2, <2>3 DEF Skip, Condemned
    <3> QED BY <1>4, <3>1
  <2>4. CASE CleanUp(Cleaner, e) /\ ~TryLockFails(Cleaner, e)
    <3>1. Condemned' \subseteq Condemned \cup {e}
      BY <2>2, <2>4 DEF CleanUp, Condemned
    <3>2. ASSUME NEW t \in Thread, Working(t), obj[t] = Current(e.dev)
          PROVE  FALSE
      <4>1. pc[t] \in HoldsCleanup /\ pc[t] # "idle"
        BY <3>2 DEF Working, HoldsCleanup
      <4>2. e.dev \in Dev
        BY DEF ScanType, Entry
      <4>3. e.dev \notin exported
        BY <2>4, <3>2, <4>1 DEF TryLockFails, CleanupBusy
      <4>4. obj[t][1] = e.dev /\ obj[t][2] = gen[e.dev] /\ gen[e.dev] \in Nat
        BY <3>2, <4>2 DEF Current, ViewOK
      <4> QED BY <4>1, <4>3, <4>4 DEF ObjectsPast
    <3> SUFFICES ASSUME NEW t \in Thread, Working(t), NEW x \in Condemned'
                 PROVE  obj[t] # Current(x.dev)
      BY <1>2 DEF Sheltered, Working, Current
    <3> QED BY <1>1, <3>1, <3>2 DEF Sheltered
  <2> QED BY <2>1, <2>3, <2>4
<1>6. CASE LazyUmount(Cleaner)
  <2>1. Condemned' \subseteq Condemned
    BY <1>6 DEF LazyUmount, Condemned
  <2> QED BY <1>4, <2>1
<1>7. CASE LazyUmountFails(Cleaner) \/ RemoveDirectoryFails(Cleaner)
  <2>1. UNCHANGED files /\ Keep /\ scan.stage \in {"umount", "rmdir"}
    BY <1>7 DEF LazyUmountFails, RemoveDirectoryFails
  <2>2. Condemned' \subseteq Condemned
    BY <2>1 DEF Keep, Done, Condemned
  <2> QED BY <1>4, <2>2
<1>8. CASE RemoveDirectory(Cleaner)
  <2>1. Condemned' \subseteq Condemned
    BY <1>8 DEF RemoveDirectory, Drop, Done, Condemned
  <2> QED BY <1>4, <2>1
<1>9. CASE SaveFile(Cleaner)
  <2>1. CASE scan.file = "run"
    <3>1. scan' = OpenFile("persistent", Cleaner) /\ files'["persistent"] = files["persistent"]
      BY <1>9, <2>1 DEF SaveFile
    <3>2. Condemned' = {}
      BY <3>1 DEF OpenFile, Condemned
    <3> QED BY <1>4, <3>2
  <2>2. CASE scan.file # "run"
    BY <1>9, <2>2 DEF SaveFile, Sheltered
  <2> QED BY <2>1, <2>2
<1> QED BY <1>5, <1>6, <1>7, <1>8, <1>9 DEF Scan

LEMMA ShelteredStep ==
    ASSUME IInv, ConstantsAssumption, ObjectsPast, Sheltered, [Next]_vars
    PROVE  Sheltered'
<1> USE DEF IInv, TypeOK, HandlerOK
<1>1. CASE UNCHANGED <<pc, obj, gen, files, scan, lockOwner>>
  BY <1>1 DEF Sheltered, Condemned, Working, Current
<1>2. CASE StartPass
  BY <1>2 DEF StartPass, OpenFile, Sheltered, Condemned
<1>3. ASSUME NEW a \in Actor, Scan(a)
      PROVE  Sheltered'
  <2>1. CASE a = Cleaner
    BY <1>3, <2>1, ShelteredScan
  <2>2. CASE a # Cleaner
    <3>1. lockOwner' \in {a, Nobody}
      BY <1>3 DEF Scan, CheckEntry, LazyUmount, LazyUmountFails, RemoveDirectory,
         RemoveDirectoryFails, SaveFile
    <3> QED BY <2>2, <3>1 DEF Sheltered
  <2> QED BY <2>1, <2>2
<1>4. ASSUME NEW t \in Thread, Call(t)
      PROVE  Sheltered'
  <2>1. UNCHANGED <<gen, files, scan, lockOwner>>
    BY <1>4 DEF Call, view, stateVar
  <2>2. \A u \in Thread : Working(u)' => Working(u) /\ obj'[u] = obj[u]
    BY <1>4 DEF Call, Goto, Working, HoldsCleanup
  <2> QED BY <2>1, <2>2, ShelteredFrame DEF Condemned
<1>5. ASSUME NEW t \in Thread, Handler(t)
      PROVE  Sheltered'
  <2>1. CASE StartCheckBlock(t)
    BY <2>1 DEF StartCheckBlock, Sheltered
  <2>2. CASE RecordMount(t)
    BY <2>2 DEF RecordMount, Sheltered
  <2>3. CASE HandlerElsewhere(t)
    <3>1. UNCHANGED <<files, scan, lockOwner>>
      BY <2>3, HandlerElsewhereScan
    <3>2. UNCHANGED gen
      BY <2>3 DEF HandlerElsewhere, Handler, LockFilesystem, LockForCleanup, Refuse, PrepareMount,
         CalculateMountPoint, MakeDirectory, Mount, MountFails, PrepareUnmount, FindMountPoint,
         Unmount, UnmountFails, TriggerUevent, Release, Recheck, view
    <3>3. \A u \in Thread : Working(u)' => Working(u) /\ obj'[u] = obj[u]
      BY <2>3 DEF HandlerElsewhere, Handler, Goto, LockFilesystem, LockForCleanup, Refuse,
         PrepareMount, CalculateMountPoint, MakeDirectory, Mount, MountFails, PrepareUnmount,
         FindMountPoint, Unmount, UnmountFails, TriggerUevent, Release, Recheck, Working,
         HoldsCleanup
    <3> QED BY <3>1, <3>2, <3>3, ShelteredFrame DEF Condemned
  <2> QED BY <1>5, <2>1, <2>2, <2>3 DEF HandlerElsewhere
<1>6. ASSUME NEW d \in Dev, ProcessUevent(d)
      PROVE  Sheltered'
  <2>1. UNCHANGED <<pc, obj, files, scan, lockOwner>>
    BY <1>6 DEF ProcessUevent, handler
  <2> SUFFICES ASSUME lockOwner = Cleaner, NEW t \in Thread, Working(t),
                      NEW e \in Condemned, obj[t] = <<e.dev, gen'[e.dev]>>
               PROVE  FALSE
    BY <2>1 DEF Sheltered, Condemned, Working, Current
  <2>2. pc[t] # "idle" /\ obj[t] \in Dev \X Nat
    BY DEF Working, HoldsCleanup, HandlerShape
  <2>3. obj[t][2] <= gen[e.dev] /\ gen \in [Dev -> Nat] /\ e.dev \in Dev
    BY <2>2 DEF ObjectsPast, ViewOK
  <2>4. gen'[e.dev] = gen[e.dev] \/ gen'[e.dev] = gen[e.dev] + 1
    BY <1>6, <2>3 DEF ProcessUevent
  <2>5. gen'[e.dev] = gen[e.dev]
    BY <2>3, <2>4
  <2> QED BY <2>5 DEF Sheltered, Current
<1>7. CASE World
  <2>1. ASSUME NEW reboot \in BOOLEAN, Restart(reboot)
        PROVE  Sheltered'
    BY <2>1 DEF Restart, Sheltered
  <2> QED
    BY <1>1, <1>7, <2>1 DEF World, PullMedia, InsertMedia, Unplug, Plug, RootMounts, RootUnmounts,
       OtherUevent, handler, view, stateVar
<1>8. CASE ReloadMounts \/ UNCHANGED vars
  BY <1>1, <1>8 DEF ReloadMounts, vars, handler, view, stateVar
<1> QED BY <1>2, <1>3, <1>4, <1>5, <1>6, <1>7, <1>8 DEF Next
-----------------------------------------------------------------------------
(* Directories.  The handlers between making one and recording it.         *)
SameMakers ==
    \A t \in Thread : pc[t] = "mounting" /\ made[t]
                      => pc'[t] = "mounting" /\ made'[t] /\ hmp'[t] = hmp[t]

LEMMA DirectoriesFrame ==
    ASSUME DirectoriesNamed, SameRecord, SameMakers, UNCHANGED <<mnt, dirs, foreign>>,
           Remaining \subseteq Remaining'
    PROVE  DirectoriesNamed'
<1>1. \A m : AtRecord(m) => AtRecord(m)'
  BY DEF SameRecord, AtRecord
<1>2. \A m : Making(m) => Making(m)'
  BY DEF SameMakers, Making
<1> QED BY <1>1, <1>2 DEF DirectoriesNamed, Named

LEMMA DirectoriesDetach ==
    ASSUME WorldOK, DirectoriesNamed, SameRecord, SameMakers, UNCHANGED <<dirs, foreign>>,
           NEW x, Detach(x), Remaining \subseteq Remaining'
    PROVE  DirectoriesNamed'
<1>1. \A m : AtRecord(m) => AtRecord(m)'
  BY DEF SameRecord, AtRecord
<1>2. \A m : Making(m) => Making(m)'
  BY DEF SameMakers, Making
<1>3. \A m \in Mp : mnt'[m] = mnt[m] \/ mnt'[m] = NoDev
  BY DEF Detach
<1>4. dirs \subseteq Mp
  BY DEF WorldOK
<1> QED BY <1>1, <1>2, <1>3, <1>4 DEF DirectoriesNamed, Named

LEMMA SameRemaining ==
    ASSUME UNCHANGED <<files, scan>>
    PROVE  Remaining' = Remaining
BY SameSurvivors DEF Remaining

LEMMA RemainingEntries ==
    ASSUME StateOK, ScanOK
    PROVE  \A e \in Remaining : \E f \in File : e \in files[f]
BY SurvivorsEntries DEF Remaining, ScanOK, Entries, File

(* Only a handler moves between mkdir and the record.                      *)
LEMMA SameMakersScan ==
    ASSUME HandlerOK, ScanOK, NEW a \in Actor, Scan(a)
    PROVE  SameMakers
<1>1. CASE SaveFile(a)
  BY <1>1 DEF SaveFile, SameMakers, HandlerOK, ScanOK
<1> QED
  BY <1>1 DEF Scan, CheckEntry, LazyUmount, LazyUmountFails, RemoveDirectory, RemoveDirectoryFails,
     handler, SameMakers

LEMMA SameMakersHandler ==
    ASSUME HandlerOK, NEW t \in Thread, Handler(t), ~Mount(t), ~MountFails(t)
    PROVE  SameMakers
<1>1. pc[t] # "mounting"
  BY DEF Handler, LockFilesystem, LockForCleanup, StartCheckBlock, Refuse, PrepareMount,
     CalculateMountPoint, MakeDirectory, RecordMount, PrepareUnmount, FindMountPoint, Unmount,
     UnmountFails, TriggerUevent, Release, Recheck
<1>2. \A u \in Thread \ {t} : pc'[u] = pc[u]
  BY DEF Handler, Goto, HandlerOK, LockFilesystem, LockForCleanup, StartCheckBlock, Refuse,
     PrepareMount, CalculateMountPoint, MakeDirectory, RecordMount, PrepareUnmount, FindMountPoint,
     Unmount, UnmountFails, TriggerUevent, Release, Recheck
<1>3. \A u \in Thread \ {t} : hmp'[u] = hmp[u] /\ made'[u] = made[u]
  BY DEF Handler, HandlerOK, LockFilesystem, LockForCleanup, StartCheckBlock, Refuse, PrepareMount,
     CalculateMountPoint, MakeDirectory, RecordMount, PrepareUnmount, FindMountPoint, Unmount,
     UnmountFails, TriggerUevent, Release, Recheck
<1> QED BY <1>1, <1>2, <1>3 DEF SameMakers

LEMMA DirectoriesScan ==
    ASSUME TypeOK, ScanOK, EntriesFit, DirectoriesNamed, NEW a \in Actor, Scan(a)
    PROVE  DirectoriesNamed'
<1> USE DEF TypeOK
<1>1. SameRecord /\ SameMakers
  BY SameRecordScan, SameMakersScan
<1>2. CASE CheckEntry(a)
  <2>1. PICK x \in scan.todo : Skip(x) \/ CleanUp(a, x)
    BY <1>2 DEF CheckEntry
  <2>2. UNCHANGED <<mnt, dirs, foreign, files>> /\ scan.stage = "pick"
    BY <1>2 DEF CheckEntry, world, history
  <2>3. Remaining = scan.todo \cup scan.kept \cup OtherFiles
    BY <2>2 DEF Remaining, Survivors
  <2>6. scan'.file = scan.file
    BY <2>1 DEF Skip, CleanUp, StateOK, ScanType
  <2>7. OtherFiles' = OtherFiles
    BY <2>2, <2>6 DEF OtherFiles
  <2>4. CASE Skip(x)
    BY <1>1, <2>2, <2>4, <2>7, DirectoriesFrame DEF Skip, Remaining, Survivors
  <2>5. CASE CleanUp(a, x)
    <3>1. /\ scan'.todo = scan.todo \ {x} /\ scan'.kept = scan.kept /\ scan'.cur = x
          /\ scan'.stage \in {"umount", "rmdir"}
      BY <2>5 DEF CleanUp
    <3>2. Remaining \subseteq Remaining'
      BY <2>3, <2>7, <3>1 DEF Remaining, Survivors
    <3> QED BY <1>1, <2>2, <3>2, DirectoriesFrame
  <2> QED BY <2>1, <2>4, <2>5
<1>3. CASE LazyUmount(a)
  <2>1. Remaining \subseteq Remaining'
    BY <1>3 DEF LazyUmount, Remaining, Survivors, OtherFiles
  <2> QED BY <1>1, <1>3, <2>1, DirectoriesDetach DEF LazyUmount
<1>4. CASE LazyUmountFails(a) \/ RemoveDirectoryFails(a)
  <2>1. /\ UNCHANGED <<mnt, dirs, foreign, files>> /\ Keep
        /\ scan.stage \in {"umount", "rmdir"}
    BY <1>4 DEF LazyUmountFails, RemoveDirectoryFails, world, history
  <2>2. Remaining \subseteq Remaining'
    BY <2>1 DEF Keep, Done, Remaining, Survivors, OtherFiles
  <2> QED BY <1>1, <2>1, <2>2, DirectoriesFrame
<1>5. CASE RemoveDirectory(a)
  <2>1. UNCHANGED <<mnt, files>> /\ Drop /\ scan.stage = "rmdir"
    BY <1>5 DEF RemoveDirectory
  <2>2. Remaining \ {scan.cur} \subseteq Remaining'
    BY <2>1 DEF Drop, Done, Remaining, Survivors, OtherFiles
  <2>3. \A m : AtRecord(m) => AtRecord(m)'
    BY <1>1 DEF SameRecord, AtRecord
  <2>4. \A m : Making(m) => Making(m)'
    BY <1>1 DEF SameMakers, Making
  <2>5. CASE NeedsRmdir
    <3>1. /\ mnt[scan.cur.mp] = NoDev /\ dirs' = dirs \ {scan.cur.mp}
          /\ foreign' = foreign \ {scan.cur.mp}
      BY <1>5, <2>5 DEF RemoveDirectory
    <3> QED BY <2>1, <2>2, <2>3, <2>4, <3>1 DEF DirectoriesNamed, Named
  <2>6. CASE ~NeedsRmdir
    <3>1. UNCHANGED <<dirs, foreign>>
      BY <1>5, <2>6 DEF RemoveDirectory
    <3>2. scan.cur.mp \in dirs => scan.cur.mp \in FstabPoints
      BY <2>1, <2>6 DEF NeedsRmdir, ScanOK, EntriesFit
    <3> QED BY <2>1, <2>2, <2>3, <2>4, <3>1, <3>2 DEF DirectoriesNamed, Named
  <2> QED BY <2>5, <2>6
<1>6. CASE SaveFile(a)
  <2>1. UNCHANGED <<mnt, dirs, foreign>> /\ scan.stage = "pick"
    BY <1>6 DEF SaveFile, world, history
  <2>2. Remaining \subseteq Remaining'
    BY <1>6, <2>1, SaveFileSurvivors DEF Remaining
  <2> QED BY <1>1, <2>1, <2>2, DirectoriesFrame
<1> QED BY <1>2, <1>3, <1>4, <1>5, <1>6 DEF Scan

LEMMA DirectoriesHandler ==
    ASSUME TypeOK, ScanOK, HandlerShape, ConstantsAssumption, DirectoriesNamed,
           NEW t \in Thread, Handler(t)
    PROVE  DirectoriesNamed'
<1> USE DEF TypeOK
<1>1. CASE Mount(t)
  <2>1. /\ UNCHANGED <<dirs, hmp, made, files, scan>> /\ foreign \subseteq foreign'
        /\ hmp[t] \in dirs /\ pc[t] = "mounting"
        /\ \A m \in Mp \ {hmp[t]} : mnt'[m] = mnt[m]
    BY <1>1 DEF Mount, stateVar
  <2>2. pc'[t] = "record" /\ \A u \in Thread \ {t} : pc'[u] = pc[u]
    BY <1>1 DEF Mount, Goto, HandlerOK
  <2>3. \A m : AtRecord(m) => AtRecord(m)'
    BY <2>1, <2>2 DEF AtRecord
  <2>4. AtRecord(hmp[t])'
    BY <2>2 DEF AtRecord
  <2>5. \A m : m # hmp[t] /\ Making(m) => Making(m)'
    BY <2>1, <2>2 DEF Making
  <2>6. dirs \subseteq Mp
    BY DEF WorldOK
  <2> QED BY <2>1, <2>3, <2>4, <2>5, <2>6, SameRemaining DEF DirectoriesNamed, Named
<1>2. CASE RecordMount(t)
  <2>1. UNCHANGED <<mnt, dirs, hmp, foreign, scan>> /\ scan.stage = "none"
    BY <1>2 DEF RecordMount, ScanOK, world, history
  <2>2. Remaining = Entries /\ Remaining' = Entries'
    BY <2>1 DEF Remaining, Survivors
  <2>3. RecordFile(t) \in File
    BY DEF RecordFile, File
  <2> DEFINE new == [mp |-> hmp[t], dev |-> Device(t), fstab |-> IsFstab(t)]
  <2>4. new \in Entries'
    BY <1>2, <2>3 DEF RecordMount, AddMountedFs, Entries, File, StateOK
  <2>5. \A e \in Entries : e.mp # hmp[t] => e \in Entries'
    BY <1>2 DEF RecordMount, AddMountedFs, Entries
  <2>6. \A u \in Thread \ {t} : pc'[u] = pc[u]
    BY <1>2 DEF RecordMount, Goto
  <2>7. \A m : m # hmp[t] /\ AtRecord(m) => AtRecord(m)'
    BY <2>1, <2>6 DEF AtRecord
  <2>8. \A m : Making(m) => Making(m)'
    BY <1>2, SameMakersHandler DEF RecordMount, Mount, MountFails, SameMakers, Making
  <2>9. new.mp = hmp[t]
    OBVIOUS
  <2> HIDE DEF new
  <2> QED BY <2>1, <2>2, <2>4, <2>5, <2>7, <2>8, <2>9 DEF DirectoriesNamed, Named
<1>3. CASE MakeDirectory(t)
  <2>1. /\ UNCHANGED <<mnt, hmp, foreign, files, scan>> /\ pc[t] = "mkdir"
        /\ hmp[t] \in Mp
    BY <1>3 DEF MakeDirectory, stateVar, history, HandlerShape, HasMountPoint
  <2>2. ~Mount(t) /\ ~RecordMount(t) /\ ~MountFails(t)
    BY <2>1 DEF Mount, RecordMount, MountFails
  <2>3. SameRecord /\ SameMakers
    BY <2>2, SameRecordHandler, SameMakersHandler
  <2>4. CASE UNCHANGED dirs
    BY <2>1, <2>3, <2>4, SameRemaining, DirectoriesFrame
  <2>5. CASE /\ hmp[t] \notin dirs /\ dirs' = dirs \cup {hmp[t]}
             /\ pc'[t] = "mounting" /\ made'[t]
    <3>1. Making(hmp[t])' /\ mnt[hmp[t]] = NoDev
      BY <2>1, <2>5 DEF Making, DirectoriesNamed
    <3>2. \A m : AtRecord(m) => AtRecord(m)'
      BY <2>3 DEF SameRecord, AtRecord
    <3>3. \A m : Making(m) => Making(m)'
      BY <2>3 DEF SameMakers, Making
    <3> QED BY <2>1, <2>5, <3>1, <3>2, <3>3, SameRemaining DEF DirectoriesNamed, Named
  <2> QED BY <1>3, <2>4, <2>5 DEF MakeDirectory, Goto, HandlerOK
<1>4. CASE MountFails(t)
  <2>1. /\ UNCHANGED <<mnt, hmp, made, files, scan>> /\ foreign' = foreign \cap dirs'
        /\ dirs' = IF made[t] /\ mnt[hmp[t]] = NoDev THEN dirs \ {hmp[t]} ELSE dirs
    BY <1>4 DEF MountFails, stateVar, history
  <2>2. ~Mount(t) /\ ~RecordMount(t)
    BY <1>4 DEF Mount, MountFails, RecordMount, Goto, HandlerOK
  <2>3. \A m : AtRecord(m) => AtRecord(m)'
    BY <2>2, SameRecordHandler DEF SameRecord, AtRecord
  <2>4. \A u \in Thread \ {t} : pc'[u] = pc[u]
    BY <1>4 DEF MountFails, Goto
  <2>5. \A m \in dirs' : Making(m) /\ mnt[m] = NoDev => Making(m)'
    BY <2>1, <2>4 DEF Making
  <2> QED BY <2>1, <2>3, <2>5, SameRemaining DEF DirectoriesNamed, Named
<1>5. CASE StartCheckBlock(t)
  <2>1. ~Mount(t) /\ ~RecordMount(t) /\ ~MountFails(t)
    BY <1>5 DEF StartCheckBlock, Mount, RecordMount, MountFails
  <2>2. UNCHANGED <<mnt, dirs, foreign>> /\ scan.stage = "none"
    BY <1>5 DEF StartCheckBlock, ScanOK, world, history
  <2>3. Remaining \subseteq Remaining'
    BY <1>5, <2>2, OpenFileSurvivors DEF StartCheckBlock, Remaining
  <2> QED
    BY <2>1, <2>2, <2>3, SameRecordHandler, SameMakersHandler, DirectoriesFrame
<1>6. CASE Unmount(t)
  <2>1. ~Mount(t) /\ ~RecordMount(t) /\ ~MountFails(t)
    BY <1>6 DEF Unmount, Mount, RecordMount, MountFails
  <2>2. UNCHANGED <<dirs, foreign, files, scan>>
    BY <1>6 DEF Unmount, stateVar
  <2>3. PICK m : Detach(m)
    BY <1>6 DEF Unmount
  <2> QED
    BY <2>1, <2>2, <2>3, SameRecordHandler, SameMakersHandler, SameRemaining, DirectoriesDetach
<1>7. CASE /\ ~Mount(t) /\ ~RecordMount(t) /\ ~MakeDirectory(t) /\ ~MountFails(t)
           /\ ~StartCheckBlock(t) /\ ~Unmount(t)
  <2>1. UNCHANGED <<mnt, dirs, foreign, files, scan>>
    BY <1>7 DEF Handler, LockFilesystem, LockForCleanup, Refuse, PrepareMount, CalculateMountPoint,
       PrepareUnmount, FindMountPoint, UnmountFails, TriggerUevent, Release, Recheck, world,
       history, stateVar
  <2> QED
    BY <1>7, <2>1, SameRecordHandler, SameMakersHandler, SameRemaining, DirectoriesFrame
<1> QED BY <1>1, <1>2, <1>3, <1>4, <1>5, <1>6, <1>7

LEMMA DirectoriesWorld ==
    ASSUME TypeOK, ScanOK, HandlerShape, ConstantsAssumption, EntriesFit, MountsWhereItMay,
           DirectoriesNamed, World
    PROVE  DirectoriesNamed'
<1> USE DEF TypeOK
<1>1. ASSUME NEW reboot \in BOOLEAN, Restart(reboot)
      PROVE  DirectoriesNamed'
  <2>1. \A m \in Mp : mnt'[m] # NoDev => m \in dirs'
    BY <1>1 DEF Restart, DirectoriesNamed
  <2> SUFFICES ASSUME NEW m \in dirs' \ (foreign' \cup FstabPoints)
               PROVE  \E e \in Remaining' : e.mp = m
    BY <2>1 DEF DirectoriesNamed, Named
  <2>2. /\ m \in dirs \ (foreign \cup FstabPoints)
        /\ ~\E t \in Thread : made[t] /\ pc[t] \in {"mounting", "record"} /\ hmp[t] = m
    BY <1>1 DEF Restart
  <2>3. ~AtRecord(m) /\ ~Making(m)
    BY <2>2 DEF AtRecord, Making, MountsWhereItMay
  <2>4. PICK e \in Remaining : e.mp = m
    BY <2>2, <2>3 DEF DirectoriesNamed, Named
  <2>5. e \in files[FileOf(m)]
    BY <2>4, RemainingEntries DEF EntriesFit
  <2>6. reboot => m \in Persistent
    BY <1>1 DEF Restart
  <2>7. e \in files'[FileOf(m)]
    BY <1>1, <2>5 DEF Restart, FileOf
  <2>8. Remaining' = Entries'
    BY <1>1 DEF Restart, NoScan, Remaining, Survivors
  <2> QED BY <2>4, <2>7, <2>8 DEF FileOf, Entries
<1>2. ASSUME NEW m \in Mp, RootUnmounts(m)
      PROVE  DirectoriesNamed'
  <2>1. SameRecord /\ SameMakers /\ UNCHANGED <<files, scan>>
    BY <1>2 DEF RootUnmounts, handler, stateVar, SameRecord, SameMakers
  <2> QED BY <1>2, <2>1, SameRemaining, DirectoriesDetach DEF RootUnmounts
<1>3. ASSUME NEW d \in Dev, NEW m \in Mp, RootMounts(d, m)
      PROVE  DirectoriesNamed'
  <2>1. UNCHANGED <<pc, hmp, made, files, scan>>
    BY <1>3 DEF RootMounts, handler, stateVar
  <2>2. /\ dirs' = dirs \cup {m} /\ foreign' = foreign \cup {m} /\ dirs \subseteq Mp
        /\ \A x \in Mp \ {m} : mnt'[x] = mnt[x]
    BY <1>3 DEF RootMounts, WorldOK
  <2>3. \A x : (AtRecord(x)' <=> AtRecord(x)) /\ (Making(x)' <=> Making(x))
    BY <2>1 DEF AtRecord, Making
  <2> QED BY <2>1, <2>2, <2>3, SameRemaining DEF DirectoriesNamed, Named
<1>4. CASE OtherUevent \/ \E d \in Dev : PullMedia(d) \/ InsertMedia(d) \/ Unplug(d) \/ Plug(d)
  <2>1. UNCHANGED <<pc, hmp, obj, made, mnt, dirs, foreign, files, scan>>
    BY <1>4 DEF OtherUevent, PullMedia, InsertMedia, Unplug, Plug, world, handler, stateVar, history
  <2> QED BY <2>1, SameRemaining, DirectoriesFrame DEF SameRecord, SameMakers
<1> QED BY <1>1, <1>2, <1>3, <1>4 DEF World

(* What keeps an fstab mount point under way: nothing is mounted, and its  *)
(* maker stays.                                                            *)
LEMMA FstabFrame ==
    ASSUME FstabPointsMade, SameMakers, UNCHANGED <<dirs, foreign>>,
           \A m \in dirs \ foreign : mnt'[m] = mnt[m] \/ mnt'[m] = NoDev
    PROVE  FstabPointsMade'
<1>1. \A m : Making(m) => Making(m)'
  BY DEF SameMakers, Making
<1>2. FstabPoints' = FstabPoints
  BY DEF FstabPoints
<1> QED BY <1>1, <1>2 DEF FstabPointsMade

LEMMA FstabScan ==
    ASSUME TypeOK, ScanOK, FstabPointsMade, NEW a \in Actor, Scan(a)
    PROVE  FstabPointsMade'
<1> USE DEF TypeOK
<1>1. SameMakers
  BY SameMakersScan
<1>2. CASE RemoveDirectory(a)
  <2>1. \A m : Making(m) => Making(m)'
    BY <1>1 DEF SameMakers, Making
  <2>2. UNCHANGED mnt /\ \A m \in dirs' \ foreign' : m \in dirs \ foreign
    BY <1>2 DEF RemoveDirectory
  <2>3. FstabPoints' = FstabPoints
    BY DEF FstabPoints
  <2> QED BY <2>1, <2>2, <2>3 DEF FstabPointsMade
<1>3. CASE LazyUmount(a)
  <2>1. UNCHANGED <<dirs, foreign>> /\ Detach(scan.cur.mp) /\ dirs \subseteq Mp
    BY <1>3 DEF LazyUmount, WorldOK
  <2>2. \A m \in Mp : mnt'[m] = mnt[m] \/ mnt'[m] = NoDev
    BY <2>1 DEF Detach, WorldOK
  <2> QED BY <1>1, <2>1, <2>2, FstabFrame
<1>4. CASE ~RemoveDirectory(a) /\ ~LazyUmount(a)
  <2>1. UNCHANGED <<mnt, dirs, foreign>>
    BY <1>4 DEF Scan, CheckEntry, LazyUmountFails, RemoveDirectoryFails, SaveFile, world, history
  <2> QED BY <1>1, <2>1, FstabFrame
<1> QED BY <1>2, <1>3, <1>4

LEMMA FstabHandler ==
    ASSUME TypeOK, HandlerShape, ConstantsAssumption, MountsWhereItMay, DirectoriesNamed,
           FstabPointsMade, NEW t \in Thread, Handler(t)
    PROVE  FstabPointsMade'
<1> USE DEF TypeOK
<1>1. CASE Mount(t)
  <2>1. /\ UNCHANGED <<dirs, hmp, made>> /\ pc[t] = "mounting"
        /\ foreign' = IF IsFstab(t) THEN foreign \cup {hmp[t]} ELSE foreign
        /\ mnt' = [mnt EXCEPT ![hmp[t]] = Device(t)]
    BY <1>1 DEF Mount
  <2>2. \A u \in Thread \ {t} : pc'[u] = pc[u]
    BY <1>1 DEF Mount, Goto, HandlerOK
  <2>3. hmp[t] \in FstabPoints => IsFstab(t)
    BY <2>1 DEF MountsWhereItMay, HasMountPoint, Dynamic
  <2>4. \A m : m # hmp[t] /\ Making(m) => Making(m)'
    BY <2>1, <2>2 DEF Making
  <2>5. FstabPoints' = FstabPoints /\ dirs \subseteq Mp
    BY DEF FstabPoints, WorldOK
  <2>6. ASSUME NEW m \in (dirs' \cap FstabPoints') \ foreign'
        PROVE  m \in (dirs \cap FstabPoints) \ foreign /\ m # hmp[t] /\ mnt'[m] = mnt[m]
    BY <2>1, <2>3, <2>5, <2>6 DEF WorldOK
  <2> QED BY <2>4, <2>6 DEF FstabPointsMade
<1>2. CASE MountFails(t)
  <2>1. /\ UNCHANGED <<mnt, hmp, made>> /\ foreign' = foreign \cap dirs'
        /\ dirs' = IF made[t] /\ mnt[hmp[t]] = NoDev THEN dirs \ {hmp[t]} ELSE dirs
    BY <1>2 DEF MountFails
  <2>2. \A u \in Thread \ {t} : pc'[u] = pc[u]
    BY <1>2 DEF MountFails, Goto, HandlerOK
  <2>3. \A m \in dirs' : Making(m) /\ mnt[m] = NoDev => Making(m)'
    BY <2>1, <2>2 DEF Making
  <2>4. FstabPoints' = FstabPoints
    BY DEF FstabPoints
  <2> QED BY <2>1, <2>3, <2>4 DEF FstabPointsMade
<1>3. CASE MakeDirectory(t)
  <2>1. UNCHANGED <<mnt, hmp, foreign>> /\ pc[t] = "mkdir"
    BY <1>3 DEF MakeDirectory, history
  <2>2. SameMakers
    BY <1>3, <2>1, SameMakersHandler DEF Mount, MountFails
  <2>3. CASE UNCHANGED dirs
    BY <2>1, <2>2, <2>3, FstabFrame
  <2>4. CASE /\ hmp[t] \notin dirs /\ dirs' = dirs \cup {hmp[t]}
             /\ pc'[t] = "mounting" /\ made'[t]
    <3>1. Making(hmp[t])' /\ (hmp[t] \in Mp => mnt[hmp[t]] = NoDev)
      BY <2>1, <2>4 DEF Making, DirectoriesNamed
    <3>2. \A m : Making(m) => Making(m)'
      BY <2>2 DEF SameMakers, Making
    <3>3. FstabPoints' = FstabPoints /\ FstabPoints \subseteq Mp
      BY DEF FstabPoints, ConstantsAssumption
    <3> QED BY <2>1, <2>4, <3>1, <3>2, <3>3 DEF FstabPointsMade
  <2> QED BY <1>3, <2>3, <2>4 DEF MakeDirectory, Goto, HandlerOK
<1>4. CASE Unmount(t)
  <2>1. SameMakers
    BY <1>4, SameMakersHandler DEF Unmount, Mount, MountFails
  <2>2. UNCHANGED <<dirs, foreign>> /\ dirs \subseteq Mp
    BY <1>4 DEF Unmount, WorldOK
  <2>3. \A m \in Mp : mnt'[m] = mnt[m] \/ mnt'[m] = NoDev
    BY <1>4 DEF Unmount, Detach, WorldOK
  <2> QED BY <2>1, <2>2, <2>3, FstabFrame
<1>5. CASE ~Mount(t) /\ ~MountFails(t) /\ ~MakeDirectory(t) /\ ~Unmount(t)
  <2>1. UNCHANGED <<mnt, dirs, foreign>>
    BY <1>5 DEF Handler, LockFilesystem, LockForCleanup, StartCheckBlock, Refuse, PrepareMount,
       CalculateMountPoint, RecordMount, PrepareUnmount, FindMountPoint, UnmountFails,
       TriggerUevent, Release, Recheck, world, history
  <2> QED BY <1>5, <2>1, SameMakersHandler, FstabFrame
<1> QED BY <1>1, <1>2, <1>3, <1>4, <1>5

LEMMA FstabWorld ==
    ASSUME TypeOK, FstabPointsMade, World
    PROVE  FstabPointsMade'
<1> USE DEF TypeOK
<1>1. ASSUME NEW reboot \in BOOLEAN, Restart(reboot)
      PROVE  FstabPointsMade'
  <2>1. ASSUME NEW m \in (dirs' \cap FstabPoints) \ foreign'
        PROVE  m \in dirs \ foreign /\ ~Making(m)
    BY <1>1, <2>1 DEF Restart, Making
  <2>2. FstabPoints' = FstabPoints
    BY DEF FstabPoints
  <2> QED BY <2>1, <2>2 DEF FstabPointsMade
<1>2. ASSUME NEW d \in Dev, NEW x \in Mp, RootMounts(d, x)
      PROVE  FstabPointsMade'
  <2>1. UNCHANGED <<pc, hmp, made>>
    BY <1>2 DEF RootMounts, handler
  <2>2. \A m : Making(m)' <=> Making(m)
    BY <2>1 DEF Making
  <2>3. ASSUME NEW m \in (dirs' \cap FstabPoints) \ foreign'
        PROVE  m \in dirs \ foreign /\ mnt'[m] = mnt[m]
    BY <1>2, <2>3 DEF RootMounts, WorldOK
  <2>4. FstabPoints' = FstabPoints
    BY DEF FstabPoints
  <2> QED BY <2>2, <2>3, <2>4 DEF FstabPointsMade
<1>3. ASSUME NEW x \in Mp, RootUnmounts(x)
      PROVE  FstabPointsMade'
  <2>1. UNCHANGED <<dirs, foreign>> /\ dirs \subseteq Mp /\ SameMakers
    BY <1>3 DEF RootUnmounts, handler, WorldOK, SameMakers
  <2>2. \A m \in Mp : mnt'[m] = mnt[m] \/ mnt'[m] = NoDev
    BY <1>3 DEF RootUnmounts, Detach, WorldOK
  <2> QED BY <2>1, <2>2, FstabFrame
<1>4. CASE OtherUevent \/ \E d \in Dev : PullMedia(d) \/ InsertMedia(d) \/ Unplug(d) \/ Plug(d)
  <2>1. UNCHANGED <<mnt, dirs, foreign>> /\ SameMakers
    BY <1>4 DEF OtherUevent, PullMedia, InsertMedia, Unplug, Plug, world, handler, history,
       SameMakers
  <2> QED BY <2>1, FstabFrame
<1> QED BY <1>1, <1>2, <1>3, <1>4 DEF World

LEMMA FstabPointsMadeStep ==
    ASSUME IInv, ConstantsAssumption, MountsWhereItMay, DirectoriesNamed, FstabPointsMade,
           [Next]_vars
    PROVE  FstabPointsMade'
<1> USE DEF IInv
<1>1. ASSUME NEW t \in Thread, Call(t)
      PROVE  FstabPointsMade'
  <2>1. UNCHANGED <<mnt, dirs, foreign>> /\ SameMakers
    BY <1>1 DEF Call, Goto, world, history, SameMakers
  <2> QED BY <2>1, FstabFrame
<1>2. CASE StartPass \/ ReloadMounts \/ (\E d \in Dev : ProcessUevent(d)) \/ UNCHANGED vars
  <2>1. UNCHANGED <<mnt, dirs, foreign>> /\ SameMakers
    BY <1>2 DEF StartPass, ReloadMounts, ProcessUevent, vars, world, handler, history, SameMakers
  <2> QED BY <2>1, FstabFrame
<1> QED BY <1>1, <1>2, FstabScan, FstabHandler, FstabWorld DEF Next

LEMMA DirectoriesNamedStep ==
    ASSUME IInv, ConstantsAssumption, EntriesFit, MountsWhereItMay, DirectoriesNamed,
           [Next]_vars
    PROVE  DirectoriesNamed'
<1> USE DEF IInv
<1>1. CASE StartPass
  <2>1. /\ SameRecord /\ SameMakers /\ UNCHANGED <<mnt, dirs, foreign>>
        /\ scan.stage = "none"
    BY <1>1 DEF StartPass, world, handler, history, SameRecord, SameMakers, ScanOK
  <2>2. Remaining \subseteq Remaining'
    BY <1>1, <2>1, OpenFileSurvivors DEF StartPass, Remaining, TypeOK
  <2> QED BY <2>1, <2>2, DirectoriesFrame
<1>2. ASSUME NEW a \in Actor, Scan(a)
      PROVE  DirectoriesNamed'
  BY <1>2, DirectoriesScan
<1>3. ASSUME NEW t \in Thread, Call(t)
      PROVE  DirectoriesNamed'
  <2>1. UNCHANGED <<mnt, dirs, foreign, files, scan>>
    BY <1>3 DEF Call, world, history, stateVar
  <2>2. SameMakers
    BY <1>3 DEF Call, Goto, SameMakers
  <2> QED
    BY <1>3, <2>1, <2>2, SameRecordCall, SameRemaining, DirectoriesFrame DEF TypeOK
<1>4. ASSUME NEW t \in Thread, Handler(t)
      PROVE  DirectoriesNamed'
  BY <1>4, DirectoriesHandler
<1>5. CASE World
  BY <1>5, DirectoriesWorld
<1>6. CASE ReloadMounts \/ (\E d \in Dev : ProcessUevent(d)) \/ UNCHANGED vars
  <2>1. UNCHANGED <<pc, hmp, obj, made, mnt, dirs, foreign, files, scan>>
    BY <1>6 DEF ReloadMounts, ProcessUevent, vars, world, handler, stateVar, history
  <2> QED BY <2>1, SameRemaining, DirectoriesFrame DEF SameRecord, SameMakers
<1> QED BY <1>1, <1>2, <1>3, <1>4, <1>5, <1>6 DEF Next
-----------------------------------------------------------------------------
(* The theorems.                                                           *)
LEMMA InitCInv ==
    ASSUME ConstantsAssumption, Init
    PROVE  CInv
<1>1. EntriesFit /\ OneEntryPerMountPoint
  BY DEF Init, EntriesFit, OneEntryPerMountPoint
<1>2. MountsWhereItMay /\ ObjectsPast
  BY DEF Init, MountsWhereItMay, HasMountPoint, ObjectsPast
<1>3. DirectoriesNamed /\ FstabPointsMade /\ Sheltered
  BY DEF Init, DirectoriesNamed, FstabPointsMade, Sheltered
<1> QED BY <1>1, <1>2, <1>3 DEF CInv

(* What the clean-up relies on and leaves behind, with IInv the inductive  *)
(* invariant of the clean-up: files, directories and objects fit together. *)
THEOREM CleanupInvariance == Spec => []CInv
<1>1. Init => CInv
  BY ConstantsAssumption, InitCInv
<1>2. IInv /\ CInv /\ [Next]_vars => CInv'
  BY ConstantsAssumption, EntriesFitStep, OneEntryStep, MountsWhereItMayStep, DirectoriesNamedStep,
     FstabPointsMadeStep, ObjectsPastStep, ShelteredStep DEF CInv
<1> QED BY <1>1, <1>2, Invariance, PTL DEF Spec

(* handle_mount, the clean-up thread and a restart between them leave no   *)
(* directory behind that no entry of a state file names, but for the ones  *)
(* that udisksd will not remove (foreign): root's, those of a handler that *)
(* was killed, and the fstab mount points that were mounted.               *)
THEOREM NoDirectoryLeft == Spec => []NoStrayDirectory
<1>1. IInv /\ CInv => NoStrayDirectory
  <2> SUFFICES ASSUME IInv, CInv, NEW m \in dirs \ foreign
               PROVE  \/ \E e \in Entries : e.mp = m
                      \/ \E t \in Thread : /\ pc[t] \in {"mounting", "record"}
                                           /\ made[t] /\ hmp[t] = m
    BY DEF NoStrayDirectory
  <2>1. \/ Named(m) /\ m \notin FstabPoints
        \/ Making(m)
    BY DEF CInv, DirectoriesNamed, FstabPointsMade
  <2>2. CASE \E e \in Remaining : e.mp = m
    BY <2>2, RemainingEntries DEF IInv, TypeOK, Entries, File
  <2>3. CASE AtRecord(m) /\ m \notin FstabPoints
    BY <2>3 DEF AtRecord, CInv, MountsWhereItMay
  <2>4. CASE Making(m)
    BY <2>4 DEF Making
  <2> QED BY <2>1, <2>2, <2>3, <2>4 DEF Named
<1> QED BY <1>1, Invariance, CleanupInvariance, PTL

(* The clean-up thread skips the entries of a device whose clean-up lock a *)
(* handler holds: it neither unmounts nor forgets what is recorded for it. *)
THEOREM BusyDevicesSheltered == Spec => BusyDeviceUntouched
<1>1. IInv /\ CInv /\ [Next]_vars =>
        [ \A t \in Thread :
            (Working(t) /\ obj[t][1] \in exported /\ obj[t] = Current(obj[t][1])
             /\ Scan(Cleaner))
            => \A e \in EntriesOf(obj[t][1]) : e \in Entries' /\ mnt'[e.mp] = mnt[e.mp] ]_vars
  <2> SUFFICES ASSUME IInv, CInv, Scan(Cleaner), NEW t \in Thread, Working(t),
                      obj[t] = Current(obj[t][1]), NEW e \in Entries, e.dev = obj[t][1]
               PROVE  e \in Entries' /\ mnt'[e.mp] = mnt[e.mp]
    BY DEF EntriesOf
  <2> USE DEF IInv, TypeOK
  <2>1. lockOwner = Cleaner
    BY DEF Scan, CheckEntry, LazyUmount, LazyUmountFails, RemoveDirectory, RemoveDirectoryFails,
       SaveFile
  <2>2. e \notin Condemned
    BY <2>1 DEF CInv, Sheltered
  <2>3. PICK f \in File : e \in files[f]
    BY DEF Entries, File
  <2>4. e.mp \in Mp
    BY <2>3 DEF StateOK, Entry
  <2>5. CASE SaveFile(Cleaner)
    <3>1. e \in files'[f]
      BY <2>2, <2>3, <2>5 DEF SaveFile, Condemned
    <3> QED BY <2>5, <3>1 DEF SaveFile, Entries, File, world
  <2>6. CASE LazyUmount(Cleaner)
    <3>1. scan.cur \in files[scan.file] /\ scan.file \in File /\ scan.cur \in Condemned
      BY <2>6 DEF LazyUmount, ScanOK, Condemned
    <3>2. ASSUME e.mp = scan.cur.mp
          PROVE  FALSE
      <4>1. f = scan.file
        BY <2>3, <3>1, <3>2 DEF CInv, EntriesFit
      <4> QED BY <2>2, <2>3, <3>1, <3>2, <4>1 DEF CInv, OneEntryPerMountPoint
    <3> QED BY <2>6, <3>2 DEF LazyUmount, Detach, Entries
  <2>7. CASE ~SaveFile(Cleaner) /\ ~LazyUmount(Cleaner)
    BY <2>7 DEF Scan, CheckEntry, LazyUmountFails, RemoveDirectory, RemoveDirectoryFails, world,
       Entries
  <2> QED BY <2>5, <2>6, <2>7
<1> QED BY <1>1, Invariance, CleanupInvariance, PTL DEF Spec, BusyDeviceUntouched
=============================================================================
