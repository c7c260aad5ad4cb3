-------------------------- MODULE MountStateProofs --------------------------
(***************************************************************************)
(* What holds of MountState for every set of devices, mount points and     *)
(* threads and for every budget, checked by TLAPS.                         *)
(***************************************************************************)
EXTENDS MountState, TLAPS

(* Someone holds state->lock exactly while a scan is under way, a handler  *)
(* only in udisks_state_check_block, and what the scan works on are        *)
(* entries of the file it has open.                                        *)
ScanOK ==
    /\ lockOwner = Nobody <=> scan.stage = "none"
    /\ \A t \in Thread : lockOwner = t => pc[t] \in {"scan", "rescan"}
    /\ scan.stage # "none" =>
          /\ scan.file \in File
          /\ scan.todo \subseteq files[scan.file]
          /\ scan.kept \subseteq files[scan.file]
    /\ scan.stage \in {"umount", "rmdir"} =>
          scan.cur \in Entry /\ scan.cur \in files[scan.file]

(* A handler at work has an object, one that mounts has a mount point.     *)
HasMountPoint == {"mkdir", "mounting", "record"}

HandlerShape ==
    \A t \in Thread : /\ pc[t] # "idle" => obj[t] \in Dev \X Nat
                      /\ pc[t] \in HasMountPoint => hmp[t] \in Mp

(* What a handler has mounted stays mounted until it is recorded, unless   *)
(* its mount point counts as disturbed.                                    *)
MountedUntilRecorded ==
    \A t \in Thread : pc[t] = "record" /\ hmp[t] \notin disturbed
                      => mnt[hmp[t]] = obj[t][1]

(* The entries that will still be there when the scan under way is over,   *)
(* whatever happens to the one under examination after it was found not    *)
(* to be mounted.                                                          *)
OtherFiles == UNION {files[f] : f \in File \ {scan.file}}

Survivors ==
    IF scan.stage = "none" THEN Entries
    ELSE scan.todo \cup scan.kept \cup OtherFiles
         \cup (IF scan.stage = "umount" THEN {scan.cur} ELSE {})

AtRecord(m) == \E t \in Thread : pc[t] = "record" /\ hmp[t] = m

Covered ==
    \A m \in ours \ disturbed :
        AtRecord(m) \/ \E e \in Survivors : e.mp = m /\ e.dev = mnt[m]

IInv == TypeOK /\ ScanOK /\ HandlerShape /\ MountedUntilRecorded /\ Covered
-----------------------------------------------------------------------------
(* Type correctness.  The parts of the state that an action leaves alone   *)
(* keep their type by these lemmas.                                        *)
LEMMA SameWorld == ASSUME WorldOK, UNCHANGED <<world, budget>> PROVE WorldOK'
BY DEF WorldOK, world

LEMMA SameView == ASSUME ViewOK, UNCHANGED view PROVE ViewOK'
BY DEF ViewOK, view

LEMMA SameState == ASSUME StateOK, UNCHANGED stateVar PROVE StateOK'
BY DEF StateOK, stateVar

LEMMA SameHandler == ASSUME HandlerOK, UNCHANGED handler PROVE HandlerOK'
BY DEF HandlerOK, handler

LEMMA SameHistory == ASSUME HistoryOK, UNCHANGED history PROVE HistoryOK'
BY DEF HistoryOK, history

(* A uevent is added to a queue.                                           *)
LEMMA SendType ==
    ASSUME NEW d \in Dev, NEW a \in Action,
           uevents \in [Dev -> Seq(Action)], Send(d, a)
    PROVE  uevents' \in [Dev -> Seq(Action)]
BY DEF Send

LEMMA SpendType ==
    ASSUME NEW k \in BudgetKind, budget \in [BudgetKind -> Nat], Spend(k)
    PROVE  budget' \in [BudgetKind -> Nat]
BY DEF Spend

(* A mount point is detached.                                              *)
LEMMA DetachType ==
    ASSUME NEW m, WorldOK, HistoryOK, Detach(m), HandlerOK, m \in Mp
    PROVE  /\ mnt' \in [Mp -> Dev \cup {NoDev}]
           /\ ours' \subseteq Mp /\ disturbed' \subseteq Mp
BY DEF WorldOK, HistoryOK, Detach

LEMMA OpenFileType ==
    ASSUME StateOK, NEW f \in File, NEW a
    PROVE  OpenFile(f, a) \in ScanType
BY DEF OpenFile, NoScan, ScanType, Stage, StateOK, File

LEMMA TypeScan ==
    ASSUME TypeOK, ScanOK, NEW a \in Actor, Scan(a)
    PROVE  TypeOK'
<1> USE DEF TypeOK, ScanOK
<1>1. CASE CheckEntry(a)
  <2>1. WorldOK' /\ ViewOK' /\ HandlerOK' /\ HistoryOK'
    BY <1>1, SameWorld, SameView, SameHandler, SameHistory DEF CheckEntry
  <2>2. scan' \in ScanType
    <3>1. PICK e \in scan.todo : Skip(e) \/ CleanUp(a, e)
      BY <1>1 DEF CheckEntry
    <3>2. e \in Entry /\ e.dev \in Dev
      BY DEF StateOK, ScanType, Entry
    <3>3. Current(e.dev) \in Dev \X Nat
      BY <3>2 DEF Current, ViewOK
    <3>4. CASE Skip(e)
      BY <3>2, <3>4 DEF Skip, StateOK, ScanType
    <3>5. CASE CleanUp(a, e)
      BY <3>2, <3>3, <3>5 DEF CleanUp, StateOK, ScanType, Stage
    <3> QED BY <3>1, <3>4, <3>5
  <2> QED BY <1>1, <2>1, <2>2 DEF CheckEntry, StateOK
<1>2. CASE LazyUmount(a)
  <2>1. scan.cur \in Entry /\ scan.cur.mp \in Mp /\ scan.cur.dev \in Dev
    BY <1>2 DEF LazyUmount, Entry
  <2>2. /\ mnt' \in [Mp -> Dev \cup {NoDev}]
        /\ ours' \subseteq Mp /\ disturbed' \subseteq Mp
    BY <1>2, <2>1, DetachType DEF LazyUmount
  <2>3. uevents' \in [Dev -> Seq(Action)]
    BY <1>2, <2>1, SendType DEF LazyUmount, WorldOK, Action
  <2>4. scan' \in ScanType
    BY <1>2 DEF LazyUmount, StateOK, ScanType, Stage
  <2>5. ViewOK' /\ HandlerOK'
    BY <1>2, SameView, SameHandler DEF LazyUmount
  <2> QED BY <1>2, <2>2, <2>3, <2>4, <2>5 DEF LazyUmount, WorldOK, StateOK, HistoryOK
<1>3. CASE LazyUmountFails(a)
  <2>1. scan' \in ScanType
    BY <1>3 DEF LazyUmountFails, Keep, Done, StateOK, ScanType, Stage
  <2>2. budget' \in [BudgetKind -> Nat]
    BY <1>3, SpendType DEF LazyUmountFails, WorldOK, BudgetKind
  <2>3. ViewOK' /\ HandlerOK' /\ HistoryOK'
    BY <1>3, SameView, SameHandler, SameHistory DEF LazyUmountFails
  <2> QED BY <1>3, <2>1, <2>2, <2>3 DEF LazyUmountFails, WorldOK, StateOK, world
<1>4. CASE RemoveDirectory(a)
  <2>1. scan' \in ScanType
    BY <1>4 DEF RemoveDirectory, Drop, Done, StateOK, ScanType, Stage
  <2>2. dirs' \subseteq Mp /\ foreign' \subseteq Mp
    BY <1>4 DEF RemoveDirectory, WorldOK, HistoryOK
  <2>3. ViewOK' /\ HandlerOK'
    BY <1>4, SameView, SameHandler DEF RemoveDirectory
  <2> QED BY <1>4, <2>1, <2>2, <2>3 DEF RemoveDirectory, WorldOK, StateOK, HistoryOK
<1>5. CASE RemoveDirectoryFails(a)
  <2>1. scan' \in ScanType
    BY <1>5 DEF RemoveDirectoryFails, Keep, Done, StateOK, ScanType, Stage
  <2>2. budget' \in [BudgetKind -> Nat]
    BY <1>5, SpendType DEF RemoveDirectoryFails, WorldOK, BudgetKind
  <2>3. ViewOK' /\ HandlerOK' /\ HistoryOK'
    BY <1>5, SameView, SameHandler, SameHistory DEF RemoveDirectoryFails
  <2> QED BY <1>5, <2>1, <2>2, <2>3 DEF RemoveDirectoryFails, WorldOK, StateOK, world
<1>6. CASE SaveFile(a)
  <2>1. files' \in [File -> SUBSET Entry]
    BY <1>6 DEF SaveFile, StateOK, ScanType
  <2>2. scan' \in ScanType
    <3>1. NoScan \in ScanType
      BY DEF NoScan, ScanType, Stage
    <3>2. OpenFile("persistent", a) \in ScanType
      BY OpenFileType DEF File
    <3> QED BY <1>6, <3>1, <3>2 DEF SaveFile
  <2>3. pc' \in [Thread -> PC]
    BY <1>6 DEF SaveFile, HandlerOK, PC, Actor
  <2>4. WorldOK' /\ ViewOK' /\ HistoryOK'
    BY <1>6, SameWorld, SameView, SameHistory DEF SaveFile
  <2> QED BY <1>6, <2>1, <2>2, <2>3, <2>4 DEF SaveFile, StateOK, HandlerOK
<1> QED BY <1>1, <1>2, <1>3, <1>4, <1>5, <1>6 DEF Scan

LEMMA TypeHandler ==
    ASSUME TypeOK, HandlerShape, ConstantsAssumption, NEW t \in Thread, Handler(t)
    PROVE  TypeOK'
<1> USE DEF TypeOK
<1>1. CASE LockFilesystem(t)
  <2>1. WorldOK' /\ ViewOK' /\ StateOK' /\ HistoryOK'
    BY <1>1, SameWorld, SameView, SameState, SameHistory DEF LockFilesystem
  <2> QED BY <1>1, <2>1 DEF LockFilesystem, Goto, HandlerOK, PC
<1>2. CASE LockForCleanup(t)
  <2>1. WorldOK' /\ ViewOK' /\ StateOK' /\ HistoryOK'
    BY <1>2, SameWorld, SameView, SameState, SameHistory DEF LockForCleanup
  <2> QED BY <1>2, <2>1 DEF LockForCleanup, Goto, HandlerOK, PC
<1>3. CASE StartCheckBlock(t)
  <2>1. WorldOK' /\ ViewOK' /\ HistoryOK'
    BY <1>3, SameWorld, SameView, SameHistory DEF StartCheckBlock
  <2>2. scan' \in ScanType
    BY <1>3, OpenFileType DEF StartCheckBlock, File
  <2> QED BY <1>3, <2>1, <2>2 DEF StartCheckBlock, Goto, StateOK, HandlerOK, PC, Actor
<1>4. CASE Refuse(t)
  <2>1. WorldOK' /\ ViewOK' /\ StateOK' /\ HistoryOK'
    BY <1>4, SameWorld, SameView, SameState, SameHistory DEF Refuse
  <2> QED BY <1>4, <2>1 DEF Refuse, Goto, HandlerOK, PC
<1>5. CASE PrepareMount(t) \/ CalculateMountPoint(t)
  <2>1. WorldOK' /\ ViewOK' /\ StateOK' /\ HistoryOK'
    BY <1>5, SameWorld, SameView, SameState, SameHistory DEF PrepareMount, CalculateMountPoint
  <2>2. Device(t) \in Dev
    BY <1>5 DEF PrepareMount, CalculateMountPoint, HandlerShape, Device
  <2>3. hmp' \in [Thread -> Mp \cup {NoMp}]
    BY <1>5, <2>2 DEF PrepareMount, CalculateMountPoint, HandlerOK, Dynamic, ConstantsAssumption
  <2>4. pc' \in [Thread -> PC]
    BY <1>5 DEF PrepareMount, CalculateMountPoint, Goto, HandlerOK, PC
  <2> QED BY <1>5, <2>1, <2>3, <2>4 DEF PrepareMount, CalculateMountPoint, HandlerOK
<1>6. CASE MakeDirectory(t)
  <2>1. ViewOK' /\ StateOK' /\ HistoryOK'
    BY <1>6, SameView, SameState, SameHistory DEF MakeDirectory
  <2>2. hmp[t] \in Mp
    BY <1>6 DEF MakeDirectory, HandlerShape, HasMountPoint
  <2>3. dirs' \subseteq Mp
    BY <1>6, <2>2 DEF MakeDirectory, WorldOK
  <2> QED BY <1>6, <2>1, <2>3 DEF MakeDirectory, Goto, WorldOK, HandlerOK, PC
<1>7. CASE Mount(t)
  <2>1. ViewOK' /\ StateOK'
    BY <1>7, SameView, SameState DEF Mount
  <2>2. hmp[t] \in Mp /\ Device(t) \in Dev
    BY <1>7 DEF Mount, HandlerShape, HasMountPoint, Device
  <2> QED BY <1>7, <2>1, <2>2 DEF Mount, Goto, WorldOK, HandlerOK, HistoryOK, PC
<1>8. CASE MountFails(t)
  <2>1. ViewOK' /\ StateOK'
    BY <1>8, SameView, SameState DEF MountFails
  <2>2. HistoryOK'
    BY <1>8 DEF MountFails, HistoryOK
  <2> QED BY <1>8, <2>1, <2>2 DEF MountFails, Goto, WorldOK, HandlerOK, PC
<1>9. CASE RecordMount(t)
  <2>1. WorldOK' /\ ViewOK' /\ HistoryOK'
    BY <1>9, SameWorld, SameView, SameHistory DEF RecordMount
  <2>2. hmp[t] \in Mp /\ Device(t) \in Dev /\ IsFstab(t) \in BOOLEAN
    BY <1>9 DEF RecordMount, HandlerShape, HasMountPoint, Device, IsFstab
  <2>3. [mp |-> hmp[t], dev |-> Device(t), fstab |-> IsFstab(t)] \in Entry
    BY <2>2 DEF Entry
  <2>4. files' \in [File -> SUBSET Entry]
    BY <1>9, <2>3 DEF RecordMount, AddMountedFs, StateOK
  <2> QED BY <1>9, <2>1, <2>4 DEF RecordMount, Goto, StateOK, HandlerOK, PC
<1>10. CASE PrepareUnmount(t)
  <2>1. WorldOK' /\ ViewOK' /\ StateOK' /\ HistoryOK'
    BY <1>10, SameWorld, SameView, SameState, SameHistory DEF PrepareUnmount
  <2>2. Device(t) \in Dev
    BY <1>10 DEF PrepareUnmount, HandlerShape, Device
  <2>3. hmp' \in [Thread -> Mp \cup {NoMp}]
    BY <1>10, <2>2 DEF PrepareUnmount, HandlerOK, ConstantsAssumption
  <2>4. pc' \in [Thread -> PC]
    BY <1>10 DEF PrepareUnmount, Goto, HandlerOK, PC
  <2> QED BY <1>10, <2>1, <2>3, <2>4 DEF PrepareUnmount, HandlerOK
<1>11. CASE FindMountPoint(t)
  <2>1. WorldOK' /\ ViewOK' /\ StateOK' /\ HistoryOK'
    BY <1>11, SameWorld, SameView, SameState, SameHistory DEF FindMountPoint
  <2>2. \A f \in File : RecordedAt(Device(t), f) \subseteq Mp
    BY DEF RecordedAt, StateOK, Entry
  <2>3. hmp' \in [Thread -> Mp \cup {NoMp}]
    BY <1>11, <2>2 DEF FindMountPoint, HandlerOK, File
  <2> QED BY <1>11, <2>1, <2>3 DEF FindMountPoint, Goto, HandlerOK, PC
<1>12. CASE Unmount(t)
  <2>1. ViewOK' /\ StateOK'
    BY <1>12, SameView, SameState DEF Unmount
  <2>2. PICK m \in Mp \cup {NoMp} : Detach(m)
    BY <1>12 DEF Unmount, MountedAt, HandlerOK
  <2>3. /\ mnt' \in [Mp -> Dev \cup {NoDev}]
        /\ ours' \subseteq Mp /\ disturbed' \subseteq Mp
    BY <1>12, <2>2, DetachType DEF Unmount, MountedAt, HandlerOK
  <2> QED BY <1>12, <2>1, <2>3 DEF Unmount, Goto, WorldOK, HandlerOK, HistoryOK, PC
<1>13. CASE UnmountFails(t)
  <2>1. WorldOK' /\ ViewOK' /\ StateOK' /\ HistoryOK'
    BY <1>13, SameWorld, SameView, SameState, SameHistory DEF UnmountFails
  <2> QED BY <1>13, <2>1 DEF UnmountFails, Goto, HandlerOK, PC
<1>14. CASE TriggerUevent(t)
  <2>1. ViewOK' /\ StateOK' /\ HistoryOK'
    BY <1>14, SameView, SameState, SameHistory DEF TriggerUevent
  <2>2. obj[t][1] \in Dev
    BY <1>14 DEF TriggerUevent, HandlerShape
  <2>3. uevents' \in [Dev -> Seq(Action)]
    BY <1>14, <2>2, SendType DEF TriggerUevent, WorldOK, Action
  <2> QED BY <1>14, <2>1, <2>3 DEF TriggerUevent, Goto, WorldOK, HandlerOK, PC
<1>15. CASE Release(t)
  <2>1. WorldOK' /\ ViewOK' /\ StateOK' /\ HistoryOK'
    BY <1>15, SameWorld, SameView, SameState, SameHistory DEF Release
  <2> QED BY <1>15, <2>1 DEF Release, Goto, HandlerOK, PC
<1>16. CASE Recheck(t)
  <2>1. WorldOK' /\ ViewOK' /\ HistoryOK'
    BY <1>16, SameWorld, SameView, SameHistory DEF Recheck
  <2> QED BY <1>16, <2>1 DEF Recheck, Goto, StateOK, HandlerOK, PC
<1> QED
  BY <1>1, <1>2, <1>3, <1>4, <1>5, <1>6, <1>7, <1>8, <1>9, <1>10, <1>11, <1>12,
     <1>13, <1>14, <1>15, <1>16 DEF Handler

LEMMA TypeWorld ==
    ASSUME TypeOK, ConstantsAssumption, World
    PROVE  TypeOK'
<1> USE DEF TypeOK
<1>1. ASSUME NEW d \in Dev, PullMedia(d) \/ InsertMedia(d) \/ Unplug(d) \/ Plug(d)
      PROVE  TypeOK'
  <2>1. ViewOK' /\ StateOK' /\ HandlerOK' /\ HistoryOK'
    BY <1>1, SameView, SameState, SameHandler, SameHistory
       DEF PullMedia, InsertMedia, Unplug, Plug
  <2>2. uevents' \in [Dev -> Seq(Action)]
    BY <1>1, SendType DEF PullMedia, InsertMedia, Unplug, Plug, WorldOK, Action
  <2>3. budget' \in [BudgetKind -> Nat]
    BY <1>1, SpendType DEF PullMedia, InsertMedia, Unplug, Plug, WorldOK, BudgetKind
  <2> QED
    BY <1>1, <2>1, <2>2, <2>3
       DEF PullMedia, InsertMedia, Unplug, Plug, WorldOK, Media
<1>2. ASSUME NEW d \in Dev, NEW m \in Mp, RootMounts(d, m)
      PROVE  TypeOK'
  <2>1. ViewOK' /\ StateOK' /\ HandlerOK'
    BY <1>2, SameView, SameState, SameHandler DEF RootMounts
  <2>2. budget' \in [BudgetKind -> Nat]
    BY <1>2, SpendType DEF RootMounts, WorldOK, BudgetKind
  <2> QED BY <1>2, <2>1, <2>2 DEF RootMounts, WorldOK, HistoryOK
<1>3. ASSUME NEW m \in Mp, RootUnmounts(m)
      PROVE  TypeOK'
  <2>1. ViewOK' /\ StateOK' /\ HandlerOK'
    BY <1>3, SameView, SameState, SameHandler DEF RootUnmounts
  <2>2. budget' \in [BudgetKind -> Nat]
    BY <1>3, SpendType DEF RootUnmounts, WorldOK, BudgetKind
  <2>3. /\ mnt' \in [Mp -> Dev \cup {NoDev}]
        /\ ours' \subseteq Mp /\ disturbed' \subseteq Mp
    BY <1>3, DetachType DEF RootUnmounts
  <2> QED BY <1>3, <2>1, <2>2, <2>3 DEF RootUnmounts, WorldOK, HistoryOK
<1>4. CASE OtherUevent
  <2>1. WorldOK' /\ ViewOK' /\ HandlerOK' /\ HistoryOK'
    BY <1>4, SameWorld, SameView, SameHandler, SameHistory DEF OtherUevent
  <2> QED BY <1>4, <2>1 DEF OtherUevent, StateOK
<1>5. ASSUME NEW reboot \in BOOLEAN, Restart(reboot)
      PROVE  TypeOK'
  <2>1. WorldOK'
    <3>1. budget' \in [BudgetKind -> Nat]
      BY <1>5, SpendType DEF Restart, WorldOK, BudgetKind
    <3>2. uevents' \in [Dev -> Seq(Action)]
      BY <1>5 DEF Restart
    <3>3. mnt' \in [Mp -> Dev \cup {NoDev}] /\ dirs' \subseteq Mp
      BY <1>5 DEF Restart, WorldOK
    <3> QED BY <1>5, <3>1, <3>2, <3>3 DEF Restart, WorldOK
  <2>2. ViewOK'
    BY <1>5, <2>1 DEF Restart, WorldOK, ViewOK
  <2>3. StateOK'
    <3>1. NoScan \in ScanType
      BY DEF NoScan, ScanType, Stage
    <3>2. files' \in [File -> SUBSET Entry]
      BY <1>5 DEF Restart, StateOK
    <3> QED BY <1>5, <3>1, <3>2 DEF Restart, StateOK
  <2>4. HandlerOK'
    BY <1>5 DEF Restart, HandlerOK, PC
  <2>5. HistoryOK'
    BY <1>5, <2>1 DEF Restart, WorldOK, HistoryOK
  <2> QED BY <2>1, <2>2, <2>3, <2>4, <2>5
<1> QED BY <1>1, <1>2, <1>3, <1>4, <1>5 DEF World

LEMMA TypeStep ==
    ASSUME TypeOK, ScanOK, HandlerShape, ConstantsAssumption, [Next]_vars
    PROVE  TypeOK'
<1> USE DEF TypeOK
<1>1. CASE StartPass
  <2>1. WorldOK' /\ ViewOK' /\ HandlerOK' /\ HistoryOK'
    BY <1>1, SameWorld, SameView, SameHandler, SameHistory DEF StartPass
  <2>2. scan' \in ScanType
    BY <1>1, OpenFileType DEF StartPass, File
  <2>3. doomed' \subseteq Dev
    BY <1>1 DEF StartPass, ConstantsAssumption
  <2> QED BY <1>1, <2>1, <2>2, <2>3 DEF StartPass, StateOK, Actor
<1>2. ASSUME NEW a \in Actor, Scan(a)
      PROVE  TypeOK'
  BY <1>2, TypeScan
<1>3. ASSUME NEW t \in Thread, Call(t)
      PROVE  TypeOK'
  <2>1. ViewOK' /\ StateOK' /\ HistoryOK'
    BY <1>3, SameView, SameState, SameHistory DEF Call
  <2>2. budget' \in [BudgetKind -> Nat]
    BY <1>3, SpendType DEF Call, WorldOK, BudgetKind
  <2>3. \A d \in exported : Current(d) \in Dev \X Nat
    BY DEF Current, ViewOK
  <2>4. obj' \in [Thread -> (Dev \X Nat) \cup {<<>>}]
    BY <1>3, <2>3 DEF Call, HandlerOK
  <2> QED BY <1>3, <2>1, <2>2, <2>4 DEF Call, Goto, world, WorldOK, HandlerOK, PC
<1>4. ASSUME NEW t \in Thread, Handler(t)
      PROVE  TypeOK'
  BY <1>4, TypeHandler
<1>5. ASSUME NEW d \in Dev, ProcessUevent(d)
      PROVE  TypeOK'
  <2>1. HandlerOK' /\ HistoryOK'
    BY <1>5, SameHandler, SameHistory DEF ProcessUevent
  <2>2. uevents' \in [Dev -> Seq(Action)]
    BY <1>5 DEF ProcessUevent, WorldOK
  <2>3. Refreshed(d) \in [Mp -> Dev \cup {NoDev}]
    BY DEF Refreshed, ViewOK
  <2>4. ViewOK'
    BY <1>5, <2>3 DEF ProcessUevent, ViewOK
  <2> QED BY <1>5, <2>1, <2>2, <2>4 DEF ProcessUevent, WorldOK, StateOK
<1>6. CASE ReloadMounts
  <2>1. WorldOK' /\ HandlerOK' /\ HistoryOK'
    BY <1>6, SameWorld, SameHandler, SameHistory DEF ReloadMounts
  <2> QED BY <1>6, <2>1 DEF ReloadMounts, WorldOK, ViewOK, StateOK
<1>7. CASE World
  BY <1>7, TypeWorld
<1>8. CASE UNCHANGED vars
  BY <1>8, SameWorld, SameView, SameState, SameHandler, SameHistory DEF vars
<1> QED
  BY <1>1, <1>2, <1>3, <1>4, <1>5, <1>6, <1>7, <1>8 DEF Next
-----------------------------------------------------------------------------
(* The scan.  What a handler does between its locks is none of it.         *)
ScanAction(a) == StartPass \/ Scan(a)
HandlerElsewhere(t) ==
    Handler(t) /\ ~StartCheckBlock(t) /\ ~RecordMount(t)

LEMMA HandlerElsewhereScan ==
    ASSUME NEW t \in Thread, HandlerElsewhere(t)
    PROVE  UNCHANGED <<files, lockOwner, scan>>
BY DEF HandlerElsewhere, Handler, LockFilesystem, LockForCleanup, Refuse, PrepareMount,
       CalculateMountPoint, MakeDirectory, Mount, MountFails, PrepareUnmount, FindMountPoint, Unmount,
       UnmountFails, TriggerUevent, Release, Recheck, stateVar

LEMMA WorldScan ==
    ASSUME World, \A reboot \in BOOLEAN : ~Restart(reboot)
    PROVE  UNCHANGED <<files, lockOwner, scan, pc, obj, hmp>>
BY DEF World, PullMedia, InsertMedia, Unplug, Plug, RootMounts, RootUnmounts,
       OtherUevent, stateVar, handler

(* A handler in the scan does not move.                                    *)
ScanThreads == \A t \in Thread : pc[t] \in {"scan", "rescan"} => pc'[t] = pc[t]

LEMMA ScanOKFrame ==
    ASSUME ScanOK, UNCHANGED <<files, lockOwner, scan>>, ScanThreads
    PROVE  ScanOK'
BY DEF ScanOK, ScanThreads

LEMMA HandlerScanThreads ==
    ASSUME HandlerOK, NEW t \in Thread, Handler(t)
    PROVE  ScanThreads /\ pc[t] \notin {"scan", "rescan"}
BY DEF HandlerOK, ScanThreads, Goto, Handler, LockFilesystem, LockForCleanup, StartCheckBlock,
       Refuse, PrepareMount, CalculateMountPoint, MakeDirectory, Mount, MountFails, RecordMount,
       PrepareUnmount, FindMountPoint, Unmount, UnmountFails, TriggerUevent,
       Release, Recheck

LEMMA ScanOKScan ==
    ASSUME TypeOK, ScanOK, ConstantsAssumption, NEW a \in Actor, Scan(a)
    PROVE  ScanOK'
<1> USE DEF TypeOK, StateOK
<1>1. a # Nobody /\ lockOwner = a
  BY DEF Scan, CheckEntry, LazyUmount, LazyUmountFails, RemoveDirectory,
         RemoveDirectoryFails, SaveFile, Actor, ConstantsAssumption
<1>2. CASE CheckEntry(a)
  <2>1. PICK e \in scan.todo : Skip(e) \/ CleanUp(a, e)
    BY <1>2 DEF CheckEntry
  <2>2. e \in Entry /\ e \in files[scan.file]
    BY <1>1, <1>2 DEF CheckEntry, ScanOK, ScanType
  <2>3. UNCHANGED <<files, lockOwner, pc>> /\ scan.stage = "pick"
    BY <1>2 DEF CheckEntry, handler
  <2>4. CASE Skip(e)
    BY <1>1, <2>2, <2>3, <2>4 DEF Skip, ScanOK, ScanType
  <2>5. CASE CleanUp(a, e)
    BY <1>1, <2>2, <2>3, <2>5 DEF CleanUp, ScanOK, ScanType
  <2> QED BY <2>1, <2>4, <2>5
<1>3. CASE LazyUmount(a)
  BY <1>1, <1>3 DEF LazyUmount, ScanOK, ScanType, handler
<1>4. CASE LazyUmountFails(a) \/ RemoveDirectoryFails(a)
  <2>1. /\ UNCHANGED <<files, lockOwner, pc>> /\ Keep
        /\ scan.stage \in {"umount", "rmdir"}
    BY <1>4 DEF LazyUmountFails, RemoveDirectoryFails, handler
  <2> QED BY <1>1, <2>1 DEF Keep, Done, ScanOK, ScanType
<1>5. CASE RemoveDirectory(a)
  BY <1>1, <1>5 DEF RemoveDirectory, Drop, Done, ScanOK, ScanType, handler
<1>6. CASE SaveFile(a)
  <2>1. CASE scan.file = "run"
    <3>1. scan' = OpenFile("persistent", a) /\ UNCHANGED <<lockOwner, pc>>
      BY <1>6, <2>1 DEF SaveFile
    <3>2. files'["persistent"] = files["persistent"]
      BY <1>6, <2>1 DEF SaveFile, File
    <3> QED BY <1>1, <3>1, <3>2 DEF OpenFile, NoScan, ScanOK, File
  <2>2. CASE scan.file # "run"
    <3>1. scan' = NoScan /\ lockOwner' = Nobody
      BY <1>6, <2>2 DEF SaveFile
    <3> QED BY <3>1 DEF NoScan, ScanOK, ConstantsAssumption
  <2> QED BY <2>1, <2>2
<1> QED BY <1>2, <1>3, <1>4, <1>5, <1>6 DEF Scan

LEMMA ScanOKStep ==
    ASSUME TypeOK, ScanOK, ConstantsAssumption, [Next]_vars
    PROVE  ScanOK'
<1>1. CASE UNCHANGED <<files, lockOwner, scan, pc>>
  BY <1>1, ScanOKFrame DEF ScanThreads
<1>2. CASE StartPass
  BY <1>2 DEF StartPass, OpenFile, NoScan, ScanOK, File, ConstantsAssumption
<1>3. ASSUME NEW a \in Actor, Scan(a)
      PROVE  ScanOK'
  BY <1>3, ScanOKScan
<1>4. ASSUME NEW t \in Thread, Handler(t)
      PROVE  ScanOK'
  <2>1. CASE StartCheckBlock(t)
    BY <2>1 DEF StartCheckBlock, OpenFile, NoScan, ScanOK, File, ConstantsAssumption,
                Goto, TypeOK, HandlerOK
  <2>2. CASE RecordMount(t)
    BY <2>2 DEF RecordMount, ScanOK, ConstantsAssumption
  <2>3. CASE HandlerElsewhere(t)
    BY <1>4, <2>3, HandlerElsewhereScan, HandlerScanThreads, ScanOKFrame DEF TypeOK
  <2> QED BY <1>4, <2>1, <2>2, <2>3 DEF HandlerElsewhere
<1>5. ASSUME NEW reboot \in BOOLEAN, Restart(reboot)
      PROVE  ScanOK'
  BY <1>5 DEF Restart, NoScan, ScanOK, ConstantsAssumption
<1>6. CASE World
  BY <1>1, <1>5, <1>6, WorldScan
<1>7. ASSUME NEW t \in Thread, Call(t)
      PROVE  ScanOK'
  <2>1. UNCHANGED <<files, lockOwner, scan>> /\ ScanThreads
    BY <1>7 DEF Call, stateVar, Goto, ScanThreads, TypeOK, HandlerOK
  <2> QED BY <2>1, ScanOKFrame
<1>8. CASE (\E d \in Dev : ProcessUevent(d)) \/ ReloadMounts
  BY <1>1, <1>8 DEF ProcessUevent, ReloadMounts, handler
<1>9. CASE UNCHANGED vars
  BY <1>1, <1>9 DEF vars, stateVar, handler
<1> QED BY <1>2, <1>3, <1>4, <1>6, <1>7, <1>8, <1>9 DEF Next

(* The handlers.                                                           *)
LEMMA HandlerShapeHandler ==
    ASSUME TypeOK, HandlerShape, ConstantsAssumption, NEW t \in Thread, Handler(t)
    PROVE  HandlerShape'
<1> USE DEF TypeOK, HandlerOK, HandlerShape, HasMountPoint, Goto
<1>1. CASE LockFilesystem(t)
  BY <1>1 DEF LockFilesystem
<1>2. CASE LockForCleanup(t) \/ StartCheckBlock(t) \/ Refuse(t)
  BY <1>2 DEF LockForCleanup, StartCheckBlock, Refuse
<1>3. CASE PrepareMount(t) \/ CalculateMountPoint(t)
  <2>1. Device(t) \in Dev
    BY <1>3 DEF PrepareMount, CalculateMountPoint, Device
  <2>2. pc'[t] = "mkdir" => hmp'[t] \in Mp
    BY <1>3, <2>1
       DEF PrepareMount, CalculateMountPoint, SystemManaged, Dynamic, ConstantsAssumption
  <2>3. pc'[t] \in {"mkdir", "calculate"} /\ pc[t] # "idle" /\ UNCHANGED obj
    BY <1>3 DEF PrepareMount, CalculateMountPoint
  <2>4. \A u \in Thread \ {t} : pc'[u] = pc[u] /\ hmp'[u] = hmp[u]
    BY <1>3 DEF PrepareMount, CalculateMountPoint
  <2> QED BY <2>2, <2>3, <2>4
<1>4. CASE MakeDirectory(t) \/ Mount(t) \/ MountFails(t) \/ RecordMount(t)
  BY <1>4 DEF MakeDirectory, Mount, MountFails, RecordMount
<1>5. CASE PrepareUnmount(t) \/ FindMountPoint(t)
  <2>1. pc'[t] \notin HasMountPoint \cup {"idle"} /\ pc[t] # "idle"
    BY <1>5 DEF PrepareUnmount, FindMountPoint
  <2>2. \A u \in Thread \ {t} : pc'[u] = pc[u] /\ hmp'[u] = hmp[u]
    BY <1>5 DEF PrepareUnmount, FindMountPoint
  <2>3. UNCHANGED obj
    BY <1>5 DEF PrepareUnmount, FindMountPoint
  <2> QED BY <2>1, <2>2, <2>3
<1>6. CASE Unmount(t) \/ UnmountFails(t) \/ TriggerUevent(t) \/ Release(t)
  BY <1>6 DEF Unmount, UnmountFails, TriggerUevent, Release
<1>7. CASE Recheck(t)
  BY <1>7 DEF Recheck
<1> QED BY <1>1, <1>2, <1>3, <1>4, <1>5, <1>6, <1>7 DEF Handler

LEMMA HandlerShapeStep ==
    ASSUME TypeOK, ScanOK, HandlerShape, ConstantsAssumption, [Next]_vars
    PROVE  HandlerShape'
<1>1. CASE UNCHANGED <<pc, obj, hmp>>
  BY <1>1 DEF HandlerShape
<1>2. CASE StartPass \/ ReloadMounts \/ \E d \in Dev : ProcessUevent(d)
  BY <1>1, <1>2 DEF StartPass, ReloadMounts, ProcessUevent, handler
<1>3. ASSUME NEW a \in Actor, Scan(a)
      PROVE  HandlerShape'
  <2>1. CASE SaveFile(a)
    BY <2>1 DEF SaveFile, ScanOK, TypeOK, HandlerOK, HandlerShape, HasMountPoint, Actor
  <2> QED
    BY <1>1, <1>3, <2>1
       DEF Scan, CheckEntry, LazyUmount, LazyUmountFails, RemoveDirectory,
           RemoveDirectoryFails, handler
<1>4. ASSUME NEW t \in Thread, Call(t)
      PROVE  HandlerShape'
  <2>1. \A d \in exported : Current(d) \in Dev \X Nat
    BY DEF Current, TypeOK, ViewOK
  <2> QED
    BY <1>4, <2>1 DEF Call, Goto, HandlerShape, HasMountPoint, TypeOK, HandlerOK
<1>5. ASSUME NEW t \in Thread, Handler(t)
      PROVE  HandlerShape'
  BY <1>5, HandlerShapeHandler
<1>6. CASE World
  <2>1. ASSUME NEW reboot \in BOOLEAN, Restart(reboot)
        PROVE  HandlerShape'
    BY <2>1 DEF Restart, HandlerShape, HasMountPoint
  <2> QED BY <1>1, <1>6, <2>1, WorldScan
<1>7. CASE UNCHANGED vars
  BY <1>1, <1>7 DEF vars, handler
<1> QED BY <1>2, <1>3, <1>4, <1>5, <1>6, <1>7 DEF Next
-----------------------------------------------------------------------------
(* Between bd_fs_mount and udisks_state_add_mounted_fs.  Only Mount and    *)
(* RecordMount (and a restart) begin and end that window.                  *)
SameRecord ==
    \A t \in Thread : /\ pc'[t] = "record" <=> pc[t] = "record"
                      /\ pc[t] = "record" => hmp'[t] = hmp[t] /\ obj'[t] = obj[t]

LEMMA SameRecordHandler ==
    ASSUME HandlerOK, NEW t \in Thread, Handler(t), ~Mount(t), ~RecordMount(t)
    PROVE  SameRecord
<1> USE DEF HandlerOK, SameRecord, Goto
<1>1. CASE LockFilesystem(t) \/ LockForCleanup(t) \/ StartCheckBlock(t) \/ Refuse(t)
  BY <1>1 DEF LockFilesystem, LockForCleanup, StartCheckBlock, Refuse
<1>2. CASE PrepareMount(t) \/ CalculateMountPoint(t) \/ MakeDirectory(t) \/ MountFails(t)
  <2>1. /\ pc[t] # "record" /\ pc'[t] # "record" /\ UNCHANGED obj
        /\ \A u \in Thread \ {t} : pc'[u] = pc[u] /\ hmp'[u] = hmp[u]
    BY <1>2 DEF PrepareMount, CalculateMountPoint, MakeDirectory, MountFails
  <2> QED BY <2>1
<1>3. CASE PrepareUnmount(t) \/ FindMountPoint(t)
  <2>1. /\ pc[t] # "record" /\ pc'[t] # "record" /\ UNCHANGED obj
        /\ \A u \in Thread \ {t} : pc'[u] = pc[u] /\ hmp'[u] = hmp[u]
    BY <1>3 DEF PrepareUnmount, FindMountPoint
  <2> QED BY <2>1
<1>4. CASE Unmount(t) \/ UnmountFails(t)
  BY <1>4 DEF Unmount, UnmountFails
<1>5. CASE TriggerUevent(t) \/ Release(t) \/ Recheck(t)
  BY <1>5 DEF TriggerUevent, Release, Recheck
<1> QED BY <1>1, <1>2, <1>3, <1>4, <1>5 DEF Handler

LEMMA SameRecordScan ==
    ASSUME HandlerOK, ScanOK, NEW a \in Actor, Scan(a)
    PROVE  SameRecord
<1>1. CASE SaveFile(a)
  BY <1>1 DEF SaveFile, SameRecord, HandlerOK, ScanOK, Actor
<1> QED
  BY <1>1 DEF Scan, CheckEntry, LazyUmount, LazyUmountFails, RemoveDirectory,
              RemoveDirectoryFails, handler, SameRecord

LEMMA SameRecordCall ==
    ASSUME HandlerOK, NEW t \in Thread, Call(t)
    PROVE  SameRecord
BY DEF Call, Goto, HandlerOK, SameRecord

(* A step that changes no mount leaves what is mounted until recorded.     *)
LEMMA MountedFrame ==
    ASSUME MountedUntilRecorded, SameRecord, UNCHANGED <<mnt, disturbed>>
    PROVE  MountedUntilRecorded'
BY DEF MountedUntilRecorded, SameRecord

LEMMA MountedDetach ==
    ASSUME WorldOK, HandlerOK, HandlerShape, MountedUntilRecorded, SameRecord,
           NEW m, Detach(m)
    PROVE  MountedUntilRecorded'
<1> SUFFICES ASSUME NEW t \in Thread, pc'[t] = "record", hmp'[t] \notin disturbed'
             PROVE  mnt'[hmp'[t]] = obj'[t][1]
  BY DEF MountedUntilRecorded
<1>1. pc[t] = "record" /\ hmp'[t] = hmp[t] /\ obj'[t] = obj[t]
  BY DEF SameRecord
<1>2. hmp[t] \in Mp /\ hmp[t] # m /\ hmp[t] \notin disturbed
  BY <1>1 DEF Detach, HandlerShape, HasMountPoint
<1>3. mnt'[hmp[t]] = mnt[hmp[t]]
  BY <1>2 DEF Detach, WorldOK
<1> QED BY <1>1, <1>2, <1>3 DEF MountedUntilRecorded

(* A free mount point is nobody's to record.                               *)
LEMMA FreeMountPoint ==
    ASSUME HandlerShape, MountedUntilRecorded, ConstantsAssumption,
           NEW m, mnt[m] = NoDev, m \notin disturbed
    PROVE  ~AtRecord(m)
BY DEF AtRecord, HandlerShape, MountedUntilRecorded, ConstantsAssumption

(* A free mount point is mounted on.                                       *)
LEMMA MountedAttach ==
    ASSUME WorldOK, HandlerShape, MountedUntilRecorded, ConstantsAssumption, SameRecord,
           NEW d \in Dev, NEW m \in Mp, mnt[m] = NoDev,
           mnt' = [mnt EXCEPT ![m] = d], UNCHANGED disturbed
    PROVE  MountedUntilRecorded'
<1> SUFFICES ASSUME NEW t \in Thread, pc'[t] = "record", hmp'[t] \notin disturbed
             PROVE  mnt'[hmp'[t]] = obj'[t][1]
  BY DEF MountedUntilRecorded
<1>1. pc[t] = "record" /\ hmp'[t] = hmp[t] /\ obj'[t] = obj[t]
  BY DEF SameRecord
<1>2. hmp[t] # m
  BY <1>1, FreeMountPoint DEF AtRecord
<1> QED BY <1>1, <1>2 DEF MountedUntilRecorded, HandlerShape, HasMountPoint, WorldOK

LEMMA MountedStep ==
    ASSUME TypeOK, ScanOK, HandlerShape, MountedUntilRecorded, ConstantsAssumption,
           [Next]_vars
    PROVE  MountedUntilRecorded'
<1> USE DEF TypeOK
<1>1. CASE StartPass \/ ReloadMounts \/ \E d \in Dev : ProcessUevent(d)
  <2>1. UNCHANGED <<pc, hmp, obj, mnt, disturbed>>
    BY <1>1 DEF StartPass, ReloadMounts, ProcessUevent, world, handler, history
  <2> QED BY <2>1, MountedFrame DEF SameRecord
<1>2. ASSUME NEW a \in Actor, Scan(a)
      PROVE  MountedUntilRecorded'
  <2>1. CASE LazyUmount(a)
    BY <1>2, <2>1, SameRecordScan, MountedDetach DEF LazyUmount
  <2>2. CASE ~LazyUmount(a)
    <3>1. UNCHANGED <<mnt, disturbed>>
      BY <1>2, <2>2 DEF Scan, CheckEntry, LazyUmountFails, RemoveDirectory,
                        RemoveDirectoryFails, SaveFile, world, history
    <3> QED BY <1>2, <3>1, SameRecordScan, MountedFrame
  <2> QED BY <2>1, <2>2
<1>3. ASSUME NEW t \in Thread, Call(t)
      PROVE  MountedUntilRecorded'
  <2>1. UNCHANGED <<mnt, disturbed>>
    BY <1>3 DEF Call, world, history
  <2> QED BY <1>3, <2>1, SameRecordCall, MountedFrame
<1>4. ASSUME NEW t \in Thread, Handler(t)
      PROVE  MountedUntilRecorded'
  <2>1. CASE Mount(t)
    <3> SUFFICES ASSUME NEW u \in Thread, pc'[u] = "record", hmp'[u] \notin disturbed'
                 PROVE  mnt'[hmp'[u]] = obj'[u][1]
      BY DEF MountedUntilRecorded
    <3>1. hmp[t] \in Mp /\ mnt[hmp[t]] = NoDev
      BY <2>1 DEF Mount, HandlerShape, HasMountPoint
    <3>2. UNCHANGED <<hmp, obj, disturbed>>
      BY <2>1 DEF Mount
    <3>3. mnt' = [mnt EXCEPT ![hmp[t]] = obj[t][1]]
      BY <2>1 DEF Mount, Device
    <3>4. CASE u = t
      BY <3>1, <3>2, <3>3, <3>4 DEF WorldOK
    <3>5. CASE u # t
      <4>1. pc[u] = "record"
        BY <2>1, <3>5 DEF Mount, Goto, HandlerOK
      <4>2. hmp[u] # hmp[t]
        BY <3>1, <3>2, <4>1, FreeMountPoint DEF AtRecord
      <4> QED
        BY <3>2, <3>3, <4>1, <4>2
           DEF MountedUntilRecorded, HandlerShape, HasMountPoint, WorldOK
    <3> QED BY <3>4, <3>5
  <2>2. CASE RecordMount(t)
    BY <2>2 DEF RecordMount, Goto, HandlerOK, MountedUntilRecorded, world, history
  <2>3. CASE Unmount(t)
    <3>1. ~Mount(t) /\ ~RecordMount(t)
      BY <2>3 DEF Unmount, Mount, RecordMount
    <3>2. PICK m : Detach(m)
      BY <2>3 DEF Unmount
    <3> QED BY <1>4, <3>1, <3>2, SameRecordHandler, MountedDetach
  <2>4. CASE ~Mount(t) /\ ~RecordMount(t) /\ ~Unmount(t)
    <3>1. UNCHANGED <<mnt, disturbed>>
      BY <1>4, <2>4
         DEF Handler, LockFilesystem, LockForCleanup, StartCheckBlock, Refuse,
             PrepareMount, CalculateMountPoint, MakeDirectory, MountFails, PrepareUnmount, FindMountPoint,
             UnmountFails, TriggerUevent, Release, Recheck, world, history
    <3> QED BY <1>4, <2>4, <3>1, SameRecordHandler, MountedFrame
  <2> QED BY <2>1, <2>2, <2>3, <2>4
<1>5. CASE World
  <2>1. ASSUME NEW reboot \in BOOLEAN, Restart(reboot)
        PROVE  MountedUntilRecorded'
    BY <2>1 DEF Restart, MountedUntilRecorded
  <2>2. ASSUME NEW m \in Mp, RootUnmounts(m)
        PROVE  MountedUntilRecorded'
    BY <2>2, MountedDetach DEF RootUnmounts, handler, SameRecord
  <2>3. ASSUME NEW d \in Dev, NEW m \in Mp, RootMounts(d, m)
        PROVE  MountedUntilRecorded'
    BY <2>3, MountedAttach DEF RootMounts, handler, SameRecord
  <2>4. CASE OtherUevent \/ \E d \in Dev : PullMedia(d) \/ InsertMedia(d) \/ Unplug(d) \/ Plug(d)
    <3>1. UNCHANGED <<pc, hmp, obj, mnt, disturbed>>
      BY <2>4 DEF OtherUevent, PullMedia, InsertMedia, Unplug, Plug, world, handler, history
    <3> QED BY <3>1, MountedFrame DEF SameRecord
  <2> QED BY <1>5, <2>1, <2>2, <2>3, <2>4 DEF World
<1>6. CASE UNCHANGED vars
  <2>1. UNCHANGED <<pc, hmp, obj, mnt, disturbed>>
    BY <1>6 DEF vars, world, handler, history
  <2> QED BY <2>1, MountedFrame DEF SameRecord
<1> QED BY <1>1, <1>2, <1>3, <1>4, <1>5, <1>6 DEF Next
-----------------------------------------------------------------------------
(* Every mount of a handler has an entry that survives the scan under way. *)
LEMMA SurvivorsEntries ==
    ASSUME StateOK, ScanOK
    PROVE  Survivors \subseteq Entries /\ Survivors \subseteq Entry
<1>1. Entries \subseteq Entry
  BY DEF Entries, StateOK, File
<1>2. \A f \in File : files[f] \subseteq Entries
  BY DEF Entries, File
<1>3. OtherFiles \subseteq Entries
  BY <1>2 DEF OtherFiles
<1>4. scan.stage # "none" => /\ scan.todo \subseteq Entries /\ scan.kept \subseteq Entries
                             /\ scan.stage = "umount" => scan.cur \in Entries
  BY <1>2 DEF ScanOK
<1> QED BY <1>1, <1>3, <1>4 DEF Survivors

(* The survivors of what m does not name stay, the mounts elsewhere too.   *)
LEMMA CoveredDetach ==
    ASSUME WorldOK, HistoryOK, Covered, SameRecord, NEW m, Detach(m),
           \A e \in Survivors : e.mp # m => e \in Survivors'
    PROVE  Covered'
<1> SUFFICES ASSUME NEW x \in ours' \ disturbed', ~AtRecord(x)'
             PROVE  \E e \in Survivors' : e.mp = x /\ e.dev = mnt'[x]
  BY DEF Covered
<1>1. x \in ours \ disturbed /\ x # m /\ x \in Mp
  BY DEF Detach, HistoryOK
<1>2. mnt'[x] = mnt[x]
  BY <1>1 DEF Detach, WorldOK
<1>3. ~AtRecord(x)
  BY DEF AtRecord, SameRecord
<1> QED BY <1>1, <1>2, <1>3 DEF Covered

LEMMA CoveredFrame ==
    ASSUME Covered, SameRecord, UNCHANGED <<mnt, ours, disturbed>>,
           Survivors \subseteq Survivors'
    PROVE  Covered'
<1> SUFFICES ASSUME NEW x \in ours \ disturbed, ~AtRecord(x)'
             PROVE  \E e \in Survivors' : e.mp = x /\ e.dev = mnt[x]
  BY DEF Covered
<1>1. ~AtRecord(x)
  BY DEF AtRecord, SameRecord
<1> QED BY <1>1 DEF Covered

LEMMA SameSurvivors ==
    ASSUME UNCHANGED <<files, scan>>
    PROVE  Survivors' = Survivors
BY DEF Survivors, OtherFiles, Entries

(* A scan that starts looks at one file and lets the other be.             *)
LEMMA OpenFileSurvivors ==
    ASSUME StateOK, ScanOK, lockOwner = Nobody, NEW a,
           scan' = OpenFile("run", a), UNCHANGED files
    PROVE  Survivors' = Survivors
<1>1. Survivors = Entries
  BY DEF Survivors, ScanOK
<1>2. scan'.stage = "pick" /\ scan'.file = "run" /\ scan'.todo \cup scan'.kept = files["run"]
  BY DEF OpenFile, NoScan
<1>3. OtherFiles' = files["persistent"]
  BY <1>2 DEF OtherFiles, File
<1> QED BY <1>1, <1>2, <1>3 DEF Survivors, Entries

(* A file that is saved has lost what the scan did not keep of it.         *)
LEMMA SaveFileSurvivors ==
    ASSUME TypeOK, ScanOK, NEW a \in Actor, SaveFile(a)
    PROVE  Survivors \subseteq Survivors' /\ scan'.stage \in {"none", "pick"}
<1> USE DEF TypeOK
<1>1. scan.stage = "pick" /\ scan.todo = {} /\ scan.file \in File
  BY DEF SaveFile, ScanOK
<1>2. Survivors = scan.kept \cup OtherFiles
  BY <1>1 DEF Survivors
<1>3. /\ scan.kept \subseteq files'[scan.file]
      /\ \A f \in File \ {scan.file} : files'[f] = files[f]
  BY <1>1 DEF SaveFile, ScanOK, StateOK
<1>4. Survivors \subseteq Entries'
  BY <1>1, <1>2, <1>3 DEF OtherFiles, Entries, File
<1>5. CASE scan.file = "run"
  <2>1. scan' = OpenFile("persistent", a) /\ files'["persistent"] = files["persistent"]
    BY <1>1, <1>3, <1>5 DEF SaveFile, File
  <2>2. /\ scan'.stage = "pick" /\ scan'.file = "persistent"
        /\ scan'.todo \cup scan'.kept = files'["persistent"]
    BY <2>1 DEF OpenFile, NoScan
  <2>3. OtherFiles' = files'["run"]
    BY <2>2 DEF OtherFiles, File
  <2>4. Survivors' = Entries'
    BY <2>2, <2>3 DEF Survivors, Entries
  <2> QED BY <1>4, <2>2, <2>4
<1>6. CASE scan.file # "run"
  BY <1>4, <1>6 DEF SaveFile, NoScan, Survivors
<1> QED BY <1>5, <1>6

LEMMA CoveredScan ==
    ASSUME TypeOK, ScanOK, Covered, NEW a \in Actor, Scan(a)
    PROVE  Covered'
<1> USE DEF TypeOK
<1>1. SameRecord
  BY SameRecordScan
<1>2. CASE CheckEntry(a)
  <2>1. PICK x \in scan.todo : Skip(x) \/ CleanUp(a, x)
    BY <1>2 DEF CheckEntry
  <2>2. UNCHANGED <<mnt, ours, disturbed, files>> /\ scan.stage = "pick"
    BY <1>2 DEF CheckEntry, world, history
  <2>3. CASE Skip(x)
    <3>1. Survivors \subseteq Survivors'
      BY <2>2, <2>3 DEF Skip, Survivors, OtherFiles, StateOK, ScanType
    <3> QED BY <1>1, <2>2, <3>1, CoveredFrame
  <2>4. CASE CleanUp(a, x) /\ IsMounted(x)
    <3>1. Survivors \subseteq Survivors'
      BY <2>2, <2>4 DEF CleanUp, Survivors, OtherFiles, StateOK, ScanType
    <3> QED BY <1>1, <2>2, <3>1, CoveredFrame
  <2>5. CASE CleanUp(a, x) /\ ~IsMounted(x)
    <3>1. Survivors \ {x} \subseteq Survivors'
      BY <2>2, <2>5 DEF CleanUp, Survivors, OtherFiles, StateOK, ScanType
    <3> SUFFICES ASSUME NEW m \in ours \ disturbed, ~AtRecord(m)'
                 PROVE  \E e2 \in Survivors' : e2.mp = m /\ e2.dev = mnt[m]
      BY <2>2 DEF Covered
    <3>2. ~AtRecord(m)
      BY <1>1 DEF AtRecord, SameRecord
    <3>3. PICK y \in Survivors : y.mp = m /\ y.dev = mnt[m]
      BY <3>2 DEF Covered
    <3>4. y # x
      BY <2>5, <3>3 DEF IsMounted
    <3> QED BY <3>1, <3>3, <3>4
  <2> QED BY <2>1, <2>3, <2>4, <2>5
<1>3. CASE LazyUmount(a)
  <2>1. \A e \in Survivors : e.mp # scan.cur.mp => e \in Survivors'
    BY <1>3 DEF LazyUmount, Survivors, OtherFiles, StateOK, ScanType
  <2> QED BY <1>1, <1>3, <2>1, CoveredDetach DEF LazyUmount
<1>4. CASE LazyUmountFails(a) \/ RemoveDirectoryFails(a)
  <2>1. /\ UNCHANGED <<mnt, ours, disturbed, files>> /\ Keep
        /\ scan.stage \in {"umount", "rmdir"}
    BY <1>4 DEF LazyUmountFails, RemoveDirectoryFails, world, history
  <2>2. Survivors \subseteq Survivors'
    BY <2>1 DEF Keep, Done, Survivors, OtherFiles, StateOK, ScanType
  <2> QED BY <1>1, <2>1, <2>2, CoveredFrame
<1>5. CASE RemoveDirectory(a)
  <2>1. Survivors \subseteq Survivors'
    BY <1>5 DEF RemoveDirectory, Drop, Done, Survivors, OtherFiles, StateOK, ScanType
  <2> QED BY <1>1, <1>5, <2>1, CoveredFrame DEF RemoveDirectory
<1>6. CASE SaveFile(a)
  <2>1. UNCHANGED <<mnt, ours, disturbed>>
    BY <1>6 DEF SaveFile, world, history
  <2> QED BY <1>1, <1>6, <2>1, SaveFileSurvivors, CoveredFrame
<1> QED BY <1>2, <1>3, <1>4, <1>5, <1>6 DEF Scan

LEMMA CoveredHandler ==
    ASSUME TypeOK, ScanOK, HandlerShape, MountedUntilRecorded, Covered,
           ConstantsAssumption, NEW t \in Thread, Handler(t)
    PROVE  Covered'
<1> USE DEF TypeOK
<1>1. CASE Mount(t)
  <2>1. UNCHANGED <<hmp, obj, disturbed, files, scan>> /\ hmp[t] \in Mp
    BY <1>1 DEF Mount, stateVar, HandlerShape, HasMountPoint
  <2>2. Survivors' = Survivors
    BY <2>1, SameSurvivors
  <2>3. \A u \in Thread : pc[u] = "record" => pc'[u] = "record"
    BY <1>1 DEF Mount, Goto, HandlerOK
  <2>4. pc'[t] = "record"
    BY <1>1 DEF Mount, Goto, HandlerOK
  <2> SUFFICES ASSUME NEW x \in ours' \ disturbed, ~AtRecord(x)'
               PROVE  \E e \in Survivors : e.mp = x /\ e.dev = mnt'[x]
    BY <2>1, <2>2 DEF Covered
  <2>5. x # hmp[t]
    BY <2>1, <2>4 DEF AtRecord
  <2>6. x \in ours /\ mnt'[x] = mnt[x]
    BY <1>1, <2>1, <2>5 DEF Mount, HistoryOK, WorldOK
  <2>7. ~AtRecord(x)
    BY <2>1, <2>3 DEF AtRecord
  <2> QED BY <2>6, <2>7 DEF Covered
<1>2. CASE RecordMount(t)
  <2>1. UNCHANGED <<hmp, obj, mnt, ours, disturbed, scan>>
    BY <1>2 DEF RecordMount, world, history
  <2>2. Survivors = Entries /\ Survivors' = Entries'
    BY <1>2, <2>1 DEF RecordMount, ScanOK, Survivors
  <2>3. RecordFile(t) \in File
    BY DEF RecordFile, File
  <2> DEFINE new == [mp |-> hmp[t], dev |-> Device(t), fstab |-> IsFstab(t)]
  <2>4. new \in Entries'
    BY <1>2, <2>3 DEF RecordMount, AddMountedFs, Entries, File, StateOK
  <2>5. \A e \in Entries : e.mp # hmp[t] => e \in Entries'
    BY <1>2, <2>3 DEF RecordMount, AddMountedFs, Entries, File, StateOK
  <2>6. \A u \in Thread \ {t} : pc'[u] = pc[u]
    BY <1>2 DEF RecordMount, Goto, HandlerOK
  <2> SUFFICES ASSUME NEW x \in ours \ disturbed, ~AtRecord(x)'
               PROVE  \E e \in Entries' : e.mp = x /\ e.dev = mnt[x]
    BY <2>1, <2>2 DEF Covered
  <2>7. CASE x = hmp[t]
    <3>1. mnt[x] = Device(t)
      BY <1>2, <2>7 DEF RecordMount, MountedUntilRecorded, Device
    <3> QED BY <2>4, <2>7, <3>1
  <2>8. CASE x # hmp[t]
    <3>1. ~AtRecord(x)
      BY <2>1, <2>6, <2>8 DEF AtRecord
    <3>2. PICK e \in Entries : e.mp = x /\ e.dev = mnt[x]
      BY <2>2, <3>1 DEF Covered
    <3> QED BY <2>5, <2>8, <3>2
  <2> QED BY <2>7, <2>8
<1>3. CASE StartCheckBlock(t)
  <2>1. ~Mount(t) /\ ~RecordMount(t)
    BY <1>3 DEF StartCheckBlock, Mount, RecordMount
  <2>2. Survivors' = Survivors
    BY <1>3, OpenFileSurvivors DEF StartCheckBlock
  <2>3. UNCHANGED <<mnt, ours, disturbed>>
    BY <1>3 DEF StartCheckBlock, world, history
  <2> QED BY <2>1, <2>2, <2>3, SameRecordHandler, CoveredFrame
<1>4. CASE Unmount(t)
  <2>1. ~Mount(t) /\ ~RecordMount(t)
    BY <1>4 DEF Unmount, Mount, RecordMount
  <2>2. Survivors' = Survivors
    BY <1>4, SameSurvivors DEF Unmount, stateVar
  <2>3. PICK m : Detach(m)
    BY <1>4 DEF Unmount
  <2> QED BY <2>1, <2>2, <2>3, SameRecordHandler, CoveredDetach
<1>5. CASE ~Mount(t) /\ ~RecordMount(t) /\ ~StartCheckBlock(t) /\ ~Unmount(t)
  <2>1. UNCHANGED <<mnt, ours, disturbed, files, scan>>
    BY <1>5
       DEF Handler, LockFilesystem, LockForCleanup, Refuse, PrepareMount,
           CalculateMountPoint, MakeDirectory, MountFails, PrepareUnmount, FindMountPoint,
           UnmountFails, TriggerUevent, Release, Recheck, world, history, stateVar
  <2> QED BY <1>5, <2>1, SameSurvivors, SameRecordHandler, CoveredFrame
<1> QED BY <1>1, <1>2, <1>3, <1>4, <1>5

LEMMA CoveredWorld ==
    ASSUME TypeOK, ScanOK, HandlerShape, MountedUntilRecorded, Covered,
           ConstantsAssumption, World
    PROVE  Covered'
<1> USE DEF TypeOK
<1>1. ASSUME NEW reboot \in BOOLEAN, Restart(reboot)
      PROVE  Covered'
  <2> SUFFICES ASSUME NEW x \in ours' \ disturbed'
               PROVE  \E e \in Survivors' : e.mp = x /\ e.dev = mnt'[x]
    BY DEF Covered
  <2>1. ~reboot /\ x \in ours \ disturbed /\ ~AtRecord(x)
    BY <1>1 DEF Restart, AtRecord
  <2>2. UNCHANGED <<mnt, files>> /\ scan'.stage = "none"
    BY <1>1, <2>1 DEF Restart, NoScan
  <2>3. Survivors' = Entries
    BY <2>2 DEF Survivors, Entries
  <2> QED BY <2>1, <2>2, <2>3, SurvivorsEntries DEF Covered
<1>2. ASSUME NEW m \in Mp, RootUnmounts(m)
      PROVE  Covered'
  <2>1. SameRecord /\ UNCHANGED <<files, scan>>
    BY <1>2 DEF RootUnmounts, handler, stateVar, SameRecord
  <2> QED BY <1>2, <2>1, SameSurvivors, CoveredDetach DEF RootUnmounts
<1>3. ASSUME NEW d \in Dev, NEW m \in Mp, RootMounts(d, m)
      PROVE  Covered'
  <2>1. UNCHANGED <<pc, hmp, ours, disturbed, files, scan>> /\ mnt[m] = NoDev
    BY <1>3 DEF RootMounts, handler, stateVar
  <2>2. Survivors' = Survivors
    BY <2>1, SameSurvivors
  <2> SUFFICES ASSUME NEW x \in ours \ disturbed, ~AtRecord(x)
               PROVE  \E e \in Survivors : e.mp = x /\ e.dev = mnt'[x]
    BY <2>1, <2>2 DEF Covered, AtRecord
  <2>3. PICK e \in Survivors : e.mp = x /\ e.dev = mnt[x]
    BY DEF Covered
  <2>4. e.dev \in Dev
    BY SurvivorsEntries DEF Entry
  <2>5. x # m
    BY <2>1, <2>3, <2>4 DEF ConstantsAssumption
  <2>6. mnt'[x] = mnt[x]
    BY <1>3, <2>5 DEF RootMounts, WorldOK, HistoryOK
  <2> QED BY <2>3, <2>6
<1>4. CASE OtherUevent \/ \E d \in Dev : PullMedia(d) \/ InsertMedia(d) \/ Unplug(d) \/ Plug(d)
  <2>1. UNCHANGED <<pc, hmp, obj, mnt, ours, disturbed, files, scan>>
    BY <1>4 DEF OtherUevent, PullMedia, InsertMedia, Unplug, Plug, world, handler,
                stateVar, history
  <2> QED BY <2>1, SameSurvivors, CoveredFrame DEF SameRecord
<1> QED BY <1>1, <1>2, <1>3, <1>4 DEF World

LEMMA CoveredStep ==
    ASSUME IInv, ConstantsAssumption, [Next]_vars
    PROVE  Covered'
<1> USE DEF IInv
<1>1. CASE StartPass
  <2>1. SameRecord /\ UNCHANGED <<mnt, ours, disturbed>>
    BY <1>1 DEF StartPass, world, handler, history, SameRecord
  <2>2. Survivors' = Survivors
    BY <1>1, OpenFileSurvivors DEF StartPass, TypeOK
  <2> QED BY <2>1, <2>2, CoveredFrame
<1>2. ASSUME NEW a \in Actor, Scan(a)
      PROVE  Covered'
  BY <1>2, CoveredScan
<1>3. ASSUME NEW t \in Thread, Call(t)
      PROVE  Covered'
  <2>1. UNCHANGED <<mnt, ours, disturbed, files, scan>>
    BY <1>3 DEF Call, world, history, stateVar
  <2> QED BY <1>3, <2>1, SameRecordCall, SameSurvivors, CoveredFrame DEF TypeOK
<1>4. ASSUME NEW t \in Thread, Handler(t)
      PROVE  Covered'
  BY <1>4, CoveredHandler
<1>5. CASE World
  BY <1>5, CoveredWorld
<1>6. CASE ReloadMounts \/ (\E d \in Dev : ProcessUevent(d)) \/ UNCHANGED vars
  <2>1. UNCHANGED <<pc, hmp, obj, mnt, ours, disturbed, files, scan>>
    BY <1>6 DEF ReloadMounts, ProcessUevent, vars, world, handler, stateVar, history
  <2> QED BY <2>1, SameSurvivors, CoveredFrame DEF SameRecord
<1> QED BY <1>1, <1>2, <1>3, <1>4, <1>5, <1>6 DEF Next
-----------------------------------------------------------------------------
(* The theorems.                                                           *)
LEMMA InitIInv ==
    ASSUME ConstantsAssumption, Init
    PROVE  IInv
<1>1. NoScan \in ScanType
  BY DEF NoScan, ScanType, Stage
<1>2. WorldOK /\ ViewOK
  BY DEF Init, ConstantsAssumption, WorldOK, ViewOK, Media
<1>3. StateOK /\ HandlerOK /\ HistoryOK
  BY <1>1 DEF Init, ConstantsAssumption, StateOK, HandlerOK, HistoryOK, Actor, PC, Op
<1>4. ScanOK
  BY DEF Init, NoScan, ScanOK, ConstantsAssumption
<1>5. HandlerShape /\ MountedUntilRecorded /\ Covered
  BY DEF Init, HandlerShape, HasMountPoint, MountedUntilRecorded, Covered
<1> QED BY <1>2, <1>3, <1>4, <1>5 DEF IInv, TypeOK

LEMMA NextIInv ==
    ASSUME ConstantsAssumption, IInv, [Next]_vars
    PROVE  IInv'
BY TypeStep, ScanOKStep, HandlerShapeStep, MountedStep, CoveredStep DEF IInv

(* The inductive invariant of the mount path, for every set of devices,    *)
(* mount points and threads: locks, scan and handlers fit together.        *)
THEOREM Invariance == Spec => []IInv
<1>1. Init => IInv
  BY ConstantsAssumption, InitIInv
<1>2. IInv /\ [Next]_vars => IInv'
  BY ConstantsAssumption, NextIInv
<1> QED BY <1>1, <1>2, PTL DEF Spec

(* The daemon's state stays well formed, whatever interleaving of          *)
(* handlers, clean-up thread, uevents, root and restarts.                  *)
THEOREM TypeCorrect == Spec => []TypeOK
<1>1. IInv => TypeOK
  BY DEF IInv
<1> QED BY <1>1, Invariance, PTL

(* handle_mount and the clean-up thread between them never lose the entry  *)
(* of a file system that a handler mounted and that is still mounted.      *)
THEOREM MountsRecorded == Spec => []LiveMountRecorded
<1>1. IInv => LiveMountRecorded
  <2> SUFFICES ASSUME IInv, NEW m \in ours \ disturbed, ~AtRecord(m)
               PROVE  Recorded(m, mnt[m])
    BY DEF LiveMountRecorded, AtRecord
  <2>1. PICK e \in Survivors : e.mp = m /\ e.dev = mnt[m]
    BY DEF IInv, Covered
  <2> QED BY <2>1, SurvivorsEntries DEF IInv, TypeOK, Recorded
<1> QED BY <1>1, Invariance, PTL

(* udisks_state_add_mounted_fs replaces the entry of a mount point, and a  *)
(* scan only takes entries away: no mount point has two in one file.       *)
LEMMA OneEntryStep ==
    ASSUME IInv, ConstantsAssumption, OneEntryPerMountPoint, [Next]_vars
    PROVE  OneEntryPerMountPoint'
<1>1. CASE UNCHANGED files
  BY <1>1 DEF OneEntryPerMountPoint
<1>2. ASSUME NEW a \in Actor, SaveFile(a)
      PROVE  OneEntryPerMountPoint'
  <2>1. \A f \in File : files'[f] \subseteq files[f]
    BY <1>2 DEF SaveFile, IInv, ScanOK, TypeOK, StateOK
  <2> QED BY <2>1 DEF OneEntryPerMountPoint
<1>3. ASSUME NEW t \in Thread, RecordMount(t)
      PROVE  OneEntryPerMountPoint'
  <2> DEFINE new == [mp |-> hmp[t], dev |-> Device(t), fstab |-> IsFstab(t)]
  <2>1. RecordFile(t) \in File
    BY DEF RecordFile, File
  <2>2. \A f \in File : files'[f] = IF f = RecordFile(t)
                                   THEN {x \in files[f] : x.mp # new.mp} \cup {new}
                                   ELSE files[f]
    BY <1>3, <2>1 DEF RecordMount, AddMountedFs, IInv, TypeOK, StateOK
  <2> QED BY <2>2 DEF OneEntryPerMountPoint
<1>4. ASSUME NEW reboot \in BOOLEAN, Restart(reboot)
      PROVE  OneEntryPerMountPoint'
  <2>1. \A f \in File : files'[f] \subseteq files[f]
    BY <1>4 DEF Restart, IInv, TypeOK, StateOK, File
  <2> QED BY <2>1 DEF OneEntryPerMountPoint
<1>5. ASSUME NEW a \in Actor, Scan(a)
      PROVE  OneEntryPerMountPoint'
  BY <1>1, <1>2, <1>5 DEF Scan, CheckEntry, LazyUmount, LazyUmountFails,
                          RemoveDirectory, RemoveDirectoryFails
<1>6. ASSUME NEW t \in Thread, Handler(t)
      PROVE  OneEntryPerMountPoint'
  BY <1>1, <1>3, <1>6, HandlerElsewhereScan DEF HandlerElsewhere, StartCheckBlock
<1>7. CASE World
  BY <1>1, <1>4, <1>7, WorldScan
<1>8. CASE StartPass \/ (\E t \in Thread : Call(t)) \/ (\E d \in Dev : ProcessUevent(d))
           \/ ReloadMounts \/ UNCHANGED vars
  BY <1>1, <1>8 DEF StartPass, Call, ProcessUevent, ReloadMounts, vars, stateVar
<1> QED BY <1>5, <1>6, <1>7, <1>8 DEF Next

THEOREM MountPointsUnique == Spec => []OneEntryPerMountPoint
<1>1. Init => OneEntryPerMountPoint
  BY DEF Init, OneEntryPerMountPoint, File
<1>2. IInv /\ OneEntryPerMountPoint /\ [Next]_vars => OneEntryPerMountPoint'
  BY ConstantsAssumption, OneEntryStep
<1> QED BY <1>1, <1>2, Invariance, PTL DEF Spec
=============================================================================
