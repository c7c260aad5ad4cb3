---------------------------- MODULE DeviceTables ----------------------------
(***************************************************************************)
(* UDisksLinuxProvider: the tables from sysfs paths, VPDs, array UUIDs and *)
(* NVMe subsystems to the exported objects, and the way of a uevent to     *)
(* them: the monitor thread takes it from udev, the probing thread probes  *)
(* the device, the main thread applies it.  Start-up and the activation of *)
(* modules coldplug what udev enumerates, past the queue.                  *)
(*                                                                         *)
(* The tables by path hold no reference: an entry whose object was freed   *)
(* is Freed.  What handlers read from sysfs (partitions, slaves, the NQN)  *)
(* is what is there when they run; what they read from the uevent is what  *)
(* udev put in it.                                                         *)
(***************************************************************************)
EXTENDS Integers, FiniteSets, Sequences

CONSTANTS
  Paths, Vpds, Uuids, Nqns,
  Setups,      \* the machines considered
  Absent,      \* no entry, no property, no object
  Freed,       \* a pointer to an object that is no more
  MaxEvents,   \* changes of the world
  MaxLag,      \* uevents on their way when the world changes once more
  MaxTimeouts  \* timers, modules activated and edits of fstab between them

OrAbsent(S) == S \cup {Absent}
Kinds == {"disk", "partition", "md", "dm", "controller", "namespace"}
Bogus == "00000000:00000000:00000000:00000000"
Labels == {"blank", "fs", "crypto"} \cup Uuids

\* A machine: its devices in the order of their names, their kind, what a
\* partition or a mapping lies on, their VPD and NQN, what is on each of them at
\* first and what may be, and the UUIDs that udev ever reports of an array it runs.
Machine == [order : Seq(Paths), kind : [Paths -> Kinds], on : [Paths -> OrAbsent(Paths)],
            vpd : [Paths -> OrAbsent(Vpds)], nqn : [Paths -> OrAbsent(Nqns)],
            content : [Paths -> Labels], labels : [Paths -> SUBSET Labels],
            arrays : [Paths -> SUBSET Uuids]]

BlockObject == [label : Labels, table : BOOLEAN, fs : BOOLEAN,
                backing : OrAbsent(Paths), cleartext : OrAbsent(Paths)]
ArrayObject == [members : SUBSET Paths, raid : OrAbsent(Paths), watched : BOOLEAN]

\* A partition and a mapping lie on something, and they only, a mapping on no other
\* mapping; an NQN is that of a controller or of a namespace.
ASSUME DeviceTablesAssumption ==
  /\ Setups \subseteq Machine /\ MaxEvents \in Nat /\ MaxLag \in Nat /\ MaxTimeouts \in Nat
  /\ \A m \in Setups : \A p \in Paths :
       /\ m.kind[p] \in {"partition", "dm"} <=> m.on[p] # Absent
       /\ m.kind[p] = "dm" => m.kind[m.on[p]] # "dm"
       /\ m.nqn[p] # Absent => m.kind[p] \in {"controller", "namespace"}
  /\ Absent \notin Paths \cup Vpds \cup Uuids \cup Nqns
  /\ Absent \notin BlockObject \cup ArrayObject /\ \A S \in SUBSET Paths : Absent # S
  /\ Freed \notin Vpds \cup Uuids \cup {Absent} /\ Bogus \notin Uuids

VARIABLES
  machine,
  present, label, array, ready,  \* the world: devices, contents, MD UUID, NQN readable
  changes,                       \* how often it changed
  listening,                     \* the monitor thread has its GUdevClient
  bus, posted,                   \* to the monitor and, once probed, to the main thread
  pc, todo,                      \* udisks_linux_provider_start; what the main thread has at hand
  tables,
  housekeeping, due,             \* the periodic thread and the drives it holds
  initial,                       \* drives with an initial run scheduled
  refreshed,                     \* drives that had a run
  timeouts,
  slipped                        \* devices an event of which the provider does not see as it was

world == <<machine, present, label, array, ready, changes>>
queues == <<listening, bus, posted>>
start == <<pc, todo>>
keeping == <<housekeeping, due, initial, refreshed, timeouts>>
vars == <<world, queues, start, tables, keeping, slipped>>

Kind(p) == machine.kind[p]
On(p) == machine.on[p]
Devices == {machine.order[i] : i \in DOMAIN machine.order}
IsBlock(p) == Kind(p) # "controller"
Whole(p) == Kind(p) \in {"disk", "md"}

\* What udev reports of a device: its properties, not its attributes.  A flag is
\* DISK_MEDIA_CHANGE or DISK_EJECT_REQUEST ("media"), DM_UDEV_DISABLE_OTHER_RULES_FLAG
\* ("disabled"), or what nobody can see: that the UUID is not the array's ("bogus").
Snapshot(act, p) ==
  [act |-> act, path |-> p, label |-> label[p], array |-> array[p], flag |-> "none"]

Tables ==
  [block : [Paths -> OrAbsent(BlockObject)], drive : [Vpds -> OrAbsent((SUBSET Paths) \ {{}})],
   drivePath : [Paths -> Vpds \cup {Absent, Freed}], mdraid : [Uuids -> OrAbsent(ArrayObject)],
   arrayPath : [Paths -> Uuids \cup {Absent, Freed}],
   memberPath : [Paths -> Uuids \cup {Absent, Freed}],
   subsys : [Nqns -> SUBSET Paths], subsysPath : [Paths -> OrAbsent(Nqns)],
   loaded : BOOLEAN, claimed : SUBSET Paths]
Events == [act : {"add", "remove", "change", "refresh"}, path : Paths, label : Labels,
           array : OrAbsent(Uuids) \cup {Bogus}, flag : {"none", "media", "disabled", "bogus"}]

TypeOK ==
  /\ machine \in Setups
  /\ present \subseteq Devices /\ ready \subseteq Devices
  /\ label \in [Paths -> Labels] /\ array \in [Paths -> OrAbsent(Uuids)]
  /\ changes \in 0..MaxEvents /\ timeouts \in 0..MaxTimeouts
  /\ listening \in BOOLEAN
  /\ {bus, posted, todo} \subseteq Seq(Events)
  /\ pc \in {"new", "coldplug", "running"}
  /\ tables \in Tables
  /\ housekeeping \in {"idle", "started", "drives"}
  /\ due \subseteq Vpds /\ initial \subseteq Vpds /\ refreshed \subseteq Vpds
  /\ slipped \subseteq Paths

NoTables ==
  [block |-> [p \in Paths |-> Absent], drive |-> [v \in Vpds |-> Absent],
   drivePath |-> [p \in Paths |-> Absent], mdraid |-> [u \in Uuids |-> Absent],
   arrayPath |-> [p \in Paths |-> Absent], memberPath |-> [p \in Paths |-> Absent],
   subsys |-> [n \in Nqns |-> {}], subsysPath |-> [p \in Paths |-> Absent],
   loaded |-> FALSE, claimed |-> {}]

\* What is unlocked is held, and cannot be unlocked once more.
Mapped(p, S) == {q \in S : Kind(q) = "dm" /\ On(q) = p}

Init ==
  /\ machine \in Setups
  /\ present \in {S \in SUBSET Devices : /\ \A p \in S : On(p) \in OrAbsent(S)
                                         /\ \A p \in S : \A q, r \in Mapped(p, S) : q = r}
  /\ label = machine.content
  /\ array = [p \in Paths |-> Absent] /\ ready = present /\ changes = 0
  /\ listening = FALSE /\ bus = <<>> /\ posted = <<>>
  /\ pc = "new" /\ todo = <<>>
  /\ tables = NoTables
  /\ housekeeping = "idle" /\ due = {} /\ initial = {} /\ refreshed = {} /\ timeouts = 0
  /\ slipped = {}

-----------------------------------------------------------------------------
(* Arrays *)

HasDevices(a) == a.members # {} \/ a.raid # Absent

\* udisks_linux_mdraid_object_uevent for a member.
MemberUevent(a, e) ==
  [a EXCEPT !.members = IF e.act = "remove" THEN @ \ {e.path} ELSE @ \cup {e.path}]

\* ... and for the array's own device; the watches need md/level.
RaidUevent(a, e) ==
  IF Kind(e.path) = "partition" \/ (e.act = "remove" /\ a.raid # e.path) THEN a
  ELSE IF e.act = "remove" THEN [a EXCEPT !.raid = Absent, !.watched = FALSE]
  ELSE [a EXCEPT !.raid = e.path, !.watched = e.path \in present]

\* maybe_remove_mdraid_object: uuid_to_mdraid holds the only reference.
MaybeRemove(T, u) ==
  IF HasDevices(T.mdraid[u]) THEN T
  ELSE LET Free(table) == [p \in Paths |-> IF table[p] = u THEN Freed ELSE table[p]]
       IN [T EXCEPT !.mdraid[u] = Absent, !.arrayPath = Free(@), !.memberPath = Free(@)]

\* A mutant: the path keeps its entry.
LeaveKeepingEntry(T, e) ==
  LET u == T.memberPath[e.path] IN
  IF u \notin Uuids THEN T
  ELSE MaybeRemove([T EXCEPT !.mdraid[u] = MemberUevent(@, [e EXCEPT !.act = "remove"])], u)

LeaveAsMember(T, e) ==
  LET u == T.memberPath[e.path] IN
  IF u \notin Uuids THEN T
  ELSE MaybeRemove([T EXCEPT !.mdraid[u] = MemberUevent(@, [e EXCEPT !.act = "remove"]),
                             !.memberPath[e.path] = Absent], u)

LeaveAsArray(T, e) ==
  LET u == T.arrayPath[e.path] IN
  IF u \notin Uuids THEN T
  ELSE MaybeRemove([T EXCEPT !.mdraid[u] = RaidUevent(@, [e EXCEPT !.act = "remove"]),
                             !.arrayPath[e.path] = Absent], u)

Leave(T, e) == LeaveAsArray(LeaveAsMember(T, e), e)

NewArray == [members |-> {}, raid |-> Absent, watched |-> FALSE]

\* An existing object is entered for the path unless the path has an entry; a
\* new one replaces whatever entry there is.
Enter(T, e, u, is_member) ==
  LET old == T.mdraid[u]
      a == IF old = Absent THEN NewArray ELSE old
      entry(x) == IF old = Absent \/ x = Absent THEN u ELSE x
  IN IF is_member
     THEN [T EXCEPT !.mdraid[u] = MemberUevent(a, e), !.memberPath[e.path] = entry(@)]
     ELSE [T EXCEPT !.mdraid[u] = RaidUevent(a, e), !.arrayPath[e.path] = entry(@)]

\* A mutant: only the UUID of zeroes is bogus.
WithAnyUuid(T, e, u, is_member) ==
  IF e.act = "remove" \/ u \notin Uuids THEN Leave(T, e) ELSE Enter(T, e, u, is_member)

\* handle_block_uevent_for_mdraid_with_uuid
WithUuid(T, e, u, is_member) ==
  LET candidate == T.arrayPath[e.path]
      bogus == \/ u \notin Uuids
               \/ ~is_member /\ candidate # Absent /\ candidate # u
  IN IF e.act = "remove" \/ bogus THEN Leave(T, e) ELSE Enter(T, e, u, is_member)

MemberUuid(e) == IF e.label \in Uuids THEN e.label ELSE Absent

ForMDRaid(T, e) ==
  LET member == MemberUuid(e)
      own == IF e.array # Absent THEN WithUuid(T, e, e.array, FALSE) ELSE T
      both == IF member # Absent THEN WithUuid(own, e, member, TRUE) ELSE own
  IN IF e.array = Absent /\ member = Absent THEN WithUuid(T, e, Absent, FALSE) ELSE both

-----------------------------------------------------------------------------
(* Drives *)

\* udisks_linux_drive_object_should_include_device: whole disks and NVMe
\* controllers with something to tell them by.
ShouldInclude(p) == Kind(p) \in {"disk", "controller"} /\ machine.vpd[p] # Absent

DriveUevent(devices, e) == IF e.act = "remove" THEN devices \ {e.path} ELSE devices \cup {e.path}

DriveGone(T, v) ==
  [T EXCEPT !.drive[v] = Absent,
            !.drivePath = [p \in Paths |-> IF @[p] = v THEN Freed ELSE @[p]]]

\* Mutants: the drive goes with any of its paths; the drive stays without a path.
RemoveWithAnyPath(T, e) ==
  LET v == T.drivePath[e.path] IN IF v \notin Vpds THEN T ELSE DriveGone(T, v)
RemoveNoDrive(T, e) ==
  LET v == T.drivePath[e.path] IN
  IF v \notin Vpds THEN T
  ELSE [T EXCEPT !.drive[v] = DriveUevent(@, e), !.drivePath[e.path] = Absent]

RemoveFromDrive(T, e) ==
  LET v == T.drivePath[e.path]
      T1 == [T EXCEPT !.drive[v] = DriveUevent(@, e), !.drivePath[e.path] = Absent]
  IN IF v \notin Vpds THEN T
     ELSE IF T1.drive[v] = {} THEN DriveGone(T1, v) ELSE T1

\* handle_block_uevent_for_drive: "change" makes no new drive.
ForDrive(T, e) ==
  LET v == machine.vpd[e.path] IN
  CASE e.act = "remove" -> RemoveFromDrive(T, e)
    [] e.act # "remove" /\ ~ShouldInclude(e.path) -> T
    [] OTHER ->
         IF T.drive[v] # Absent
         THEN [T EXCEPT !.drive[v] = DriveUevent(@, e),
                        !.drivePath[e.path] = IF @ = Absent THEN v ELSE @]
         ELSE IF e.act = "add"
         THEN [T EXCEPT !.drive[v] = {e.path}, !.drivePath[e.path] = v]
         ELSE T

-----------------------------------------------------------------------------
(* Block devices *)

\* disk_is_partitioned_by_kernel
Partitioned(p) == Whole(p) /\ \E q \in present : Kind(q) = "partition" /\ On(q) = p

\* The block object of the device a mapping lies on, if both are there.
BackingOf(T, p) ==
  IF Kind(p) = "dm" /\ p \in present /\ T.block[On(p)] # Absent THEN On(p) ELSE Absent

IsEncrypted(T, p) == p # Absent /\ T.block[p] # Absent /\ T.block[p].label = "crypto"

\* wait_for_cleartext_object, as update_cleartext_device calls it.
FindCleartext(T, p) ==
  LET found == {q \in Paths : T.block[q] # Absent /\ T.block[q].backing = p}
  IN IF found = {} THEN Absent ELSE CHOOSE q \in found : TRUE

\* udisks_linux_block_object_uevent: the Block interface, which also tells the
\* device below, then the interfaces that depend on it.
UpdateBlock(T, p, lab) ==
  LET backing == BackingOf(T, p)
      object == [label |-> lab, table |-> Partitioned(p),
                 fs |-> lab = "fs" /\ ~Partitioned(p), backing |-> backing, cleartext |-> Absent]
      T1 == [T EXCEPT !.block[p] = object]
      T2 == IF IsEncrypted(T1, backing) THEN [T1 EXCEPT !.block[backing].cleartext = p] ELSE T1
  IN IF lab = "crypto" THEN [T2 EXCEPT !.block[p].cleartext = FindCleartext(T2, p)] ELSE T2

\* A mutant: the device below goes on naming the mapping.
PreRemoveNothing(T, p) == T

\* block_pre_remove
PreRemove(T, p) ==
  LET backing == T.block[p].backing IN
  IF IsEncrypted(T, backing) THEN [T EXCEPT !.block[backing].cleartext = Absent] ELSE T

\* handle_block_uevent_for_block
ForBlock(T, e) ==
  CASE ~IsBlock(e.path) -> T
    [] IsBlock(e.path) /\ e.act = "remove" ->
         IF T.block[e.path] = Absent THEN T
         ELSE [PreRemove(T, e.path) EXCEPT !.block[e.path] = Absent]
    [] OTHER -> UpdateBlock(T, e.path, e.label)

\* handle_block_uevent_for_modules, for a module that keeps one object per
\* device: an existing object is asked first and drops out with its device.
ForModules(T, e) ==
  IF ~T.loaded \/ ~IsBlock(e.path) THEN T
  ELSE [T EXCEPT !.claimed = IF e.act = "remove" THEN @ \ {e.path} ELSE @ \cup {e.path}]

-----------------------------------------------------------------------------
(* NVMe subsystems *)

\* A mutant: the attribute is all there is.
ForSubsystemByAttribute(T, e) ==
  LET p == e.path
      n == machine.nqn[p]
  IN IF n = Absent \/ p \notin present \cap ready THEN T
     ELSE IF e.act = "remove"
     THEN [T EXCEPT !.subsys[n] = @ \ {p}, !.subsysPath[p] = Absent]
     ELSE [T EXCEPT !.subsys[n] = IF e.act = "add" THEN @ \cup {p} ELSE @, !.subsysPath[p] = n]

\* handle_block_uevent_for_nvme_subsys: the attribute if it can be read, else
\* what is known of the path; only "add" enters the path.
ForSubsystem(T, e) ==
  LET p == e.path
      known == T.subsysPath[p]
      n == IF p \in present /\ p \in ready THEN machine.nqn[p] ELSE known
  IN IF n = Absent \/ Kind(p) \notin {"controller", "namespace"} THEN T
     ELSE IF e.act = "remove"
     THEN [T EXCEPT !.subsys[n] = @ \ {p}, !.subsysPath[p] = Absent]
     ELSE [T EXCEPT !.subsys[n] = IF e.act = "add" THEN @ \cup {p} ELSE @, !.subsysPath[p] = n]

\* handle_block_uevent: the objects a block refers to come before it and go
\* after it; what device-mapper asks others to ignore is ignored.
HandleBlockUevent(T, e) ==
  CASE e.act = "remove" -> ForModules(ForMDRaid(ForDrive(ForBlock(T, e), e), e), e)
    [] e.act # "remove" /\ e.flag = "disabled" -> T
    [] OTHER -> ForBlock(ForDrive(ForMDRaid(ForModules(T, e), e), e), e)

\* udisks_linux_provider_handle_uevent
HandleUevent(T, e) == ForSubsystem(HandleBlockUevent(T, e), e)

\* Devices in the order of their names.
Place(p) == CHOOSE i \in DOMAIN machine.order : machine.order[i] = p
Listings(S) == {s \in [1..Cardinality(S) -> S] :
                  /\ \A p \in S : \E i \in DOMAIN s : s[i] = p
                  /\ \A i, j \in DOMAIN s : i < j => Place(s[i]) < Place(s[j])}

\* get_udisks_devices
Enumerations == {[i \in DOMAIN s |-> Snapshot("add", s[i])] : s \in Listings(present)}

-----------------------------------------------------------------------------
(* The world: each change is reported by udev, in order. *)

\* Uevents sent before the monitor thread has its GUdevClient are lost; that
\* matters once the devices have been enumerated.
Emit(events) ==
  /\ changes < MaxEvents /\ changes' = changes + 1 /\ Len(bus) + Len(posted) <= MaxLag
  /\ bus' = IF listening THEN bus \o events ELSE bus
  /\ slipped' = slipped \cup
       IF listening \/ pc = "new" THEN {}
       ELSE UNION {{events[i].path, On(events[i].path)} \ {Absent} : i \in DOMAIN events}
  /\ UNCHANGED <<machine, listening, posted, start, tables, keeping>>

\* A partition that comes or goes is followed by a "change" of its disk.
WithParent(e) ==
  IF Kind(e.path) = "partition" THEN <<e, Snapshot("change", On(e.path))>> ELSE <<e>>

\* A mapping is added before it has its table: a "change" follows.
Plug(p) ==
  /\ p \in Devices \ present /\ On(p) \in OrAbsent(present)
  /\ Kind(p) = "dm" => label[On(p)] = "crypto" /\ Mapped(On(p), present) = {}
  /\ present' = present \cup {p}
  /\ ready' \in IF machine.nqn[p] = Absent THEN {ready \cup {p}} ELSE {ready \cup {p}, ready \ {p}}
  /\ Emit(IF Kind(p) = "dm"
          THEN <<[Snapshot("add", p) EXCEPT !.flag = "disabled"], Snapshot("change", p)>>
          ELSE WithParent(Snapshot("add", p)))
  /\ UNCHANGED <<label, array>>

\* What lies on a device goes before the device.
Unplug(p) ==
  /\ p \in present /\ \A q \in present : On(q) # p
  /\ present' = present \ {p} /\ ready' = ready \ {p}
  /\ array' = [array EXCEPT ![p] = Absent]
  /\ Emit(WithParent(Snapshot("remove", p)))
  /\ UNCHANGED label

\* Something else is written to the device.
Relabel(p, lab) ==
  /\ p \in present /\ lab \in machine.labels[p] \ {label[p]} /\ \A q \in present : On(q) # p
  /\ label' = [label EXCEPT ![p] = lab]
  /\ Emit(<<[Snapshot("change", p) EXCEPT !.label = lab]>>)
  /\ UNCHANGED <<present, array, ready>>

\* A change of media, or a request to eject, that the kernel reports itself.
MediaChange(p, lab) ==
  /\ p \in present /\ Kind(p) = "disk" /\ lab \in machine.labels[p] \ Uuids
  /\ label[p] \notin Uuids /\ \A q \in present : On(q) # p
  /\ label' = [label EXCEPT ![p] = lab]
  /\ Emit(<<[Snapshot("change", p) EXCEPT !.label = lab, !.flag = "media"]>>)
  /\ UNCHANGED <<present, array, ready>>

Assemble(p, u) ==
  /\ p \in present /\ Kind(p) = "md" /\ u \in machine.arrays[p] /\ array[p] = Absent
  /\ \A q \in present : array[q] # u
  /\ array' = [array EXCEPT ![p] = u]
  /\ Emit(<<[Snapshot("change", p) EXCEPT !.array = u]>>)
  /\ UNCHANGED <<present, label, ready>>

\* Of a stopped array mdadm reports no UUID, a bogus one, or another one.
StopArray(p, u) ==
  /\ p \in present /\ array[p] # Absent
  /\ u \in ({Absent, Bogus} \cup machine.arrays[p]) \ {array[p]}
  /\ array' = [array EXCEPT ![p] = Absent]
  /\ Emit(<<[Snapshot("change", p) EXCEPT !.array = u, !.flag = "bogus"]>>)
  /\ UNCHANGED <<present, label, ready>>

\* The NQN of a controller or a namespace can be read at last.
Identified(p) ==
  /\ p \in present \ ready
  /\ ready' = ready \cup {p}
  /\ Emit(<<Snapshot("change", p)>>)
  /\ UNCHANGED <<present, label, array>>

World ==
  \/ \E p \in Devices : Plug(p) \/ Unplug(p) \/ Identified(p)
  \/ \E p \in Devices, lab \in Labels : Relabel(p, lab) \/ MediaChange(p, lab)
  \/ \E p \in Devices, u \in Uuids : Assemble(p, u)
  \/ \E p \in Devices, u \in OrAbsent(Uuids) \cup {Bogus} : StopArray(p, u)

-----------------------------------------------------------------------------
(* The threads *)

\* uevent_monitor_thread_func
Listen ==
  /\ ~listening /\ listening' = TRUE
  /\ UNCHANGED <<world, bus, posted, start, tables, keeping, slipped>>

\* uevent_is_spurious
Spurious(e) == e.flag = "media"

\* A mutant: known or not, a change of media is ignored.
OnUeventNoMedia ==
  /\ bus # <<>> /\ bus' = Tail(bus)
  /\ LET e == Head(bus)
         known_block == tables.block[e.path] # Absent
     IN /\ posted' = IF Spurious(e) THEN posted ELSE Append(posted, e)
        /\ slipped' = IF ~known_block /\ e.flag = "media" THEN slipped \cup {e.path} ELSE slipped
  /\ UNCHANGED <<world, listening, start, tables, keeping>>

\* on_uevent and probe_request_thread_func.  Whether the device is known is read when
\* the uevent arrives; what the probing thread does with it then, in the same order,
\* depends on nothing else.
OnUevent ==
  /\ bus # <<>> /\ bus' = Tail(bus)
  /\ LET e == Head(bus)
         known_block == tables.block[e.path] # Absent
     IN /\ posted' = IF ~known_block /\ Spurious(e) THEN posted ELSE Append(posted, e)
        /\ slipped' = IF ~known_block /\ e.flag = "media" THEN slipped \cup {e.path} ELSE slipped
  /\ UNCHANGED <<world, listening, start, tables, keeping>>

\* What becomes of the housekeeping when drives come and go: a run scheduled
\* for, or holding, a drive that is gone works on an object nobody sees.
Drives(T) == {v \in Vpds : T.drive[v] # Absent}
TablesBecome(T) ==
  /\ tables' = T
  /\ initial' = (initial \cap Drives(T)) \cup IF pc = "running" THEN Drives(T) \ Drives(tables) ELSE {}
  /\ due' = due \cap Drives(T)
  /\ refreshed' = refreshed \cap Drives(T)

\* What goes past the handlers:
Overlooked(e) ==
  LET p == e.path
      member == tables.memberPath[p]
      kept == e.act # "remove" /\ e.flag # "disabled"
  IN {q \in Devices :
       \* the NQN cannot be read when the device is added;
       \/ q = p /\ e.act = "add" /\ machine.nqn[p] # Absent /\ p \in present \ ready
       \* a mapping is updated when it is gone, and with it the way to what is below;
       \/ q = On(p) /\ kept /\ Kind(p) = "dm" /\ p \notin present
       \* a superblock replaces another, or leaves a device that runs an array;
       \/ q = p /\ kept /\ member \notin {Absent, e.label} /\ (e.label \in Uuids \/ e.array \in Uuids)
       \* an array goes, without a UUID, that is a member of another;
       \/ q = p /\ kept /\ tables.arrayPath[p] # Absent /\ e.array = Absent /\ e.label \in Uuids
       \* a UUID that is not the array's is the first one seen.
       \/ q = p /\ e.flag = "bogus" /\ e.array \in Uuids /\ tables.arrayPath[p] = Absent}

\* A uevent under the lock, or a block object brought up to date without one.
Handle(e) ==
  /\ TablesBecome(IF e.act = "refresh" THEN ForBlock(tables, e) ELSE HandleUevent(tables, e))
  /\ slipped' = slipped \cup Overlooked(e)
  /\ UNCHANGED <<housekeeping, timeouts>>

\* on_idle_with_probed_uevent
Apply ==
  /\ pc = "running" /\ todo = <<>> /\ posted # <<>> /\ posted' = Tail(posted)
  /\ Handle(Head(posted))
  /\ UNCHANGED <<world, listening, bus, start>>

\* udisks_linux_provider_start: what is enumerated is coldplugged twice ...
StartEnumerate ==
  /\ pc = "new" /\ pc' = "coldplug"
  /\ \E s \in Enumerations : todo' = s \o s
  /\ UNCHANGED <<world, queues, tables, keeping, slipped>>

\* A mutant: no run until the timer fires.
StartWithoutRun ==
  /\ pc = "coldplug" /\ todo = <<>> /\ pc' = "running"
  /\ UNCHANGED <<world, queues, todo, tables, keeping, slipped>>

\* ... then comes the first housekeeping.
StartComplete ==
  /\ pc = "coldplug" /\ todo = <<>> /\ pc' = "running"
  /\ housekeeping' = "started"
  /\ UNCHANGED <<world, queues, todo, tables, due, initial, refreshed, timeouts, slipped>>

\* ensure_modules: coldplug on the main thread, past the queue.
EnsureModules ==
  /\ pc = "running" /\ todo = <<>> /\ ~tables.loaded
  /\ timeouts < MaxTimeouts /\ timeouts' = timeouts + 1
  /\ tables' = [tables EXCEPT !.loaded = TRUE]
  /\ todo' \in Enumerations
  /\ UNCHANGED <<world, queues, pc, housekeeping, due, initial, refreshed, slipped>>

\* update_block_objects: fstab, crypttab or utab changed, the devices did not.
UpdateBlockObjects ==
  /\ pc = "running" /\ todo = <<>> /\ timeouts < MaxTimeouts /\ timeouts' = timeouts + 1
  /\ \E s \in Listings({p \in Devices : tables.block[p] # Absent}) :
       todo' = [i \in DOMAIN s |-> [Snapshot("refresh", s[i]) EXCEPT !.label = tables.block[s[i]].label]]
  /\ UNCHANGED <<world, queues, pc, tables, housekeeping, due, initial, refreshed, slipped>>

\* do_coldplug and the loop of update_block_objects, device by device.
TodoStep ==
  /\ todo # <<>> /\ todo' = Tail(todo)
  /\ Handle(Head(todo))
  /\ UNCHANGED <<world, queues, pc>>

-----------------------------------------------------------------------------
(* Housekeeping *)

\* on_housekeeping_timeout
Timeout ==
  /\ pc = "running" /\ timeouts < MaxTimeouts /\ timeouts' = timeouts + 1
  /\ housekeeping = "idle" /\ housekeeping' = "started"
  /\ UNCHANGED <<world, queues, start, tables, due, initial, refreshed, slipped>>

\* housekeeping_all_drives takes its references under the lock ...
HoldDrives ==
  /\ housekeeping = "started" /\ housekeeping' = "drives"
  /\ due' = Drives(tables)
  /\ UNCHANGED <<world, queues, start, tables, initial, refreshed, timeouts, slipped>>

\* ... and refreshes each without it.
Housekeep(v) ==
  /\ v \in due /\ due' = due \ {v} /\ refreshed' = refreshed \cup {v}
  /\ UNCHANGED <<world, queues, start, tables, housekeeping, initial, timeouts, slipped>>

\* housekeeping_thread_func
HousekeepingDone ==
  /\ housekeeping = "drives" /\ due = {} /\ housekeeping' = "idle"
  /\ UNCHANGED <<world, queues, start, tables, due, initial, refreshed, timeouts, slipped>>

\* perform_initial_housekeeping_for_drive
InitialHousekeeping(v) ==
  /\ v \in initial /\ initial' = initial \ {v} /\ refreshed' = refreshed \cup {v}
  /\ UNCHANGED <<world, queues, start, tables, housekeeping, due, timeouts, slipped>>

Threads ==
  \/ Listen \/ OnUevent \/ Apply \/ StartEnumerate \/ StartComplete \/ TodoStep
  \/ HoldDrives \/ HousekeepingDone
  \/ \E v \in Vpds : Housekeep(v) \/ InitialHousekeeping(v)

Next == World \/ Threads \/ EnsureModules \/ UpdateBlockObjects \/ Timeout

Spec == Init /\ [][Next]_vars

-----------------------------------------------------------------------------
(* What is promised *)

\* Nothing is under way.
Settled == pc = "running" /\ todo = <<>> /\ listening /\ bus = <<>> /\ posted = <<>>

\* The tables by path hold no reference (udisks_linux_provider_start gives them no
\* g_object_unref): an entry never outlives its object, and the object knows the device.
\* The exception is an array that udev reports of two devices in turn, as when it is stopped
\* and run again as another: a listing overtakes the uevents of both, both paths lead to the
\* one object, and it goes with the first of them.
Alone(p) ==
  \A q \in Paths \ {p} :
    Kind(p) = "md" /\ Kind(q) = "md" => machine.arrays[p] \cap machine.arrays[q] = {}
MemberEntriesLive ==
  \A p \in Devices : tables.memberPath[p] # Absent =>
    tables.memberPath[p] \in Uuids /\ p \in tables.mdraid[tables.memberPath[p]].members
ArrayEntriesLive ==
  \A p \in Devices : Alone(p) /\ tables.arrayPath[p] # Absent =>
    tables.arrayPath[p] \in Uuids /\ tables.mdraid[tables.arrayPath[p]] # Absent
DriveEntriesLive ==
  \A p \in Devices : tables.drivePath[p] # Absent =>
    tables.drivePath[p] \in Vpds /\ p \in tables.drive[tables.drivePath[p]]
EntriesLive == MemberEntriesLive /\ ArrayEntriesLive /\ DriveEntriesLive

\* Once the uevents are applied, whatever coldplug overtook them, there is a block
\* object for each device, with the interfaces its content and partitions call for.
BlocksFollow ==
  Settled => \A p \in Devices \ slipped :
    /\ (tables.block[p] # Absent) = (p \in present /\ IsBlock(p))
    /\ tables.block[p] # Absent =>
         /\ tables.block[p].label = label[p]
         /\ tables.block[p].table = Partitioned(p)
         /\ tables.block[p].fs = (label[p] = "fs" /\ ~Partitioned(p))
    /\ tables.loaded => (p \in tables.claimed) = (tables.block[p] # Absent)

\* Once the uevents are applied, a drive has just the paths that lead to it, and
\* is exported as long as there is one.
DrivesFollow ==
  Settled => \A v \in Vpds :
    LET paths == {p \in present : ShouldInclude(p) /\ machine.vpd[p] = v} IN
    IF tables.drive[v] = Absent THEN paths \subseteq slipped
    ELSE tables.drive[v] # {} /\ tables.drive[v] \ slipped = paths \ slipped

\* Once the uevents are applied, an array has just the members that carry its UUID
\* and the device that runs it, the attributes of which are watched, and is
\* exported as long as it has either.  Of devices that share an array, as above, only
\* their membership in others is promised.
ArraysFollow ==
  Settled => \A u \in Uuids :
    LET members == {p \in present : label[p] = u}
        running == {p \in present : array[p] = u}
        sharing == {p \in Paths : ~Alone(p)}
        excused == slipped \cup sharing
        a == tables.mdraid[u]
    IN IF a = Absent THEN (members \ slipped) \cup (running \ excused) = {}
       ELSE /\ HasDevices(a)
            /\ a.members \ slipped = members \ slipped
            /\ ({a.raid} \ {Absent}) \ excused = running \ excused
            /\ a.raid \in running \ excused => a.watched
            /\ a.watched => a.raid # Absent

\* Once the uevents are applied, Encrypted.CleartextDevice names the mapping on the
\* device, and nothing once that is closed (block_pre_remove).
CleartextFollows ==
  Settled => \A p \in Devices \ slipped :
    IsEncrypted(tables, p) =>
      LET open == Mapped(p, present) IN
      IF open = {} THEN tables.block[p].cleartext = Absent ELSE tables.block[p].cleartext \in open

\* Once the uevents are applied, a subsystem has just its controllers and
\* namespaces, so that a broadcast reaches them and nothing else.
SubsystemsFollow ==
  Settled => \A n \in Nqns :
    tables.subsys[n] \ slipped = {p \in present : machine.nqn[p] = n} \ slipped

\* A drive gets a housekeeping run, whether it was there at start-up (the first run
\* of all drives) or came later (perform_initial_housekeeping_for_drive): until it has
\* had one, one is to come.
EveryDriveHasItsRun ==
  \A v \in Drives(tables) :
    v \in refreshed \cup initial \cup due \/ housekeeping = "started" \/ pc = "coldplug"
=============================================================================
