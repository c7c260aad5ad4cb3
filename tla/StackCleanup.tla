---------------------------- MODULE StackCleanup ----------------------------
(***************************************************************************)
(* Devices that udisksd sets up on top of others - unlocked crypto         *)
(* devices, loop devices and MD RAID arrays -, the three state files that  *)
(* list them, and the two stages in which the clean-up thread tears down   *)
(* what lost its foundation ("fake block devices can't be stopped if they  *)
(* are in use").                                                           *)
(*                                                                         *)
(* Mounting is MountState's subject and appears here only as far as it     *)
(* keeps a device busy: a file system is on a device or not, and has an    *)
(* entry in mounted-fs or not.                                             *)
(***************************************************************************)
EXTENDS Naturals, FiniteSets

CONSTANTS
    Base,       \* what can be set up: crypto devices, files, arrays
    Dev,        \* what is set up: dm, loop and md devices, by number
    Kind,       \* Kind[x]: what sort of thing a member of Base or Dev is
    Thread,     \* D-Bus method handler threads
    Cleaner,    \* the clean-up thread
    Nobody,     \* the owner of a free lock
    None,       \* what is behind a device that is not set up
    Moved,      \* what the kernel shows behind a loop device whose file was
                \* renamed, or whose file system was unmounted, underneath it
    NoEntry,    \* no entry is being cleaned up
    Budgets     \* bounds on what the world does, see the actions that Spend:
                \* a behaviour begins with one of them

StackKind  == {"crypto", "loop", "mdraid"}
(* Crypto devices pulled and plugged, root's hand in it, method calls,     *)
(* restarts of the daemon, failing steps of the clean-up thread.           *)
BudgetKind == {"hotplug", "external", "calls", "crash", "fault"}

ASSUME ConstantsAssumption ==
    /\ Base \cap Dev = {} /\ None \notin Base /\ Moved \notin Base /\ None # Moved
    /\ Kind \in [Base \cup Dev -> StackKind]
    /\ Cleaner \notin Thread /\ Nobody \notin Thread /\ Cleaner # Nobody
    /\ Budgets \subseteq [BudgetKind -> Nat]

(* An entry of unlocked-crypto-dev (cleartext device and crypto-device,    *)
(* whose dm-uuid identifies it), loop (device file and backing-file) or    *)
(* mdraid (the array's device alone: there, of is history).                *)
Entry == [dev : Dev, of : Base]
ASSUME NoEntryAssumption == NoEntry \notin Entry

VARIABLES
    \* --- the kernel and udev
    present,    \* the crypto devices that are plugged in
    back,       \* back[d]: what d is set up on
    mounted,    \* devices with a file system mounted
    autoclear,  \* loop devices that go away when they are no longer in use
    uevents,    \* members of Base and Dev with uevents not handled yet
    budget,     \* what is left of one of Budgets
    \* --- the daemon's view of the world
    known,      \* crypto devices with an object on the bus
    view,       \* view[d]: what the object of d says it is set up on
    gen,        \* gen[x]: how often the object of x has been replaced
    \* --- UDisksState
    files,      \* files[k]: entries of the file for devices of kind k
    fs,         \* devices with an entry in mounted-fs
    lockOwner,  \* who holds state->lock
    checkQueued,\* an idle source of the clean-up context is pending
    doomed,     \* devs_to_clean
    scan,       \* where the pass is
    \* --- handlers
    pc, op,     \* pc[t], op[t]: what thread t does next, and on whose behalf
    arg,        \* arg[t]: the member of Base or Dev it was called for
    lock,       \* lock[t]: gen[arg[t]] when it took the object
    dev,        \* dev[t]: the device it set up or found
    \* --- history, read by no action
    ours,       \* devices whose present set-up is a handler's, not lost track of
    disturbed   \* devices torn down by others before a handler recorded them,
                \* or taken for another one by it

kernel   == <<present, back, mounted, autoclear, uevents>>
viewVar  == <<known, view, gen>>
stateVar == <<files, fs, lockOwner, checkQueued, doomed, scan>>
handler  == <<pc, op, arg, lock, dev>>
history  == <<ours, disturbed>>
vars     == <<kernel, budget, viewVar, stateVar, handler, history>>
-----------------------------------------------------------------------------
Op == {"unlock", "lock", "setup", "delete", "start", "stop", "mount"}
PC == {"idle", "cleanupLock", "stateLock", "check", "open", "appear", "record", "trigger",
       "find", "close", "mounting", "release", "return"}

(* Handlers that take the clean-up lock of a block object and ask for a    *)
(* check at the end; LoopSetup, Start and Stop do neither.                 *)
Locking == {"unlock", "lock", "delete", "mount"}
SettingUp == {"unlock", "setup", "start"}

HoldsCleanup(t) == op[t] \in Locking /\ pc[t] \notin {"idle", "cleanupLock", "return"}
CleanupBusy(x)  == \E t \in Thread : HoldsCleanup(t) /\ arg[t] = x /\ lock[t] = gen[x]

(* A handler has set up dev[t] and has not recorded it.                    *)
Pending(t) == op[t] \in SettingUp /\ pc[t] \in {"appear", "record"}

Spend(k) == budget[k] > 0 /\ budget' = [budget EXCEPT ![k] = @ - 1]

Live(d) == Kind[d] = "crypto" => back[d] \in present

(* d is no longer set up, by whoever's hand.                               *)
TearDown(d) ==
    /\ back[d] # None
    /\ back' = [back EXCEPT ![d] = None]
    /\ uevents' = uevents \cup {d}
    /\ autoclear' = autoclear \ {d}
    /\ ours' = ours \ {d}
    /\ disturbed' = IF \E t \in Thread : Pending(t) /\ dev[t] = d
                    THEN disturbed \cup {d} ELSE disturbed

(* The file system on d goes away, and with it a loop device that was only *)
(* kept by it.                                                             *)
Detach(d) ==
    /\ mounted' = mounted \ {d}
    /\ IF d \in autoclear /\ d \in mounted
       THEN TearDown(d)
       ELSE UNCHANGED <<back, uevents, autoclear, history>>
-----------------------------------------------------------------------------
(* The clean-up thread, udisks_state_check_in_thread.                      *)

NoScan == [phase |-> "none", kind |-> "crypto", todo |-> {}, kept |-> {},
           changed |-> FALSE, cur |-> NoEntry, fs |-> {}]
Open(p, k) == [NoScan EXCEPT !.phase = p, !.kind = k, !.todo = files[k]]

(* Both stages walk the files in this order.                               *)
After == [crypto |-> "loop", loop |-> "mdraid", mdraid |-> "none"]

(* udisks_state_check_..._entry: the device is still set up, the way the   *)
(* entry says if it says so, and a crypto device is still there.           *)
CryptoValid(e) == back[e.dev] = e.of /\ Live(e.dev)
LoopValid(e)   == back[e.dev] = e.of
ArrayValid(e)  == back[e.dev] # None

Valid(e) == \/ Kind[e.dev] = "crypto" /\ CryptoValid(e)
            \/ Kind[e.dev] = "loop" /\ LoopValid(e)
            \/ Kind[e.dev] = "mdraid" /\ ArrayValid(e)

(* What an entry that is not valid may add to devs_to_clean: the number of *)
(* a cleartext device, always; of a loop or md device if its node is       *)
(* there, which it may be with nothing behind it.                          *)
DevsToClean(e) ==
    IF Kind[e.dev] = "crypto" \/ back[e.dev] # None THEN {{e.dev}} ELSE {{}, {e.dev}}

StartPass ==
    /\ checkQueued /\ lockOwner = Nobody
    /\ checkQueued' = FALSE /\ lockOwner' = Cleaner /\ doomed' = {}
    /\ scan' = Open("decide", "crypto")
    /\ UNCHANGED <<kernel, budget, viewVar, files, fs, handler, history>>

(* The first stage, check_only: what is not valid is doomed.               *)
DecideNothing ==      \* mutant: the mounted-fs stage is not told
    /\ scan.phase = "decide"
    /\ \E e \in scan.todo : scan' = [scan EXCEPT !.todo = @ \ {e}]
    /\ UNCHANGED <<kernel, budget, viewVar, files, fs, lockOwner, checkQueued,
                   doomed, handler, history>>

Decide ==
    /\ scan.phase = "decide"
    /\ \E e \in scan.todo :
          /\ \E s \in IF Valid(e) THEN {{}} ELSE DevsToClean(e) : doomed' = doomed \cup s
          /\ scan' = [scan EXCEPT !.todo = @ \ {e}]
    /\ UNCHANGED <<kernel, budget, viewVar, files, fs, lockOwner, checkQueued,
                   handler, history>>

Decided ==
    /\ scan.phase = "decide" /\ scan.todo = {}
    /\ scan' = IF scan.kind = "mdraid" THEN [NoScan EXCEPT !.phase = "fs", !.fs = fs]
               ELSE Open("decide", After[scan.kind])
    /\ UNCHANGED <<kernel, budget, viewVar, files, fs, lockOwner, checkQueued,
                   doomed, handler, history>>

(* The mounted-fs stage, one entry at a time; MountState has the details.  *)
(* An entry is kept while a handler works on the device, while its file    *)
(* system is mounted and the device to stay, and when umount -l fails.     *)
FsLive(d) == d \in mounted /\ back[d] # None /\ d \notin doomed

KeepFs ==
    /\ scan.phase = "fs"
    /\ \E d \in scan.fs :
          /\ \/ CleanupBusy(d) /\ UNCHANGED budget
             \/ FsLive(d) /\ UNCHANGED budget
             \/ Spend("fault")
          /\ scan' = [scan EXCEPT !.fs = @ \ {d}]
    /\ UNCHANGED <<kernel, viewVar, files, fs, lockOwner, checkQueued, doomed,
                   handler, history>>

CleanFs ==
    /\ scan.phase = "fs"
    /\ \E d \in scan.fs :
          /\ ~CleanupBusy(d) /\ ~FsLive(d)
          /\ Detach(d)
          /\ fs' = fs \ {d}
          /\ scan' = [scan EXCEPT !.fs = @ \ {d}]
    /\ UNCHANGED <<present, budget, viewVar, files, lockOwner, checkQueued, doomed,
                   handler>>

FsDone ==
    /\ scan.phase = "fs" /\ scan.fs = {}
    /\ scan' = Open("clean", "crypto")
    /\ doomed' = {}
    /\ UNCHANGED <<kernel, budget, viewVar, files, fs, lockOwner, checkQueued,
                   handler, history>>

(* The second stage: the devices are torn down "for real this time".       *)
Examine(e) == scan.phase = "clean" /\ scan.cur = NoEntry /\ e \in scan.todo
KeepAfterReset(e) ==   \* mutant: cur is cleared before it is put back
    scan' = [scan EXCEPT !.todo = @ \ {e}, !.kept = @ \cup {NoEntry}, !.cur = NoEntry]
Keep(e) == scan' = [scan EXCEPT !.todo = @ \ {e}, !.kept = @ \cup {e}, !.cur = NoEntry]
Drop(e) == scan' = [scan EXCEPT !.todo = @ \ {e}, !.changed = TRUE, !.cur = NoEntry]

NothingToClose(e) == FALSE    \* mutant: forgotten without being closed

(* An unlocked crypto device that is gone has to be closed; all the others *)
(* are merely no longer watched.                                           *)
ToClose(e) == Kind[e.dev] = "crypto" /\ back[e.dev] = e.of

CheckEntry ==
    /\ \E e \in scan.todo :
          /\ Examine(e)
          /\ IF Valid(e) THEN Keep(e)
             ELSE IF ToClose(e) THEN scan' = [scan EXCEPT !.todo = @ \ {e}, !.cur = e]
             ELSE Drop(e)
    /\ UNCHANGED <<kernel, budget, viewVar, files, fs, lockOwner, checkQueued,
                   doomed, handler, history>>

(* luks_close names the device, whatever is open there by now; it fails on *)
(* one that is in use or not open any more, and may fail on any.           *)
CloseStale ==
    /\ scan.cur # NoEntry
    /\ scan.cur.dev \notin mounted
    /\ TearDown(scan.cur.dev)
    /\ Drop(scan.cur)
    /\ UNCHANGED <<present, mounted, budget, viewVar, files, fs, lockOwner,
                   checkQueued, doomed, handler>>

CloseStaleFails ==
    /\ scan.cur # NoEntry
    /\ \/ (scan.cur.dev \in mounted \/ back[scan.cur.dev] = None) /\ UNCHANGED budget
       \/ Spend("fault")
    /\ Keep(scan.cur)
    /\ UNCHANGED <<kernel, viewVar, files, fs, lockOwner, checkQueued, doomed,
                   handler, history>>

SaveFile ==
    /\ scan.phase = "clean" /\ scan.todo = {} /\ scan.cur = NoEntry
    /\ files' = IF scan.changed THEN [files EXCEPT ![scan.kind] = scan.kept] ELSE files
    /\ IF scan.kind = "mdraid"
       THEN scan' = NoScan /\ lockOwner' = Nobody
       ELSE scan' = Open("clean", After[scan.kind]) /\ UNCHANGED lockOwner
    /\ UNCHANGED <<kernel, budget, viewVar, fs, checkQueued, doomed, handler, history>>

Pass == \/ Decide \/ Decided \/ KeepFs \/ CleanFs \/ FsDone
        \/ CheckEntry \/ CloseStale \/ CloseStaleFails \/ SaveFile
-----------------------------------------------------------------------------
(* The method handlers.                                                    *)

Goto(t, l) == pc' = [pc EXCEPT ![t] = l]

(* Every way out of a handler.                                             *)
Leave(t) == Goto(t, IF op[t] \in Locking THEN "release" ELSE "return")

(* Unlock, Lock, Start and Stop are methods of the foundation's object,    *)
(* Delete and Mount of the device's, LoopSetup takes a file descriptor.    *)
Callable(o) ==
    {b \in Base : \/ o \in {"unlock", "lock"} /\ Kind[b] = "crypto" /\ b \in known
                  \/ o = "setup" /\ Kind[b] = "loop"
                  \/ o \in {"start", "stop"} /\ Kind[b] = "mdraid"}
    \cup
    {d \in Dev : /\ view[d] # None
                 /\ \/ o = "delete" /\ Kind[d] = "loop"
                    \/ o = "mount"}

(* Start sees whether the array runs, Stop what it runs as, at once.       *)
FirstStep(o) ==
    IF o \in Locking THEN "cleanupLock"
    ELSE IF o = "stop" THEN "find" ELSE IF o = "start" THEN "check" ELSE "open"

Call(t) ==
    /\ pc[t] = "idle" /\ Spend("calls")
    /\ \E o \in Op : \E x \in Callable(o) :
          /\ op' = [op EXCEPT ![t] = o]
          /\ arg' = [arg EXCEPT ![t] = x]
          /\ lock' = [lock EXCEPT ![t] = gen[x]]
          /\ Goto(t, FirstStep(o))
    /\ UNCHANGED <<kernel, viewVar, stateVar, dev, history>>

LockForCleanup(t) ==
    /\ pc[t] = "cleanupLock"
    /\ \A u \in Thread : ~(HoldsCleanup(u) /\ arg[u] = arg[t] /\ lock[u] = lock[t])
    /\ Goto(t, "stateLock")
    /\ UNCHANGED <<kernel, budget, viewVar, stateVar, op, arg, lock, dev, history>>

(* udisks_state_check_block, in which a stale entry of the device itself   *)
(* goes (a live one of it stays).                                          *)
CheckBlock(t) ==
    /\ pc[t] = "stateLock" /\ lockOwner = Nobody
    /\ fs' = {d \in fs : d = arg[t] => d \in mounted /\ back[d] # None}
    /\ Goto(t, IF op[t] = "unlock" THEN "check"
               ELSE IF op[t] = "mount" THEN "mounting" ELSE "find")
    /\ UNCHANGED <<kernel, budget, viewVar, files, lockOwner, checkQueued, doomed,
                   scan, op, arg, lock, dev, history>>

(* Not authorized, no passphrase, already unlocked, libblockdev fails, ... *)
Refuse(t) ==
    /\ pc[t] \in {"check", "open", "find", "close", "mounting"}
    /\ Leave(t)
    /\ UNCHANGED <<kernel, budget, viewVar, stateVar, op, arg, lock, dev, history>>

(* Not already unlocked, not already running, by the objects there are.    *)
NotUp(b) == \A d \in Dev : view[d] # b

Check(t) ==
    /\ pc[t] = "check" /\ NotUp(arg[t])
    /\ Goto(t, "open")
    /\ UNCHANGED <<kernel, budget, viewVar, stateVar, op, arg, lock, dev, history>>

(* The kernel has the last word: it lets a crypto device be opened and an  *)
(* array be started once.  A file may be behind several loop devices.      *)
Free(b) == Kind[b] # "loop" => \A d \in Dev : back[d] # b

SetUp(d, b) ==
    /\ back[d] = None /\ Kind[d] = Kind[b] /\ Free(b)
    /\ Kind[b] = "crypto" => b \in present
    /\ back' = [back EXCEPT ![d] = b]
    /\ uevents' = uevents \cup {d}

(* LoopSetup is told the device it gets; Unlock and Start wait to see it.  *)
AfterOpen(o) == IF o = "setup" THEN "record" ELSE "appear"

OpenDevice(t) ==
    /\ pc[t] = "open"
    /\ \E d \in Dev : /\ SetUp(d, arg[t])
                      /\ dev' = [dev EXCEPT ![t] = d]
                      /\ ours' = ours \cup {d}
    /\ Goto(t, AfterOpen(op[t]))
    /\ UNCHANGED <<present, mounted, autoclear, budget, viewVar, stateVar, op, arg,
                   lock, disturbed>>

(* udisks_daemon_wait_for_object_sync: an object of a device set up on the *)
(* foundation is there, or UDISKS_DEFAULT_WAIT_TIMEOUT passes and nobody   *)
(* records the device.                                                     *)
Appears(t) ==
    /\ pc[t] = "appear"
    /\ \E d \in Dev :
          /\ view[d] = arg[t]
          /\ dev' = [dev EXCEPT ![t] = d]
          /\ disturbed' = IF d = dev[t] THEN disturbed ELSE disturbed \cup {d, dev[t]}
    /\ Goto(t, "record")
    /\ UNCHANGED <<kernel, budget, viewVar, stateVar, op, arg, lock, ours>>

DoesNotAppear(t) ==
    /\ pc[t] = "appear"
    /\ ours' = ours \ {dev[t]}
    /\ Leave(t)
    /\ UNCHANGED <<kernel, budget, viewVar, stateVar, op, arg, lock, dev, disturbed>>

(* udisks_state_add_unlocked_crypto_dev, _add_loop, _add_mdraid and, for a *)
(* mount, _add_mounted_fs.                                                 *)
AddEntryOnly(s, e) == s \cup {e}      \* mutant: the stale entry stays
AddEntry(s, e) == {x \in s : x.dev # e.dev} \cup {e}

AfterRecord(o) == IF o = "setup" THEN "trigger"
                  ELSE IF o = "start" THEN "return" ELSE "release"

RecordUnlocked(t) ==      \* mutant: without state->lock
    /\ pc[t] = "record"
    /\ IF op[t] = "mount"
       THEN fs' = fs \cup {arg[t]} /\ UNCHANGED files
       ELSE /\ files' = [files EXCEPT ![Kind[dev[t]]] =
                           AddEntry(@, [dev |-> dev[t], of |-> arg[t]])]
            /\ UNCHANGED fs
    /\ Goto(t, AfterRecord(op[t]))
    /\ UNCHANGED <<kernel, budget, viewVar, lockOwner, checkQueued, doomed, scan,
                   op, arg, lock, dev, history>>

Record(t) ==
    /\ pc[t] = "record" /\ lockOwner = Nobody
    /\ IF op[t] = "mount"
       THEN fs' = fs \cup {arg[t]} /\ UNCHANGED files
       ELSE /\ files' = [files EXCEPT ![Kind[dev[t]]] =
                           AddEntry(@, [dev |-> dev[t], of |-> arg[t]])]
            /\ UNCHANGED fs
    /\ Goto(t, AfterRecord(op[t]))
    /\ UNCHANGED <<kernel, budget, viewVar, lockOwner, checkQueued, doomed, scan,
                   op, arg, lock, dev, history>>

TriggerNothing(t) ==      \* mutant: no uevent
    /\ pc[t] = "trigger"
    /\ Goto(t, "return")
    /\ UNCHANGED <<kernel, budget, viewVar, stateVar, op, arg, lock, dev, history>>

(* LoopSetup sends a change uevent and waits for it, or for a time-out.    *)
Trigger(t) ==
    /\ pc[t] = "trigger"
    /\ uevents' = uevents \cup {dev[t]}
    /\ Goto(t, "return")
    /\ UNCHANGED <<present, back, mounted, autoclear, budget, viewVar, stateVar,
                   op, arg, lock, dev, history>>

(* The device to take down: of Lock and Stop by its object, of Delete its  *)
(* own; then the state file is asked who set it up.                        *)
Target(t) == {d \in Dev : IF op[t] = "delete" THEN d = arg[t] ELSE view[d] = arg[t]}

Find(t) ==
    /\ pc[t] = "find" /\ lockOwner = Nobody
    /\ \E d \in Target(t) : dev' = [dev EXCEPT ![t] = d]
    /\ Goto(t, "close")
    /\ UNCHANGED <<kernel, budget, viewVar, stateVar, op, arg, lock, history>>

(* Lock goes by the dm name, which is the crypto device's.  Whether it     *)
(* sees the cleartext object disappear makes no difference to anything but *)
(* its reply.                                                              *)
Close(t) ==
    /\ pc[t] = "close"
    /\ \E d \in Dev : /\ IF op[t] = "lock" THEN back[d] = arg[t] ELSE d = dev[t]
                      /\ d \notin mounted
                      /\ TearDown(d)
    /\ Leave(t)
    /\ UNCHANGED <<present, mounted, budget, viewVar, stateVar, op, arg, lock, dev>>

(* A loop device in use is taken down when it no longer is.                *)
CloseLater(t) ==
    /\ pc[t] = "close" /\ op[t] = "delete" /\ dev[t] \in mounted
    /\ autoclear' = autoclear \cup {dev[t]}
    /\ Leave(t)
    /\ UNCHANGED <<present, back, mounted, uevents, budget, viewVar, stateVar,
                   op, arg, lock, dev, history>>

Mount(t) ==
    /\ pc[t] = "mounting"
    /\ arg[t] \notin mounted /\ back[arg[t]] # None /\ Live(arg[t])
    /\ mounted' = mounted \cup {arg[t]}
    /\ dev' = [dev EXCEPT ![t] = arg[t]]
    /\ Goto(t, "record")
    /\ UNCHANGED <<present, back, autoclear, uevents, budget, viewVar, stateVar,
                   op, arg, lock, history>>

Release(t) ==
    /\ pc[t] = "release"
    /\ Goto(t, "return")
    /\ UNCHANGED <<kernel, budget, viewVar, stateVar, op, arg, lock, dev, history>>

(* udisks_state_check, where the handler took the clean-up lock.           *)
Return(t) ==
    /\ pc[t] = "return"
    /\ checkQueued' = (checkQueued \/ op[t] \in Locking)
    /\ Goto(t, "idle")
    /\ op' = [op EXCEPT ![t] = "unlock"] /\ arg' = [arg EXCEPT ![t] = None]
    /\ lock' = [lock EXCEPT ![t] = 0] /\ dev' = [dev EXCEPT ![t] = None]
    /\ UNCHANGED <<kernel, budget, viewVar, files, fs, lockOwner, doomed, scan, history>>

Handler(t) ==
    \/ LockForCleanup(t) \/ CheckBlock(t) \/ Refuse(t)
    \/ Check(t) \/ OpenDevice(t) \/ Appears(t) \/ DoesNotAppear(t) \/ Record(t) \/ Trigger(t)
    \/ Find(t) \/ Close(t) \/ CloseLater(t) \/ Mount(t)
    \/ Release(t) \/ Return(t)
-----------------------------------------------------------------------------
(* The provider.  Uevents of one device that wait together are one here:   *)
(* sysfs is read when they are handled.  A crypto device that comes is     *)
(* "add" alone; whatever happens to a dm, loop or md device ends in a      *)
(* "change" or a "remove", and any of these asks for a check.              *)
Replaced(x) ==
    IF x \in Dev THEN Kind[x] # "loop" /\ view[x] # None /\ view[x] # back[x] ELSE x \in known

ProcessUevent(x) ==
    /\ x \in uevents
    /\ uevents' = uevents \ {x}
    /\ IF x \in Dev
       THEN view' = [view EXCEPT ![x] = back[x]] /\ UNCHANGED known
       ELSE known' = {b \in known \cup {x} : b = x => x \in present} /\ UNCHANGED view
    /\ gen' = IF Replaced(x) THEN [gen EXCEPT ![x] = @ + 1] ELSE gen
    /\ checkQueued' = (checkQueued \/ x \in Dev \cup known \/ x \notin present)
    /\ UNCHANGED <<present, back, mounted, autoclear, budget, files, fs, lockOwner,
                   doomed, scan, handler, history>>
-----------------------------------------------------------------------------
(* The world, as often as the budget allows.                               *)

(* What is set up on a crypto device outlives it, and keeps its number.    *)
Unplug(b) ==
    /\ b \in present /\ Kind[b] = "crypto" /\ Spend("hotplug")
    /\ present' = present \ {b}
    /\ uevents' = uevents \cup {b}
    /\ UNCHANGED <<back, mounted, autoclear, viewVar, stateVar, handler, history>>

Plug(b) ==
    /\ b \notin present /\ Kind[b] = "crypto" /\ Free(b) /\ Spend("hotplug")
    /\ present' = present \cup {b}
    /\ uevents' = uevents \cup {b}
    /\ UNCHANGED <<back, mounted, autoclear, viewVar, stateVar, handler, history>>

RootOpens(d, b) ==
    /\ SetUp(d, b) /\ Spend("external")
    /\ UNCHANGED <<present, mounted, autoclear, viewVar, stateVar, handler, history>>

RootCloses(d) ==
    /\ d \notin mounted /\ TearDown(d) /\ Spend("external")
    /\ UNCHANGED <<present, mounted, viewVar, stateVar, handler>>

(* The mount monitor sees it and asks for a check; a pass that starts      *)
(* after the unmount is as good as one that starts after the monitor.      *)
RootUnmounts(d) ==
    /\ d \in mounted /\ Detach(d) /\ Spend("external")
    /\ checkQueued' = TRUE
    /\ UNCHANGED <<present, viewVar, files, fs, lockOwner, doomed, scan, handler>>

(* d_path() of the backing file changes.                                   *)
MovesFile(d) ==
    /\ Kind[d] = "loop" /\ back[d] \in Base /\ Spend("external")
    /\ back' = [back EXCEPT ![d] = Moved]
    /\ UNCHANGED <<present, mounted, autoclear, uevents, viewVar, stateVar,
                   handler, history>>

(* The daemon is killed and started again: the state files are in /run,    *)
(* coldplug exports what is there, a check is queued.                      *)
Restart ==
    /\ Spend("crash")
    /\ ours' = ours \ {dev[t] : t \in {u \in Thread : Pending(u)}}
    /\ uevents' = {} /\ known' = present /\ view' = back
    /\ gen' = [x \in Base \cup Dev |-> 0]
    /\ lockOwner' = Nobody /\ checkQueued' = TRUE /\ doomed' = {} /\ scan' = NoScan
    /\ pc' = [t \in Thread |-> "idle"] /\ op' = [t \in Thread |-> "unlock"]
    /\ arg' = [t \in Thread |-> None] /\ lock' = [t \in Thread |-> 0]
    /\ dev' = [t \in Thread |-> None]
    /\ UNCHANGED <<present, back, mounted, autoclear, files, fs, disturbed>>

World == \/ \E b \in Base : Unplug(b) \/ Plug(b)
         \/ \E d \in Dev, b \in Base : RootOpens(d, b)
         \/ \E d \in Dev : RootCloses(d) \/ RootUnmounts(d) \/ MovesFile(d)
         \/ Restart
-----------------------------------------------------------------------------
Crypto == {b \in Base : Kind[b] = "crypto"}

(* The daemon has just started; some crypto devices are plugged in.        *)
Init ==
    /\ present \in SUBSET Crypto /\ back = [d \in Dev |-> None]
    /\ mounted = {} /\ autoclear = {} /\ uevents = {} /\ budget \in Budgets
    /\ known = present /\ view = back /\ gen = [x \in Base \cup Dev |-> 0]
    /\ files = [k \in StackKind |-> {}] /\ fs = {}
    /\ lockOwner = Nobody /\ checkQueued = TRUE /\ doomed = {} /\ scan = NoScan
    /\ pc = [t \in Thread |-> "idle"] /\ op = [t \in Thread |-> "unlock"]
    /\ arg = [t \in Thread |-> None] /\ lock = [t \in Thread |-> 0]
    /\ dev = [t \in Thread |-> None]
    /\ ours = {} /\ disturbed = {}

Next == \/ StartPass \/ Pass
        \/ \E t \in Thread : Call(t) \/ Handler(t)
        \/ \E x \in Base \cup Dev : ProcessUevent(x)
        \/ World

Spec == Init /\ [][Next]_vars

(* Every thread of the daemon runs; the world owes it nothing.             *)
Fairness ==
    /\ WF_vars(StartPass) /\ WF_vars(Pass)
    /\ \A t \in Thread : WF_vars(Handler(t))
    /\ \A x \in Base \cup Dev : WF_vars(ProcessUevent(x))

FairSpec == Spec /\ Fairness
-----------------------------------------------------------------------------
(* Properties                                                              *)

ScanType == [phase : {"none", "decide", "fs", "clean"}, kind : StackKind,
             todo : SUBSET Entry, kept : SUBSET Entry, changed : BOOLEAN,
             cur : Entry \cup {NoEntry}, fs : SUBSET Dev]

KernelOK ==
    /\ present \subseteq Base /\ back \in [Dev -> Base \cup {None, Moved}]
    /\ mounted \subseteq Dev /\ autoclear \subseteq Dev
    /\ uevents \subseteq Base \cup Dev
    /\ budget \in [BudgetKind -> Nat]

ViewOK ==
    /\ known \subseteq Base /\ view \in [Dev -> Base \cup {None, Moved}]
    /\ gen \in [Base \cup Dev -> Nat]

StateOK ==
    /\ files \in [StackKind -> SUBSET Entry] /\ fs \subseteq Dev
    /\ lockOwner \in {Cleaner, Nobody} /\ checkQueued \in BOOLEAN
    /\ doomed \subseteq Dev /\ scan \in ScanType

HandlerOK ==
    /\ pc \in [Thread -> PC] /\ op \in [Thread -> Op]
    /\ arg \in [Thread -> Base \cup Dev \cup {None}] /\ lock \in [Thread -> Nat]
    /\ dev \in [Thread -> Dev \cup {None}]

(* The state of the daemon and of the world around it is well formed.      *)
TypeOK == KernelOK /\ ViewOK /\ StateOK /\ HandlerOK
          /\ ours \subseteq Dev /\ disturbed \subseteq Dev

Records(e, d) == e.dev = d /\ (Kind[d] = "mdraid" \/ e.of = back[d])

(* What a handler set up can be cleaned up: it is listed in its state file *)
(* or the handler is about to list it (handle_unlock, handle_loop_setup    *)
(* and handle_start against the clean-up thread, each other and reused     *)
(* device numbers).  Excepted are devices nobody waited for long enough,   *)
(* devices torn down by others before they were listed or taken for one    *)
(* another by an object not up to date, and loop devices whose file was    *)
(* moved.                                                                  *)
SetUpRecorded ==
    \A d \in ours \ disturbed :
        \/ back[d] = Moved
        \/ \E e \in files[Kind[d]] : Records(e, d)
        \/ \E t \in Thread : Pending(t) /\ dev[t] = d

(* A device has one entry: the udisks_state_add functions remove the stale *)
(* entry of a number that is used again before they add their own.         *)
OneEntryPerDevice ==
    \A k \in StackKind : \A e1, e2 \in files[k] : e1.dev = e2.dev => e1 = e2

(* A crypto device pulled for good leaves nothing behind: its entry goes,  *)
(* and the cleartext device of that entry is closed although a file system *)
(* was mounted on it, a handler was at work on it, or it was unlocked just *)
(* when it was pulled (udisks_state_check_in_thread).                      *)
GoneCryptoForgotten ==
    \A b \in Crypto :
        <>[](b \notin present) => <>[](\A e \in files["crypto"] : e.of # b)

(* An entry whose device is torn down for good goes too: handle_unlock     *)
(* asks for a check after it has recorded the device, and LoopSetup sends  *)
(* a uevent that leads to one.  Not so Start, which does neither: an array *)
(* stopped before it is recorded stays on record until something else asks *)
(* for a check.                                                            *)
DeadEntryForgotten ==
    \A d \in Dev : Kind[d] # "mdraid" =>
        (<>[](back[d] = None) => <>[](\A e \in files[Kind[d]] : e.dev # d))

(* The clean-up thread takes the file system off d.                        *)
Unmounted(d) == lockOwner = Cleaner /\ d \in mounted /\ d \in fs \ fs'

(* "if the UUID doesn't match, then the dm device might have been          *)
(* reused...": such a device is not cleaned up, only the entry goes        *)
(* (udisks_state_check_unlocked_crypto_dev_entry).                         *)
ReusedDeviceLeftAlone ==
    [][ \A d \in Dev : Kind[d] = "crypto" /\ Unmounted(d) => back[d] \notin present ]_vars
=============================================================================
