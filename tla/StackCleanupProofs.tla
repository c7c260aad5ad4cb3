------------------------- MODULE StackCleanupProofs -------------------------
(***************************************************************************)
(* What holds of StackCleanup for every set of devices, foundations and    *)
(* threads and for every budget, checked by TLAPS.                         *)
(***************************************************************************)
EXTENDS StackCleanup, TLAPS

(* A device stops being ours when it is torn down.                         *)
OursAreSetUp == \A d \in ours : back[d] # None

(* The clean-up thread holds state->lock exactly while a pass is under     *)
(* way, and what it works on are entries of the file it has open.          *)
ScanOK ==
    /\ lockOwner = Nobody <=> scan.phase = "none"
    /\ scan.cur # NoEntry => scan.phase = "clean"
    /\ scan.phase = "clean" =>
          /\ scan.todo \subseteq files[scan.kind]
          /\ scan.kept \subseteq files[scan.kind]
          /\ scan.cur # NoEntry => scan.cur \in files[scan.kind]

(* What a handler works on, by its operation and how far it is.            *)
OnBase == {"unlock", "lock", "setup", "start", "stop"}
ShapeOf(t) ==
    /\ pc[t] # "idle" => arg[t] \in IF op[t] \in OnBase THEN Base ELSE Dev
    /\ pc[t] \in {"cleanupLock", "stateLock"} => op[t] \in Locking
    /\ pc[t] = "check" => op[t] \in {"unlock", "start"}
    /\ pc[t] = "open" => op[t] \in SettingUp
    /\ pc[t] = "appear" => op[t] \in {"unlock", "start"}
    /\ pc[t] = "record" => op[t] \in SettingUp \cup {"mount"}
    /\ pc[t] = "mounting" => op[t] = "mount"
    /\ pc[t] = "find" => op[t] \in {"lock", "delete", "stop"}
    /\ pc[t] \in {"appear", "record", "trigger", "close"} => dev[t] \in Dev

HandlerShape == \A t \in Thread : ShapeOf(t)

(* What a handler has set up stays so until it is recorded, unless the     *)
(* device counts as disturbed.                                             *)
HeldUntilRecorded ==
    \A t \in Thread : Pending(t) /\ dev[t] \notin disturbed
                      => back[dev[t]] \in {arg[t], Moved}

(* The entries of a file that are still there when the pass is over,       *)
(* whatever comes of the one that is being closed.                         *)
Survivors(k) ==
    IF scan.phase = "clean" /\ scan.kind = k
    THEN scan.todo \cup scan.kept \cup ({scan.cur} \ {NoEntry})
    ELSE files[k]

Awaited(d) == \E t \in Thread : Pending(t) /\ dev[t] = d
Survives(d) == \E e \in Survivors(Kind[d]) : Records(e, d)

Covered == \A d \in ours \ disturbed : back[d] = Moved \/ Awaited(d) \/ Survives(d)

IInv == /\ TypeOK /\ OursAreSetUp /\ ScanOK /\ HandlerShape
        /\ HeldUntilRecorded /\ Covered
-----------------------------------------------------------------------------
(* Type correctness.  The parts of the state that an action leaves alone   *)
(* keep their type by these lemmas.                                        *)
LEMMA SameKernel == ASSUME KernelOK, UNCHANGED <<kernel, budget>> PROVE KernelOK'
BY DEF KernelOK, kernel

LEMMA SameView == ASSUME ViewOK, UNCHANGED viewVar PROVE ViewOK'
BY DEF ViewOK, viewVar

LEMMA SameState == ASSUME StateOK, UNCHANGED stateVar PROVE StateOK'
BY DEF StateOK, stateVar

LEMMA SameHandler == ASSUME HandlerOK, UNCHANGED handler PROVE HandlerOK'
BY DEF HandlerOK, handler

LEMMA SpendType ==
    ASSUME NEW k \in BudgetKind, budget \in [BudgetKind -> Nat], Spend(k)
    PROVE  budget' \in [BudgetKind -> Nat]
BY DEF Spend

LEMMA GotoType ==
    ASSUME HandlerOK, NEW t \in Thread, NEW l \in PC, Goto(t, l)
    PROVE  pc' \in [Thread -> PC]
BY DEF Goto, HandlerOK

LEMMA LeaveType ==
    ASSUME HandlerOK, NEW t \in Thread, Leave(t)
    PROVE  pc' \in [Thread -> PC]
BY GotoType DEF Leave, PC

(* A device is torn down, or loses its file system.                        *)
LEMMA TearDownType ==
    ASSUME TypeOK, NEW d \in Dev, TearDown(d)
    PROVE  /\ back' \in [Dev -> Base \cup {None, Moved}] /\ autoclear' \subseteq Dev
           /\ uevents' \subseteq Base \cup Dev
           /\ ours' \subseteq Dev /\ disturbed' \subseteq Dev
BY DEF TypeOK, KernelOK, TearDown

LEMMA DetachType ==
    ASSUME TypeOK, NEW d \in Dev, Detach(d)
    PROVE  /\ back' \in [Dev -> Base \cup {None, Moved}] /\ autoclear' \subseteq Dev
           /\ mounted' \subseteq Dev /\ uevents' \subseteq Base \cup Dev
           /\ ours' \subseteq Dev /\ disturbed' \subseteq Dev
BY TearDownType DEF TypeOK, KernelOK, Detach, history

LEMMA SetUpType ==
    ASSUME KernelOK, NEW d \in Dev, NEW b \in Base, SetUp(d, b)
    PROVE  /\ back' \in [Dev -> Base \cup {None, Moved}]
           /\ uevents' \subseteq Base \cup Dev
BY DEF KernelOK, SetUp

LEMMA ScanTypes ==
    ASSUME StateOK
    PROVE  /\ NoScan \in ScanType
           /\ \A p \in {"decide", "clean"}, k \in StackKind : Open(p, k) \in ScanType
           /\ [NoScan EXCEPT !.phase = "fs", !.fs = fs] \in ScanType
           /\ \A e \in scan.todo : e \in Entry /\ e.dev \in Dev
           /\ scan.cur # NoEntry => scan.cur \in Entry /\ scan.cur.dev \in Dev
BY DEF StateOK, NoScan, Open, ScanType, StackKind, Entry

LEMMA TypePass ==
    ASSUME TypeOK, Pass
    PROVE  TypeOK'
<1> USE DEF TypeOK
<1>0. StateOK /\ scan \in ScanType
  BY DEF StateOK
<1>1. CASE Decide
  <2>1. KernelOK' /\ ViewOK' /\ HandlerOK'
    BY <1>1, SameKernel, SameView, SameHandler DEF Decide
  <2>2. scan' \in ScanType /\ doomed' \subseteq Dev
    <3>1. PICK e \in scan.todo :
             /\ \E s \in IF Valid(e) THEN {{}} ELSE DevsToClean(e) : doomed' = doomed \cup s
             /\ scan' = [scan EXCEPT !.todo = @ \ {e}]
      BY <1>1 DEF Decide
    <3>2. e.dev \in Dev
      BY ScanTypes
    <3>3. \A s \in IF Valid(e) THEN {{}} ELSE DevsToClean(e) : s \subseteq Dev
      BY <3>2 DEF DevsToClean
    <3> QED BY <1>0, <3>1, <3>3 DEF ScanType, StateOK
  <2> QED BY <1>1, <2>1, <2>2 DEF Decide, StateOK, history
<1>2. CASE Decided
  <2>1. KernelOK' /\ ViewOK' /\ HandlerOK'
    BY <1>2, SameKernel, SameView, SameHandler DEF Decided
  <2>2. scan' \in ScanType
    <3>1. scan.kind # "mdraid" => After[scan.kind] \in StackKind
      BY <1>0 DEF ScanType, After, StackKind
    <3> QED BY <1>0, <1>2, <3>1, ScanTypes DEF Decided
  <2> QED BY <1>2, <2>1, <2>2 DEF Decided, StateOK, history
<1>3. CASE KeepFs
  <2>1. ViewOK' /\ HandlerOK'
    BY <1>3, SameView, SameHandler DEF KeepFs
  <2>2. scan' \in ScanType
    BY <1>0, <1>3 DEF KeepFs, ScanType
  <2>3. budget' \in [BudgetKind -> Nat]
    BY <1>3, SpendType DEF KeepFs, KernelOK, BudgetKind
  <2> QED BY <1>3, <2>1, <2>2, <2>3 DEF KeepFs, KernelOK, StateOK, kernel, history
<1>4. CASE CleanFs
  <2>1. PICK d \in scan.fs : Detach(d) /\ fs' = fs \ {d} /\ scan' = [scan EXCEPT !.fs = @ \ {d}]
    BY <1>4 DEF CleanFs
  <2>2. d \in Dev
    BY <1>0 DEF ScanType
  <2>3. ViewOK' /\ HandlerOK'
    BY <1>4, SameView, SameHandler DEF CleanFs
  <2>4. scan' \in ScanType
    BY <1>0, <2>1 DEF ScanType
  <2> QED BY <1>4, <2>1, <2>2, <2>3, <2>4, DetachType DEF CleanFs, KernelOK, StateOK
<1>5. CASE FsDone
  <2>1. KernelOK' /\ ViewOK' /\ HandlerOK'
    BY <1>5, SameKernel, SameView, SameHandler DEF FsDone
  <2>2. scan' \in ScanType
    BY <1>0, <1>5, ScanTypes DEF FsDone, StackKind
  <2> QED BY <1>5, <2>1, <2>2 DEF FsDone, StateOK, history
<1>6. CASE CheckEntry
  <2>1. KernelOK' /\ ViewOK' /\ HandlerOK'
    BY <1>6, SameKernel, SameView, SameHandler DEF CheckEntry
  <2>2. scan' \in ScanType
    <3>1. PICK e \in scan.todo : \/ Keep(e) \/ Drop(e)
                                 \/ scan' = [scan EXCEPT !.todo = @ \ {e}, !.cur = e]
      BY <1>6 DEF CheckEntry
    <3>2. e \in Entry
      BY <1>0, ScanTypes
    <3>3. CASE Keep(e)
      BY <1>0, <3>2, <3>3 DEF Keep, ScanType
    <3>4. CASE Drop(e)
      BY <1>0, <3>4 DEF Drop, ScanType
    <3> QED BY <1>0, <3>1, <3>2, <3>3, <3>4 DEF ScanType
  <2> QED BY <1>6, <2>1, <2>2 DEF CheckEntry, StateOK, history
<1>7. CASE CloseStale
  <2>1. scan.cur.dev \in Dev
    BY <1>0, <1>7, ScanTypes DEF CloseStale
  <2>2. ViewOK' /\ HandlerOK'
    BY <1>7, SameView, SameHandler DEF CloseStale
  <2>3. scan' \in ScanType
    BY <1>0, <1>7 DEF CloseStale, Drop, ScanType
  <2> QED BY <1>7, <2>1, <2>2, <2>3, TearDownType DEF CloseStale, KernelOK, StateOK
<1>8. CASE CloseStaleFails
  <2>1. ViewOK' /\ HandlerOK'
    BY <1>8, SameView, SameHandler DEF CloseStaleFails
  <2>2. scan' \in ScanType
    BY <1>0, <1>8, ScanTypes DEF CloseStaleFails, Keep, ScanType
  <2>3. budget' \in [BudgetKind -> Nat]
    BY <1>8, SpendType DEF CloseStaleFails, KernelOK, BudgetKind
  <2> QED BY <1>8, <2>1, <2>2, <2>3 DEF CloseStaleFails, KernelOK, StateOK, kernel, history
<1>9. CASE SaveFile
  <2>1. KernelOK' /\ ViewOK' /\ HandlerOK'
    BY <1>9, SameKernel, SameView, SameHandler DEF SaveFile
  <2>2. scan' \in ScanType
    <3>1. scan.kind # "mdraid" => After[scan.kind] \in StackKind
      BY <1>0 DEF ScanType, After, StackKind
    <3> QED BY <1>0, <1>9, <3>1, ScanTypes DEF SaveFile
  <2>3. files' \in [StackKind -> SUBSET Entry]
    BY <1>0, <1>9 DEF SaveFile, StateOK, ScanType
  <2> QED BY <1>9, <2>1, <2>2, <2>3 DEF SaveFile, StateOK, history
<1> QED BY <1>1, <1>2, <1>3, <1>4, <1>5, <1>6, <1>7, <1>8, <1>9 DEF Pass

(* What each method may be called for.                                     *)
LEMMA CallableShape ==
    ASSUME TypeOK, NEW o \in Op, NEW x \in Callable(o)
    PROVE  x \in IF o \in OnBase THEN Base ELSE Dev
BY DEF Callable, OnBase, Op

LEMMA TypeCall ==
    ASSUME TypeOK, NEW t \in Thread, Call(t)
    PROVE  TypeOK'
<1> USE DEF TypeOK
<1>0. PICK o \in Op : \E y \in Callable(o) :
         /\ op' = [op EXCEPT ![t] = o] /\ arg' = [arg EXCEPT ![t] = y]
         /\ lock' = [lock EXCEPT ![t] = gen[y]]
         /\ Goto(t, FirstStep(o))
  BY DEF Call
<1>1. PICK x \in Callable(o) :
         /\ op' = [op EXCEPT ![t] = o] /\ arg' = [arg EXCEPT ![t] = x]
         /\ lock' = [lock EXCEPT ![t] = gen[x]]
         /\ Goto(t, FirstStep(o))
  BY <1>0
<1>2. x \in Base \cup Dev
  BY CallableShape
<1>3. pc' \in [Thread -> PC]
  BY <1>1, GotoType DEF PC, FirstStep
<1>4. ViewOK' /\ StateOK'
  BY SameView, SameState DEF Call
<1>5. budget' \in [BudgetKind -> Nat]
  BY SpendType DEF Call, KernelOK, BudgetKind
<1> QED BY <1>1, <1>2, <1>3, <1>4, <1>5 DEF Call, HandlerOK, KernelOK, ViewOK, kernel, history

LEMMA TypeHandler ==
    ASSUME TypeOK, HandlerShape, NEW t \in Thread, Handler(t)
    PROVE  TypeOK'
<1> USE DEF TypeOK
<1>0. ShapeOf(t)
  BY DEF HandlerShape
<1>1. CASE LockForCleanup(t) \/ Check(t) \/ Refuse(t) \/ Release(t) \/ Find(t)
  <2>1. KernelOK' /\ ViewOK' /\ StateOK'
    BY <1>1, SameKernel, SameView, SameState DEF LockForCleanup, Check, Refuse, Release, Find
  <2>2. pc' \in [Thread -> PC]
    BY <1>1, GotoType, LeaveType DEF LockForCleanup, Check, Refuse, Release, Find, PC
  <2>3. dev' \in [Thread -> Dev \cup {None}]
    BY <1>1 DEF LockForCleanup, Check, Refuse, Release, Find, Target, HandlerOK
  <2> QED BY <1>1, <2>1, <2>2, <2>3 DEF LockForCleanup, Check, Refuse, Release, Find, HandlerOK, history
<1>2. CASE CheckBlock(t)
  <2>1. KernelOK' /\ ViewOK'
    BY <1>2, SameKernel, SameView DEF CheckBlock
  <2>2. pc' \in [Thread -> PC]
    BY <1>2 DEF CheckBlock, Goto, HandlerOK, PC
  <2> QED BY <1>2, <2>1, <2>2 DEF CheckBlock, HandlerOK, StateOK, history
<1>3. CASE OpenDevice(t)
  <2>1. arg[t] \in Base
    BY <1>0, <1>3 DEF OpenDevice, ShapeOf, SettingUp, OnBase
  <2>2. PICK d \in Dev : SetUp(d, arg[t]) /\ dev' = [dev EXCEPT ![t] = d] /\ ours' = ours \cup {d}
    BY <1>3 DEF OpenDevice
  <2>3. pc' \in [Thread -> PC]
    BY <1>3, GotoType DEF OpenDevice, AfterOpen, PC
  <2>4. ViewOK' /\ StateOK'
    BY <1>3, SameView, SameState DEF OpenDevice
  <2> QED BY <1>3, <2>1, <2>2, <2>3, <2>4, SetUpType DEF OpenDevice, KernelOK, HandlerOK
<1>4. CASE Appears(t) \/ DoesNotAppear(t)
  <2>1. KernelOK' /\ ViewOK' /\ StateOK'
    BY <1>4, SameKernel, SameView, SameState DEF Appears, DoesNotAppear
  <2>2. pc' \in [Thread -> PC]
    BY <1>4, GotoType, LeaveType DEF Appears, DoesNotAppear, PC
  <2>3. dev' \in [Thread -> Dev \cup {None}] /\ ours' \subseteq Dev /\ disturbed' \subseteq Dev
    BY <1>0, <1>4 DEF Appears, DoesNotAppear, HandlerOK, ShapeOf
  <2> QED BY <1>4, <2>1, <2>2, <2>3 DEF Appears, DoesNotAppear, HandlerOK
<1>5. CASE Record(t)
  <2>1. KernelOK' /\ ViewOK'
    BY <1>5, SameKernel, SameView DEF Record
  <2>2. pc' \in [Thread -> PC]
    BY <1>5, GotoType DEF Record, AfterRecord, PC
  <2>3. CASE op[t] = "mount"
    <3>1. arg[t] \in Dev
      BY <1>0, <1>5, <2>3 DEF Record, ShapeOf, OnBase
    <3> QED BY <1>5, <2>1, <2>2, <2>3, <3>1 DEF Record, HandlerOK, StateOK, history
  <2>4. CASE op[t] # "mount"
    <3>1. arg[t] \in Base /\ dev[t] \in Dev
      BY <1>0, <1>5, <2>4 DEF Record, ShapeOf, OnBase, SettingUp
    <3>2. Kind[dev[t]] \in StackKind
      BY <3>1, ConstantsAssumption DEF ConstantsAssumption
    <3>3. [dev |-> dev[t], of |-> arg[t]] \in Entry
      BY <3>1 DEF Entry
    <3>4. files' \in [StackKind -> SUBSET Entry]
      BY <1>5, <2>4, <3>2, <3>3 DEF Record, AddEntry, StateOK
    <3> QED BY <1>5, <2>1, <2>2, <2>4, <3>4 DEF Record, HandlerOK, StateOK, history
  <2> QED BY <2>3, <2>4
<1>6. CASE Trigger(t) \/ CloseLater(t) \/ Mount(t)
  <2>1. ViewOK' /\ StateOK'
    BY <1>6, SameView, SameState DEF Trigger, CloseLater, Mount
  <2>2. pc' \in [Thread -> PC]
    BY <1>6, GotoType, LeaveType DEF Trigger, CloseLater, Mount, PC
  <2>3. /\ pc[t] \in {"trigger", "close"} => dev[t] \in Dev
        /\ pc[t] = "mounting" => arg[t] \in Dev
    BY <1>0 DEF ShapeOf, OnBase
  <2> QED BY <1>6, <2>1, <2>2, <2>3
          DEF Trigger, CloseLater, Mount, KernelOK, HandlerOK, history
<1>7. CASE Close(t)
  <2>1. ViewOK' /\ StateOK'
    BY <1>7, SameView, SameState DEF Close
  <2>2. pc' \in [Thread -> PC]
    BY <1>7, LeaveType DEF Close
  <2> QED BY <1>7, <2>1, <2>2, TearDownType DEF Close, KernelOK, HandlerOK
<1>8. CASE Return(t)
  <2>1. KernelOK' /\ ViewOK'
    BY <1>8, SameKernel, SameView DEF Return
  <2>2. pc' \in [Thread -> PC]
    BY <1>8, GotoType DEF Return, PC
  <2> QED BY <1>8, <2>1, <2>2 DEF Return, HandlerOK, StateOK, Op, history
<1> QED BY <1>1, <1>2, <1>3, <1>4, <1>5, <1>6, <1>7, <1>8 DEF Handler

LEMMA TypeWorld ==
    ASSUME TypeOK, World
    PROVE  TypeOK'
<1> USE DEF TypeOK
<1>0. \A k \in BudgetKind : Spend(k) => budget' \in [BudgetKind -> Nat]
  BY SpendType DEF KernelOK
<1>1. ASSUME NEW b \in Base, Unplug(b) \/ Plug(b)
      PROVE  TypeOK'
  <2>1. ViewOK' /\ StateOK' /\ HandlerOK'
    BY <1>1, SameView, SameState, SameHandler DEF Unplug, Plug
  <2> QED BY <1>0, <1>1, <2>1 DEF Unplug, Plug, KernelOK, BudgetKind, history
<1>2. ASSUME NEW d \in Dev, NEW b \in Base, RootOpens(d, b)
      PROVE  TypeOK'
  <2>1. ViewOK' /\ StateOK' /\ HandlerOK'
    BY <1>2, SameView, SameState, SameHandler DEF RootOpens
  <2> QED BY <1>0, <1>2, <2>1, SetUpType DEF RootOpens, KernelOK, BudgetKind, history
<1>3. ASSUME NEW d \in Dev, RootCloses(d)
      PROVE  TypeOK'
  <2>1. ViewOK' /\ StateOK' /\ HandlerOK'
    BY <1>3, SameView, SameState, SameHandler DEF RootCloses
  <2> QED BY <1>0, <1>3, <2>1, TearDownType DEF RootCloses, KernelOK, BudgetKind
<1>4. ASSUME NEW d \in Dev, RootUnmounts(d)
      PROVE  TypeOK'
  <2>1. ViewOK' /\ HandlerOK'
    BY <1>4, SameView, SameHandler DEF RootUnmounts
  <2> QED BY <1>0, <1>4, <2>1, DetachType DEF RootUnmounts, KernelOK, StateOK, BudgetKind
<1>5. ASSUME NEW d \in Dev, MovesFile(d)
      PROVE  TypeOK'
  <2>1. ViewOK' /\ StateOK' /\ HandlerOK'
    BY <1>5, SameView, SameState, SameHandler DEF MovesFile
  <2> QED BY <1>0, <1>5, <2>1 DEF MovesFile, KernelOK, BudgetKind, history
<1>6. CASE Restart
  <2>1. scan' \in ScanType
    BY <1>6, ScanTypes DEF Restart
  <2>2. StateOK' /\ ViewOK' /\ KernelOK'
    BY <1>0, <1>6, <2>1 DEF Restart, StateOK, ViewOK, KernelOK, BudgetKind
  <2> QED BY <1>6, <2>2 DEF Restart, HandlerOK, PC, Op
<1> QED BY <1>1, <1>2, <1>3, <1>4, <1>5, <1>6 DEF World

LEMMA TypeStep ==
    ASSUME TypeOK, HandlerShape, [Next]_vars
    PROVE  TypeOK'
<1> USE DEF TypeOK
<1>1. CASE StartPass
  <2>1. KernelOK' /\ ViewOK' /\ HandlerOK'
    BY <1>1, SameKernel, SameView, SameHandler DEF StartPass
  <2>2. scan' \in ScanType
    BY <1>1, ScanTypes DEF StartPass, StackKind
  <2> QED BY <1>1, <2>1, <2>2 DEF StartPass, StateOK, history
<1>2. ASSUME NEW x \in Base \cup Dev, ProcessUevent(x)
      PROVE  TypeOK'
  <2>1. HandlerOK'
    BY <1>2, SameHandler DEF ProcessUevent
  <2>2. ViewOK'
    BY <1>2 DEF ProcessUevent, ViewOK, KernelOK
  <2> QED BY <1>2, <2>1, <2>2 DEF ProcessUevent, KernelOK, StateOK, history
<1>3. CASE UNCHANGED vars
  BY <1>3, SameKernel, SameView, SameState, SameHandler DEF vars, history
<1> QED BY <1>1, <1>2, <1>3, TypePass, TypeCall, TypeHandler, TypeWorld DEF Next
-----------------------------------------------------------------------------
(* Where the handlers are.                                                 *)

SameThread(u) == pc'[u] = pc[u] /\ op'[u] = op[u] /\ arg'[u] = arg[u] /\ dev'[u] = dev[u]

LEMMA OtherThreads ==
    ASSUME TypeOK, NEW t \in Thread, Call(t) \/ Handler(t), NEW u \in Thread \ {t}
    PROVE  SameThread(u)
<1> USE DEF TypeOK, HandlerOK, SameThread, Goto, Leave
<1>1. CASE Call(t)
  BY <1>1 DEF Call
<1>2. CASE LockForCleanup(t) \/ Check(t) \/ CheckBlock(t) \/ Refuse(t) \/ Release(t) \/ Return(t)
  BY <1>2 DEF LockForCleanup, Check, CheckBlock, Refuse, Release, Return
<1>3. CASE OpenDevice(t) \/ Appears(t) \/ DoesNotAppear(t)
  BY <1>3 DEF OpenDevice, Appears, DoesNotAppear
<1>4. CASE Record(t) \/ Trigger(t) \/ Find(t)
  BY <1>4 DEF Record, Trigger, Find
<1>5. CASE Close(t) \/ CloseLater(t) \/ Mount(t)
  BY <1>5 DEF Close, CloseLater, Mount
<1> QED BY <1>1, <1>2, <1>3, <1>4, <1>5 DEF Handler

LEMMA IdleThreads ==
    ASSUME [Next]_vars, ~Restart, \A t \in Thread : ~Call(t) /\ ~Handler(t)
    PROVE  UNCHANGED handler
<1>1. CASE StartPass \/ Decide \/ Decided \/ KeepFs \/ CleanFs \/ FsDone
  BY <1>1 DEF StartPass, Decide, Decided, KeepFs, CleanFs, FsDone
<1>2. CASE CheckEntry \/ CloseStale \/ CloseStaleFails \/ SaveFile
  BY <1>2 DEF CheckEntry, CloseStale, CloseStaleFails, SaveFile
<1>3. CASE \E x \in Base \cup Dev : ProcessUevent(x)
  BY <1>3 DEF ProcessUevent
<1>4. CASE World
  BY <1>4 DEF World, Unplug, Plug, RootOpens, RootCloses, RootUnmounts, MovesFile
<1>5. CASE UNCHANGED vars
  BY <1>5 DEF vars
<1> QED BY <1>1, <1>2, <1>3, <1>4, <1>5 DEF Next, Pass

LEMMA ShapeStep ==
    ASSUME TypeOK, HandlerShape, [Next]_vars
    PROVE  HandlerShape'
<1>1. ASSUME NEW u \in Thread, SameThread(u) PROVE ShapeOf(u)'
  BY <1>1 DEF HandlerShape, ShapeOf, SameThread
<1>2. ASSUME NEW t \in Thread, Call(t) \/ Handler(t) PROVE ShapeOf(t)'
  <2> USE DEF TypeOK, HandlerOK
  <2>0. ShapeOf(t)
    BY DEF HandlerShape
  <2>1. CASE Call(t)
    <3>0. PICK o \in Op : \E y \in Callable(o) :
             /\ op' = [op EXCEPT ![t] = o] /\ arg' = [arg EXCEPT ![t] = y]
             /\ Goto(t, FirstStep(o))
      BY <2>1 DEF Call
    <3>1. PICK x \in Callable(o) : arg'[t] = x
      BY <3>0
    <3>2. /\ op'[t] = o
          /\ pc'[t] = FirstStep(o)
      BY <3>0 DEF Goto
    <3> QED BY <3>1, <3>2, CallableShape DEF FirstStep, ShapeOf, Op, Locking, SettingUp
  <2>2. CASE LockForCleanup(t) \/ Check(t) \/ CheckBlock(t) \/ Refuse(t) \/ Release(t)
    BY <2>0, <2>2 DEF LockForCleanup, Check, CheckBlock, Refuse, Release, ShapeOf, Goto,
                      Leave, Locking, SettingUp
  <2>3. CASE Return(t)
    BY <2>3 DEF Return, ShapeOf, Goto
  <2>4. CASE OpenDevice(t)
    <3>1. PICK d \in Dev : SetUp(d, arg[t]) /\ dev' = [dev EXCEPT ![t] = d]
      BY <2>4 DEF OpenDevice
    <3> QED BY <2>0, <2>4, <3>1 DEF OpenDevice, AfterOpen, SetUp, ShapeOf, Goto, SettingUp
  <2>5. CASE Appears(t) \/ DoesNotAppear(t)
    BY <2>0, <2>5 DEF Appears, DoesNotAppear, ShapeOf, Goto, Leave, SettingUp
  <2>6. CASE Record(t) \/ Trigger(t)
    BY <2>0, <2>6 DEF Record, AfterRecord, Trigger, ShapeOf, Goto
  <2>7. CASE Find(t)
    BY <2>0, <2>7 DEF Find, Target, ShapeOf, Goto
  <2>8. CASE Close(t) \/ CloseLater(t)
    BY <2>0, <2>8 DEF Close, CloseLater, ShapeOf, Goto, Leave
  <2>9. CASE Mount(t)
    BY <2>0, <2>9 DEF Mount, ShapeOf, Goto, OnBase
  <2> QED BY <1>2, <2>1, <2>2, <2>3, <2>4, <2>5, <2>6, <2>7, <2>8, <2>9 DEF Handler
<1>3. CASE \E t \in Thread : Call(t) \/ Handler(t)
  BY <1>1, <1>2, <1>3, OtherThreads DEF HandlerShape
<1>4. CASE Restart
  BY <1>4 DEF Restart, HandlerShape, ShapeOf
<1>5. CASE ~Restart /\ \A t \in Thread : ~Call(t) /\ ~Handler(t)
  <2>1. UNCHANGED handler
    BY <1>5, IdleThreads
  <2> QED BY <1>1, <2>1 DEF handler, HandlerShape, SameThread
<1> QED BY <1>3, <1>4, <1>5
-----------------------------------------------------------------------------
(* What a step can do to the devices that are set up.                      *)
KernelMove ==
    \/ UNCHANGED back /\ ours' \subseteq ours
    \/ \E d \in Dev : TearDown(d)
    \/ \E d \in Dev, b \in Base : SetUp(d, b) /\ ours' = ours
    \/ \E t \in Thread : OpenDevice(t)
    \/ \E d \in Dev : MovesFile(d)

LEMMA PassMoves ==
    ASSUME TypeOK, Pass
    PROVE  KernelMove /\ disturbed \subseteq disturbed'
<1> USE DEF KernelMove
<1>1. CASE Decide \/ Decided \/ KeepFs \/ FsDone
  BY <1>1 DEF Decide, Decided, KeepFs, FsDone, kernel, history
<1>2. CASE CleanFs
  <2>1. PICK d \in scan.fs : Detach(d)
    BY <1>2 DEF CleanFs
  <2>2. d \in Dev
    BY DEF TypeOK, StateOK, ScanType
  <2> QED BY <2>1, <2>2 DEF Detach, TearDown, history
<1>3. CASE CheckEntry \/ CloseStaleFails \/ SaveFile
  BY <1>3 DEF CheckEntry, CloseStaleFails, SaveFile, kernel, history
<1>4. CASE CloseStale
  <2>1. scan.cur.dev \in Dev
    BY <1>4, ScanTypes DEF CloseStale, TypeOK
  <2> QED BY <1>4, <2>1 DEF CloseStale, TearDown
<1> QED BY <1>1, <1>2, <1>3, <1>4 DEF Pass

LEMMA Moves ==
    ASSUME TypeOK, HandlerShape, [Next]_vars
    PROVE  KernelMove /\ disturbed \subseteq disturbed'
<1> USE DEF KernelMove
<1>1. CASE StartPass \/ UNCHANGED vars
  BY <1>1 DEF StartPass, vars, kernel, history
<1>2. CASE Pass
  BY <1>2, PassMoves
<1>3. ASSUME NEW t \in Thread, Call(t) \/ Handler(t)
      PROVE  KernelMove /\ disturbed \subseteq disturbed'
  <2>1. CASE Close(t)
    BY <2>1 DEF Close, TearDown
  <2>2. CASE OpenDevice(t)
    BY <2>2 DEF OpenDevice
  <2>3. CASE Call(t) \/ LockForCleanup(t) \/ Check(t) \/ CheckBlock(t) \/ Refuse(t) \/ Release(t) \/ Return(t)
    BY <2>3 DEF Call, LockForCleanup, Check, CheckBlock, Refuse, Release, Return, kernel, history
  <2>4. CASE Appears(t) \/ DoesNotAppear(t)
    BY <2>4 DEF Appears, DoesNotAppear, kernel
  <2>5. CASE Record(t) \/ Trigger(t) \/ Find(t) \/ CloseLater(t) \/ Mount(t)
    BY <2>5 DEF Record, Trigger, Find, CloseLater, Mount, kernel, history
  <2> QED BY <1>3, <2>1, <2>2, <2>3, <2>4, <2>5 DEF Handler
<1>4. CASE \E x \in Base \cup Dev : ProcessUevent(x)
  BY <1>4 DEF ProcessUevent, history
<1>5. CASE World
  <2>1. CASE \E b \in Base : Unplug(b) \/ Plug(b)
    BY <2>1 DEF Unplug, Plug, history
  <2>2. CASE \E d \in Dev, b \in Base : RootOpens(d, b)
    BY <2>2 DEF RootOpens, history
  <2>3. CASE \E d \in Dev : RootCloses(d)
    BY <2>3 DEF RootCloses, TearDown
  <2>4. CASE \E d \in Dev : RootUnmounts(d)
    BY <2>4 DEF RootUnmounts, Detach, TearDown, history
  <2>5. CASE \E d \in Dev : MovesFile(d)
    BY <2>5 DEF MovesFile, history
  <2>6. CASE Restart
    BY <2>6 DEF Restart
  <2> QED BY <1>5, <2>1, <2>2, <2>3, <2>4, <2>5, <2>6 DEF World
<1> QED BY <1>1, <1>2, <1>3, <1>4, <1>5 DEF Next

LEMMA OursAreSetUpStep ==
    ASSUME TypeOK, HandlerShape, OursAreSetUp, [Next]_vars
    PROVE  OursAreSetUp'
<1> USE ConstantsAssumption DEF ConstantsAssumption, TypeOK, KernelOK
<1>1. CASE UNCHANGED back /\ ours' \subseteq ours
  BY <1>1 DEF OursAreSetUp
<1>2. ASSUME NEW d \in Dev, TearDown(d) PROVE OursAreSetUp'
  BY <1>2 DEF TearDown, OursAreSetUp
<1>3. ASSUME NEW d \in Dev, NEW b \in Base, SetUp(d, b), ours' \subseteq ours \cup {d}
      PROVE  OursAreSetUp'
  BY <1>3 DEF SetUp, OursAreSetUp
<1>4. ASSUME NEW t \in Thread, OpenDevice(t) PROVE OursAreSetUp'
  <2>1. arg[t] \in Base
    BY <1>4 DEF OpenDevice, HandlerShape, ShapeOf, SettingUp, OnBase
  <2> QED BY <1>3, <1>4, <2>1 DEF OpenDevice
<1>5. ASSUME NEW d \in Dev, MovesFile(d) PROVE OursAreSetUp'
  BY <1>5 DEF MovesFile, OursAreSetUp, history
<1> QED BY <1>1, <1>2, <1>3, <1>4, <1>5, Moves DEF KernelMove

(* A pending set-up is not the one a step makes, nor one it takes apart    *)
(* without leaving a mark.                                                 *)
LEMMA HeldStep ==
    ASSUME TypeOK, HandlerShape, HeldUntilRecorded, [Next]_vars
    PROVE  HeldUntilRecorded'
<1> USE ConstantsAssumption DEF ConstantsAssumption, TypeOK, KernelOK, HandlerOK
<1>1. ASSUME NEW u \in Thread, SameThread(u), Pending(u), dev[u] \notin disturbed'
      PROVE  back'[dev[u]] \in {arg[u], Moved}
  <2>1. dev[u] \in Dev /\ arg[u] \in Base
    BY <1>1 DEF HandlerShape, ShapeOf, Pending, SettingUp, OnBase
  <2>2. back[dev[u]] \in {arg[u], Moved} /\ back[dev[u]] # None
    BY <1>1, <2>1, Moves DEF HeldUntilRecorded
  <2>3. CASE UNCHANGED back
    BY <2>2, <2>3
  <2>4. ASSUME NEW d \in Dev, TearDown(d) PROVE back'[dev[u]] = back[dev[u]]
    BY <1>1, <2>1, <2>4 DEF TearDown
  <2>5. ASSUME NEW d \in Dev, NEW b \in Base, SetUp(d, b) PROVE back'[dev[u]] = back[dev[u]]
    BY <2>1, <2>2, <2>5 DEF SetUp
  <2>6. ASSUME NEW t \in Thread, OpenDevice(t) PROVE back'[dev[u]] = back[dev[u]]
    <3>1. arg[t] \in Base
      BY <2>6 DEF OpenDevice, HandlerShape, ShapeOf, SettingUp, OnBase
    <3> QED BY <2>5, <2>6, <3>1 DEF OpenDevice
  <2>7. ASSUME NEW d \in Dev, MovesFile(d) PROVE back'[dev[u]] \in {back[dev[u]], Moved}
    BY <2>1, <2>7 DEF MovesFile
  <2> QED BY <2>2, <2>3, <2>4, <2>5, <2>6, <2>7, Moves DEF KernelMove
<1>2. ASSUME NEW t \in Thread, Call(t) \/ Handler(t), Pending(t)', dev'[t] \notin disturbed'
      PROVE  back'[dev'[t]] \in {arg'[t], Moved}
  <2> USE DEF Goto, Leave
  <2>1. CASE OpenDevice(t)
    <3>1. arg[t] \in Base
      BY <2>1 DEF OpenDevice, HandlerShape, ShapeOf, SettingUp, OnBase
    <3> QED BY <2>1, <3>1 DEF OpenDevice, SetUp
  <2>2. CASE Appears(t)
    <3>1. pc[t] = "appear" /\ UNCHANGED <<back, op, arg>> /\ dev'[t] = dev[t] /\ disturbed' = disturbed
      BY <1>2, <2>2 DEF Appears, kernel
    <3>2. Pending(t)
      BY <3>1 DEF HandlerShape, ShapeOf, Pending, SettingUp
    <3> QED BY <1>2, <3>1, <3>2 DEF HeldUntilRecorded
  <2>3. ASSUME ~OpenDevice(t), ~Appears(t) PROVE ~Pending(t)'
    <3>1. CASE Call(t)
      BY <3>1 DEF Call, FirstStep, Pending
    <3>2. CASE LockForCleanup(t) \/ Check(t) \/ CheckBlock(t) \/ Refuse(t) \/ Release(t) \/ Return(t)
      BY <3>2 DEF LockForCleanup, Check, CheckBlock, Refuse, Release, Return, Pending
    <3>3. CASE DoesNotAppear(t) \/ Record(t) \/ Trigger(t) \/ Find(t)
      BY <3>3 DEF DoesNotAppear, Record, AfterRecord, Trigger, Find, Pending
    <3>4. CASE Close(t) \/ CloseLater(t)
      BY <3>4 DEF Close, CloseLater, Pending
    <3>5. CASE Mount(t)
      BY <3>5 DEF Mount, Pending, HandlerShape, ShapeOf, SettingUp
    <3> QED BY <1>2, <2>3, <3>1, <3>2, <3>3, <3>4, <3>5 DEF Handler
  <2> QED BY <1>2, <2>1, <2>2, <2>3
<1>3. ASSUME NEW u \in Thread, SameThread(u), Pending(u)', dev'[u] \notin disturbed'
      PROVE  back'[dev'[u]] \in {arg'[u], Moved}
  BY <1>1, <1>3 DEF SameThread, Pending
<1>4. CASE \E t \in Thread : Call(t) \/ Handler(t)
  BY <1>2, <1>3, <1>4, OtherThreads DEF HeldUntilRecorded
<1>5. CASE Restart
  BY <1>5 DEF Restart, HeldUntilRecorded, Pending
<1>6. CASE ~Restart /\ \A t \in Thread : ~Call(t) /\ ~Handler(t)
  <2>1. UNCHANGED handler
    BY <1>6, IdleThreads
  <2> QED BY <1>3, <2>1 DEF handler, HeldUntilRecorded, SameThread
<1> QED BY <1>4, <1>5, <1>6
-----------------------------------------------------------------------------
(* The pass.                                                               *)
LEMMA FilesChange ==
    ASSUME [Next]_vars, ~Pass, ~StartPass, ~Restart, \A t \in Thread : ~Record(t)
    PROVE  UNCHANGED <<files, lockOwner, scan>>
<1> USE DEF stateVar
<1>1. ASSUME NEW t \in Thread, Call(t) \/ Handler(t) PROVE UNCHANGED <<files, lockOwner, scan>>
  <2>1. CASE Call(t) \/ LockForCleanup(t) \/ Check(t) \/ CheckBlock(t) \/ Refuse(t) \/ Release(t) \/ Return(t)
    BY <2>1 DEF Call, LockForCleanup, Check, CheckBlock, Refuse, Release, Return
  <2>2. CASE OpenDevice(t) \/ Appears(t) \/ DoesNotAppear(t) \/ Trigger(t)
    BY <2>2 DEF OpenDevice, Appears, DoesNotAppear, Trigger
  <2>3. CASE Find(t) \/ Close(t) \/ CloseLater(t) \/ Mount(t)
    BY <2>3 DEF Find, Close, CloseLater, Mount
  <2> QED BY <1>1, <2>1, <2>2, <2>3 DEF Handler
<1>2. CASE \E x \in Base \cup Dev : ProcessUevent(x)
  BY <1>2 DEF ProcessUevent
<1>3. CASE World
  BY <1>3 DEF World, Unplug, Plug, RootOpens, RootCloses, RootUnmounts, MovesFile
<1>4. CASE UNCHANGED vars
  BY <1>4 DEF vars
<1> QED BY <1>1, <1>2, <1>3, <1>4 DEF Next

(* How the second stage disposes of an entry.                              *)
LEMMA Disposal ==
    ASSUME scan \in ScanType, NEW e \in Entry
    PROVE  /\ Keep(e) => scan' = [phase |-> scan.phase, kind |-> scan.kind,
                 todo |-> scan.todo \ {e}, kept |-> scan.kept \cup {e},
                 changed |-> scan.changed, cur |-> NoEntry, fs |-> scan.fs]
           /\ Drop(e) => scan' = [phase |-> scan.phase, kind |-> scan.kind,
                 todo |-> scan.todo \ {e}, kept |-> scan.kept,
                 changed |-> TRUE, cur |-> NoEntry, fs |-> scan.fs]
BY DEF Keep, Drop, ScanType

LEMMA Opened ==
    ASSUME NEW p, NEW k
    PROVE  LET s == Open(p, k)
           IN  /\ s.phase = p /\ s.kind = k /\ s.todo = files[k]
               /\ s.kept = {} /\ s.cur = NoEntry
BY DEF Open, NoScan

LEMMA ScanStep ==
    ASSUME TypeOK, HandlerShape, ScanOK, [Next]_vars
    PROVE  ScanOK'
<1> USE NoEntryAssumption, ConstantsAssumption
    DEF TypeOK, StateOK, ConstantsAssumption
<1>0. scan \in ScanType /\ \A e \in scan.todo : e \in Entry
  BY DEF ScanType
<1>1. CASE StartPass
  BY <1>1 DEF StartPass, Open, NoScan, ScanOK
<1>2. CASE Decide
  BY <1>0, <1>2 DEF Decide, ScanOK, ScanType
<1>3. CASE Decided
  BY <1>0, <1>3 DEF Decided, Open, NoScan, ScanOK, ScanType
<1>4. CASE KeepFs \/ CleanFs
  BY <1>0, <1>4 DEF KeepFs, CleanFs, ScanOK, ScanType
<1>5. CASE FsDone
  BY <1>5 DEF FsDone, Open, NoScan, ScanOK
<1>6. CASE CheckEntry
  <2>1. PICK e \in scan.todo : Examine(e) /\ (\/ Keep(e) \/ Drop(e)
                               \/ scan' = [scan EXCEPT !.todo = @ \ {e}, !.cur = e])
    BY <1>6 DEF CheckEntry
  <2>2. CASE Keep(e) \/ Drop(e)
    BY <1>0, <1>6, <2>1, <2>2, Disposal DEF CheckEntry, Examine, ScanOK
  <2>3. CASE scan' = [scan EXCEPT !.todo = @ \ {e}, !.cur = e]
    BY <1>0, <1>6, <2>1, <2>3 DEF CheckEntry, Examine, ScanOK, ScanType
  <2> QED BY <2>1, <2>2, <2>3
<1>7. CASE CloseStale \/ CloseStaleFails
  <2>1. scan.cur \in Entry /\ scan.cur # NoEntry /\ scan.phase = "clean"
    BY <1>0, <1>7 DEF CloseStale, CloseStaleFails, ScanOK, ScanType
  <2>2. Keep(scan.cur) \/ Drop(scan.cur)
    BY <1>7 DEF CloseStale, CloseStaleFails
  <2> QED BY <1>0, <1>7, <2>1, <2>2, Disposal DEF CloseStale, CloseStaleFails, ScanOK
<1>8. CASE SaveFile
  <2>1. CASE scan.kind = "mdraid"
    BY <1>8, <2>1 DEF SaveFile, NoScan, ScanOK
  <2>2. CASE scan.kind # "mdraid"
    <3> DEFINE k == After[scan.kind]
    <3>1. k \in StackKind /\ k # scan.kind
      BY <1>0, <2>2 DEF After, StackKind, ScanType
    <3>2. scan' = Open("clean", k) /\ files'[k] = files[k] /\ lockOwner' = lockOwner
      BY <1>8, <2>2, <3>1 DEF SaveFile
    <3> HIDE DEF k
    <3>3. /\ scan'.phase = "clean" /\ scan'.kind = k /\ scan'.todo = files[k]
          /\ scan'.kept = {} /\ scan'.cur = NoEntry
      BY <3>2, Opened
    <3>4. lockOwner # Nobody
      BY <1>8 DEF SaveFile, ScanOK
    <3> QED BY <3>1, <3>2, <3>3, <3>4 DEF ScanOK
  <2> QED BY <2>1, <2>2
<1>9. CASE Restart
  BY <1>9 DEF Restart, NoScan, ScanOK
<1>10. ASSUME NEW t \in Thread, Record(t) PROVE ScanOK'
  BY <1>10 DEF Record, ScanOK
<1>11. CASE UNCHANGED <<files, lockOwner, scan>>
  BY <1>11 DEF ScanOK
<1> QED BY <1>1, <1>2, <1>3, <1>4, <1>5, <1>6, <1>7, <1>8, <1>9, <1>10, <1>11, FilesChange DEF Pass

(* The second stage takes an entry off a file only if the device is not    *)
(* set up the way the entry says, or when it has just been closed.         *)
LEMMA SurvivorsStep ==
    ASSUME TypeOK, ScanOK, [Next]_vars, \A t \in Thread : ~Record(t),
           NEW d \in Dev, back[d] # None, ~TearDown(d),
           NEW e \in Survivors(Kind[d]), Records(e, d)
    PROVE  e \in Survivors(Kind[d])'
<1> USE NoEntryAssumption, ConstantsAssumption DEF TypeOK, StateOK, ConstantsAssumption
<1> DEFINE k == Kind[d]
<1>0. /\ scan \in ScanType /\ k \in StackKind /\ (\A x \in scan.todo : x \in Entry)
      /\ scan.kind \in StackKind
  BY DEF ScanType
<1>1. e \in files[k]
  BY <1>0 DEF Survivors, ScanOK
<1>2. CASE StartPass \/ Decide \/ Decided \/ KeepFs \/ CleanFs \/ FsDone
  <2>1. e \in Entry /\ e # NoEntry
    BY <1>0, <1>1
  <2>2. UNCHANGED files
    BY <1>2 DEF StartPass, Decide, Decided, KeepFs, CleanFs, FsDone
  <2>3. scan'.phase = "clean" /\ scan'.kind = k => scan'.todo = files[k]
    <3>1. CASE StartPass \/ Decided
      BY <1>0, <3>1 DEF StartPass, Decided, Open, NoScan, ScanType
    <3>2. CASE Decide \/ KeepFs \/ CleanFs
      BY <1>0, <3>2 DEF Decide, KeepFs, CleanFs, ScanType
    <3>3. CASE FsDone
      BY <3>3 DEF FsDone, Open, NoScan
    <3> QED BY <1>2, <3>1, <3>2, <3>3
  <2> QED BY <1>1, <2>2, <2>3 DEF Survivors
<1>3. CASE CheckEntry
  <2>1. PICK x \in scan.todo :
           /\ Examine(x)
           /\ IF Valid(x) THEN Keep(x)
              ELSE IF ToClose(x) THEN scan' = [scan EXCEPT !.todo = @ \ {x}, !.cur = x]
              ELSE Drop(x)
    BY <1>3 DEF CheckEntry
  <2>2. x = e => Valid(x) \/ ToClose(x)
    <3>1. Kind[x.dev] \in {"crypto", "loop", "mdraid"}
      BY <1>0, ScanTypes, ConstantsAssumption DEF ConstantsAssumption, StackKind
    <3> QED BY <3>1 DEF Records, Valid, CryptoValid, LoopValid, ArrayValid, ToClose, Live
  <2>3. UNCHANGED files /\ scan.cur = NoEntry /\ x \in Entry
    BY <1>0, <1>3, <2>1 DEF CheckEntry, Examine
  <2>4. CASE Keep(x)
    BY <1>0, <1>1, <2>3, <2>4, Disposal DEF Survivors
  <2>5. CASE Drop(x) /\ x # e
    BY <1>0, <1>1, <2>3, <2>5, Disposal DEF Survivors
  <2>6. CASE scan' = [scan EXCEPT !.todo = @ \ {x}, !.cur = x]
    <3>1. /\ scan'.phase = scan.phase /\ scan'.kind = scan.kind /\ scan'.cur = x
          /\ scan'.todo = scan.todo \ {x} /\ scan'.kept = scan.kept
      BY <1>0, <2>6 DEF ScanType
    <3> QED BY <1>1, <2>3, <3>1 DEF Survivors
  <2> QED BY <2>1, <2>2, <2>4, <2>5, <2>6
<1>4. CASE CloseStale \/ CloseStaleFails
  <2>1. scan.cur \in Entry /\ UNCHANGED files
    BY <1>0, <1>4 DEF CloseStale, CloseStaleFails, ScanType
  <2>2. CASE Keep(scan.cur)
    BY <1>0, <1>1, <2>1, <2>2, Disposal DEF Survivors
  <2>3. CASE Drop(scan.cur) /\ TearDown(scan.cur.dev)
    <3>1. scan.cur # e
      BY <2>3 DEF Records
    <3> QED BY <1>0, <1>1, <2>1, <2>3, <3>1, Disposal DEF Survivors
  <2> QED BY <1>4, <2>2, <2>3 DEF CloseStale, CloseStaleFails
<1>5. CASE SaveFile
  <2>1. e \in files'[k]
    <3>1. scan.kind = k => e \in scan.kept
      BY <1>5 DEF SaveFile, Survivors
    <3> QED BY <1>0, <1>1, <1>5, <3>1 DEF SaveFile
  <2>2. scan'.phase = "clean" /\ scan'.kind = k => e \in scan'.todo
    <3>1. CASE scan' = NoScan
      BY <3>1 DEF NoScan
    <3>2. CASE scan' = Open("clean", After[scan.kind])
      BY <1>1, <3>2, Opened
    <3> QED BY <1>5, <3>1, <3>2 DEF SaveFile
  <2> QED BY <2>1, <2>2 DEF Survivors
<1>6. CASE Restart
  BY <1>1, <1>6 DEF Restart, NoScan, Survivors
<1>7. CASE UNCHANGED <<files, lockOwner, scan>>
  BY <1>7 DEF Survivors
<1> QED BY <1>2, <1>3, <1>4, <1>5, <1>6, <1>7, FilesChange DEF Pass

(* A device that stays ours keeps its foundation, or loses its name.       *)
LEMMA OursKept ==
    ASSUME TypeOK, HandlerShape, OursAreSetUp, [Next]_vars, NEW d \in ours, d \in ours'
    PROVE  ~TearDown(d) /\ back'[d] \in {back[d], Moved}
<1> USE DEF TypeOK, KernelOK
<1>1. ~TearDown(d)
  BY DEF TearDown
<1>2. ASSUME NEW c \in Dev, TearDown(c) PROVE back'[d] = back[d]
  BY <1>1, <1>2 DEF TearDown
<1>3. ASSUME NEW c \in Dev, NEW b, SetUp(c, b) PROVE back'[d] = back[d]
  BY <1>3 DEF SetUp, OursAreSetUp
<1>4. ASSUME NEW t \in Thread, OpenDevice(t) PROVE back'[d] = back[d]
  BY <1>3, <1>4 DEF OpenDevice
<1>5. ASSUME NEW c \in Dev, MovesFile(c) PROVE back'[d] \in {back[d], Moved}
  BY <1>5 DEF MovesFile
<1> QED BY <1>1, <1>2, <1>3, <1>4, <1>5, Moves DEF KernelMove

(* A handler that is to record a device goes on to, unless that device is  *)
(* given up.                                                               *)
LEMMA AwaitedStep ==
    ASSUME TypeOK, HandlerShape, [Next]_vars, \A t \in Thread : ~Record(t),
           NEW d \in ours, d \in ours' \ disturbed', Awaited(d)
    PROVE  Awaited(d)'
<1> USE DEF TypeOK, HandlerOK
<1>1. PICK u \in Thread : Pending(u) /\ dev[u] = d
  BY DEF Awaited
<1>2. SameThread(u) => Awaited(d)'
  BY <1>1 DEF SameThread, Awaited, Pending
<1>3. CASE Call(u) \/ Handler(u)
  <2>1. CASE Appears(u)
    <3>1. pc'[u] = "record" /\ op'[u] = op[u] /\ dev'[u] = d
      BY <1>1, <2>1 DEF Appears, Goto
    <3> QED BY <1>1, <3>1 DEF Awaited, Pending
  <2>2. CASE DoesNotAppear(u)
    BY <1>1, <2>2 DEF DoesNotAppear
  <2>3. CASE pc[u] \notin {"appear", "record"}
    BY <1>1, <2>3 DEF Pending
  <2>4. ASSUME pc[u] \in {"appear", "record"} PROVE Appears(u) \/ DoesNotAppear(u)
    BY <1>3, <2>4 DEF Handler, Call, LockForCleanup, Check, CheckBlock, Refuse, OpenDevice,
       Trigger, Find, Close, CloseLater, Mount, Release, Return
  <2> QED BY <2>1, <2>2, <2>3, <2>4
<1>4. CASE Restart
  BY <1>1, <1>4 DEF Restart
<1>5. CASE \E t \in Thread : t # u /\ (Call(t) \/ Handler(t))
  BY <1>2, <1>5, OtherThreads
<1>6. CASE ~Restart /\ \A t \in Thread : ~Call(t) /\ ~Handler(t)
  BY <1>2, <1>6, IdleThreads DEF handler, SameThread
<1> QED BY <1>3, <1>4, <1>5, <1>6

LEMMA CoveredRecord ==
    ASSUME IInv, NEW t \in Thread, Record(t)
    PROVE  Covered'
<1> USE ConstantsAssumption DEF ConstantsAssumption, IInv, TypeOK, HandlerOK, StateOK
<1>1. SUFFICES ASSUME NEW d \in ours \ disturbed
               PROVE  back[d] = Moved \/ Awaited(d)' \/ Survives(d)'
  BY DEF Record, Covered, kernel, history
<1>2. /\ UNCHANGED <<back, scan, dev, op>> /\ pc'[t] # "record" /\ pc'[t] # "appear"
      /\ scan.phase = "none" /\ Kind[d] \in StackKind /\ d \in Dev
  BY DEF Record, AfterRecord, ScanOK, Goto, kernel
<1>3. \A u \in Thread \ {t} : SameThread(u)
  BY OtherThreads DEF Handler
<1>4. Survivors(Kind[d]) = files[Kind[d]] /\ Survivors(Kind[d])' = files'[Kind[d]]
  BY <1>2 DEF Survivors
<1>5. CASE Pending(t) /\ dev[t] = d
  <2>1. op[t] # "mount" /\ arg[t] \in Base
    BY <1>5 DEF Pending, SettingUp, HandlerShape, ShapeOf, OnBase
  <2>2. back[d] \in {arg[t], Moved}
    BY <1>5 DEF HeldUntilRecorded
  <2>3. [dev |-> d, of |-> arg[t]] \in files'[Kind[d]]
    BY <1>2, <1>5, <2>1 DEF Record, AddEntry
  <2> QED BY <1>2, <1>4, <2>2, <2>3 DEF Survives, Records
<1>6. ASSUME ~(Pending(t) /\ dev[t] = d), Awaited(d) PROVE Awaited(d)'
  <2>1. PICK u \in Thread \ {t} : Pending(u) /\ dev[u] = d
    BY <1>6 DEF Awaited
  <2> QED BY <1>3, <2>1 DEF Awaited, Pending, SameThread
<1>7. ASSUME ~(Pending(t) /\ dev[t] = d), Survives(d) PROVE Survives(d)'
  <2>1. PICK e \in files[Kind[d]] : Records(e, d)
    BY <1>4, <1>7 DEF Survives
  <2>2. e \in files'[Kind[d]]
    <3>1. CASE op[t] = "mount"
      BY <2>1, <3>1 DEF Record
    <3>2. CASE op[t] # "mount"
      <4>1. dev[t] # d /\ dev[t] \in Dev
        BY <1>7, <3>2 DEF Record, Pending, HandlerShape, ShapeOf
      <4>2. e.dev # dev[t]
        BY <2>1, <4>1 DEF Records
      <4>3. Kind[dev[t]] \in StackKind
        BY <4>1
      <4> QED BY <2>1, <3>2, <4>2, <4>3 DEF Record, AddEntry
    <3> QED BY <3>1, <3>2
  <2> QED BY <1>2, <1>4, <2>1, <2>2 DEF Survives, Records
<1> QED BY <1>5, <1>6, <1>7 DEF Covered

LEMMA CoveredStep ==
    ASSUME IInv, [Next]_vars
    PROVE  Covered'
<1> USE DEF IInv
<1>1. CASE \E t \in Thread : Record(t)
  BY <1>1, CoveredRecord
<1>2. CASE \A t \in Thread : ~Record(t)
  <2>1. SUFFICES ASSUME NEW d \in ours' \ disturbed'
                 PROVE  back'[d] = Moved \/ Awaited(d)' \/ Survives(d)'
    BY DEF Covered
  <2>2. CASE d \notin ours
    <3>1. PICK t \in Thread : OpenDevice(t)
      BY <2>2, Moves DEF KernelMove, TearDown, MovesFile, history
    <3>2. dev'[t] = d /\ op'[t] = op[t] /\ op[t] \in SettingUp /\ pc'[t] \in {"appear", "record"}
      BY <2>2, <3>1 DEF OpenDevice, AfterOpen, Goto, HandlerShape, ShapeOf, TypeOK, HandlerOK
    <3> QED BY <3>2 DEF Awaited, Pending
  <2>3. CASE d \in ours
    <3>1. d \in Dev /\ d \in ours \ disturbed
      BY <2>3, Moves DEF TypeOK
    <3>2. ~TearDown(d) /\ back'[d] \in {back[d], Moved} /\ back[d] # None
      BY <2>3, OursKept DEF OursAreSetUp
    <3>3. CASE back[d] = Moved
      BY <3>2, <3>3
    <3>4. CASE Awaited(d)
      BY <1>2, <3>1, <3>4, AwaitedStep
    <3>5. CASE Survives(d) /\ back'[d] = back[d]
      <4>1. PICK e \in Survivors(Kind[d]) : Records(e, d)
        BY <3>5 DEF Survives
      <4>2. e \in Survivors(Kind[d])'
        BY <1>2, <3>1, <3>2, <4>1, SurvivorsStep
      <4> QED BY <3>5, <4>1, <4>2 DEF Survives, Records
    <3> QED BY <3>1, <3>2, <3>3, <3>4, <3>5 DEF Covered
  <2> QED BY <2>2, <2>3
<1> QED BY <1>1, <1>2
-----------------------------------------------------------------------------
LEMMA InitInvariant == Init => IInv
<1> SUFFICES ASSUME Init PROVE IInv
  OBVIOUS
<1> USE ConstantsAssumption, NoEntryAssumption DEF Init, ConstantsAssumption
<1>2. scan \in ScanType
  BY DEF NoScan, ScanType, StackKind
<1>3. TypeOK
  <2>1. KernelOK /\ ViewOK
    BY DEF KernelOK, ViewOK, Crypto
  <2>2. StateOK
    BY <1>2 DEF StateOK
  <2>3. HandlerOK
    BY DEF HandlerOK, PC, Op
  <2> QED BY <2>1, <2>2, <2>3 DEF TypeOK
<1>4. OursAreSetUp /\ Covered
  BY DEF OursAreSetUp, Covered
<1>5. ScanOK
  BY DEF ScanOK, NoScan
<1>6. HandlerShape /\ HeldUntilRecorded
  BY DEF HandlerShape, ShapeOf, HeldUntilRecorded, Pending
<1> QED BY <1>3, <1>4, <1>5, <1>6 DEF IInv

(* What udisksd sets up is on record or about to be: no step of the        *)
(* clean-up thread, of a handler or of the world ends that, for any number *)
(* of devices and threads and any budget (udisks_state_check_in_thread and *)
(* the udisks_state_add functions).                                        *)
THEOREM StackInvariance == Spec => []IInv
<1>1. Init => IInv
  BY InitInvariant
<1>2. IInv /\ [Next]_vars => IInv'
  <2> SUFFICES ASSUME IInv, [Next]_vars PROVE IInv'
    OBVIOUS
  <2>1. TypeOK' /\ HandlerShape'
    BY TypeStep, ShapeStep DEF IInv
  <2>2. OursAreSetUp' /\ HeldUntilRecorded'
    BY OursAreSetUpStep, HeldStep DEF IInv
  <2>3. ScanOK' /\ Covered'
    BY ScanStep, CoveredStep DEF IInv
  <2> QED BY <2>1, <2>2, <2>3 DEF IInv
<1> QED BY <1>1, <1>2, PTL DEF Spec

(* The state stays well formed.                                            *)
THEOREM StackTypeCorrect == Spec => []TypeOK
<1>1. IInv => TypeOK
  BY DEF IInv
<1> QED BY <1>1, StackInvariance, PTL

(* Whatever handle_unlock, handle_loop_setup or handle_start set up is     *)
(* listed in its state file or about to be, pass or no pass.               *)
THEOREM SetUpsRecorded == Spec => []SetUpRecorded
<1>1. IInv => SetUpRecorded
  <2> SUFFICES ASSUME IInv, NEW d \in ours \ disturbed
               PROVE  \/ back[d] = Moved
                      \/ \E e \in files[Kind[d]] : Records(e, d)
                      \/ \E t \in Thread : Pending(t) /\ dev[t] = d
    BY DEF SetUpRecorded
  <2>1. Survivors(Kind[d]) \subseteq files[Kind[d]]
    BY DEF Survivors, ScanOK, IInv
  <2> QED BY <2>1 DEF IInv, Covered, Awaited, Survives
<1> QED BY <1>1, StackInvariance, PTL

LEMMA UniqueStep ==
    ASSUME IInv, OneEntryPerDevice, [Next]_vars
    PROVE  OneEntryPerDevice'
<1> USE DEF IInv, TypeOK, StateOK
<1>0. OneEntryPerDevice <=> \A k \in StackKind : \A e1, e2 \in files[k] : e1.dev = e2.dev => e1 = e2
  BY DEF OneEntryPerDevice
<1>1. CASE UNCHANGED files
  BY <1>1 DEF OneEntryPerDevice
<1>2. CASE SaveFile
  <2>1. scan.phase = "clean" /\ scan.kept \subseteq files[scan.kind] /\ scan.kind \in StackKind
    BY <1>2 DEF SaveFile, ScanOK, ScanType
  <2>2. \A k \in StackKind : files'[k] \subseteq files[k]
    BY <1>2, <2>1 DEF SaveFile
  <2> QED BY <2>2 DEF OneEntryPerDevice
<1>3. ASSUME NEW t \in Thread, Record(t) PROVE OneEntryPerDevice'
  <2>1. CASE op[t] = "mount"
    BY <1>1, <1>3, <2>1 DEF Record
  <2>2. CASE op[t] # "mount"
    <3> DEFINE e == [dev |-> dev[t], of |-> arg[t]]
    <3>1. \A k \in StackKind : files'[k] = files[k] \/ files'[k] = AddEntry(files[k], e)
      BY <1>3, <2>2 DEF Record
    <3>2. e.dev = dev[t]
      OBVIOUS
    <3> HIDE DEF e
    <3> SUFFICES ASSUME NEW k \in StackKind, NEW e1 \in files'[k], NEW e2 \in files'[k],
                        e1.dev = e2.dev
                 PROVE  e1 = e2
      BY DEF OneEntryPerDevice
    <3>3. CASE files'[k] = files[k]
      BY <3>3 DEF OneEntryPerDevice
    <3>4. CASE files'[k] = AddEntry(files[k], e)
      BY <3>4 DEF OneEntryPerDevice, AddEntry
    <3> QED BY <3>1, <3>3, <3>4
  <2> QED BY <2>1, <2>2
<1>4. CASE Pass /\ ~SaveFile
  BY <1>1, <1>4 DEF Pass, Decide, Decided, KeepFs, CleanFs, FsDone, CheckEntry,
                    CloseStale, CloseStaleFails
<1>5. CASE StartPass \/ Restart
  BY <1>1, <1>5 DEF StartPass, Restart
<1> QED BY <1>1, <1>2, <1>3, <1>4, <1>5, FilesChange

(* No device is ever listed twice, so the pass cannot close what was set   *)
(* up again under the same number on account of an older entry.            *)
THEOREM StackEntriesUnique == Spec => []OneEntryPerDevice
<1>1. Init => OneEntryPerDevice
  BY DEF Init, OneEntryPerDevice
<1>2. IInv /\ OneEntryPerDevice /\ [Next]_vars => OneEntryPerDevice'
  BY UniqueStep
<1> QED BY <1>1, <1>2, StackInvariance, PTL DEF Spec
=============================================================================
