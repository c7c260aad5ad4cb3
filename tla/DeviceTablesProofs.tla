------------------------- MODULE DeviceTablesProofs -------------------------
(***************************************************************************)
(* What holds of DeviceTables for every machine, any number of changes of  *)
(* the world and of uevents on their way, checked by TLAPS.                *)
(***************************************************************************)
EXTENDS DeviceTables, FiniteSetTheorems, TLAPS

(* What the uevents in a queue say of a device, but for the refreshes of   *)
(* its block object: nothing; in the end e; that it comes, or at least     *)
(* that it does not go.                                                    *)
Quiet(s, p) == \A i \in DOMAIN s : s[i].path = p => s[i].act = "refresh"

Last(s, p, e) ==
    \E i \in DOMAIN s : /\ s[i] = e /\ e.path = p /\ e.act # "refresh"
                        /\ \A j \in DOMAIN s : j > i /\ s[j].path = p => s[j].act = "refresh"

Stays(s, p) == \A i \in DOMAIN s : s[i].path = p => s[i].act # "remove"

Comes(s, p) ==
    \E i \in DOMAIN s : /\ s[i].path = p /\ s[i].act = "add"
                        /\ \A j \in DOMAIN s : j > i /\ s[j].path = p => s[j].act # "remove"

(* The same of what is on its way to the main thread, and of that with     *)
(* what the main thread has at hand, which comes first.                    *)
QuietQueue(p)   == Quiet(posted, p) /\ Quiet(bus, p)
LastQueue(p, e) == Last(bus, p, e) \/ (Quiet(bus, p) /\ Last(posted, p, e))
StaysQueue(p)   == Stays(posted, p) /\ Stays(bus, p)
ComesQueue(p)   == Comes(bus, p) \/ (Stays(bus, p) /\ Comes(posted, p))

QuietAll(p)   == QuietQueue(p) /\ Quiet(todo, p)
LastAll(p, e) == LastQueue(p, e) \/ (QuietQueue(p) /\ Last(todo, p, e))
StaysAll(p)   == StaysQueue(p) /\ Stays(todo, p)
ComesAll(p)   == ComesQueue(p) \/ (StaysQueue(p) /\ Comes(todo, p))

(* The machine and the queues.                                             *)
WorldShape ==
    /\ \A p \in present : On(p) \in OrAbsent(present)
    /\ \A p \in Paths : array[p] # Absent => Kind(p) = "md" /\ array[p] \in machine.arrays[p]

EventShape(e) ==
    /\ e.flag \in {"media", "bogus"} => e.act = "change"
    /\ e.flag = "disabled" => e.act = "add" /\ Kind(e.path) = "dm"
    /\ e.array # Absent => Kind(e.path) = "md"
    /\ e.array \in Uuids => e.array \in machine.arrays[e.path]

QueueShape ==
    /\ \A i \in DOMAIN bus : EventShape(bus[i]) /\ bus[i].act # "refresh"
    /\ \A i \in DOMAIN posted : EventShape(posted[i]) /\ posted[i].act # "refresh"
    /\ \A i \in DOMAIN todo : /\ EventShape(todo[i]) /\ todo[i].act \in {"add", "refresh"}
                              /\ todo[i].flag = "none"
    /\ ~listening => bus = <<>> /\ posted = <<>>

StartShape ==
    /\ pc = "new" => todo = <<>> /\ tables = NoTables
    /\ ~tables.loaded => tables.claimed = {}
    /\ \A p \in Paths : ~IsBlock(p) => tables.block[p] = Absent /\ p \notin tables.claimed
    /\ \/ \A i \in DOMAIN todo : todo[i].act = "add"
       \/ \A i \in DOMAIN todo : /\ todo[i].act = "refresh"
                                 /\ IsBlock(todo[i].path) /\ tables.block[todo[i].path] # Absent
                                 /\ tables.block[todo[i].path].label = todo[i].label

(* Pointers are to objects that are there, or known to be of the past.     *)
PointersOK(T) ==
    \A p \in Paths : /\ T.arrayPath[p] \in Uuids => T.mdraid[T.arrayPath[p]] # Absent
                     /\ T.memberPath[p] \in Uuids =>
                           /\ T.mdraid[T.memberPath[p]] # Absent
                           /\ p \in T.mdraid[T.memberPath[p]].members
                     /\ T.memberPath[p] # Freed

(* The two tables of drives agree, and with the VPDs.                      *)
PathsOf(T, v) == {p \in Paths : T.drivePath[p] = v}

DrivesOK(T) ==
    /\ \A p \in Paths : T.drivePath[p] # Absent =>
          T.drivePath[p] = machine.vpd[p] /\ ShouldInclude(p)
    /\ \A v \in Vpds :
          T.drive[v] = IF PathsOf(T, v) = {} THEN Absent ELSE PathsOf(T, v)

SubsystemsOK(T) ==
    /\ \A p \in Paths : T.subsysPath[p] \in {Absent, machine.nqn[p]}
    /\ \A n \in Nqns : \A p \in T.subsys[n] : T.subsysPath[p] = n

TablesOK == PointersOK(tables) /\ DrivesOK(tables) /\ SubsystemsOK(tables)

(* The path of a device leads to an array that it may run, or to one of    *)
(* the past; if no other device may run it, to one that is there and knows *)
(* the device.                                                             *)
ArraysOK(T) ==
    \A p \in Paths : T.arrayPath[p] # Absent =>
        /\ Kind(p) = "md" /\ T.arrayPath[p] \in machine.arrays[p] \cup {Freed}
        /\ Alone(p) => /\ T.arrayPath[p] \in Uuids
                       /\ T.mdraid[T.arrayPath[p]] # Absent
                       /\ T.mdraid[T.arrayPath[p]].raid = p

(* The last uevent of a device tells how it is.                            *)
Agrees(p, e) ==
    /\ e.flag # "disabled"
    /\ e.act = "remove" <=> p \notin present
    /\ e.act # "remove" => e.label = label[p]

HasDrive(p) == tables.drivePath[p] # Absent
HasSubsystem(p) == p \in tables.subsys[machine.nqn[p]]

BlockAgrees(p) ==
    /\ tables.block[p] # Absent <=> p \in present /\ IsBlock(p)
    /\ tables.block[p] # Absent =>
         /\ tables.block[p].label = label[p]
         /\ tables.block[p].table = Partitioned(p)
         /\ tables.block[p].fs = (label[p] = "fs" /\ ~Partitioned(p))
    /\ tables.loaded => (p \in tables.claimed <=> tables.block[p] # Absent)

DeviceFollows(p) ==
    /\ \A e \in Events : LastAll(p, e) => Agrees(p, e)
    /\ p \in present => ComesQueue(p) \/ StaysQueue(p)
    /\ pc # "new" =>
         /\ p \in present /\ ShouldInclude(p) =>
              ComesAll(p) \/ (StaysAll(p) /\ HasDrive(p))
         /\ p \in present /\ machine.nqn[p] # Absent =>
              ComesAll(p) \/ (StaysAll(p) /\ HasSubsystem(p))
         /\ QuietAll(p) => /\ BlockAgrees(p)
                           /\ HasDrive(p) => p \in present
                           /\ machine.nqn[p] # Absent /\ HasSubsystem(p) => p \in present

Follows == \A p \in Paths \ slipped : DeviceFollows(p)

IInv == /\ TypeOK /\ WorldShape /\ QueueShape /\ StartShape /\ TablesOK
        /\ Follows /\ EveryDriveHasItsRun
-----------------------------------------------------------------------------
(* Queues: what is added at the end, what is taken from the front.         *)
LEMMA AppendSays ==
    ASSUME NEW S, NEW s \in Seq(S), NEW e \in S, NEW p
    PROVE  /\ Quiet(Append(s, e), p) <=> Quiet(s, p) /\ (e.path = p => e.act = "refresh")
           /\ \A x : Last(Append(s, e), p, x) <=>
                 IF e.path = p /\ e.act # "refresh" THEN x = e ELSE Last(s, p, x)
           /\ Stays(Append(s, e), p) <=> Stays(s, p) /\ (e.path = p => e.act # "remove")
           /\ Comes(Append(s, e), p) <=>
                 \/ e.path = p /\ e.act = "add"
                 \/ (e.path = p => e.act # "remove") /\ Comes(s, p)
<1> DEFINE t == Append(s, e)
           n == Len(s) + 1
<1>1. /\ DOMAIN t = 1..n /\ DOMAIN s = 1..(n - 1) /\ n \in Nat \ {0}
      /\ t[n] = e /\ \A i \in 1..(n - 1) : t[i] = s[i]
  OBVIOUS
<1> HIDE DEF t, n
<1>2. Quiet(t, p) <=> Quiet(s, p) /\ (e.path = p => e.act = "refresh")
  BY <1>1 DEF Quiet
<1>3. ASSUME NEW x
      PROVE  Last(t, p, x) <=>
                 IF e.path = p /\ e.act # "refresh" THEN x = e ELSE Last(s, p, x)
  <2>1. CASE e.path = p /\ e.act # "refresh"
    BY <1>1, <2>1 DEF Last
  <2>2. CASE ~(e.path = p /\ e.act # "refresh")
    <3>1. ASSUME Last(s, p, x)
          PROVE  Last(t, p, x)
      <4>1. PICK i \in 1..(n - 1) :
               /\ s[i] = x /\ x.path = p /\ x.act # "refresh"
               /\ \A j \in 1..(n - 1) : j > i /\ s[j].path = p => s[j].act = "refresh"
        BY <1>1, <3>1 DEF Last
      <4>2. i \in DOMAIN t /\ t[i] = x
        BY <1>1, <4>1
      <4>3. \A j \in 1..n : j > i /\ t[j].path = p => t[j].act = "refresh"
        BY <1>1, <2>2, <4>1
      <4> QED BY <1>1, <4>1, <4>2, <4>3 DEF Last
    <3>2. ASSUME Last(t, p, x)
          PROVE  Last(s, p, x)
      <4>1. PICK i \in 1..n :
               /\ t[i] = x /\ x.path = p /\ x.act # "refresh"
               /\ \A j \in 1..n : j > i /\ t[j].path = p => t[j].act = "refresh"
        BY <1>1, <3>2 DEF Last
      <4>2. i # n
        BY <1>1, <2>2, <4>1
      <4>3. i \in 1..(n - 1)
        BY <1>1, <4>2
      <4> QED BY <1>1, <4>1, <4>3 DEF Last
    <3> QED BY <2>2, <3>1, <3>2
  <2> QED BY <2>1, <2>2
<1>4. Stays(t, p) <=> Stays(s, p) /\ (e.path = p => e.act # "remove")
  BY <1>1 DEF Stays
<1>5. Comes(t, p) <=> \/ e.path = p /\ e.act = "add"
                      \/ (e.path = p => e.act # "remove") /\ Comes(s, p)
  <2>1. ASSUME Comes(t, p)
        PROVE  \/ e.path = p /\ e.act = "add"
               \/ (e.path = p => e.act # "remove") /\ Comes(s, p)
    <3>1. PICK i \in 1..n :
             /\ t[i].path = p /\ t[i].act = "add"
             /\ \A j \in 1..n : j > i /\ t[j].path = p => t[j].act # "remove"
      BY <1>1, <2>1 DEF Comes
    <3>2. CASE i = n
      BY <1>1, <3>1, <3>2
    <3>3. CASE i # n
      <4>1. i \in 1..(n - 1) /\ i < n
        BY <1>1, <3>3
      <4> QED BY <1>1, <3>1, <4>1 DEF Comes
    <3> QED BY <3>2, <3>3
  <2>2. ASSUME e.path = p, e.act = "add"
        PROVE  Comes(t, p)
    BY <1>1, <2>2 DEF Comes
  <2>3. ASSUME e.path = p => e.act # "remove", Comes(s, p)
        PROVE  Comes(t, p)
    <3>1. PICK i \in 1..(n - 1) :
             /\ s[i].path = p /\ s[i].act = "add"
             /\ \A j \in 1..(n - 1) : j > i /\ s[j].path = p => s[j].act # "remove"
      BY <1>1, <2>3 DEF Comes
    <3>2. i \in DOMAIN t /\ t[i] = s[i]
      BY <1>1
    <3>3. \A j \in 1..n : j > i /\ t[j].path = p => t[j].act # "remove"
      BY <1>1, <2>3, <3>1
    <3> QED BY <1>1, <3>1, <3>2, <3>3 DEF Comes
  <2> QED BY <2>1, <2>2, <2>3
<1> QED BY <1>2, <1>3, <1>4, <1>5 DEF t

(* One queue after another: the second is heard last.                      *)
LEMMA ConcatSays ==
    ASSUME NEW S, NEW s \in Seq(S), NEW t \in Seq(S), NEW p
    PROVE  /\ Quiet(s \o t, p) <=> Quiet(s, p) /\ Quiet(t, p)
           /\ \A x : Last(s \o t, p, x) => Last(t, p, x) \/ (Quiet(t, p) /\ Last(s, p, x))
           /\ Stays(s \o t, p) <=> Stays(s, p) /\ Stays(t, p)
           /\ Comes(s \o t, p) <=> Comes(t, p) \/ (Stays(t, p) /\ Comes(s, p))
<1> DEFINE u == s \o t
           m == Len(s)
           n == Len(t)
<1>1. /\ DOMAIN u = 1..(m + n) /\ DOMAIN s = 1..m /\ DOMAIN t = 1..n
      /\ m \in Nat /\ n \in Nat
      /\ \A i \in 1..m : u[i] = s[i] /\ i \in 1..(m + n)
      /\ \A i \in 1..n : u[m + i] = t[i] /\ m + i \in 1..(m + n) /\ m + i > m
      /\ \A i \in 1..(m + n) : i \in 1..m \/ (i - m \in 1..n /\ u[i] = t[i - m])
  OBVIOUS
<1> HIDE DEF u, m, n
<1>2. Quiet(u, p) <=> Quiet(s, p) /\ Quiet(t, p)
  <2>1. ASSUME Quiet(u, p)
        PROVE  Quiet(s, p) /\ Quiet(t, p)
    <3>1. Quiet(s, p)
      BY <1>1, <2>1 DEF Quiet
    <3>2. ASSUME NEW j \in 1..n, t[j].path = p
          PROVE  t[j].act = "refresh"
      <4>1. u[m + j] = t[j] /\ m + j \in DOMAIN u
        BY <1>1
      <4> QED BY <2>1, <3>2, <4>1 DEF Quiet
    <3> QED BY <1>1, <3>1, <3>2 DEF Quiet
  <2>2. ASSUME Quiet(s, p), Quiet(t, p), NEW j \in 1..(m + n), u[j].path = p
        PROVE  u[j].act = "refresh"
    <3>1. CASE j \in 1..m
      BY <1>1, <2>2, <3>1 DEF Quiet
    <3>2. CASE j \notin 1..m
      BY <1>1, <2>2, <3>2 DEF Quiet
    <3> QED BY <3>1, <3>2
  <2> QED BY <1>1, <2>1, <2>2 DEF Quiet
<1>3. Stays(u, p) <=> Stays(s, p) /\ Stays(t, p)
  <2>1. ASSUME Stays(u, p)
        PROVE  Stays(s, p) /\ Stays(t, p)
    <3>1. Stays(s, p)
      BY <1>1, <2>1 DEF Stays
    <3>2. ASSUME NEW j \in 1..n, t[j].path = p
          PROVE  t[j].act # "remove"
      <4>1. u[m + j] = t[j] /\ m + j \in DOMAIN u
        BY <1>1
      <4> QED BY <2>1, <3>2, <4>1 DEF Stays
    <3> QED BY <1>1, <3>1, <3>2 DEF Stays
  <2>2. ASSUME Stays(s, p), Stays(t, p), NEW j \in 1..(m + n), u[j].path = p
        PROVE  u[j].act # "remove"
    <3>1. CASE j \in 1..m
      BY <1>1, <2>2, <3>1 DEF Stays
    <3>2. CASE j \notin 1..m
      BY <1>1, <2>2, <3>2 DEF Stays
    <3> QED BY <3>1, <3>2
  <2> QED BY <1>1, <2>1, <2>2 DEF Stays
<1>4. ASSUME NEW x, Last(u, p, x)
      PROVE  Last(t, p, x) \/ (Quiet(t, p) /\ Last(s, p, x))
  <2>1. PICK i \in 1..(m + n) :
           /\ u[i] = x /\ x.path = p /\ x.act # "refresh"
           /\ \A j \in 1..(m + n) : j > i /\ u[j].path = p => u[j].act = "refresh"
    BY <1>1, <1>4 DEF Last
  <2>2. CASE i \in 1..m
    <3>1. Quiet(t, p)
      <4> SUFFICES ASSUME NEW j \in 1..n, t[j].path = p
                   PROVE  t[j].act = "refresh"
        BY <1>1 DEF Quiet
      <4>1. m + j > i
        BY <1>1, <2>2
      <4> QED BY <1>1, <2>1, <4>1
    <3>2. Last(s, p, x)
      BY <1>1, <2>1, <2>2 DEF Last
    <3> QED BY <3>1, <3>2
  <2>3. CASE i \notin 1..m
    <3>1. i - m \in 1..n /\ t[i - m] = x
      BY <1>1, <2>1, <2>3
    <3>2. ASSUME NEW j \in 1..n, j > i - m, t[j].path = p
          PROVE  t[j].act = "refresh"
      <4>1. m + j > i
        BY <1>1, <3>2
      <4> QED BY <1>1, <2>1, <3>2, <4>1
    <3> QED BY <1>1, <2>1, <3>1, <3>2 DEF Last
  <2> QED BY <2>2, <2>3
<1>5. Comes(u, p) <=> Comes(t, p) \/ (Stays(t, p) /\ Comes(s, p))
  <2>1. ASSUME Comes(u, p)
        PROVE  Comes(t, p) \/ (Stays(t, p) /\ Comes(s, p))
    <3>1. PICK i \in 1..(m + n) :
             /\ u[i].path = p /\ u[i].act = "add"
             /\ \A j \in 1..(m + n) : j > i /\ u[j].path = p => u[j].act # "remove"
      BY <1>1, <2>1 DEF Comes
    <3>2. CASE i \in 1..m
      <4>1. ASSUME NEW j \in 1..n, t[j].path = p
            PROVE  t[j].act # "remove"
        <5>1. m + j > i
          BY <1>1, <3>2
        <5> QED BY <1>1, <3>1, <4>1, <5>1
      <4>2. Stays(t, p)
        BY <1>1, <4>1 DEF Stays
      <4>3. Comes(s, p)
        <5>1. s[i].path = p /\ s[i].act = "add"
          BY <1>1, <3>1, <3>2
        <5>2. ASSUME NEW j \in 1..m, j > i, s[j].path = p
              PROVE  s[j].act # "remove"
          BY <1>1, <3>1, <5>2
        <5> QED BY <1>1, <3>2, <5>1, <5>2 DEF Comes
      <4> QED BY <4>2, <4>3
    <3>3. CASE i \notin 1..m
      <4>1. i - m \in 1..n /\ t[i - m] = u[i]
        BY <1>1, <3>1, <3>3
      <4>2. ASSUME NEW j \in 1..n, j > i - m, t[j].path = p
            PROVE  t[j].act # "remove"
        <5>1. m + j > i
          BY <1>1, <4>2
        <5> QED BY <1>1, <3>1, <4>2, <5>1
      <4> QED BY <1>1, <3>1, <4>1, <4>2 DEF Comes
    <3> QED BY <3>2, <3>3
  <2>2. ASSUME Comes(t, p)
        PROVE  Comes(u, p)
    <3>1. PICK i \in 1..n :
             /\ t[i].path = p /\ t[i].act = "add"
             /\ \A j \in 1..n : j > i /\ t[j].path = p => t[j].act # "remove"
      BY <1>1, <2>2 DEF Comes
    <3>2. m + i \in DOMAIN u /\ u[m + i] = t[i]
      BY <1>1
    <3>3. ASSUME NEW j \in 1..(m + n), j > m + i, u[j].path = p
          PROVE  u[j].act # "remove"
      <4>1. j \notin 1..m /\ j - m > i
        BY <1>1, <3>3
      <4> QED BY <1>1, <3>1, <3>3, <4>1
    <3> QED BY <1>1, <3>1, <3>2, <3>3 DEF Comes
  <2>3. ASSUME Stays(t, p), Comes(s, p)
        PROVE  Comes(u, p)
    <3>1. PICK i \in 1..m :
             /\ s[i].path = p /\ s[i].act = "add"
             /\ \A j \in 1..m : j > i /\ s[j].path = p => s[j].act # "remove"
      BY <1>1, <2>3 DEF Comes
    <3>2. ASSUME NEW j \in 1..(m + n), j > i, u[j].path = p
          PROVE  u[j].act # "remove"
      <4>1. CASE j \in 1..m
        BY <1>1, <3>1, <3>2, <4>1
      <4>2. CASE j \notin 1..m
        BY <1>1, <2>3, <3>2, <4>2 DEF Stays
      <4> QED BY <4>1, <4>2
    <3> QED BY <1>1, <3>1, <3>2 DEF Comes
  <2> QED BY <2>1, <2>2, <2>3
<1> QED BY <1>2, <1>3, <1>4, <1>5 DEF u

LEMMA TailSays ==
    ASSUME NEW S, NEW s \in Seq(S), s # <<>>, NEW p
    PROVE  /\ Quiet(s, p) <=> Quiet(Tail(s), p) /\ (Head(s).path = p => Head(s).act = "refresh")
           /\ \A x : Last(s, p, x) <=>
                 \/ Last(Tail(s), p, x)
                 \/ /\ Quiet(Tail(s), p) /\ x = Head(s)
                    /\ Head(s).path = p /\ Head(s).act # "refresh"
           /\ Stays(s, p) <=> Stays(Tail(s), p) /\ (Head(s).path = p => Head(s).act # "remove")
           /\ Comes(s, p) <=>
                 \/ Comes(Tail(s), p)
                 \/ Stays(Tail(s), p) /\ Head(s).path = p /\ Head(s).act = "add"
<1> DEFINE t == Tail(s)
           n == Len(s)
<1>1. /\ DOMAIN t = 1..(n - 1) /\ DOMAIN s = 1..n /\ n \in Nat \ {0} /\ Head(s) = s[1]
      /\ \A i \in 1..(n - 1) : t[i] = s[i + 1] /\ i + 1 \in 1..n
      /\ \A i \in 1..n : i = 1 \/ (i - 1 \in 1..(n - 1) /\ s[i] = t[i - 1])
  OBVIOUS
<1> HIDE DEF t, n
<1>2. Quiet(s, p) <=> Quiet(t, p) /\ (Head(s).path = p => Head(s).act = "refresh")
  <2>1. ASSUME Quiet(s, p)
        PROVE  Quiet(t, p) /\ (Head(s).path = p => Head(s).act = "refresh")
    <3>1. ASSUME NEW j \in 1..(n - 1), t[j].path = p
          PROVE  t[j].act = "refresh"
      <4>1. s[j + 1] = t[j] /\ j + 1 \in DOMAIN s
        BY <1>1
      <4> QED BY <2>1, <3>1, <4>1 DEF Quiet
    <3>2. 1 \in DOMAIN s
      BY <1>1
    <3> QED BY <1>1, <2>1, <3>1, <3>2 DEF Quiet
  <2>2. ASSUME Quiet(t, p), Head(s).path = p => Head(s).act = "refresh",
               NEW j \in 1..n, s[j].path = p
        PROVE  s[j].act = "refresh"
    <3>1. CASE j = 1
      BY <1>1, <2>2, <3>1
    <3>2. CASE j # 1
      BY <1>1, <2>2, <3>2 DEF Quiet
    <3> QED BY <3>1, <3>2
  <2> QED BY <1>1, <2>1, <2>2 DEF Quiet
<1>3. Stays(s, p) <=> Stays(t, p) /\ (Head(s).path = p => Head(s).act # "remove")
  <2>1. ASSUME Stays(s, p)
        PROVE  Stays(t, p) /\ (Head(s).path = p => Head(s).act # "remove")
    <3>1. ASSUME NEW j \in 1..(n - 1), t[j].path = p
          PROVE  t[j].act # "remove"
      <4>1. s[j + 1] = t[j] /\ j + 1 \in DOMAIN s
        BY <1>1
      <4> QED BY <2>1, <3>1, <4>1 DEF Stays
    <3>2. 1 \in DOMAIN s
      BY <1>1
    <3> QED BY <1>1, <2>1, <3>1, <3>2 DEF Stays
  <2>2. ASSUME Stays(t, p), Head(s).path = p => Head(s).act # "remove",
               NEW j \in 1..n, s[j].path = p
        PROVE  s[j].act # "remove"
    <3>1. CASE j = 1
      BY <1>1, <2>2, <3>1
    <3>2. CASE j # 1
      BY <1>1, <2>2, <3>2 DEF Stays
    <3> QED BY <3>1, <3>2
  <2> QED BY <1>1, <2>1, <2>2 DEF Stays
<1>4. ASSUME NEW x
      PROVE  Last(s, p, x) <=>
                 \/ Last(t, p, x)
                 \/ /\ Quiet(t, p) /\ x = Head(s)
                    /\ Head(s).path = p /\ Head(s).act # "refresh"
  <2>1. ASSUME Last(s, p, x)
        PROVE  \/ Last(t, p, x)
               \/ /\ Quiet(t, p) /\ x = Head(s)
                  /\ Head(s).path = p /\ Head(s).act # "refresh"
    <3>1. PICK i \in 1..n :
             /\ s[i] = x /\ x.path = p /\ x.act # "refresh"
             /\ \A j \in 1..n : j > i /\ s[j].path = p => s[j].act = "refresh"
      BY <1>1, <2>1 DEF Last
    <3>2. CASE i = 1
      <4>1. ASSUME NEW j \in 1..(n - 1), t[j].path = p
            PROVE  t[j].act = "refresh"
        <5>1. j + 1 > 1 /\ s[j + 1] = t[j] /\ j + 1 \in 1..n
          BY <1>1
        <5> QED BY <3>1, <3>2, <4>1, <5>1
      <4> QED BY <1>1, <3>1, <3>2, <4>1 DEF Quiet
    <3>3. CASE i # 1
      <4>1. i - 1 \in 1..(n - 1) /\ t[i - 1] = x
        BY <1>1, <3>1, <3>3
      <4>2. ASSUME NEW j \in 1..(n - 1), j > i - 1, t[j].path = p
            PROVE  t[j].act = "refresh"
        <5>1. j + 1 > i /\ s[j + 1] = t[j] /\ j + 1 \in 1..n
          BY <1>1, <4>2
        <5> QED BY <3>1, <4>2, <5>1
      <4> QED BY <1>1, <3>1, <4>1, <4>2 DEF Last
    <3> QED BY <3>2, <3>3
  <2>2. ASSUME Last(t, p, x)
        PROVE  Last(s, p, x)
    <3>1. PICK i \in 1..(n - 1) :
             /\ t[i] = x /\ x.path = p /\ x.act # "refresh"
             /\ \A j \in 1..(n - 1) : j > i /\ t[j].path = p => t[j].act = "refresh"
      BY <1>1, <2>2 DEF Last
    <3>2. i + 1 \in 1..n /\ s[i + 1] = x
      BY <1>1, <3>1
    <3>3. ASSUME NEW j \in 1..n, j > i + 1, s[j].path = p
          PROVE  s[j].act = "refresh"
      <4>1. j # 1 /\ j - 1 > i
        BY <1>1, <3>3
      <4> QED BY <1>1, <3>1, <3>3, <4>1
    <3> QED BY <1>1, <3>1, <3>2, <3>3 DEF Last
  <2>3. ASSUME Quiet(t, p), x = s[1], s[1].path = p, s[1].act # "refresh"
        PROVE  Last(s, p, x)
    <3>1. ASSUME NEW j \in 1..n, j > 1, s[j].path = p
          PROVE  s[j].act = "refresh"
      BY <1>1, <2>3, <3>1 DEF Quiet
    <3> QED BY <1>1, <2>3, <3>1 DEF Last
  <2> QED BY <1>1, <2>1, <2>2, <2>3
<1>5. Comes(s, p) <=> \/ Comes(t, p)
                      \/ Stays(t, p) /\ Head(s).path = p /\ Head(s).act = "add"
  <2>1. ASSUME Comes(s, p)
        PROVE  \/ Comes(t, p)
               \/ Stays(t, p) /\ Head(s).path = p /\ Head(s).act = "add"
    <3>1. PICK i \in 1..n :
             /\ s[i].path = p /\ s[i].act = "add"
             /\ \A j \in 1..n : j > i /\ s[j].path = p => s[j].act # "remove"
      BY <1>1, <2>1 DEF Comes
    <3>2. CASE i = 1
      <4>1. ASSUME NEW j \in 1..(n - 1), t[j].path = p
            PROVE  t[j].act # "remove"
        <5>1. j + 1 > 1 /\ s[j + 1] = t[j] /\ j + 1 \in 1..n
          BY <1>1
        <5> QED BY <3>1, <3>2, <4>1, <5>1
      <4> QED BY <1>1, <3>1, <3>2, <4>1 DEF Stays
    <3>3. CASE i # 1
      <4>1. i - 1 \in 1..(n - 1) /\ t[i - 1] = s[i]
        BY <1>1, <3>3
      <4>2. ASSUME NEW j \in 1..(n - 1), j > i - 1, t[j].path = p
            PROVE  t[j].act # "remove"
        <5>1. j + 1 > i /\ s[j + 1] = t[j] /\ j + 1 \in 1..n
          BY <1>1, <4>2
        <5> QED BY <3>1, <4>2, <5>1
      <4> QED BY <1>1, <3>1, <4>1, <4>2 DEF Comes
    <3> QED BY <3>2, <3>3
  <2>2. ASSUME Comes(t, p)
        PROVE  Comes(s, p)
    <3>1. PICK i \in 1..(n - 1) :
             /\ t[i].path = p /\ t[i].act = "add"
             /\ \A j \in 1..(n - 1) : j > i /\ t[j].path = p => t[j].act # "remove"
      BY <1>1, <2>2 DEF Comes
    <3>2. i + 1 \in 1..n /\ s[i + 1] = t[i]
      BY <1>1
    <3>3. ASSUME NEW j \in 1..n, j > i + 1, s[j].path = p
          PROVE  s[j].act # "remove"
      <4>1. j # 1 /\ j - 1 > i
        BY <1>1, <3>3
      <4> QED BY <1>1, <3>1, <3>3, <4>1
    <3> QED BY <1>1, <3>1, <3>2, <3>3 DEF Comes
  <2>3. ASSUME Stays(t, p), s[1].path = p, s[1].act = "add"
        PROVE  Comes(s, p)
    <3>1. ASSUME NEW j \in 1..n, j > 1, s[j].path = p
          PROVE  s[j].act # "remove"
      BY <1>1, <2>3, <3>1 DEF Stays
    <3> QED BY <1>1, <2>3, <3>1 DEF Comes
  <2> QED BY <1>1, <2>1, <2>2, <2>3
<1> QED BY <1>2, <1>3, <1>4, <1>5 DEF t

-----------------------------------------------------------------------------
(* What a machine is.                                                      *)
LEMMA MachineShape ==
    ASSUME machine \in Setups
    PROVE  /\ Devices \subseteq Paths
           /\ \A p \in Paths :
                /\ Kind(p) \in Kinds /\ On(p) \in OrAbsent(Paths)
                /\ machine.vpd[p] \in OrAbsent(Vpds) /\ machine.nqn[p] \in OrAbsent(Nqns)
                /\ Kind(p) \in {"partition", "dm"} <=> On(p) # Absent
                /\ machine.nqn[p] # Absent => Kind(p) \in {"controller", "namespace"}
                /\ machine.arrays[p] \subseteq Uuids
           /\ Absent \notin Paths \cup Vpds \cup Uuids \cup Nqns
           /\ Absent \notin BlockObject /\ Absent \notin ArrayObject
           /\ Freed \notin Vpds \cup Uuids \cup {Absent} /\ Bogus \notin Uuids
<1>1. machine \in Machine
  BY DeviceTablesAssumption
<1>2. Devices \subseteq Paths
  <2>1. machine.order \in Seq(Paths)
    BY <1>1 DEF Machine
  <2> QED BY <2>1 DEF Devices
<1>3. ASSUME NEW p \in Paths
      PROVE  /\ Kind(p) \in Kinds /\ On(p) \in OrAbsent(Paths)
             /\ machine.vpd[p] \in OrAbsent(Vpds) /\ machine.nqn[p] \in OrAbsent(Nqns)
             /\ machine.arrays[p] \subseteq Uuids
  BY <1>1, <1>3 DEF Machine, Kind, On
<1>4. ASSUME NEW p \in Paths
      PROVE  /\ Kind(p) \in {"partition", "dm"} <=> On(p) # Absent
             /\ machine.nqn[p] # Absent => Kind(p) \in {"controller", "namespace"}
  BY DeviceTablesAssumption, <1>4 DEF Kind, On
<1>5. /\ Absent \notin Paths \cup Vpds \cup Uuids \cup Nqns
      /\ Absent \notin BlockObject /\ Absent \notin ArrayObject
      /\ Freed \notin Vpds \cup Uuids \cup {Absent} /\ Bogus \notin Uuids
  BY DeviceTablesAssumption
<1> QED BY <1>2, <1>3, <1>4, <1>5

(* The machine has finitely many devices.                                  *)
LEMMA DevicesFinite ==
    ASSUME machine \in Setups, NEW S \in SUBSET Devices
    PROVE  IsFiniteSet(S) /\ Cardinality(S) \in Nat
<1>1. machine.order \in Seq(Paths)
  BY DeviceTablesAssumption DEF Machine
<1> DEFINE D == 1..Len(machine.order)
           f == [i \in D |-> machine.order[i]]
<1>2. IsFiniteSet(D)
  BY <1>1, FS_Interval
<1>3. f \in Surjection(D, Devices)
  BY <1>1 DEF Devices, Surjection
<1>4. IsFiniteSet(Devices)
  BY <1>2, <1>3, FS_Surjection
<1>5. IsFiniteSet(S)
  BY <1>4, FS_Subset
<1> QED BY <1>5, FS_CardinalityType

(* What each handler leaves alone.                                         *)
ArraysAlone(T, U) ==
    U.mdraid = T.mdraid /\ U.arrayPath = T.arrayPath /\ U.memberPath = T.memberPath
DrivesAlone(T, U)     == U.drive = T.drive /\ U.drivePath = T.drivePath
SubsystemsAlone(T, U) == U.subsys = T.subsys /\ U.subsysPath = T.subsysPath

(* handle_block_uevent_for_drive keeps the two tables of drives in step    *)
(* and leaves the entries of other devices alone.                          *)
DrivesBecome(T, U, f, g) ==
    /\ U.drive = f /\ U.drivePath = g
    /\ ArraysAlone(T, U) /\ SubsystemsAlone(T, U)
    /\ U.block = T.block /\ U.loaded = T.loaded /\ U.claimed = T.claimed

LEMMA DrivesReplaced ==
    ASSUME NEW T \in Tables, NEW f \in [Vpds -> OrAbsent((SUBSET Paths) \ {{}})],
           NEW g \in [Paths -> Vpds \cup {Absent, Freed}], NEW U,
           U = [T EXCEPT !.drive = f, !.drivePath = g]
    PROVE  U \in Tables /\ DrivesBecome(T, U, f, g)
<1>1. U \in Tables
  BY DEF Tables
<1>2. U.drive = f /\ U.drivePath = g
  BY DEF Tables
<1>3. ArraysAlone(T, U)
  BY DEF Tables, ArraysAlone
<1>4. SubsystemsAlone(T, U)
  BY DEF Tables, SubsystemsAlone
<1>5. U.block = T.block /\ U.loaded = T.loaded /\ U.claimed = T.claimed
  BY DEF Tables
<1> QED BY <1>1, <1>2, <1>3, <1>4, <1>5 DEF DrivesBecome

LEMMA TypesOfDrives ==
    ASSUME machine \in Setups, NEW T \in Tables, DrivesOK(T), NEW p \in Paths
    PROVE  /\ Absent \notin Vpds /\ Freed \notin Vpds /\ Freed # Absent
           /\ \A S \in SUBSET Paths : Absent # S
           /\ T.drive \in [Vpds -> OrAbsent((SUBSET Paths) \ {{}})]
           /\ T.drivePath \in [Paths -> Vpds \cup {Absent, Freed}]
           /\ machine.vpd[p] \in OrAbsent(Vpds)
           /\ T.drivePath[p] \in {Absent, machine.vpd[p]}
BY MachineShape, DeviceTablesAssumption DEF Tables, DrivesOK

(* One path more or less, and the drive follows.                           *)
LEMMA DriveFollowsPaths ==
    ASSUME machine \in Setups, NEW T \in Tables, DrivesOK(T), NEW p \in Paths, NEW v \in Vpds,
           v = machine.vpd[p], NEW x \in {Absent, v}, x # Absent => ShouldInclude(p),
           NEW S, S = (IF x = v THEN PathsOf(T, v) \cup {p} ELSE PathsOf(T, v) \ {p}),
           NEW U, DrivesBecome(T, U, [T.drive EXCEPT ![v] = IF S = {} THEN Absent ELSE S],
                                     [T.drivePath EXCEPT ![p] = x])
    PROVE  DrivesOK(U)
<1>1. /\ Absent \notin Vpds
      /\ T.drive \in [Vpds -> OrAbsent((SUBSET Paths) \ {{}})]
      /\ T.drivePath \in [Paths -> Vpds \cup {Absent, Freed}]
      /\ T.drivePath[p] \in {Absent, v}
      /\ U.drive = [T.drive EXCEPT ![v] = IF S = {} THEN Absent ELSE S]
      /\ U.drivePath = [T.drivePath EXCEPT ![p] = x]
  BY TypesOfDrives DEF DrivesBecome
<1>2. ASSUME NEW q \in Paths, U.drivePath[q] # Absent
      PROVE  U.drivePath[q] = machine.vpd[q] /\ ShouldInclude(q)
  BY <1>1, <1>2 DEF DrivesOK
<1>3. ASSUME NEW w \in Vpds
      PROVE  U.drive[w] = IF PathsOf(U, w) = {} THEN Absent ELSE PathsOf(U, w)
  <2>1. CASE w = v
    <3>1. PathsOf(U, w) = S
      BY <1>1, <2>1 DEF PathsOf
    <3> QED BY <1>1, <2>1, <3>1
  <2>2. CASE w # v
    <3>1. PathsOf(U, w) = PathsOf(T, w)
      BY <1>1, <2>2 DEF PathsOf
    <3>2. U.drive[w] = T.drive[w]
      BY <1>1, <2>2
    <3> QED BY <3>1, <3>2 DEF DrivesOK
  <2> QED BY <2>1, <2>2
<1> QED BY <1>2, <1>3 DEF DrivesOK

LEMMA RemovedFromDrive ==
    ASSUME machine \in Setups, NEW T \in Tables, DrivesOK(T), NEW e \in Events,
           e.act = "remove", NEW U, U = RemoveFromDrive(T, e)
    PROVE  /\ U \in Tables /\ DrivesOK(U)
           /\ DrivesBecome(T, U, U.drive, [T.drivePath EXCEPT ![e.path] = Absent])
<1> DEFINE p == e.path
           v == T.drivePath[p]
           S == PathsOf(T, v) \ {p}
           f == [T.drive EXCEPT ![v] = S]
           f0 == [T.drive EXCEPT ![v] = Absent]
           g == [T.drivePath EXCEPT ![p] = Absent]
           T1 == [T EXCEPT !.drive[v] = DriveUevent(@, e), !.drivePath[p] = Absent]
<1>0. p \in Paths
  BY DEF Events
<1>1. /\ Absent \notin Vpds /\ Freed \notin Vpds /\ Freed # Absent
      /\ T.drive \in [Vpds -> OrAbsent((SUBSET Paths) \ {{}})]
      /\ T.drivePath \in [Paths -> Vpds \cup {Absent, Freed}]
      /\ v \in {Absent, machine.vpd[p]}
      /\ machine.vpd[p] \in OrAbsent(Vpds)
  BY <1>0, TypesOfDrives
<1>2. CASE v = Absent
  <2>1. U = T
    BY <1>1, <1>2 DEF RemoveFromDrive
  <2>2. T.drivePath = g
    BY <1>0, <1>1, <1>2
  <2> QED BY <2>1, <2>2 DEF DrivesBecome, ArraysAlone, SubsystemsAlone
<1>3. CASE v # Absent
  <2>1. v \in Vpds /\ v = machine.vpd[p] /\ p \in PathsOf(T, v) /\ T.drive[v] = PathsOf(T, v)
    <3>1. v \in Vpds /\ v = machine.vpd[p] /\ p \in PathsOf(T, v)
      BY <1>0, <1>1, <1>3 DEF PathsOf, OrAbsent
    <3> QED BY <3>1 DEF DrivesOK
  <2>2. T1 = [T EXCEPT !.drive = f, !.drivePath = g]
    BY <1>3, <2>1 DEF DriveUevent, Tables
  <2>3. T1.drive = f /\ T1.drive[v] = S /\ T1.drivePath = g
    <3>1. T1.drive = f /\ T1.drivePath = g
      BY <2>2 DEF Tables
    <3>2. f[v] = S
      BY <1>1, <2>1
    <3> QED BY <3>1, <3>2
  <2>4. U = IF S = {} THEN DriveGone(T1, v) ELSE T1
    BY <2>1, <2>3 DEF RemoveFromDrive
  <2>5. g \in [Paths -> Vpds \cup {Absent, Freed}]
    BY <1>1
  <2> HIDE DEF T1
  <2>6. CASE S = {}
    <3>1. \A q \in Paths : g[q] # v
      BY <1>0, <1>1, <1>3, <2>6 DEF PathsOf
    <3>2. [q \in Paths |-> IF g[q] = v THEN Freed ELSE g[q]] = g
      BY <2>5, <3>1
    <3>3. DriveGone(T1, v) = [T1 EXCEPT !.drive = [T1.drive EXCEPT ![v] = Absent], !.drivePath = g]
      BY <2>3, <3>2 DEF DriveGone
    <3>5. [f EXCEPT ![v] = Absent] = f0
      BY <1>1, <2>1
    <3>6. [T1 EXCEPT !.drive = f0, !.drivePath = g] = [T EXCEPT !.drive = f0, !.drivePath = g]
      BY <2>2 DEF Tables
    <3>7. U = [T EXCEPT !.drive = f0, !.drivePath = g]
      BY <2>3, <2>4, <2>6, <3>3, <3>5, <3>6
    <3>8. f0 \in [Vpds -> OrAbsent((SUBSET Paths) \ {{}})]
      BY <1>1, <2>1 DEF OrAbsent
    <3>9. U \in Tables /\ DrivesBecome(T, U, f0, g)
      BY <2>5, <3>7, <3>8, DrivesReplaced
    <3>10. DrivesOK(U)
      BY <1>0, <1>1, <1>3, <2>1, <2>6, <3>9, DriveFollowsPaths
    <3> QED BY <3>9, <3>10 DEF DrivesBecome
  <2>7. CASE S # {}
    <3>1. U = [T EXCEPT !.drive = f, !.drivePath = g]
      BY <2>2, <2>4, <2>7
    <3>2. S \in OrAbsent((SUBSET Paths) \ {{}})
      <4>1. S \subseteq Paths
        BY DEF PathsOf
      <4> QED BY <2>7, <4>1 DEF OrAbsent
    <3>3. f \in [Vpds -> OrAbsent((SUBSET Paths) \ {{}})]
      BY <1>1, <2>1, <3>2
    <3>4. U \in Tables /\ DrivesBecome(T, U, f, g)
      BY <2>5, <3>1, <3>3, DrivesReplaced
    <3>5. DrivesOK(U)
      BY <1>0, <1>1, <1>3, <2>1, <2>7, <3>4, DriveFollowsPaths
    <3> QED BY <3>4, <3>5 DEF DrivesBecome
  <2> QED BY <2>6, <2>7
<1> QED BY <1>2, <1>3

LEMMA DrivesHandled ==
    ASSUME machine \in Setups, NEW T \in Tables, DrivesOK(T), NEW e \in Events,
           NEW U, U = ForDrive(T, e)
    PROVE  /\ U \in Tables /\ DrivesOK(U)
           /\ DrivesBecome(T, U, U.drive, U.drivePath)
           /\ \A q \in Paths : q # e.path => U.drivePath[q] = T.drivePath[q]
           /\ e.act = "remove" => U.drivePath[e.path] = Absent
           /\ e.act # "remove" /\ T.drivePath[e.path] # Absent => U.drivePath[e.path] # Absent
           /\ e.act = "add" /\ ShouldInclude(e.path) => U.drivePath[e.path] # Absent
<1> DEFINE p == e.path
           v == machine.vpd[p]
           S == PathsOf(T, v) \cup {p}
           f == [T.drive EXCEPT ![v] = S]
           g == [T.drivePath EXCEPT ![p] = v]
<1>0. p \in Paths
  BY DEF Events
<1>1. /\ Absent \notin Vpds /\ \A R \in SUBSET Paths : Absent # R
      /\ T.drive \in [Vpds -> OrAbsent((SUBSET Paths) \ {{}})]
      /\ T.drivePath \in [Paths -> Vpds \cup {Absent, Freed}]
      /\ T.drivePath[p] \in {Absent, v} /\ v \in OrAbsent(Vpds)
  BY <1>0, TypesOfDrives
<1>2. CASE e.act = "remove"
  <2>1. /\ U \in Tables /\ DrivesOK(U)
        /\ DrivesBecome(T, U, U.drive, [T.drivePath EXCEPT ![p] = Absent])
    BY <1>2, RemovedFromDrive DEF ForDrive
  <2>2. U.drivePath = [T.drivePath EXCEPT ![p] = Absent]
    BY <2>1 DEF DrivesBecome
  <2>3. \A q \in Paths : U.drivePath[q] = IF q = p THEN Absent ELSE T.drivePath[q]
    BY <1>1, <2>2
  <2> QED BY <1>0, <1>2, <2>1, <2>2, <2>3
<1>3. CASE U = T /\ e.act # "remove" /\ ~(e.act = "add" /\ ShouldInclude(p))
  BY <1>3 DEF DrivesBecome, ArraysAlone, SubsystemsAlone
<1>4. CASE e.act # "remove" /\ ShouldInclude(p) /\ (T.drive[v] # Absent \/ e.act = "add")
  <2>1. v \in Vpds /\ v # Absent
    BY <1>1, <1>4 DEF ShouldInclude, OrAbsent
  <2>2. T.drive[v] = IF PathsOf(T, v) = {} THEN Absent ELSE PathsOf(T, v)
    BY <2>1 DEF DrivesOK
  <2>3. U = [T EXCEPT !.drive = f, !.drivePath = g]
    <3>1. CASE T.drive[v] # Absent
      <4>1. U = [T EXCEPT !.drive[v] = DriveUevent(@, e),
                          !.drivePath[p] = IF @ = Absent THEN v ELSE @]
        BY <1>4, <3>1 DEF ForDrive
      <4>2. DriveUevent(T.drive[v], e) = S
        BY <1>4, <2>2, <3>1 DEF DriveUevent
      <4>3. (IF T.drivePath[p] = Absent THEN v ELSE T.drivePath[p]) = v
        BY <1>1
      <4> QED BY <4>1, <4>2, <4>3
    <3>2. CASE T.drive[v] = Absent
      <4>1. PathsOf(T, v) = {}
        BY <1>1, <2>2, <3>2 DEF PathsOf
      <4>2. U = [T EXCEPT !.drive[v] = {p}, !.drivePath[p] = v]
        BY <1>4, <3>2 DEF ForDrive
      <4>3. {p} = S
        BY <4>1
      <4> QED BY <4>2, <4>3
    <3> QED BY <3>1, <3>2
  <2>4. f \in [Vpds -> OrAbsent((SUBSET Paths) \ {{}})] /\ S # {}
    <3>1. S \in OrAbsent((SUBSET Paths) \ {{}}) /\ S # {}
      <4>1. S \subseteq Paths /\ S # {}
        BY <1>0 DEF PathsOf
      <4> HIDE DEF S
      <4> QED BY <4>1 DEF OrAbsent
    <3> QED BY <1>1, <2>1, <3>1
  <2>5. g \in [Paths -> Vpds \cup {Absent, Freed}]
    BY <1>1, <2>1
  <2>6. U \in Tables /\ DrivesBecome(T, U, f, g)
    BY <2>3, <2>4, <2>5, DrivesReplaced
  <2>7. DrivesOK(U)
    BY <1>0, <1>4, <2>1, <2>4, <2>6, DriveFollowsPaths
  <2>8. U.drivePath = g /\ DrivesBecome(T, U, U.drive, U.drivePath)
    BY <2>6 DEF DrivesBecome
  <2>9. \A q \in Paths : U.drivePath[q] = IF q = p THEN v ELSE T.drivePath[q]
    BY <1>1, <2>8
  <2> QED BY <1>0, <1>4, <2>1, <2>6, <2>7, <2>8, <2>9
<1>5. e.act # "remove" /\ ~ShouldInclude(p) => U = T
  BY DEF ForDrive
<1>6. e.act # "remove" /\ ShouldInclude(p) /\ T.drive[v] = Absent /\ e.act # "add" => U = T
  BY DEF ForDrive
<1> QED BY <1>2, <1>3, <1>4, <1>5, <1>6

(* handle_block_uevent_for_block tells of the device of the uevent, and of *)
(* others only what lies on them.                                          *)
BlockBecomes(T, U) ==
    /\ ArraysAlone(T, U) /\ DrivesAlone(T, U) /\ SubsystemsAlone(T, U)
    /\ U.loaded = T.loaded /\ U.claimed = T.claimed

SameBlock(a, b) ==
    /\ a # Absent <=> b # Absent
    /\ a # Absent => a.label = b.label /\ a.table = b.table /\ a.fs = b.fs

BlockOf(b, p, lab) ==
    b # Absent /\ b.label = lab /\ b.table = Partitioned(p)
    /\ b.fs = (lab = "fs" /\ ~Partitioned(p))

LEMMA BlockReplaced ==
    ASSUME NEW T \in Tables, NEW p \in Paths, NEW b \in OrAbsent(BlockObject)
    PROVE  LET U == [T EXCEPT !.block[p] = b] IN
           U \in Tables /\ BlockBecomes(T, U) /\ U.block = [T.block EXCEPT ![p] = b]
<1> DEFINE U == [T EXCEPT !.block[p] = b]
<1>1. U \in Tables
  BY DEF Tables
<1>2. U.block = [T.block EXCEPT ![p] = b]
  BY DEF Tables
<1>3. ArraysAlone(T, U) /\ DrivesAlone(T, U)
  BY DEF Tables, ArraysAlone, DrivesAlone
<1>4. SubsystemsAlone(T, U) /\ U.loaded = T.loaded /\ U.claimed = T.claimed
  BY DEF Tables, SubsystemsAlone
<1> QED BY <1>1, <1>2, <1>3, <1>4 DEF BlockBecomes

(* A new cleartext device changes nothing else.                            *)
LEMMA CleartextNamed ==
    ASSUME machine \in Setups, NEW T \in Tables, NEW p \in Paths, T.block[p] # Absent,
           NEW x \in OrAbsent(Paths), NEW U, U = [T EXCEPT !.block[p].cleartext = x]
    PROVE  /\ U \in Tables /\ BlockBecomes(T, U)
           /\ \A q \in Paths : SameBlock(U.block[q], T.block[q])
<1> DEFINE b == [T.block[p] EXCEPT !.cleartext = x]
<1>1. T.block \in [Paths -> OrAbsent(BlockObject)] /\ Absent \notin BlockObject
  BY MachineShape DEF Tables
<1>2. T.block[p] \in BlockObject
  BY <1>1 DEF OrAbsent
<1>3. /\ b \in BlockObject
      /\ b.label = T.block[p].label /\ b.table = T.block[p].table /\ b.fs = T.block[p].fs
  BY <1>2 DEF BlockObject
<1>4. U = [T EXCEPT !.block[p] = b]
  OBVIOUS
<1> HIDE DEF b
<1>5. U \in Tables /\ BlockBecomes(T, U) /\ U.block = [T.block EXCEPT ![p] = b]
  <2>1. b \in OrAbsent(BlockObject)
    BY <1>3 DEF OrAbsent
  <2> DEFINE W == [T EXCEPT !.block[p] = b]
  <2>2. W \in Tables /\ BlockBecomes(T, W) /\ W.block = [T.block EXCEPT ![p] = b]
    BY <2>1, BlockReplaced
  <2> HIDE DEF W
  <2>3. U = W
    BY <1>4 DEF W
  <2> QED BY <2>2, <2>3
<1>6. ASSUME NEW q \in Paths
      PROVE  SameBlock(U.block[q], T.block[q])
  BY <1>1, <1>2, <1>3, <1>5 DEF SameBlock
<1> QED BY <1>5, <1>6

LEMMA BlockUpdated ==
    ASSUME machine \in Setups, NEW T \in Tables, NEW p \in Paths, NEW lab \in Labels,
           NEW U, U = UpdateBlock(T, p, lab)
    PROVE  /\ U \in Tables /\ BlockBecomes(T, U) /\ BlockOf(U.block[p], p, lab)
           /\ \A q \in Paths \ {p} : SameBlock(U.block[q], T.block[q])
<1> DEFINE backing == BackingOf(T, p)
           object == [label |-> lab, table |-> Partitioned(p),
                      fs |-> lab = "fs" /\ ~Partitioned(p), backing |-> backing,
                      cleartext |-> Absent]
           T1 == [T EXCEPT !.block[p] = object]
           T2 == IF IsEncrypted(T1, backing) THEN [T1 EXCEPT !.block[backing].cleartext = p] ELSE T1
<1>0. U = IF lab = "crypto" THEN [T2 EXCEPT !.block[p].cleartext = FindCleartext(T2, p)] ELSE T2
  BY DEF UpdateBlock
<1>1. T.block \in [Paths -> OrAbsent(BlockObject)] /\ Absent \notin BlockObject
  BY MachineShape DEF Tables
<1>2. backing \in OrAbsent(Paths)
  BY MachineShape DEF BackingOf, OrAbsent
<1>3. Partitioned(p) \in BOOLEAN
  BY DEF Partitioned
<1> HIDE DEF backing
<1>4. /\ object \in BlockObject /\ object # Absent /\ object.label = lab
      /\ object.table = Partitioned(p) /\ object.fs = (lab = "fs" /\ ~Partitioned(p))
  <2>1. Absent \in OrAbsent(Paths)
    BY DEF OrAbsent
  <2>2. (lab = "fs" /\ ~Partitioned(p)) \in BOOLEAN
    OBVIOUS
  <2>3. object \in BlockObject
    BY <1>2, <1>3, <2>1, <2>2 DEF BlockObject
  <2> QED BY <1>1, <2>3
<1>5. BlockOf(object, p, lab)
  BY <1>4 DEF BlockOf
<1> HIDE DEF object
<1>6. T1 \in Tables /\ BlockBecomes(T, T1) /\ T1.block = [T.block EXCEPT ![p] = object]
  <2>1. object \in OrAbsent(BlockObject)
    BY <1>4 DEF OrAbsent
  <2> QED BY <2>1, BlockReplaced
<1> HIDE DEF T1
<1>7. T1.block[p] = object /\ \A q \in Paths \ {p} : T1.block[q] = T.block[q]
  BY <1>1, <1>6
<1>8. /\ T2 \in Tables /\ BlockBecomes(T1, T2)
      /\ \A q \in Paths : SameBlock(T2.block[q], T1.block[q])
  <2>1. CASE IsEncrypted(T1, backing)
    <3>1. backing \in Paths /\ T1.block[backing] # Absent
      BY <1>2, <2>1 DEF IsEncrypted, OrAbsent
    <3> QED BY <1>6, <2>1, <3>1, CleartextNamed DEF OrAbsent
  <2>2. CASE ~IsEncrypted(T1, backing)
    BY <1>6, <2>2 DEF BlockBecomes, SameBlock, ArraysAlone, DrivesAlone, SubsystemsAlone
  <2> QED BY <2>1, <2>2
<1> HIDE DEF T2
<1>9. /\ U \in Tables /\ BlockBecomes(T2, U)
      /\ \A q \in Paths : SameBlock(U.block[q], T2.block[q])
  <2>1. CASE lab = "crypto"
    <3>1. T2.block[p] # Absent
      BY <1>4, <1>7, <1>8 DEF SameBlock
    <3>2. FindCleartext(T2, p) \in OrAbsent(Paths)
      BY DEF FindCleartext, OrAbsent
    <3> QED BY <1>0, <1>8, <2>1, <3>1, <3>2, CleartextNamed
  <2>2. CASE lab # "crypto"
    BY <1>0, <1>8, <2>2 DEF BlockBecomes, SameBlock, ArraysAlone, DrivesAlone, SubsystemsAlone
  <2> QED BY <2>1, <2>2
<1>10. BlockBecomes(T, U)
  BY <1>6, <1>8, <1>9 DEF BlockBecomes, ArraysAlone, DrivesAlone, SubsystemsAlone
<1>11. ASSUME NEW q \in Paths
       PROVE  SameBlock(U.block[q], T1.block[q])
  BY <1>8, <1>9 DEF SameBlock
<1>12. BlockOf(U.block[p], p, lab)
  BY <1>5, <1>7, <1>11 DEF BlockOf, SameBlock
<1>13. \A q \in Paths \ {p} : SameBlock(U.block[q], T.block[q])
  BY <1>7, <1>11
<1> QED BY <1>9, <1>10, <1>12, <1>13

LEMMA BlocksHandled ==
    ASSUME machine \in Setups, NEW T \in Tables, NEW e \in Events, NEW U, U = ForBlock(T, e)
    PROVE  /\ U \in Tables /\ BlockBecomes(T, U)
           /\ \A q \in Paths : q # e.path \/ ~IsBlock(q) => SameBlock(U.block[q], T.block[q])
           /\ IsBlock(e.path) /\ e.act = "remove" => U.block[e.path] = Absent
           /\ IsBlock(e.path) /\ e.act # "remove" => BlockOf(U.block[e.path], e.path, e.label)
<1> DEFINE p == e.path
<1>1. p \in Paths /\ e.label \in Labels
  BY DEF Events
<1>2. T.block \in [Paths -> OrAbsent(BlockObject)] /\ Absent \notin BlockObject
  BY MachineShape DEF Tables
<1>3. CASE U = T /\ (~IsBlock(p) \/ (e.act = "remove" /\ T.block[p] = Absent))
  BY <1>1, <1>3 DEF BlockBecomes, SameBlock, ArraysAlone, DrivesAlone, SubsystemsAlone
<1>4. CASE IsBlock(p) /\ e.act = "remove" /\ T.block[p] # Absent
  <2> DEFINE T1 == PreRemove(T, p)
  <2>1. U = [T1 EXCEPT !.block[p] = Absent]
    BY <1>4 DEF ForBlock
  <2>2. T.block[p].backing \in OrAbsent(Paths)
    BY <1>1, <1>2, <1>4 DEF BlockObject, OrAbsent
  <2>3. /\ T1 \in Tables /\ BlockBecomes(T, T1)
        /\ \A q \in Paths : SameBlock(T1.block[q], T.block[q])
    <3>1. CASE IsEncrypted(T, T.block[p].backing)
      <4>1. T.block[p].backing \in Paths /\ T.block[T.block[p].backing] # Absent
        BY <2>2, <3>1 DEF IsEncrypted, OrAbsent
      <4>2. T1 = [T EXCEPT !.block[T.block[p].backing].cleartext = Absent]
        BY <3>1 DEF PreRemove
      <4> QED BY <4>1, <4>2, CleartextNamed DEF OrAbsent
    <3>2. CASE ~IsEncrypted(T, T.block[p].backing)
      <4>1. T1 = T
        BY <3>2 DEF PreRemove
      <4> QED BY <4>1 DEF BlockBecomes, SameBlock, ArraysAlone, DrivesAlone, SubsystemsAlone
    <3> QED BY <3>1, <3>2
  <2> HIDE DEF T1
  <2>4. U \in Tables /\ BlockBecomes(T1, U) /\ U.block = [T1.block EXCEPT ![p] = Absent]
    <3>1. Absent \in OrAbsent(BlockObject)
      BY DEF OrAbsent
    <3> QED BY <1>1, <2>1, <2>3, <3>1, BlockReplaced
  <2>5. BlockBecomes(T, U)
    BY <2>3, <2>4 DEF BlockBecomes, ArraysAlone, DrivesAlone, SubsystemsAlone
  <2>6. T1.block \in [Paths -> OrAbsent(BlockObject)]
    BY <2>3 DEF Tables
  <2>7. U.block[p] = Absent /\ \A q \in Paths \ {p} : U.block[q] = T1.block[q]
    BY <1>1, <2>4, <2>6
  <2> QED BY <1>4, <2>3, <2>4, <2>5, <2>7
<1>5. CASE IsBlock(p) /\ e.act # "remove"
  <2>1. U = UpdateBlock(T, p, e.label)
    BY <1>5 DEF ForBlock
  <2> QED BY <1>1, <1>5, <2>1, BlockUpdated
<1>6. ~IsBlock(p) => U = T
  BY DEF ForBlock
<1>7. IsBlock(p) /\ e.act = "remove" /\ T.block[p] = Absent => U = T
  BY DEF ForBlock
<1> QED BY <1>3, <1>4, <1>5, <1>6, <1>7

(* handle_block_uevent_for_nvme_subsys                                     *)
LEMMA SubsystemsHandled ==
    ASSUME machine \in Setups, NEW T \in Tables, SubsystemsOK(T), NEW e \in Events,
           NEW U, U = ForSubsystem(T, e)
    PROVE  /\ U \in Tables /\ SubsystemsOK(U)
           /\ ArraysAlone(T, U) /\ DrivesAlone(T, U)
           /\ U.block = T.block /\ U.loaded = T.loaded /\ U.claimed = T.claimed
           /\ \A q \in Paths, n \in Nqns :
                 q # e.path => (q \in U.subsys[n] <=> q \in T.subsys[n])
           /\ \A n \in Nqns :
                /\ e.act = "remove" => e.path \notin U.subsys[n]
                /\ e.act # "remove" /\ e.path \in T.subsys[n] => e.path \in U.subsys[n]
                /\ /\ e.act = "add" /\ n = machine.nqn[e.path]
                   /\ e.path \in present => e.path \in ready
                   => e.path \in U.subsys[n] \/ e.path \notin present
<1> DEFINE p == e.path
           known == T.subsysPath[p]
           n == IF p \in present /\ p \in ready THEN machine.nqn[p] ELSE known
           S == IF e.act = "remove" THEN T.subsys[n] \ {p}
                ELSE IF e.act = "add" THEN T.subsys[n] \cup {p} ELSE T.subsys[n]
           x == IF e.act = "remove" THEN Absent ELSE n
           f == [T.subsys EXCEPT ![n] = S]
           g == [T.subsysPath EXCEPT ![p] = x]
<1>1. /\ p \in Paths /\ machine.nqn[p] \in OrAbsent(Nqns) /\ Absent \notin Nqns
      /\ T.subsys \in [Nqns -> SUBSET Paths]
      /\ T.subsysPath \in [Paths -> OrAbsent(Nqns)]
      /\ known \in {Absent, machine.nqn[p]}
      /\ machine.nqn[p] # Absent => Kind(p) \in {"controller", "namespace"}
  BY MachineShape DEF Tables, Events, SubsystemsOK
<1>2. \A m \in Nqns : \A q \in T.subsys[m] : T.subsysPath[q] = m
  BY DEF SubsystemsOK
<1>3. n \in {Absent, machine.nqn[p]}
  BY <1>1
<1>4. CASE n = Absent
  <2>1. U = T
    BY <1>4 DEF ForSubsystem
  <2>2. known = Absent
    BY <1>1, <1>4
  <2>3. \A m \in Nqns : p \notin T.subsys[m]
    BY <1>1, <1>2, <2>2
  <2>4. ASSUME p \in present, p \in ready
        PROVE  machine.nqn[p] = Absent
    BY <1>4, <2>4
  <2> QED BY <1>1, <2>1, <2>3, <2>4 DEF ArraysAlone, DrivesAlone
<1>5. CASE n # Absent
  <2>1. n \in Nqns /\ n = machine.nqn[p] /\ Kind(p) \in {"controller", "namespace"}
    BY <1>1, <1>3, <1>5 DEF OrAbsent
  <2>2. U = [T EXCEPT !.subsys[n] = S, !.subsysPath[p] = x]
    <3>1. CASE e.act = "remove"
      <4>1. U = [T EXCEPT !.subsys[n] = @ \ {p}, !.subsysPath[p] = Absent]
        BY <1>5, <2>1, <3>1 DEF ForSubsystem
      <4> QED BY <3>1, <4>1
    <3>2. CASE e.act # "remove"
      <4>1. U = [T EXCEPT !.subsys[n] = IF e.act = "add" THEN @ \cup {p} ELSE @,
                          !.subsysPath[p] = n]
        BY <1>5, <2>1, <3>2 DEF ForSubsystem
      <4> QED BY <3>2, <4>1
    <3> QED BY <3>1, <3>2
  <2>3. S \in SUBSET Paths /\ x \in OrAbsent(Nqns)
    <3>1. T.subsys[n] \subseteq Paths
      BY <1>1, <2>1
    <3> HIDE DEF n
    <3> QED BY <1>1, <2>1, <3>1 DEF OrAbsent
  <2>4. \A q \in Paths : q # p => (q \in S <=> q \in T.subsys[n])
    OBVIOUS
  <2>5. /\ e.act = "remove" => p \notin S
        /\ e.act = "add" => p \in S
        /\ p \in T.subsys[n] /\ e.act # "remove" => p \in S
        /\ p \in S => x = n \/ T.subsysPath[p] = n
    BY <1>2, <2>1
  <2>6. p \in S => x = n
    BY <2>5
  <2> HIDE DEF n, S, x
  <2>7. U \in Tables
    <3>1. f \in [Nqns -> SUBSET Paths] /\ g \in [Paths -> OrAbsent(Nqns)]
      BY <1>1, <2>1, <2>3
    <3>2. U = [T EXCEPT !.subsys = f, !.subsysPath = g]
      BY <2>2
    <3> HIDE DEF f, g
    <3> QED BY <3>1, <3>2 DEF Tables
  <2>8. U.subsys = [T.subsys EXCEPT ![n] = S] /\ U.subsysPath = [T.subsysPath EXCEPT ![p] = x]
    BY <2>2 DEF Tables
  <2>9. /\ ArraysAlone(T, U) /\ DrivesAlone(T, U)
        /\ U.block = T.block /\ U.loaded = T.loaded /\ U.claimed = T.claimed
    BY <2>2 DEF Tables, ArraysAlone, DrivesAlone
  <2>10. \A m \in Nqns : U.subsys[m] = IF m = n THEN S ELSE T.subsys[m]
    BY <1>1, <2>8
  <2>11. \A q \in Paths : U.subsysPath[q] = IF q = p THEN x ELSE T.subsysPath[q]
    BY <1>1, <2>8
  <2>12. x \in {Absent, machine.nqn[p]}
    BY <2>1 DEF x
  <2>13. ASSUME NEW m \in Nqns, NEW q \in U.subsys[m]
         PROVE  U.subsysPath[q] = m
    <3>1. q \in Paths
      BY <1>1, <2>3, <2>10
    <3>2. CASE m = n /\ q = p
      BY <2>6, <2>10, <2>11, <3>1, <3>2
    <3>3. CASE m = n /\ q # p
      BY <1>2, <2>4, <2>10, <2>11, <3>1, <3>3
    <3>4. CASE m # n
      <4>1. q \in T.subsys[m] /\ T.subsysPath[q] = m
        BY <1>2, <2>10, <3>4
      <4>2. q # p
        BY <1>1, <2>1, <3>4, <4>1
      <4> QED BY <2>11, <3>1, <4>1, <4>2
    <3> QED BY <3>2, <3>3, <3>4
  <2>14. SubsystemsOK(U)
    BY <2>11, <2>12, <2>13 DEF SubsystemsOK
  <2>15. \A m \in Nqns : m # n => p \notin T.subsys[m]
    BY <1>1, <1>2, <2>1 DEF SubsystemsOK
  <2>16. ASSUME NEW m \in Nqns
         PROVE  /\ e.act = "remove" => p \notin U.subsys[m]
                /\ e.act # "remove" /\ p \in T.subsys[m] => p \in U.subsys[m]
                /\ e.act = "add" /\ m = machine.nqn[p] => p \in U.subsys[m]
    BY <2>1, <2>5, <2>10, <2>15
  <2>17. \A q \in Paths, m \in Nqns : q # p => (q \in U.subsys[m] <=> q \in T.subsys[m])
    BY <2>4, <2>10
  <2> QED BY <2>7, <2>9, <2>14, <2>16, <2>17
<1> QED BY <1>4, <1>5

(* handle_block_uevent_for_modules                                         *)
LEMMA ModulesHandled ==
    ASSUME NEW T \in Tables, NEW e \in Events, NEW U, U = ForModules(T, e)
    PROVE  /\ U \in Tables
           /\ ArraysAlone(T, U) /\ DrivesAlone(T, U) /\ SubsystemsAlone(T, U)
           /\ U.block = T.block /\ U.loaded = T.loaded
           /\ ~T.loaded => U.claimed = T.claimed
           /\ \A q \in Paths : q # e.path \/ ~IsBlock(q) => (q \in U.claimed <=> q \in T.claimed)
           /\ T.loaded /\ IsBlock(e.path) => (e.path \in U.claimed <=> e.act # "remove")
<1> DEFINE S == IF e.act = "remove" THEN T.claimed \ {e.path} ELSE T.claimed \cup {e.path}
<1>1. CASE ~T.loaded \/ ~IsBlock(e.path)
  <2>1. U = T
    BY <1>1 DEF ForModules
  <2> QED BY <1>1, <2>1 DEF ArraysAlone, DrivesAlone, SubsystemsAlone
<1>2. CASE T.loaded /\ IsBlock(e.path)
  <2>1. U = [T EXCEPT !.claimed = S]
    BY <1>2 DEF ForModules
  <2>2. S \subseteq Paths
    BY DEF Tables, Events
  <2>3. /\ \A q \in Paths : q # e.path => (q \in S <=> q \in T.claimed)
        /\ e.path \in S <=> e.act # "remove"
    OBVIOUS
  <2> HIDE DEF S
  <2>4. U \in Tables /\ U.claimed = S
    BY <2>1, <2>2 DEF Tables
  <2>5. /\ ArraysAlone(T, U) /\ DrivesAlone(T, U) /\ SubsystemsAlone(T, U)
        /\ U.block = T.block /\ U.loaded = T.loaded
    BY <2>1 DEF Tables, ArraysAlone, DrivesAlone, SubsystemsAlone
  <2> QED BY <1>2, <2>3, <2>4, <2>5
<1> QED BY <1>1, <1>2

(* handle_block_uevent_for_mdraid.  What it makes of an array ...          *)
LEMMA ArraysUpdated ==
    ASSUME machine \in Setups, NEW a \in ArrayObject, NEW e \in Events
    PROVE  /\ MemberUevent(a, e) \in ArrayObject /\ RaidUevent(a, e) \in ArrayObject
           /\ MemberUevent(a, e).members = IF e.act = "remove" THEN a.members \ {e.path}
                                           ELSE a.members \cup {e.path}
           /\ MemberUevent(a, e).raid = a.raid
           /\ RaidUevent(a, e).members = a.members
           /\ e.act # "remove" /\ Kind(e.path) # "partition" => RaidUevent(a, e).raid = e.path
           /\ e.act = "remove" /\ Kind(e.path) # "partition" =>
                 RaidUevent(a, e).raid = IF a.raid = e.path THEN Absent ELSE a.raid
<1>1. MemberUevent(a, e) \in ArrayObject
  BY DEF MemberUevent, ArrayObject, Events
<1>2. /\ MemberUevent(a, e).raid = a.raid
      /\ MemberUevent(a, e).members = IF e.act = "remove" THEN a.members \ {e.path}
                                      ELSE a.members \cup {e.path}
  BY DEF MemberUevent, ArrayObject
<1>3. CASE Kind(e.path) = "partition"
  BY <1>1, <1>2, <1>3 DEF RaidUevent
<1>4. CASE Kind(e.path) # "partition" /\ e.act = "remove" /\ a.raid = e.path
  <2>1. RaidUevent(a, e) = [a EXCEPT !.raid = Absent, !.watched = FALSE]
    BY <1>4 DEF RaidUevent
  <2>2. /\ RaidUevent(a, e) \in ArrayObject /\ RaidUevent(a, e).members = a.members
        /\ RaidUevent(a, e).raid = Absent
    BY <2>1 DEF ArrayObject, OrAbsent
  <2> QED BY <1>1, <1>2, <1>4, <2>2
<1>5. CASE Kind(e.path) # "partition" /\ e.act = "remove" /\ a.raid # e.path
  BY <1>1, <1>2, <1>5 DEF RaidUevent
<1>6. CASE Kind(e.path) # "partition" /\ e.act # "remove"
  <2> DEFINE w == e.path \in present
  <2>1. RaidUevent(a, e) = [a EXCEPT !.raid = e.path, !.watched = w]
    BY <1>6 DEF RaidUevent
  <2>2. e.path \in OrAbsent(Paths) /\ w \in BOOLEAN
    BY DEF OrAbsent, Events
  <2> HIDE DEF w
  <2>3. RaidUevent(a, e) \in ArrayObject
    BY <2>1, <2>2 DEF ArrayObject
  <2>4. RaidUevent(a, e).members = a.members /\ RaidUevent(a, e).raid = e.path
    BY <2>1 DEF ArrayObject
  <2> QED BY <1>1, <1>2, <1>6, <2>3, <2>4
<1> QED BY <1>3, <1>4, <1>5, <1>6

(* ... and of the tables, in which a member's entry never outlives the     *)
(* array.                                                                  *)
ArraysBecome(T, U) ==
    /\ DrivesAlone(T, U) /\ SubsystemsAlone(T, U)
    /\ U.block = T.block /\ U.loaded = T.loaded /\ U.claimed = T.claimed

WithArrays(T, f, g, h) == [T EXCEPT !.mdraid = f, !.arrayPath = g, !.memberPath = h]

LEMMA ArraysReplaced ==
    ASSUME NEW T \in Tables, NEW f \in [Uuids -> OrAbsent(ArrayObject)],
           NEW g \in [Paths -> Uuids \cup {Absent, Freed}],
           NEW h \in [Paths -> Uuids \cup {Absent, Freed}],
           NEW U, U = WithArrays(T, f, g, h)
    PROVE  /\ U \in Tables /\ ArraysBecome(T, U)
           /\ U.mdraid = f /\ U.arrayPath = g /\ U.memberPath = h
<1>1. U \in Tables
  BY DEF WithArrays, Tables
<1>2. U.mdraid = f /\ U.arrayPath = g /\ U.memberPath = h
  BY DEF WithArrays, Tables
<1>3. DrivesAlone(T, U) /\ SubsystemsAlone(T, U)
  BY DEF WithArrays, Tables, DrivesAlone, SubsystemsAlone
<1>4. U.block = T.block /\ U.loaded = T.loaded /\ U.claimed = T.claimed
  BY DEF WithArrays, Tables
<1> QED BY <1>1, <1>2, <1>3, <1>4 DEF ArraysBecome

LEMMA TypesOfArrays ==
    ASSUME machine \in Setups, NEW T \in Tables
    PROVE  /\ T.mdraid \in [Uuids -> OrAbsent(ArrayObject)]
           /\ T.arrayPath \in [Paths -> Uuids \cup {Absent, Freed}]
           /\ T.memberPath \in [Paths -> Uuids \cup {Absent, Freed}]
           /\ Absent \notin Uuids /\ Freed \notin Uuids /\ Freed # Absent
           /\ Absent \notin ArrayObject /\ Absent \notin Paths
BY MachineShape DEF Tables

(* An array without devices goes, and takes the entries of its own device. *)
LEMMA MaybeRemoved ==
    ASSUME machine \in Setups, NEW T \in Tables, PointersOK(T), NEW u \in Uuids,
           T.mdraid[u] # Absent
    PROVE  LET U == MaybeRemove(T, u) IN
           /\ U \in Tables /\ ArraysBecome(T, U) /\ PointersOK(U)
           /\ U.memberPath = T.memberPath
           /\ \A w \in Uuids : /\ w # u => U.mdraid[w] = T.mdraid[w]
                               /\ HasDevices(T.mdraid[u]) => U.mdraid[w] = T.mdraid[w]
           /\ \A p \in Paths :
                /\ T.arrayPath[p] # u => U.arrayPath[p] = T.arrayPath[p]
                /\ HasDevices(T.mdraid[u]) => U.arrayPath[p] = T.arrayPath[p]
                /\ U.arrayPath[p] \in {T.arrayPath[p], Freed}
<1> DEFINE U == MaybeRemove(T, u)
           Free(table) == [p \in Paths |-> IF table[p] = u THEN Freed ELSE table[p]]
           f == [T.mdraid EXCEPT ![u] = Absent]
           g == Free(T.arrayPath)
           h == T.memberPath
<1>1. /\ T.mdraid \in [Uuids -> OrAbsent(ArrayObject)]
      /\ T.arrayPath \in [Paths -> Uuids \cup {Absent, Freed}]
      /\ T.memberPath \in [Paths -> Uuids \cup {Absent, Freed}]
      /\ Freed \notin Uuids
  BY TypesOfArrays
<1>2. CASE HasDevices(T.mdraid[u])
  <2>1. U = T
    BY <1>2 DEF MaybeRemove
  <2> QED BY <2>1 DEF ArraysBecome, DrivesAlone, SubsystemsAlone
<1>3. CASE ~HasDevices(T.mdraid[u])
  <2>1. T.mdraid[u].members = {}
    BY <1>3 DEF HasDevices
  <2>2. \A p \in Paths : T.memberPath[p] # u
    BY <2>1 DEF PointersOK
  <2>3. Free(T.memberPath) = T.memberPath
    BY <1>1, <2>2
  <2>4. U = WithArrays(T, f, g, h)
    <3>1. U = [T EXCEPT !.mdraid[u] = Absent, !.arrayPath = Free(@), !.memberPath = Free(@)]
      BY <1>3 DEF MaybeRemove
    <3> QED BY <2>3, <3>1 DEF WithArrays
  <2>5. f \in [Uuids -> OrAbsent(ArrayObject)]
    BY <1>1 DEF OrAbsent
  <2>6. g \in [Paths -> Uuids \cup {Absent, Freed}]
    BY <1>1
  <2>7. /\ \A w \in Uuids : f[w] = IF w = u THEN Absent ELSE T.mdraid[w]
        /\ \A p \in Paths : g[p] = IF T.arrayPath[p] = u THEN Freed ELSE T.arrayPath[p]
    BY <1>1
  <2> HIDE DEF f, g, h
  <2>8. h \in [Paths -> Uuids \cup {Absent, Freed}]
    BY <1>1 DEF h
  <2> HIDE DEF U
  <2>9. /\ U \in Tables /\ ArraysBecome(T, U)
        /\ U.mdraid = f /\ U.arrayPath = g /\ U.memberPath = h
    BY <2>4, <2>5, <2>6, <2>8, ArraysReplaced
  <2>10. PointersOK(U)
    BY <1>1, <2>2, <2>7, <2>9 DEF PointersOK, h
  <2> QED BY <1>3, <2>7, <2>9, <2>10 DEF U, h
<1> QED BY <1>2, <1>3
LEMMA LeftAsMember ==
    ASSUME machine \in Setups, NEW T \in Tables, PointersOK(T), NEW e \in Events,
           NEW U, U = LeaveAsMember(T, e)
    PROVE  /\ U \in Tables /\ ArraysBecome(T, U) /\ PointersOK(U)
           /\ ArraysOK(T) => ArraysOK(U)
<1> DEFINE p == e.path
           u == T.memberPath[p]
           r == [e EXCEPT !.act = "remove"]
           a == MemberUevent(T.mdraid[u], r)
           f == [T.mdraid EXCEPT ![u] = a]
           g == T.arrayPath
           h == [T.memberPath EXCEPT ![p] = Absent]
           V == WithArrays(T, f, g, h)
<1>1. /\ T.mdraid \in [Uuids -> OrAbsent(ArrayObject)]
      /\ T.arrayPath \in [Paths -> Uuids \cup {Absent, Freed}]
      /\ T.memberPath \in [Paths -> Uuids \cup {Absent, Freed}]
      /\ Absent \notin Uuids /\ Absent \notin ArrayObject /\ Absent \notin Paths
      /\ p \in Paths /\ r \in Events /\ r.act = "remove" /\ r.path = p
  BY TypesOfArrays DEF Events
<1>2. CASE u \notin Uuids
  <2>1. U = T
    BY <1>2 DEF LeaveAsMember
  <2> QED BY <2>1 DEF ArraysBecome, DrivesAlone, SubsystemsAlone
<1>3. CASE u \in Uuids
  <2>1. T.mdraid[u] \in ArrayObject
    BY <1>1, <1>3 DEF PointersOK, OrAbsent
  <2> HIDE DEF r
  <2>2. a \in ArrayObject /\ a.members = T.mdraid[u].members \ {p} /\ a.raid = T.mdraid[u].raid
    <3> DEFINE b == T.mdraid[u]
    <3>1. b \in ArrayObject /\ r \in Events /\ r.act = "remove" /\ r.path = p
      BY <1>1, <2>1
    <3>2. a = MemberUevent(b, r)
      OBVIOUS
    <3> HIDE DEF a, b, p
    <3>3. a \in ArrayObject /\ a.members = b.members \ {p} /\ a.raid = b.raid
      BY <3>1, <3>2, ArraysUpdated
    <3> QED BY <3>3 DEF b
  <2>3. U = MaybeRemove(V, u)
    <3>1. [T EXCEPT !.mdraid[u] = MemberUevent(@, r), !.memberPath[p] = Absent] = V
      BY DEF WithArrays, Tables
    <3> QED BY <1>3, <3>1 DEF LeaveAsMember, r
  <2> HIDE DEF a
  <2>4. f \in [Uuids -> OrAbsent(ArrayObject)]
    BY <1>1, <1>3, <2>2 DEF OrAbsent
  <2>5. h \in [Paths -> Uuids \cup {Absent, Freed}]
    BY <1>1
  <2>6. /\ \A w \in Uuids : f[w] = IF w = u THEN a ELSE T.mdraid[w]
        /\ \A q \in Paths : h[q] = IF q = p THEN Absent ELSE T.memberPath[q]
    BY <1>1
  <2>7. V \in Tables /\ ArraysBecome(T, V) /\ V.mdraid = f /\ V.arrayPath = g /\ V.memberPath = h
    <3>1. g \in [Paths -> Uuids \cup {Absent, Freed}]
      BY <1>1
    <3> HIDE DEF f, g, h, a, p
    <3> QED BY <2>4, <2>5, <3>1, ArraysReplaced
  <2> HIDE DEF V, f, h
  <2>8. PointersOK(V)
    <3>1. ASSUME NEW q \in Paths, V.arrayPath[q] \in Uuids
          PROVE  V.mdraid[V.arrayPath[q]] # Absent
      BY <1>1, <2>2, <2>6, <2>7, <3>1 DEF PointersOK
    <3>2. ASSUME NEW q \in Paths
          PROVE  /\ V.memberPath[q] # Freed
                 /\ V.memberPath[q] \in Uuids =>
                       /\ V.mdraid[V.memberPath[q]] # Absent
                       /\ q \in V.mdraid[V.memberPath[q]].members
      <4>1. CASE q = p
        BY <1>1, <2>6, <2>7, <4>1, TypesOfArrays
      <4>2. CASE q # p
        BY <1>1, <2>2, <2>6, <2>7, <4>2 DEF PointersOK
      <4> QED BY <4>1, <4>2
    <3> QED BY <3>1, <3>2 DEF PointersOK
  <2>9. V.mdraid[u] = a /\ a # Absent
    BY <1>1, <1>3, <2>2, <2>6, <2>7
  <2>10. /\ U \in Tables /\ ArraysBecome(V, U) /\ PointersOK(U)
         /\ \A w \in Uuids : w # u \/ HasDevices(a) => U.mdraid[w] = V.mdraid[w]
         /\ \A q \in Paths : V.arrayPath[q] # u \/ HasDevices(a) => U.arrayPath[q] = V.arrayPath[q]
         /\ \A q \in Paths : U.arrayPath[q] \in {V.arrayPath[q], Freed}
    BY <1>3, <2>3, <2>7, <2>8, <2>9, MaybeRemoved
  <2>11. ArraysBecome(T, U)
    BY <2>7, <2>10 DEF ArraysBecome, DrivesAlone, SubsystemsAlone
  <2>12. ASSUME ArraysOK(T), NEW q \in Paths, U.arrayPath[q] # Absent
         PROVE  /\ Kind(q) = "md" /\ U.arrayPath[q] \in machine.arrays[q] \cup {Freed}
                /\ Alone(q) => /\ U.arrayPath[q] \in Uuids /\ U.mdraid[U.arrayPath[q]] # Absent
                               /\ U.mdraid[U.arrayPath[q]].raid = q
    <3>1. /\ U.arrayPath[q] \in {T.arrayPath[q], Freed} /\ T.arrayPath[q] # Absent
          /\ Kind(q) = "md" /\ T.arrayPath[q] \in machine.arrays[q] \cup {Freed}
      <4>1. U.arrayPath[q] \in {T.arrayPath[q], Freed} /\ T.arrayPath[q] # Absent
        BY <1>1, <1>3, <2>7, <2>10, <2>12
      <4> QED BY <2>12, <4>1 DEF ArraysOK
    <3>2. ASSUME Alone(q)
          PROVE  /\ U.arrayPath[q] \in Uuids /\ U.mdraid[U.arrayPath[q]] # Absent
                 /\ U.mdraid[U.arrayPath[q]].raid = q
      <4>1. /\ T.arrayPath[q] \in Uuids
            /\ T.mdraid[T.arrayPath[q]] # Absent /\ T.mdraid[T.arrayPath[q]].raid = q
        BY <2>12, <3>1, <3>2 DEF ArraysOK
      <4>2. T.arrayPath[q] = u => HasDevices(a)
        BY <1>1, <2>2, <4>1 DEF HasDevices
      <4>3. U.arrayPath[q] = T.arrayPath[q] /\ U.mdraid[T.arrayPath[q]] = f[T.arrayPath[q]]
        BY <2>7, <2>10, <4>1, <4>2
      <4> QED BY <1>1, <2>2, <2>6, <4>1, <4>3
    <3> QED BY <3>1, <3>2
  <2> QED BY <2>10, <2>11, <2>12 DEF ArraysOK
<1> QED BY <1>2, <1>3

LEMMA LeftAsArray ==
    ASSUME machine \in Setups, NEW T \in Tables, PointersOK(T), NEW e \in Events,
           NEW U, U = LeaveAsArray(T, e)
    PROVE  /\ U \in Tables /\ ArraysBecome(T, U) /\ PointersOK(U)
           /\ ArraysOK(T) => ArraysOK(U)
<1> DEFINE p == e.path
           u == T.arrayPath[p]
           r == [e EXCEPT !.act = "remove"]
           a == RaidUevent(T.mdraid[u], r)
           f == [T.mdraid EXCEPT ![u] = a]
           g == [T.arrayPath EXCEPT ![p] = Absent]
           h == T.memberPath
           V == WithArrays(T, f, g, h)
<1>1. /\ T.mdraid \in [Uuids -> OrAbsent(ArrayObject)]
      /\ T.arrayPath \in [Paths -> Uuids \cup {Absent, Freed}]
      /\ T.memberPath \in [Paths -> Uuids \cup {Absent, Freed}]
      /\ Absent \notin Uuids /\ Absent \notin ArrayObject /\ Absent \notin Paths
      /\ p \in Paths /\ r \in Events /\ r.act = "remove" /\ r.path = p
  BY TypesOfArrays DEF Events
<1>2. CASE u \notin Uuids
  <2>1. U = T
    BY <1>2 DEF LeaveAsArray
  <2> QED BY <2>1 DEF ArraysBecome, DrivesAlone, SubsystemsAlone
<1>3. CASE u \in Uuids
  <2>1. T.mdraid[u] \in ArrayObject
    BY <1>1, <1>3 DEF PointersOK, OrAbsent
  <2>2. a \in ArrayObject /\ a.members = T.mdraid[u].members
    BY <1>1, <2>1, ArraysUpdated
  <2>3. U = MaybeRemove(V, u)
    <3>1. [T EXCEPT !.mdraid[u] = RaidUevent(@, r), !.arrayPath[p] = Absent] = V
      BY DEF WithArrays, Tables
    <3> QED BY <1>3, <3>1 DEF LeaveAsArray
  <2> HIDE DEF a, r
  <2>4. f \in [Uuids -> OrAbsent(ArrayObject)]
    BY <1>1, <1>3, <2>2 DEF OrAbsent
  <2>5. g \in [Paths -> Uuids \cup {Absent, Freed}]
    BY <1>1
  <2>6. /\ \A w \in Uuids : f[w] = IF w = u THEN a ELSE T.mdraid[w]
        /\ \A q \in Paths : g[q] = IF q = p THEN Absent ELSE T.arrayPath[q]
    BY <1>1
  <2>7. V \in Tables /\ ArraysBecome(T, V) /\ V.mdraid = f /\ V.arrayPath = g /\ V.memberPath = h
    <3>1. h \in [Paths -> Uuids \cup {Absent, Freed}]
      BY <1>1
    <3> HIDE DEF f, g, h
    <3> QED BY <2>4, <2>5, <3>1, ArraysReplaced
  <2> HIDE DEF V, f, g
  <2>8. PointersOK(V)
    <3>1. ASSUME NEW q \in Paths, V.arrayPath[q] \in Uuids
          PROVE  V.mdraid[V.arrayPath[q]] # Absent
      BY <1>1, <2>2, <2>6, <2>7, <3>1 DEF PointersOK
    <3>2. ASSUME NEW q \in Paths
          PROVE  /\ V.memberPath[q] # Freed
                 /\ V.memberPath[q] \in Uuids =>
                       /\ V.mdraid[V.memberPath[q]] # Absent
                       /\ q \in V.mdraid[V.memberPath[q]].members
      BY <1>1, <2>2, <2>6, <2>7 DEF PointersOK
    <3> QED BY <3>1, <3>2 DEF PointersOK
  <2>9. V.mdraid[u] = a /\ a # Absent
    BY <1>1, <1>3, <2>2, <2>6, <2>7
  <2>10. /\ U \in Tables /\ ArraysBecome(V, U) /\ PointersOK(U)
         /\ \A w \in Uuids : w # u => U.mdraid[w] = V.mdraid[w]
         /\ \A q \in Paths : V.arrayPath[q] # u => U.arrayPath[q] = V.arrayPath[q]
         /\ \A q \in Paths : U.arrayPath[q] \in {V.arrayPath[q], Freed}
    BY <1>3, <2>3, <2>7, <2>8, <2>9, MaybeRemoved
  <2>11. ArraysBecome(T, U)
    BY <2>7, <2>10 DEF ArraysBecome, DrivesAlone, SubsystemsAlone
  <2>12. ASSUME ArraysOK(T), NEW q \in Paths, U.arrayPath[q] # Absent
         PROVE  /\ Kind(q) = "md" /\ U.arrayPath[q] \in machine.arrays[q] \cup {Freed}
                /\ Alone(q) => /\ U.arrayPath[q] \in Uuids /\ U.mdraid[U.arrayPath[q]] # Absent
                               /\ U.mdraid[U.arrayPath[q]].raid = q
    <3>1. q # p /\ U.arrayPath[q] \in {T.arrayPath[q], Freed} /\ T.arrayPath[q] # Absent
      BY <1>1, <1>3, <2>6, <2>7, <2>10, <2>12
    <3>2. Kind(q) = "md" /\ T.arrayPath[q] \in machine.arrays[q] \cup {Freed}
      BY <2>12, <3>1 DEF ArraysOK
    <3>3. ASSUME Alone(q)
          PROVE  /\ U.arrayPath[q] \in Uuids /\ U.mdraid[U.arrayPath[q]] # Absent
                 /\ U.mdraid[U.arrayPath[q]].raid = q
      <4>1. /\ T.arrayPath[q] \in Uuids
            /\ T.mdraid[T.arrayPath[q]] # Absent /\ T.mdraid[T.arrayPath[q]].raid = q
        BY <2>12, <3>1, <3>3 DEF ArraysOK
      <4>2. Kind(p) = "md" /\ u \in machine.arrays[p]
        BY <1>1, <1>3, <2>12, TypesOfArrays DEF ArraysOK
      <4>3. T.arrayPath[q] # u
        BY <1>1, <1>3, <3>1, <3>2, <3>3, <4>2, TypesOfArrays DEF Alone
      <4>4. U.arrayPath[q] = T.arrayPath[q] /\ U.mdraid[T.arrayPath[q]] = T.mdraid[T.arrayPath[q]]
        BY <2>6, <2>7, <2>10, <3>1, <4>1, <4>3
      <4> QED BY <4>1, <4>4
    <3> QED BY <3>1, <3>2, <3>3
  <2> QED BY <2>10, <2>11, <2>12 DEF ArraysOK
<1> QED BY <1>2, <1>3

LEMMA Entered ==
    ASSUME machine \in Setups, NEW T \in Tables, PointersOK(T), NEW e \in Events,
           e.act # "remove", NEW u \in Uuids, NEW is_member \in BOOLEAN,
           NEW U, U = Enter(T, e, u, is_member)
    PROVE  /\ U \in Tables /\ ArraysBecome(T, U) /\ PointersOK(U)
           /\ /\ ArraysOK(T)
              /\ is_member \/ /\ Kind(e.path) = "md" /\ u \in machine.arrays[e.path]
                              /\ T.arrayPath[e.path] \in {Absent, u}
              => ArraysOK(U)
<1> DEFINE p == e.path
           old == IF T.mdraid[u] = Absent THEN NewArray ELSE T.mdraid[u]
           entry(x) == IF T.mdraid[u] = Absent \/ x = Absent THEN u ELSE x
<1>1. /\ T.mdraid \in [Uuids -> OrAbsent(ArrayObject)]
      /\ T.arrayPath \in [Paths -> Uuids \cup {Absent, Freed}]
      /\ T.memberPath \in [Paths -> Uuids \cup {Absent, Freed}]
      /\ Absent \notin Uuids /\ Absent \notin ArrayObject /\ Absent \notin Paths
      /\ Freed \notin Uuids /\ Freed # Absent /\ p \in Paths
  BY TypesOfArrays DEF Events
<1>2. old \in ArrayObject /\ (T.mdraid[u] = Absent => old.members = {} /\ old.raid = Absent)
  <2>1. NewArray \in ArrayObject /\ NewArray.members = {} /\ NewArray.raid = Absent
    BY DEF NewArray, ArrayObject, OrAbsent
  <2> QED BY <1>1, <2>1 DEF OrAbsent
<1>3. T.mdraid[u] # Absent => old = T.mdraid[u]
  OBVIOUS
<1> HIDE DEF old
<1>4. CASE is_member
  <2> DEFINE a == MemberUevent(old, e)
             x == entry(T.memberPath[p])
             f == [T.mdraid EXCEPT ![u] = a]
             g == T.arrayPath
             h == [T.memberPath EXCEPT ![p] = x]
  <2>1. U = WithArrays(T, f, g, h)
    BY <1>4 DEF Enter, WithArrays, Tables, old
  <2>2. a \in ArrayObject /\ a.members = old.members \cup {p} /\ a.raid = old.raid
    BY <1>2, ArraysUpdated
  <2>3. x \in Uuids \cup {Freed} /\ (x # u => T.mdraid[u] # Absent /\ x = T.memberPath[p])
    BY <1>1
  <2> HIDE DEF a, x
  <2>4. f \in [Uuids -> OrAbsent(ArrayObject)] /\ h \in [Paths -> Uuids \cup {Absent, Freed}]
    BY <1>1, <2>2, <2>3 DEF OrAbsent
  <2>5. /\ \A w \in Uuids : f[w] = IF w = u THEN a ELSE T.mdraid[w]
        /\ \A q \in Paths : h[q] = IF q = p THEN x ELSE T.memberPath[q]
    BY <1>1
  <2>6. U \in Tables /\ ArraysBecome(T, U) /\ U.mdraid = f /\ U.arrayPath = g /\ U.memberPath = h
    <3>1. g \in [Paths -> Uuids \cup {Absent, Freed}]
      BY <1>1
    <3> HIDE DEF f, g, h
    <3> QED BY <2>1, <2>4, <3>1, ArraysReplaced
  <2> HIDE DEF f, h
  <2>7. \A w \in Uuids : T.mdraid[w] # Absent =>
           /\ f[w] # Absent /\ T.mdraid[w].members \subseteq f[w].members
           /\ f[w].raid = T.mdraid[w].raid
    BY <1>1, <1>3, <2>2, <2>5
  <2>8. PointersOK(U)
    <3>1. ASSUME NEW q \in Paths, U.arrayPath[q] \in Uuids
          PROVE  U.mdraid[U.arrayPath[q]] # Absent
      BY <2>6, <2>7, <3>1 DEF PointersOK
    <3>2. ASSUME NEW q \in Paths
          PROVE  /\ U.memberPath[q] # Freed
                 /\ U.memberPath[q] \in Uuids =>
                       /\ U.mdraid[U.memberPath[q]] # Absent
                       /\ q \in U.mdraid[U.memberPath[q]].members
      <4>1. CASE q = p /\ x = u
        BY <1>1, <2>2, <2>5, <2>6, <4>1
      <4>2. CASE q # p \/ x # u
        <5>1. U.memberPath[q] = T.memberPath[q]
          BY <1>1, <2>3, <2>5, <2>6, <4>2
        <5> QED BY <2>6, <2>7, <5>1 DEF PointersOK
      <4> QED BY <4>1, <4>2
    <3> QED BY <3>1, <3>2 DEF PointersOK
  <2>9. ArraysOK(T) => ArraysOK(U)
    BY <2>6, <2>7 DEF ArraysOK
  <2> QED BY <2>6, <2>8, <2>9
<1>5. CASE ~is_member
  <2> DEFINE a == RaidUevent(old, e)
             x == entry(T.arrayPath[p])
             f == [T.mdraid EXCEPT ![u] = a]
             g == [T.arrayPath EXCEPT ![p] = x]
             h == T.memberPath
  <2>1. U = WithArrays(T, f, g, h)
    BY <1>5 DEF Enter, WithArrays, Tables, old
  <2>2. /\ a \in ArrayObject /\ a.members = old.members
        /\ Kind(p) # "partition" => a.raid = p
    BY <1>2, ArraysUpdated
  <2>3. x \in Uuids \cup {Freed} /\ (x # u => T.mdraid[u] # Absent /\ x = T.arrayPath[p])
    BY <1>1
  <2> HIDE DEF a, x
  <2>4. f \in [Uuids -> OrAbsent(ArrayObject)] /\ g \in [Paths -> Uuids \cup {Absent, Freed}]
    BY <1>1, <2>2, <2>3 DEF OrAbsent
  <2>5. /\ \A w \in Uuids : f[w] = IF w = u THEN a ELSE T.mdraid[w]
        /\ \A q \in Paths : g[q] = IF q = p THEN x ELSE T.arrayPath[q]
    BY <1>1
  <2>6. U \in Tables /\ ArraysBecome(T, U) /\ U.mdraid = f /\ U.arrayPath = g /\ U.memberPath = h
    <3>1. h \in [Paths -> Uuids \cup {Absent, Freed}]
      BY <1>1
    <3> HIDE DEF f, g, h
    <3> QED BY <2>1, <2>4, <3>1, ArraysReplaced
  <2> HIDE DEF f, g
  <2>7. \A w \in Uuids : T.mdraid[w] # Absent =>
           f[w] # Absent /\ T.mdraid[w].members = f[w].members
    BY <1>1, <1>3, <2>2, <2>5
  <2>8. PointersOK(U)
    <3>1. ASSUME NEW q \in Paths, U.arrayPath[q] \in Uuids
          PROVE  U.mdraid[U.arrayPath[q]] # Absent
      <4>1. CASE q = p /\ x = u
        BY <1>1, <2>2, <2>5, <2>6, <4>1
      <4>2. CASE q # p \/ x # u
        <5>1. U.arrayPath[q] = T.arrayPath[q]
          BY <1>1, <2>3, <2>5, <2>6, <4>2
        <5> QED BY <2>6, <2>7, <3>1, <5>1 DEF PointersOK
      <4> QED BY <4>1, <4>2
    <3>2. ASSUME NEW q \in Paths
          PROVE  /\ U.memberPath[q] # Freed
                 /\ U.memberPath[q] \in Uuids =>
                       /\ U.mdraid[U.memberPath[q]] # Absent
                       /\ q \in U.mdraid[U.memberPath[q]].members
      BY <2>6, <2>7 DEF PointersOK
    <3> QED BY <3>1, <3>2 DEF PointersOK
  <2>9. ASSUME ArraysOK(T), Kind(p) = "md", u \in machine.arrays[p], T.arrayPath[p] \in {Absent, u},
               NEW q \in Paths, U.arrayPath[q] # Absent
        PROVE  /\ Kind(q) = "md" /\ U.arrayPath[q] \in machine.arrays[q] \cup {Freed}
               /\ Alone(q) => /\ U.arrayPath[q] \in Uuids /\ U.mdraid[U.arrayPath[q]] # Absent
                              /\ U.mdraid[U.arrayPath[q]].raid = q
    <3>1. CASE q = p
      <4>1. x = u
        BY <1>1, <2>3, <2>9
      <4>2. a.raid = p
        BY <2>2, <2>9
      <4> QED BY <1>1, <2>2, <2>5, <2>6, <2>9, <3>1, <4>1, <4>2
    <3>2. CASE q # p
      <4>1. U.arrayPath[q] = T.arrayPath[q]
        BY <2>5, <2>6, <3>2
      <4>2. /\ Kind(q) = "md" /\ T.arrayPath[q] \in machine.arrays[q] \cup {Freed}
            /\ Alone(q) => /\ T.arrayPath[q] \in Uuids
                           /\ T.mdraid[T.arrayPath[q]] # Absent /\ T.mdraid[T.arrayPath[q]].raid = q
        BY <2>9, <4>1 DEF ArraysOK
      <4>3. ASSUME Alone(q)
            PROVE  T.arrayPath[q] # u
        BY <1>1, <2>9, <3>2, <4>2, <4>3 DEF Alone
      <4> QED BY <2>5, <2>6, <4>1, <4>2, <4>3
    <3> QED BY <3>1, <3>2
  <2>10. /\ ArraysOK(T) /\ Kind(p) = "md" /\ u \in machine.arrays[p] /\ T.arrayPath[p] \in {Absent, u}
         => ArraysOK(U)
    BY <2>9 DEF ArraysOK
  <2> QED BY <1>5, <2>6, <2>8, <2>10
<1> QED BY <1>4, <1>5

LEMMA WithUuidHandled ==
    ASSUME machine \in Setups, NEW T \in Tables, PointersOK(T), NEW e \in Events, NEW u,
           NEW is_member \in BOOLEAN, NEW U, U = WithUuid(T, e, u, is_member)
    PROVE  /\ U \in Tables /\ ArraysBecome(T, U) /\ PointersOK(U)
           /\ /\ ArraysOK(T)
              /\ \/ is_member \/ u \notin Uuids
                 \/ Kind(e.path) = "md" /\ u \in machine.arrays[e.path]
              => ArraysOK(U)
<1> DEFINE V == LeaveAsMember(T, e)
<1>1. CASE U = Leave(T, e)
  <2>1. U = LeaveAsArray(V, e)
    BY <1>1 DEF Leave
  <2>2. V \in Tables /\ ArraysBecome(T, V) /\ PointersOK(V) /\ (ArraysOK(T) => ArraysOK(V))
    BY LeftAsMember
  <2> HIDE DEF V
  <2>3. U \in Tables /\ ArraysBecome(V, U) /\ PointersOK(U) /\ (ArraysOK(V) => ArraysOK(U))
    BY <2>1, <2>2, LeftAsArray
  <2>4. ArraysBecome(T, U)
    BY <2>2, <2>3 DEF ArraysBecome, DrivesAlone, SubsystemsAlone
  <2> QED BY <2>2, <2>3, <2>4
<1>2. CASE /\ U = Enter(T, e, u, is_member) /\ e.act # "remove" /\ u \in Uuids
           /\ is_member \/ T.arrayPath[e.path] \in {Absent, u}
  <2>1. u # Absent
    BY <1>2, MachineShape
  <2> QED BY <1>2, <2>1, Entered
<1> QED BY <1>1, <1>2 DEF WithUuid

LEMMA ArraysHandled ==
    ASSUME machine \in Setups, NEW T \in Tables, PointersOK(T), NEW e \in Events,
           NEW U, U = ForMDRaid(T, e)
    PROVE  /\ U \in Tables /\ ArraysBecome(T, U) /\ PointersOK(U)
           /\ ArraysOK(T) /\ EventShape(e) => ArraysOK(U)
<1> DEFINE member == MemberUuid(e)
           own == IF e.array # Absent THEN WithUuid(T, e, e.array, FALSE) ELSE T
<1>1. CASE e.array = Absent /\ member = Absent
  <2> DEFINE b == FALSE
  <2>1. U = WithUuid(T, e, Absent, b) /\ b \in BOOLEAN
    BY <1>1 DEF ForMDRaid
  <2>2. Absent \notin Uuids
    BY MachineShape
  <2> HIDE DEF b
  <2>3. /\ U \in Tables /\ ArraysBecome(T, U) /\ PointersOK(U)
        /\ ArraysOK(T) => ArraysOK(U)
    BY <2>1, <2>2, WithUuidHandled
  <2> QED BY <2>3
<1>2. CASE ~(e.array = Absent /\ member = Absent)
  <2>1. U = IF member # Absent THEN WithUuid(own, e, member, TRUE) ELSE own
    BY <1>2 DEF ForMDRaid
  <2>2. /\ own \in Tables /\ ArraysBecome(T, own) /\ PointersOK(own)
        /\ ArraysOK(T) /\ EventShape(e) => ArraysOK(own)
    <3>1. CASE e.array = Absent
      BY <3>1 DEF ArraysBecome, DrivesAlone, SubsystemsAlone
    <3>2. CASE e.array # Absent
      <4>1. EventShape(e) => \/ e.array \notin Uuids
                             \/ Kind(e.path) = "md" /\ e.array \in machine.arrays[e.path]
        BY <3>2 DEF EventShape
      <4> DEFINE x == e.array
                 b == FALSE
      <4>2. own = WithUuid(T, e, x, b) /\ b \in BOOLEAN
        BY <3>2
      <4> HIDE DEF own, x, b
      <4>3. /\ own \in Tables /\ ArraysBecome(T, own) /\ PointersOK(own)
            /\ /\ ArraysOK(T)
               /\ x \notin Uuids \/ (Kind(e.path) = "md" /\ x \in machine.arrays[e.path])
               => ArraysOK(own)
        BY <4>2, WithUuidHandled
      <4>4. x = e.array
        BY DEF x
      <4> HIDE DEF x
      <4>5. ArraysOK(T) /\ EventShape(e) => ArraysOK(own)
        BY <4>1, <4>3, <4>4
      <4> QED BY <4>3, <4>5
    <3> QED BY <3>1, <3>2
  <2> HIDE DEF own, member
  <2>3. CASE member = Absent
    BY <2>1, <2>2, <2>3
  <2>4. CASE member # Absent
    <3>1. U = WithUuid(own, e, member, TRUE)
      BY <2>1, <2>4
    <3>2. /\ U \in Tables /\ ArraysBecome(own, U) /\ PointersOK(U)
          /\ ArraysOK(own) => ArraysOK(U)
      BY <2>2, <3>1, WithUuidHandled
    <3>3. ArraysBecome(T, U)
      BY <2>2, <3>2 DEF ArraysBecome, DrivesAlone, SubsystemsAlone
    <3> QED BY <2>2, <3>2, <3>3
  <2> QED BY <2>3, <2>4
<1> QED BY <1>1, <1>2

(* The handlers one after another: the tables stay in order, other devices *)
(* stay as they were, and that of the uevent becomes what it says.         *)
TablesOf(T) == PointersOK(T) /\ DrivesOK(T) /\ SubsystemsOK(T)

OthersAsBefore(T, U, p) ==
    /\ U.loaded = T.loaded /\ (~T.loaded => U.claimed = T.claimed)
    /\ \A q \in Paths :
          q # p \/ ~IsBlock(q) => /\ SameBlock(U.block[q], T.block[q])
                                  /\ q \in U.claimed <=> q \in T.claimed
    /\ \A q \in Paths : q # p => U.drivePath[q] = T.drivePath[q]
    /\ \A q \in Paths, n \in Nqns : q # p => (q \in U.subsys[n] <=> q \in T.subsys[n])

BlockAsTold(U, e) ==
    IsBlock(e.path) =>
       /\ e.act = "remove" => U.block[e.path] = Absent
       /\ e.act # "remove" => BlockOf(U.block[e.path], e.path, e.label)
       /\ U.loaded => (e.path \in U.claimed <=> e.act # "remove")

DriveAsTold(T, U, e) ==
    /\ e.act = "remove" => U.drivePath[e.path] = Absent
    /\ e.act # "remove" /\ T.drivePath[e.path] # Absent => U.drivePath[e.path] # Absent
    /\ e.act = "add" /\ ShouldInclude(e.path) => U.drivePath[e.path] # Absent

SubsystemAsTold(T, U, e) ==
    \A n \in Nqns :
       /\ e.act = "remove" => e.path \notin U.subsys[n]
       /\ e.act # "remove" /\ e.path \in T.subsys[n] => e.path \in U.subsys[n]
       /\ e.act = "add" /\ n = machine.nqn[e.path] /\ e.path \in present /\ e.path \in ready
          => e.path \in U.subsys[n]

LEMMA TablesKept ==
    ASSUME NEW T, NEW U
    PROVE  /\ ArraysAlone(T, U) => (PointersOK(T) => PointersOK(U)) /\ (ArraysOK(T) => ArraysOK(U))
           /\ DrivesAlone(T, U) => (DrivesOK(T) => DrivesOK(U))
           /\ SubsystemsAlone(T, U) => (SubsystemsOK(T) => SubsystemsOK(U))
<1>1. ArraysAlone(T, U) => (PointersOK(T) => PointersOK(U)) /\ (ArraysOK(T) => ArraysOK(U))
  BY DEF ArraysAlone, PointersOK, ArraysOK
<1>2. ASSUME DrivesAlone(T, U), DrivesOK(T)
      PROVE  DrivesOK(U)
  <2>1. U.drive = T.drive /\ U.drivePath = T.drivePath
    BY <1>2 DEF DrivesAlone
  <2>2. \A v \in Vpds : PathsOf(U, v) = PathsOf(T, v)
    BY <2>1 DEF PathsOf
  <2> QED BY <1>2, <2>1, <2>2 DEF DrivesOK
<1>3. SubsystemsAlone(T, U) => (SubsystemsOK(T) => SubsystemsOK(U))
  BY DEF SubsystemsAlone, SubsystemsOK
<1> QED BY <1>1, <1>2, <1>3

LEMMA BlockUeventHandled ==
    ASSUME machine \in Setups, NEW T \in Tables, TablesOf(T), NEW e \in Events,
           e.act # "refresh", e.flag # "disabled" \/ e.act = "remove",
           NEW U, U = HandleBlockUevent(T, e)
    PROVE  /\ U \in Tables /\ TablesOf(U) /\ SubsystemsAlone(T, U)
           /\ ArraysOK(T) /\ EventShape(e) => ArraysOK(U)
           /\ OthersAsBefore(T, U, e.path) /\ BlockAsTold(U, e) /\ DriveAsTold(T, U, e)
<1> DEFINE p == e.path
<1>1. CASE e.act = "remove"
  <2> DEFINE A == ForBlock(T, e)
             B == ForDrive(A, e)
             C == ForMDRaid(B, e)
  <2>1. U = ForModules(C, e)
    BY <1>1 DEF HandleBlockUevent
  <2>2. /\ A \in Tables /\ BlockBecomes(T, A)
        /\ \A q \in Paths : q # p \/ ~IsBlock(q) => SameBlock(A.block[q], T.block[q])
        /\ IsBlock(p) => A.block[p] = Absent
    BY <1>1, BlocksHandled
  <2> HIDE DEF A
  <2>3. TablesOf(A) /\ (ArraysOK(T) => ArraysOK(A))
    BY <2>2, TablesKept DEF BlockBecomes, TablesOf
  <2>4. /\ B \in Tables /\ DrivesOK(B) /\ DrivesBecome(A, B, B.drive, B.drivePath)
        /\ \A q \in Paths : q # p => B.drivePath[q] = A.drivePath[q]
        /\ B.drivePath[p] = Absent
    BY <1>1, <2>2, <2>3, DrivesHandled DEF TablesOf
  <2> HIDE DEF B
  <2>5. PointersOK(B) /\ SubsystemsOK(B) /\ (ArraysOK(T) => ArraysOK(B))
    BY <2>3, <2>4, TablesKept DEF DrivesBecome, TablesOf
  <2>6. /\ C \in Tables /\ ArraysBecome(B, C) /\ PointersOK(C)
        /\ ArraysOK(B) /\ EventShape(e) => ArraysOK(C)
    BY <2>4, <2>5, ArraysHandled
  <2> HIDE DEF C
  <2>7. /\ U \in Tables
        /\ ArraysAlone(C, U) /\ DrivesAlone(C, U) /\ SubsystemsAlone(C, U)
        /\ U.block = C.block /\ U.loaded = C.loaded
        /\ ~C.loaded => U.claimed = C.claimed
        /\ \A q \in Paths : q # p \/ ~IsBlock(q) => (q \in U.claimed <=> q \in C.claimed)
        /\ C.loaded /\ IsBlock(p) => p \notin U.claimed
    BY <1>1, <2>1, <2>6, ModulesHandled
  <2>8. TablesOf(U) /\ (ArraysOK(C) => ArraysOK(U))
    BY <2>4, <2>5, <2>6, <2>7, TablesKept DEF ArraysBecome, TablesOf
  <2>9. /\ U.block = A.block /\ U.drivePath = B.drivePath /\ A.drivePath = T.drivePath
        /\ SubsystemsAlone(T, U) /\ U.loaded = T.loaded /\ C.loaded = T.loaded
        /\ C.claimed = T.claimed
    BY <2>2, <2>4, <2>6, <2>7
       DEF BlockBecomes, DrivesBecome, ArraysBecome, DrivesAlone, SubsystemsAlone
  <2>10. OthersAsBefore(T, U, p)
    BY <2>2, <2>4, <2>7, <2>9 DEF OthersAsBefore, SubsystemsAlone
  <2>11. BlockAsTold(U, e) /\ DriveAsTold(T, U, e)
    BY <1>1, <2>2, <2>4, <2>7, <2>9 DEF BlockAsTold, DriveAsTold
  <2> QED BY <2>5, <2>6, <2>7, <2>8, <2>9, <2>10, <2>11
<1>2. CASE e.act # "remove"
  <2> DEFINE A == ForModules(T, e)
             B == ForMDRaid(A, e)
             C == ForDrive(B, e)
  <2>1. U = ForBlock(C, e)
    BY <1>2 DEF HandleBlockUevent
  <2>2. /\ A \in Tables
        /\ ArraysAlone(T, A) /\ DrivesAlone(T, A) /\ SubsystemsAlone(T, A)
        /\ A.block = T.block /\ A.loaded = T.loaded
        /\ ~T.loaded => A.claimed = T.claimed
        /\ \A q \in Paths : q # p \/ ~IsBlock(q) => (q \in A.claimed <=> q \in T.claimed)
        /\ T.loaded /\ IsBlock(p) => p \in A.claimed
    BY <1>2, ModulesHandled
  <2> HIDE DEF A
  <2>3. TablesOf(A) /\ (ArraysOK(T) => ArraysOK(A))
    BY <2>2, TablesKept DEF TablesOf
  <2>4. /\ B \in Tables /\ ArraysBecome(A, B) /\ PointersOK(B)
        /\ ArraysOK(A) /\ EventShape(e) => ArraysOK(B)
    BY <2>2, <2>3, ArraysHandled DEF TablesOf
  <2> HIDE DEF B
  <2>5. DrivesOK(B) /\ SubsystemsOK(B)
    BY <2>3, <2>4, TablesKept DEF ArraysBecome, TablesOf
  <2>6. /\ C \in Tables /\ DrivesOK(C) /\ DrivesBecome(B, C, C.drive, C.drivePath)
        /\ \A q \in Paths : q # p => C.drivePath[q] = B.drivePath[q]
        /\ B.drivePath[p] # Absent => C.drivePath[p] # Absent
        /\ e.act = "add" /\ ShouldInclude(p) => C.drivePath[p] # Absent
    BY <1>2, <2>4, <2>5, DrivesHandled
  <2> HIDE DEF C
  <2>7. PointersOK(C) /\ SubsystemsOK(C) /\ (ArraysOK(B) => ArraysOK(C))
    BY <2>4, <2>5, <2>6, TablesKept DEF DrivesBecome
  <2>8. /\ U \in Tables /\ BlockBecomes(C, U)
        /\ \A q \in Paths : q # p \/ ~IsBlock(q) => SameBlock(U.block[q], C.block[q])
        /\ IsBlock(p) => BlockOf(U.block[p], p, e.label)
    BY <1>2, <2>1, <2>6, BlocksHandled
  <2>9. TablesOf(U) /\ (ArraysOK(C) => ArraysOK(U))
    BY <2>6, <2>7, <2>8, TablesKept DEF BlockBecomes, TablesOf
  <2>10. /\ C.block = T.block /\ U.drivePath = C.drivePath /\ B.drivePath = T.drivePath
         /\ SubsystemsAlone(T, U) /\ U.loaded = T.loaded /\ U.claimed = A.claimed
    BY <2>2, <2>4, <2>6, <2>8
       DEF BlockBecomes, DrivesBecome, ArraysBecome, DrivesAlone, SubsystemsAlone
  <2>11. OthersAsBefore(T, U, p)
    BY <2>2, <2>6, <2>8, <2>10 DEF OthersAsBefore, SubsystemsAlone
  <2>12. BlockAsTold(U, e) /\ DriveAsTold(T, U, e)
    BY <1>2, <2>2, <2>6, <2>8, <2>10 DEF BlockAsTold, DriveAsTold
  <2> QED BY <2>3, <2>4, <2>7, <2>8, <2>9, <2>10, <2>11, <2>12
<1> QED BY <1>1, <1>2

(* A uevent of any kind.                                                   *)
LEMMA UeventHandled ==
    ASSUME machine \in Setups, NEW T \in Tables, TablesOf(T), NEW e \in Events,
           EventShape(e), e.act # "refresh", NEW U, U = HandleUevent(T, e)
    PROVE  /\ U \in Tables /\ TablesOf(U)
           /\ ArraysOK(T) => ArraysOK(U)
           /\ OthersAsBefore(T, U, e.path)
           /\ e.flag # "disabled" => BlockAsTold(U, e)
           /\ DriveAsTold(T, U, e) /\ SubsystemAsTold(T, U, e)
<1> DEFINE A == HandleBlockUevent(T, e)
           p == e.path
<1>0. p \in Paths
  BY DEF Events
<1>1. /\ A \in Tables /\ TablesOf(A) /\ SubsystemsAlone(T, A)
      /\ ArraysOK(T) => ArraysOK(A)
      /\ OthersAsBefore(T, A, p)
      /\ e.flag # "disabled" => BlockAsTold(A, e)
      /\ DriveAsTold(T, A, e)
  <2>1. CASE e.flag = "disabled"
    <3>1. e.act = "add" /\ Kind(p) = "dm"
      BY <2>1 DEF EventShape
    <3>2. A = T
      BY <2>1, <3>1 DEF HandleBlockUevent
    <3>3. ~ShouldInclude(p)
      BY <3>1 DEF ShouldInclude
    <3> QED BY <2>1, <3>1, <3>2, <3>3
            DEF OthersAsBefore, SameBlock, DriveAsTold, SubsystemsAlone
  <2>2. CASE e.flag # "disabled"
    BY <2>2, BlockUeventHandled
  <2> QED BY <2>1, <2>2
<1>2. U = ForSubsystem(A, e)
  BY DEF HandleUevent
<1> HIDE DEF A
<1>3. /\ U \in Tables /\ SubsystemsOK(U)
      /\ ArraysAlone(A, U) /\ DrivesAlone(A, U)
      /\ U.block = A.block /\ U.loaded = A.loaded /\ U.claimed = A.claimed
      /\ \A q \in Paths, n \in Nqns : q # p => (q \in U.subsys[n] <=> q \in A.subsys[n])
      /\ \A n \in Nqns :
           /\ e.act = "remove" => p \notin U.subsys[n]
           /\ e.act # "remove" /\ p \in A.subsys[n] => p \in U.subsys[n]
           /\ /\ e.act = "add" /\ n = machine.nqn[p]
              /\ p \in present => p \in ready
              => p \in U.subsys[n] \/ p \notin present
  BY <1>1, <1>2, SubsystemsHandled DEF TablesOf
<1>4. TablesOf(U) /\ (ArraysOK(A) => ArraysOK(U))
  BY <1>1, <1>3, TablesKept DEF TablesOf
<1>5. U.drivePath = A.drivePath /\ A.subsys = T.subsys
  BY <1>1, <1>3 DEF DrivesAlone, SubsystemsAlone
<1>6. OthersAsBefore(T, U, p)
  BY <1>1, <1>3, <1>5 DEF OthersAsBefore
<1>7. e.flag # "disabled" => BlockAsTold(U, e)
  BY <1>1, <1>3 DEF BlockAsTold
<1>8. DriveAsTold(T, U, e)
  BY <1>1, <1>5 DEF DriveAsTold
<1>9. SubsystemAsTold(T, U, e)
  BY <1>3, <1>5 DEF SubsystemAsTold
<1> QED BY <1>1, <1>3, <1>4, <1>6, <1>7, <1>8, <1>9

(* A block object brought up to date.                                      *)
LEMMA RefreshHandled ==
    ASSUME machine \in Setups, NEW T \in Tables, TablesOf(T), NEW e \in Events,
           e.act = "refresh", NEW U, U = ForBlock(T, e)
    PROVE  /\ U \in Tables /\ TablesOf(U) /\ (ArraysOK(T) => ArraysOK(U))
           /\ OthersAsBefore(T, U, e.path)
           /\ IsBlock(e.path) => BlockOf(U.block[e.path], e.path, e.label)
           /\ DrivesAlone(T, U) /\ SubsystemsAlone(T, U)
           /\ U.loaded = T.loaded /\ U.claimed = T.claimed
<1>1. /\ U \in Tables /\ BlockBecomes(T, U)
      /\ \A q \in Paths : q # e.path \/ ~IsBlock(q) => SameBlock(U.block[q], T.block[q])
      /\ IsBlock(e.path) => BlockOf(U.block[e.path], e.path, e.label)
  BY BlocksHandled
<1>2. TablesOf(U) /\ (ArraysOK(T) => ArraysOK(U))
  BY <1>1, TablesKept DEF BlockBecomes, TablesOf
<1>3. OthersAsBefore(T, U, e.path)
  BY <1>1 DEF BlockBecomes, OthersAsBefore, DrivesAlone, SubsystemsAlone
<1> QED BY <1>1, <1>2, <1>3 DEF BlockBecomes

-----------------------------------------------------------------------------
(* A change of the world is reported.                                      *)
LEMMA EmptySays ==
    ASSUME NEW p
    PROVE  /\ Quiet(<<>>, p) /\ Stays(<<>>, p) /\ ~Comes(<<>>, p)
           /\ \A x : ~Last(<<>>, p, x)
BY DEF Quiet, Stays, Comes, Last

LEMMA OneSays ==
    ASSUME NEW e \in Events, e.act # "refresh", NEW p
    PROVE  /\ <<e>> \in Seq(Events)
           /\ Quiet(<<e>>, p) <=> e.path # p
           /\ \A x : Last(<<e>>, p, x) <=> e.path = p /\ x = e
           /\ Stays(<<e>>, p) <=> e.path # p \/ e.act # "remove"
           /\ Comes(<<e>>, p) <=> e.path = p /\ e.act = "add"
<1> DEFINE z == <<>>
           s == <<e>>
<1>1. z \in Seq(Events) /\ s = Append(z, e) /\ s \in Seq(Events)
  OBVIOUS
<1>2. Quiet(z, p) /\ Stays(z, p) /\ ~Comes(z, p) /\ \A x : ~Last(z, p, x)
  BY EmptySays
<1> HIDE DEF z, s, Events
<1>3. /\ Quiet(s, p) <=> Quiet(z, p) /\ (e.path = p => e.act = "refresh")
      /\ \A x : Last(s, p, x) <=>
            IF e.path = p /\ e.act # "refresh" THEN x = e ELSE Last(z, p, x)
      /\ Stays(s, p) <=> Stays(z, p) /\ (e.path = p => e.act # "remove")
      /\ Comes(s, p) <=> \/ e.path = p /\ e.act = "add"
                         \/ (e.path = p => e.act # "remove") /\ Comes(z, p)
  BY <1>1, AppendSays
<1>4. /\ Quiet(s, p) <=> e.path # p
      /\ \A x : Last(s, p, x) <=> e.path = p /\ x = e
      /\ Stays(s, p) <=> e.path # p \/ e.act # "remove"
      /\ Comes(s, p) <=> e.path = p /\ e.act = "add"
  BY <1>2, <1>3
<1> QED BY <1>1, <1>4 DEF s

LEMMA TwoSay ==
    ASSUME NEW d \in Events, NEW e \in Events, d.act # "refresh", e.act # "refresh", NEW p
    PROVE  /\ <<d, e>> \in Seq(Events)
           /\ Quiet(<<d, e>>, p) <=> d.path # p /\ e.path # p
           /\ \A x : Last(<<d, e>>, p, x) <=>
                 IF e.path = p THEN x = e ELSE d.path = p /\ x = d
           /\ Stays(<<d, e>>, p) <=>
                 (d.path # p \/ d.act # "remove") /\ (e.path # p \/ e.act # "remove")
           /\ Comes(<<d, e>>, p) <=> \/ e.path = p /\ e.act = "add"
                                     \/ /\ e.path # p \/ e.act # "remove"
                                        /\ d.path = p /\ d.act = "add"
<1> DEFINE z == <<d>>
           s == <<d, e>>
<1>1. z \in Seq(Events) /\ s = Append(z, e) /\ s \in Seq(Events)
  OBVIOUS
<1>2. /\ Quiet(z, p) <=> d.path # p
      /\ \A x : Last(z, p, x) <=> d.path = p /\ x = d
      /\ Stays(z, p) <=> d.path # p \/ d.act # "remove"
      /\ Comes(z, p) <=> d.path = p /\ d.act = "add"
  BY OneSays
<1> HIDE DEF z, s, Events
<1>3. /\ Quiet(s, p) <=> Quiet(z, p) /\ (e.path = p => e.act = "refresh")
      /\ \A x : Last(s, p, x) <=>
            IF e.path = p /\ e.act # "refresh" THEN x = e ELSE Last(z, p, x)
      /\ Stays(s, p) <=> Stays(z, p) /\ (e.path = p => e.act # "remove")
      /\ Comes(s, p) <=> \/ e.path = p /\ e.act = "add"
                         \/ (e.path = p => e.act # "remove") /\ Comes(z, p)
  BY <1>1, AppendSays
<1>4. /\ Quiet(s, p) <=> d.path # p /\ e.path # p
      /\ \A x : Last(s, p, x) <=> IF e.path = p THEN x = e ELSE d.path = p /\ x = d
      /\ Stays(s, p) <=> (d.path # p \/ d.act # "remove") /\ (e.path # p \/ e.act # "remove")
      /\ Comes(s, p) <=> \/ e.path = p /\ e.act = "add"
                         \/ /\ e.path # p \/ e.act # "remove"
                            /\ d.path = p /\ d.act = "add"
  BY <1>2, <1>3
<1> QED BY <1>1, <1>4 DEF s

(* The events tell all that changes of a device, and in the end how it is. *)
SameWorld(p) ==
    /\ p \in present' <=> p \in present
    /\ label'[p] = label[p]
    /\ Partitioned(p)' <=> Partitioned(p)

Reports(events) ==
    /\ \A i \in DOMAIN events : EventShape(events[i]) /\ events[i].act # "refresh"
    /\ \A p \in Paths : Quiet(events, p) => SameWorld(p)
    /\ \A p \in Paths, x \in Events : Last(events, p, x) => Agrees(p, x)'
    /\ \A p \in present' : Comes(events, p) \/ (Stays(events, p) /\ p \in present)

WorldType ==
    /\ present \subseteq Devices /\ ready \subseteq Devices
    /\ label \in [Paths -> Labels] /\ array \in [Paths -> OrAbsent(Uuids)]

LEMMA SnapshotShape ==
    ASSUME machine \in Setups, WorldType, WorldShape, NEW p \in Paths,
           NEW act \in {"add", "remove", "change"}
    PROVE  LET e == Snapshot(act, p) IN
           /\ e \in Events /\ EventShape(e)
           /\ e.act = act /\ e.path = p /\ e.label = label[p] /\ e.flag = "none"
           /\ e.array = array[p]
<1> DEFINE e == Snapshot(act, p)
<1>1. /\ e.act = act /\ e.path = p /\ e.label = label[p] /\ e.flag = "none"
      /\ e.array = array[p]
  BY DEF Snapshot
<1>2. label[p] \in Labels /\ array[p] \in OrAbsent(Uuids) \cup {Bogus}
  BY DEF WorldType
<1>3. e \in Events
  BY <1>2 DEF Snapshot, Events
<1>4. EventShape(e)
  BY <1>1, MachineShape DEF EventShape, WorldShape
<1> QED BY <1>1, <1>3, <1>4

LEMMA PlugReports ==
    ASSUME machine \in Setups, WorldType, WorldShape, NEW p \in Devices, Plug(p)
    PROVE  /\ \E events \in Seq(Events) : Emit(events) /\ Reports(events)
           /\ (WorldType /\ WorldShape)'
<1> DEFINE a == Snapshot("add", p)
           c == Snapshot("change", p)
           d == [a EXCEPT !.flag = "disabled"]
           o == Snapshot("change", On(p))
           events == IF Kind(p) = "dm" THEN <<d, c>>
                     ELSE IF Kind(p) = "partition" THEN <<a, o>> ELSE <<a>>
<1>1. /\ p \in Paths /\ p \notin present /\ On(p) \in OrAbsent(present)
      /\ present' = present \cup {p} /\ Emit(events)
      /\ label' = label /\ array' = array /\ machine' = machine
      /\ ready' \in {ready \cup {p}, ready \ {p}}
      /\ present \subseteq Paths /\ Absent \notin Paths
  BY MachineShape DEF Plug, Emit, WithParent, Snapshot, WorldType
<1>2. (WorldType /\ WorldShape)'
  BY <1>1 DEF WorldType, WorldShape, Devices, On, Kind, OrAbsent
<1>3. /\ a \in Events /\ EventShape(a) /\ a.act = "add" /\ a.path = p
      /\ a.label = label[p] /\ a.flag = "none" /\ a.array = array[p]
      /\ c \in Events /\ EventShape(c) /\ c.act = "change" /\ c.path = p
      /\ c.label = label[p] /\ c.flag = "none"
  BY <1>1, SnapshotShape
<1> HIDE DEF c
<1>4. ASSUME NEW q \in Paths \ {p}, Kind(p) = "partition" => q # On(p)
      PROVE  SameWorld(q)
  BY <1>1, <1>4 DEF SameWorld, Partitioned, Whole, Kind, On
<1>5. \A e \in Events : /\ e.path \in present' /\ e.act # "remove" /\ e.flag # "disabled"
                        /\ e.label = label[e.path]
                        => Agrees(e.path, e)'
  BY <1>1 DEF Agrees
<1>6. CASE Kind(p) = "dm"
  <2>1. d \in Events /\ d.act = "add" /\ d.path = p /\ d.flag = "disabled" /\ d.array = a.array
    BY <1>3 DEF Events
  <2>2. EventShape(d)
    BY <1>3, <1>6, <2>1 DEF EventShape
  <2> HIDE DEF a, d
  <2>3. events = <<d, c>> /\ events \in Seq(Events)
    BY <1>3, <1>6, <2>1
  <2> HIDE DEF events, Events
  <2>4. \A i \in DOMAIN events : events[i] = d \/ events[i] = c
    BY <2>3
  <2>5. ASSUME NEW q \in Paths
        PROVE  /\ Quiet(events, q) <=> q # p
               /\ \A x : Last(events, q, x) => q = p /\ x = c
               /\ q = p => Comes(events, q)
               /\ q # p => Stays(events, q)
    <3>1. /\ Quiet(events, q) <=> d.path # q /\ c.path # q
          /\ \A x : Last(events, q, x) <=> IF c.path = q THEN x = c ELSE d.path = q /\ x = d
          /\ Stays(events, q) <=>
                (d.path # q \/ d.act # "remove") /\ (c.path # q \/ c.act # "remove")
          /\ Comes(events, q) <=> \/ c.path = q /\ c.act = "add"
                                  \/ /\ c.path # q \/ c.act # "remove"
                                     /\ d.path = q /\ d.act = "add"
      BY <1>3, <2>1, <2>3, TwoSay
    <3> QED BY <1>3, <2>1, <3>1
  <2>6. Reports(events)
    BY <1>1, <1>3, <1>4, <1>5, <1>6, <2>1, <2>2, <2>4, <2>5 DEF Reports
  <2> QED BY <1>1, <1>2, <2>3, <2>6
<1>7. CASE Kind(p) = "partition"
  <2>1. On(p) \in present /\ On(p) # p /\ On(p) \in Paths
    BY <1>1, <1>7, MachineShape DEF OrAbsent
  <2>2. /\ o \in Events /\ EventShape(o) /\ o.act = "change" /\ o.path = On(p)
        /\ o.label = label[On(p)] /\ o.flag = "none"
    BY <2>1, SnapshotShape
  <2> HIDE DEF a, o
  <2>3. events = <<a, o>> /\ events \in Seq(Events)
    BY <1>3, <1>7, <2>2
  <2> HIDE DEF events, Events
  <2>4. \A i \in DOMAIN events : events[i] = a \/ events[i] = o
    BY <2>3
  <2>5. ASSUME NEW q \in Paths
        PROVE  /\ Quiet(events, q) <=> q # p /\ q # On(p)
               /\ \A x : Last(events, q, x) => (q = On(p) /\ x = o) \/ (q = p /\ x = a)
               /\ q = p => Comes(events, q)
               /\ q # p => Stays(events, q)
    <3>1. /\ Quiet(events, q) <=> a.path # q /\ o.path # q
          /\ \A x : Last(events, q, x) <=> IF o.path = q THEN x = o ELSE a.path = q /\ x = a
          /\ Stays(events, q) <=>
               (a.path # q \/ a.act # "remove") /\ (o.path # q \/ o.act # "remove")
          /\ Comes(events, q) <=> \/ o.path = q /\ o.act = "add"
                                  \/ /\ o.path # q \/ o.act # "remove"
                                     /\ a.path = q /\ a.act = "add"
      <4>1. a \in Events /\ o \in Events /\ a.act # "refresh" /\ o.act # "refresh"
        BY <1>3, <2>2
      <4> QED BY <2>3, <4>1, TwoSay
    <3> QED BY <1>3, <2>1, <2>2, <3>1
  <2>6. Reports(events)
    BY <1>1, <1>3, <1>4, <1>5, <2>1, <2>2, <2>4, <2>5 DEF Reports
  <2> QED BY <1>1, <1>2, <2>3, <2>6
<1>8. CASE Kind(p) \notin {"dm", "partition"}
  <2> HIDE DEF a
  <2>1. events = <<a>> /\ events \in Seq(Events)
    BY <1>3, <1>8
  <2> HIDE DEF events, Events
  <2>2. \A i \in DOMAIN events : events[i] = a
    BY <2>1
  <2>3. ASSUME NEW q \in Paths
        PROVE  /\ Quiet(events, q) <=> q # p
               /\ \A x : Last(events, q, x) => q = p /\ x = a
               /\ q = p => Comes(events, q)
               /\ q # p => Stays(events, q)
    BY <1>3, <2>1, OneSays
  <2>4. Reports(events)
    BY <1>1, <1>3, <1>4, <1>5, <1>8, <2>2, <2>3 DEF Reports
  <2> QED BY <1>1, <1>2, <2>1, <2>4
<1> QED BY <1>6, <1>7, <1>8

LEMMA UnplugReports ==
    ASSUME machine \in Setups, WorldType, WorldShape, NEW p \in Devices, Unplug(p)
    PROVE  /\ \E events \in Seq(Events) : Emit(events) /\ Reports(events)
           /\ (WorldType /\ WorldShape)'
<1> DEFINE r == Snapshot("remove", p)
           o == Snapshot("change", On(p))
           events == IF Kind(p) = "partition" THEN <<r, o>> ELSE <<r>>
<1>1. /\ p \in Paths /\ p \in present /\ \A q \in present : On(q) # p
      /\ present' = present \ {p} /\ ready' = ready \ {p} /\ Emit(events)
      /\ label' = label /\ array' = [array EXCEPT ![p] = Absent] /\ machine' = machine
      /\ present \subseteq Paths /\ Absent \notin Paths
  BY MachineShape DEF Unplug, Emit, WithParent, Snapshot, WorldType
<1>2. (WorldType /\ WorldShape)'
  <2>1. array' \in [Paths -> OrAbsent(Uuids)] /\ \A q \in Paths : array'[q] \in {Absent, array[q]}
    BY <1>1 DEF WorldType, OrAbsent
  <2>2. WorldType'
    BY <1>1, <2>1 DEF WorldType, Devices
  <2>3. WorldShape'
    BY <1>1, <2>1 DEF WorldShape, On, Kind, OrAbsent
  <2> QED BY <2>2, <2>3
<1>3. /\ r \in Events /\ EventShape(r) /\ r.act = "remove" /\ r.path = p /\ r.flag = "none"
  BY <1>1, SnapshotShape
<1>4. ASSUME NEW q \in Paths \ {p}, Kind(p) = "partition" => q # On(p)
      PROVE  SameWorld(q)
  BY <1>1, <1>4 DEF SameWorld, Partitioned, Whole, Kind, On
<1>5. /\ p \notin present' /\ \A x : x.act = "remove" /\ x.flag # "disabled" => Agrees(p, x)'
      /\ \A q \in present' : \A x : /\ x.act # "remove" /\ x.flag # "disabled"
                                     /\ x.label = label[q]
                                     => Agrees(q, x)'
  BY <1>1 DEF Agrees
<1> HIDE DEF r
<1>6. CASE Kind(p) = "partition"
  <2>1. On(p) \in present /\ On(p) # p /\ On(p) \in Paths
    BY <1>1, <1>6, MachineShape DEF OrAbsent, WorldShape
  <2>2. /\ o \in Events /\ EventShape(o) /\ o.act = "change" /\ o.path = On(p)
        /\ o.label = label[On(p)] /\ o.flag = "none"
    BY <2>1, SnapshotShape
  <2>3. On(p) \in present'
    BY <1>1, <2>1
  <2> HIDE DEF o
  <2>4. events = <<r, o>> /\ events \in Seq(Events)
    BY <1>3, <1>6, <2>2
  <2> HIDE DEF events, Events
  <2>5. \A i \in DOMAIN events : events[i] = r \/ events[i] = o
    BY <2>4
  <2>6. ASSUME NEW q \in Paths
        PROVE  /\ Quiet(events, q) <=> q # p /\ q # On(p)
               /\ \A x : Last(events, q, x) => (q = On(p) /\ x = o) \/ (q = p /\ x = r)
               /\ q # p => Stays(events, q)
    <3>1. /\ Quiet(events, q) <=> r.path # q /\ o.path # q
          /\ \A x : Last(events, q, x) <=> IF o.path = q THEN x = o ELSE r.path = q /\ x = r
          /\ Stays(events, q) <=>
                (r.path # q \/ r.act # "remove") /\ (o.path # q \/ o.act # "remove")
          /\ Comes(events, q) <=> \/ o.path = q /\ o.act = "add"
                                  \/ /\ o.path # q \/ o.act # "remove"
                                     /\ r.path = q /\ r.act = "add"
      BY <1>3, <2>1, <2>2, <2>4, TwoSay
    <3> QED BY <1>3, <2>1, <2>2, <3>1
  <2>7. Reports(events)
    BY <1>1, <1>3, <1>4, <1>5, <2>2, <2>3, <2>5, <2>6 DEF Reports
  <2> QED BY <1>1, <1>2, <2>4, <2>7
<1>7. CASE Kind(p) # "partition"
  <2>1. events = <<r>> /\ events \in Seq(Events)
    BY <1>3, <1>7
  <2> HIDE DEF events, Events
  <2>2. \A i \in DOMAIN events : events[i] = r
    BY <2>1
  <2>3. ASSUME NEW q \in Paths
        PROVE  /\ Quiet(events, q) <=> q # p
               /\ \A x : Last(events, q, x) => q = p /\ x = r
               /\ q # p => Stays(events, q)
    BY <1>3, <2>1, OneSays
  <2>4. Reports(events)
    BY <1>1, <1>3, <1>4, <1>5, <1>7, <2>2, <2>3 DEF Reports
  <2> QED BY <1>1, <1>2, <2>1, <2>4
<1> QED BY <1>6, <1>7

(* What changes on a device that stays is reported of that device.         *)
LEMMA ChangeReports ==
    ASSUME NEW p \in present, present \subseteq Paths, present' = present, machine' = machine,
           NEW e \in Events, EventShape(e), e.act = "change", e.path = p,
           e.flag # "disabled", e.label = label'[p],
           \A q \in Paths : q # p => label'[q] = label[q]
    PROVE  Reports(<<e>>) /\ <<e>> \in Seq(Events)
<1>1. <<e>> \in Seq(Events) /\ \A i \in DOMAIN <<e>> : <<e>>[i] = e
  OBVIOUS
<1>2. \A q \in Paths : q # p => SameWorld(q)
  BY DEF SameWorld, Partitioned, Whole, Kind, On
<1>3. Agrees(p, e)'
  BY DEF Agrees
<1>4. ASSUME NEW q \in Paths
      PROVE  /\ Quiet(<<e>>, q) <=> q # p
             /\ \A x : Last(<<e>>, q, x) => q = p /\ x = e
             /\ Stays(<<e>>, q)
  BY OneSays
<1> DEFINE s == <<e>>
<1> HIDE DEF s, Events
<1>5. Reports(s)
  BY <1>1, <1>2, <1>3, <1>4 DEF Reports, s
<1> QED BY <1>1, <1>5 DEF s

LEMMA OtherReports ==
    ASSUME machine \in Setups, WorldType, WorldShape, NEW p \in Devices,
           \/ Identified(p)
           \/ \E lab \in Labels : Relabel(p, lab) \/ MediaChange(p, lab)
           \/ \E u \in Uuids : Assemble(p, u)
           \/ \E u \in OrAbsent(Uuids) \cup {Bogus} : StopArray(p, u)
    PROVE  /\ \E events \in Seq(Events) : Emit(events) /\ Reports(events)
           /\ (WorldType /\ WorldShape)'
<1> DEFINE c == Snapshot("change", p)
<1>1. p \in Paths /\ present \subseteq Paths
  BY MachineShape DEF WorldType
<1>2. /\ c \in Events /\ EventShape(c) /\ c.act = "change" /\ c.path = p
      /\ c.label = label[p] /\ c.flag = "none" /\ c.array = array[p]
  BY <1>1, SnapshotShape
<1> HIDE DEF c
<1>3. CASE Identified(p)
  <2>1. /\ p \in present /\ present' = present /\ machine' = machine /\ Emit(<<c>>)
        /\ label' = label /\ array' = array /\ ready' = ready \cup {p}
    BY <1>3 DEF Identified, Emit, c
  <2>2. (WorldType /\ WorldShape)'
    BY <2>1 DEF WorldType, WorldShape, Devices, On, Kind
  <2> QED BY <1>1, <1>2, <2>1, <2>2, ChangeReports
<1>4. ASSUME NEW lab \in Labels, NEW flag \in {"none", "media"},
             p \in present, present' = present, label' = [label EXCEPT ![p] = lab],
             UNCHANGED <<machine, array, ready>>,
             NEW e, e = [c EXCEPT !.label = lab, !.flag = flag], Emit(<<e>>)
      PROVE  /\ \E events \in Seq(Events) : Emit(events) /\ Reports(events)
             /\ (WorldType /\ WorldShape)'
  <2>1. /\ e \in Events /\ e.act = "change" /\ e.path = p /\ e.flag = flag
        /\ e.label = lab /\ e.array = c.array
    BY <1>2, <1>4 DEF Events
  <2>2. EventShape(e)
    BY <1>2, <2>1 DEF EventShape
  <2>3. /\ label' \in [Paths -> Labels] /\ label'[p] = lab
        /\ \A q \in Paths : q # p => label'[q] = label[q]
    BY <1>1, <1>4 DEF WorldType
  <2>4. (WorldType /\ WorldShape)'
    BY <1>4, <2>3 DEF WorldType, WorldShape, Devices, On, Kind
  <2> QED BY <1>1, <1>4, <2>1, <2>2, <2>3, <2>4, ChangeReports
<1>5. ASSUME NEW u \in OrAbsent(Uuids) \cup {Bogus}, NEW x \in OrAbsent(Uuids),
             NEW flag \in {"none", "bogus"},
             p \in present, present' = present, Kind(p) = "md", label' = label,
             array' = [array EXCEPT ![p] = x], UNCHANGED <<machine, ready>>,
             u \in Uuids => u \in machine.arrays[p], x # Absent => x \in machine.arrays[p],
             NEW e, e = [c EXCEPT !.array = u, !.flag = flag], Emit(<<e>>)
      PROVE  /\ \E events \in Seq(Events) : Emit(events) /\ Reports(events)
             /\ (WorldType /\ WorldShape)'
  <2>1. /\ e \in Events /\ e.act = "change" /\ e.path = p /\ e.flag = flag
        /\ e.label = label[p] /\ e.array = u
    BY <1>2, <1>5 DEF Events
  <2>2. EventShape(e)
    BY <1>5, <2>1 DEF EventShape
  <2>3. /\ array' \in [Paths -> OrAbsent(Uuids)]
        /\ \A q \in Paths : q # p => array'[q] = array[q]
    BY <1>1, <1>5 DEF WorldType
  <2>4. (WorldType /\ WorldShape)'
    BY <1>5, <2>3 DEF WorldType, WorldShape, Devices, On, Kind
  <2> QED BY <1>1, <1>5, <2>1, <2>2, <2>4, ChangeReports
<1>6. ASSUME NEW lab \in Labels, Relabel(p, lab)
      PROVE  /\ \E events \in Seq(Events) : Emit(events) /\ Reports(events)
             /\ (WorldType /\ WorldShape)'
  <2>1. [c EXCEPT !.label = lab, !.flag = "none"] = [c EXCEPT !.label = lab]
    BY <1>2 DEF Events
  <2>2. /\ p \in present /\ present' = present /\ label' = [label EXCEPT ![p] = lab]
        /\ UNCHANGED <<machine, array, ready>> /\ Emit(<<[c EXCEPT !.label = lab]>>)
    BY <1>6 DEF Relabel, Emit, c
  <2> QED BY <1>4, <1>6, <2>1, <2>2
<1>7. ASSUME NEW lab \in Labels, MediaChange(p, lab)
      PROVE  /\ \E events \in Seq(Events) : Emit(events) /\ Reports(events)
             /\ (WorldType /\ WorldShape)'
  <2>1. /\ p \in present /\ present' = present /\ label' = [label EXCEPT ![p] = lab]
        /\ UNCHANGED <<machine, array, ready>>
        /\ Emit(<<[c EXCEPT !.label = lab, !.flag = "media"]>>)
    BY <1>7 DEF MediaChange, Emit, c
  <2> QED BY <1>4, <1>7, <2>1
<1>8. ASSUME NEW u \in Uuids, Assemble(p, u)
      PROVE  /\ \E events \in Seq(Events) : Emit(events) /\ Reports(events)
             /\ (WorldType /\ WorldShape)'
  <2>1. [c EXCEPT !.array = u, !.flag = "none"] = [c EXCEPT !.array = u]
    BY <1>2 DEF Events
  <2>2. /\ p \in present /\ present' = present /\ Kind(p) = "md" /\ label' = label
        /\ array' = [array EXCEPT ![p] = u] /\ UNCHANGED <<machine, ready>>
        /\ Emit(<<[c EXCEPT !.array = u]>>)
    BY <1>8 DEF Assemble, Emit, c
  <2>3. u \in OrAbsent(Uuids) /\ u \in machine.arrays[p]
    BY <1>8 DEF OrAbsent, Assemble
  <2> QED BY <1>5, <1>8, <2>1, <2>2, <2>3
<1>9. ASSUME NEW u \in OrAbsent(Uuids) \cup {Bogus}, StopArray(p, u)
      PROVE  /\ \E events \in Seq(Events) : Emit(events) /\ Reports(events)
             /\ (WorldType /\ WorldShape)'
  <2>1. Kind(p) = "md"
    BY <1>1, <1>9 DEF StopArray, WorldShape
  <2>2. /\ p \in present /\ present' = present /\ label' = label
        /\ array' = [array EXCEPT ![p] = Absent] /\ UNCHANGED <<machine, ready>>
        /\ Emit(<<[c EXCEPT !.array = u, !.flag = "bogus"]>>)
    BY <1>9 DEF StopArray, Emit, c
  <2>3. Absent \in OrAbsent(Uuids) /\ (u \in Uuids => u \in machine.arrays[p])
    BY <1>9, MachineShape DEF OrAbsent, StopArray
  <2> QED BY <1>5, <1>9, <2>1, <2>2, <2>3
<1> QED BY <1>3, <1>6, <1>7, <1>8, <1>9

LEMMA WorldReports ==
    ASSUME machine \in Setups, WorldType, WorldShape, World
    PROVE  /\ \E events \in Seq(Events) : Emit(events) /\ Reports(events)
           /\ (WorldType /\ WorldShape)'
BY PlugReports, UnplugReports, OtherReports DEF World

-----------------------------------------------------------------------------
(* A device follows on when neither it, nor its entries, nor what is said  *)
(* of it changes.                                                          *)
SameEntries(p) ==
    /\ tables'.loaded = tables.loaded /\ SameBlock(tables'.block[p], tables.block[p])
    /\ p \in tables'.claimed <=> p \in tables.claimed
    /\ tables'.drivePath[p] = tables.drivePath[p]
    /\ machine.nqn[p] # Absent => (HasSubsystem(p)' <=> HasSubsystem(p))

SameQueue(p) ==
    /\ QuietQueue(p)' <=> QuietQueue(p)
    /\ \A x : LastQueue(p, x)' <=> LastQueue(p, x)
    /\ StaysQueue(p)' <=> StaysQueue(p)
    /\ ComesQueue(p)' <=> ComesQueue(p)

SameTodo(p) ==
    /\ Quiet(todo', p) <=> Quiet(todo, p)
    /\ \A x : Last(todo', p, x) <=> Last(todo, p, x)
    /\ Stays(todo', p) <=> Stays(todo, p)
    /\ Comes(todo', p) <=> Comes(todo, p)

LEMMA FollowsOn ==
    ASSUME NEW p \in Paths, machine' = machine, SameWorld(p), SameEntries(p), SameQueue(p),
           SameTodo(p), pc' = "new" <=> pc = "new", DeviceFollows(p)
    PROVE  DeviceFollows(p)'
<1>1. \A e : Agrees(p, e)' <=> Agrees(p, e)
  BY DEF SameWorld, Agrees
<1>2. /\ QuietAll(p)' <=> QuietAll(p)
      /\ StaysAll(p)' <=> StaysAll(p)
      /\ ComesAll(p)' <=> ComesAll(p)
  BY DEF SameQueue, SameTodo, QuietAll, StaysAll, ComesAll
<1>3. \A x : LastAll(p, x)' <=> LastAll(p, x)
  BY DEF SameQueue, SameTodo, LastAll
<1>4. BlockAgrees(p)' <=> BlockAgrees(p)
  <2>1. Partitioned(p)' = Partitioned(p)
    BY DEF SameWorld, Partitioned, Whole
  <2>2. (label[p] = "fs" /\ ~Partitioned(p))' = (label[p] = "fs" /\ ~Partitioned(p))
    BY <2>1 DEF SameWorld
  <2>3. /\ tables'.block[p] # Absent <=> tables.block[p] # Absent
        /\ tables.block[p] # Absent => /\ tables'.block[p].label = tables.block[p].label
                                      /\ tables'.block[p].table = tables.block[p].table
                                      /\ tables'.block[p].fs = tables.block[p].fs
    BY DEF SameEntries, SameBlock
  <2>4. p \in present' <=> p \in present
    BY DEF SameWorld
  <2>5. label'[p] = label[p] /\ (IsBlock(p)' <=> IsBlock(p))
    BY DEF SameWorld, IsBlock, Kind
  <2>6. tables'.loaded = tables.loaded /\ (p \in tables'.claimed <=> p \in tables.claimed)
    BY DEF SameEntries
  <2> QED BY <2>1, <2>2, <2>3, <2>4, <2>5, <2>6 DEF BlockAgrees
<1>5. HasDrive(p)' <=> HasDrive(p)
  BY DEF SameEntries, HasDrive
<1>6. ShouldInclude(p)' <=> ShouldInclude(p)
  BY DEF ShouldInclude, Kind
<1>7. \A e \in Events : LastAll(p, e)' => Agrees(p, e)'
  BY <1>1, <1>3 DEF DeviceFollows
<1>8. p \in present' <=> p \in present
  BY DEF SameWorld
<1>9. /\ ComesQueue(p)' <=> ComesQueue(p)
      /\ StaysQueue(p)' <=> StaysQueue(p)
  BY DEF SameQueue
<1>10. machine.nqn[p] # Absent => (HasSubsystem(p)' <=> HasSubsystem(p))
  BY DEF SameEntries
<1>11. (p \in present => ComesQueue(p) \/ StaysQueue(p))'
  BY <1>8, <1>9 DEF DeviceFollows
<1>12. ASSUME pc' # "new"
       PROVE  (/\ p \in present /\ ShouldInclude(p) =>
                     ComesAll(p) \/ (StaysAll(p) /\ HasDrive(p))
               /\ p \in present /\ machine.nqn[p] # Absent =>
                     ComesAll(p) \/ (StaysAll(p) /\ HasSubsystem(p))
               /\ QuietAll(p) => /\ BlockAgrees(p)
                                 /\ HasDrive(p) => p \in present
                                 /\ machine.nqn[p] # Absent /\ HasSubsystem(p) => p \in present)'
  BY <1>2, <1>4, <1>5, <1>6, <1>8, <1>10, <1>12 DEF DeviceFollows
<1> QED BY <1>7, <1>11, <1>12 DEF DeviceFollows

LEMMA SameSays ==
    ASSUME NEW p
    PROVE  /\ UNCHANGED <<bus, posted>> => SameQueue(p)
           /\ UNCHANGED todo => SameTodo(p)
           /\ UNCHANGED <<machine, present, label>> => SameWorld(p)
           /\ UNCHANGED <<machine, tables>> => SameEntries(p)
<1>1. UNCHANGED <<bus, posted>> => SameQueue(p)
  BY DEF SameQueue, QuietQueue, LastQueue, StaysQueue, ComesQueue
<1>2. UNCHANGED todo => SameTodo(p)
  BY DEF SameTodo
<1>3. UNCHANGED <<machine, present, label>> => SameWorld(p)
  BY DEF SameWorld, Partitioned, Whole, Kind, On
<1>4. UNCHANGED <<machine, tables>> => SameEntries(p)
  BY DEF SameEntries, SameBlock, HasSubsystem
<1> QED BY <1>1, <1>2, <1>3, <1>4

(* Nothing happens to the devices.                                         *)
LEMMA AllFollowOn ==
    ASSUME Follows, UNCHANGED <<machine, present, label, bus, posted, todo, tables, slipped>>,
           pc' = "new" <=> pc = "new"
    PROVE  Follows'
BY FollowsOn, SameSays DEF Follows

(* A uevent goes from the bus to the main thread, or is dropped.           *)
LEMMA UeventMoved ==
    ASSUME {bus, posted} \subseteq Seq(Events), bus # <<>>, bus' = Tail(bus),
           posted' = Append(posted, Head(bus)), NEW p
    PROVE  SameQueue(p)
<1> DEFINE e == Head(bus)
<1>1. e \in Events /\ bus \in Seq(Events) /\ posted \in Seq(Events)
  OBVIOUS
<1> HIDE DEF e, Events
<1>2. /\ Quiet(posted', p) <=> Quiet(posted, p) /\ (e.path = p => e.act = "refresh")
      /\ \A x : Last(posted', p, x) <=>
            IF e.path = p /\ e.act # "refresh" THEN x = e ELSE Last(posted, p, x)
      /\ Stays(posted', p) <=> Stays(posted, p) /\ (e.path = p => e.act # "remove")
      /\ Comes(posted', p) <=> \/ e.path = p /\ e.act = "add"
                               \/ (e.path = p => e.act # "remove") /\ Comes(posted, p)
  BY <1>1, AppendSays DEF e
<1>3. /\ Quiet(bus, p) <=> Quiet(bus', p) /\ (e.path = p => e.act = "refresh")
      /\ \A x : Last(bus, p, x) <=>
            \/ Last(bus', p, x)
            \/ Quiet(bus', p) /\ x = e /\ e.path = p /\ e.act # "refresh"
      /\ Stays(bus, p) <=> Stays(bus', p) /\ (e.path = p => e.act # "remove")
      /\ Comes(bus, p) <=> \/ Comes(bus', p)
                           \/ Stays(bus', p) /\ e.path = p /\ e.act = "add"
  BY <1>1, TailSays DEF e
<1> QED BY <1>2, <1>3 DEF SameQueue, QuietQueue, LastQueue, StaysQueue, ComesQueue

LEMMA UeventDropped ==
    ASSUME bus \in Seq(Events), bus # <<>>, bus' = Tail(bus), posted' = posted,
           NEW p, p # Head(bus).path
    PROVE  SameQueue(p)
<1>1. /\ Quiet(bus, p) <=> Quiet(bus', p)
      /\ \A x : Last(bus, p, x) <=> Last(bus', p, x)
      /\ Stays(bus, p) <=> Stays(bus', p)
      /\ Comes(bus, p) <=> Comes(bus', p)
  BY TailSays
<1> QED BY <1>1 DEF SameQueue, QuietQueue, LastQueue, StaysQueue, ComesQueue

(* A queue without the first of its uevents.                               *)
LEMMA TailKeeps ==
    ASSUME NEW S, NEW s \in Seq(S), s # <<>>
    PROVE  /\ Tail(s) \in Seq(S) /\ Head(s) \in S
           /\ \A i \in DOMAIN Tail(s) : \E j \in DOMAIN s : Tail(s)[i] = s[j]
           /\ \E j \in DOMAIN s : Head(s) = s[j]
<1>1. Tail(s) \in Seq(S) /\ Head(s) \in S /\ 1 \in DOMAIN s /\ Head(s) = s[1]
  OBVIOUS
<1>2. \A i \in DOMAIN Tail(s) : i + 1 \in DOMAIN s /\ Tail(s)[i] = s[i + 1]
  OBVIOUS
<1> QED BY <1>1, <1>2

-----------------------------------------------------------------------------
(* The world changes.                                                      *)
LEMMA EventPaths ==
    ASSUME NEW s \in Seq(Events)
    PROVE  \A i \in DOMAIN s : s[i] \in Events /\ s[i].path \in Paths
<1>1. \A i \in DOMAIN s : s[i] \in Events
  OBVIOUS
<1> QED BY <1>1 DEF Events

LEMMA SameTables ==
    ASSUME TablesOK, UNCHANGED <<machine, tables>>
    PROVE  TablesOK'
<1>1. PointersOK(tables)'
  BY DEF TablesOK, PointersOK
<1>2. DrivesOK(tables)'
  <2>1. \A v \in Vpds : PathsOf(tables, v)' = PathsOf(tables, v)
    BY DEF PathsOf
  <2>2. \A p \in Paths : ShouldInclude(p)' <=> ShouldInclude(p)
    BY DEF ShouldInclude, Kind
  <2> QED BY <2>1, <2>2 DEF TablesOK, DrivesOK
<1>3. SubsystemsOK(tables)'
  BY DEF TablesOK, SubsystemsOK
<1> QED BY <1>1, <1>2, <1>3 DEF TablesOK

LEMMA ReportFollows ==
    ASSUME machine \in Setups, WorldType, {bus, posted, todo} \subseteq Seq(Events),
           QueueShape, StartShape, Follows,
           NEW events \in Seq(Events), Emit(events), Reports(events)
    PROVE  Follows'
<1>1. /\ machine' = machine /\ posted' = posted /\ todo' = todo /\ pc' = pc /\ tables' = tables
      /\ bus' = IF listening THEN bus \o events ELSE bus
      /\ bus \in Seq(Events)
  BY DEF Emit, start
<1>2. slipped \subseteq slipped'
  BY DEF Emit
<1>3. ASSUME NEW p \in Paths \ slipped'
      PROVE  DeviceFollows(p)'
  <2>1. DeviceFollows(p) /\ SameTodo(p) /\ SameEntries(p)
    BY <1>1, <1>2, <1>3, SameSays DEF Follows
  <2>2. /\ Quiet(events, p) => SameWorld(p)
        /\ \A x \in Events : Last(events, p, x) => Agrees(p, x)'
        /\ p \in present' => Comes(events, p) \/ (Stays(events, p) /\ p \in present)
    BY <1>3 DEF Reports
  <2>3. CASE listening
    <3> HIDE DEF Events
    <3>1. /\ Quiet(bus', p) <=> Quiet(bus, p) /\ Quiet(events, p)
          /\ \A x : Last(bus', p, x) => Last(events, p, x) \/ (Quiet(events, p) /\ Last(bus, p, x))
          /\ Stays(bus', p) <=> Stays(bus, p) /\ Stays(events, p)
          /\ Comes(bus', p) <=> Comes(events, p) \/ (Stays(events, p) /\ Comes(bus, p))
      BY <1>1, <2>3, ConcatSays
    <3>2. ASSUME NEW e \in Events, LastAll(p, e)'
          PROVE  Agrees(p, e)'
      <4>1. Last(events, p, e) \/ (Quiet(events, p) /\ LastAll(p, e))
        BY <1>1, <3>1, <3>2 DEF LastAll, LastQueue, QuietQueue
      <4>2. CASE Last(events, p, e)
        BY <2>2, <4>2
      <4>3. CASE Quiet(events, p) /\ LastAll(p, e)
        BY <2>1, <2>2, <4>3 DEF DeviceFollows, SameWorld, Agrees
      <4> QED BY <4>1, <4>2, <4>3
    <3>3. ASSUME Comes(events, p)
          PROVE  ComesQueue(p)' /\ ComesAll(p)'
      BY <3>1, <3>3 DEF ComesQueue, ComesAll
    <3>4. ASSUME Stays(events, p)
          PROVE  /\ ComesQueue(p) => ComesQueue(p)'
                 /\ StaysQueue(p) => StaysQueue(p)'
                 /\ ComesAll(p) => ComesAll(p)'
                 /\ StaysAll(p) => StaysAll(p)'
      BY <1>1, <3>1, <3>4 DEF ComesQueue, StaysQueue, ComesAll, StaysAll
    <3>5. p \in present' => (ComesQueue(p) \/ StaysQueue(p))'
      BY <2>1, <2>2, <3>3, <3>4 DEF DeviceFollows
    <3>6. ASSUME pc' # "new"
          PROVE  /\ (p \in present /\ ShouldInclude(p) =>
                        ComesAll(p) \/ (StaysAll(p) /\ HasDrive(p)))'
                 /\ (p \in present /\ machine.nqn[p] # Absent =>
                        ComesAll(p) \/ (StaysAll(p) /\ HasSubsystem(p)))'
      <4>1. /\ ShouldInclude(p)' <=> ShouldInclude(p)
            /\ HasDrive(p)' <=> HasDrive(p)
            /\ HasSubsystem(p)' <=> HasSubsystem(p)
        BY <1>1 DEF ShouldInclude, Kind, HasDrive, HasSubsystem
      <4> QED BY <1>1, <2>1, <2>2, <3>3, <3>4, <3>6, <4>1 DEF DeviceFollows
    <3>7. ASSUME pc' # "new", QuietAll(p)'
          PROVE  (/\ BlockAgrees(p)
                  /\ HasDrive(p) => p \in present
                  /\ machine.nqn[p] # Absent /\ HasSubsystem(p) => p \in present)'
      <4>1. Quiet(events, p) /\ QuietAll(p)
        BY <1>1, <3>1, <3>7 DEF QuietAll, QuietQueue
      <4>2. SameWorld(p) /\ BlockAgrees(p)
        BY <1>1, <2>1, <2>2, <3>7, <4>1 DEF DeviceFollows
      <4>3. BlockAgrees(p)'
        <5>1. Partitioned(p)' = Partitioned(p)
          BY <4>2 DEF SameWorld, Partitioned, Whole
        <5>2. (label[p] = "fs" /\ ~Partitioned(p))' = (label[p] = "fs" /\ ~Partitioned(p))
          BY <4>2, <5>1 DEF SameWorld
        <5>3. /\ p \in present' <=> p \in present
              /\ label'[p] = label[p] /\ (IsBlock(p)' <=> IsBlock(p))
          BY <1>1, <4>2 DEF SameWorld, IsBlock, Kind
        <5> QED BY <1>1, <4>2, <5>1, <5>2, <5>3 DEF BlockAgrees
      <4>4. /\ HasDrive(p)' => p \in present'
            /\ machine.nqn[p] # Absent /\ HasSubsystem(p)' => p \in present'
        BY <1>1, <2>1, <3>7, <4>1, <4>2 DEF DeviceFollows, SameWorld, HasDrive, HasSubsystem
      <4> QED BY <1>1, <4>3, <4>4
    <3> QED BY <3>2, <3>5, <3>6, <3>7 DEF DeviceFollows
  <2>4. CASE ~listening /\ pc = "new"
    <3>1. bus' = <<>> /\ posted' = <<>> /\ todo' = <<>> /\ pc' = "new"
      BY <1>1, <2>4 DEF QueueShape, StartShape
    <3>2. \A e : ~LastAll(p, e)'
      BY <3>1, EmptySays DEF LastAll, LastQueue
    <3>3. StaysQueue(p)'
      BY <3>1, EmptySays DEF StaysQueue
    <3> QED BY <3>1, <3>2, <3>3 DEF DeviceFollows
  <2>5. CASE ~listening /\ pc # "new"
    <3>1. \A i \in DOMAIN events : events[i].path # p
      <4>1. \A i \in DOMAIN events : events[i].path \in Paths
        BY EventPaths
      <4>2. Absent \notin Paths
        BY DeviceTablesAssumption
      <4> QED BY <1>3, <2>5, <4>1, <4>2 DEF Emit
    <3>2. Quiet(events, p) /\ ~Comes(events, p)
      BY <3>1 DEF Quiet, Comes
    <3>3. SameWorld(p) /\ SameQueue(p)
      BY <1>1, <2>2, <2>5, <3>2, SameSays
    <3> QED BY <1>1, <2>1, <3>3, FollowsOn
  <2> QED BY <2>3, <2>4, <2>5
<1> QED BY <1>3 DEF Follows

LEMMA WorldStep ==
    ASSUME IInv, World
    PROVE  IInv'
<1>1. machine \in Setups /\ WorldType /\ WorldShape
  BY DEF IInv, TypeOK, WorldType
<1>2. PICK events \in Seq(Events) : Emit(events) /\ Reports(events)
  BY <1>1, WorldReports
<1>3. (WorldType /\ WorldShape)'
  BY <1>1, WorldReports
<1>4. /\ machine' = machine /\ changes' = changes + 1 /\ changes < MaxEvents
      /\ listening' = listening /\ posted' = posted /\ pc' = pc /\ todo' = todo
      /\ tables' = tables /\ housekeeping' = housekeeping /\ due' = due /\ initial' = initial
      /\ refreshed' = refreshed /\ timeouts' = timeouts
      /\ bus' = IF listening THEN bus \o events ELSE bus
  BY <1>2 DEF Emit, start, keeping
<1>5. bus' \in Seq(Events)
  BY <1>4 DEF IInv, TypeOK
<1>6. slipped' \subseteq Paths
  <2>1. \A i \in DOMAIN events : events[i].path \in Paths
    BY EventPaths
  <2>2. \A p \in Paths : On(p) \in OrAbsent(Paths)
    BY <1>1, MachineShape
  <2>3. \A i \in DOMAIN events : {events[i].path, On(events[i].path)} \ {Absent} \subseteq Paths
    BY <2>1, <2>2 DEF OrAbsent
  <2> QED BY <1>2, <2>3 DEF Emit, IInv, TypeOK
<1>7. TypeOK'
  <2>1. changes' \in 0..MaxEvents
    BY <1>4, DeviceTablesAssumption DEF IInv, TypeOK
  <2>2. {bus, posted, todo}' \subseteq Seq(Events)
    BY <1>4, <1>5 DEF IInv, TypeOK
  <2> QED BY <1>3, <1>4, <1>6, <2>1, <2>2 DEF IInv, TypeOK, WorldType, Tables, Devices, Events
<1>8. QueueShape'
  <2>2. \A i \in DOMAIN events : EventShape(events[i]) /\ events[i].act # "refresh"
    BY <1>2 DEF Reports
  <2>3. \A e : EventShape(e)' <=> EventShape(e)
    BY <1>4 DEF EventShape, Kind
  <2>4. ASSUME NEW i \in DOMAIN bus'
        PROVE  EventShape(bus'[i]) /\ bus'[i].act # "refresh"
    <3>1. CASE ~listening
      BY <1>4, <2>4, <3>1 DEF IInv, QueueShape
    <3>2. CASE listening
      <4>1. /\ i \in DOMAIN bus => bus'[i] = bus[i]
            /\ i \notin DOMAIN bus => /\ i - Len(bus) \in DOMAIN events
                                      /\ bus'[i] = events[i - Len(bus)]
        BY <1>4, <2>4, <3>2 DEF IInv, TypeOK
      <4> QED BY <2>2, <4>1 DEF IInv, QueueShape
    <3> QED BY <3>1, <3>2
  <2> QED BY <1>4, <2>3, <2>4 DEF IInv, QueueShape
<1>9. StartShape'
  BY <1>4 DEF IInv, StartShape, IsBlock, Kind
<1>10. TablesOK'
  BY <1>4, SameTables DEF IInv
<1>11. Follows'
  BY <1>1, <1>2, ReportFollows DEF IInv, TypeOK
<1>12. EveryDriveHasItsRun'
  BY <1>4 DEF IInv, EveryDriveHasItsRun, Drives
<1> QED BY <1>3, <1>7, <1>8, <1>9, <1>10, <1>11, <1>12 DEF IInv

-----------------------------------------------------------------------------
(* The main thread handles a uevent, or brings a block object up to date.  *)
LEMMA OthersFollow ==
    ASSUME machine \in Setups, UNCHANGED <<machine, present, label, pc>>, NEW p \in Paths, NEW e,
           p # e.path, OthersAsBefore(tables, tables', e.path), DeviceFollows(p),
           SameQueue(p), SameTodo(p)
    PROVE  DeviceFollows(p)'
<1>1. SameWorld(p)
  BY SameSays
<1>2. SameEntries(p)
  <2>1. machine.nqn[p] # Absent => machine.nqn[p] \in Nqns
    BY MachineShape DEF OrAbsent
  <2> QED BY <2>1 DEF OthersAsBefore, SameEntries, HasSubsystem
<1> QED BY <1>1, <1>2, FollowsOn

LEMMA BlockAsItIs ==
    ASSUME NEW e, NEW p \in Paths, p = e.path, UNCHANGED <<machine, present, label>>,
           StartShape, OthersAsBefore(tables, tables', p), BlockAsTold(tables', e), Agrees(p, e)
    PROVE  BlockAgrees(p)'
<1>1. Partitioned(p)' = Partitioned(p)
  BY DEF Partitioned, Whole, Kind, On
<1>2. IsBlock(p)' <=> IsBlock(p)
  BY DEF IsBlock, Kind
<1>3. CASE IsBlock(p)
  BY <1>1, <1>2, <1>3 DEF BlockAsTold, BlockOf, Agrees, BlockAgrees
<1>4. CASE ~IsBlock(p)
  <2>1. tables.block[p] = Absent /\ p \notin tables.claimed
    BY <1>4 DEF StartShape
  <2>2. tables'.block[p] = Absent /\ p \notin tables'.claimed
    BY <1>4, <2>1 DEF OthersAsBefore, SameBlock
  <2> QED BY <1>2, <1>4, <2>2 DEF BlockAgrees
<1> QED BY <1>3, <1>4

LEMMA HandledFollows ==
    ASSUME machine \in Setups, present \subseteq Devices,
           UNCHANGED <<machine, present, label, ready, pc>>, pc # "new", StartShape,
           NEW e \in Events, NEW p \in Paths, p = e.path, DeviceFollows(p),
           OthersAsBefore(tables, tables', p), e.flag # "disabled" => BlockAsTold(tables', e),
           DriveAsTold(tables, tables', e), SubsystemAsTold(tables, tables', e),
           p \notin Overlooked(e),
           \A x : LastAll(p, x)' => LastAll(p, x),
           QuietAll(p)' => LastAll(p, e),
           ComesQueue(p) \/ StaysQueue(p) => (ComesQueue(p) \/ StaysQueue(p))',
           ComesAll(p) => ComesAll(p)' \/ (StaysAll(p)' /\ e.act = "add"),
           StaysAll(p) => StaysAll(p)' /\ e.act # "remove"
    PROVE  DeviceFollows(p)'
<1>1. \A x : Agrees(p, x)' <=> Agrees(p, x)
  BY DEF Agrees
<1>2. \A x \in Events : LastAll(p, x)' => Agrees(p, x)'
  BY <1>1 DEF DeviceFollows
<1>3. p \in present' => (ComesQueue(p) \/ StaysQueue(p))'
  BY DEF DeviceFollows
<1>4. ShouldInclude(p)' <=> ShouldInclude(p)
  BY DEF ShouldInclude, Kind
<1>5. machine.nqn[p] # Absent => machine.nqn[p] \in Nqns
  BY MachineShape DEF OrAbsent
<1>6. ASSUME p \in present, ShouldInclude(p)
      PROVE  (ComesAll(p) \/ (StaysAll(p) /\ HasDrive(p)))'
  <2>1. ComesAll(p) \/ (StaysAll(p) /\ HasDrive(p))
    BY <1>6 DEF DeviceFollows
  <2>2. /\ e.act = "add" => HasDrive(p)'
        /\ HasDrive(p) /\ e.act # "remove" => HasDrive(p)'
    BY <1>6 DEF DriveAsTold, HasDrive
  <2> QED BY <2>1, <2>2
<1>7. ASSUME p \in present, machine.nqn[p] # Absent
      PROVE  (ComesAll(p) \/ (StaysAll(p) /\ HasSubsystem(p)))'
  <2>1. ComesAll(p) \/ (StaysAll(p) /\ HasSubsystem(p))
    BY <1>7 DEF DeviceFollows
  <2>2. e.act = "add" => p \in ready
    BY <1>7 DEF Overlooked
  <2>3. /\ e.act = "add" => HasSubsystem(p)'
        /\ HasSubsystem(p) /\ e.act # "remove" => HasSubsystem(p)'
    BY <1>5, <1>7, <2>2 DEF SubsystemAsTold, HasSubsystem
  <2> QED BY <2>1, <2>3
<1>8. ASSUME QuietAll(p)'
      PROVE  (/\ BlockAgrees(p)
              /\ HasDrive(p) => p \in present
              /\ machine.nqn[p] # Absent /\ HasSubsystem(p) => p \in present)'
  <2>1. Agrees(p, e)
    BY <1>8 DEF DeviceFollows
  <2>2. BlockAgrees(p)'
    BY <2>1, BlockAsItIs DEF Agrees
  <2>3. HasDrive(p)' => p \in present'
    BY <2>1 DEF DriveAsTold, HasDrive, Agrees
  <2>4. machine.nqn[p] # Absent /\ HasSubsystem(p)' => p \in present'
    BY <1>5, <2>1 DEF SubsystemAsTold, HasSubsystem, Agrees
  <2> QED BY <2>2, <2>3, <2>4
<1> QED BY <1>2, <1>3, <1>4, <1>6, <1>7, <1>8 DEF DeviceFollows

LEMMA RefreshedFollows ==
    ASSUME UNCHANGED <<machine, present, label, pc>>, pc # "new",
           NEW e \in Events, NEW p \in Paths, p = e.path, DeviceFollows(p),
           IsBlock(p), tables.block[p] # Absent, tables.block[p].label = e.label,
           BlockOf(tables'.block[p], p, e.label), DrivesAlone(tables, tables'),
           SubsystemsAlone(tables, tables'),
           tables'.loaded = tables.loaded, tables'.claimed = tables.claimed,
           SameQueue(p), SameTodo(p)
    PROVE  DeviceFollows(p)'
<1>1. \A x : Agrees(p, x)' <=> Agrees(p, x)
  BY DEF Agrees
<1>2. /\ QuietAll(p)' <=> QuietAll(p)
      /\ StaysAll(p)' <=> StaysAll(p)
      /\ ComesAll(p)' <=> ComesAll(p)
      /\ ComesQueue(p)' <=> ComesQueue(p)
      /\ StaysQueue(p)' <=> StaysQueue(p)
  BY DEF SameQueue, SameTodo, QuietAll, StaysAll, ComesAll
<1>3. \A x : LastAll(p, x)' <=> LastAll(p, x)
  BY DEF SameQueue, SameTodo, LastAll
<1>4. /\ ShouldInclude(p)' <=> ShouldInclude(p)
      /\ HasDrive(p)' <=> HasDrive(p)
      /\ HasSubsystem(p)' <=> HasSubsystem(p)
  BY DEF ShouldInclude, Kind, HasDrive, DrivesAlone, HasSubsystem, SubsystemsAlone
<1>5. BlockAgrees(p) => BlockAgrees(p)'
  <2>1. Partitioned(p)' = Partitioned(p)
    BY DEF Partitioned, Whole, Kind, On
  <2>2. IsBlock(p)' <=> IsBlock(p)
    BY DEF IsBlock, Kind
  <2> QED BY <2>1, <2>2 DEF BlockOf, BlockAgrees
<1>6. \A x \in Events : LastAll(p, x)' => Agrees(p, x)'
  BY <1>1, <1>3 DEF DeviceFollows
<1>7. (p \in present => ComesQueue(p) \/ StaysQueue(p))'
  BY <1>2 DEF DeviceFollows
<1>8. (/\ p \in present /\ ShouldInclude(p) => ComesAll(p) \/ (StaysAll(p) /\ HasDrive(p))
       /\ p \in present /\ machine.nqn[p] # Absent =>
             ComesAll(p) \/ (StaysAll(p) /\ HasSubsystem(p))
       /\ QuietAll(p) => /\ BlockAgrees(p)
                         /\ HasDrive(p) => p \in present
                         /\ machine.nqn[p] # Absent /\ HasSubsystem(p) => p \in present)'
  BY <1>2, <1>4, <1>5 DEF DeviceFollows
<1> QED BY <1>6, <1>7, <1>8 DEF DeviceFollows

(* What goes with a change of the tables.                                  *)
LEMMA HandleKeeps ==
    ASSUME IInv, UNCHANGED <<world, listening, bus, pc>>, pc # "new",
           NEW e \in Events, Handle(e), tables' \in Tables, TablesOf(tables'),
           OthersAsBefore(tables, tables', e.path),
           e.act = "refresh" /\ IsBlock(e.path) =>
              BlockOf(tables'.block[e.path], e.path, e.label),
           {posted, todo}' \subseteq Seq(Events),
           \A i \in DOMAIN posted' : \E j \in DOMAIN posted : posted'[i] = posted[j],
           \A i \in DOMAIN todo' : \E j \in DOMAIN todo : todo'[i] = todo[j],
           todo # <<>> => \E j \in DOMAIN todo : e = todo[j],
           listening \/ posted' = posted
    PROVE  /\ (TypeOK /\ WorldShape /\ QueueShape /\ StartShape /\ TablesOK)'
           /\ EveryDriveHasItsRun'
<1>1. /\ machine' = machine /\ present' = present /\ label' = label /\ array' = array
      /\ ready' = ready /\ changes' = changes /\ listening' = listening /\ bus' = bus /\ pc' = pc
      /\ housekeeping' = housekeeping /\ timeouts' = timeouts
      /\ initial' = (initial \cap Drives(tables')) \cup
                       (IF pc = "running" THEN Drives(tables') \ Drives(tables) ELSE {})
      /\ due' = due \cap Drives(tables') /\ refreshed' = refreshed \cap Drives(tables')
      /\ slipped' = slipped \cup Overlooked(e)
  BY DEF world, Handle, TablesBecome
<1>2. TypeOK'
  <2>1. Overlooked(e) \subseteq Paths
    BY MachineShape DEF Overlooked, IInv, TypeOK
  <2>2. initial' \subseteq Vpds
    BY <1>1 DEF IInv, TypeOK, Drives
  <2>3. {bus, posted, todo}' \subseteq Seq(Events)
    BY <1>1 DEF IInv, TypeOK
  <2>4. (due \subseteq Vpds /\ refreshed \subseteq Vpds)'
    BY <1>1 DEF IInv, TypeOK
  <2>5. Devices' = Devices
    BY <1>1 DEF Devices
  <2>6. (/\ machine \in Setups /\ present \subseteq Devices /\ ready \subseteq Devices
         /\ label \in [Paths -> Labels] /\ array \in [Paths -> OrAbsent(Uuids)])'
    BY <1>1, <2>5 DEF IInv, TypeOK
  <2>7. (/\ changes \in 0..MaxEvents /\ timeouts \in 0..MaxTimeouts /\ listening \in BOOLEAN
         /\ pc \in {"new", "coldplug", "running"}
         /\ housekeeping \in {"idle", "started", "drives"})'
    BY <1>1 DEF IInv, TypeOK
  <2>8. (slipped \subseteq Paths)'
    BY <1>1, <2>1 DEF IInv, TypeOK
  <2> QED BY <2>2, <2>3, <2>4, <2>6, <2>7, <2>8 DEF TypeOK
<1>3. WorldShape'
  BY <1>1 DEF IInv, WorldShape, On, Kind
<1>4. QueueShape'
  <2>1. \A x : EventShape(x)' <=> EventShape(x)
    BY <1>1 DEF EventShape, Kind
  <2> QED BY <1>1, <2>1 DEF IInv, QueueShape
<1>5. StartShape'
  <2>1. /\ tables'.loaded = tables.loaded /\ (~tables.loaded => tables'.claimed = tables.claimed)
        /\ \A q \in Paths : ~IsBlock(q) => /\ SameBlock(tables'.block[q], tables.block[q])
                                           /\ q \in tables'.claimed <=> q \in tables.claimed
    BY DEF OthersAsBefore
  <2>2. \A q : IsBlock(q)' <=> IsBlock(q)
    BY <1>1 DEF IsBlock, Kind
  <2>3. \A q \in Paths : ~IsBlock(q)' => tables'.block[q] = Absent /\ q \notin tables'.claimed
    BY <2>1, <2>2 DEF IInv, StartShape, SameBlock
  <2>4. CASE \A i \in DOMAIN todo : todo[i].act = "add"
    BY <1>1, <2>1, <2>3, <2>4 DEF IInv, StartShape
  <2>5. CASE \A i \in DOMAIN todo : /\ todo[i].act = "refresh" /\ IsBlock(todo[i].path)
                                    /\ tables.block[todo[i].path] # Absent
                                    /\ tables.block[todo[i].path].label = todo[i].label
    <3>1. ASSUME NEW i \in DOMAIN todo'
          PROVE  /\ todo'[i].act = "refresh" /\ IsBlock(todo'[i].path)
                 /\ tables'.block[todo'[i].path] # Absent
                 /\ tables'.block[todo'[i].path].label = todo'[i].label
      <4>1. PICK j \in DOMAIN todo : todo'[i] = todo[j]
        BY <3>1
      <4>2. /\ todo[j].path \in Paths /\ todo[j].act = "refresh" /\ IsBlock(todo[j].path)
            /\ tables.block[todo[j].path] # Absent
            /\ tables.block[todo[j].path].label = todo[j].label
        BY <2>5, EventPaths DEF IInv, TypeOK
      <4>3. CASE todo[j].path # e.path
        BY <2>2, <4>1, <4>2, <4>3 DEF OthersAsBefore, SameBlock
      <4>4. CASE todo[j].path = e.path
        <5>1. todo # <<>>
          BY <4>1 DEF IInv, TypeOK
        <5>2. e.act = "refresh" /\ tables.block[e.path].label = e.label
          BY <2>5, <5>1
        <5> QED BY <2>2, <4>1, <4>2, <4>4, <5>2 DEF BlockOf
      <4> QED BY <4>3, <4>4
    <3> QED BY <1>1, <2>1, <2>2, <2>3, <3>1 DEF IInv, StartShape
  <2> QED BY <2>4, <2>5 DEF IInv, StartShape
<1>6. TablesOK'
  <2>1. PointersOK(tables)'
    BY DEF TablesOf, PointersOK
  <2>2. DrivesOK(tables)'
    <3>1. \A p \in Paths : ShouldInclude(p)' <=> ShouldInclude(p)
      BY <1>1 DEF ShouldInclude, Kind
    <3>2. \A v \in Vpds : PathsOf(tables, v)' = PathsOf(tables', v)
      BY DEF PathsOf
    <3> QED BY <1>1, <3>1, <3>2 DEF TablesOf, DrivesOK
  <2>3. SubsystemsOK(tables)'
    BY <1>1 DEF TablesOf, SubsystemsOK
  <2> QED BY <2>1, <2>2, <2>3 DEF TablesOK
<1>7. EveryDriveHasItsRun'
  BY <1>1 DEF IInv, EveryDriveHasItsRun, TypeOK
<1> QED BY <1>2, <1>3, <1>4, <1>5, <1>6, <1>7

LEMMA ApplyStep ==
    ASSUME IInv, Apply
    PROVE  IInv'
<1> DEFINE e == Head(posted)
<1>1. /\ pc = "running" /\ todo = <<>> /\ posted # <<>> /\ posted' = Tail(posted)
      /\ Handle(e) /\ UNCHANGED <<world, listening, bus, pc, todo>>
      /\ posted \in Seq(Events) /\ todo \in Seq(Events) /\ bus \in Seq(Events)
  BY DEF Apply, start, IInv, TypeOK
<1>2. /\ posted' \in Seq(Events) /\ e \in Events
      /\ \A i \in DOMAIN posted' : \E j \in DOMAIN posted : posted'[i] = posted[j]
      /\ \E j \in DOMAIN posted : e = posted[j]
  BY <1>1, TailKeeps
<1> HIDE DEF e, Events
<1>3. e.act # "refresh" /\ EventShape(e) /\ listening
  BY <1>1, <1>2 DEF IInv, QueueShape
<1>4. machine \in Setups /\ tables \in Tables /\ TablesOf(tables)
  BY DEF IInv, TypeOK, TablesOK, TablesOf
<1>5. tables' = HandleUevent(tables, e) /\ slipped' = slipped \cup Overlooked(e)
  BY <1>1, <1>3 DEF Handle, TablesBecome
<1>6. /\ tables' \in Tables /\ TablesOf(tables') /\ OthersAsBefore(tables, tables', e.path)
      /\ e.flag # "disabled" => BlockAsTold(tables', e)
      /\ DriveAsTold(tables, tables', e) /\ SubsystemAsTold(tables, tables', e)
  BY <1>2, <1>3, <1>4, <1>5, UeventHandled
<1>7. /\ (TypeOK /\ WorldShape /\ QueueShape /\ StartShape /\ TablesOK)'
      /\ EveryDriveHasItsRun'
  BY <1>1, <1>2, <1>3, <1>6, HandleKeeps
<1>8. ASSUME NEW p \in Paths \ slipped'
      PROVE  DeviceFollows(p)'
  <2>1. DeviceFollows(p) /\ p \notin Overlooked(e) /\ p \in Paths
    BY <1>5, <1>8 DEF IInv, Follows
  <2>2. /\ Quiet(posted, p) <=> Quiet(posted', p) /\ e.path # p
        /\ \A x : Last(posted, p, x) <=>
              Last(posted', p, x) \/ (Quiet(posted', p) /\ x = e /\ e.path = p)
        /\ Stays(posted, p) <=> Stays(posted', p) /\ (e.path = p => e.act # "remove")
        /\ Comes(posted, p) <=>
              Comes(posted', p) \/ (Stays(posted', p) /\ e.path = p /\ e.act = "add")
    BY <1>1, <1>3, TailSays DEF e
  <2>3. SameTodo(p)
    BY <1>1, SameSays
  <2>4. CASE p # e.path
    <3>1. SameQueue(p)
      BY <1>1, <2>2, <2>4 DEF SameQueue, QuietQueue, LastQueue, StaysQueue, ComesQueue
    <3> QED BY <1>1, <1>4, <1>6, <2>1, <2>3, <2>4, <3>1, OthersFollow DEF world
  <2>5. CASE p = e.path
    <3>1. /\ Quiet(todo, p) /\ Stays(todo, p) /\ ~Comes(todo, p)
          /\ \A x : ~Last(todo, p, x)
      BY <1>1, EmptySays
    <3>2. /\ \A x : LastAll(p, x)' => LastAll(p, x)
          /\ QuietAll(p)' => LastAll(p, e)
      BY <1>1, <2>2, <2>5, <3>1 DEF LastAll, QuietAll, LastQueue, QuietQueue
    <3>3. /\ ComesQueue(p) \/ StaysQueue(p) => (ComesQueue(p) \/ StaysQueue(p))'
          /\ ComesAll(p) => ComesAll(p)' \/ (StaysAll(p)' /\ e.act = "add")
          /\ StaysAll(p) => StaysAll(p)' /\ e.act # "remove"
      BY <1>1, <2>2, <2>5, <3>1 DEF ComesQueue, StaysQueue, ComesAll, StaysAll
    <3>4. present \subseteq Devices /\ StartShape /\ pc # "new"
      BY <1>1 DEF IInv, TypeOK
    <3> QED BY <1>1, <1>2, <1>4, <1>6, <2>1, <2>5, <3>2, <3>3, <3>4, HandledFollows DEF world
  <2> QED BY <2>4, <2>5
<1> QED BY <1>7, <1>8 DEF IInv, Follows

LEMMA TodoStepStep ==
    ASSUME IInv, TodoStep
    PROVE  IInv'
<1> DEFINE e == Head(todo)
<1>1. /\ todo # <<>> /\ todo' = Tail(todo)
      /\ Handle(e) /\ UNCHANGED <<world, listening, bus, posted, pc>>
      /\ posted \in Seq(Events) /\ todo \in Seq(Events) /\ bus \in Seq(Events)
  BY DEF TodoStep, queues, IInv, TypeOK
<1>2. /\ todo' \in Seq(Events) /\ e \in Events
      /\ \A i \in DOMAIN todo' : \E j \in DOMAIN todo : todo'[i] = todo[j]
      /\ \E j \in DOMAIN todo : e = todo[j]
  BY <1>1, TailKeeps
<1> HIDE DEF e, Events
<1>3. e.act \in {"add", "refresh"} /\ e.flag = "none" /\ EventShape(e) /\ pc # "new"
  BY <1>1, <1>2 DEF IInv, QueueShape, StartShape
<1>4. /\ machine \in Setups /\ tables \in Tables /\ TablesOf(tables) /\ StartShape
      /\ present \subseteq Devices
  BY DEF IInv, TypeOK, TablesOK, TablesOf
<1>5. slipped' = slipped \cup Overlooked(e)
  BY <1>1 DEF Handle
<1>6. /\ e.act = "add" =>
           /\ tables' \in Tables /\ TablesOf(tables') /\ OthersAsBefore(tables, tables', e.path)
           /\ BlockAsTold(tables', e)
           /\ DriveAsTold(tables, tables', e) /\ SubsystemAsTold(tables, tables', e)
      /\ e.act = "refresh" =>
           /\ tables' \in Tables /\ TablesOf(tables') /\ OthersAsBefore(tables, tables', e.path)
           /\ IsBlock(e.path) => BlockOf(tables'.block[e.path], e.path, e.label)
           /\ DrivesAlone(tables, tables') /\ SubsystemsAlone(tables, tables')
           /\ tables'.loaded = tables.loaded /\ tables'.claimed = tables.claimed
  <2>1. CASE e.act = "add"
    <3>1. tables' = HandleUevent(tables, e)
      BY <1>1, <2>1 DEF Handle, TablesBecome
    <3> QED BY <1>2, <1>3, <1>4, <2>1, <3>1, UeventHandled
  <2>2. CASE e.act = "refresh"
    <3>1. tables' = ForBlock(tables, e)
      BY <1>1, <2>2 DEF Handle, TablesBecome
    <3> QED BY <1>2, <1>4, <2>2, <3>1, RefreshHandled
  <2> QED BY <1>3, <2>1, <2>2
<1>7. /\ (TypeOK /\ WorldShape /\ QueueShape /\ StartShape /\ TablesOK)'
      /\ EveryDriveHasItsRun'
  BY <1>1, <1>2, <1>3, <1>6, HandleKeeps
<1>8. ASSUME NEW p \in Paths \ slipped'
      PROVE  DeviceFollows(p)'
  <2>1. DeviceFollows(p) /\ p \notin Overlooked(e) /\ p \in Paths
    BY <1>5, <1>8 DEF IInv, Follows
  <2>2. /\ Quiet(todo, p) <=> Quiet(todo', p) /\ (e.path = p => e.act = "refresh")
        /\ \A x : Last(todo, p, x) <=>
              \/ Last(todo', p, x)
              \/ Quiet(todo', p) /\ x = e /\ e.path = p /\ e.act # "refresh"
        /\ Stays(todo, p) <=> Stays(todo', p) /\ (e.path = p => e.act # "remove")
        /\ Comes(todo, p) <=>
              Comes(todo', p) \/ (Stays(todo', p) /\ e.path = p /\ e.act = "add")
    BY <1>1, TailSays DEF e
  <2>3. SameQueue(p)
    BY <1>1, SameSays
  <2>4. CASE p # e.path
    <3>1. SameTodo(p)
      BY <2>2, <2>4 DEF SameTodo
    <3> QED BY <1>1, <1>3, <1>4, <1>6, <2>1, <2>3, <2>4, <3>1, OthersFollow DEF world
  <2>5. CASE p = e.path /\ e.act = "add"
    <3>1. /\ \A x : LastAll(p, x)' => LastAll(p, x)
          /\ QuietAll(p)' => LastAll(p, e)
      BY <2>2, <2>3, <2>5 DEF LastAll, QuietAll, SameQueue
    <3>2. /\ ComesQueue(p) \/ StaysQueue(p) => (ComesQueue(p) \/ StaysQueue(p))'
          /\ ComesAll(p) => ComesAll(p)' \/ (StaysAll(p)' /\ e.act = "add")
          /\ StaysAll(p) => StaysAll(p)' /\ e.act # "remove"
      BY <2>2, <2>3, <2>5 DEF SameQueue, ComesAll, StaysAll
    <3> QED BY <1>1, <1>2, <1>3, <1>4, <1>6, <2>1, <2>5, <3>1, <3>2, HandledFollows DEF world
  <2>6. CASE p = e.path /\ e.act = "refresh"
    <3>1. SameTodo(p)
      BY <2>2, <2>6 DEF SameTodo
    <3>2. IsBlock(p) /\ tables.block[p] # Absent /\ tables.block[p].label = e.label
      BY <1>2, <2>6 DEF IInv, StartShape
    <3> QED BY <1>1, <1>2, <1>3, <1>6, <2>1, <2>3, <2>6, <3>1, <3>2, RefreshedFollows DEF world
  <2> QED BY <1>3, <2>4, <2>5, <2>6
<1> QED BY <1>7, <1>8 DEF IInv, Follows

-----------------------------------------------------------------------------
(* What udev enumerates: a device comes if it is there, and others do not. *)
Enumerated(s) ==
    /\ s \in Seq(Events)
    /\ \A i \in DOMAIN s : s[i].path \in present /\ s[i] = Snapshot("add", s[i].path)
    /\ \A p \in present : Comes(s, p)

LEMMA ListingsShape ==
    ASSUME machine \in Setups, NEW S \in SUBSET Devices, NEW s \in Listings(S)
    PROVE  /\ s \in Seq(S) /\ DOMAIN s = 1..Len(s)
           /\ \A p \in S : \E i \in DOMAIN s : s[i] = p
<1>1. Cardinality(S) \in Nat
  BY DevicesFinite
<1> QED BY <1>1 DEF Listings

LEMMA EnumerationsShape ==
    ASSUME machine \in Setups, WorldType, WorldShape, NEW t \in Enumerations
    PROVE  Enumerated(t) /\ Enumerated(t \o t)
<1>1. PICK s \in Listings(present) : t = [i \in DOMAIN s |-> Snapshot("add", s[i])]
  BY DEF Enumerations
<1>2. /\ s \in Seq(present) /\ DOMAIN s = 1..Len(s)
      /\ \A p \in present : \E i \in DOMAIN s : s[i] = p
  BY ListingsShape DEF WorldType
<1>3. present \subseteq Paths
  BY MachineShape DEF WorldType
<1>4. \A p \in Paths : /\ Snapshot("add", p) \in Events
                       /\ Snapshot("add", p).path = p /\ Snapshot("add", p).act = "add"
  BY SnapshotShape
<1>5. \A i \in DOMAIN s : s[i] \in present
  BY <1>2
<1>6. /\ DOMAIN t = DOMAIN s
      /\ \A i \in DOMAIN t : /\ t[i] = Snapshot("add", s[i]) /\ t[i] \in Events
                             /\ t[i].path = s[i] /\ t[i].act = "add"
  BY <1>1, <1>3, <1>4, <1>5
<1> HIDE DEF Events
<1>7. t \in Seq(Events)
  <2>1. Len(s) \in Nat
    BY <1>2
  <2>2. t \in [1..Len(s) -> Events]
    BY <1>1, <1>2, <1>6
  <2> QED BY <2>1, <2>2
<1>8. \A i \in DOMAIN t : t[i].path \in present /\ t[i] = Snapshot("add", t[i].path)
  BY <1>5, <1>6
<1>9. \A p \in present : Comes(t, p)
  BY <1>2, <1>6 DEF Comes
<1>10. Enumerated(t)
  BY <1>7, <1>8, <1>9 DEF Enumerated
<1>11. t \o t \in Seq(Events)
  BY <1>7
<1>12. \A i \in DOMAIN (t \o t) : \E j \in DOMAIN t : (t \o t)[i] = t[j]
  <2>1. ASSUME NEW i \in 1..(Len(t) + Len(t))
        PROVE  \/ i \in DOMAIN t /\ (t \o t)[i] = t[i]
               \/ i - Len(t) \in DOMAIN t /\ (t \o t)[i] = t[i - Len(t)]
    BY <1>7, <2>1
  <2>2. DOMAIN (t \o t) = 1..(Len(t) + Len(t))
    BY <1>7
  <2> QED BY <2>1, <2>2
<1>13. \A p \in present : Comes(t \o t, p)
  BY <1>7, <1>9, ConcatSays
<1>14. Enumerated(t \o t)
  BY <1>8, <1>11, <1>12, <1>13 DEF Enumerated
<1> QED BY <1>10, <1>14

LEMMA EnumeratedSays ==
    ASSUME machine \in Setups, WorldType, WorldShape, NEW s, Enumerated(s), NEW p \in Paths
    PROVE  /\ Quiet(s, p) => p \notin present
           /\ \A x : Last(s, p, x) => Agrees(p, x)
           /\ Stays(s, p)
           /\ p \in present => Comes(s, p)
           /\ \A i \in DOMAIN s : EventShape(s[i]) /\ s[i].act = "add" /\ s[i].flag = "none"
<1>1. present \subseteq Paths
  BY MachineShape DEF WorldType
<1>2. \A i \in DOMAIN s : /\ s[i].path \in present /\ EventShape(s[i])
                          /\ s[i].act = "add" /\ s[i].label = label[s[i].path]
                          /\ s[i].flag = "none"
  <2> SUFFICES ASSUME NEW i \in DOMAIN s
               PROVE  /\ s[i].path \in present /\ EventShape(s[i])
                      /\ s[i].act = "add" /\ s[i].label = label[s[i].path]
                      /\ s[i].flag = "none"
    OBVIOUS
  <2>1. s[i].path \in present /\ s[i] = Snapshot("add", s[i].path)
    BY DEF Enumerated
  <2> DEFINE q == s[i].path
  <2>2. q \in Paths
    BY <1>1, <2>1
  <2> HIDE DEF q
  <2>3. /\ EventShape(Snapshot("add", q)) /\ Snapshot("add", q).act = "add"
        /\ Snapshot("add", q).label = label[q] /\ Snapshot("add", q).flag = "none"
    BY <2>2, SnapshotShape
  <2>4. s[i] = Snapshot("add", q)
    BY <2>1 DEF q
  <2> QED BY <2>1, <2>3, <2>4 DEF q
<1>3. p \in present => Comes(s, p)
  BY DEF Enumerated
<1>4. Quiet(s, p) => p \notin present
  BY <1>2, <1>3 DEF Quiet, Comes
<1>5. \A x : Last(s, p, x) => Agrees(p, x)
  BY <1>2 DEF Last, Agrees
<1>6. Stays(s, p)
  BY <1>2 DEF Stays
<1> QED BY <1>2, <1>3, <1>4, <1>5, <1>6

(* Coldplug begins at start-up ...                                         *)
LEMMA StartEnumerateStep ==
    ASSUME IInv, StartEnumerate
    PROVE  IInv'
<1>1. PICK t \in Enumerations : todo' = t \o t
  BY DEF StartEnumerate
<1>2. /\ pc = "new" /\ pc' = "coldplug"
      /\ UNCHANGED <<machine, present, label, array, ready, changes, listening, bus, posted, tables,
                     housekeeping, due, initial, refreshed, timeouts, slipped>>
  BY DEF StartEnumerate, world, queues, keeping
<1>3. machine \in Setups /\ WorldType /\ WorldShape
  BY DEF IInv, TypeOK, WorldType
<1>4. Enumerated(todo')
  BY <1>1, <1>3, EnumerationsShape
<1>5. todo = <<>> /\ tables = NoTables
  BY <1>2 DEF IInv, StartShape
<1>6. TypeOK'
  <2>1. {bus, posted, todo}' \subseteq Seq(Events)
    BY <1>2, <1>4 DEF Enumerated, IInv, TypeOK
  <2> QED BY <1>2, <2>1 DEF IInv, TypeOK, Devices
<1>7. WorldShape' /\ TablesOK'
  BY <1>2, SameTables DEF IInv, WorldShape, On, Kind
<1>8. \A i \in DOMAIN todo' : EventShape(todo'[i]) /\ todo'[i].act = "add" /\ todo'[i].flag = "none"
  <2>1. ASSUME NEW i \in DOMAIN todo'
        PROVE  \E p : p \in Paths
    BY <1>3, <1>4, MachineShape DEF Enumerated, WorldType
  <2> QED BY <1>3, <1>4, <2>1, EnumeratedSays
<1>9. QueueShape'
  <2>1. \A x : EventShape(x)' <=> EventShape(x)
    BY <1>2 DEF EventShape, Kind
  <2> QED BY <1>2, <1>8, <2>1 DEF IInv, QueueShape
<1>10. StartShape'
  BY <1>2, <1>8 DEF IInv, StartShape, IsBlock, Kind
<1>11. ASSUME NEW p \in Paths \ slipped
       PROVE  DeviceFollows(p)'
  <2>1. DeviceFollows(p) /\ SameQueue(p)
    BY <1>2, <1>11, SameSays DEF IInv, Follows
  <2>2. /\ Quiet(todo', p) => p \notin present
        /\ \A x : Last(todo', p, x) => Agrees(p, x)
        /\ p \in present => Comes(todo', p)
    BY <1>3, <1>4, <1>11, EnumeratedSays
  <2>3. \A x : Agrees(p, x)' <=> Agrees(p, x)
    BY <1>2 DEF Agrees
  <2>4. \A x \in Events : LastQueue(p, x) => Agrees(p, x)
    BY <2>1 DEF DeviceFollows, LastAll
  <2>5. \A x \in Events : LastAll(p, x)' => Agrees(p, x)'
    BY <2>1, <2>2, <2>3, <2>4 DEF LastAll, SameQueue
  <2>6. p \in present' => (ComesQueue(p) \/ StaysQueue(p))'
    BY <1>2, <2>1 DEF DeviceFollows, SameQueue
  <2>7. p \in present' => ComesAll(p)'
    BY <1>2, <2>2, <2>6 DEF ComesAll
  <2>8. QuietAll(p)' => p \notin present
    BY <2>2 DEF QuietAll
  <2>9. tables'.block[p] = Absent /\ ~HasDrive(p)' /\ ~tables'.loaded
    BY <1>2, <1>5, <1>11 DEF NoTables, HasDrive
  <2>10. machine.nqn[p] # Absent => ~HasSubsystem(p)'
    <3>1. machine.nqn[p] # Absent => machine.nqn[p] \in Nqns
      BY <1>3, <1>11, MachineShape DEF OrAbsent
    <3> QED BY <1>2, <1>5, <3>1 DEF NoTables, HasSubsystem
  <2>11. QuietAll(p)' => BlockAgrees(p)'
    BY <1>2, <2>8, <2>9 DEF BlockAgrees
  <2> QED BY <1>2, <2>5, <2>6, <2>7, <2>9, <2>10, <2>11 DEF DeviceFollows
<1>12. EveryDriveHasItsRun'
  BY <1>2 DEF EveryDriveHasItsRun
<1> QED BY <1>2, <1>6, <1>7, <1>9, <1>10, <1>11, <1>12 DEF IInv, Follows

(* ... and when the modules are activated, which know no device yet.       *)
LEMMA EnsureModulesStep ==
    ASSUME IInv, EnsureModules
    PROVE  IInv'
<1>1. todo' \in Enumerations
  BY DEF EnsureModules
<1>2. /\ pc = "running" /\ pc' = pc /\ todo = <<>> /\ ~tables.loaded
      /\ timeouts < MaxTimeouts /\ timeouts' = timeouts + 1
      /\ tables' = [tables EXCEPT !.loaded = TRUE]
      /\ UNCHANGED <<machine, present, label, array, ready, changes, listening, bus, posted,
                     housekeeping, due, initial, refreshed, slipped>>
  BY DEF EnsureModules, world, queues
<1>3. machine \in Setups /\ WorldType /\ WorldShape /\ tables \in Tables
  BY DEF IInv, TypeOK, WorldType
<1>4. Enumerated(todo')
  BY <1>1, <1>3, EnumerationsShape
<1>5. /\ tables' \in Tables /\ ArraysAlone(tables, tables') /\ DrivesAlone(tables, tables')
      /\ SubsystemsAlone(tables, tables') /\ tables'.block = tables.block
      /\ tables'.claimed = tables.claimed /\ tables'.loaded = TRUE
  BY <1>2, <1>3 DEF Tables, ArraysAlone, DrivesAlone, SubsystemsAlone
<1>6. TypeOK'
  <2>1. {bus, posted, todo}' \subseteq Seq(Events)
    BY <1>2, <1>4 DEF Enumerated, IInv, TypeOK
  <2>2. timeouts' \in 0..MaxTimeouts
    BY <1>2, DeviceTablesAssumption DEF IInv, TypeOK
  <2> QED BY <1>2, <1>5, <2>1, <2>2 DEF IInv, TypeOK, Devices
<1>7. WorldShape'
  BY <1>2 DEF IInv, WorldShape, On, Kind
<1>8. TablesOK'
  <2>1. PointersOK(tables)'
    BY <1>5, TablesKept DEF IInv, TablesOK, PointersOK
  <2>2. DrivesOK(tables)'
    <3>1. \A p \in Paths : ShouldInclude(p)' <=> ShouldInclude(p)
      BY <1>2 DEF ShouldInclude, Kind
    <3>2. \A v \in Vpds : PathsOf(tables, v)' = PathsOf(tables, v)
      BY <1>5 DEF PathsOf, DrivesAlone
    <3> QED BY <1>2, <1>5, <3>1, <3>2 DEF IInv, TablesOK, DrivesOK, DrivesAlone
  <2>3. SubsystemsOK(tables)'
    BY <1>2, <1>5 DEF IInv, TablesOK, SubsystemsOK, SubsystemsAlone
  <2> QED BY <2>1, <2>2, <2>3 DEF TablesOK
<1>9. \A i \in DOMAIN todo' : EventShape(todo'[i]) /\ todo'[i].act = "add" /\ todo'[i].flag = "none"
  <2>1. ASSUME NEW i \in DOMAIN todo'
        PROVE  \E p : p \in Paths
    BY <1>3, <1>4, MachineShape DEF Enumerated, WorldType
  <2> QED BY <1>3, <1>4, <2>1, EnumeratedSays
<1>10. QueueShape'
  <2>1. \A x : EventShape(x)' <=> EventShape(x)
    BY <1>2 DEF EventShape, Kind
  <2> QED BY <1>2, <1>9, <2>1 DEF IInv, QueueShape
<1>11. StartShape'
  BY <1>2, <1>5, <1>9 DEF IInv, StartShape, IsBlock, Kind
<1>12. ASSUME NEW p \in Paths \ slipped
       PROVE  DeviceFollows(p)'
  <2>1. DeviceFollows(p) /\ SameQueue(p)
    BY <1>2, <1>12, SameSays DEF IInv, Follows
  <2>2. /\ Quiet(todo', p) => p \notin present
        /\ \A x : Last(todo', p, x) => Agrees(p, x)
        /\ Stays(todo', p)
    BY <1>3, <1>4, <1>12, EnumeratedSays
  <2>3. Quiet(todo, p) /\ Stays(todo, p) /\ ~Comes(todo, p)
    BY <1>2, EmptySays
  <2>4. \A x : Agrees(p, x)' <=> Agrees(p, x)
    BY <1>2 DEF Agrees
  <2>5. \A x \in Events : LastAll(p, x)' => Agrees(p, x)'
    BY <2>1, <2>2, <2>4 DEF LastAll, SameQueue, DeviceFollows
  <2>6. p \in present' => (ComesQueue(p) \/ StaysQueue(p))'
    BY <1>2, <2>1 DEF DeviceFollows, SameQueue
  <2>7. /\ ComesAll(p) => ComesAll(p)'
        /\ StaysAll(p) => StaysAll(p)'
        /\ QuietAll(p)' => QuietAll(p) /\ p \notin present
    BY <2>1, <2>2, <2>3 DEF ComesAll, StaysAll, QuietAll, SameQueue
  <2>8. /\ HasDrive(p)' <=> HasDrive(p)
        /\ HasSubsystem(p)' <=> HasSubsystem(p)
        /\ ShouldInclude(p)' <=> ShouldInclude(p)
    BY <1>2, <1>5 DEF HasDrive, HasSubsystem, ShouldInclude, Kind, DrivesAlone, SubsystemsAlone
  <2>9. ASSUME QuietAll(p)'
        PROVE  BlockAgrees(p)'
    <3>1. p \notin present /\ tables.block[p] = Absent
      BY <1>2, <2>1, <2>7, <2>9 DEF DeviceFollows, BlockAgrees
    <3>2. p \notin tables.claimed
      BY <1>2 DEF IInv, StartShape
    <3> QED BY <1>2, <1>5, <3>1, <3>2 DEF BlockAgrees
  <2>10. (/\ p \in present /\ ShouldInclude(p) => ComesAll(p) \/ (StaysAll(p) /\ HasDrive(p))
          /\ p \in present /\ machine.nqn[p] # Absent =>
                ComesAll(p) \/ (StaysAll(p) /\ HasSubsystem(p))
          /\ QuietAll(p) => /\ HasDrive(p) => p \in present
                            /\ machine.nqn[p] # Absent /\ HasSubsystem(p) => p \in present)'
    BY <1>2, <2>1, <2>7, <2>8 DEF DeviceFollows
  <2> QED BY <2>5, <2>6, <2>9, <2>10 DEF DeviceFollows
<1>13. EveryDriveHasItsRun'
  BY <1>2, <1>5 DEF IInv, EveryDriveHasItsRun, Drives, DrivesAlone
<1> QED BY <1>2, <1>6, <1>7, <1>8, <1>10, <1>11, <1>12, <1>13 DEF IInv, Follows

(* The block objects are to be brought up to date.                         *)
LEMMA UpdateBlockObjectsStep ==
    ASSUME IInv, UpdateBlockObjects
    PROVE  IInv'
<1> DEFINE S == {p \in Devices : tables.block[p] # Absent}
           refresh(p) == [Snapshot("refresh", p) EXCEPT !.label = tables.block[p].label]
<1>1. /\ pc = "running" /\ pc' = pc /\ todo = <<>>
      /\ timeouts < MaxTimeouts /\ timeouts' = timeouts + 1
      /\ UNCHANGED <<machine, present, label, array, ready, changes, listening, bus, posted, tables,
                     housekeeping, due, initial, refreshed, slipped>>
  BY DEF UpdateBlockObjects, world, queues
<1>2. PICK s \in Listings(S) : todo' = [i \in DOMAIN s |-> refresh(s[i])]
  BY DEF UpdateBlockObjects
<1>3. machine \in Setups /\ WorldType /\ WorldShape /\ tables \in Tables
  BY DEF IInv, TypeOK, WorldType
<1>4. s \in Seq(S) /\ DOMAIN s = 1..Len(s)
  BY <1>3, ListingsShape
<1>5. ASSUME NEW p \in S
      PROVE  /\ refresh(p) \in Events /\ EventShape(refresh(p)) /\ refresh(p).act = "refresh"
             /\ refresh(p).flag = "none" /\ refresh(p).path = p /\ IsBlock(p)
             /\ tables.block[p] # Absent /\ tables.block[p].label = refresh(p).label
  <2>1. p \in Paths /\ IsBlock(p) /\ tables.block[p] # Absent
    BY <1>3, MachineShape DEF IInv, StartShape
  <2>2. tables.block[p].label \in Labels
    BY <1>3, <2>1 DEF Tables, OrAbsent, BlockObject
  <2>3. /\ array[p] \in OrAbsent(Uuids) \cup {Bogus} /\ (array[p] # Absent => Kind(p) = "md")
        /\ array[p] \in Uuids => array[p] \in machine.arrays[p]
    BY <1>3, <2>1, MachineShape DEF WorldType, WorldShape
  <2>4. refresh(p) = [act |-> "refresh", path |-> p, label |-> tables.block[p].label,
                      array |-> array[p], flag |-> "none"]
    BY DEF Snapshot
  <2> QED BY <2>1, <2>2, <2>3, <2>4 DEF Events, EventShape
<1> HIDE DEF refresh, S
<1>6. \A i \in DOMAIN s : s[i] \in S
  BY <1>4
<1>7. /\ DOMAIN todo' = DOMAIN s
      /\ \A i \in DOMAIN todo' :
           /\ todo'[i] \in Events /\ EventShape(todo'[i]) /\ todo'[i].act = "refresh"
           /\ todo'[i].flag = "none" /\ IsBlock(todo'[i].path)
           /\ tables.block[todo'[i].path] # Absent
           /\ tables.block[todo'[i].path].label = todo'[i].label
  BY <1>2, <1>5, <1>6
<1>8. todo' \in Seq(Events)
  <2>1. Len(s) \in Nat
    BY <1>4
  <2>2. todo' \in [1..Len(s) -> Events]
    BY <1>2, <1>4, <1>7
  <2> QED BY <2>1, <2>2
<1>9. TypeOK'
  <2>1. {bus, posted, todo}' \subseteq Seq(Events)
    BY <1>1, <1>8 DEF IInv, TypeOK
  <2>2. timeouts' \in 0..MaxTimeouts
    BY <1>1, DeviceTablesAssumption DEF IInv, TypeOK
  <2> QED BY <1>1, <2>1, <2>2 DEF IInv, TypeOK, Devices
<1>10. WorldShape' /\ TablesOK'
  BY <1>1, SameTables DEF IInv, WorldShape, On, Kind
<1>11. QueueShape'
  <2>1. \A x : EventShape(x)' <=> EventShape(x)
    BY <1>1 DEF EventShape, Kind
  <2> QED BY <1>1, <1>7, <2>1 DEF IInv, QueueShape
<1>12. StartShape'
  <2>1. \A x : IsBlock(x)' <=> IsBlock(x)
    BY <1>1 DEF IsBlock, Kind
  <2> QED BY <1>1, <1>7, <2>1 DEF IInv, StartShape
<1>13. ASSUME NEW p
       PROVE  SameTodo(p)
  <2>1. /\ Quiet(todo, p) /\ Stays(todo, p) /\ ~Comes(todo, p)
        /\ \A x : ~Last(todo, p, x)
    BY <1>1, EmptySays
  <2>2. /\ Quiet(todo', p) /\ Stays(todo', p) /\ ~Comes(todo', p)
        /\ \A x : ~Last(todo', p, x)
    BY <1>7 DEF Quiet, Stays, Comes, Last
  <2> QED BY <2>1, <2>2 DEF SameTodo
<1>14. Follows'
  BY <1>1, <1>13, FollowsOn, SameSays DEF IInv, Follows
<1>15. EveryDriveHasItsRun'
  BY <1>1 DEF IInv, EveryDriveHasItsRun, Drives
<1> QED BY <1>9, <1>10, <1>11, <1>12, <1>14, <1>15 DEF IInv

(* Steps that leave the devices and their entries alone.                   *)
LEMMA ElseSame ==
    ASSUME IInv, UNCHANGED <<machine, present, label, array, bus, posted, todo, tables, slipped>>,
           listening => listening', pc = "new" <=> pc' = "new"
    PROVE  (WorldShape /\ QueueShape /\ StartShape /\ TablesOK /\ Follows)'
<1>1. WorldShape'
  BY DEF IInv, WorldShape, On, Kind
<1>2. QueueShape'
  <2>1. \A x : EventShape(x)' <=> EventShape(x)
    BY DEF EventShape, Kind
  <2> QED BY <2>1 DEF IInv, QueueShape
<1>3. StartShape'
  BY DEF IInv, StartShape, IsBlock, Kind
<1>4. TablesOK'
  BY SameTables DEF IInv
<1>5. Follows'
  BY AllFollowOn DEF IInv
<1> QED BY <1>1, <1>2, <1>3, <1>4, <1>5

LEMMA OnUeventStep ==
    ASSUME IInv, OnUevent
    PROVE  IInv'
<1> DEFINE e == Head(bus)
<1>1. /\ bus # <<>> /\ bus' = Tail(bus)
      /\ posted' = IF tables.block[e.path] = Absent /\ Spurious(e) THEN posted ELSE Append(posted, e)
      /\ slipped' = IF tables.block[e.path] = Absent /\ e.flag = "media"
                    THEN slipped \cup {e.path} ELSE slipped
      /\ UNCHANGED <<machine, present, label, array, ready, changes, listening, pc, todo, tables,
                     housekeeping, due, initial, refreshed, timeouts>>
      /\ {bus, posted, todo} \subseteq Seq(Events)
  BY DEF OnUevent, world, start, keeping, IInv, TypeOK
<1>2. /\ bus' \in Seq(Events) /\ e \in Events
      /\ \A i \in DOMAIN bus' : \E j \in DOMAIN bus : bus'[i] = bus[j]
      /\ \E j \in DOMAIN bus : e = bus[j]
  BY <1>1, TailKeeps
<1>3. e.path \in Paths
  BY <1>2 DEF Events
<1> HIDE DEF e, Events
<1>4. /\ posted' \in Seq(Events) /\ slipped \subseteq slipped' /\ slipped' \subseteq Paths
      /\ \A i \in DOMAIN posted' : posted'[i] = e \/ \E j \in DOMAIN posted : posted'[i] = posted[j]
  <2>1. /\ Append(posted, e) \in Seq(Events)
        /\ \A i \in DOMAIN Append(posted, e) :
             \/ Append(posted, e)[i] = e
             \/ i \in DOMAIN posted /\ Append(posted, e)[i] = posted[i]
    BY <1>1, <1>2
  <2> QED BY <1>1, <1>3, <2>1 DEF IInv, TypeOK
<1>5. TypeOK'
  <2>1. {bus, posted, todo}' \subseteq Seq(Events)
    BY <1>1, <1>2, <1>4
  <2>2. Devices' = Devices
    BY <1>1 DEF Devices
  <2>3. (slipped \subseteq Paths)'
    BY <1>4
  <2> QED BY <1>1, <2>1, <2>2, <2>3 DEF IInv, TypeOK
<1>6. WorldShape' /\ TablesOK'
  BY <1>1, SameTables DEF IInv, WorldShape, On, Kind
<1>7. QueueShape'
  <2>1. \A x : EventShape(x)' <=> EventShape(x)
    BY <1>1 DEF EventShape, Kind
  <2>2. listening' /\ EventShape(e) /\ e.act # "refresh"
    BY <1>1, <1>2 DEF IInv, QueueShape
  <2> QED BY <1>1, <1>2, <1>4, <2>1, <2>2 DEF IInv, QueueShape
<1>8. StartShape'
  BY <1>1 DEF IInv, StartShape, IsBlock, Kind
<1>9. ASSUME NEW p \in Paths \ slipped'
      PROVE  DeviceFollows(p)'
  <2>1. /\ DeviceFollows(p) /\ SameTodo(p) /\ SameWorld(p) /\ SameEntries(p)
    BY <1>1, <1>4, <1>9, SameSays DEF IInv, Follows
  <2>2. SameQueue(p)
    <3>1. CASE posted' = Append(posted, e)
      BY <1>1, <3>1, UeventMoved DEF e
    <3>2. CASE posted' # Append(posted, e)
      <4>1. posted' = posted /\ p # e.path
        BY <1>1, <1>9, <3>2 DEF Spurious
      <4> QED BY <1>1, <4>1, UeventDropped DEF e
    <3> QED BY <3>1, <3>2
  <2> QED BY <1>1, <2>1, <2>2, FollowsOn
<1>10. EveryDriveHasItsRun'
  BY <1>1 DEF IInv, EveryDriveHasItsRun, Drives
<1> QED BY <1>5, <1>6, <1>7, <1>8, <1>9, <1>10 DEF IInv, Follows

(* The other steps of the threads.                                         *)
LEMMA OtherSteps ==
    ASSUME IInv, \/ Listen \/ StartComplete \/ Timeout \/ HoldDrives \/ HousekeepingDone
                 \/ \E v \in Vpds : Housekeep(v) \/ InitialHousekeeping(v)
                 \/ UNCHANGED vars
    PROVE  IInv'
<1> DEFINE Kept ==
           /\ UNCHANGED <<machine, present, label, array, ready, changes, bus, posted, todo, tables,
                          slipped>>
           /\ listening' \in BOOLEAN /\ (listening => listening')
           /\ pc' \in {"new", "coldplug", "running"} /\ (pc = "new" <=> pc' = "new")
           /\ housekeeping' \in {"idle", "started", "drives"}
           /\ timeouts' \in 0..MaxTimeouts
           /\ due' \subseteq Vpds /\ initial' \subseteq Vpds /\ refreshed' \subseteq Vpds
           /\ EveryDriveHasItsRun'
<1>1. Kept
  <2>0. /\ listening \in BOOLEAN /\ pc \in {"new", "coldplug", "running"}
        /\ housekeeping \in {"idle", "started", "drives"}
        /\ timeouts \in 0..MaxTimeouts /\ MaxTimeouts \in Nat
        /\ due \subseteq Vpds /\ initial \subseteq Vpds /\ refreshed \subseteq Vpds
        /\ EveryDriveHasItsRun
    BY DeviceTablesAssumption DEF IInv, TypeOK
  <2>1. CASE Listen
    BY <2>0, <2>1 DEF Listen, world, start, keeping, EveryDriveHasItsRun, Drives
  <2>2. CASE StartComplete
    BY <2>0, <2>2 DEF StartComplete, world, queues, EveryDriveHasItsRun, Drives
  <2>3. CASE Timeout
    BY <2>0, <2>3 DEF Timeout, world, queues, start, EveryDriveHasItsRun, Drives
  <2>4. CASE HoldDrives
    BY <2>0, <2>4 DEF HoldDrives, world, queues, start, EveryDriveHasItsRun, Drives
  <2>5. CASE HousekeepingDone
    BY <2>0, <2>5 DEF HousekeepingDone, world, queues, start, EveryDriveHasItsRun, Drives
  <2>6. ASSUME NEW v \in Vpds, Housekeep(v) \/ InitialHousekeeping(v)
        PROVE  Kept
    BY <2>0, <2>6
       DEF Housekeep, InitialHousekeeping, world, queues, start, EveryDriveHasItsRun, Drives
  <2>7. CASE UNCHANGED vars
    BY <2>0, <2>7 DEF vars, world, queues, start, keeping, EveryDriveHasItsRun, Drives
  <2> QED BY <2>1, <2>2, <2>3, <2>4, <2>5, <2>6, <2>7
<1>2. (WorldShape /\ QueueShape /\ StartShape /\ TablesOK /\ Follows)'
  BY <1>1, ElseSame
<1>3. TypeOK'
  BY <1>1 DEF IInv, TypeOK, Devices
<1> QED BY <1>1, <1>2, <1>3 DEF IInv

-----------------------------------------------------------------------------
LEMMA InitInvariant ==
    ASSUME Init
    PROVE  IInv
<1>1. /\ machine \in Setups /\ present \subseteq Devices /\ label = machine.content
      /\ array = [p \in Paths |-> Absent] /\ ready = present /\ changes = 0
      /\ listening = FALSE /\ bus = <<>> /\ posted = <<>> /\ pc = "new" /\ todo = <<>>
      /\ tables = NoTables /\ housekeeping = "idle" /\ due = {} /\ initial = {}
      /\ refreshed = {} /\ timeouts = 0 /\ slipped = {}
      /\ \A p \in present : On(p) \in OrAbsent(present)
  BY DEF Init
<1>2. machine \in Machine
  BY <1>1, DeviceTablesAssumption
<1>3. tables \in Tables
  <2>1. /\ Absent \in OrAbsent(BlockObject) /\ Absent \in OrAbsent((SUBSET Paths) \ {{}})
        /\ Absent \in OrAbsent(ArrayObject) /\ Absent \in OrAbsent(Nqns)
    BY DEF OrAbsent
  <2> QED BY <1>1, <2>1 DEF NoTables, Tables
<1>4. {bus, posted, todo} \subseteq Seq(Events)
  <2> HIDE DEF Events
  <2> QED BY <1>1
<1>5. TypeOK
  <2>1. label \in [Paths -> Labels]
    BY <1>1, <1>2 DEF Machine
  <2>2. array \in [Paths -> OrAbsent(Uuids)]
    BY <1>1 DEF OrAbsent
  <2>3. changes \in 0..MaxEvents /\ timeouts \in 0..MaxTimeouts
    BY <1>1, DeviceTablesAssumption
  <2> QED BY <1>1, <1>3, <1>4, <2>1, <2>2, <2>3 DEF TypeOK
<1>6. WorldShape
  BY <1>1 DEF WorldShape
<1>7. QueueShape
  BY <1>1 DEF QueueShape
<1>8. StartShape
  BY <1>1 DEF StartShape, NoTables
<1>9. TablesOK
  <2>1. Absent \notin Uuids /\ Absent \notin Vpds /\ Freed # Absent
    BY DeviceTablesAssumption
  <2>2. PointersOK(tables)
    BY <1>1, <2>1 DEF PointersOK, NoTables
  <2>3. DrivesOK(tables)
    <3>1. \A v \in Vpds : PathsOf(tables, v) = {}
      BY <1>1, <2>1 DEF PathsOf, NoTables
    <3> QED BY <1>1, <3>1 DEF DrivesOK, NoTables
  <2>4. SubsystemsOK(tables)
    BY <1>1 DEF SubsystemsOK, NoTables
  <2> QED BY <2>2, <2>3, <2>4 DEF TablesOK
<1>10. Follows
  <2>1. ASSUME NEW p
        PROVE  DeviceFollows(p)
    <3>1. /\ Quiet(<<>>, p) /\ Stays(<<>>, p) /\ ~Comes(<<>>, p)
          /\ \A x : ~Last(<<>>, p, x)
      BY EmptySays
    <3>2. \A x : ~LastAll(p, x)
      BY <1>1, <3>1 DEF LastAll, LastQueue
    <3>3. StaysQueue(p)
      BY <1>1, <3>1 DEF StaysQueue
    <3> QED BY <1>1, <3>2, <3>3 DEF DeviceFollows
  <2> QED BY <2>1 DEF Follows
<1>11. EveryDriveHasItsRun
  BY <1>1 DEF EveryDriveHasItsRun, Drives, NoTables
<1> QED BY <1>5, <1>6, <1>7, <1>8, <1>9, <1>10, <1>11 DEF IInv

LEMMA StepInvariant ==
    ASSUME IInv, [Next]_vars
    PROVE  IInv'
<1>1. CASE World
  BY <1>1, WorldStep
<1>2. CASE OnUevent
  BY <1>2, OnUeventStep
<1>3. CASE Apply
  BY <1>3, ApplyStep
<1>4. CASE TodoStep
  BY <1>4, TodoStepStep
<1>5. CASE StartEnumerate
  BY <1>5, StartEnumerateStep
<1>6. CASE EnsureModules
  BY <1>6, EnsureModulesStep
<1>7. CASE UpdateBlockObjects
  BY <1>7, UpdateBlockObjectsStep
<1>8. CASE \/ Listen \/ StartComplete \/ Timeout \/ HoldDrives \/ HousekeepingDone
           \/ \E v \in Vpds : Housekeep(v) \/ InitialHousekeeping(v)
           \/ UNCHANGED vars
  BY <1>8, OtherSteps
<1> QED BY <1>1, <1>2, <1>3, <1>4, <1>5, <1>6, <1>7, <1>8 DEF Next, Threads

(* The invariant: the tables agree with each other, and unless an event of *)
(* a device is not seen as it was, its last uevent under way tells how it  *)
(* is, and with none under way its entries do.                             *)
THEOREM Invariance == Spec => []IInv
<1>1. Init => IInv
  BY InitInvariant
<1>2. IInv /\ [Next]_vars => IInv'
  BY StepInvariant
<1> QED BY <1>1, <1>2, PTL DEF Spec

-----------------------------------------------------------------------------
(* Nothing is said of any device once the queues are empty.                *)
LEMMA SettledFollows ==
    ASSUME IInv, Settled, NEW p \in Paths \ slipped
    PROVE  /\ BlockAgrees(p)
           /\ p \in present /\ ShouldInclude(p) => HasDrive(p)
           /\ p \in present /\ machine.nqn[p] # Absent => HasSubsystem(p)
           /\ HasDrive(p) => p \in present
           /\ machine.nqn[p] # Absent /\ HasSubsystem(p) => p \in present
<1>1. bus = <<>> /\ posted = <<>> /\ todo = <<>> /\ pc # "new"
  BY DEF Settled
<1>2. QuietAll(p) /\ ~ComesAll(p)
  BY <1>1, EmptySays DEF QuietAll, QuietQueue, ComesAll, ComesQueue
<1>3. DeviceFollows(p)
  BY DEF IInv, Follows
<1> QED BY <1>1, <1>2, <1>3 DEF DeviceFollows

(* Every variable keeps its type, whatever the uevents say and whenever    *)
(* they are handled: no handler looks a freed object up.                   *)
THEOREM TypeCorrect == Spec => []TypeOK
<1>1. IInv => TypeOK
  BY DEF IInv
<1> QED BY <1>1, Invariance, PTL

LEMMA MembersOfArrays ==
    ASSUME IInv
    PROVE  MemberEntriesLive
<1>1. machine \in Setups /\ tables \in Tables /\ PointersOK(tables)
  BY DEF IInv, TypeOK, TablesOK
<1>2. /\ Devices \subseteq Paths
      /\ \A p \in Paths : tables.memberPath[p] \in Uuids \cup {Absent, Freed}
  BY <1>1, MachineShape, TypesOfArrays
<1> QED BY <1>1, <1>2 DEF MemberEntriesLive, PointersOK

LEMMA PathsOfDrives ==
    ASSUME IInv
    PROVE  DriveEntriesLive
<1>1. machine \in Setups /\ DrivesOK(tables) /\ Devices \subseteq Paths
  BY MachineShape DEF IInv, TypeOK, TablesOK
<1> SUFFICES ASSUME NEW p \in Devices, tables.drivePath[p] # Absent
             PROVE  /\ tables.drivePath[p] \in Vpds
                    /\ p \in tables.drive[tables.drivePath[p]]
  BY DEF DriveEntriesLive
<1>2. tables.drivePath[p] = machine.vpd[p] /\ machine.vpd[p] \in Vpds
  BY <1>1, MachineShape DEF DrivesOK, OrAbsent
<1>3. p \in PathsOf(tables, machine.vpd[p])
  BY <1>1, <1>2 DEF PathsOf
<1> QED BY <1>1, <1>2, <1>3 DEF DrivesOK

(* The entry of a member, or of a path of a drive, never outlives its      *)
(* object, which knows the device (udisks_linux_provider_start gives the   *)
(* tables no g_object_unref).                                              *)
THEOREM MembersKnown == Spec => [](MemberEntriesLive /\ DriveEntriesLive)
<1>1. IInv => MemberEntriesLive /\ DriveEntriesLive
  BY MembersOfArrays, PathsOfDrives
<1> QED BY <1>1, Invariance, PTL

(* Once the uevents are applied there is a block object for each device,   *)
(* with the interfaces that its content and its partitions call for        *)
(* (handle_block_uevent_for_block).                                        *)
THEOREM BlocksSettle == Spec => []BlocksFollow
<1>1. ASSUME IInv
      PROVE  BlocksFollow
  <2>1. Devices \subseteq Paths
    BY <1>1, MachineShape DEF IInv, TypeOK
  <2>2. ASSUME Settled, NEW p \in Devices \ slipped
        PROVE  BlockAgrees(p)
    BY <1>1, <2>1, <2>2, SettledFollows
  <2> QED BY <2>2 DEF BlocksFollow, BlockAgrees
<1> QED BY <1>1, Invariance, PTL

(* Once the uevents are applied a drive has just the paths that lead to    *)
(* it, and is exported as long as there is one                             *)
(* (handle_block_uevent_for_drive).                                        *)
THEOREM DrivesSettle == Spec => []DrivesFollow
<1>1. ASSUME IInv
      PROVE  DrivesFollow
  <2>1. /\ machine \in Setups /\ DrivesOK(tables) /\ present \subseteq Paths
        /\ Absent \notin Vpds /\ \A S \in SUBSET Paths : Absent # S
    BY <1>1, MachineShape, DeviceTablesAssumption DEF IInv, TypeOK, TablesOK
  <2> SUFFICES ASSUME Settled, NEW v \in Vpds
               PROVE  LET paths == {p \in present : ShouldInclude(p) /\ machine.vpd[p] = v} IN
                      IF tables.drive[v] = Absent THEN paths \subseteq slipped
                      ELSE /\ tables.drive[v] # {}
                           /\ tables.drive[v] \ slipped = paths \ slipped
    BY DEF DrivesFollow
  <2> DEFINE paths == {p \in present : ShouldInclude(p) /\ machine.vpd[p] = v}
  <2>2. ASSUME NEW p \in Paths \ slipped
        PROVE  p \in paths <=> p \in PathsOf(tables, v)
    <3>1. /\ p \in present /\ ShouldInclude(p) => tables.drivePath[p] # Absent
          /\ tables.drivePath[p] # Absent => p \in present
      BY <1>1, <2>2, SettledFollows DEF HasDrive
    <3>2. tables.drivePath[p] # Absent =>
             tables.drivePath[p] = machine.vpd[p] /\ ShouldInclude(p)
      BY <2>1 DEF DrivesOK
    <3> QED BY <2>1, <3>1, <3>2 DEF PathsOf
  <2>3. paths \subseteq Paths /\ PathsOf(tables, v) \subseteq Paths
    BY <2>1 DEF PathsOf
  <2> HIDE DEF paths
  <2>4. tables.drive[v] = IF PathsOf(tables, v) = {} THEN Absent ELSE PathsOf(tables, v)
    BY <2>1 DEF DrivesOK
  <2>5. CASE PathsOf(tables, v) = {}
    BY <2>2, <2>3, <2>4, <2>5 DEF paths
  <2>6. CASE PathsOf(tables, v) # {}
    <3>1. tables.drive[v] = PathsOf(tables, v) /\ tables.drive[v] # Absent
      BY <2>1, <2>3, <2>4, <2>6
    <3>2. PathsOf(tables, v) \ slipped = paths \ slipped
      BY <2>2, <2>3
    <3> QED BY <2>6, <3>1, <3>2 DEF paths
  <2> QED BY <2>5, <2>6
<1> QED BY <1>1, Invariance, PTL

(* Once the uevents are applied an NVMe subsystem has just its controllers *)
(* and namespaces (handle_block_uevent_for_nvme_subsys).                   *)
THEOREM SubsystemsSettle == Spec => []SubsystemsFollow
<1>1. ASSUME IInv
      PROVE  SubsystemsFollow
  <2>1. /\ machine \in Setups /\ SubsystemsOK(tables) /\ tables \in Tables
        /\ present \subseteq Paths /\ Absent \notin Nqns
    BY <1>1, MachineShape, DeviceTablesAssumption DEF IInv, TypeOK, TablesOK
  <2> SUFFICES ASSUME Settled, NEW n \in Nqns
               PROVE  tables.subsys[n] \ slipped = {p \in present : machine.nqn[p] = n} \ slipped
    BY DEF SubsystemsFollow
  <2>2. tables.subsys[n] \subseteq Paths
    BY <2>1 DEF Tables
  <2>3. ASSUME NEW p \in Paths \ slipped
        PROVE  p \in tables.subsys[n] <=> p \in present /\ machine.nqn[p] = n
    <3>1. p \in tables.subsys[n] => machine.nqn[p] = n
      BY <2>1, <2>3 DEF SubsystemsOK
    <3>2. machine.nqn[p] = n => (p \in tables.subsys[n] <=> p \in present)
      BY <1>1, <2>1, <2>3, SettledFollows DEF HasSubsystem
    <3> QED BY <3>1, <3>2
  <2> QED BY <2>1, <2>2, <2>3
<1> QED BY <1>1, Invariance, PTL

(* A drive gets a housekeeping run, whether it was there at start-up       *)
(* or came later: until it has had one, one is to come                     *)
(* (perform_initial_housekeeping_for_drive).                               *)
THEOREM RunsAhead == Spec => []EveryDriveHasItsRun
<1>1. IInv => EveryDriveHasItsRun
  BY DEF IInv
<1> QED BY <1>1, Invariance, PTL

-----------------------------------------------------------------------------
(* The path of a device that shares no array leads to its array, if        *)
(* anywhere.                                                               *)
AInv == IInv /\ ArraysOK(tables)

LEMMA StepOfArrays ==
    ASSUME AInv, [Next]_vars
    PROVE  ArraysOK(tables)'
<1>1. machine \in Setups /\ tables \in Tables /\ TablesOf(tables)
  BY DEF AInv, IInv, TypeOK, TablesOK, TablesOf
<1>2. ASSUME machine' = machine, ArraysAlone(tables, tables')
      PROVE  ArraysOK(tables)'
  BY <1>2 DEF AInv, ArraysOK, ArraysAlone, Alone, Kind
<1>3. ASSUME machine' = machine, NEW e \in Events, EventShape(e), Handle(e)
      PROVE  ArraysOK(tables)'
  <2>1. ArraysOK(tables')
    <3>1. CASE e.act = "refresh"
      BY <1>1, <1>3, <3>1, RefreshHandled DEF AInv, Handle, TablesBecome
    <3>2. CASE e.act # "refresh"
      BY <1>1, <1>3, <3>2, UeventHandled DEF AInv, Handle, TablesBecome
    <3> QED BY <3>1, <3>2
  <2> QED BY <1>3, <2>1 DEF ArraysOK, Alone, Kind
<1>4. CASE Apply
  <2>1. posted \in Seq(Events) /\ posted # <<>> /\ machine' = machine /\ Handle(Head(posted))
    BY <1>4 DEF Apply, world, AInv, IInv, TypeOK
  <2>2. Head(posted) \in Events /\ \E j \in DOMAIN posted : Head(posted) = posted[j]
    BY <2>1, TailKeeps
  <2> QED BY <1>3, <2>1, <2>2 DEF AInv, IInv, QueueShape
<1>5. CASE TodoStep
  <2>1. todo \in Seq(Events) /\ todo # <<>> /\ machine' = machine /\ Handle(Head(todo))
    BY <1>5 DEF TodoStep, world, AInv, IInv, TypeOK
  <2>2. Head(todo) \in Events /\ \E j \in DOMAIN todo : Head(todo) = todo[j]
    BY <2>1, TailKeeps
  <2> QED BY <1>3, <2>1, <2>2 DEF AInv, IInv, QueueShape
<1>6. CASE EnsureModules
  BY <1>1, <1>2, <1>6 DEF EnsureModules, world, ArraysAlone, Tables
<1>7. CASE World
  <2>1. UNCHANGED <<machine, tables>>
    BY <1>7 DEF World, Plug, Unplug, Identified, Relabel, MediaChange, Assemble, StopArray, Emit
  <2> QED BY <1>2, <2>1 DEF ArraysAlone
<1>8. CASE \/ Listen \/ OnUevent \/ StartEnumerate \/ StartComplete \/ UpdateBlockObjects
           \/ Timeout \/ HoldDrives \/ HousekeepingDone
           \/ \E v \in Vpds : Housekeep(v) \/ InitialHousekeeping(v)
           \/ UNCHANGED vars
  <2>1. UNCHANGED <<machine, tables>>
    BY <1>8 DEF Listen, OnUevent, StartEnumerate, StartComplete, UpdateBlockObjects, Timeout,
       HoldDrives, HousekeepingDone, Housekeep, InitialHousekeeping, world, vars
  <2> QED BY <1>2, <2>1 DEF ArraysAlone
<1> QED BY <1>4, <1>5, <1>6, <1>7, <1>8 DEF Next, Threads

(* No entry outlives its object, whatever the machine, but for that of an  *)
(* array device the array of which udev reports of another device too      *)
(* (udisks_linux_provider_start gives the tables no g_object_unref).       *)
THEOREM EntriesKnown == Spec => []EntriesLive
<1>1. Init => AInv
  <2>1. Init => tables = NoTables
    BY DEF Init
  <2> QED BY <2>1, InitInvariant DEF AInv, ArraysOK, NoTables
<1>2. AInv /\ [Next]_vars => AInv'
  BY StepOfArrays, StepInvariant DEF AInv
<1>3. ASSUME AInv
      PROVE  EntriesLive
  <2>1. ArrayEntriesLive
    BY <1>3, MachineShape DEF AInv, IInv, TypeOK, ArraysOK, ArrayEntriesLive
  <2>2. MemberEntriesLive /\ DriveEntriesLive
    BY <1>3, MembersOfArrays, PathsOfDrives DEF AInv
  <2> QED BY <2>1, <2>2 DEF EntriesLive
<1> QED BY <1>1, <1>2, <1>3, PTL DEF Spec
=============================================================================
