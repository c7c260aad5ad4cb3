-------------------------- MODULE DeviceJobsProofs --------------------------
(***************************************************************************)
(* What holds of DeviceJobs for every number of threads, calls and         *)
(* cancellations and for every interface, checked by TLAPS.                *)
(***************************************************************************)
EXTENDS DeviceJobs, TLAPS

\* The call that a thread is in has a number of its own, given out before.
Numbered ==
  /\ \A t \in Threads : /\ pc[t] # "idle" => own[t] # None
                        /\ own[t] # None => own[t] > calls
  /\ \A t, u \in Threads : t # u /\ own[t] # None => own[t] # own[u]

\* Of a number not given out, and of a call that has not launched its job yet,
\* there is no job.
Unlaunched ==
  /\ \A n \in Numbers : n <= calls => stage[n] = "none"
  /\ \A t \in Threads : pc[t] \in {"asked", "started"} => stage[own[t]] = "none"
  /\ \A n \in skipped : stage[n] # "none"

\* A job is in the slot of what it watches; the ATA job has left its slot when it
\* ends, and sanitizes nothing.
SlotsMatch ==
  /\ \A w \in Works : slots[w] # None => what[slots[w]] = w
  /\ kind = "ata" => \A n \in Numbers :
       stage[n] \in {"ended", "gone"} /\ n \notin skipped => slots["test"] # n

\* A job looks at its log after it has read it, or tried to.  While the drive still does
\* what the job watches, every reading the job took shows it.
ReadingsShowIt ==
  \A j \in Numbers :
    /\ stage[j] \in {"none", "queued"} => whose[j] = "none"
    /\ stage[j] = "stored" => whose[j] # "none"
    /\ device = Doing(what[j], j) =>
         /\ stage[j] \in {"read", "closed"} => seen[j][what[j]] # "over"
         /\ whose[j] = "own" => log[what[j]] = "running"

IInv == TypeOK /\ Numbered /\ Unlaunched /\ SlotsMatch /\ SlotIsLive /\ ReadingsShowIt
-----------------------------------------------------------------------------
Stages == {"none", "queued", "polling", "read", "stored", "sleeping",
           "closing", "closed", "leaving", "ended", "gone"}
Places == {"idle", "asked", "started", "formatting", "aborted", "check",
           "waiting", "refresh", "read"}

LEMMA SameLogs ==
  ASSUME LogsOK, UNCHANGED logVars
  PROVE  LogsOK'
BY DEF LogsOK, logVars

\* The steps of which the actions are made keep the types of what they change.
LEMMA GotoType ==
  ASSUME TypeOK, NEW t \in Threads, NEW where \in Places, Goto(t, where)
  PROVE  /\ pc' \in [Threads -> Places] /\ calls' \in 0..MaxCalls
         /\ op' \in [Threads -> {"start", "abort", "sanitize", "update", "format"}]
         /\ own' \in [Threads -> Numbers \union {None}]
BY DEF TypeOK, Goto, Places

LEMMA LaunchType ==
  ASSUME TypeOK, NEW w \in Works, NEW n \in Numbers, Launch(w, n)
  PROVE  /\ slots' \in [Works -> Numbers \union {None}]
         /\ slots'[w] = n /\ \A v \in Works \ {w} : slots'[v] = slots[v]
         /\ stage' \in [Numbers -> Stages] /\ what' \in [Numbers -> Works]
         /\ stage'[n] = "queued" /\ what'[n] = w
         /\ \A m \in Numbers \ {n} : stage'[m] = stage[m] /\ what'[m] = what[m]
         /\ cancelled' \in [Numbers -> BOOLEAN] /\ skipped' \subseteq Numbers
BY DEF TypeOK, Launch, Stages

\* A thread that goes on in its call, or ends it, leaves the numbers in order.
LEMMA GotoNumbered ==
  ASSUME TypeOK, Numbered, NEW t \in Threads, NEW where \in Places, pc[t] # "idle", Goto(t, where)
  PROVE  Numbered'
BY DEF TypeOK, Numbered, Goto

LEMMA GotoUnlaunched ==
  ASSUME TypeOK, Numbered, Unlaunched, NEW t \in Threads, NEW where \in Places \ {"asked", "started"},
         Goto(t, where), UNCHANGED <<stage, skipped>>
  PROVE  Unlaunched'
BY DEF TypeOK, Unlaunched, Goto

\* ... and so does one that launches the job of its call.
LEMMA LaunchUnlaunched ==
  ASSUME TypeOK, Numbered, Unlaunched, NEW t \in Threads, NEW where \in Places \ {"asked", "started"},
         pc[t] # "idle", Goto(t, where), NEW w \in Works, Launch(w, own[t])
  PROVE  Unlaunched'
BY DEF TypeOK, Numbered, Unlaunched, Goto, Launch, Numbers

\* A job is launched under the lock that guards its slot.
LEMMA LaunchSlots ==
  ASSUME IInv, NEW w \in Works, NEW n \in Numbers, stage[n] = "none", Launch(w, n), UNCHANGED kind
  PROVE  SlotsMatch' /\ SlotIsLive'
<1>1. \A v \in Works : slots[v] # n
  BY DEF IInv, SlotIsLive, Unlaunched, Numbers, None
<1>2. SlotsMatch'
  BY <1>1 DEF IInv, TypeOK, SlotsMatch, Launch
<1>3. SlotIsLive'
  BY DEF IInv, TypeOK, SlotIsLive, Launch
<1> QED BY <1>2, <1>3

LEMMA LaunchReadings ==
  ASSUME IInv, NEW w \in Works, NEW n \in Numbers, stage[n] = "none", Launch(w, n),
         \/ UNCHANGED device
         \/ \E v \in Works : device' = Doing(v, n),
         UNCHANGED logVars
  PROVE  ReadingsShowIt'
<1> SUFFICES ASSUME NEW j \in Numbers
             PROVE  /\ stage'[j] \in {"none", "queued"} => whose'[j] = "none"
                    /\ stage'[j] = "stored" => whose'[j] # "none"
                    /\ device' = Doing(what'[j], j) =>
                         /\ stage'[j] \in {"read", "closed"} => seen'[j][what'[j]] # "over"
                         /\ whose'[j] = "own" => log'[what'[j]] = "running"
  BY DEF ReadingsShowIt
<1>1. CASE j = n
  <2>1. stage'[j] = "queued" /\ whose'[j] = "none"
    BY <1>1, LaunchType DEF IInv, ReadingsShowIt, logVars
  <2> QED BY <2>1
<1>2. CASE j # n
  <2>1. stage'[j] = stage[j] /\ what'[j] = what[j]
    BY <1>2, LaunchType DEF IInv
  <2>2. \A v, u : Doing(v, n) # Doing(u, j)
    BY <1>2 DEF Doing
  <2>3. UNCHANGED <<log, seen, whose>>
    BY DEF logVars
  <2>4. device' = Doing(what'[j], j) => device' = device
    BY <2>2
  <2> QED BY <2>1, <2>3, <2>4 DEF IInv, ReadingsShowIt
<1> QED BY <1>1, <1>2

\* What an action does not touch.
LEMMA SameSlots ==
  ASSUME SlotsMatch, SlotIsLive, UNCHANGED <<kind, slots, stage, what, skipped>>
  PROVE  SlotsMatch' /\ SlotIsLive'
BY DEF SlotsMatch, SlotIsLive

\* The drive takes to something else, for a call of which there is no job yet.
LEMMA DeviceReadings ==
  ASSUME ReadingsShowIt, UNCHANGED <<stage, what, log, seen, whose>>,
         \A j \in Numbers : device' = Doing(what[j], j) => device' = device \/ stage[j] = "none"
  PROVE  ReadingsShowIt'
BY DEF ReadingsShowIt

LEMMA SameReadings ==
  ASSUME ReadingsShowIt, UNCHANGED <<device, stage, what, log, seen, whose>>
  PROVE  ReadingsShowIt'
BY DEF ReadingsShowIt

\* A reading shows what the drive does, or nothing.
LEMMA ReadShows ==
  ASSUME LogsOK, NEW a \in Threads \union Numbers, Read(a)
  PROVE  /\ LogsOK'
         /\ \A w \in Works : device.doing = w => seen'[a][w] # "over"
         /\ \A b \in (Threads \union Numbers) \ {a} : seen'[b] = seen[b]
<1>1. PICK missed \in MayMiss :
        /\ misses' = IF missed = {} THEN misses ELSE misses - 1
        /\ seen' = [seen EXCEPT ![a] = [w \in Works |-> IF w \in missed THEN "unread" ELSE Shown(w)]]
  BY DEF Read
<1>2. misses' \in Nat
  BY <1>1 DEF MayMiss, LogsOK
<1>3. \A w \in Works : Shown(w) \in {"over", "running"} /\ (device.doing = w => Shown(w) = "running")
  BY DEF Shown
<1>4. seen' \in [Threads \union Numbers -> [Works -> {"over", "running", "unread"}]]
  BY <1>1, <1>3 DEF LogsOK
<1>5. LogsOK'
  BY <1>2, <1>4 DEF LogsOK, Read
<1>6. seen'[a] = [w \in Works |-> IF w \in missed THEN "unread" ELSE Shown(w)]
  BY <1>1 DEF LogsOK
<1>7. \A b \in (Threads \union Numbers) \ {a} : seen'[b] = seen[b]
  BY <1>1 DEF LogsOK
<1> QED BY <1>3, <1>5, <1>6, <1>7

LEMMA StoreType ==
  ASSUME TypeOK, NEW a \in Threads \union Numbers, Store(a)
  PROVE  LogsOK'
<1>1. log' \in [Works -> {"over", "running"}]
  BY DEF Store, TypeOK, LogsOK
<1>2. seen' \in [Threads \union Numbers -> [Works -> {"over", "running", "unread"}]] /\ misses' \in Nat
  BY DEF Store, TypeOK, LogsOK, Unread
<1>3. \A j \in Numbers : Owner(j, a) \in {"none", "own", "another"}
  BY DEF Owner, TypeOK, LogsOK
<1>4. whose' \in [Numbers -> {"none", "own", "another"}]
  BY <1>3 DEF Store
<1> QED BY <1>1, <1>2, <1>4 DEF LogsOK

\* What is stored is another's to every job but the one that read it.
LEMMA StoreKeeps ==
  ASSUME TypeOK, NEW a \in Threads \union Numbers, Store(a), NEW j \in Numbers
  PROVE  /\ j # a => \/ whose'[j] = whose[j] /\ log'[what[j]] = log[what[j]]
                     \/ whose'[j] = "none" /\ whose[j] = "none"
                     \/ whose'[j] = "another" /\ whose[j] # "none"
         /\ j = a => \/ whose'[j] = whose[j] /\ log'[what[j]] = log[what[j]] /\ whose[j] # "none"
                     \/ whose'[j] = "another"
                     \/ whose'[j] = "own" /\ log'[what[j]] = seen[j][what[j]]
<1>1. what[j] \in Works /\ whose'[j] = Owner(j, a)
  BY DEF Store, TypeOK, LogsOK
<1>2. log'[what[j]] = IF seen[a][what[j]] = "unread" THEN log[what[j]] ELSE seen[a][what[j]]
  BY <1>1 DEF Store
<1> QED BY <1>1, <1>2 DEF Owner

-----------------------------------------------------------------------------
(* Method calls *)

LEMMA KeepsCall ==
  ASSUME IInv, DeviceJobsAssumption, NEW t \in Threads, NEW o \in methods, Call(t, o)
  PROVE  IInv'
<1>1. TypeOK'
  BY SameLogs DEF Call, Methods, IInv, TypeOK, setup, jobVars, Kinds, Numbers
<1>2. Numbered' /\ Unlaunched'
  BY DEF Call, TypeOK, Numbered, Unlaunched, Numbers, None, IInv, jobVars
<1>3. SlotsMatch' /\ SlotIsLive'
  BY SameSlots DEF Call, IInv, setup, jobVars
<1>4. ReadingsShowIt'
  BY SameReadings DEF Call, IInv, jobVars, logVars
<1> QED BY <1>1, <1>2, <1>3, <1>4 DEF IInv

LEMMA KeepsRefuse ==
  ASSUME IInv, DeviceJobsAssumption, NEW t \in Threads, Refuse(t)
  PROVE  IInv'
<1>1. TypeOK'
  BY GotoType, SameLogs DEF Refuse, IInv, TypeOK, setup, jobVars, Places
<1>2. Numbered' /\ Unlaunched'
  BY GotoNumbered, GotoUnlaunched DEF Refuse, IInv, jobVars, Places
<1>3. SlotsMatch' /\ SlotIsLive'
  BY SameSlots DEF Refuse, IInv, setup, jobVars
<1>4. ReadingsShowIt'
  BY SameReadings DEF Refuse, IInv, jobVars, logVars
<1> QED BY <1>1, <1>2, <1>3, <1>4 DEF IInv

LEMMA KeepsFormatEnds ==
  ASSUME IInv, DeviceJobsAssumption, NEW t \in Threads, FormatEnds(t)
  PROVE  IInv'
<1>1. TypeOK'
  BY GotoType, SameLogs DEF FormatEnds, IInv, TypeOK, setup, Cancel, Places
<1>2. Numbered' /\ Unlaunched'
  BY GotoNumbered, GotoUnlaunched DEF FormatEnds, IInv, At, Places
<1>3. SlotsMatch' /\ SlotIsLive'
  BY SameSlots DEF FormatEnds, IInv, setup
<1>4. ReadingsShowIt'
  BY SameReadings DEF FormatEnds, IInv, logVars
<1> QED BY <1>1, <1>2, <1>3, <1>4 DEF IInv

LEMMA KeepsCheckSlot ==
  ASSUME IInv, DeviceJobsAssumption, NEW t \in Threads, CheckSlot(t)
  PROVE  IInv'
<1>1. TypeOK'
  BY GotoType, SameLogs DEF CheckSlot, IInv, TypeOK, setup, jobVars, Places
<1>2. Numbered' /\ Unlaunched'
  BY GotoNumbered, GotoUnlaunched DEF CheckSlot, IInv, jobVars, At, Places
<1>3. SlotsMatch' /\ SlotIsLive'
  BY SameSlots DEF CheckSlot, IInv, setup, jobVars
<1>4. ReadingsShowIt'
  BY SameReadings DEF CheckSlot, IInv, jobVars, logVars
<1> QED BY <1>1, <1>2, <1>3, <1>4 DEF IInv

LEMMA KeepsCancelWatcher ==
  ASSUME IInv, DeviceJobsAssumption, NEW t \in Threads, CancelWatcher(t)
  PROVE  IInv'
<1>1. TypeOK'
  BY GotoType, SameLogs DEF CancelWatcher, IInv, TypeOK, setup, Kinds, Cancel, Places
<1>2. Numbered' /\ Unlaunched'
  BY GotoNumbered, GotoUnlaunched DEF CancelWatcher, IInv, At, Places
<1>3. SlotsMatch' /\ SlotIsLive'
  BY SameSlots DEF CancelWatcher, IInv, setup
<1>4. ReadingsShowIt'
  BY SameReadings DEF CancelWatcher, IInv, logVars
<1> QED BY <1>1, <1>2, <1>3, <1>4 DEF IInv

LEMMA KeepsRefresh ==
  ASSUME IInv, DeviceJobsAssumption, NEW t \in Threads, Refresh(t)
  PROVE  IInv'
<1>1. TypeOK'
  BY GotoType, ReadShows DEF Refresh, IInv, TypeOK, setup, jobVars, Places
<1>2. Numbered' /\ Unlaunched'
  BY GotoNumbered, GotoUnlaunched DEF Refresh, IInv, jobVars, At, Places
<1>3. SlotsMatch' /\ SlotIsLive'
  BY SameSlots DEF Refresh, IInv, setup, jobVars
<1>4. ReadingsShowIt'
  <2>1. UNCHANGED <<device, stage, what, log, whose>>
    BY DEF Refresh, Read, jobVars
  <2>2. \A j \in Numbers : seen'[j] = seen[j]
    BY ReadShows, DeviceJobsAssumption DEF Refresh, IInv, TypeOK, Numbers
  <2> QED BY <2>1, <2>2 DEF IInv, ReadingsShowIt
<1> QED BY <1>1, <1>2, <1>3, <1>4 DEF IInv

LEMMA KeepsUpdate ==
  ASSUME IInv, DeviceJobsAssumption, NEW t \in Threads, Update(t)
  PROVE  IInv'
<1>1. TypeOK'
  BY GotoType, StoreType DEF Update, IInv, TypeOK, setup, jobVars, Places
<1>2. Numbered' /\ Unlaunched'
  BY GotoNumbered, GotoUnlaunched DEF Update, IInv, jobVars, At, Places
<1>3. SlotsMatch' /\ SlotIsLive'
  BY SameSlots DEF Update, IInv, setup, jobVars
<1>4. ReadingsShowIt'
  <2>1. UNCHANGED <<device, stage, what>> /\ Store(t)
    BY DEF Update, jobVars
  <2>2. \A j \in Numbers : seen'[j] = seen[j] /\ j # t
    BY <2>1, DeviceJobsAssumption DEF Store, IInv, TypeOK, LogsOK, Numbers
  <2> QED BY <2>1, <2>2, StoreKeeps DEF IInv, ReadingsShowIt
<1> QED BY <1>1, <1>2, <1>3, <1>4 DEF IInv

LEMMA KeepsAbortTest ==
  ASSUME IInv, DeviceJobsAssumption, NEW t \in Threads, AbortTest(t)
  PROVE  IInv'
<1>1. TypeOK'
  BY GotoType, SameLogs DEF AbortTest, IInv, TypeOK, setup, jobVars, Doings, Nothing, Places
<1>2. Numbered' /\ Unlaunched'
  BY GotoNumbered, GotoUnlaunched DEF AbortTest, IInv, jobVars, At, Places
<1>3. SlotsMatch' /\ SlotIsLive'
  BY SameSlots DEF AbortTest, IInv, setup, jobVars
<1>4. ReadingsShowIt'
  <2>1. \A j \in Numbers : Nothing # Doing(what[j], j)
    BY DEF Nothing, Doing, Numbers, None
  <2> QED BY <2>1, DeviceReadings DEF AbortTest, IInv, jobVars, logVars
<1> QED BY <1>1, <1>2, <1>3, <1>4 DEF IInv

LEMMA KeepsStartTest ==
  ASSUME IInv, DeviceJobsAssumption, NEW t \in Threads, StartTest(t)
  PROVE  IInv'
<1>1. TypeOK'
  BY GotoType, SameLogs DEF StartTest, IInv, TypeOK, setup, jobVars, Works, Doings, Doing,
     Places
<1>2. Numbered' /\ Unlaunched'
  BY DEF StartTest, Goto, At, IInv, Unlaunched, Numbered, jobVars
<1>3. SlotsMatch' /\ SlotIsLive'
  BY SameSlots DEF StartTest, IInv, setup, jobVars
<1>4. ReadingsShowIt'
  <2>1. \A j \in Numbers : device' = Doing(what[j], j) => stage[j] = "none"
    BY DEF StartTest, Unlaunched, Doing, At, IInv
  <2> QED BY <2>1, DeviceReadings DEF StartTest, IInv, jobVars, logVars
<1> QED BY <1>1, <1>2, <1>3, <1>4 DEF IInv

LEMMA KeepsLaunchIfNone ==
  ASSUME IInv, DeviceJobsAssumption, NEW t \in Threads, LaunchIfNone(t)
  PROVE  IInv'
<1>1. own[t] \in Numbers /\ stage[own[t]] = "none"
  BY DEF LaunchIfNone, At, IInv, TypeOK, Numbered, Unlaunched
<1>2. TypeOK'
  BY <1>1, GotoType, LaunchType, SameLogs DEF LaunchIfNone, IInv, TypeOK, Places, setup,
     Works, jobVars
<1>3. Numbered'
  BY GotoNumbered DEF LaunchIfNone, IInv, At, Places
<1>4. Unlaunched'
  BY GotoUnlaunched, LaunchUnlaunched DEF LaunchIfNone, Works, IInv, jobVars, At, Places
<1>5. SlotsMatch' /\ SlotIsLive'
  BY <1>1, SameSlots, LaunchSlots DEF LaunchIfNone, Works, IInv, setup, jobVars
<1>6. ReadingsShowIt'
  BY <1>1, SameReadings, LaunchReadings DEF LaunchIfNone, Works, IInv, jobVars, logVars
<1> QED BY <1>2, <1>3, <1>4, <1>5, <1>6 DEF IInv

LEMMA KeepsStartAndLaunch ==
  ASSUME IInv, DeviceJobsAssumption, NEW t \in Threads, StartAndLaunch(t)
  PROVE  IInv'
<1>1. own[t] \in Numbers /\ stage[own[t]] = "none"
  BY DEF StartAndLaunch, At, IInv, TypeOK, Numbered, Unlaunched
<1>2. TypeOK'
  BY <1>1, GotoType, LaunchType, SameLogs DEF StartAndLaunch, IInv, TypeOK, Places, setup,
     Doings, Works, Doing
<1>3. Numbered'
  BY GotoNumbered DEF StartAndLaunch, IInv, At, Places
<1>4. Unlaunched'
  BY LaunchUnlaunched DEF StartAndLaunch, Works, IInv, At, Places
<1>5. SlotsMatch' /\ SlotIsLive'
  BY <1>1, LaunchSlots DEF StartAndLaunch, Works, setup
<1>6. ReadingsShowIt'
  BY <1>1, LaunchReadings DEF StartAndLaunch, Works
<1> QED BY <1>2, <1>3, <1>4, <1>5, <1>6 DEF IInv

LEMMA KeepsSanitize ==
  ASSUME IInv, DeviceJobsAssumption, NEW t \in Threads, Sanitize(t)
  PROVE  IInv'
<1>1. own[t] \in Numbers /\ stage[own[t]] = "none"
  BY DEF Sanitize, At, IInv, TypeOK, Numbered, Unlaunched
<1>2. TypeOK'
  BY <1>1, GotoType, LaunchType, SameLogs DEF Sanitize, IInv, TypeOK, Places, setup, Doings,
     Works, Doing
<1>3. Numbered'
  BY GotoNumbered DEF Sanitize, IInv, At, Places
<1>4. Unlaunched'
  BY LaunchUnlaunched DEF Sanitize, Works, IInv, At, Places
<1>5. SlotsMatch' /\ SlotIsLive'
  BY <1>1, LaunchSlots DEF Sanitize, Works, setup
<1>6. ReadingsShowIt'
  BY <1>1, LaunchReadings DEF Sanitize, Works
<1> QED BY <1>2, <1>3, <1>4, <1>5, <1>6 DEF IInv

LEMMA KeepsStartFormat ==
  ASSUME IInv, DeviceJobsAssumption, NEW t \in Threads, StartFormat(t)
  PROVE  IInv'
<1>1. own[t] \in Numbers /\ stage[own[t]] = "none"
  BY DEF StartFormat, At, IInv, TypeOK, Numbered, Unlaunched
<1>2. TypeOK'
  BY <1>1, GotoType, LaunchType, SameLogs DEF StartFormat, IInv, TypeOK, Places, setup, Works,
     jobVars
<1>3. Numbered'
  BY GotoNumbered DEF StartFormat, IInv, At, Places
<1>4. Unlaunched'
  BY GotoUnlaunched, LaunchUnlaunched DEF StartFormat, Works, IInv, jobVars, At, Places
<1>5. SlotsMatch' /\ SlotIsLive'
  BY <1>1, SameSlots, LaunchSlots DEF StartFormat, Works, IInv, setup, jobVars
<1>6. ReadingsShowIt'
  BY <1>1, SameReadings, LaunchReadings DEF StartFormat, Works, IInv, jobVars, logVars
<1> QED BY <1>2, <1>3, <1>4, <1>5, <1>6 DEF IInv

-----------------------------------------------------------------------------
(* Jobs *)

\* Every step of a job but Job.Cancel moves it on.
Moves(j) ==
  /\ stage[j] \notin {"none", "gone"} /\ stage'[j] # "none"
  /\ stage' \in [Numbers -> Stages]
  /\ \A m \in Numbers \ {j} : stage'[m] = stage[m]

LEMMA StageMoves ==
  ASSUME TypeOK, NEW j \in Numbers, NEW from \in Stages \ {"none", "gone"}, NEW to \in Stages \ {"none"},
         Stage(j, from, to)
  PROVE  Moves(j) /\ stage[j] = from /\ stage'[j] = to /\ UNCHANGED <<what, cancelled, skipped>>
BY DEF TypeOK, Stage, Stages, Moves

LEMMA MovesNumbered ==
  ASSUME IInv, NEW j \in Numbers, Moves(j), skipped' \subseteq skipped \union {j}, UNCHANGED <<calls, own>>,
         \A t \in Threads : pc'[t] = pc[t] \/ (pc[t] = "waiting" /\ pc'[t] = "check")
  PROVE  Numbered' /\ Unlaunched'
BY DEF IInv, TypeOK, Numbered, Unlaunched, Moves

LEMMA MovesSlots ==
  ASSUME IInv, NEW j \in Numbers, Moves(j), stage'[j] \notin {"ended", "gone"},
         UNCHANGED <<kind, slots, what, skipped>>
  PROVE  SlotsMatch' /\ SlotIsLive'
BY DEF IInv, TypeOK, SlotsMatch, SlotIsLive, Moves

LEMMA KeepsBegin ==
  ASSUME IInv, DeviceJobsAssumption, NEW j \in Numbers, Begin(j)
  PROVE  IInv'
<1>1. Moves(j) /\ skipped' \subseteq skipped \union {j}
  BY DEF Begin, Stages, Moves, IInv, TypeOK
<1>2. UNCHANGED <<calls, own>> /\ \A t \in Threads : pc'[t] = pc[t] \/ (pc[t] = "waiting" /\ pc'[t] = "check")
  BY DEF Begin, callVars
<1>3. Numbered' /\ Unlaunched'
  BY <1>1, <1>2, MovesNumbered
<1>4. TypeOK'
  BY SameLogs DEF Begin, IInv, TypeOK, setup, callVars
<1>5. SlotsMatch' /\ SlotIsLive'
  BY DEF Begin, IInv, SlotsMatch, SlotIsLive, setup
<1>6. ReadingsShowIt'
  BY DEF Begin, IInv, ReadingsShowIt, logVars
<1> QED BY <1>3, <1>4, <1>5, <1>6 DEF IInv

LEMMA JobReads ==
  ASSUME IInv, NEW j \in Numbers, Moves(j), stage[j] # "queued",
         stage'[j] \in {"read", "closed"}, Read(j), UNCHANGED <<device, what>>
  PROVE  ReadingsShowIt'
<1>1. /\ \A i \in Numbers \ {j} : seen'[i] = seen[i] /\ stage'[i] = stage[i]
      /\ \A w \in Works : device.doing = w => seen'[j][w] # "over"
  BY ReadShows DEF IInv, TypeOK, Moves
<1>2. UNCHANGED <<log, whose>>
  BY DEF Read
<1>3. device = Doing(what[j], j) => device.doing = what[j] /\ what[j] \in Works
  BY DEF Doing, IInv, TypeOK
<1> QED BY <1>1, <1>2, <1>3 DEF IInv, ReadingsShowIt

LEMMA KeepsPoll ==
  ASSUME IInv, DeviceJobsAssumption, NEW j \in Numbers, Poll(j)
  PROVE  IInv'
<1>1. Moves(j) /\ skipped' \subseteq skipped \union {j}
  BY StageMoves DEF Poll, Stages, IInv
<1>2. UNCHANGED <<calls, own>> /\ \A t \in Threads : pc'[t] = pc[t] \/ (pc[t] = "waiting" /\ pc'[t] = "check")
  BY DEF Poll, callVars
<1>3. Numbered' /\ Unlaunched'
  BY <1>1, <1>2, MovesNumbered
<1>4. TypeOK'
  BY ReadShows DEF Poll, Stage, IInv, TypeOK, setup, callVars
<1>5. SlotsMatch' /\ SlotIsLive'
  BY <1>1, MovesSlots DEF Poll, Stage, setup, Moves
<1>6. ReadingsShowIt'
  <2>1. stage[j] # "queued" /\ stage'[j] \in {"read", "closed"} /\ Read(j)
    BY <1>1 DEF Poll, Stage, Moves
  <2>2. UNCHANGED <<device, what>>
    BY DEF Poll, Stage
  <2> QED BY <1>1, <2>1, <2>2, JobReads
<1> QED BY <1>3, <1>4, <1>5, <1>6 DEF IInv

LEMMA KeepsStoreReading ==
  ASSUME IInv, DeviceJobsAssumption, NEW j \in Numbers, StoreReading(j)
  PROVE  IInv'
<1>1. Moves(j) /\ skipped' \subseteq skipped \union {j}
  BY StageMoves DEF StoreReading, Stages, IInv
<1>2. UNCHANGED <<calls, own>> /\ \A t \in Threads : pc'[t] = pc[t] \/ (pc[t] = "waiting" /\ pc'[t] = "check")
  BY DEF StoreReading, callVars
<1>3. Numbered' /\ Unlaunched'
  BY <1>1, <1>2, MovesNumbered
<1>4. TypeOK'
  BY StoreType DEF StoreReading, Stage, IInv, TypeOK, setup, callVars
<1>5. SlotsMatch' /\ SlotIsLive'
  BY <1>1, MovesSlots DEF StoreReading, Stage, setup, Moves
<1>6. ReadingsShowIt'
  <2>1. /\ stage[j] \in {"read", "closed"} /\ stage'[j] \in {"stored", "leaving"}
        /\ UNCHANGED <<device, what>> /\ Store(j)
    BY <1>1 DEF StoreReading, Stage, Moves
  <2>2. \A i \in Numbers \ {j} : seen'[i] = seen[i] /\ stage'[i] = stage[i]
    BY <1>1, <2>1 DEF Store, IInv, TypeOK, LogsOK, Moves
  <2>3. TypeOK /\ ReadingsShowIt
    BY DEF IInv
  <2>4. device = Doing(what[j], j) => seen[j][what[j]] # "over"
    BY <2>1, <2>3 DEF ReadingsShowIt
  <2>5. whose'[j] = "own" /\ log'[what[j]] = seen[j][what[j]] => log'[what[j]] \in {"over", "running"}
    BY <2>3, StoreType, <2>1 DEF TypeOK, LogsOK
  <2>6. ASSUME NEW i \in Numbers \ {j}
        PROVE  \/ whose'[i] = whose[i] /\ log'[what[i]] = log[what[i]]
               \/ whose'[i] = "none" /\ whose[i] = "none"
               \/ whose'[i] = "another" /\ whose[i] # "none"
    BY <2>1, <2>3, StoreKeeps
  <2>7. \/ whose'[j] = whose[j] /\ log'[what[j]] = log[what[j]] /\ whose[j] # "none"
        \/ whose'[j] = "another"
        \/ whose'[j] = "own" /\ log'[what[j]] = seen[j][what[j]]
    BY <2>1, <2>3, StoreKeeps
  <2> QED BY <2>1, <2>2, <2>3, <2>4, <2>5, <2>6, <2>7 DEF ReadingsShowIt
<1> QED BY <1>3, <1>4, <1>5, <1>6 DEF IInv

LEMMA KeepsLook ==
  ASSUME IInv, DeviceJobsAssumption, NEW j \in Numbers, Look(j)
  PROVE  IInv'
<1>1. Moves(j) /\ skipped' \subseteq skipped \union {j}
  BY StageMoves DEF Look, Stages, IInv
<1>2. UNCHANGED <<calls, own>> /\ \A t \in Threads : pc'[t] = pc[t] \/ (pc[t] = "waiting" /\ pc'[t] = "check")
  BY DEF Look, callVars
<1>3. Numbered' /\ Unlaunched'
  BY <1>1, <1>2, MovesNumbered
<1>4. TypeOK'
  BY SameLogs DEF Look, Stage, IInv, TypeOK, setup, callVars
<1>5. SlotsMatch' /\ SlotIsLive'
  BY <1>1, MovesSlots DEF Look, Stage, setup, Moves
<1>6. ReadingsShowIt'
  BY <1>1 DEF Look, Stage, IInv, ReadingsShowIt, logVars, Moves
<1> QED BY <1>3, <1>4, <1>5, <1>6 DEF IInv

LEMMA KeepsPollFails ==
  ASSUME IInv, DeviceJobsAssumption, NEW j \in Numbers, PollFails(j)
  PROVE  IInv'
<1>1. Moves(j) /\ skipped' \subseteq skipped \union {j}
  BY StageMoves DEF PollFails, Stages, IInv
<1>2. UNCHANGED <<calls, own>> /\ \A t \in Threads : pc'[t] = pc[t] \/ (pc[t] = "waiting" /\ pc'[t] = "check")
  BY DEF PollFails, callVars
<1>3. Numbered' /\ Unlaunched'
  BY <1>1, <1>2, MovesNumbered
<1>4. TypeOK'
  BY ReadShows, SameLogs DEF PollFails, Stage, IInv, TypeOK, setup, callVars, Read
<1>5. SlotsMatch' /\ SlotIsLive'
  BY <1>1, MovesSlots DEF PollFails, Stage, setup, Moves
<1>6. ReadingsShowIt'
  <2>1. UNCHANGED <<device, what>>
    BY DEF PollFails, Stage
  <2>2. CASE stage[j] = "polling" /\ stage'[j] = "closed" /\ Read(j)
    BY <1>1, <2>1, <2>2, JobReads
  <2>3. CASE stage'[j] = "leaving" /\ UNCHANGED logVars
    <3>1. UNCHANGED <<log, seen, whose>>
      BY <2>3 DEF logVars
    <3> QED BY <1>1, <2>1, <2>3, <3>1 DEF IInv, ReadingsShowIt, Moves
  <2> QED BY <1>1, <2>2, <2>3 DEF PollFails, Stage, Moves
<1> QED BY <1>3, <1>4, <1>5, <1>6 DEF IInv

LEMMA KeepsFormatPoll ==
  ASSUME IInv, DeviceJobsAssumption, NEW j \in Numbers, FormatPoll(j)
  PROVE  IInv'
<1>1. Moves(j) /\ skipped' \subseteq skipped \union {j}
  BY StageMoves DEF FormatPoll, Stages, IInv
<1>2. UNCHANGED <<calls, own>> /\ \A t \in Threads : pc'[t] = pc[t] \/ (pc[t] = "waiting" /\ pc'[t] = "check")
  BY DEF FormatPoll, callVars
<1>3. Numbered' /\ Unlaunched'
  BY <1>1, <1>2, MovesNumbered
<1>4. TypeOK'
  BY SameLogs DEF FormatPoll, Stage, IInv, TypeOK, setup, callVars
<1>5. SlotsMatch' /\ SlotIsLive'
  BY <1>1, MovesSlots DEF FormatPoll, Stage, setup, Moves
<1>6. ReadingsShowIt'
  BY <1>1 DEF FormatPoll, Stage, IInv, ReadingsShowIt, logVars, Moves
<1> QED BY <1>3, <1>4, <1>5, <1>6 DEF IInv

LEMMA KeepsWake ==
  ASSUME IInv, DeviceJobsAssumption, NEW j \in Numbers, Wake(j)
  PROVE  IInv'
<1>1. Moves(j) /\ skipped' \subseteq skipped \union {j}
  BY StageMoves DEF Wake, Stages, IInv
<1>2. UNCHANGED <<calls, own>> /\ \A t \in Threads : pc'[t] = pc[t] \/ (pc[t] = "waiting" /\ pc'[t] = "check")
  BY DEF Wake, callVars
<1>3. Numbered' /\ Unlaunched'
  BY <1>1, <1>2, MovesNumbered
<1>4. TypeOK'
  BY SameLogs DEF Wake, Stage, IInv, TypeOK, setup, callVars, Doings, Nothing
<1>5. SlotsMatch' /\ SlotIsLive'
  BY <1>1, MovesSlots DEF Wake, Stage, setup, Moves
<1>6. ReadingsShowIt'
  BY <1>1 DEF Wake, Stage, IInv, ReadingsShowIt, Numbers, None, Nothing, Doing, logVars, Moves
<1> QED BY <1>3, <1>4, <1>5, <1>6 DEF IInv

LEMMA KeepsLeave ==
  ASSUME IInv, DeviceJobsAssumption, NEW j \in Numbers, Leave(j)
  PROVE  IInv'
<1>1. Moves(j) /\ skipped' \subseteq skipped \union {j}
  BY StageMoves DEF Leave, Stages, IInv
<1>2. UNCHANGED <<calls, own>> /\ \A t \in Threads : pc'[t] = pc[t] \/ (pc[t] = "waiting" /\ pc'[t] = "check")
  BY DEF Leave, callVars
<1>3. Numbered' /\ Unlaunched'
  BY <1>1, <1>2, MovesNumbered
<1>4. TypeOK'
  <2>1. LogsOK'
    BY DEF Leave, IInv, TypeOK, LogsOK
  <2> QED BY <2>1 DEF Leave, Stage, IInv, TypeOK, setup, callVars, Works
<1>5. SlotsMatch' /\ SlotIsLive'
  BY DEF Leave, Stage, IInv, TypeOK, SlotsMatch, SlotIsLive, Works, Numbers, None, setup
<1>6. ReadingsShowIt'
  BY <1>1 DEF Leave, Stage, IInv, TypeOK, ReadingsShowIt, Moves
<1> QED BY <1>3, <1>4, <1>5, <1>6 DEF IInv

LEMMA KeepsComplete ==
  ASSUME IInv, DeviceJobsAssumption, NEW j \in Numbers, Complete(j)
  PROVE  IInv'
<1>1. Moves(j) /\ skipped' \subseteq skipped \union {j}
  BY DEF Complete, Stages, Moves, IInv, TypeOK
<1>2. UNCHANGED <<calls, own>> /\ \A t \in Threads : pc'[t] = pc[t] \/ (pc[t] = "waiting" /\ pc'[t] = "check")
  BY DEF Complete, callVars, Signal, Goto, At, TypeOK, IInv
<1>3. Numbered' /\ Unlaunched'
  BY <1>1, <1>2, MovesNumbered
<1>4. TypeOK'
  BY GotoType, SameLogs DEF Complete, Signal, IInv, TypeOK, setup, callVars, Works, Places
<1>5. SlotsMatch' /\ SlotIsLive'
  BY DEF Complete, IInv, TypeOK, SlotsMatch, SlotIsLive, Works, setup
<1>6. ReadingsShowIt'
  BY DEF Complete, IInv, ReadingsShowIt, logVars
<1> QED BY <1>3, <1>4, <1>5, <1>6 DEF IInv

LEMMA KeepsClientCancel ==
  ASSUME IInv, DeviceJobsAssumption, NEW j \in Numbers, ClientCancel(j)
  PROVE  IInv'
<1>1. TypeOK'
  BY SameLogs DEF ClientCancel, IInv, TypeOK, setup, callVars, Cancel
<1>2. Numbered' /\ Unlaunched'
  BY DEF ClientCancel, callVars, Numbered, Unlaunched, IInv
<1>3. SlotsMatch' /\ SlotIsLive'
  BY SameSlots DEF ClientCancel, setup, IInv
<1>4. ReadingsShowIt'
  BY SameReadings DEF ClientCancel, logVars, IInv
<1> QED BY <1>1, <1>2, <1>3, <1>4 DEF IInv

LEMMA KeepsDeviceEnds ==
  ASSUME IInv, DeviceJobsAssumption, DeviceEnds
  PROVE  IInv'
<1>1. TypeOK'
  BY SameLogs DEF DeviceEnds, IInv, TypeOK, setup, callVars, jobVars, Doings, Nothing
<1>2. Numbered' /\ Unlaunched'
  BY DEF DeviceEnds, Numbered, Unlaunched, IInv, callVars, jobVars
<1>3. SlotsMatch' /\ SlotIsLive'
  BY SameSlots DEF DeviceEnds, IInv, setup, jobVars
<1>4. ReadingsShowIt'
  <2>1. \A j \in Numbers : Nothing # Doing(what[j], j)
    BY DEF Nothing, Doing, Numbers, None
  <2> QED BY <2>1, DeviceReadings DEF DeviceEnds, IInv, jobVars, logVars
<1> QED BY <1>1, <1>2, <1>3, <1>4 DEF IInv

-----------------------------------------------------------------------------
(* Every state *)

LEMMA InitIInv ==
  ASSUME DeviceJobsAssumption, Init
  PROVE  IInv
<1>1. TypeOK
  <2>1. LogsOK
    BY DEF Init, LogsOK, Unread, DeviceJobsAssumption
  <2> QED BY <2>1 DEF Init, TypeOK, Nothing, Doings, Works
<1>2. Numbered /\ Unlaunched
  BY DEF Init, Numbered, Unlaunched
<1>3. SlotsMatch /\ SlotIsLive
  BY DEF Init, SlotsMatch, SlotIsLive
<1>4. ReadingsShowIt
  BY DEF Init, ReadingsShowIt
<1> QED BY <1>1, <1>2, <1>3, <1>4 DEF IInv

LEMMA StutterIInv ==
  ASSUME IInv, UNCHANGED vars
  PROVE  IInv'
<1>1. TypeOK'
  BY SameLogs DEF IInv, TypeOK, vars, setup, jobVars, callVars
<1>2. Numbered' /\ Unlaunched'
  BY DEF IInv, Numbered, Unlaunched, vars, jobVars, callVars
<1>3. SlotsMatch' /\ SlotIsLive' /\ ReadingsShowIt'
  BY SameSlots, SameReadings DEF IInv, vars, setup, jobVars, logVars
<1> QED BY <1>1, <1>2, <1>3 DEF IInv

LEMMA ProceedIInv ==
  ASSUME IInv, DeviceJobsAssumption, NEW t \in Threads, Proceed(t)
  PROVE  IInv'
BY KeepsRefuse, KeepsStartTest, KeepsLaunchIfNone, KeepsStartAndLaunch, KeepsSanitize,
   KeepsStartFormat, KeepsFormatEnds, KeepsAbortTest, KeepsCancelWatcher, KeepsCheckSlot,
   KeepsRefresh, KeepsUpdate DEF Proceed

LEMMA JobStepIInv ==
  ASSUME IInv, DeviceJobsAssumption, NEW j \in Numbers, JobStep(j)
  PROVE  IInv'
BY KeepsBegin, KeepsPoll, KeepsStoreReading, KeepsLook, KeepsPollFails, KeepsFormatPoll, KeepsWake,
   KeepsLeave, KeepsComplete DEF JobStep

LEMMA NextIInv ==
  ASSUME IInv, DeviceJobsAssumption, [Next]_vars
  PROVE  IInv'
BY StutterIInv, ProceedIInv, KeepsCall, JobStepIInv, KeepsClientCancel, KeepsDeviceEnds DEF Next

\* The invariant with which the others are proved: calls and jobs have numbers of
\* their own, a job is in the slot of what it watches, and what a job has read
\* shows what the drive does.
THEOREM Invariance == Spec => []IInv
<1>1. Init => IInv
  BY InitIInv, DeviceJobsAssumption
<1>2. IInv /\ [Next]_vars => IInv'
  BY NextIInv, DeviceJobsAssumption
<1> QED BY <1>1, <1>2, PTL DEF Spec

\* The state of the drive, its log, the calls and the jobs keep to their types.
THEOREM TypeCorrect == Spec => []TypeOK
<1>1. IInv => TypeOK
  BY DEF IInv
<1> QED BY <1>1, Invariance, PTL

\* selftest_job, format_job and sanitize_job are dereferenced by the handlers that
\* stop a job: what they point to is a job that is not freed yet, but for an ATA job
\* cancelled before its function began.
THEOREM SlotsLive == Spec => []SlotIsLive
<1>1. IInv => SlotIsLive
  BY DEF IInv
<1> QED BY <1>1, Invariance, PTL

\* A polling job that ends because its operation is over (still_in_progress is
\* FALSE) is right, unless it goes by another's reading: one that another thread
\* stored over the job's own, or what was in place when the job's own reading of
\* an NVMe log failed (refresh_smart_sync returns TRUE all the same).
THEOREM WatchesToTheEnd == Spec => WatchedToTheEnd
<1> DEFINE Over == \A j \in Numbers :
      stage[j] = "stored" /\ stage'[j] = "leaving" /\ whose[j] # "another"
        => device # Doing(what[j], j)
<1>1. IInv /\ [Next]_vars => [Over]_vars
  <2> SUFFICES ASSUME IInv, [Next]_vars, NEW j \in Numbers,
                      stage[j] = "stored", stage'[j] = "leaving", whose[j] # "another"
               PROVE  log[what[j]] # "running"
    BY DEF IInv, TypeOK, LogsOK, ReadingsShowIt
  <2>1. stage' # stage /\ stage'[j] # "queued"
    OBVIOUS
  <2>2. ASSUME NEW t \in Threads, Proceed(t)
        PROVE  FALSE
    BY <2>2 DEF Proceed, Refuse, StartTest, LaunchIfNone, StartAndLaunch, Sanitize, StartFormat,
       FormatEnds, AbortTest, CancelWatcher, CheckSlot, Refresh, Update, Launch, jobVars, IInv,
       TypeOK
  <2>3. ASSUME NEW t \in Threads, NEW o \in methods, Call(t, o)
        PROVE  FALSE
    BY <2>3 DEF Call, jobVars
  <2>4. ASSUME NEW i \in Numbers, JobStep(i)
        PROVE  log[what[j]] # "running"
    <3>1. CASE Look(i)
      BY <3>1 DEF Look, Stage, IInv, TypeOK
    <3>2. CASE ~Look(i)
      BY <2>4, <3>2 DEF JobStep, Begin, Poll, StoreReading, PollFails, FormatPoll, Wake, Leave,
         Complete, Stage, IInv, TypeOK
    <3> QED BY <3>1, <3>2
  <2>5. ASSUME NEW i \in Numbers, ClientCancel(i)
        PROVE  FALSE
    BY <2>5 DEF ClientCancel
  <2>6. ASSUME DeviceEnds
        PROVE  FALSE
    BY <2>6 DEF DeviceEnds, jobVars
  <2> QED BY <2>2, <2>3, <2>4, <2>5, <2>6 DEF Next, vars, jobVars
<1> QED BY <1>1, Invariance, PTL DEF Spec, WatchedToTheEnd
=============================================================================
