----------------------------- MODULE DeviceJobs -----------------------------
(***************************************************************************)
(* The jobs that follow what a drive does by itself: the self-test of an   *)
(* ATA drive, the self-test and the sanitize operation of an NVMe          *)
(* controller, the formatting of an NVMe namespace.  The daemon starts the *)
(* operation and a threaded job that polls the drive until it is over; the *)
(* drive's interface keeps the job in a slot, by which the calls exclude   *)
(* each other, and the handlers that stop a job wait for the slot to be    *)
(* empty.                                                                  *)
(*                                                                         *)
(* A call, the operation it starts and the job that follows it have one    *)
(* number.  The lock of the interface is held within single actions.       *)
(***************************************************************************)
EXTENDS Integers, FiniteSets

CONSTANTS Threads,    \* threads of the method-call pool
          MaxCalls,
          Budgets     \* interfaces, with the methods that are called, the number of calls,
                      \* how often a client cancels a job and how often a reading of
                      \* NVMe logs fails in part

Kinds == {"ata", "nvme", "format"}
Methods == [ata |-> {"start", "abort", "update"}, nvme |-> {"start", "abort", "sanitize", "update"},
            format |-> {"format"}]

ASSUME DeviceJobsAssumption ==
  /\ MaxCalls \in Nat /\ Threads \cap (1..MaxCalls) = {}
  /\ \A b \in Budgets :
       /\ b.kind \in Kinds /\ b.methods \subseteq Methods[b.kind]
       /\ b.calls \in 0..MaxCalls /\ b.cancels \in Nat /\ b.misses \in Nat

VARIABLES
  kind, methods,
  device,     \* what the drive does, and the call that made it
  log,        \* the logs that the interface keeps: whether the drive was at a work
              \* when the log about that work was read
  slots,      \* selftest_job (or format_job) and sanitize_job
  stage, what, cancelled,  \* of each job
  calls, cancels,          \* those still to be made
  pc, op, own,             \* of each thread: where it is, its method, its number
  seen,       \* what a thread or a job has read and not yet put into the logs
  misses,     \* partial readings still to come
  skipped,    \* jobs that were cancelled before their function began
  whose       \* whose reading a job finds in its log: none yet, its own or another's

jobVars == <<stage, what, cancelled, skipped>>
logVars == <<log, seen, misses, whose>>
callVars == <<calls, pc, op, own>>
setup == <<kind, methods>>
vars == <<setup, device, slots, cancels, jobVars, logVars, callVars>>

Numbers == 1..MaxCalls
None == 0
Works == {"test", "sanitize"}
Nothing == [doing |-> "nothing", for |-> None]
Doing(w, n) == [doing |-> w, for |-> n]
Doings == Works \union {"nothing"}
Unread == [w \in Works |-> "unread"]

LogsOK ==
  /\ log \in [Works -> {"over", "running"}]
  /\ seen \in [Threads \union Numbers -> [Works -> {"over", "running", "unread"}]]
  /\ misses \in Nat /\ whose \in [Numbers -> {"none", "own", "another"}]

TypeOK ==
  /\ LogsOK
  /\ kind \in Kinds /\ methods \subseteq Methods[kind]
  /\ device \in [doing : Doings, for : Numbers \union {None}]
  /\ slots \in [Works -> Numbers \union {None}] /\ (kind # "nvme" => slots["sanitize"] = None)
  /\ stage \in [Numbers -> {"none", "queued", "polling", "read", "stored", "sleeping",
                            "closing", "closed", "leaving", "ended", "gone"}]
  /\ what \in [Numbers -> Works] /\ cancelled \in [Numbers -> BOOLEAN]
  /\ calls \in 0..MaxCalls /\ cancels \in Nat
  /\ pc \in [Threads -> {"idle", "asked", "started", "formatting", "aborted", "check",
                         "waiting", "refresh", "read"}]
  /\ op \in [Threads -> {"start", "abort", "sanitize", "update", "format"}]
  /\ own \in [Threads -> Numbers \union {None}]
  /\ skipped \subseteq Numbers

Init ==
  /\ \E b \in Budgets :
       /\ kind = b.kind /\ methods = b.methods
       /\ calls = b.calls /\ cancels = b.cancels /\ misses = b.misses
  /\ device = Nothing /\ log = [w \in Works |-> "over"] /\ slots = [w \in Works |-> None]
  /\ stage = [n \in Numbers |-> "none"] /\ what = [n \in Numbers |-> "test"]
  /\ cancelled = [n \in Numbers |-> FALSE]
  /\ pc = [t \in Threads |-> "idle"] /\ op = [t \in Threads |-> "update"] /\ own = [t \in Threads |-> None]
  /\ seen = [a \in Threads \union Numbers |-> Unread]
  /\ skipped = {} /\ whose = [n \in Numbers |-> "none"]

-----------------------------------------------------------------------------
(* The logs: read from the drive without a lock, stored under it *)

\* ATA has one log.  Of the NVMe logs the one about the health decides whether the
\* refresh succeeds; that the self-test or the sanitize log cannot be read (their
\* GError is NULL) nobody is told.
MayMiss == IF kind = "nvme" /\ misses > 0 THEN SUBSET Works ELSE {{}}

Shown(w) == IF device.doing = w THEN "running" ELSE "over"

Read(a) ==
  /\ \E missed \in MayMiss :
       /\ misses' = IF missed = {} THEN misses ELSE misses - 1
       /\ seen' = [seen EXCEPT ![a] = [w \in Works |-> IF w \in missed THEN "unread" ELSE Shown(w)]]
  /\ UNCHANGED <<log, whose>>

\* A log that was not read stays.  To the job j it is another's, if j has not read it.
Owner(j, a) ==
  IF seen[a][what[j]] = "unread"
  THEN IF j = a /\ whose[j] = "none" THEN "another" ELSE whose[j]
  ELSE IF j = a THEN "own" ELSE IF whose[j] = "none" THEN "none" ELSE "another"

Store(a) ==
  /\ log' = [w \in Works |-> IF seen[a][w] = "unread" THEN log[w] ELSE seen[a][w]]
  /\ whose' = [j \in Numbers |-> Owner(j, a)]
  /\ seen' = [seen EXCEPT ![a] = Unread]
  /\ UNCHANGED misses

-----------------------------------------------------------------------------
(* Method calls *)

At(t, where) == pc[t] = where
Goto(t, where) ==
  /\ pc' = [pc EXCEPT ![t] = where]
  /\ IF where = "idle"
     THEN op' = [op EXCEPT ![t] = "update"] /\ own' = [own EXCEPT ![t] = None]
     ELSE UNCHANGED <<op, own>>
  /\ UNCHANGED calls

\* `There is already ... running': a job in a slot keeps the call out.
Admits(o) ==
  CASE o = "start" /\ kind = "ata" -> slots["test"] = None
    [] o \in {"start", "sanitize"} /\ kind = "nvme" -> slots["test"] = None /\ slots["sanitize"] = None
    [] OTHER -> TRUE

Call(t, o) ==
  /\ At(t, "idle") /\ calls > 0 /\ Admits(o)
  /\ calls' = calls - 1
  /\ pc' = [pc EXCEPT ![t] = IF o = "update" THEN "refresh" ELSE "asked"]
  /\ op' = [op EXCEPT ![t] = o] /\ own' = [own EXCEPT ![t] = calls]
  /\ UNCHANGED <<setup, device, slots, cancels, jobVars, logVars>>

\* The caller is not authorized, the drive refuses, a log cannot be read.
Refuse(t) ==
  /\ pc[t] \in {"asked", "refresh"}
  /\ Goto(t, "idle")
  /\ UNCHANGED <<setup, device, slots, cancels, jobVars, logVars>>

LaunchWrong(w, n) ==      \* mutant: the other slot
  /\ slots' = [slots EXCEPT !["sanitize"] = n]
  /\ stage' = [stage EXCEPT ![n] = "queued"] /\ what' = [what EXCEPT ![n] = w]
  /\ UNCHANGED <<cancelled, skipped>>

\* udisks_daemon_launch_threaded_job and udisks_threaded_job_start, under the lock.
Launch(w, n) ==
  /\ slots' = [slots EXCEPT ![w] = n]
  /\ stage' = [stage EXCEPT ![n] = "queued"] /\ what' = [what EXCEPT ![n] = w]
  /\ UNCHANGED <<cancelled, skipped>>

\* ATA: the test is started (another one is replaced) ...
StartTest(t) ==
  /\ kind = "ata" /\ At(t, "asked") /\ op[t] = "start"
  /\ device' = Doing("test", own[t])
  /\ Goto(t, "started")
  /\ UNCHANGED <<setup, slots, cancels, jobVars, logVars>>

\* ... and then a job, if there is none by now.
LaunchIfNone(t) ==
  /\ At(t, "started") /\ Goto(t, "idle")
  /\ IF slots["test"] = None THEN Launch("test", own[t]) ELSE UNCHANGED <<slots, jobVars>>
  /\ UNCHANGED <<setup, device, cancels, logVars>>

\* NVMe: `Trigger the self-test operation and launch the monitoring job atomically'.
\* The controller takes a test when it does nothing.
StartAndLaunch(t) ==
  /\ kind = "nvme" /\ At(t, "asked") /\ op[t] = "start"
  /\ device.doing = "nothing" /\ device' = Doing("test", own[t])
  /\ Launch("test", own[t]) /\ Goto(t, "idle")
  /\ UNCHANGED <<setup, cancels, logVars>>

\* The sanitize log is looked at; the operation puts an end to a test.
Sanitize(t) ==
  /\ kind = "nvme" /\ At(t, "asked") /\ op[t] = "sanitize"
  /\ device.doing # "sanitize" /\ device' = Doing("sanitize", own[t])
  /\ Launch("sanitize", own[t]) /\ Goto(t, "idle")
  /\ UNCHANGED <<setup, cancels, logVars>>

\* handle_format_namespace: first the job, then the tool.
StartFormat(t) ==
  /\ kind = "format" /\ At(t, "asked") /\ op[t] = "format"
  /\ IF slots["test"] = None
     THEN Launch("test", own[t]) /\ Goto(t, "formatting")
     ELSE Goto(t, "idle") /\ UNCHANGED <<slots, jobVars>>
  /\ UNCHANGED <<setup, device, cancels, logVars>>

Cancel(n) == cancelled' = [cancelled EXCEPT ![n] = TRUE]

\* Well or not, the formatting is over: `cancel the job and wait until the job func finishes'.
FormatEnds(t) ==
  /\ At(t, "formatting") /\ Goto(t, "check")
  /\ Cancel(own[t])
  /\ UNCHANGED <<setup, device, slots, cancels, stage, what, skipped, logVars>>

AbortTest(t) ==
  /\ At(t, "asked") /\ op[t] = "abort"
  /\ device' = IF device.doing = "test" THEN Nothing ELSE device
  /\ Goto(t, "aborted")
  /\ UNCHANGED <<setup, slots, cancels, jobVars, logVars>>

\* Only NVMe waits; ATA has a `TODO: wait for the selftest thread to terminate'.
\* Where SlotIsLive has its exception a job that is no more is cancelled: what that
\* does to other memory is not modelled.
CancelWatcher(t) ==
  /\ At(t, "aborted")
  /\ IF slots["test"] = None
     THEN Goto(t, "refresh") /\ UNCHANGED cancelled
     ELSE Goto(t, IF kind = "nvme" THEN "check" ELSE "refresh") /\ Cancel(slots["test"])
  /\ UNCHANGED <<setup, device, slots, cancels, stage, what, skipped, logVars>>

\* The loop around g_cond_wait.
CheckSlot(t) ==
  /\ At(t, "check")
  /\ IF slots["test"] = None
     THEN Goto(t, IF op[t] = "format" THEN "idle" ELSE "refresh")
     ELSE Goto(t, "waiting")
  /\ UNCHANGED <<setup, device, slots, cancels, jobVars, logVars>>

\* SmartUpdate; at the end of an abort; the main thread and housekeeping do the same.
Refresh(t) ==
  /\ At(t, "refresh") /\ Goto(t, "read") /\ Read(t)
  /\ UNCHANGED <<setup, device, slots, cancels, jobVars>>

Update(t) ==
  /\ At(t, "read") /\ Goto(t, "idle") /\ Store(t)
  /\ UNCHANGED <<setup, device, slots, cancels, jobVars>>

\* What a thread does next by itself; each refresh counts, a refusal is a choice.
Proceed(t) ==
  \/ Refuse(t) \/ StartTest(t) \/ LaunchIfNone(t) \/ StartAndLaunch(t) \/ Sanitize(t)
  \/ StartFormat(t) \/ FormatEnds(t) \/ AbortTest(t) \/ CancelWatcher(t) \/ CheckSlot(t)
  \/ Refresh(t) \/ Update(t)

-----------------------------------------------------------------------------
(* Jobs *)

Stage(j, from, to) == stage[j] = from /\ stage' = [stage EXCEPT ![j] = to] /\ UNCHANGED <<what, cancelled, skipped>>

BeginWithLog(j) ==      \* mutant: looks at the log before it refreshes it
  /\ stage[j] = "queued"
  /\ stage' = [stage EXCEPT ![j] = IF cancelled[j] THEN "ended" ELSE "stored"]
  /\ skipped' = IF cancelled[j] THEN skipped \union {j} ELSE skipped
  /\ UNCHANGED <<setup, device, slots, cancels, what, cancelled, logVars, callVars>>

\* run_task_job: the function is not called for a job that is cancelled by now.
Begin(j) ==
  /\ stage[j] = "queued"
  /\ stage' = [stage EXCEPT ![j] = IF cancelled[j] THEN "ended" ELSE "polling"]
  /\ skipped' = IF cancelled[j] THEN skipped \union {j} ELSE skipped
  /\ UNCHANGED <<setup, device, slots, cancels, what, cancelled, logVars, callVars>>

Poll(j) ==
  /\ kind # "format"
  /\ Stage(j, "polling", "read") \/ Stage(j, "closing", "closed")
  /\ Read(j)
  /\ UNCHANGED <<setup, device, slots, cancels, callVars>>

StoreReading(j) ==
  /\ Stage(j, "read", "stored") \/ Stage(j, "closed", "leaving")
  /\ Store(j)
  /\ UNCHANGED <<setup, device, slots, cancels, callVars>>

\* still_in_progress, looked at with the lock taken anew; a sanitize operation
\* that is over is acknowledged, which may fail.
Look(j) ==
  /\ IF log[what[j]] = "running" THEN Stage(j, "stored", "sleeping") ELSE Stage(j, "stored", "leaving")
  /\ UNCHANGED <<setup, device, slots, cancels, logVars, callVars>>

\* The log, or the progress of a format, cannot be read.  Of the NVMe logs the others
\* are put in place, where only the one about the health is missing.
PollFails(j) ==
  /\ \/ Stage(j, "polling", "leaving") /\ UNCHANGED logVars
     \/ Stage(j, "closing", "leaving") /\ UNCHANGED logVars
     \/ kind = "nvme" /\ Stage(j, "polling", "closed") /\ Read(j)
  /\ UNCHANGED <<setup, device, slots, cancels, callVars>>

FormatPollOn(j) ==      \* mutant: the job pays no attention to being cancelled
  /\ kind = "format"
  /\ Stage(j, "polling", "sleeping")
  /\ UNCHANGED <<setup, device, slots, cancels, logVars, callVars>>

\* format_ns_job_func goes on until it is cancelled.
FormatPoll(j) ==
  /\ kind = "format"
  /\ IF cancelled[j] THEN Stage(j, "polling", "leaving") ELSE Stage(j, "polling", "sleeping")
  /\ UNCHANGED <<setup, device, slots, cancels, logVars, callVars>>

\* The time is up, or the job is cancelled: a self-test is aborted, which may fail,
\* and the log read once more; `No way to abort a running sanitize operation'.
Wake(j) ==
  /\ IF cancelled[j] /\ kind # "format" /\ what[j] = "test"
     THEN /\ Stage(j, "sleeping", "closing")
          /\ \/ device.doing = "test" /\ device' = Nothing
             \/ UNCHANGED device
     ELSE Stage(j, "sleeping", "polling") /\ UNCHANGED device
  /\ UNCHANGED <<setup, slots, cancels, logVars, callVars>>

LeaveSlot(j) ==      \* mutant: the job does not empty the slot
  /\ Stage(j, "leaving", "ended") /\ whose' = [whose EXCEPT ![j] = "none"]
  /\ UNCHANGED <<setup, device, slots, cancels, log, seen, misses, callVars>>

\* `terminate the job': the ATA job empties the slot itself.
Leave(j) ==
  /\ Stage(j, "leaving", "ended") /\ whose' = [whose EXCEPT ![j] = "none"]
  /\ slots' = IF kind = "ata" THEN [slots EXCEPT !["test"] = None] ELSE slots
  /\ UNCHANGED <<setup, device, cancels, log, seen, misses, callVars>>

SignalNobody(w) == UNCHANGED callVars      \* mutant: no g_cond_signal

\* A handler that waits is told, if there is one: g_cond_signal wakes one.
Signal(w) ==
  LET waiting == {t \in Threads : At(t, "waiting")} IN
  IF waiting = {} \/ w = "sanitize" THEN UNCHANGED callVars
  ELSE \E t \in waiting : Goto(t, "check")

\* Completed is emitted and the job freed; with it goes its user data:
\* selftest_job_func_done, sanitize_job_func_done, format_ns_job_func_done.
Complete(j) ==
  /\ stage[j] = "ended" /\ stage' = [stage EXCEPT ![j] = "gone"]
  /\ cancelled' = [cancelled EXCEPT ![j] = FALSE] /\ UNCHANGED <<what, skipped>>
  /\ IF kind = "ata" THEN UNCHANGED <<slots, callVars>>
     ELSE slots' = [slots EXCEPT ![what[j]] = None] /\ Signal(what[j])
  /\ UNCHANGED <<setup, device, cancels, logVars>>

\* Job.Cancel, for as long as the job object is exported.
ClientCancel(j) ==
  /\ stage[j] \notin {"none", "gone"} /\ ~cancelled[j]
  /\ cancels > 0 /\ cancels' = cancels - 1
  /\ Cancel(j)
  /\ UNCHANGED <<setup, device, slots, stage, what, skipped, logVars, callVars>>

JobStep(j) ==
  \/ Begin(j) \/ Poll(j) \/ StoreReading(j) \/ Look(j) \/ PollFails(j) \/ FormatPoll(j)
  \/ Wake(j) \/ Leave(j) \/ Complete(j)

\* A test or a sanitize operation comes to its end.
DeviceEnds ==
  /\ device.doing # "nothing" /\ device' = Nothing
  /\ UNCHANGED <<setup, slots, cancels, jobVars, logVars, callVars>>

Next ==
  \/ \E t \in Threads : Proceed(t) \/ \E o \in methods : Call(t, o)
  \/ \E j \in Numbers : JobStep(j) \/ ClientCancel(j)
  \/ DeviceEnds

Spec == Init /\ [][Next]_vars
\* Threads run, a drive comes to the end of what it does, tools return.
FairSpec ==
  /\ Spec /\ WF_vars(DeviceEnds)
  /\ \A t \in Threads : WF_vars(Proceed(t))
  /\ \A j \in Numbers : WF_vars(JobStep(j))

-----------------------------------------------------------------------------
(* What is checked *)

\* The slots hold no reference to a job: what is in one is dereferenced and must
\* be a job that is not freed yet.  An ATA job that was cancelled before its
\* function began stays in the slot all the same.
SlotIsLive ==
  \A w \in Works : slots[w] # None =>
    \/ stage[slots[w]] \notin {"none", "gone"}
    \/ kind = "ata" /\ slots[w] \in skipped

\* A job that claims to have seen the end of its operation has seen it, if the log
\* is what it has read itself.  In two ways it may go by another's reading: another
\* thread that read the log before stores it after the job did; or the job's own
\* reading of an NVMe log failed, of which refresh_smart_sync says nothing
\* (udiskslinuxnvmecontroller.c:408-413, 445), and none had succeeded before.
WatchedToTheEnd ==
  [][ \A j \in Numbers :
        stage[j] = "stored" /\ stage'[j] = "leaving" /\ whose[j] # "another"
          => device # Doing(what[j], j) ]_vars

\* When no more calls come, and NVMe logs can be read again, the slots are emptied, so
\* that the next test, format or sanitize call is let in.  The exception is that of
\* SlotIsLive.
SlotFreed ==
  <>[](\A w \in Works : slots[w] = None \/ (kind = "ata" /\ slots[w] \in skipped))

Waiting == {t \in Threads : At(t, "waiting")}
\* A handler that waits for a job to end returns, as long as it waits alone.
AloneReturns ==
  [](Cardinality(Waiting) <= 1) => \A t \in Threads : [](At(t, "waiting") => <>~At(t, "waiting"))

\* So does every one that waits: `This call blocks until the format operation has
\* finished.'
WaitersReturn == \A t \in Threads : [](At(t, "waiting") => <>~At(t, "waiting"))
=============================================================================
