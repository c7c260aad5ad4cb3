---------------------------- MODULE MethodCalls ----------------------------
(***************************************************************************)
(* The threads that run D-Bus method calls, the mutexes they share, the    *)
(* jobs they launch, the uevents they wait for, the probing thread and the *)
(* main thread that brings the exported objects up to date, and the        *)
(* clean-up thread.  Programs maps the name of a method to its handler,    *)
(* written in the vocabulary of HandlerSteps.                              *)
(***************************************************************************)
EXTENDS HandlerSteps

CONSTANTS Threads,      \* threads of the method-call pool
          Cleaner,      \* the clean-up thread of UDisksState
          Programs,     \* [method |-> handler]
          Ahead,        \* probed uevents that may wait for the main thread
          Unsettled,    \* the methods that answer before their change is exported
          MaxTimeouts,  \* waits of one call that may give up
          Racing,       \* methods called while other calls are under way; others are called alone
          MaxCalls,     \* calls of them that are made
          MaxRounds     \* how often the clean-up thread may run

ASSUME MethodsAssumption ==
  /\ Cleaner \notin Threads /\ {"none", "kernel"} \cap (Threads \union {Cleaner}) = {}
  /\ MaxTimeouts \in Nat /\ Ahead \in Nat \ {0} /\ MaxRounds \in Nat /\ MaxCalls \in Nat
  /\ "idle" \notin DOMAIN Programs
  /\ \A p \in DOMAIN Programs : {"body", "out"} = DOMAIN Programs[p]

VARIABLES
  calls,    \* calls still to be made
  call,     \* the method each thread is in, or "idle"
  todo,     \* the steps it has still to take
  found,    \* its object was looked up (`object != NULL' at `out:')
  answers,  \* what the caller was sent
  job,      \* "none", "running", "done" or "failed": the last job it launched
  changed,  \* it has changed the device in this call
  waiting,  \* it waits for the uevent it has sent
  late,     \* waits of this call that gave up
  flocked,  \* it holds the lock on the partition table's device
  pools,    \* its change of a ZFS pool: "shown", "changed", "asked" to be listed, "left"
  holder,   \* who holds each mutex
  unseen,   \* whose last change of the device the exported objects do not show
  queue,    \* whose synthetic uevents the probing thread has not taken up
  probed,   \* those probed, for the main thread, each with what it read
  wake,     \* udisks_state_check was called
  cleaner,  \* what the clean-up thread is doing
  rounds

threadVars == <<call, todo, found, answers, waiting, job, changed, late, flocked, pools>>
viewVars == <<unseen, queue, probed>>
cleanerVars == <<wake, cleaner, rounds>>
vars == <<calls, threadVars, holder, viewVars, cleanerVars>>

Actors == Threads \union {Cleaner}
Free(m) == m \in Mutexes /\ holder[m] = "none"

ThreadsTyped ==
  /\ call \in [Threads -> DOMAIN Programs \union {"idle"}] /\ DOMAIN todo = Threads
  /\ found \in [Threads -> BOOLEAN] /\ changed \in [Threads -> BOOLEAN] /\ flocked \in [Threads -> BOOLEAN]
  /\ waiting \in [Threads -> BOOLEAN]
  /\ answers \in [Threads -> Seq({"reply", "error", "early"})]
  /\ job \in [Threads -> {"none", "running", "done", "failed"}]
  /\ late \in [Threads -> 0..MaxTimeouts]
  /\ pools \in [Threads -> {"shown", "changed", "asked", "left"}]
ViewTyped ==
  /\ unseen \subseteq Actors
  /\ queue \in Seq(Threads \union {"kernel"})
  /\ probed \in Seq([whose : Threads \union {"kernel"}, read : SUBSET Actors])
CleanerTyped ==
  wake \in BOOLEAN /\ cleaner \in {"idle", "checking", "device", "checked"} /\ rounds \in 0..MaxRounds
TypeOK ==
  /\ calls \in 0..MaxCalls /\ holder \in [Mutexes -> Actors \union {"none"}]
  /\ ThreadsTyped /\ ViewTyped /\ CleanerTyped

Init ==
  /\ calls = MaxCalls
  /\ call = [t \in Threads |-> "idle"] /\ todo = [t \in Threads |-> <<>>]
  /\ found = [t \in Threads |-> FALSE] /\ answers = [t \in Threads |-> <<>>]
  /\ job = [t \in Threads |-> "none"] /\ late = [t \in Threads |-> 0]
  /\ changed = [t \in Threads |-> FALSE] /\ flocked = [t \in Threads |-> FALSE]
  /\ waiting = [t \in Threads |-> FALSE] /\ pools = [t \in Threads |-> "shown"]
  /\ holder = [m \in Mutexes |-> "none"]
  /\ unseen = {} /\ queue = <<>> /\ probed = <<>>
  /\ wake = FALSE /\ cleaner = "idle" /\ rounds = MaxRounds

-----------------------------------------------------------------------------
(* Uevents *)

\* A change of the device by a: nothing probed before shows it.  The kernel, or
\* udevd once the device node is closed, makes a uevent of its own; it is of
\* interest only as long as no other has read the change.
Change(a) ==
  /\ unseen' = unseen \union {a}
  /\ probed' = [i \in DOMAIN probed |-> [probed[i] EXCEPT !.read = @ \ {a}]]
  /\ UNCHANGED queue
Unread == unseen \ UNION {probed[i].read : i \in DOMAIN probed}

\* probe_request_thread_func: what the device is like is read here, before the
\* request goes to the main thread.
ProbeFor(w) == probed' = Append(probed, [whose |-> w, read |-> unseen])
ProbeRequested ==      \* mutant: only the uevents udisks itself asked for
  /\ Len(probed) < Ahead
  /\ queue # <<>> /\ ProbeFor(Head(queue)) /\ queue' = Tail(queue)
  /\ UNCHANGED <<calls, threadVars, holder, unseen, cleanerVars>>
Probe ==
  /\ Len(probed) < Ahead
  /\ \/ queue # <<>> /\ ProbeFor(Head(queue)) /\ queue' = Tail(queue)
     \/ Unread # {} /\ ProbeFor("kernel") /\ UNCHANGED queue
  /\ UNCHANGED <<calls, threadVars, holder, unseen, cleanerVars>>

ApplyAny ==      \* mutant: any uevent ends the wait for one
  /\ probed # <<>>
  /\ \A m \in ViewMutexes : Free(m)
  /\ unseen' = unseen \ Head(probed).read
  /\ probed' = Tail(probed)
  /\ todo' = [t \in Threads |-> IF waiting[t] THEN Tail(todo[t]) ELSE todo[t]]
  /\ waiting' = [t \in Threads |-> FALSE]
  /\ UNCHANGED <<calls, call, found, answers, job, changed, late, flocked, pools,
                 holder, queue, cleanerVars>>
\* on_idle_with_probed_uevent: the objects are updated with what was read and
\* the thread that waits for this very uevent goes on.
Apply ==
  /\ probed # <<>>
  /\ \A m \in ViewMutexes : Free(m)
  /\ unseen' = unseen \ Head(probed).read
  /\ probed' = Tail(probed)
  /\ todo' = [t \in Threads |->
       IF t = Head(probed).whose /\ waiting[t] THEN Tail(todo[t]) ELSE todo[t]]
  /\ waiting' = [t \in Threads |-> waiting[t] /\ t # Head(probed).whose]
  /\ UNCHANGED <<calls, call, found, answers, job, changed, late, flocked, pools,
                 holder, queue, cleanerVars>>

DisownedDangling(t) ==      \* mutant: the callback goes on with data of a thread that returned
  /\ queue' = [i \in DOMAIN queue |-> IF queue[i] = t THEN "gone" ELSE queue[i]]
  /\ probed' = [i \in DOMAIN probed |->
       IF probed[i].whose = t THEN [probed[i] EXCEPT !.whose = "gone"] ELSE probed[i]]

\* Once its thread has given up, the uevent is like any other.
Disowned(t) ==
  /\ queue' = [i \in DOMAIN queue |-> IF queue[i] = t THEN "kernel" ELSE queue[i]]
  /\ probed' = [i \in DOMAIN probed |->
       IF probed[i].whose = t THEN [probed[i] EXCEPT !.whose = "kernel"] ELSE probed[i]]

-----------------------------------------------------------------------------
(* The steps of a handler *)

NextIs(t, op) == todo[t] # <<>> /\ Head(todo[t]).op = op
Mutex(t) == Head(todo[t]).mutex
Continue(t) == todo' = [todo EXCEPT ![t] = Tail(@)]
Fail(t) == todo' = [todo EXCEPT ![t] = Head(@).fail \o <<Out>>]
Answer(t, a) == answers' = [answers EXCEPT ![t] = Append(@, a)]

Begin(t, p) ==
  /\ call[t] = "idle" /\ calls > 0
  /\ p \in Racing \/ calls = MaxCalls
  /\ calls' = IF p \in Racing THEN calls - 1 ELSE 0
  /\ call' = [call EXCEPT ![t] = p]
  /\ todo' = [todo EXCEPT ![t] = Programs[p].body \o <<Out>>]
  /\ UNCHANGED <<found, answers, waiting, job, changed, late, flocked, pools,
                 holder, viewVars, cleanerVars>>

\* The end of the handler: what is on the stack goes.
End(t) ==
  /\ NextIs(t, "return")
  /\ call' = [call EXCEPT ![t] = "idle"] /\ todo' = [todo EXCEPT ![t] = <<>>]
  /\ found' = [found EXCEPT ![t] = FALSE] /\ answers' = [answers EXCEPT ![t] = <<>>]
  /\ job' = [job EXCEPT ![t] = "none"] /\ late' = [late EXCEPT ![t] = 0]
  /\ changed' = [changed EXCEPT ![t] = FALSE] /\ flocked' = [flocked EXCEPT ![t] = FALSE]
  /\ pools' = [pools EXCEPT ![t] = IF @ = "changed" THEN "left" ELSE @]
  /\ UNCHANGED <<calls, waiting, holder, viewVars, cleanerVars>>

GoOut(t) ==
  /\ NextIs(t, "out")
  /\ todo' = [todo EXCEPT ![t] = Programs[call[t]].out \o <<Return>>]
  /\ UNCHANGED <<calls, call, found, answers, waiting, job, changed, late, flocked, pools,
                 holder, viewVars, cleanerVars>>

Choose(t) ==
  /\ NextIs(t, "choice")
  /\ \E arm \in Head(todo[t]).arms : todo' = [todo EXCEPT ![t] = arm \o Tail(@)]
  /\ UNCHANGED <<calls, call, found, answers, waiting, job, changed, late, flocked, pools,
                 holder, viewVars, cleanerVars>>

Send(t) ==
  /\ \/ NextIs(t, "reply") /\ Answer(t, "reply")
     \/ NextIs(t, "error") /\ Answer(t, "error")
     \/ NextIs(t, "reply_early") /\ Answer(t, "early")
     \/ NextIs(t, "reply_if_pending") /\ answers[t] = <<>> /\ Answer(t, "reply")
     \/ NextIs(t, "error_if_pending") /\ answers[t] = <<>> /\ Answer(t, "error")
     \/ /\ NextIs(t, "reply_if_pending") \/ NextIs(t, "error_if_pending")
        /\ answers[t] # <<>> /\ UNCHANGED answers
  /\ Continue(t)
  /\ UNCHANGED <<calls, call, found, waiting, job, changed, late, flocked, pools,
                 holder, viewVars, cleanerVars>>

TestStep(t) ==
  /\ NextIs(t, "test")
  /\ Continue(t) \/ Fail(t)
  /\ UNCHANGED <<calls, call, found, answers, waiting, job, changed, late, flocked, pools,
                 holder, viewVars, cleanerVars>>

LookUp(t) ==
  /\ \/ NextIs(t, "dup") /\ Continue(t) /\ found' = [found EXCEPT ![t] = TRUE]
     \/ NextIs(t, "dup") /\ Fail(t) /\ UNCHANGED found
     \/ NextIs(t, "found") /\ Continue(t) /\ found' = [found EXCEPT ![t] = TRUE]
  /\ UNCHANGED <<calls, call, answers, waiting, job, changed, late, flocked, pools,
                 holder, viewVars, cleanerVars>>

TakeMutex(t) ==
  /\ NextIs(t, "lock") /\ Free(Mutex(t))
  /\ holder' = [holder EXCEPT ![Mutex(t)] = t]
  /\ Continue(t)
  /\ UNCHANGED <<calls, call, found, answers, waiting, job, changed, late, flocked, pools,
                 viewVars, cleanerVars>>

PassThrough(t) ==
  /\ NextIs(t, "within") /\ Free(Mutex(t))
  /\ Continue(t)
  /\ UNCHANGED <<calls, call, found, answers, waiting, job, changed, late, flocked, pools,
                 holder, viewVars, cleanerVars>>

\* HandlerAlone!ProperUse: it is its own.
LeaveMutex(t) ==
  /\ \/ NextIs(t, "unlock")
     \/ NextIs(t, "release")
  /\ holder' = IF NextIs(t, "release") /\ ~found[t] THEN holder
               ELSE [holder EXCEPT ![Mutex(t)] = IF @ = t THEN "none" ELSE @]
  /\ Continue(t)
  /\ UNCHANGED <<calls, call, found, answers, waiting, job, changed, late, flocked, pools,
                 viewVars, cleanerVars>>

Ask(t) ==
  /\ NextIs(t, "state_check")
  /\ wake' = (wake \/ found[t])
  /\ Continue(t)
  /\ UNCHANGED <<calls, call, found, answers, waiting, job, changed, late, flocked, pools,
                 holder, viewVars, cleaner, rounds>>

JobStep(t) ==
  /\ \/ NextIs(t, "job") /\ job' = [job EXCEPT ![t] = "running"]
     \/ NextIs(t, "job_done") /\ job' = [job EXCEPT ![t] = "done"]
     \/ NextIs(t, "job_fail") /\ job' = [job EXCEPT ![t] = "failed"]
  /\ Continue(t)
  /\ UNCHANGED <<calls, call, found, answers, waiting, changed, late, flocked, pools,
                 holder, viewVars, cleanerVars>>

\* A tool that fails may have changed nothing, or part of what it should.
Changes(t) == Change(t) /\ changed' = [changed EXCEPT ![t] = TRUE]
Work(t) ==
  /\ \/ NextIs(t, "tool") /\ Changes(t) /\ (Continue(t) \/ Fail(t))
     \/ NextIs(t, "tool") /\ Fail(t) /\ UNCHANGED <<changed, viewVars>>
     \/ NextIs(t, "attempt") /\ Continue(t) /\ (Changes(t) \/ UNCHANGED <<changed, viewVars>>)
  /\ UNCHANGED <<calls, call, found, answers, waiting, job, late, flocked, pools, holder, cleanerVars>>

\* udisks_daemon_util_trigger_uevent_sync writes to the uevent file and waits;
\* udisks_daemon_util_trigger_uevent only writes.
Trigger(t) ==
  /\ \/ /\ NextIs(t, "uevent") /\ ~waiting[t]
        /\ queue' = Append(queue, t) /\ waiting' = [waiting EXCEPT ![t] = TRUE] /\ UNCHANGED todo
     \/ NextIs(t, "kick") /\ Continue(t) /\ UNCHANGED <<waiting, queue>>
  /\ UNCHANGED <<calls, call, found, answers, job, changed, late, flocked, pools,
                 holder, unseen, probed, cleanerVars>>

\* The wait times out, or the kernel refuses the tagged uevent and the thread
\* does not wait for the plain one.
GiveUpUevent(t) ==
  /\ NextIs(t, "uevent") /\ waiting' = [waiting EXCEPT ![t] = FALSE]
  /\ late[t] < MaxTimeouts /\ late' = [late EXCEPT ![t] = @ + 1]
  /\ Disowned(t) /\ Continue(t)
  /\ UNCHANGED <<calls, call, found, answers, job, changed, flocked, pools, holder, unseen, cleanerVars>>

\* A change of a pool is listed no earlier than asked for, or by the poll every
\* 30 seconds.
PoolStep(t) ==
  /\ \/ NextIs(t, "pool") /\ Fail(t) /\ UNCHANGED pools
     \/ NextIs(t, "pool") /\ pools' = [pools EXCEPT ![t] = "changed"] /\ (Continue(t) \/ Fail(t))
     \/ /\ NextIs(t, "pool_attempt") /\ Continue(t)
        /\ pools' = [pools EXCEPT ![t] = "changed"] \/ UNCHANGED pools
     \/ /\ NextIs(t, "refresh") /\ Continue(t)
        /\ pools' = [pools EXCEPT ![t] = IF @ = "changed" THEN "asked" ELSE @]
  /\ UNCHANGED <<calls, call, found, answers, waiting, job, changed, late, flocked,
                 holder, viewVars, cleanerVars>>

ListPools(which) ==
  /\ \E t \in Threads : pools[t] \in which
  /\ pools' = [t \in Threads |-> IF pools[t] \in which THEN "shown" ELSE pools[t]]
  /\ UNCHANGED <<calls, call, todo, found, answers, waiting, job, changed, late, flocked,
                 holder, viewVars, cleanerVars>>
AnswerRequest == ListPools({"asked"})
PeriodicPoll == ListPools({"asked", "changed", "left"})

\* What a thread waits for is the exported side of its own change.
Settled(t) == changed[t] => t \notin unseen
Arrive(t) ==
  /\ \/ (NextIs(t, "await") \/ NextIs(t, "await_anyway")) /\ Settled(t)
     \/ NextIs(t, "await_pool") /\ pools[t] = "shown"
  /\ Continue(t)
  /\ UNCHANGED <<calls, call, found, answers, waiting, job, changed, late, flocked, pools,
                 holder, viewVars, cleanerVars>>

GiveUpObject(t) ==
  /\ \/ (NextIs(t, "await") \/ NextIs(t, "await_pool")) /\ Fail(t)
     \/ NextIs(t, "await_anyway") /\ Continue(t)
  /\ late[t] < MaxTimeouts /\ late' = [late EXCEPT ![t] = @ + 1]
  /\ UNCHANGED <<calls, call, found, answers, waiting, job, changed, flocked, pools,
                 holder, viewVars, cleanerVars>>

TableLock(t) ==
  /\ \/ NextIs(t, "flock") /\ flocked' = [flocked EXCEPT ![t] = TRUE]
     \/ NextIs(t, "unflock") /\ flocked' = [flocked EXCEPT ![t] = FALSE]
  /\ Continue(t)
  /\ UNCHANGED <<calls, call, found, answers, waiting, job, changed, late, pools,
                 holder, viewVars, cleanerVars>>

-----------------------------------------------------------------------------
(* The clean-up thread: udisks_state_check_in_thread *)

CleanerStart ==
  /\ cleaner = "idle" /\ wake /\ rounds > 0 /\ Free("state")
  /\ wake' = FALSE /\ cleaner' = "checking" /\ rounds' = rounds - 1
  /\ holder' = [holder EXCEPT !["state"] = Cleaner]
  /\ UNCHANGED <<calls, threadVars, viewVars>>

CleanerWait ==      \* mutant: waits for the clean-up lock with the state locked
  /\ cleaner = "checking" /\ Free("cleanup")
  /\ cleaner' = "device" /\ holder' = [holder EXCEPT !["cleanup"] = Cleaner]
  /\ UNCHANGED <<calls, threadVars, viewVars, wake, rounds>>
\* Only a try: an object some handler has locked is left to the next check.
CleanerTry ==
  /\ cleaner = "checking"
  /\ \/ Free("cleanup") /\ cleaner' = "device" /\ holder' = [holder EXCEPT !["cleanup"] = Cleaner]
     \/ cleaner' = "checked" /\ UNCHANGED holder
  /\ UNCHANGED <<calls, threadVars, viewVars, wake, rounds>>

CleanerWork ==
  /\ cleaner = "device"
  /\ Change(Cleaner)
  /\ cleaner' = "checked"
  /\ holder' = [holder EXCEPT !["cleanup"] = "none"]
  /\ UNCHANGED <<calls, threadVars, wake, rounds>>

CleanerEnd ==
  /\ cleaner = "checked"
  /\ cleaner' = "idle"
  /\ holder' = [holder EXCEPT !["state"] = "none"]
  /\ UNCHANGED <<calls, threadVars, viewVars, wake, rounds>>

-----------------------------------------------------------------------------
ThreadStep(t) ==
  \/ End(t) \/ GoOut(t) \/ Choose(t) \/ Send(t) \/ TestStep(t) \/ LookUp(t)
  \/ TakeMutex(t) \/ PassThrough(t) \/ LeaveMutex(t) \/ Ask(t) \/ JobStep(t) \/ Work(t)
  \/ Trigger(t) \/ PoolStep(t) \/ Arrive(t) \/ TableLock(t)
GiveUp(t) == GiveUpUevent(t) \/ GiveUpObject(t)
CleanerStep == CleanerStart \/ CleanerTry \/ CleanerWork \/ CleanerEnd

Next ==
  \/ \E t \in Threads : (\E p \in DOMAIN Programs : Begin(t, p)) \/ ThreadStep(t) \/ GiveUp(t)
  \/ Probe \/ Apply \/ AnswerRequest \/ PeriodicPoll \/ CleanerStep

\* The scheduler runs every thread that can go on; that a caller calls, or that
\* a wait gives up, is nobody's duty.
Fairness ==
  /\ \A t \in Threads : WF_vars(ThreadStep(t))
  /\ WF_vars(Probe) /\ WF_vars(Apply) /\ WF_vars(AnswerRequest) /\ WF_vars(PeriodicPoll)
  /\ WF_vars(CleanerStep)

Spec == Init /\ [][Next]_vars
FairSpec == Spec /\ Fairness

-----------------------------------------------------------------------------
(* Properties *)

\* To each of its callers the daemon is a handler that runs alone: what a thread
\* does, what it sees and what it holds is what HandlerAlone allows, whatever the
\* other threads, the clean-up thread, the probing and the main thread do.  What
\* HandlerAlone keeps, AnsweredOnce to PoolsAskedFor, is thereby kept by any
\* number of threads at once.
Alone(t) == INSTANCE HandlerAlone WITH
  call <- call[t], todo <- todo[t], found <- found[t], answers <- answers[t], job <- job[t],
  waiting <- waiting[t], gaveUp <- late[t] > 0, flocked <- flocked[t], pool <- pools[t],
  held <- {m \in Mutexes : holder[m] = t}, hidden <- ~Settled(t)
HandlersActAlone ==
  /\ \A t \in Threads : Alone(t)!Init
  /\ [][\A t \in Threads : [Alone(t)!Next]_(Alone(t)!vars)]_vars

\* Every call comes to an end, with all mutexes, waits and the clean-up thread
\* in its way.
CallsReturn == \A t \in Threads : [](call[t] # "idle" => <>(call[t] = "idle"))

\* Once no call is made any more, the exported objects come to show the device
\* as it is.
ViewFollows == <>[](\A t \in Threads : call[t] = "idle") =>
  <>[](unseen = {} /\ \A t \in Threads : pools[t] = "shown")
=============================================================================
