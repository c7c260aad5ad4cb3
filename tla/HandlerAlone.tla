---------------------------- MODULE HandlerAlone ----------------------------
(***************************************************************************)
(* What MethodCalls comes to for a single one of its threads: it runs one  *)
(* call after the other, and the rest of the daemon shows only in that a   *)
(* mutex, a uevent or an object may let it wait, for no time or for too    *)
(* long.  A handler that answers once, gives back its locks and has its    *)
(* change exported in here does so in MethodCalls, however many others run *)
(* at the same time: MethodCalls implements this module for each thread.   *)
(***************************************************************************)
EXTENDS HandlerSteps

CONSTANTS Programs,     \* [method |-> handler]
          Unsettled     \* the methods that answer before their change is exported

VARIABLES
  call,       \* the method, or "idle"
  todo,       \* the steps it has still to take
  found,      \* its object was looked up (`object != NULL' at `out:')
  answers,    \* what the caller was sent
  job,        \* "none", "running", "done" or "failed": the last job it launched
  waiting,    \* it waits for the uevent it has sent
  gaveUp,     \* a wait of this call has timed out
  flocked,    \* it holds the lock on the partition table's device
  pool,       \* its change of a ZFS pool: "shown", "changed", "asked" to be listed, "left"
  held,       \* the mutexes it holds
  hidden      \* what it changed in this call is not exported yet

vars == <<call, todo, found, answers, waiting, job, gaveUp, flocked, pool, held, hidden>>

Init ==
  /\ call = "idle" /\ todo = <<>> /\ found = FALSE /\ answers = <<>> /\ job = "none"
  /\ waiting = FALSE /\ gaveUp = FALSE /\ flocked = FALSE /\ pool = "shown" /\ held = {} /\ hidden = FALSE

NextIs(op) == todo # <<>> /\ Head(todo).op = op
Mutex == Head(todo).mutex
Continue == todo' = Tail(todo)
Fail == todo' = Head(todo).fail \o <<Out>>
Answer(a) == answers' = Append(answers, a)

-----------------------------------------------------------------------------
(* The steps of a call: those of MethodCalls *)

Begin(p) ==
  /\ call = "idle" /\ call' = p
  /\ todo' = Programs[p].body \o <<Out>>
  /\ UNCHANGED <<found, answers, waiting, job, gaveUp, flocked, pool, held, hidden>>

End ==
  /\ NextIs("return")
  /\ call' = "idle" /\ todo' = <<>> /\ found' = FALSE /\ answers' = <<>> /\ job' = "none"
  /\ gaveUp' = FALSE /\ flocked' = FALSE /\ hidden' = FALSE
  /\ pool' = IF pool = "changed" THEN "left" ELSE pool
  /\ UNCHANGED <<waiting, held>>

Branch ==
  /\ \/ NextIs("out") /\ todo' = Programs[call].out \o <<Return>>
     \/ NextIs("choice") /\ \E arm \in Head(todo).arms : todo' = arm \o Tail(todo)
     \/ NextIs("test") /\ (Continue \/ Fail)
     \/ NextIs("state_check") /\ Continue
  /\ UNCHANGED <<call, found, answers, waiting, job, gaveUp, flocked, pool, held, hidden>>

Send ==
  /\ \/ NextIs("reply") /\ Answer("reply")
     \/ NextIs("error") /\ Answer("error")
     \/ NextIs("reply_early") /\ Answer("early")
     \/ NextIs("reply_if_pending") /\ answers = <<>> /\ Answer("reply")
     \/ NextIs("error_if_pending") /\ answers = <<>> /\ Answer("error")
     \/ (NextIs("reply_if_pending") \/ NextIs("error_if_pending")) /\ answers # <<>> /\ UNCHANGED answers
  /\ Continue
  /\ UNCHANGED <<call, found, waiting, job, gaveUp, flocked, pool, held, hidden>>

LookUp ==
  /\ \/ (NextIs("dup") \/ NextIs("found")) /\ Continue /\ found' = TRUE
     \/ NextIs("dup") /\ Fail /\ UNCHANGED found
  /\ UNCHANGED <<call, answers, waiting, job, gaveUp, flocked, pool, held, hidden>>

\* A mutex it does not hold is free sooner or later, as far as it can tell.
UseMutex ==
  /\ \/ NextIs("lock") /\ Mutex \in Mutexes \ held /\ held' = held \union {Mutex}
     \/ NextIs("within") /\ Mutex \in Mutexes \ held /\ UNCHANGED held
     \/ NextIs("unlock") /\ held' = held \ {Mutex}
     \/ NextIs("release") /\ held' = IF found THEN held \ {Mutex} ELSE held
  /\ Continue
  /\ UNCHANGED <<call, found, answers, waiting, job, gaveUp, flocked, pool, hidden>>

JobStep ==
  /\ \/ NextIs("job") /\ job' = "running"
     \/ NextIs("job_done") /\ job' = "done"
     \/ NextIs("job_fail") /\ job' = "failed"
  /\ Continue
  /\ UNCHANGED <<call, found, answers, waiting, gaveUp, flocked, pool, held, hidden>>

Work ==
  /\ \/ NextIs("tool") /\ hidden' = TRUE /\ (Continue \/ Fail)
     \/ NextIs("tool") /\ Fail /\ UNCHANGED hidden
     \/ NextIs("attempt") /\ Continue /\ (hidden' = TRUE \/ UNCHANGED hidden)
  /\ UNCHANGED <<call, found, answers, waiting, job, gaveUp, flocked, pool, held>>

TableLock ==
  /\ \/ NextIs("flock") /\ flocked' = TRUE
     \/ NextIs("unflock") /\ flocked' = FALSE
  /\ Continue
  /\ UNCHANGED <<call, found, answers, waiting, job, gaveUp, pool, held, hidden>>

PoolStep ==
  /\ \/ NextIs("pool") /\ Fail /\ UNCHANGED pool
     \/ NextIs("pool") /\ pool' = "changed" /\ (Continue \/ Fail)
     \/ NextIs("pool_attempt") /\ (pool' = "changed" \/ UNCHANGED pool) /\ Continue
     \/ NextIs("refresh") /\ pool' = (IF pool = "changed" THEN "asked" ELSE pool) /\ Continue
  /\ UNCHANGED <<call, found, answers, waiting, job, gaveUp, flocked, held, hidden>>

-----------------------------------------------------------------------------
(* Waiting *)

\* The uevent is written; where it is waited for, it comes back from the main
\* thread, and whatever this call changed before is exported.
Trigger ==
  /\ \/ NextIs("uevent") /\ ~waiting /\ waiting' = TRUE /\ UNCHANGED todo
     \/ NextIs("kick") /\ Continue /\ UNCHANGED waiting
  /\ UNCHANGED <<call, found, answers, job, gaveUp, flocked, pool, held, hidden>>
UeventComes ==
  /\ waiting /\ waiting' = FALSE /\ Continue /\ hidden' = FALSE
  /\ UNCHANGED <<call, found, answers, job, gaveUp, flocked, pool, held>>

Arrive ==
  /\ \/ (NextIs("await") \/ NextIs("await_anyway")) /\ ~hidden
     \/ NextIs("await_pool") /\ pool = "shown"
  /\ Continue
  /\ UNCHANGED <<call, found, answers, waiting, job, gaveUp, flocked, pool, held, hidden>>

GiveUp ==
  /\ \/ NextIs("uevent") /\ Continue /\ waiting' = FALSE
     \/ NextIs("await_anyway") /\ Continue /\ UNCHANGED waiting
     \/ (NextIs("await") \/ NextIs("await_pool")) /\ Fail /\ UNCHANGED waiting
  /\ gaveUp' = TRUE
  /\ UNCHANGED <<call, found, answers, job, flocked, pool, held, hidden>>

\* The main thread exports what another's uevent showed, or lists the pools.
Exported ==
  /\ \/ hidden' = FALSE /\ UNCHANGED pool
     \/ pool' = "shown" /\ UNCHANGED hidden
  /\ UNCHANGED <<call, todo, found, answers, waiting, job, gaveUp, flocked, held>>

-----------------------------------------------------------------------------
CallStep ==
  \/ End \/ Branch \/ Send \/ LookUp \/ UseMutex \/ JobStep \/ Work \/ TableLock \/ PoolStep
  \/ Trigger \/ UeventComes \/ Arrive \/ GiveUp
Next == (\E p \in DOMAIN Programs : Begin(p)) \/ CallStep \/ Exported

Spec == Init /\ [][Next]_vars

-----------------------------------------------------------------------------
(* Properties *)

AtReturn == NextIs("return")
WaitsForMain == waiting \/ (todo # <<>> /\ Head(todo).op \in {"await", "await_anyway", "await_pool"})

\* Whatever path a call takes, every early return included, the caller is
\* answered exactly once, and not told of success when the last job of the call
\* failed.
AnsweredOnce ==
  /\ Len(answers) <= 1
  /\ AtReturn => Len(answers) = 1 /\ (job = "failed" => answers # <<"reply">>)

\* A handler that returns holds no mutex and leaves no job running, on no path.
\* It has given back the lock that keeps udevd from reading the partition table,
\* on every path but one: CreatePartitionAndFormat hands that lock to
\* handle_format_complete, which is not called when the format fails.
NothingLeftBehind ==
  AtReturn =>
    /\ job # "running" /\ held = {}
    /\ flocked => call = "create_and_format" /\ answers = <<"error">>

\* A mutex is taken by a thread that does not have it and given back by the one
\* that has; a job is completed while it runs, once, and no other is launched
\* in its place meanwhile.
ProperUse ==
  /\ NextIs("lock") \/ NextIs("within") => Mutex \in Mutexes \ held
  /\ NextIs("unlock") \/ (NextIs("release") /\ found) => Mutex \in held
  /\ NextIs("job") => job # "running"
  /\ NextIs("job_done") \/ NextIs("job_fail") => job = "running"

\* No thread waits for the main thread while it holds a mutex that the main
\* thread needs to get there.
MainNotHeldUp == WaitsForMain => held \cap ViewMutexes = {}

\* Where no wait of a call gave up, what it changed shows in the
\* exported objects when the caller is told of success: a client that reads a
\* property after the answer reads the new one.  Unsettled are the methods that
\* do not keep this.
SettledAtReply ==
  (NextIs("reply") \/ (NextIs("reply_if_pending") /\ answers = <<>>))
    /\ ~gaveUp /\ call \notin Unsettled => ~hidden

\* No call of a ZFS method ends well without a request to list what it changed.
PoolsAskedFor == AtReturn /\ answers = <<"reply">> => pool # "changed"
=============================================================================
