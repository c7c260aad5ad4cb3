-------------------------------- MODULE Jobs --------------------------------
(***************************************************************************)
(* A job from its launch to the end of its object: UDisksSimpleJob,        *)
(* UDisksThreadedJob and UDisksSpawnedJob over UDisksBaseJob, and the      *)
(* functions of UDisksDaemon that launch them.  Jobs share nothing but the *)
(* counter that names them, so one is enough.                              *)
(*                                                                         *)
(* A spawned job lives in the main context its launching thread runs.  A   *)
(* round of the loop first gathers the sources that are ready and then     *)
(* dispatches them in the order they were attached, the ones destroyed     *)
(* meanwhile excepted; leaving the loop does not cut a round short.        *)
(***************************************************************************)
EXTENDS Integers, Sequences

CONSTANTS Modes,       \* the ways of launching, out of AllModes
          Cancelled,   \* those of them whose job a client may cancel
          MaxInput,    \* pieces of the input string
          MaxOutput    \* how often the command fills its pipe

AllModes == {"simple", "threadedSync", "threadedAsync", "spawned"}

ASSUME JobsAssumption ==
  /\ Modes \subseteq AllModes /\ Cancelled \subseteq Modes
  /\ MaxInput \in Nat /\ MaxOutput \in Nat

VARIABLES
  mode,
  pc,         \* of the launching thread
  exported,   \* the job object exists and is exported
  inhibited,  \* the cookie of logind is held
  signals,    \* the success of each Completed emitted
  aborted,    \* on_job_completed found no object: g_assert ends the daemon
  work,       \* the job function, the handler's work or the command
  canceller,  \* handle_cancel, on the main thread
  cancelled,  \* the GCancellable
  connected,  \* on_cancelled is connected to it
  attached,   \* how many sources were attached to the context
  sources,    \* those that are still, each with its place in that order
  batch,      \* gathered in this round, still to be dispatched
  quit,       \* g_main_loop_quit was called
  child,      \* "none", "running", "full", "exited", "reaped", "killed"
  input,      \* pieces not yet written
  output      \* how often the pipe may still fill

loopVars == <<connected, attached, sources, batch, quit, child, input, output>>
jobVars == <<exported, inhibited, signals, aborted>>
cancelVars == <<canceller, cancelled>>
vars == <<mode, pc, work, jobVars, cancelVars, loopVars>>

Kinds == {"error", "watch", "stdin", "stdout"}
Source(k, n) == [is |-> k, at |-> n]

TypeOK ==
  /\ mode \in Modes
  /\ pc \in {"new", "launched", "connect", "spawn", "working", "looping", "returned"}
  /\ exported \in BOOLEAN /\ inhibited \in BOOLEAN /\ aborted \in BOOLEAN
  /\ signals \in Seq(BOOLEAN) /\ Len(signals) <= 2
  /\ work \in {"none", "queued", "working", "done", "failed"}
  /\ canceller \in {"idle", "asking", "done"} /\ cancelled \in BOOLEAN
  /\ connected \in BOOLEAN /\ quit \in BOOLEAN
  /\ attached \in Nat /\ batch \subseteq sources
  /\ \A s \in sources : s.at \in 1..attached /\ s \in [is : Kinds, at : Nat]
  /\ child \in {"none", "running", "full", "exited", "reaped", "killed"}
  /\ input \in 0..MaxInput /\ output \in 0..MaxOutput

Init ==
  /\ mode \in Modes /\ pc = "new"
  /\ exported = FALSE /\ inhibited = FALSE /\ signals = <<>> /\ aborted = FALSE
  /\ work = "none"
  /\ canceller = "idle" /\ cancelled = FALSE
  /\ connected = FALSE /\ attached = 0 /\ sources = {} /\ batch = {} /\ quit = FALSE
  /\ child = "none" /\ input \in 0..MaxInput /\ output = MaxOutput

-----------------------------------------------------------------------------
(* UDisksDaemon *)

\* common_job: inhibit, export and connect on_job_completed.
Launch ==
  /\ pc = "new" /\ ~aborted
  /\ pc' = "launched"
  /\ exported' = TRUE /\ inhibited' = TRUE
  /\ UNCHANGED <<mode, work, signals, aborted, cancelVars, loopVars>>

\* The Completed signal and on_job_completed, which unexports the object, gives
\* up the job, the cookie and its own data: it cannot be run twice.
EmitCompleted(ok) ==
  /\ signals' = Append(signals, ok)
  /\ IF exported
     THEN exported' = FALSE /\ inhibited' = FALSE /\ UNCHANGED aborted
     ELSE aborted' = TRUE /\ UNCHANGED <<exported, inhibited>>

-----------------------------------------------------------------------------
(* UDisksBaseJob: Cancel, on the main thread *)

\* udisks_daemon_util_dup_object: only an exported job is found.
CancelCall ==
  /\ canceller = "idle" /\ exported /\ ~aborted /\ mode \in Cancelled
  /\ canceller' = "asking"
  /\ UNCHANGED <<mode, pc, work, jobVars, cancelled, loopVars>>

\* emit_completed_with_error_in_idle
AttachError ==
  /\ attached' = attached + 1
  /\ sources' = sources \union {Source("error", attached + 1)}

\* After the question to polkit, whatever has become of the job meanwhile;
\* g_cancellable_cancel runs on_cancelled if it is connected.
CancelJob ==
  /\ canceller = "asking" /\ ~aborted
  /\ canceller' = "done" /\ cancelled' = TRUE
  /\ IF connected THEN AttachError ELSE UNCHANGED <<attached, sources>>
  /\ UNCHANGED <<mode, pc, work, jobVars, connected, batch, quit, child, input, output>>

-----------------------------------------------------------------------------
(* UDisksSimpleJob: the launching handler works and completes the job *)

SimpleBegin ==
  /\ mode = "simple" /\ pc = "launched" /\ ~aborted
  /\ pc' = "working" /\ work' = "working"
  /\ UNCHANGED <<mode, jobVars, cancelVars, loopVars>>

SimpleEnd ==
  /\ mode = "simple" /\ pc = "working" /\ work = "working" /\ ~aborted
  /\ work' \in {"done", "failed"}
  /\ UNCHANGED <<mode, pc, jobVars, cancelVars, loopVars>>

\* udisks_simple_job_complete
SimpleComplete ==
  /\ mode = "simple" /\ pc = "working" /\ work # "working" /\ ~aborted
  /\ EmitCompleted(work = "done")
  /\ pc' = "returned"
  /\ UNCHANGED <<mode, work, cancelVars, loopVars>>

-----------------------------------------------------------------------------
(* UDisksThreadedJob *)

Threaded == mode \in {"threadedSync", "threadedAsync"}

\* udisks_threaded_job_start returns at once, udisks_threaded_job_run_sync waits.
ThreadedStart ==
  /\ Threaded /\ pc = "launched" /\ ~aborted
  /\ work' = "queued"
  /\ pc' = IF mode = "threadedSync" THEN "working" ELSE "returned"
  /\ UNCHANGED <<mode, jobVars, cancelVars, loopVars>>

\* run_task_job, on a thread of GTask's pool.
FuncBegin ==
  /\ Threaded /\ work = "queued" /\ ~aborted
  /\ work' = IF cancelled THEN "none" ELSE "working"
  /\ UNCHANGED <<mode, pc, jobVars, cancelVars, loopVars>>

FuncEnd ==
  /\ Threaded /\ work = "working" /\ ~aborted
  /\ work' \in {"done", "failed"}
  /\ UNCHANGED <<mode, pc, jobVars, cancelVars, loopVars>>

TaskReturned == work = "done"      \* mutant: what the function returned
\* g_task_propagate_boolean: a GTask whose GCancellable is cancelled has failed
\* whatever it returned.
TaskResult == work = "done" /\ ~cancelled

\* The task has returned: the function has ended or was never called.
TaskOver == work \in {"done", "failed"} \/ (work = "none" /\ cancelled)

\* job_finish, by the waiting thread or, as job_complete_cb, by the main thread.
ThreadedFinish ==
  /\ Threaded /\ pc \in {"working", "returned"} /\ signals = <<>> /\ ~aborted
  /\ TaskOver
  /\ EmitCompleted(TaskResult)
  /\ pc' = "returned"
  /\ UNCHANGED <<mode, work, cancelVars, loopVars>>

-----------------------------------------------------------------------------
(* UDisksSpawnedJob *)

SpawnedStep(at) == mode = "spawned" /\ pc = at /\ ~aborted

\* udisks_spawned_job_start: `could already be cancelled'
StartCheck ==
  /\ SpawnedStep("launched")
  /\ IF cancelled
     THEN AttachError /\ pc' = "looping"
     ELSE pc' = "connect" /\ UNCHANGED <<attached, sources>>
  /\ UNCHANGED <<mode, work, jobVars, cancelVars, connected, batch, quit, child, input, output>>

\* g_cancellable_connect: calls on_cancelled at once when it comes too late.
StartConnect ==
  /\ SpawnedStep("connect")
  /\ pc' = "spawn" /\ connected' = ~cancelled
  /\ IF cancelled THEN AttachError ELSE UNCHANGED <<attached, sources>>
  /\ UNCHANGED <<mode, work, jobVars, cancelVars, batch, quit, child, input, output>>

\* The child watch, and what reads and writes its pipes.
AttachChild ==
  /\ attached' = attached + 3
  /\ sources' = sources \union {Source("watch", attached + 1), Source("stdout", attached + 3)}
                \union (IF input > 0 THEN {Source("stdin", attached + 2)} ELSE {})

StartQuietly ==      \* mutant: an unknown command is not reported
  /\ SpawnedStep("spawn")
  /\ pc' = "looping"
  /\ \/ UNCHANGED <<work, attached, sources, child>>
     \/ /\ work' = "working" /\ child' = "running"
        /\ AttachChild
  /\ UNCHANGED <<mode, jobVars, cancelVars, connected, batch, quit, input, output>>

\* The command line, the user or the program is no good, or the command runs.
StartSpawn ==
  /\ SpawnedStep("spawn")
  /\ pc' = "looping"
  /\ \/ AttachError /\ UNCHANGED <<work, child>>
     \/ /\ work' = "working" /\ child' = "running"
        /\ AttachChild
  /\ UNCHANGED <<mode, jobVars, cancelVars, connected, batch, quit, input, output>>

\* The command: it writes, and waits when nobody reads; it may read its input
\* to the end before it exits.
StdinOpen == \E s \in sources : s.is = "stdin"

ChildOutput ==
  /\ child = "running" /\ output > 0 /\ ~aborted
  /\ child' = "full" /\ output' = output - 1
  /\ UNCHANGED <<mode, pc, work, jobVars, cancelVars, connected, attached, sources, batch, quit, input>>

ChildExit ==
  /\ child = "running" /\ ~aborted
  /\ child' = "exited"
  /\ work' \in {"failed"} \union (IF StdinOpen THEN {} ELSE {"done"})
  /\ UNCHANGED <<mode, pc, jobVars, cancelVars, connected, attached, sources, batch, quit, input, output>>

\* The rounds of g_main_loop_run.
Ready(s) ==
  CASE s.is = "watch"  -> child = "exited"
    [] s.is = "stdout" -> child = "full"
    [] OTHER           -> TRUE

Gather ==
  /\ SpawnedStep("looping") /\ batch = {} /\ ~quit
  /\ batch' = {s \in sources : Ready(s)}
  /\ batch' # {}
  /\ UNCHANGED <<mode, pc, work, jobVars, cancelVars, connected, attached, sources, quit,
                 child, input, output>>

Dispatching(s, k) ==
  /\ SpawnedStep("looping") /\ s.is = k
  /\ \A b \in batch : s.at <= b.at

\* read_child_stdout, read_child_stderr
ReadOutput ==
  /\ \E s \in batch : Dispatching(s, "stdout") /\ batch' = batch \ {s}
  /\ child' = IF child = "full" THEN "running" ELSE child
  /\ UNCHANGED <<mode, pc, work, jobVars, cancelVars, connected, attached, sources, quit, input, output>>

WriteAlways ==      \* mutant: goes on writing past the end
  /\ \E s \in batch : Dispatching(s, "stdin") /\ batch' = batch \ {s}
  /\ input' = input - 1
  /\ UNCHANGED <<mode, pc, work, jobVars, cancelVars, connected, attached, sources, quit, child, output>>

\* write_child_stdin: `nothing left to write; close our end'
WriteInput ==
  /\ \E s \in batch :
       /\ Dispatching(s, "stdin") /\ batch' = batch \ {s}
       /\ IF input > 0
          THEN input' = input - 1 /\ UNCHANGED sources
          ELSE sources' = sources \ {s} /\ UNCHANGED input
  /\ UNCHANGED <<mode, pc, work, jobVars, cancelVars, connected, attached, quit, child, output>>

Errors(src) == {s \in src : s.is = "error"}

ReleaseSources(src, bat, pid) ==      \* mutant: the connection is forgotten
  /\ sources' = Errors(src) /\ batch' = Errors(bat)
  /\ child' = IF pid \in {"running", "full", "exited"} THEN "killed" ELSE pid
  /\ UNCHANGED connected

\* udisks_spawned_job_release_resources: kills a command that still runs, takes
\* away its sources and the connection; what waits to emit an error stays.
Release(src, bat, pid) ==
  /\ sources' = Errors(src) /\ batch' = Errors(bat)
  /\ child' = IF pid \in {"running", "full", "exited"} THEN "killed" ELSE pid
  /\ connected' = FALSE

\* The rest of the output is read, the exit status judged (`completed' is a
\* success if the command exited with zero), spawned_job_sync_on_completed leaves the loop.
ChildWatch ==
  /\ \E s \in batch : Dispatching(s, "watch") /\ Release(sources \ {s}, batch \ {s}, "reaped")
  /\ EmitCompleted(work = "done")
  /\ quit' = TRUE
  /\ UNCHANGED <<mode, pc, work, cancelVars, attached, input, output>>

\* emit_completed_with_error_in_idle_cb: drops its reference, the last one unless
\* another error waits; udisks_spawned_job_finalize releases what there is.
EmitError ==
  /\ \E s \in batch :
       /\ Dispatching(s, "error")
       /\ IF Errors(sources \ {s}) # {}
          THEN sources' = sources \ {s} /\ batch' = batch \ {s} /\ UNCHANGED <<child, connected>>
          ELSE Release(sources \ {s}, batch \ {s}, child)
  /\ EmitCompleted(FALSE)
  /\ quit' = TRUE
  /\ UNCHANGED <<mode, pc, work, cancelVars, attached, input, output>>

\* The thread leaves the loop and destroys the context with what is left in it.
LoopEnd ==
  /\ SpawnedStep("looping") /\ quit /\ batch = {}
  /\ pc' = "returned" /\ sources' = {}
  /\ UNCHANGED <<mode, work, jobVars, cancelVars, connected, attached, batch, quit, child, input, output>>

-----------------------------------------------------------------------------
Launcher == Launch \/ SimpleBegin \/ SimpleEnd \/ SimpleComplete \/ ThreadedStart
            \/ StartCheck \/ StartConnect \/ StartSpawn
Task == FuncBegin \/ FuncEnd \/ ThreadedFinish
Loop == Gather \/ ReadOutput \/ WriteInput \/ ChildWatch \/ EmitError \/ LoopEnd
Client == CancelCall \/ CancelJob
Next == Launcher \/ Task \/ Loop \/ Client \/ ChildOutput \/ ChildExit

\* Threads run and commands end; nobody has to cancel.
Spec == Init /\ [][Next]_vars
FairSpec ==
  Spec /\ WF_vars(Launcher) /\ WF_vars(Task) /\ WF_vars(Loop) /\ WF_vars(CancelJob) /\ WF_vars(ChildExit)

-----------------------------------------------------------------------------
(* What is checked *)

PromisedStage ==
  CASE pc = "new" -> "none"
    [] pc # "new" /\ signals = <<>> -> "running"
    [] pc # "new" /\ Len(signals) = 1 -> "completed"
    [] OTHER -> "completed again"
PromisedWork == IF work = "queued" THEN "none" ELSE work

Promise == INSTANCE JobPromise WITH stage <- PromisedStage, shown <- exported, awake <- inhibited,
                                    work <- PromisedWork
\* The job keeps the promise of org.freedesktop.UDisks2.Job: shown and inhibiting
\* from launch to the one Completed, which comes, after the work has stopped.
PromiseKept == Promise!Spec

\* Success is said only of work that succeeded, and a threaded job that a client
\* cancelled before it completed does not claim success: `This will cause the job
\* to complete (with @success set to FALSE)'.
SuccessIsReal ==
  [][ signals' # signals /\ signals'[Len(signals')]
      => work = "done" /\ (Threaded => ~cancelled) ]_vars

\* Once the call that launched it is back and the job completed, nothing of it is
\* left: no object, no inhibitor, no source, no connection, no child unreaped.
NothingLeftOver ==
  pc = "returned" /\ signals # <<>>
    => /\ ~exported /\ ~inhibited /\ ~connected /\ sources = {}
       /\ child \in {"none", "reaped"}

\* on_job_completed: g_assert (object != NULL).  It runs once per job.
CompletedOnce == ~aborted
=============================================================================
