----------------------------- MODULE JobsProofs -----------------------------
(***************************************************************************)
(* What holds of Jobs for every way of launching, whoever may cancel, and  *)
(* any lengths of input and output, checked by TLAPS: the types, what a    *)
(* job claims, and, for jobs that are not harmed by the cancellation of a  *)
(* spawned job, that they end cleanly and implement JobPromise.            *)
(***************************************************************************)
EXTENDS Jobs, TLAPS

\* A spawned job that is cancelled may emit Completed twice (see CompletedOnce).
Unharmed == mode = "spawned" => ~cancelled

\* The job is exported, and inhibits, from its launch to its first Completed; a
\* second one ends the daemon.
Counted ==
  /\ inhibited = exported
  /\ ~aborted => Len(signals) <= 1 /\ (exported <=> pc # "new" /\ signals = <<>>)
  /\ aborted => pc # "new"
  /\ exported => signals = <<>>
  /\ Unharmed => ~aborted

\* Nobody cancels but the client that may.
Asked ==
  /\ canceller # "idle" => mode \in Cancelled
  /\ cancelled => canceller = "done"

\* Where the launching thread and the work are: the work of a job that has
\* completed has stopped.
Progress ==
  /\ pc \in {"new", "launched", "connect", "spawn"} => work = "none" /\ child = "none" /\ signals = <<>>
  /\ work = "queued" => Threaded
  /\ mode # "spawned" => /\ pc \notin {"connect", "spawn", "looping"}
                         /\ ~connected /\ sources = {} /\ child = "none"
  /\ mode = "spawned" => pc # "working"
  /\ mode = "simple" => /\ pc = "working" => signals = <<>> /\ work \in {"working", "done", "failed"}
                        /\ pc = "returned" => work \in {"done", "failed"}
  /\ Unharmed /\ work \in {"queued", "working"} => signals = <<>>

\* A spawned job has either an error to emit or a command to wait for, and when it
\* leaves its loop neither.
Tidy ==
  mode = "spawned" /\ ~cancelled =>
    /\ pc \in {"new", "launched", "connect", "spawn"} => sources = {} /\ ~quit
    /\ pc \in {"new", "launched", "connect"} => ~connected
    /\ quit <=> signals # <<>>
    /\ quit => sources = {} /\ ~connected /\ child \in {"none", "reaped"}
    /\ pc = "returned" => quit
    /\ child = "none" => work = "none"
    /\ child \in {"running", "full"} => work = "working"
    /\ child \in {"exited", "reaped"} => work \in {"done", "failed"}
    /\ child # "killed"
    /\ \A s \in sources : s.is = "error" => child = "none" /\ sources = {s}
    /\ \A s \in batch : s.is = "watch" => child = "exited"

IInv == TypeOK /\ Counted /\ Asked /\ Progress /\ Tidy
-----------------------------------------------------------------------------
\* What emitting Completed does to the count.
LEMMA EmitOnce ==
  ASSUME TypeOK, Counted, pc # "new", ~aborted, NEW ok \in BOOLEAN, EmitCompleted(ok)
  PROVE  /\ signals' \in Seq(BOOLEAN) /\ signals' # <<>> /\ Len(signals') <= 2
         /\ signals'[Len(signals')] = ok
         /\ exported' = FALSE /\ inhibited' = FALSE /\ aborted' \in BOOLEAN /\ (aborted' <=> ~exported)
         /\ exported => Len(signals') = 1 /\ Len(signals') <= 1
<1>1. /\ signals' \in Seq(BOOLEAN) /\ signals' # <<>> /\ Len(signals') = Len(signals) + 1
      /\ signals'[Len(signals')] = ok /\ Len(signals) \in Nat
  BY DEF TypeOK, EmitCompleted
<1>2. exported' = FALSE /\ inhibited' = FALSE /\ aborted' \in BOOLEAN /\ (aborted' <=> ~exported)
  BY DEF TypeOK, Counted, EmitCompleted
<1>3. Len(signals) <= 1 /\ (exported => Len(signals) = 0)
  BY DEF Counted
<1> QED BY <1>1, <1>2, <1>3

LEMMA KeepsLaunch ==
  ASSUME IInv, JobsAssumption, Launch
  PROVE  IInv'
<1>1. TypeOK'
  BY DEF TypeOK, Launch, IInv, cancelVars, loopVars
<1>2. Counted'
  BY DEF Counted, Progress, Launch, IInv
<1>3. Asked'
  BY DEF Asked, Launch, IInv, cancelVars
<1>4. Progress'
  BY DEF Progress, Launch, IInv, loopVars
<1>5. Tidy'
  BY DEF Tidy, Launch, IInv, cancelVars, loopVars
<1> QED BY <1>1, <1>2, <1>3, <1>4, <1>5 DEF IInv

LEMMA KeepsCancelCall ==
  ASSUME IInv, JobsAssumption, CancelCall
  PROVE  IInv'
<1>1. TypeOK'
  BY DEF TypeOK, CancelCall, IInv, jobVars, loopVars
<1>2. Counted'
  BY DEF Counted, CancelCall, IInv, jobVars
<1>3. Asked'
  BY DEF Asked, CancelCall, IInv
<1>4. Progress'
  BY DEF Progress, Unharmed, Threaded, CancelCall, IInv, jobVars, loopVars
<1>5. Tidy'
  BY DEF Tidy, CancelCall, IInv, jobVars, loopVars
<1> QED BY <1>1, <1>2, <1>3, <1>4, <1>5 DEF IInv

LEMMA KeepsCancelJob ==
  ASSUME IInv, JobsAssumption, CancelJob
  PROVE  IInv'
<1>1. TypeOK'
  BY DEF TypeOK, CancelJob, AttachError, Source, Kinds, IInv, jobVars
<1>2. Counted'
  BY DEF Counted, CancelJob, IInv, jobVars
<1>3. Asked'
  BY DEF Asked, CancelJob, IInv
<1>4. Progress'
  BY DEF Progress, Unharmed, Threaded, CancelJob, IInv, jobVars
<1>5. Tidy'
  BY DEF Tidy, CancelJob
<1> QED BY <1>1, <1>2, <1>3, <1>4, <1>5 DEF IInv

LEMMA KeepsSimpleBegin ==
  ASSUME IInv, JobsAssumption, SimpleBegin
  PROVE  IInv'
<1>1. TypeOK'
  BY DEF TypeOK, SimpleBegin, IInv, jobVars, cancelVars, loopVars
<1>2. Counted'
  BY DEF Counted, SimpleBegin, IInv, jobVars
<1>3. Asked'
  BY DEF Asked, SimpleBegin, IInv, cancelVars
<1>4. Progress'
  BY DEF Progress, SimpleBegin, IInv, jobVars, loopVars
<1>5. Tidy'
  BY DEF Tidy, SimpleBegin
<1> QED BY <1>1, <1>2, <1>3, <1>4, <1>5 DEF IInv

LEMMA KeepsSimpleEnd ==
  ASSUME IInv, JobsAssumption, SimpleEnd
  PROVE  IInv'
<1>1. TypeOK'
  BY DEF TypeOK, SimpleEnd, IInv, jobVars, cancelVars, loopVars
<1>2. Counted'
  BY DEF Counted, SimpleEnd, IInv, jobVars
<1>3. Asked'
  BY DEF Asked, SimpleEnd, IInv, cancelVars
<1>4. Progress'
  BY DEF Progress, SimpleEnd, IInv, jobVars, loopVars
<1>5. Tidy'
  BY DEF Tidy, SimpleEnd
<1> QED BY <1>1, <1>2, <1>3, <1>4, <1>5 DEF IInv

LEMMA KeepsSimpleComplete ==
  ASSUME IInv, JobsAssumption, SimpleComplete
  PROVE  IInv'
<1>1. /\ signals' \in Seq(BOOLEAN) /\ signals' # <<>> /\ Len(signals') <= 2
      /\ exported' = FALSE /\ inhibited' = FALSE /\ aborted' \in BOOLEAN /\ (aborted' <=> ~exported)
      /\ exported => Len(signals') = 1 /\ Len(signals') <= 1
  BY EmitOnce DEF SimpleComplete, IInv
<1>2. TypeOK'
  BY <1>1 DEF TypeOK, SimpleComplete, IInv, cancelVars, loopVars
<1>3. Unharmed => exported
  BY DEF Counted, Progress, SimpleComplete, IInv
<1>4. Counted'
  BY <1>1, <1>3 DEF Counted, Unharmed, SimpleComplete
<1>5. Asked'
  BY DEF Asked, SimpleComplete, IInv, cancelVars
<1>6. Progress'
  BY DEF Progress, SimpleComplete, IInv, loopVars
<1>7. Tidy'
  BY DEF Tidy, SimpleComplete
<1> QED BY <1>2, <1>4, <1>5, <1>6, <1>7 DEF IInv

LEMMA KeepsThreadedStart ==
  ASSUME IInv, JobsAssumption, ThreadedStart
  PROVE  IInv'
<1>1. TypeOK'
  BY DEF TypeOK, ThreadedStart, IInv, jobVars, cancelVars, loopVars
<1>2. Counted'
  BY DEF Counted, ThreadedStart, IInv, jobVars
<1>3. Asked'
  BY DEF Asked, ThreadedStart, IInv, cancelVars
<1>4. Progress'
  BY DEF Progress, ThreadedStart, Threaded, IInv, jobVars, loopVars
<1>5. Tidy'
  BY DEF Tidy, ThreadedStart, Threaded
<1> QED BY <1>1, <1>2, <1>3, <1>4, <1>5 DEF IInv

LEMMA KeepsFuncBegin ==
  ASSUME IInv, JobsAssumption, FuncBegin
  PROVE  IInv'
<1>1. TypeOK'
  BY DEF TypeOK, FuncBegin, IInv, jobVars, cancelVars, loopVars
<1>2. Counted'
  BY DEF Counted, FuncBegin, IInv, jobVars
<1>3. Asked'
  BY DEF Asked, FuncBegin, IInv, cancelVars
<1>4. Progress'
  BY DEF Progress, Unharmed, FuncBegin, IInv, jobVars, loopVars
<1>5. Tidy'
  BY DEF Tidy, FuncBegin, IInv, jobVars, cancelVars, loopVars
<1> QED BY <1>1, <1>2, <1>3, <1>4, <1>5 DEF IInv

LEMMA KeepsFuncEnd ==
  ASSUME IInv, JobsAssumption, FuncEnd
  PROVE  IInv'
<1>1. TypeOK'
  BY DEF TypeOK, FuncEnd, IInv, jobVars, cancelVars, loopVars
<1>2. Counted'
  BY DEF Counted, FuncEnd, IInv, jobVars
<1>3. Asked'
  BY DEF Asked, FuncEnd, IInv, cancelVars
<1>4. Progress'
  BY DEF Progress, FuncEnd, IInv, jobVars, loopVars
<1>5. Tidy'
  BY DEF Tidy, FuncEnd, Threaded
<1> QED BY <1>1, <1>2, <1>3, <1>4, <1>5 DEF IInv

LEMMA KeepsThreadedFinish ==
  ASSUME IInv, JobsAssumption, ThreadedFinish
  PROVE  IInv'
<1>1. /\ signals' \in Seq(BOOLEAN) /\ signals' # <<>> /\ Len(signals') <= 2
      /\ exported' = FALSE /\ inhibited' = FALSE /\ aborted' \in BOOLEAN /\ (aborted' <=> ~exported)
      /\ exported => Len(signals') = 1 /\ Len(signals') <= 1
  BY EmitOnce DEF ThreadedFinish, TaskResult, IInv
<1>2. TypeOK'
  BY <1>1 DEF TypeOK, ThreadedFinish, IInv, cancelVars, loopVars
<1>3. Unharmed => exported
  BY DEF Counted, ThreadedFinish, IInv
<1>4. Counted'
  BY <1>1 DEF Counted, ThreadedFinish, IInv
<1>5. Asked'
  BY DEF Asked, ThreadedFinish, IInv, cancelVars
<1>6. Progress'
  BY DEF Progress, ThreadedFinish, TaskOver, IInv, loopVars
<1>7. Tidy'
  BY DEF Tidy, ThreadedFinish, Threaded
<1> QED BY <1>2, <1>4, <1>5, <1>6, <1>7 DEF IInv

LEMMA KeepsStartCheck ==
  ASSUME IInv, JobsAssumption, StartCheck
  PROVE  IInv'
<1>1. TypeOK'
  BY DEF TypeOK, StartCheck, AttachError, Source, Kinds, IInv, jobVars, cancelVars
<1>2. Counted'
  BY DEF Counted, StartCheck, SpawnedStep, IInv, jobVars
<1>3. Asked'
  BY DEF Asked, StartCheck, IInv, cancelVars
<1>4. Progress'
  BY DEF Progress, StartCheck, SpawnedStep, IInv, jobVars
<1>5. Tidy'
  BY DEF Tidy, StartCheck, SpawnedStep, IInv, jobVars, cancelVars
<1> QED BY <1>1, <1>2, <1>3, <1>4, <1>5 DEF IInv

LEMMA KeepsStartConnect ==
  ASSUME IInv, JobsAssumption, StartConnect
  PROVE  IInv'
<1>1. TypeOK'
  BY DEF TypeOK, StartConnect, AttachError, Source, Kinds, IInv, jobVars, cancelVars
<1>2. Counted'
  BY DEF Counted, StartConnect, SpawnedStep, IInv, jobVars
<1>3. Asked'
  BY DEF Asked, StartConnect, IInv, cancelVars
<1>4. Progress'
  BY DEF Progress, StartConnect, SpawnedStep, IInv, jobVars
<1>5. Tidy'
  BY DEF Tidy, StartConnect, SpawnedStep, IInv, jobVars, cancelVars
<1> QED BY <1>1, <1>2, <1>3, <1>4, <1>5 DEF IInv

LEMMA KeepsStartSpawn ==
  ASSUME IInv, JobsAssumption, StartSpawn
  PROVE  IInv'
<1>1. TypeOK'
  BY DEF TypeOK, StartSpawn, AttachError, AttachChild, Source, Kinds, IInv, jobVars, cancelVars
<1>2. Counted'
  BY DEF Counted, StartSpawn, SpawnedStep, IInv, jobVars
<1>3. Asked'
  BY DEF Asked, StartSpawn, IInv, cancelVars
<1>4. Progress'
  BY DEF Progress, StartSpawn, SpawnedStep, IInv, jobVars
<1>5. Tidy'
  BY DEF Progress, Tidy, StartSpawn, SpawnedStep, AttachError, AttachChild, Source, IInv, jobVars,
     cancelVars
<1> QED BY <1>1, <1>2, <1>3, <1>4, <1>5 DEF IInv

LEMMA KeepsChildOutput ==
  ASSUME IInv, JobsAssumption, ChildOutput
  PROVE  IInv'
<1>1. TypeOK'
  BY DEF TypeOK, ChildOutput, IInv, jobVars, cancelVars
<1>2. Counted'
  BY DEF Counted, ChildOutput, IInv, jobVars
<1>3. Asked'
  BY DEF Asked, ChildOutput, IInv, cancelVars
<1>4. Progress'
  BY DEF Progress, Unharmed, Threaded, ChildOutput, IInv, jobVars, cancelVars
<1>5. Tidy'
  BY DEF Tidy, ChildOutput, IInv, jobVars, cancelVars
<1> QED BY <1>1, <1>2, <1>3, <1>4, <1>5 DEF IInv

LEMMA KeepsChildExit ==
  ASSUME IInv, JobsAssumption, ChildExit
  PROVE  IInv'
<1>1. TypeOK'
  BY DEF TypeOK, ChildExit, IInv, jobVars, cancelVars
<1>2. Counted'
  BY DEF Counted, ChildExit, IInv, jobVars
<1>3. Asked'
  BY DEF Asked, ChildExit, IInv, cancelVars
<1>4. Progress'
  BY DEF Progress, ChildExit, IInv
<1>5. Tidy'
  BY DEF Tidy, ChildExit, IInv, jobVars, cancelVars
<1> QED BY <1>1, <1>2, <1>3, <1>4, <1>5 DEF IInv

LEMMA KeepsGather ==
  ASSUME IInv, JobsAssumption, Gather
  PROVE  IInv'
<1>1. TypeOK'
  BY DEF TypeOK, Gather, IInv, jobVars, cancelVars
<1>2. Counted'
  BY DEF Counted, Gather, SpawnedStep, IInv, jobVars
<1>3. Asked'
  BY DEF Asked, Gather, IInv, cancelVars
<1>4. Progress'
  BY DEF Progress, Unharmed, Threaded, Gather, IInv, jobVars, cancelVars
<1>5. Tidy'
  BY DEF Tidy, Gather, Ready, IInv, jobVars, cancelVars
<1> QED BY <1>1, <1>2, <1>3, <1>4, <1>5 DEF IInv

LEMMA KeepsReadOutput ==
  ASSUME IInv, JobsAssumption, ReadOutput
  PROVE  IInv'
<1>1. TypeOK'
  BY DEF TypeOK, ReadOutput, IInv, jobVars, cancelVars
<1>2. Counted'
  BY DEF Counted, ReadOutput, SpawnedStep, Dispatching, IInv, jobVars
<1>3. Asked'
  BY DEF Asked, ReadOutput, IInv, cancelVars
<1>4. Progress'
  BY DEF Progress, Unharmed, Threaded, ReadOutput, IInv, jobVars, cancelVars
<1>5. Tidy'
  BY DEF Tidy, ReadOutput, IInv, jobVars, cancelVars
<1> QED BY <1>1, <1>2, <1>3, <1>4, <1>5 DEF IInv

LEMMA KeepsWriteInput ==
  ASSUME IInv, JobsAssumption, WriteInput
  PROVE  IInv'
<1>1. TypeOK'
  BY DEF TypeOK, WriteInput, IInv, jobVars, cancelVars
<1>2. Counted'
  BY DEF Counted, WriteInput, SpawnedStep, Dispatching, IInv, jobVars
<1>3. Asked'
  BY DEF Asked, WriteInput, IInv, cancelVars
<1>4. Progress'
  BY DEF Progress, Unharmed, Threaded, WriteInput, IInv, jobVars, cancelVars
<1>5. Tidy'
  BY DEF Tidy, WriteInput, IInv, jobVars, cancelVars
<1> QED BY <1>1, <1>2, <1>3, <1>4, <1>5 DEF IInv

LEMMA KeepsChildWatch ==
  ASSUME IInv, JobsAssumption, ChildWatch
  PROVE  IInv'
<1>1. /\ signals' \in Seq(BOOLEAN) /\ signals' # <<>> /\ Len(signals') <= 2
      /\ exported' = FALSE /\ inhibited' = FALSE /\ aborted' \in BOOLEAN /\ (aborted' <=> ~exported)
      /\ exported => Len(signals') = 1 /\ Len(signals') <= 1
  BY EmitOnce DEF ChildWatch, SpawnedStep, Dispatching, IInv
<1>2. TypeOK'
  BY <1>1 DEF TypeOK, ChildWatch, Release, Errors, IInv, cancelVars
<1>3. Unharmed => exported
  BY DEF Counted, Unharmed, Tidy, ChildWatch, SpawnedStep, Dispatching, IInv
<1>4. Counted'
  BY <1>1, <1>3 DEF Counted, Unharmed, ChildWatch, SpawnedStep, Dispatching, cancelVars
<1>5. Asked'
  BY DEF Asked, ChildWatch, IInv, cancelVars
<1>6. Progress'
  BY DEF Progress, Tidy, Unharmed, Threaded, ChildWatch, SpawnedStep, Dispatching, IInv, cancelVars
<1>7. Tidy'
  BY <1>1 DEF Tidy, ChildWatch, SpawnedStep, Dispatching, Release, Errors, IInv, cancelVars
<1> QED BY <1>2, <1>4, <1>5, <1>6, <1>7 DEF IInv

LEMMA KeepsEmitError ==
  ASSUME IInv, JobsAssumption, EmitError
  PROVE  IInv'
<1>1. /\ signals' \in Seq(BOOLEAN) /\ signals' # <<>> /\ Len(signals') <= 2
      /\ exported' = FALSE /\ inhibited' = FALSE /\ aborted' \in BOOLEAN /\ (aborted' <=> ~exported)
      /\ exported => Len(signals') = 1 /\ Len(signals') <= 1
  BY EmitOnce DEF EmitError, SpawnedStep, Dispatching, IInv
<1>2. TypeOK'
  BY <1>1 DEF TypeOK, EmitError, SpawnedStep, Dispatching, Release, Errors, IInv, cancelVars
<1>3. Unharmed => exported
  BY DEF Counted, Unharmed, Tidy, TypeOK, EmitError, SpawnedStep, Dispatching, IInv
<1>4. Counted'
  BY <1>1, <1>3 DEF Counted, Unharmed, EmitError, SpawnedStep, Dispatching, cancelVars
<1>5. Asked'
  BY DEF Asked, EmitError, IInv, cancelVars
<1>6. Progress'
  BY DEF TypeOK, Progress, Tidy, Unharmed, Threaded, EmitError, SpawnedStep, Dispatching, IInv,
     cancelVars
<1>7. Tidy'
  BY <1>1 DEF TypeOK, Tidy, EmitError, Dispatching, Release, Errors, IInv, cancelVars
<1> QED BY <1>2, <1>4, <1>5, <1>6, <1>7 DEF IInv

LEMMA KeepsLoopEnd ==
  ASSUME IInv, JobsAssumption, LoopEnd
  PROVE  IInv'
<1>1. TypeOK'
  BY DEF TypeOK, LoopEnd, IInv, jobVars, cancelVars
<1>2. Counted'
  BY DEF Counted, LoopEnd, SpawnedStep, IInv, jobVars
<1>3. Asked'
  BY DEF Asked, LoopEnd, IInv, cancelVars
<1>4. Progress'
  BY DEF Progress, Unharmed, Threaded, LoopEnd, SpawnedStep, IInv, jobVars, cancelVars
<1>5. Tidy'
  BY DEF Tidy, LoopEnd, IInv, jobVars, cancelVars
<1> QED BY <1>1, <1>2, <1>3, <1>4, <1>5 DEF IInv

-----------------------------------------------------------------------------
(* Every state *)

LEMMA InitIInv ==
  ASSUME JobsAssumption, Init
  PROVE  IInv
<1>1. signals \in Seq(BOOLEAN) /\ Len(signals) <= 2 /\ Len(signals) <= 1
  BY DEF Init
<1>2. input \in 0..MaxInput /\ output \in 0..MaxOutput
  BY DEF Init
<1>3. TypeOK
  BY <1>1, <1>2 DEF Init, TypeOK
<1>4. Counted
  BY <1>1 DEF Init, Counted
<1>5. Asked /\ Progress /\ Tidy
  BY DEF Init, Asked, Progress, Tidy
<1> QED BY <1>3, <1>4, <1>5 DEF IInv

LEMMA StutterIInv ==
  ASSUME IInv, UNCHANGED vars
  PROVE  IInv'
BY DEF IInv, TypeOK, Counted, Asked, Progress, Tidy, Unharmed, Threaded, vars, jobVars, cancelVars,
   loopVars

LEMMA NextIInv ==
  ASSUME IInv, JobsAssumption, [Next]_vars
  PROVE  IInv'
BY StutterIInv, KeepsLaunch, KeepsSimpleBegin, KeepsSimpleEnd, KeepsSimpleComplete,
   KeepsThreadedStart, KeepsStartCheck, KeepsStartConnect, KeepsStartSpawn, KeepsFuncBegin,
   KeepsFuncEnd, KeepsThreadedFinish, KeepsGather, KeepsReadOutput, KeepsWriteInput,
   KeepsChildWatch, KeepsEmitError, KeepsLoopEnd, KeepsCancelCall, KeepsCancelJob, KeepsChildOutput,
   KeepsChildExit DEF Next, Launcher, Task, Loop, Client

\* The invariant with which the others are proved: a job is exported and inhibits
\* until its first Completed, and a spawned job that nobody cancels has one way to
\* complete, an error or the end of its command.
THEOREM Invariance == Spec => []IInv
<1>1. Init => IInv
  BY InitIInv, JobsAssumption
<1>2. IInv /\ [Next]_vars => IInv'
  BY NextIInv, JobsAssumption
<1> QED BY <1>1, <1>2, PTL DEF Spec

\* Every part of the state of a job keeps to its type, whoever cancels it, and
\* Completed is not emitted more than twice: the second time ends the daemon.
THEOREM TypeCorrect == Spec => []TypeOK
<1>1. IInv => TypeOK
  BY DEF IInv
<1> QED BY <1>1, Invariance, PTL

\* on_job_completed finds the object of the job (g_assert (object != NULL)), unless
\* a spawned job was cancelled.
THEOREM CompletesOnce == Spec => [](Unharmed => CompletedOnce)
<1>1. IInv => (Unharmed => CompletedOnce)
  BY DEF IInv, Counted, CompletedOnce
<1> QED BY <1>1, Invariance, PTL

\* A job that completed leaves no object, no inhibitor, no source, no connection and
\* no child, unless it is a spawned job that was cancelled.
THEOREM LeavesNothing == Spec => [](Unharmed => NothingLeftOver)
<1>1. IInv => (Unharmed => NothingLeftOver)
  BY DEF IInv, Counted, Progress, Tidy, Unharmed, NothingLeftOver
<1> QED BY <1>1, Invariance, PTL

\* Completed says success only of work that succeeded, and not of a threaded job
\* that was cancelled (job_finish), whoever cancels and whatever completes the job.
THEOREM SuccessIsClaimedRightly == Spec => SuccessIsReal
<1> DEFINE Real == signals' # signals /\ signals'[Len(signals')] => work = "done" /\ (Threaded => ~cancelled)
<1>1. IInv /\ [Next]_vars => [Real]_vars
  <2> SUFFICES ASSUME IInv, [Next]_vars, signals' # signals, signals'[Len(signals')]
               PROVE  work = "done" /\ (Threaded => ~cancelled)
    OBVIOUS
  <2>1. ASSUME NEW ok \in BOOLEAN, pc # "new", ~aborted, EmitCompleted(ok)
        PROVE  ok
    BY <2>1, EmitOnce DEF IInv
  <2>2. CASE SimpleComplete
    BY <2>1, <2>2 DEF SimpleComplete, Threaded
  <2>3. CASE ThreadedFinish
    BY <2>1, <2>3 DEF ThreadedFinish, TaskResult
  <2>4. CASE ChildWatch
    BY <2>1, <2>4 DEF ChildWatch, Dispatching, SpawnedStep, Threaded
  <2>5. CASE EmitError
    BY <2>1, <2>5 DEF EmitError, Dispatching, SpawnedStep
  <2>6. CASE UNCHANGED signals
    BY <2>6
  <2> QED BY <2>2, <2>3, <2>4, <2>5 DEF Next, Launcher, Task, Loop, Client, Launch, SimpleBegin,
             SimpleEnd, ThreadedStart, StartCheck, StartConnect, StartSpawn, FuncBegin, FuncEnd,
             Gather, ReadOutput, WriteInput, LoopEnd, CancelCall, CancelJob, ChildOutput, ChildExit,
             vars, jobVars
<1> QED BY <1>1, Invariance, PTL DEF Spec, SuccessIsReal

-----------------------------------------------------------------------------
(* The promise of the interface *)

\* How the stage that the interface shows follows the steps of the code.
LEMMA StageSame ==
  ASSUME UNCHANGED signals, pc # "new" /\ pc' # "new"
  PROVE  PromisedStage' = PromisedStage
BY DEF PromisedStage

LEMMA StageRunning ==
  ASSUME signals = <<>>, pc # "new"
  PROVE  PromisedStage = "running"
BY DEF PromisedStage

\* A step that changes nothing of what is promised.
LEMMA PromiseStutters ==
  ASSUME pc # "new", pc' # "new", UNCHANGED <<jobVars, PromisedWork>>
  PROVE  UNCHANGED Promise!vars
BY StageSame DEF Promise!vars, jobVars

LEMMA PromiseBegins ==
  ASSUME IInv, pc # "new", pc' # "new", UNCHANGED jobVars, signals = <<>>,
         work \in {"none", "queued"}, work' = "working"
  PROVE  Promise!Begin
BY StageSame, StageRunning DEF Promise!Begin, PromisedWork, jobVars

LEMMA PromiseEnds ==
  ASSUME IInv, Unharmed, pc # "new", UNCHANGED <<pc, jobVars>>, work = "working", work' \in {"done", "failed"}
  PROVE  Promise!End
BY StageSame, StageRunning DEF Promise!End, PromisedWork, jobVars, IInv, Progress

LEMMA PromiseCompletes ==
  ASSUME IInv, Unharmed, pc # "new", pc' # "new", ~aborted, signals = <<>>, work \notin {"queued", "working"},
         UNCHANGED work, NEW ok \in BOOLEAN, EmitCompleted(ok)
  PROVE  Promise!Complete
<1>1. exported /\ exported' = FALSE /\ inhibited' = FALSE /\ signals' # <<>> /\ Len(signals') = 1
  BY EmitOnce DEF IInv, Counted
<1>2. PromisedStage = "running" /\ PromisedStage' = "completed"
  BY <1>1 DEF PromisedStage
<1> QED BY <1>1, <1>2 DEF Promise!Complete, PromisedWork

\* The steps that the interface does not show.
LEMMA Unseen ==
  ASSUME IInv,
         \/ ThreadedStart \/ StartCheck \/ StartConnect \/ Gather \/ ReadOutput \/ WriteInput \/ LoopEnd
         \/ CancelCall \/ CancelJob \/ ChildOutput
  PROVE  UNCHANGED Promise!vars
<1>1. ASSUME UNCHANGED <<pc, work, jobVars>>
      PROVE  UNCHANGED Promise!vars
  BY <1>1 DEF Promise!vars, PromisedStage, PromisedWork, jobVars
<1>2. CASE ThreadedStart
  BY <1>2, PromiseStutters DEF ThreadedStart, IInv, Progress, PromisedWork
<1>3. CASE StartCheck \/ StartConnect \/ LoopEnd
  BY <1>3, PromiseStutters DEF StartCheck, StartConnect, LoopEnd, SpawnedStep, PromisedWork
<1>4. CASE \/ Gather \/ ReadOutput \/ WriteInput \/ CancelCall \/ CancelJob \/ ChildOutput
  BY <1>4, <1>1 DEF Gather, ReadOutput, WriteInput, CancelCall, CancelJob, ChildOutput
<1> QED BY <1>2, <1>3, <1>4

LEMMA PromiseStep ==
  ASSUME IInv, Unharmed, [Next]_vars
  PROVE  [Promise!Next]_(Promise!vars)
<1>1. CASE Launch
  <2>1. work = "none" /\ signals = <<>>
    BY <1>1 DEF Launch, IInv, Progress
  <2>2. PromisedStage = "none" /\ PromisedStage' = "running"
    BY <1>1, <2>1 DEF Launch, PromisedStage
  <2> QED BY <1>1, <2>2 DEF Launch, Promise!Launch, Promise!Next, PromisedWork
<1>2. CASE SimpleBegin
  BY <1>2, PromiseBegins DEF SimpleBegin, Promise!Next, IInv, Progress
<1>3. CASE FuncBegin
  <2>1. CASE cancelled
    BY <1>3, <2>1 DEF FuncBegin, Promise!vars, PromisedStage, PromisedWork, jobVars
  <2>2. CASE ~cancelled
    BY <1>3, <2>2, PromiseBegins DEF FuncBegin, Promise!Next, IInv, Progress
  <2> QED BY <2>1, <2>2
<1>4. CASE StartSpawn
  <2>1. CASE UNCHANGED work
    BY <1>4, <2>1, PromiseStutters DEF StartSpawn, SpawnedStep, PromisedWork
  <2>2. CASE work' = "working"
    BY <1>4, <2>2, PromiseBegins DEF StartSpawn, SpawnedStep, Promise!Next, IInv, Progress
  <2> QED BY <1>4, <2>1, <2>2 DEF StartSpawn
<1>5. CASE SimpleEnd \/ FuncEnd
  BY <1>5, PromiseEnds DEF SimpleEnd, FuncEnd, Promise!Next, IInv, Progress
<1>6. CASE ChildExit
  BY <1>6, PromiseEnds DEF ChildExit, Promise!Next, IInv, Progress, Tidy, Unharmed
<1>7. CASE SimpleComplete
  BY <1>7, PromiseCompletes DEF SimpleComplete, Promise!Next, IInv, Progress
<1>8. CASE ThreadedFinish
  BY <1>8, PromiseCompletes DEF ThreadedFinish, TaskOver, TaskResult, Promise!Next
<1>9. CASE ChildWatch
  BY <1>9, PromiseCompletes DEF ChildWatch, Dispatching, SpawnedStep, Promise!Next, IInv, Tidy,
     Unharmed
<1>10. CASE EmitError
  BY <1>10, PromiseCompletes DEF EmitError, Dispatching, SpawnedStep, Promise!Next, IInv, TypeOK,
     Tidy, Unharmed
<1>11. CASE UNCHANGED vars
  BY <1>11 DEF vars, jobVars, Promise!vars, PromisedStage, PromisedWork
<1> QED BY <1>1, <1>2, <1>3, <1>4, <1>5, <1>6, <1>7, <1>8, <1>9, <1>10, <1>11, Unseen DEF Next,
           Launcher, Task, Loop, Client

LEMMA PromiseInit ==
  ASSUME Init
  PROVE  Promise!Init
BY DEF Init, Promise!Init, PromisedStage, PromisedWork

\* Every job keeps the safety part of the promise of org.freedesktop.UDisks2.Job
\* until it is a spawned job that is cancelled: the object is shown and the system
\* inhibited from the launch to the one Completed, after the work has stopped.
THEOREM ImplementsPromise == Spec /\ []Unharmed => Promise!Init /\ [][Promise!Next]_(Promise!vars)
<1>1. Init => Promise!Init
  BY PromiseInit
<1>2. IInv /\ Unharmed /\ [Next]_vars => [Promise!Next]_(Promise!vars)
  BY PromiseStep
<1> QED BY <1>1, <1>2, Invariance, PTL DEF Spec

\* Where no spawned job is ever cancelled by a client nothing is excepted.
THEOREM UncancelledImplementsPromise ==
  ASSUME "spawned" \notin Cancelled
  PROVE  Spec => [](NothingLeftOver /\ CompletedOnce) /\ Promise!Init /\ [][Promise!Next]_(Promise!vars)
<1>1. IInv => Unharmed
  BY DEF IInv, Asked, Unharmed
<1> QED BY <1>1, Invariance, CompletesOnce, LeavesNothing, ImplementsPromise, PTL
=============================================================================
