------------------------- MODULE MethodCallsProofs -------------------------
(***************************************************************************)
(* MethodCalls implements HandlerAlone for each of its threads.            *)
(***************************************************************************)
EXTENDS MethodCalls, TLAPS

-----------------------------------------------------------------------------
(* The inductive invariant *)

\* The clean-up thread has the state locked as long as it runs, and the device
\* it works on: what it unlocks at the end of its check is no handler's.
CleanerHolds ==
  /\ cleaner # "idle" => holder["state"] = Cleaner
  /\ cleaner = "device" => holder["cleanup"] = Cleaner

\* A thread that is in no call has nothing to do, and one that waits for a uevent
\* is at the step that sent it.
ThreadsRest ==
  \A t \in Threads :
    /\ call[t] = "idle" => todo[t] = <<>>
    /\ waiting[t] => NextIs(t, "uevent")

\* A uevent that carries the name of a thread is the one it waits for, and the
\* only one; once probed it shows what the thread has changed.
Expected(t) ==
  /\ \A i \in DOMAIN queue : queue[i] = t => waiting[t]
  /\ \A i \in DOMAIN probed : probed[i].whose = t =>
       waiting[t] /\ (t \in unseen => t \in probed[i].read)
SentOnce(t) ==
  /\ \A i, j \in DOMAIN queue : queue[i] = t /\ queue[j] = t => i = j
  /\ \A i, j \in DOMAIN probed : probed[i].whose = t /\ probed[j].whose = t => i = j
  /\ \A i \in DOMAIN queue, j \in DOMAIN probed : ~(queue[i] = t /\ probed[j].whose = t)
UeventsExpected == \A t \in Threads : Expected(t) /\ SentOnce(t)

IInv == TypeOK /\ CleanerHolds /\ ThreadsRest /\ UeventsExpected

-----------------------------------------------------------------------------
(* Sequences *)

Uevents == [whose : Threads \union {"kernel"}, read : SUBSET Actors]

LEMMA MappedSeq ==
  ASSUME NEW S, NEW R, NEW s \in Seq(S), NEW f, f = [i \in DOMAIN s |-> f[i]],
         \A i \in DOMAIN s : f[i] \in R
  PROVE  f \in Seq(R)
<1>1. DOMAIN s = 1..Len(s) /\ Len(s) \in Nat OBVIOUS
<1>2. f \in [1..Len(s) -> R] BY <1>1
<1> QED BY <1>1, <1>2

LEMMA Appended ==
  ASSUME NEW S, NEW s \in Seq(S), NEW e \in S
  PROVE  /\ Append(s, e) \in Seq(S)
         /\ DOMAIN Append(s, e) = DOMAIN s \union {Len(s) + 1}
         /\ Len(s) + 1 \notin DOMAIN s
         /\ \A i \in DOMAIN s : Append(s, e)[i] = s[i]
         /\ Append(s, e)[Len(s) + 1] = e
OBVIOUS

LEMMA TailOf ==
  ASSUME NEW S, NEW s \in Seq(S), s # <<>>
  PROVE  /\ Tail(s) \in Seq(S) /\ Head(s) \in S /\ Head(s) = s[1] /\ 1 \in DOMAIN s
         /\ \A i \in DOMAIN Tail(s) : i + 1 \in DOMAIN s /\ Tail(s)[i] = s[i + 1] /\ i \in Nat \ {0}
OBVIOUS

-----------------------------------------------------------------------------
(* Types *)

LEMMA InitTyped == Init => TypeOK
<1> SUFFICES ASSUME Init PROVE TypeOK OBVIOUS
<1>1. answers \in [Threads -> Seq({"reply", "error", "early"})] BY DEF Init
<1>2. late \in [Threads -> 0..MaxTimeouts] BY MethodsAssumption DEF Init
<1>3. ThreadsTyped BY <1>1, <1>2 DEF Init, ThreadsTyped
<1>4. ViewTyped
  <2>1. queue \in Seq(Threads \union {"kernel"}) BY DEF Init
  <2>2. probed \in Seq([whose : Threads \union {"kernel"}, read : SUBSET Actors]) BY DEF Init
  <2>3. unseen \subseteq Actors BY DEF Init
  <2> QED BY <2>1, <2>2, <2>3 DEF ViewTyped
<1>5. rounds \in 0..MaxRounds BY MethodsAssumption DEF Init
<1>6. CleanerTyped BY <1>5 DEF Init, CleanerTyped
<1>7. calls \in 0..MaxCalls /\ holder \in [Mutexes -> Actors \union {"none"}]
  BY MethodsAssumption DEF Init
<1> QED BY <1>3, <1>4, <1>6, <1>7 DEF TypeOK

\* What does not change keeps its type.
LEMMA SameThreads == ThreadsTyped /\ UNCHANGED threadVars => ThreadsTyped'
BY DEF ThreadsTyped, threadVars
LEMMA SameView == ViewTyped /\ UNCHANGED viewVars => ViewTyped'
BY DEF ViewTyped, viewVars
LEMMA SameCleaner == CleanerTyped /\ UNCHANGED cleanerVars => CleanerTyped'
BY DEF CleanerTyped, cleanerVars

LEMMA ChangeTyped ==
  ASSUME ViewTyped, NEW a \in Actors, Change(a)
  PROVE  ViewTyped'
<1>1. probed \in Seq(Uevents) BY DEF ViewTyped, Uevents
<1>2. \A i \in DOMAIN probed : probed[i] \in Uevents BY <1>1
<1>3. \A i \in DOMAIN probed : probed'[i] \in Uevents BY <1>2 DEF Change, Uevents
<1>4. probed' = [i \in DOMAIN probed |-> probed'[i]] BY DEF Change
<1>5. probed' \in Seq(Uevents) BY <1>1, <1>3, <1>4, MappedSeq
<1>6. unseen' \subseteq Actors /\ queue' = queue BY DEF Change, ViewTyped
<1> QED BY <1>5, <1>6 DEF ViewTyped, Uevents

LEMMA DisownedTyped ==
  ASSUME ViewTyped, NEW t \in Threads, Disowned(t), UNCHANGED unseen
  PROVE  ViewTyped'
<1>1. probed \in Seq(Uevents) /\ queue \in Seq(Threads \union {"kernel"}) BY DEF ViewTyped, Uevents
<1>2. \A i \in DOMAIN probed : probed[i] \in Uevents BY <1>1
<1>3. \A i \in DOMAIN probed : probed'[i] \in Uevents BY <1>2 DEF Disowned, Uevents
<1>4. probed' = [i \in DOMAIN probed |-> probed'[i]] BY DEF Disowned
<1>5. probed' \in Seq(Uevents) BY <1>1, <1>3, <1>4, MappedSeq
<1>6. \A i \in DOMAIN queue : queue[i] \in Threads \union {"kernel"} BY <1>1
<1>7. \A i \in DOMAIN queue : queue'[i] \in Threads \union {"kernel"} BY <1>6 DEF Disowned
<1>8. queue' = [i \in DOMAIN queue |-> queue'[i]] BY DEF Disowned
<1>9. queue' \in Seq(Threads \union {"kernel"}) BY <1>1, <1>7, <1>8, MappedSeq
<1> QED BY <1>5, <1>9 DEF ViewTyped, Uevents

\* The thread's own variables, step by step.
LEMMA OwnTyped ==
  ASSUME ThreadsTyped, NEW t \in Threads, ThreadStep(t) \/ GiveUp(t) \/ \E p \in DOMAIN Programs : Begin(t, p)
  PROVE  ThreadsTyped'
<1> USE DEF ThreadsTyped
<1>1. CASE End(t)
  <2>1. answers' \in [Threads -> Seq({"reply", "error", "early"})] BY <1>1 DEF End
  <2>2. late' \in [Threads -> 0..MaxTimeouts] BY <1>1, MethodsAssumption DEF End
  <2>3. pools' \in [Threads -> {"shown", "changed", "asked", "left"}] BY <1>1 DEF End
  <2> QED BY <1>1, <2>1, <2>2, <2>3 DEF End
<1>2. CASE GoOut(t) \/ Choose(t) \/ TestStep(t) \/ TakeMutex(t) \/ PassThrough(t) \/ LeaveMutex(t)
           \/ Ask(t) \/ Trigger(t) \/ Arrive(t)
  <2>1. UNCHANGED <<call, found, answers, job, changed, late, flocked, pools>>
    BY <1>2 DEF GoOut, Choose, TestStep, TakeMutex, PassThrough, LeaveMutex, Ask, Trigger, Arrive
  <2>2. DOMAIN todo' = DOMAIN todo
    BY <1>2 DEF GoOut, Choose, TestStep, TakeMutex, PassThrough, LeaveMutex, Ask, Trigger, Arrive,
      Continue, Fail
  <2>3. waiting' \in [Threads -> BOOLEAN]
    BY <1>2 DEF GoOut, Choose, TestStep, TakeMutex, PassThrough, LeaveMutex, Ask, Trigger, Arrive
  <2> QED BY <2>1, <2>2, <2>3
<1>3. CASE Send(t)
  <2>1. answers[t] \in Seq({"reply", "error", "early"}) OBVIOUS
  <2>2. \A a \in {"reply", "error", "early"} : Append(answers[t], a) \in Seq({"reply", "error", "early"})
    BY <2>1, Appended
  <2>3. \A a \in {"reply", "error", "early"} :
         Answer(t, a) => answers' \in [Threads -> Seq({"reply", "error", "early"})]
    BY <2>2 DEF Answer
  <2>4. UNCHANGED answers \/ Answer(t, "reply") \/ Answer(t, "error") \/ Answer(t, "early") BY <1>3 DEF Send
  <2>5. answers' \in [Threads -> Seq({"reply", "error", "early"})] BY <2>3, <2>4
  <2> QED BY <1>3, <2>5 DEF Send, Continue
<1>4. CASE LookUp(t) BY <1>4 DEF LookUp, Continue, Fail
<1>5. CASE JobStep(t) BY <1>5 DEF JobStep, Continue
<1>6. CASE Work(t) BY <1>6 DEF Work, Changes, Continue, Fail
<1>7. CASE PoolStep(t) BY <1>7 DEF PoolStep, Continue, Fail
<1>8. CASE TableLock(t) BY <1>8 DEF TableLock, Continue
<1>9. CASE GiveUp(t)
  <2>0. late' = [late EXCEPT ![t] = @ + 1] /\ late[t] < MaxTimeouts
    BY <1>9 DEF GiveUp, GiveUpUevent, GiveUpObject
  <2>1. late' \in [Threads -> 0..MaxTimeouts]
    <3>1. late[t] + 1 \in 0..MaxTimeouts BY <2>0, MethodsAssumption
    <3> QED BY <2>0, <3>1
  <2> QED BY <1>9, <2>1 DEF GiveUp, GiveUpUevent, GiveUpObject, Continue, Fail
<1>10. CASE \E p \in DOMAIN Programs : Begin(t, p) BY <1>10 DEF Begin
<1> QED BY <1>1, <1>2, <1>3, <1>4, <1>5, <1>6, <1>7, <1>8, <1>9, <1>10 DEF ThreadStep

\* What its steps do to the rest.
LEMMA SharedTyped ==
  ASSUME TypeOK, NEW t \in Threads, ThreadStep(t) \/ GiveUp(t) \/ \E p \in DOMAIN Programs : Begin(t, p)
  PROVE  /\ calls' \in 0..MaxCalls /\ holder' \in [Mutexes -> Actors \union {"none"}]
         /\ ViewTyped' /\ CleanerTyped'
<1> USE DEF TypeOK
<1>1. CASE Ask(t)
  BY <1>1, SameView DEF Ask, CleanerTyped
<1>2. CASE Work(t)
  <2>1. Changes(t) => ViewTyped' BY ChangeTyped DEF Changes, Actors
  <2>2. Changes(t) \/ UNCHANGED viewVars BY <1>2 DEF Work
  <2> QED BY <1>2, <2>1, <2>2, SameView, SameCleaner DEF Work
<1>3. CASE Trigger(t)
  <2>1. Append(queue, t) \in Seq(Threads \union {"kernel"}) BY Appended DEF ViewTyped
  <2>2. ViewTyped' BY <1>3, <2>1 DEF Trigger, ViewTyped
  <2> QED BY <1>3, <2>2, SameCleaner DEF Trigger
<1>4. CASE TakeMutex(t) BY <1>4, SameView, SameCleaner DEF TakeMutex, Actors
<1>5. CASE LeaveMutex(t) BY <1>5, SameView, SameCleaner DEF LeaveMutex
<1>6. CASE GiveUp(t)
  BY <1>6, DisownedTyped, SameView, SameCleaner DEF GiveUp, GiveUpUevent, GiveUpObject
<1>7. CASE \E p \in DOMAIN Programs : Begin(t, p)
  BY <1>7, MethodsAssumption, SameView, SameCleaner DEF Begin
<1>8. CASE ~Ask(t) /\ ~Work(t) /\ ~Trigger(t) /\ ~TakeMutex(t) /\ ~LeaveMutex(t) /\ ThreadStep(t)
  <2>1. UNCHANGED <<calls, holder, viewVars, cleanerVars>>
    BY <1>8 DEF ThreadStep, End, GoOut, Choose, Send, TestStep, LookUp, PassThrough, JobStep, PoolStep,
                Arrive, TableLock
  <2> QED BY <2>1, SameView, SameCleaner
<1> QED BY <1>1, <1>2, <1>3, <1>4, <1>5, <1>6, <1>7, <1>8

LEMMA ProbeTyped == ASSUME ViewTyped, Probe PROVE ViewTyped'
<1>1. queue # <<>> => /\ Tail(queue) \in Seq(Threads \union {"kernel"})
                      /\ Head(queue) \in Threads \union {"kernel"}
  BY TailOf DEF ViewTyped
<1>2. ASSUME NEW w \in Threads \union {"kernel"}, ProbeFor(w) PROVE probed' \in Seq(Uevents)
  <2>1. [whose |-> w, read |-> unseen] \in Uevents BY DEF Uevents, ViewTyped
  <2>2. probed \in Seq(Uevents) BY DEF Uevents, ViewTyped
  <2> QED BY <1>2, <2>1, <2>2, Appended DEF ProbeFor
<1>3. queue' \in Seq(Threads \union {"kernel"}) BY <1>1 DEF Probe, ViewTyped
<1>4. probed' \in Seq(Uevents) BY <1>1, <1>2 DEF Probe
<1> QED BY <1>3, <1>4 DEF ViewTyped, Uevents, Probe

LEMMA ApplyTyped == ASSUME TypeOK, Apply PROVE TypeOK'
<1>1. ViewTyped'
  <2>1. probed' \in Seq(Uevents) BY TailOf DEF Apply, TypeOK, ViewTyped, Uevents
  <2> QED BY <2>1 DEF Apply, TypeOK, ViewTyped, Uevents
<1>2. ThreadsTyped' BY DEF Apply, TypeOK, ThreadsTyped
<1> QED BY <1>1, <1>2, SameCleaner DEF Apply, TypeOK

LEMMA CleanerStepTyped == ASSUME TypeOK, CleanerStep PROVE TypeOK'
<1> USE DEF TypeOK
<1>1. CASE CleanerStart
  <2>1. rounds' \in 0..MaxRounds
    <3>1. rounds \in 0..MaxRounds /\ rounds > 0 /\ rounds' = rounds - 1 /\ MaxRounds \in Nat
      BY <1>1, MethodsAssumption DEF CleanerStart, CleanerTyped
    <3> QED BY <3>1
  <2>2. CleanerTyped' BY <1>1, <2>1 DEF CleanerStart, CleanerTyped
  <2> QED BY <1>1, <2>2, SameThreads, SameView DEF CleanerStart, Actors
<1>2. CASE CleanerTry
  <2>1. CleanerTyped' BY <1>2 DEF CleanerTry, CleanerTyped
  <2> QED BY <1>2, <2>1, SameThreads, SameView DEF CleanerTry, Actors
<1>3. CASE CleanerWork
  <2>1. CleanerTyped' BY <1>3 DEF CleanerWork, CleanerTyped
  <2> QED BY <1>3, <2>1, ChangeTyped, SameThreads DEF CleanerWork, Actors
<1>4. CASE CleanerEnd
  <2>1. CleanerTyped' BY <1>4 DEF CleanerEnd, CleanerTyped
  <2> QED BY <1>4, <2>1, SameThreads, SameView DEF CleanerEnd
<1> QED BY <1>1, <1>2, <1>3, <1>4 DEF CleanerStep

LEMMA Typed == TypeOK /\ [Next]_vars => TypeOK'
<1> SUFFICES ASSUME TypeOK, [Next]_vars PROVE TypeOK' OBVIOUS
<1>1. ASSUME NEW t \in Threads, ThreadStep(t) \/ GiveUp(t) \/ \E p \in DOMAIN Programs : Begin(t, p)
      PROVE TypeOK'
  BY <1>1, OwnTyped, SharedTyped DEF TypeOK
<1>2. CASE Probe BY <1>2, ProbeTyped, SameThreads, SameCleaner DEF Probe, TypeOK
<1>3. CASE Apply BY <1>3, ApplyTyped
<1>4. CASE AnswerRequest \/ PeriodicPoll
  <2>1. ThreadsTyped' BY <1>4 DEF AnswerRequest, PeriodicPoll, ListPools, TypeOK, ThreadsTyped
  <2> QED BY <1>4, <2>1, SameView, SameCleaner DEF AnswerRequest, PeriodicPoll, ListPools, TypeOK
<1>5. CASE CleanerStep BY <1>5, CleanerStepTyped
<1>6. CASE UNCHANGED vars BY <1>6, SameThreads, SameView, SameCleaner DEF vars, TypeOK
<1> QED BY <1>1, <1>2, <1>3, <1>4, <1>5, <1>6 DEF Next

-----------------------------------------------------------------------------
(* Steps of a thread and of the others *)

OwnStep(t) == ThreadStep(t) \/ GiveUp(t) \/ \E p \in DOMAIN Programs : Begin(t, p)
OtherStep == Probe \/ Apply \/ AnswerRequest \/ PeriodicPoll \/ CleanerStep

LEMMA Steps == Next <=> (\E t \in Threads : OwnStep(t)) \/ OtherStep
BY DEF Next, OwnStep, OtherStep

\* A thread's step is about itself.
LEMMA OwnOnly ==
  ASSUME TypeOK, NEW t \in Threads, OwnStep(t), NEW u \in Threads, u # t
  PROVE  /\ call'[u] = call[u] /\ todo'[u] = todo[u] /\ found'[u] = found[u] /\ answers'[u] = answers[u]
         /\ waiting'[u] = waiting[u] /\ job'[u] = job[u] /\ changed'[u] = changed[u] /\ late'[u] = late[u]
         /\ flocked'[u] = flocked[u] /\ pools'[u] = pools[u]
         /\ UNCHANGED cleaner
<1>1. CASE ThreadStep(t)
  BY <1>1 DEF ThreadStep, End, GoOut, Choose, Send, TestStep, LookUp, TakeMutex, PassThrough,
    LeaveMutex, Ask,
    JobStep, Work, Changes, Trigger, PoolStep, Arrive, TableLock, Answer, Continue, Fail, TypeOK,
    ThreadsTyped, cleanerVars
<1>2. CASE GiveUp(t) \/ \E p \in DOMAIN Programs : Begin(t, p)
  BY <1>2 DEF GiveUp, GiveUpUevent, GiveUpObject, Begin, Continue, Fail, TypeOK, ThreadsTyped, cleanerVars
<1> QED BY <1>1, <1>2 DEF OwnStep

\* It takes a mutex that is free, or gives back its own.
LEMMA OwnHolding ==
  ASSUME TypeOK, NEW t \in Threads, OwnStep(t), NEW m \in Mutexes
  PROVE  holder'[m] = holder[m] \/ {holder[m], holder'[m]} = {"none", t}
<1>1. CASE TakeMutex(t) BY <1>1 DEF TakeMutex, Free, TypeOK
<1>2. CASE LeaveMutex(t) BY <1>2 DEF LeaveMutex, TypeOK
<1>3. CASE ~TakeMutex(t) /\ ~LeaveMutex(t)
  BY <1>3 DEF OwnStep, ThreadStep, GiveUp, End, GoOut, Choose, Send, TestStep, LookUp, PassThrough,
    Ask, JobStep, Work,
    Trigger, PoolStep, Arrive, TableLock, GiveUpUevent, GiveUpObject, Begin
<1> QED BY <1>1, <1>2, <1>3

\* The view changes by what it changes, by the uevent it sends and by one it
\* gives up.
LEMMA OwnView ==
  ASSUME NEW t \in Threads, OwnStep(t)
  PROVE  \/ UNCHANGED <<viewVars, waiting>>
         \/ Change(t) /\ UNCHANGED waiting /\ (NextIs(t, "tool") \/ NextIs(t, "attempt"))
         \/ /\ NextIs(t, "uevent") /\ ~waiting[t] /\ waiting' = [waiting EXCEPT ![t] = TRUE]
            /\ queue' = Append(queue, t) /\ UNCHANGED <<unseen, probed>>
         \/ Disowned(t) /\ waiting' = [waiting EXCEPT ![t] = FALSE] /\ UNCHANGED unseen
<1>1. CASE Work(t) BY <1>1 DEF Work, Changes
<1>2. CASE Trigger(t) BY <1>2 DEF Trigger, viewVars
<1>3. CASE GiveUpUevent(t) BY <1>3 DEF GiveUpUevent
<1>4. CASE ~Work(t) /\ ~Trigger(t) /\ ~GiveUpUevent(t)
  BY <1>4 DEF OwnStep, ThreadStep, GiveUp, End, GoOut, Choose, Send, TestStep, LookUp, TakeMutex,
    PassThrough, LeaveMutex,
    Ask, JobStep, PoolStep, Arrive, TableLock, GiveUpObject, Begin
<1> QED BY <1>1, <1>2, <1>3, <1>4

-----------------------------------------------------------------------------
(* The invariant *)

LEMMA CleanerKeeps == ASSUME TypeOK, CleanerHolds, [Next]_vars PROVE CleanerHolds'
<1>1. ASSUME NEW t \in Threads, OwnStep(t) PROVE CleanerHolds'
  <2>1. Cleaner # t /\ Cleaner # "none" BY MethodsAssumption
  <2>2. \A m \in Mutexes : holder[m] = Cleaner => holder'[m] = Cleaner BY <1>1, <2>1, OwnHolding
  <2>3. UNCHANGED cleaner
    BY <1>1 DEF OwnStep, ThreadStep, GiveUp, End, GoOut, Choose, Send, TestStep, LookUp, TakeMutex,
      PassThrough,
      LeaveMutex, Ask, JobStep, Work, Trigger, PoolStep, Arrive, TableLock, GiveUpUevent, GiveUpObject,
      Begin, cleanerVars
  <2>4. "state" \in Mutexes /\ "cleanup" \in Mutexes BY DEF Mutexes
  <2> QED BY <2>2, <2>3, <2>4 DEF CleanerHolds
<1>2. CASE Probe \/ Apply \/ AnswerRequest \/ PeriodicPoll
  BY <1>2 DEF Probe, Apply, AnswerRequest, PeriodicPoll, ListPools, CleanerHolds, cleanerVars
<1>3. CASE CleanerStep
  BY <1>3 DEF CleanerStep, CleanerStart, CleanerTry, CleanerWork, CleanerEnd, CleanerHolds, TypeOK,
    CleanerTyped, Mutexes
<1>4. CASE UNCHANGED vars BY <1>4 DEF vars, cleanerVars, CleanerHolds
<1> QED BY <1>1, <1>2, <1>3, <1>4, Steps DEF OtherStep

LEMMA OwnRests ==
  ASSUME TypeOK, ThreadsRest, NEW t \in Threads, OwnStep(t)
  PROVE  /\ call'[t] = "idle" => todo'[t] = <<>>
         /\ waiting'[t] => NextIs(t, "uevent")'
<1> USE DEF TypeOK, ThreadsTyped, ThreadsRest
<1>1. CASE End(t) BY <1>1 DEF End, NextIs
<1>2. CASE Trigger(t) BY <1>2 DEF Trigger, NextIs, Continue
<1>3. CASE GiveUpUevent(t) BY <1>3 DEF GiveUpUevent, NextIs
<1>4. CASE \E p \in DOMAIN Programs : Begin(t, p)
  BY <1>4, MethodsAssumption DEF Begin, NextIs
<1>5. CASE ~End(t) /\ ~Trigger(t) /\ ~GiveUpUevent(t) /\ (ThreadStep(t) \/ GiveUp(t))
  <2>1. call'[t] = call[t] /\ waiting'[t] = waiting[t]
    BY <1>5 DEF ThreadStep, GiveUp, GoOut, Choose, Send, TestStep, LookUp, TakeMutex, PassThrough,
      LeaveMutex, Ask, JobStep, Work, PoolStep, Arrive, TableLock, GiveUpObject
  <2>2. todo[t] # <<>> /\ ~NextIs(t, "uevent")
    BY <1>5 DEF ThreadStep, GiveUp, GoOut, Choose, Send, TestStep, LookUp, TakeMutex, PassThrough,
      LeaveMutex, Ask, JobStep, Work, PoolStep, Arrive, TableLock, GiveUpObject, NextIs
  <2> QED BY <2>1, <2>2
<1> QED BY <1>1, <1>2, <1>3, <1>4, <1>5 DEF OwnStep

LEMMA ThreadsKeepRest == ASSUME TypeOK, ThreadsRest, [Next]_vars PROVE ThreadsRest'
<1>1. ASSUME NEW t \in Threads, OwnStep(t) PROVE ThreadsRest'
  <2> SUFFICES ASSUME NEW u \in Threads
               PROVE  /\ call'[u] = "idle" => todo'[u] = <<>>
                      /\ waiting'[u] => NextIs(u, "uevent")'
    BY DEF ThreadsRest
  <2>1. CASE u = t BY <1>1, <2>1, OwnRests
  <2>2. CASE u # t BY <1>1, <2>2, OwnOnly DEF ThreadsRest, NextIs
  <2> QED BY <2>1, <2>2
<1>2. CASE Apply
  <2> SUFFICES ASSUME NEW u \in Threads
               PROVE  /\ call'[u] = "idle" => todo'[u] = <<>>
                      /\ waiting'[u] => NextIs(u, "uevent")'
    BY DEF ThreadsRest
  <2>1. call'[u] = call[u] BY <1>2 DEF Apply
  <2>2. CASE u = Head(probed).whose /\ waiting[u]
    BY <1>2, <2>1, <2>2 DEF Apply, ThreadsRest, NextIs
  <2>3. CASE ~(u = Head(probed).whose /\ waiting[u])
    BY <1>2, <2>1, <2>3 DEF Apply, ThreadsRest, NextIs
  <2> QED BY <2>2, <2>3
<1>3. CASE Probe \/ AnswerRequest \/ PeriodicPoll \/ CleanerStep \/ UNCHANGED vars
  <2>1. UNCHANGED <<call, todo, waiting>>
    BY <1>3 DEF Probe, AnswerRequest, PeriodicPoll, ListPools, CleanerStep, CleanerStart, CleanerTry,
      CleanerWork,
      CleanerEnd, vars, threadVars
  <2> QED BY <2>1 DEF ThreadsRest, NextIs
<1> QED BY <1>1, <1>2, <1>3, Steps DEF OtherStep

\* A thread that does not wait has sent no uevent that is still on its way.
LEMMA Unsent ==
  ASSUME NEW t \in Threads, Expected(t), ~waiting[t]
  PROVE  (\A i \in DOMAIN queue : queue[i] # t) /\ (\A i \in DOMAIN probed : probed[i].whose # t)
BY DEF Expected

LEMMA ChangeExpected ==
  ASSUME TypeOK, NEW a \in Actors, Change(a), UNCHANGED waiting,
         NEW u \in Threads, Expected(u), SentOnce(u), u = a => ~waiting[u]
  PROVE  Expected(u)' /\ SentOnce(u)'
<1>1. DOMAIN probed' = DOMAIN probed /\ queue' = queue BY DEF Change
<1>2. \A i \in DOMAIN probed : probed[i] \in Uevents
  <2>1. probed \in Seq(Uevents) BY DEF TypeOK, ViewTyped, Uevents
  <2> QED BY <2>1
<1>3. \A i \in DOMAIN probed : probed'[i].whose = probed[i].whose /\ probed'[i].read = probed[i].read \ {a}
  BY <1>2 DEF Change, Uevents
<1>4. SentOnce(u)' BY <1>1, <1>3 DEF SentOnce
<1>5. \A i \in DOMAIN queue' : queue'[i] = u => waiting'[u] BY <1>1 DEF Expected
<1>6. \A i \in DOMAIN probed' :
        probed'[i].whose = u => waiting'[u] /\ (u \in unseen' => u \in probed'[i].read)
  <2> SUFFICES ASSUME NEW i \in DOMAIN probed', probed'[i].whose = u
               PROVE  waiting'[u] /\ (u \in unseen' => u \in probed'[i].read)
    OBVIOUS
  <2>1. i \in DOMAIN probed /\ probed[i].whose = u BY <1>1, <1>3
  <2>2. waiting[u] /\ (u \in unseen => u \in probed[i].read) BY <2>1 DEF Expected
  <2>3. u # a BY <2>2
  <2>4. u \in unseen' => u \in unseen BY <2>3 DEF Change
  <2> QED BY <1>3, <2>1, <2>2, <2>3, <2>4
<1>7. Expected(u)' BY <1>5, <1>6 DEF Expected
<1> QED BY <1>4, <1>7

LEMMA SendExpected ==
  ASSUME TypeOK, NEW t \in Threads, ~waiting[t], waiting' = [waiting EXCEPT ![t] = TRUE],
         queue' = Append(queue, t), UNCHANGED <<unseen, probed>>,
         NEW u \in Threads, Expected(u), SentOnce(u)
  PROVE  Expected(u)' /\ SentOnce(u)'
<1>1. /\ DOMAIN queue' = DOMAIN queue \union {Len(queue) + 1} /\ Len(queue) + 1 \notin DOMAIN queue
      /\ \A i \in DOMAIN queue : queue'[i] = queue[i]
      /\ queue'[Len(queue) + 1] = t
  <2>1. queue \in Seq(Threads \union {"kernel"}) /\ t \in Threads \union {"kernel"} BY DEF TypeOK, ViewTyped
  <2> QED BY <2>1, Appended
<1>2. waiting'[t] /\ (u # t => waiting'[u] = waiting[u]) BY DEF TypeOK, ThreadsTyped
<1>3. u = t => (\A i \in DOMAIN queue : queue[i] # u) /\ (\A i \in DOMAIN probed : probed[i].whose # u)
  BY Unsent
<1>4. Expected(u)' BY <1>1, <1>2, <1>3 DEF Expected
<1>5. SentOnce(u)'
  <2>1. CASE u = t BY <1>1, <1>3, <2>1 DEF SentOnce
  <2>2. CASE u # t BY <1>1, <2>2 DEF SentOnce
  <2> QED BY <2>1, <2>2
<1> QED BY <1>4, <1>5

LEMMA DisownedExpected ==
  ASSUME TypeOK, NEW t \in Threads, Disowned(t), waiting' = [waiting EXCEPT ![t] = FALSE], UNCHANGED unseen,
         NEW u \in Threads, Expected(u), SentOnce(u)
  PROVE  Expected(u)' /\ SentOnce(u)'
<1>1. DOMAIN probed' = DOMAIN probed /\ DOMAIN queue' = DOMAIN queue BY DEF Disowned
<1>2. \A i \in DOMAIN probed : probed[i] \in Uevents
  <2>1. probed \in Seq(Uevents) BY DEF TypeOK, ViewTyped, Uevents
  <2> QED BY <2>1
<1>3. u # "kernel" BY MethodsAssumption
<1>4. \A i \in DOMAIN probed :
        /\ probed'[i].whose = u <=> probed[i].whose = u /\ u # t
        /\ probed'[i].read = probed[i].read
  BY <1>2, <1>3 DEF Disowned, Uevents
<1>5. \A i \in DOMAIN queue : queue'[i] = u <=> queue[i] = u /\ u # t
  BY <1>3 DEF Disowned
<1>6. u # t => waiting'[u] = waiting[u] BY DEF TypeOK, ThreadsTyped
<1>7. Expected(u)' BY <1>1, <1>4, <1>5, <1>6 DEF Expected
<1>8. SentOnce(u)' BY <1>1, <1>4, <1>5 DEF SentOnce
<1> QED BY <1>7, <1>8

LEMMA ProbeExpected ==
  ASSUME TypeOK, Probe, NEW u \in Threads, Expected(u), SentOnce(u)
  PROVE  Expected(u)' /\ SentOnce(u)'
<1> DEFINE n == Len(probed) + 1
<1>1. ASSUME NEW w \in Threads \union {"kernel"}, ProbeFor(w)
      PROVE  /\ DOMAIN probed' = DOMAIN probed \union {n} /\ n \notin DOMAIN probed
             /\ \A i \in DOMAIN probed : probed'[i] = probed[i]
             /\ probed'[n].whose = w /\ probed'[n].read = unseen
  <2>1. [whose |-> w, read |-> unseen] \in Uevents BY DEF Uevents, TypeOK, ViewTyped
  <2>2. probed \in Seq(Uevents) BY DEF Uevents, TypeOK, ViewTyped
  <2> QED BY <1>1, <2>1, <2>2, Appended DEF ProbeFor
<1>2. UNCHANGED <<unseen, waiting>> BY DEF Probe, threadVars
<1>3. CASE queue # <<>> /\ ProbeFor(Head(queue)) /\ queue' = Tail(queue)
  <2>1. /\ Head(queue) \in Threads \union {"kernel"} /\ Head(queue) = queue[1] /\ 1 \in DOMAIN queue
        /\ \A i \in DOMAIN queue' : i + 1 \in DOMAIN queue /\ queue'[i] = queue[i + 1] /\ i \in Nat \ {0}
    BY <1>3, TailOf DEF TypeOK, ViewTyped
  <2>2. /\ DOMAIN probed' = DOMAIN probed \union {n} /\ n \notin DOMAIN probed
        /\ \A i \in DOMAIN probed : probed'[i] = probed[i]
        /\ probed'[n].whose = queue[1] /\ probed'[n].read = unseen
    BY <1>1, <1>3, <2>1
  <2>3. Expected(u)'
    <3>1. \A i \in DOMAIN queue' : queue'[i] = u => waiting'[u] BY <1>2, <2>1 DEF Expected
    <3>2. \A i \in DOMAIN probed' :
            probed'[i].whose = u => waiting'[u] /\ (u \in unseen' => u \in probed'[i].read)
      BY <1>2, <2>1, <2>2 DEF Expected
    <3> QED BY <3>1, <3>2 DEF Expected
  <2>4. SentOnce(u)'
    <3>1. \A i, j \in DOMAIN queue' : queue'[i] = u /\ queue'[j] = u => i = j
      <4> SUFFICES ASSUME NEW i \in DOMAIN queue', NEW j \in DOMAIN queue', queue'[i] = u, queue'[j] = u
                   PROVE  i = j
        OBVIOUS
      <4>1. i + 1 = j + 1 BY <2>1 DEF SentOnce
      <4>2. i \in Nat /\ j \in Nat BY <2>1
      <4> QED BY <4>1, <4>2
    <3>2. \A i, j \in DOMAIN probed' : probed'[i].whose = u /\ probed'[j].whose = u => i = j
      BY <2>1, <2>2 DEF SentOnce
    <3>3. \A i \in DOMAIN queue', j \in DOMAIN probed' : ~(queue'[i] = u /\ probed'[j].whose = u)
      <4> SUFFICES ASSUME NEW i \in DOMAIN queue', NEW j \in DOMAIN probed',
                          queue'[i] = u, probed'[j].whose = u
                   PROVE  FALSE
        OBVIOUS
      <4>1. i + 1 \in DOMAIN queue /\ queue[i + 1] = u /\ i + 1 # 1 BY <2>1
      <4>2. CASE j = n BY <2>1, <2>2, <4>1, <4>2 DEF SentOnce
      <4>3. CASE j # n BY <2>2, <4>1, <4>3 DEF SentOnce
      <4> QED BY <4>2, <4>3
    <3> QED BY <3>1, <3>2, <3>3 DEF SentOnce
  <2> QED BY <2>3, <2>4
<1>4. CASE ProbeFor("kernel") /\ UNCHANGED queue
  <2>1. u # "kernel" BY MethodsAssumption
  <2>2. /\ DOMAIN probed' = DOMAIN probed \union {n}
        /\ \A i \in DOMAIN probed : probed'[i] = probed[i]
        /\ probed'[n].whose # u
    BY <1>1, <1>4, <2>1
  <2> HIDE DEF n
  <2>3. Expected(u)' BY <1>2, <1>4, <2>2 DEF Expected
  <2>4. SentOnce(u)' BY <1>4, <2>2 DEF SentOnce
  <2> QED BY <2>3, <2>4
<1> QED BY <1>3, <1>4 DEF Probe

LEMMA ApplyExpected ==
  ASSUME TypeOK, Apply, NEW u \in Threads, Expected(u), SentOnce(u)
  PROVE  Expected(u)' /\ SentOnce(u)'
<1>1. /\ Head(probed) = probed[1] /\ 1 \in DOMAIN probed
      /\ \A i \in DOMAIN probed' : i + 1 \in DOMAIN probed /\ probed'[i] = probed[i + 1] /\ i \in Nat \ {0}
  BY TailOf DEF Apply, TypeOK, ViewTyped
<1>2. queue' = queue /\ unseen' \subseteq unseen BY DEF Apply
<1>3. waiting'[u] = (waiting[u] /\ u # probed[1].whose) BY <1>1 DEF Apply
<1>4. \A i \in DOMAIN probed' : i + 1 # 1 /\ (probed'[i].whose = u => u # probed[1].whose)
  BY <1>1 DEF SentOnce
<1>5. \A i \in DOMAIN queue : queue[i] = u => u # probed[1].whose BY <1>1 DEF SentOnce
<1>6. Expected(u)' BY <1>1, <1>2, <1>3, <1>4, <1>5 DEF Expected
<1>7. \A i, j \in DOMAIN probed' : probed'[i].whose = u /\ probed'[j].whose = u => i = j
  <2> SUFFICES ASSUME NEW i \in DOMAIN probed', NEW j \in DOMAIN probed',
                      probed'[i].whose = u, probed'[j].whose = u
               PROVE  i = j
    OBVIOUS
  <2>1. i + 1 = j + 1 BY <1>1 DEF SentOnce
  <2>2. i \in Nat /\ j \in Nat BY <1>1
  <2> QED BY <2>1, <2>2
<1>8. SentOnce(u)' BY <1>1, <1>2, <1>7 DEF SentOnce
<1> QED BY <1>6, <1>8

LEMMA UeventsKept == ASSUME IInv, [Next]_vars PROVE UeventsExpected'
<1> SUFFICES ASSUME NEW u \in Threads PROVE Expected(u)' /\ SentOnce(u)' BY DEF UeventsExpected
<1>1. TypeOK /\ Expected(u) /\ SentOnce(u) BY DEF IInv, UeventsExpected
<1>2. ASSUME NEW t \in Threads, OwnStep(t) PROVE Expected(u)' /\ SentOnce(u)'
  <2>1. CASE UNCHANGED <<viewVars, waiting>> BY <1>1, <2>1 DEF Expected, SentOnce, viewVars
  <2>2. CASE Change(t) /\ UNCHANGED waiting /\ (NextIs(t, "tool") \/ NextIs(t, "attempt"))
    <3>1. ~waiting[t] BY <2>2 DEF IInv, ThreadsRest, NextIs
    <3> QED BY <1>1, <2>2, <3>1, ChangeExpected DEF Actors
  <2>3. CASE /\ NextIs(t, "uevent") /\ ~waiting[t] /\ waiting' = [waiting EXCEPT ![t] = TRUE]
             /\ queue' = Append(queue, t) /\ UNCHANGED <<unseen, probed>>
    BY <1>1, <2>3, SendExpected
  <2>4. CASE Disowned(t) /\ waiting' = [waiting EXCEPT ![t] = FALSE] /\ UNCHANGED unseen
    BY <1>1, <2>4, DisownedExpected
  <2> QED BY <1>2, <2>1, <2>2, <2>3, <2>4, OwnView
<1>3. CASE Probe BY <1>1, <1>3, ProbeExpected
<1>4. CASE Apply BY <1>1, <1>4, ApplyExpected
<1>5. CASE CleanerWork
  BY <1>1, <1>5, ChangeExpected, MethodsAssumption DEF CleanerWork, Actors, threadVars
<1>6. CASE AnswerRequest \/ PeriodicPoll \/ CleanerStart \/ CleanerTry \/ CleanerEnd \/ UNCHANGED vars
  <2>1. UNCHANGED <<viewVars, waiting>>
    BY <1>6 DEF AnswerRequest, PeriodicPoll, ListPools, CleanerStart, CleanerTry, CleanerEnd, vars,
      threadVars
  <2> QED BY <1>1, <2>1 DEF Expected, SentOnce, viewVars
<1> QED BY <1>2, <1>3, <1>4, <1>5, <1>6, Steps DEF OtherStep, CleanerStep

LEMMA InitInv == Init => IInv
<1> SUFFICES ASSUME Init PROVE IInv OBVIOUS
<1>1. TypeOK BY InitTyped
<1>2. CleanerHolds /\ ThreadsRest BY DEF Init, CleanerHolds, ThreadsRest
<1>3. UeventsExpected BY DEF Init, UeventsExpected, Expected, SentOnce
<1> QED BY <1>1, <1>2, <1>3 DEF IInv

LEMMA NextInv == IInv /\ [Next]_vars => IInv'
BY Typed, CleanerKeeps, ThreadsKeepRest, UeventsKept DEF IInv

\* The inductive invariant holds in every state.
THEOREM Invariance == Spec => []IInv
BY InitInv, NextInv, PTL DEF Spec

\* Every variable has its type.
THEOREM TypeCorrect == Spec => []TypeOK
<1>1. IInv => TypeOK BY DEF IInv
<1> QED BY <1>1, Invariance, PTL

-----------------------------------------------------------------------------
(* Each thread implements HandlerAlone *)

Held(t) == {m \in Mutexes : holder[m] = t}

\* What leaves a thread's variables and its mutexes alone, and shows its change no
\* less, leaves it as it was or exports what it had changed.
LEMMA Unaffected ==
  ASSUME NEW t \in Threads,
         call'[t] = call[t], todo'[t] = todo[t], found'[t] = found[t], answers'[t] = answers[t],
         waiting'[t] = waiting[t], job'[t] = job[t], changed'[t] = changed[t], late'[t] = late[t],
         flocked'[t] = flocked[t], pools'[t] = pools[t],
         Held(t)' = Held(t), t \in unseen' => t \in unseen
  PROVE  [Alone(t)!Next]_(Alone(t)!vars)
<1>1. CASE Settled(t)' = Settled(t)
  <2>1. UNCHANGED Alone(t)!vars BY <1>1 DEF Alone!vars, Held
  <2> QED BY <2>1
<1>2. CASE Settled(t)' # Settled(t)
  <2>1. Settled(t)' BY <1>2 DEF Settled
  <2>2. Alone(t)!Exported BY <2>1 DEF Alone!Exported, Held
  <2> QED BY <2>2 DEF Alone!Next
<1> QED BY <1>1, <1>2

\* Another thread's step.
LEMMA OthersStep ==
  ASSUME TypeOK, NEW t \in Threads, OwnStep(t), NEW u \in Threads, u # t
  PROVE  [Alone(u)!Next]_(Alone(u)!vars)
<1>1. Held(u)' = Held(u)
  <2>1. u # "none" BY MethodsAssumption
  <2>2. \A m \in Mutexes : holder'[m] = u <=> holder[m] = u BY <2>1, OwnHolding
  <2> QED BY <2>2 DEF Held
<1>2. u \in unseen' => u \in unseen BY OwnView DEF viewVars, Change
<1> QED BY <1>1, <1>2, OwnOnly, Unaffected

\* The vocabulary is the same in both modules.
LEMMA SameSteps ==
  ASSUME NEW t \in Threads
  PROVE  Alone(t)!Out = Out /\ Alone(t)!Return = Return /\ Alone(t)!Mutexes = Mutexes
BY DEF Out, Alone!Out, Return, Alone!Return, Step, Alone!Step, Mutexes, Alone!Mutexes

\* A step of its own.
LEMMA OwnStepAlone ==
  ASSUME IInv, NEW t \in Threads, OwnStep(t)
  PROVE  Alone(t)!Next
<1> USE DEF IInv, TypeOK, ThreadsTyped
<1>1. ASSUME NEW p \in DOMAIN Programs, Begin(t, p) PROVE Alone(t)!Next
  <2>1. Alone(t)!Begin(p)
    BY <1>1, SameSteps DEF Begin, Alone!Begin, Settled, viewVars
  <2> QED BY <2>1 DEF Alone!Next
<1>2. CASE End(t)
  <2>1. Alone(t)!End BY <1>2 DEF End, NextIs, Alone!End, Alone!NextIs, Settled, viewVars
  <2> QED BY <2>1 DEF Alone!Next, Alone!CallStep
<1>3. CASE GoOut(t) \/ Choose(t) \/ TestStep(t) \/ Ask(t)
  <2>1. UNCHANGED <<call, found, answers, waiting, job, changed, late, flocked, pools, holder, unseen>>
    BY <1>3 DEF GoOut, Choose, TestStep, Ask, viewVars
  <2>2. \/ NextIs(t, "out") /\ todo'[t] = Programs[call[t]].out \o <<Return>>
        \/ NextIs(t, "choice") /\ \E arm \in Head(todo[t]).arms : todo'[t] = arm \o Tail(todo[t])
        \/ NextIs(t, "test") /\ (todo'[t] = Tail(todo[t]) \/ todo'[t] = Head(todo[t]).fail \o <<Out>>)
        \/ NextIs(t, "state_check") /\ todo'[t] = Tail(todo[t])
    <3>1. CASE GoOut(t) BY <3>1 DEF GoOut
    <3>2. CASE Choose(t) BY <3>2 DEF Choose
    <3>3. CASE TestStep(t) BY <3>3 DEF TestStep, Continue, Fail
    <3>4. CASE Ask(t) BY <3>4 DEF Ask, Continue
    <3> QED BY <1>3, <3>1, <3>2, <3>3, <3>4
  <2>3. Alone(t)!Branch
    BY <2>1, <2>2, SameSteps DEF NextIs, Alone!Branch, Alone!NextIs, Alone!Continue, Alone!Fail, Settled
  <2> QED BY <2>3 DEF Alone!Next, Alone!CallStep
<1>4. CASE Send(t)
  <2>1. Alone(t)!Send
    BY <1>4 DEF Send, NextIs, Answer, Continue, Alone!Send, Alone!NextIs, Alone!Answer, Alone!Continue,
      Settled, viewVars
  <2> QED BY <2>1 DEF Alone!Next, Alone!CallStep
<1>5. CASE LookUp(t)
  <2>1. Alone(t)!LookUp
    BY <1>5, SameSteps DEF LookUp, NextIs, Continue, Fail, Alone!LookUp, Alone!NextIs, Alone!Fail,
      Alone!Continue, Settled, viewVars
  <2> QED BY <2>1 DEF Alone!Next, Alone!CallStep
<1>6. CASE TakeMutex(t) \/ PassThrough(t) \/ LeaveMutex(t)
  <2>0. t # "none" BY MethodsAssumption
  <2>1. /\ UNCHANGED <<call, found, answers, waiting, job, changed, late, flocked, pools, unseen>>
        /\ todo'[t] = Tail(todo[t])
    BY <1>6 DEF TakeMutex, PassThrough, LeaveMutex, viewVars, Continue
  <2>2. \/ NextIs(t, "lock") /\ Mutex(t) \in Mutexes \ Held(t) /\ Held(t)' = Held(t) \union {Mutex(t)}
        \/ NextIs(t, "within") /\ Mutex(t) \in Mutexes \ Held(t) /\ Held(t)' = Held(t)
        \/ NextIs(t, "unlock") /\ Held(t)' = Held(t) \ {Mutex(t)}
        \/ NextIs(t, "release") /\ Held(t)' = IF found[t] THEN Held(t) \ {Mutex(t)} ELSE Held(t)
    <3>1. CASE TakeMutex(t) BY <2>0, <3>1 DEF TakeMutex, Free, Held
    <3>2. CASE PassThrough(t) BY <2>0, <3>2 DEF PassThrough, Free, Held
    <3>3. CASE LeaveMutex(t)
      <4>1. CASE NextIs(t, "release") /\ ~found[t] BY <3>3, <4>1 DEF LeaveMutex, Held
      <4>2. CASE ~(NextIs(t, "release") /\ ~found[t])
        <5>1. Held(t)' = Held(t) \ {Mutex(t)} BY <2>0, <3>3, <4>2 DEF LeaveMutex, Held
        <5> QED BY <3>3, <4>2, <5>1 DEF LeaveMutex
      <4> QED BY <4>1, <4>2
    <3> QED BY <1>6, <3>1, <3>2, <3>3
  <2>3. Alone(t)!UseMutex
    BY <2>1, <2>2, SameSteps DEF NextIs, Mutex, Held, Alone!UseMutex, Alone!NextIs, Alone!Mutex,
      Alone!Continue, Settled
  <2> QED BY <2>3 DEF Alone!Next, Alone!CallStep
<1>7. CASE JobStep(t)
  <2>1. Alone(t)!JobStep
    BY <1>7 DEF JobStep, NextIs, Continue, Alone!JobStep, Alone!NextIs, Alone!Continue, Settled, viewVars
  <2> QED BY <2>1 DEF Alone!Next, Alone!CallStep
<1>8. CASE Work(t)
  <2>1. Alone(t)!Work
    BY <1>8, SameSteps DEF Work, Changes, Change, NextIs, Continue, Fail, Alone!Work, Alone!NextIs,
      Alone!Fail, Alone!Continue,
      Settled, viewVars
  <2> QED BY <2>1 DEF Alone!Next, Alone!CallStep
<1>9. CASE TableLock(t)
  <2>1. Alone(t)!TableLock
    BY <1>9 DEF TableLock, NextIs, Continue, Alone!TableLock, Alone!NextIs, Alone!Continue, Settled,
      viewVars
  <2> QED BY <2>1 DEF Alone!Next, Alone!CallStep
<1>10. CASE PoolStep(t)
  <2>1. Alone(t)!PoolStep
    BY <1>10, SameSteps DEF PoolStep, NextIs, Continue, Fail, Alone!PoolStep, Alone!NextIs, Alone!Fail,
      Alone!Continue, Settled, viewVars
  <2> QED BY <2>1 DEF Alone!Next, Alone!CallStep
<1>11. CASE Trigger(t)
  <2>1. Alone(t)!Trigger
    BY <1>11 DEF Trigger, NextIs, Continue, Alone!Trigger, Alone!NextIs, Alone!Continue, Settled
  <2> QED BY <2>1 DEF Alone!Next, Alone!CallStep
<1>12. CASE Arrive(t)
  <2>1. Alone(t)!Arrive
    BY <1>12 DEF Arrive, NextIs, Continue, Alone!Arrive, Alone!NextIs, Alone!Continue, Settled, viewVars
  <2> QED BY <2>1 DEF Alone!Next, Alone!CallStep
<1>13. CASE GiveUp(t)
  <2>1. (late'[t] > 0) = TRUE
    <3>1. late[t] \in 0..MaxTimeouts /\ late' = [late EXCEPT ![t] = @ + 1]
      BY <1>13 DEF GiveUp, GiveUpUevent, GiveUpObject
    <3>2. late'[t] = late[t] + 1 BY <3>1
    <3> QED BY <3>1, <3>2, MethodsAssumption
  <2>2. UNCHANGED <<call, found, answers, job, changed, flocked, pools, holder, unseen>>
    BY <1>13 DEF GiveUp, GiveUpUevent, GiveUpObject, viewVars
  <2>3. \/ NextIs(t, "uevent") /\ todo'[t] = Tail(todo[t]) /\ ~waiting'[t]
        \/ NextIs(t, "await_anyway") /\ todo'[t] = Tail(todo[t]) /\ waiting'[t] = waiting[t]
        \/ /\ NextIs(t, "await") \/ NextIs(t, "await_pool")
           /\ todo'[t] = Head(todo[t]).fail \o <<Out>> /\ waiting'[t] = waiting[t]
    <3>1. CASE GiveUpUevent(t) BY <3>1 DEF GiveUpUevent, Continue
    <3>2. CASE GiveUpObject(t) BY <3>2 DEF GiveUpObject, Continue, Fail
    <3> QED BY <1>13, <3>1, <3>2 DEF GiveUp
  <2>4. waiting'[t] \in BOOLEAN
    <3>1. waiting[t] \in BOOLEAN OBVIOUS
    <3> QED BY <1>13, <3>1 DEF GiveUp, GiveUpUevent, GiveUpObject
  <2>5. Alone(t)!GiveUp
    BY <2>1, <2>2, <2>3, <2>4, SameSteps DEF NextIs, Alone!GiveUp, Alone!NextIs, Alone!Fail,
      Alone!Continue, Settled
  <2> QED BY <2>5 DEF Alone!Next, Alone!CallStep
<1> HIDE DEF IInv, TypeOK, ThreadsTyped
<1> QED BY <1>1, <1>2, <1>3, <1>4, <1>5, <1>6, <1>7, <1>8, <1>9, <1>10, <1>11, <1>12, <1>13 DEF
  OwnStep, ThreadStep

\* The uevent it waits for shows what it has changed.
LEMMA ApplyAlone ==
  ASSUME IInv, Apply, NEW t \in Threads
  PROVE  [Alone(t)!Next]_(Alone(t)!vars)
<1>1. probed # <<>> /\ probed \in Seq(Uevents) BY DEF Apply, IInv, TypeOK, ViewTyped, Uevents
<1>2. Head(probed) = probed[1] /\ 1 \in DOMAIN probed BY <1>1, TailOf
<1>3. CASE t = Head(probed).whose /\ waiting[t]
  <2>1. t \in unseen => t \in Head(probed).read BY <1>2, <1>3 DEF IInv, UeventsExpected, Expected
  <2>2. Settled(t)' BY <2>1 DEF Apply, Settled
  <2>3. Alone(t)!UeventComes
    BY <1>3, <2>2 DEF Apply, Alone!UeventComes, Alone!Continue
  <2> QED BY <2>3 DEF Alone!Next, Alone!CallStep
<1>4. CASE ~(t = Head(probed).whose /\ waiting[t])
  <2>1. waiting'[t] = waiting[t] BY <1>4 DEF Apply, IInv, TypeOK, ThreadsTyped
  <2>2. todo'[t] = todo[t] BY <1>4 DEF Apply
  <2>3. Held(t)' = Held(t) /\ unseen' \subseteq unseen BY DEF Apply, Held
  <2> QED BY <2>1, <2>2, <2>3, Unaffected DEF Apply
<1> QED BY <1>3, <1>4

LEMMA CleanerApart ==
  ASSUME IInv, CleanerStep, NEW t \in Threads
  PROVE  [Alone(t)!Next]_(Alone(t)!vars)
<1>1. t # Cleaner /\ t # "none" BY MethodsAssumption
<1>2. holder \in [Mutexes -> Actors \union {"none"}] BY DEF IInv, TypeOK
<1>3. \A m \in Mutexes : holder'[m] = t <=> holder[m] = t
  BY <1>1, <1>2 DEF CleanerStep, CleanerStart, CleanerTry, CleanerWork, CleanerEnd, IInv, CleanerHolds, Free
<1>4. Held(t)' = Held(t) BY <1>3 DEF Held
<1>5. t \in unseen' => t \in unseen
  BY <1>1 DEF CleanerStep, CleanerStart, CleanerTry, CleanerWork, CleanerEnd, Change, viewVars
<1>6. UNCHANGED threadVars BY DEF CleanerStep, CleanerStart, CleanerTry, CleanerWork, CleanerEnd
<1> QED BY <1>4, <1>5, <1>6, Unaffected DEF threadVars

LEMMA PoolsListed ==
  ASSUME IInv, AnswerRequest \/ PeriodicPoll, NEW t \in Threads
  PROVE  [Alone(t)!Next]_(Alone(t)!vars)
<1>1. pools'[t] = pools[t] \/ pools'[t] = "shown" BY DEF AnswerRequest, PeriodicPoll, ListPools
<1>2. UNCHANGED <<call, todo, found, answers, waiting, job, changed, late, flocked, holder, viewVars>>
  BY DEF AnswerRequest, PeriodicPoll, ListPools
<1>3. CASE pools'[t] = pools[t] BY <1>2, <1>3, Unaffected DEF Held, viewVars
<1>4. CASE pools'[t] = "shown"
  <2>1. Alone(t)!Exported BY <1>2, <1>4 DEF Alone!Exported, Settled, viewVars
  <2> QED BY <2>1 DEF Alone!Next
<1> QED BY <1>1, <1>3, <1>4

LEMMA StepAlone == ASSUME IInv, [Next]_vars, NEW t \in Threads PROVE [Alone(t)!Next]_(Alone(t)!vars)
<1>1. ASSUME NEW u \in Threads, OwnStep(u) PROVE [Alone(t)!Next]_(Alone(t)!vars)
  <2>1. CASE u = t BY <1>1, <2>1, OwnStepAlone
  <2>2. CASE u # t BY <1>1, <2>2, OthersStep DEF IInv
  <2> QED BY <2>1, <2>2
<1>2. CASE Probe BY <1>2, Unaffected DEF Probe, threadVars, Held
<1>3. CASE Apply BY <1>3, ApplyAlone
<1>4. CASE AnswerRequest \/ PeriodicPoll BY <1>4, PoolsListed
<1>5. CASE CleanerStep BY <1>5, CleanerApart
<1>6. CASE UNCHANGED vars BY <1>6, Unaffected DEF vars, threadVars, viewVars, Held
<1> QED BY <1>1, <1>2, <1>3, <1>4, <1>5, <1>6, Steps DEF OtherStep

LEMMA InitAlone == ASSUME Init, NEW t \in Threads PROVE Alone(t)!Init
<1>1. {m \in Mutexes : holder[m] = t} = {} BY MethodsAssumption DEF Init
<1>2. late[t] = 0 /\ ~changed[t] BY DEF Init
<1> QED BY <1>1, <1>2 DEF Init, Alone!Init, Settled

\* Each thread of the pool is, for its callers, a handler that runs alone: what
\* HandlerAlone keeps for one handler holds for any number of them that take
\* each other's mutexes, wait for the same main thread and are interrupted by the
\* clean-up thread.
THEOREM EachRunsAlone == ASSUME NEW t \in Threads PROVE Spec => Alone(t)!Spec
<1>1. Init => Alone(t)!Init BY InitAlone
<1>2. IInv /\ [Next]_vars => [Alone(t)!Next]_(Alone(t)!vars) BY StepAlone
<1> QED BY <1>1, <1>2, Invariance, PTL DEF Spec, Alone!Spec

\* The same, said of all threads at once.
THEOREM AllRunAlone == Spec => HandlersActAlone
<1>1. Init => \A t \in Threads : Alone(t)!Init BY InitAlone
<1>2. IInv /\ [Next]_vars => [\A t \in Threads : [Alone(t)!Next]_(Alone(t)!vars)]_vars BY StepAlone
<1> QED BY <1>1, <1>2, Invariance, PTL DEF Spec, HandlersActAlone
=============================================================================
