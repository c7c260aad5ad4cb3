----------------------------- MODULE JobPromise -----------------------------
(***************************************************************************)
(* What org.freedesktop.UDisks2.Job promises its clients: the object is    *)
(* there, and the system inhibited, from the launch until the work has     *)
(* stopped; Completed is emitted exactly once, and says success only of    *)
(* work that succeeded.                                                    *)
(***************************************************************************)
VARIABLES
  stage,  \* "none", "running" or "completed", by the Completed signals sent
  shown,  \* the job object is exported
  awake,  \* logind is inhibited
  work    \* "none", "working", "done" or "failed"

vars == <<stage, shown, awake, work>>

Init == stage = "none" /\ work = "none" /\ shown = FALSE /\ awake = FALSE

Launch ==
  /\ stage = "none"
  /\ stage' = "running" /\ shown' = TRUE /\ awake' = TRUE
  /\ UNCHANGED work

Begin == stage = "running" /\ work = "none" /\ work' = "working" /\ UNCHANGED <<stage, shown, awake>>

End ==
  /\ stage = "running" /\ work = "working"
  /\ work' \in {"done", "failed"}
  /\ UNCHANGED <<stage, shown, awake>>

\* A job that failed to start, or was cancelled before, completes with no work.
Complete ==
  /\ stage = "running" /\ work # "working"
  /\ stage' = "completed" /\ shown' = FALSE /\ awake' = FALSE
  /\ UNCHANGED work

Next == Launch \/ Begin \/ End \/ Complete
Spec == Init /\ [][Next]_vars /\ WF_vars(Begin \/ End \/ Complete)
=============================================================================
