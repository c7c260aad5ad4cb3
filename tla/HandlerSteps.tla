--------------------------- MODULE HandlerSteps ---------------------------
(***************************************************************************)
(* The vocabulary in which the D-Bus method handlers of the daemon are     *)
(* written down.  A handler is a sequence of steps and the steps under its *)
(* `out:' label; a step that can fail carries, as its field fail, what the *)
(* handler does before it jumps to `out:'.  Messages, options and device   *)
(* names are left out: a test is a step that may fail, a branch on data is *)
(* a choice.  MethodCalls says what the steps do.                          *)
(***************************************************************************)
EXTENDS Naturals, Sequences

\* A step that cannot fail, a step on a mutex, and a step that may fail.
Step(op) == [op |-> op]
On(op, m) == [op |-> op, mutex |-> m]
Try(op, fail) == [op |-> op, fail |-> fail]

-----------------------------------------------------------------------------
\* The answer to the caller.  IfPending: only when `invocation' is not NULL yet.
Reply == Step("reply")
Error == Step("error")
ReplyIfPending == Step("reply_if_pending")
ErrorIfPending == Step("error_if_pending")
ReplyEarly == Step("reply_early")

\* Tests of arguments, properties, users and authorizations: no side effect;
\* a handler answers with the error, a helper returns it to its caller.
Test == Try("test", <<>>)
Check == Try("test", <<Error>>)
Authorize == Try("test", <<Error>>)
Checked(fail) == Try("test", fail)

\* udisks_daemon_util_dup_object: the object the interface is exported on, or
\* an error once it is gone; a helper that looks it up for itself makes a test.
\* Found: the arm of a branch where there is one.
Dup == Try("dup", <<Error>>)
DupOr(fail) == Try("dup", fail)
Found == Step("found")

\* The mutexes.  ViewMutexes are those the main thread takes when it updates the
\* exported interfaces: udisks_linux_encrypted_update, the loop and block updates
\* that ask the state, udisks_linux_drive_ata_update, the NVMe, MD and iSCSI
\* session updates.
Mutexes == {"fs", "cleanup", "encrypted", "state", "ata", "smart", "format", "sync", "iscsi", "libiscsi"}
ViewMutexes == {"encrypted", "state", "ata", "smart", "format", "sync", "libiscsi"}

\* Release: `if (object != NULL) unlock'.  Within: a short critical
\* section, in which nothing waits.
Lock(m) == On("lock", m)
Unlock(m) == On("unlock", m)
Release(m) == On("release", m)
Within(m) == On("within", m)

\* lock_for_cleanup and udisks_state_check_block, which takes the state lock;
\* at the end, the release and udisks_state_check.
CleanupLock == Lock("cleanup")
CheckBlock == Within("state")
StateCheck == Step("state_check")
UnlockAnyway == <<Unlock("cleanup"), StateCheck>>      \* mutant: whether or not it was locked
CleanupOut == <<Release("cleanup"), StateCheck>>

\* What udisks remembers in its state files, under the state lock.
Record == Within("state")
Recall == Within("state")

\* Authorization that depends on udisks_daemon_util_setup_by_user, which asks
\* the state who set the device up.
AuthorizeUser == <<Recall, Authorize>>

\* udisks_daemon_launch_simple_job and udisks_simple_job_complete.
Job == Step("job")
JobDone == Step("job_done")
JobFail == Step("job_fail")

\* A change of the device: Tool by a library call, Run by a job that is
\* launched, waited for and completed inside the call.
Tool(fail) == Try("tool", fail)
Run(fail) == Try("tool", fail)
\* One whose failure is only logged.
Attempt == Try("attempt", <<>>)

\* trigger_uevent_sync, trigger_uevent, wait_for_object_sync (its failure, and
\* the call that does not look at it).
Uevent == Step("uevent")
Kick == Step("kick")
Await(fail) == Try("await", fail)
AwaitAnyway == Step("await_anyway")

\* A change of a ZFS pool, which makes no uevent of its own, and
\* udisks_linux_module_zfs_trigger_update, which has the pools listed anew.
Pool(fail) == Try("pool", fail)
PoolAttempt == Try("pool_attempt", <<>>)
AwaitPool(fail) == Try("await_pool", fail)
Refresh == Step("refresh")

\* The lock on the partition table's block device that keeps udevd out.
Flock == Step("flock")
Unflock == Step("unflock")

-----------------------------------------------------------------------------
\* Branches: steps that are taken or not, one of several arms, at most two
\* rounds of a loop, the jump to `out:' and the return that passes it by.
Opt(s) == [op |-> "choice", arms |-> {s, <<>>}]
Alt(arms) == [op |-> "choice", arms |-> arms]
Loop(s) == Opt(s \o <<Opt(s)>>)
Out == Step("out")
Return == Step("return")

\* A handler: its steps and those under `out:'.
Handler(body, out) == [body |-> body, out |-> out]
=============================================================================
