--------------------------- MODULE BlockHandlers ---------------------------
(***************************************************************************)
(* The method handlers of block devices and of what is on them: Block,     *)
(* Filesystem and Encrypted.                                               *)
(***************************************************************************)
EXTENDS HandlerHelpers

\* What every handler of a locked block object begins with.
Locked == <<Dup, CleanupLock, CheckBlock>>

\* add_remove_fstab_entry and add_remove_crypttab_entry rewrite a file in /etc:
\* here they are tests, for they touch no device.
EditConfiguration == Test

\* take_filesystem_ownership changes files on the file system, nothing exported.
Chown(fail) == Checked(fail)

-----------------------------------------------------------------------------
(* Encrypted *)

\* udisks_linux_encrypted_lock: the device is cleartext and nobody else's, then
\* it is closed under the mutex that the update of the interface takes too, and
\* the cleartext object is waited for to go.
LockAdmission == <<Test, Test, Recall, Opt(<<Test>>)>>
LockAndWait ==      \* mutant: the mutex is released once the cleartext is gone
  LockAdmission
    \o <<Lock("encrypted"), Run(<<Unlock("encrypted")>>),
          Await(<<Unlock("encrypted")>>), Unlock("encrypted")>>
LockForgotten ==      \* mutant: the failure path keeps the mutex
  LockAdmission \o <<Lock("encrypted"), Run(<<>>), Unlock("encrypted"), Await(<<>>)>>
EncryptedLock ==
  LockAdmission \o <<Lock("encrypted"), Run(<<Unlock("encrypted")>>), Unlock("encrypted"), Await(<<>>)>>

handle_lock ==
  Handler(<<Alt({<<Found, CleanupLock, CheckBlock>>, <<>>})>>
             \o Sub(EncryptedLock, <<Error>>) \o <<Reply>>, CleanupOut)

\* handle_unlock: admission; the open; the wait for the cleartext object.
UnlockAdmission == Locked \o <<Check>>
OpenSilently ==      \* mutant: a failure is not answered
  AuthorizeUser \o <<Lock("encrypted"), Run(<<Unlock("encrypted")>>), Unlock("encrypted")>>
UnlockOpen == AuthorizeUser \o <<Lock("encrypted"), Run(<<Error, Unlock("encrypted")>>), Unlock("encrypted")>>
UnlockSettle == <<Await(<<Error>>), Record, Reply>>
handle_unlock == Handler(UnlockAdmission \o UnlockOpen \o UnlockSettle, CleanupOut)

handle_change_passphrase ==
  Handler(Locked \o <<Check>> \o AuthorizeUser
            \o <<Lock("encrypted"), Run(<<Error, Unlock("encrypted")>>), Unlock("encrypted"), Reply>>,
          CleanupOut)

\* The handlers that run the library under a simple job and the mutex.
OrUndo == <<Error, JobFail, Unlock("encrypted")>>
UnderEncryptedLock(work) ==
  <<Job, Lock("encrypted"), work,
    Unlock("encrypted"), Reply, JobDone>>
handle_encrypted_resize ==
  Handler(Locked \o <<Check>> \o AuthorizeUser \o <<Check>> \o UnderEncryptedLock(Tool(OrUndo)), CleanupOut)
handle_convert ==
  Handler(Locked \o <<Check>> \o AuthorizeUser \o <<Check>> \o UnderEncryptedLock(Tool(OrUndo)), CleanupOut)
\* Writes a file.
handle_header_backup ==
  Handler(Locked \o <<Check, Authorize>> \o UnderEncryptedLock(Checked(OrUndo)), CleanupOut)
handle_restore_encrypted_header ==
  Handler(Locked \o <<Check>> \o AuthorizeUser \o UnderEncryptedLock(Tool(OrUndo)), CleanupOut)

-----------------------------------------------------------------------------
(* Block *)

\* udisks_linux_block_teardown: what is on top of the block first (one such
\* block here), each locked or stripped of its configuration, then its own.
TeardownWalker == <<Alt({EncryptedLock, <<EditConfiguration>>, <<>>}), EditConfiguration>>
Teardown == <<Opt(TeardownWalker)>> \o TeardownWalker

\* udisks_linux_partition_set_type_sync: no clean-up lock of its own.
SetTypeSync == <<Test, Job, Tool(<<JobFail>>), Uevent, JobDone>>

\* udisks_linux_drive_ata_secure_erase_sync: a user password is set and the
\* erase command runs with it; where that fails the password is cleared.
SecureEraseClaim == <<Test, Test, Job>>
SecureErasePassword == <<Tool(<<JobFail>>)>>
SecureEraseCommand == <<Tool(<<Attempt, JobFail>>), Attempt, JobDone>>
SecureEraseSync == SecureEraseClaim \o SecureErasePassword \o SecureEraseCommand

\* erase_device: the ATA erase, or zeroes written under a job.
EraseDevice == <<Alt({<<Test>> \o SecureEraseSync, <<Test, Job, Tool(<<JobFail>>), JobDone>>})>>

format_wipe == <<Tool(<<>>), Opt(<<Attempt>>), Uevent, Await(<<>>)>>
format_set_partition_type == <<Opt(SetTypeSync)>>
format_create_luks ==
  <<Lock("encrypted"), Run(<<Unlock("encrypted")>>), Unlock("encrypted"), Await(<<>>), Test,
    Lock("encrypted"), Run(<<Unlock("encrypted")>>), Unlock("encrypted"), Await(<<>>), Test, Record>>

\* udisks_linux_block_handle_format.  With `no-block' the caller is answered
\* before the long part, and a later failure is only logged; then are the steps
\* the function that answers, complete (), takes besides.
Pending == <<ErrorIfPending>>
format_pre_checks == Checked(Pending)
format_check_auth == AuthorizeUser
FormatAdmission == <<DupOr(Pending), CleanupLock, CheckBlock, format_pre_checks>> \o format_check_auth
FormatPrepare(then) ==
  <<Opt(Sub(Teardown, Pending))>> \o Sub(format_wipe, Pending)
    \o <<Opt(<<Checked(Pending)>>), Opt(Sub(format_create_luks, Pending)),
         Opt(<<ReplyEarly>> \o then), Opt(Sub(EraseDevice, Pending))>>
FormatContents ==
  <<Alt({<<Tool(Pending)>>, <<Run(Pending)>>, <<>>}), Opt(<<Tool(Pending)>>),
    Opt(Sub(format_set_partition_type, Pending))>>
FormatSettle(then) ==
  <<Opt(<<Attempt>>), Uevent, Opt(<<Uevent>>), Await(Pending), Opt(<<Chown(Pending)>>),
    Opt(<<Checked(Pending)>>), ReplyIfPending>> \o then
FormatSteps(then) == FormatAdmission \o FormatPrepare(then) \o FormatContents \o FormatSettle(then)
handle_format == Handler(FormatSteps(<<>>), CleanupOut)

handle_get_secret_configuration == Handler(<<Dup, Check, Authorize, Reply>>, <<>>)
ConfigurationItem ==
  <<Dup, Alt({<<Authorize>> \o Sub(<<EditConfiguration>>, <<Error>>) \o <<Reply>>, <<Error>>})>>
handle_add_configuration_item == Handler(ConfigurationItem, <<>>)
handle_remove_configuration_item == Handler(ConfigurationItem, <<>>)
handle_update_configuration_item == Handler(<<Dup, Check>> \o Tail(ConfigurationItem), <<>>)

OpenDevice == Handler(Locked \o <<Authorize, Check, Reply>>, CleanupOut)
handle_open_for_backup == OpenDevice
handle_open_for_restore == OpenDevice
handle_open_for_benchmark == OpenDevice
handle_open_device == OpenDevice

\* handle_rescan: the uevent first, then the kernel reads the table again.
handle_rescan == Handler(<<Dup, Authorize, Uevent, Opt(<<Attempt>>), Reply>>, <<>>)

-----------------------------------------------------------------------------
(* Filesystem *)

FsLocked == <<Lock("fs")>> \o Locked
FsOut == CleanupOut \o <<Unlock("fs")>>

\* A job for the mount of an fstab entry as the user and, where that is refused
\* and root may, a second one after an authorization.
AsUserThenRoot ==
  <<Opt(<<Job, JobFail, Authorize>>), Job, Tool(<<JobFail, Error>>), JobDone>>

MountFstab == <<Opt(AuthorizeUser), Check>> \o AsUserThenRoot
MountDynamic == <<Check>> \o AuthorizeUser \o <<Check, Job, Tool(<<Error, JobFail>>), JobDone>>
handle_mount ==
  Handler(FsLocked \o <<Check, Alt({MountFstab, MountDynamic}), Record, Uevent, Reply>>,
          <<Release("cleanup"), Unlock("fs"), StateCheck>>)

UnmountRecorded ==
  <<Recall, Opt(<<Authorize>>), Job, Tool(<<Error, JobFail>>), JobDone, CheckBlock>>
handle_unmount ==
  Handler(FsLocked \o <<Check, Alt({AsUserThenRoot, UnmountRecorded}), Uevent, AwaitAnyway, Reply>>, FsOut)

RelabelAnswered ==      \* mutant: the caller is told before the uevent was waited for
  Handler(Locked \o <<Check>> \o AuthorizeUser \o <<Job, Tool(<<JobFail, Error>>), JobDone, Reply, Uevent>>,
          CleanupOut)
Relabel ==
  Handler(Locked \o <<Check>> \o AuthorizeUser \o <<Job, Tool(<<JobFail, Error>>), JobDone, Uevent, Reply>>,
          CleanupOut)
handle_set_label == Relabel
handle_fs_set_uuid == Relabel

FsTool == <<Check>> \o AuthorizeUser \o <<Job, Tool(<<Error, JobFail>>)>>
handle_fs_resize == Handler(FsLocked \o FsTool \o <<Uevent, Reply, JobDone>>, FsOut)
handle_repair == Handler(FsLocked \o FsTool \o <<Uevent, Reply, JobDone>>, FsOut)
handle_check == Handler(FsLocked \o FsTool \o <<Uevent, Reply, JobDone>>, FsOut)
handle_take_ownership ==
  Handler(FsLocked \o <<Check, Authorize, Job, Chown(<<Error, JobFail>>), Reply, JobDone>>, FsOut)

-----------------------------------------------------------------------------
BlockPrograms ==
  [lock |-> handle_lock, unlock |-> handle_unlock, change_passphrase |-> handle_change_passphrase,
   encrypted_resize |-> handle_encrypted_resize, convert |-> handle_convert,
   header_backup |-> handle_header_backup, restore_header |-> handle_restore_encrypted_header,
   format |-> handle_format, get_secrets |-> handle_get_secret_configuration,
   add_item |-> handle_add_configuration_item, remove_item |-> handle_remove_configuration_item,
   update_item |-> handle_update_configuration_item, open_backup |-> handle_open_for_backup,
   open_restore |-> handle_open_for_restore, open_benchmark |-> handle_open_for_benchmark,
   open_device |-> handle_open_device, rescan |-> handle_rescan,
   mount |-> handle_mount, unmount |-> handle_unmount, set_label |-> handle_set_label,
   fs_set_uuid |-> handle_fs_set_uuid, fs_resize |-> handle_fs_resize, repair |-> handle_repair,
   check |-> handle_check, take_ownership |-> handle_take_ownership]
=============================================================================
