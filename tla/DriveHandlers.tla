--------------------------- MODULE DriveHandlers ---------------------------
(***************************************************************************)
(* The method handlers of drives: Drive, Drive.Ata, NVMe.Controller,       *)
(* NVMe.Namespace, NVMe.Fabrics and Manager.NVMe.                          *)
(***************************************************************************)
EXTENDS BlockHandlers

-----------------------------------------------------------------------------
(* Drive *)

handle_eject == Handler(<<Dup, Check, Authorize, Run(<<Error>>), Reply>>, <<>>)

\* The key file is read, changed and written; the drive is not touched.
handle_set_configuration == Handler(<<Dup, Authorize, Check, Check, Reply>>, <<>>)

\* handle_power_off: every block of the drive and of its siblings is flushed,
\* then the caches are synchronized and the unit is stopped, as far as that
\* works, and the USB port is told to remove the device.
PowerOffAdmission == <<Dup, Check, Loop(<<Check>>), Check, Authorize>>
PowerOffDrive == <<Loop(<<Check>>), Check, Attempt, Attempt, Check, Check, Tool(<<Error>>), Reply>>
handle_power_off == Handler(PowerOffAdmission \o PowerOffDrive, <<>>)

-----------------------------------------------------------------------------
(* Drive.Ata *)

\* udisks_linux_drive_ata_refresh_smart_sync: the drive is read, the result is
\* stored under the object lock, and the interface is updated.
RefreshAta == <<Test, Within("ata"), Within("ata")>>
RefreshAtaOr(f) == Sub(RefreshAta, f)
SmartSelftestSync == Test

handle_ata_smart_update == Handler(<<Dup, Check, Authorize>> \o RefreshAtaOr(<<Error>>) \o <<Reply>>, <<>>)
\* Answered with the lock held, either way.
handle_ata_smart_get_attributes ==
  Handler(<<Lock("ata"), Alt({<<Error>>, <<Reply>>}), Unlock("ata")>>, <<>>)
handle_ata_smart_selftest_abort ==
  Handler(<<Dup, Check, Authorize, Checked(<<Error>>), Within("ata")>> \o RefreshAtaOr(<<Error>>) \o <<Reply>>, <<>>)
handle_ata_smart_selftest_start ==
  Handler(<<Dup, Check, Lock("ata"), Checked(<<Error, Unlock("ata")>>), Unlock("ata"), Authorize,
            Checked(<<Error>>), Within("ata"), Reply>>, <<>>)
handle_smart_set_enabled ==
  Handler(<<Dup, Check, Authorize, Check, Tool(<<Error>>), Uevent, Check,
            Alt({RefreshAtaOr(<<Error>>), <<Within("ata")>>}), Reply>>, <<>>)
handle_pm_get_state == Handler(<<Dup, Authorize, Check, Reply>>, <<>>)
handle_pm_standby_wakeup == Handler(<<Dup, Check, Authorize, Check, Check, Reply>>, <<>>)
handle_security_erase_unit ==
  Handler(<<Dup, Check, Authorize>> \o Sub(SecureEraseSync, <<Error>>) \o <<Attempt, Uevent, Reply>>, <<>>)

-----------------------------------------------------------------------------
(* NVMe.Controller *)

RefreshNVMe == <<Test, Within("smart"), Within("smart")>>
handle_nvme_smart_update ==
  Handler(<<Dup, Authorize>> \o Sub(RefreshNVMe, <<Error>>) \o <<Reply>>, <<>>)
handle_nvme_smart_get_attributes == Handler(<<Within("smart"), Alt({<<Error>>, <<Reply>>})>>, <<>>)

\* Self-test and sanitize: no other such job, then the tests and the estimate,
\* then the command and its job under the lock, without another look.
NVMeStart(tool) ==
  Handler(<<Dup, Check, Lock("smart"), Checked(<<Error, Unlock("smart")>>), Unlock("smart"),
            Check, Authorize, Check, Lock("smart"), tool, Unlock("smart"), Reply>>, <<>>)
handle_nvme_selftest_start == NVMeStart(Checked(<<Unlock("smart"), Error>>))
handle_sanitize_start == NVMeStart(Tool(<<Unlock("smart"), Error>>))
\* The wait for the job lets go of the lock.
handle_nvme_selftest_abort ==
  Handler(<<Dup, Authorize, Check, Checked(<<Error>>), Within("smart"), Opt(<<Within("smart")>>)>>
            \o Sub(RefreshNVMe, <<Error>>) \o <<Reply>>, <<>>)

-----------------------------------------------------------------------------
(* NVMe.Namespace, NVMe.Fabrics and Manager.NVMe *)

\* The job reports progress while the handler formats; the handler cancels it
\* and waits for it to be gone, with failure and with success.
handle_format_namespace ==
  Handler(<<Dup, Check, Authorize, Lock("format"), Checked(<<Error, Unlock("format")>>), Unlock("format"),
            Tool(<<Within("format"), Error>>), Within("format"), Attempt, Uevent, Reply>>, <<>>)
handle_disconnect ==
  Handler(<<Dup, Authorize, Tool(<<Error>>), Await(<<Error>>), Opt(<<Uevent>>), Reply>>, <<>>)
handle_connect ==
  Handler(<<Check, Authorize, Tool(<<Error>>), Await(<<Error>>), Opt(<<Uevent>>), Reply>>, <<>>)
SetHost == Handler(<<Dup, Check, Authorize, Tool(<<Error>>), Await(<<Error>>), Reply>>, <<>>)
handle_set_host_nqn == SetHost
handle_set_host_id == SetHost

-----------------------------------------------------------------------------
DrivePrograms ==
  [eject |-> handle_eject, set_configuration |-> handle_set_configuration,
   power_off |-> handle_power_off, ata_update |-> handle_ata_smart_update,
   ata_attributes |-> handle_ata_smart_get_attributes,
   ata_abort |-> handle_ata_smart_selftest_abort, ata_selftest |-> handle_ata_smart_selftest_start,
   smart_set_enabled |-> handle_smart_set_enabled, pm_get_state |-> handle_pm_get_state,
   pm_standby_wakeup |-> handle_pm_standby_wakeup, security_erase |-> handle_security_erase_unit,
   nvme_update |-> handle_nvme_smart_update, nvme_attributes |-> handle_nvme_smart_get_attributes,
   nvme_selftest |-> handle_nvme_selftest_start, sanitize |-> handle_sanitize_start,
   nvme_abort |-> handle_nvme_selftest_abort, format_namespace |-> handle_format_namespace,
   disconnect |-> handle_disconnect, connect |-> handle_connect,
   set_host_nqn |-> handle_set_host_nqn, set_host_id |-> handle_set_host_id]
=============================================================================
