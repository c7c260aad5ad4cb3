---------------------------- MODULE AllHandlers ----------------------------
(* The handlers of the whole daemon and its modules.                         *)
EXTENDS StorageHandlers, DriveHandlers, LVM2Handlers, ZFSHandlers, ModuleHandlers, TLC

AllPrograms ==
  BlockPrograms @@ StoragePrograms @@ DrivePrograms @@ LVM2Programs @@ ZFSPrograms @@ ModulePrograms

\* Those that neither send a uevent and wait for it nor wait for an object.
AnswerBeforeView ==
  {"change_passphrase", "convert", "encrypted_resize", "restore_header", "rescan", "loop_delete",
   "mdraid_create", "eject", "power_off", "sanitize", "vg_add_device", "vg_delete", "vg_remove",
   "vg_remove_missing", "lv_repair", "lv_resize", "cache_attach", "cache_detach", "vdo_set",
   "vdo_resize_logical", "vdo_resize_physical"}
=============================================================================
