--------------------------- MODULE ModuleHandlers ---------------------------
(***************************************************************************)
(* The method handlers of the small modules: BTRFS, iSCSI and LSM.         *)
(***************************************************************************)
EXTENDS HandlerSteps

-----------------------------------------------------------------------------
(* Filesystem.BTRFS and Manager.BTRFS *)

\* udisks_filesystem_btrfs_get_first_mount_point fails on what is not mounted.
MountedBtrfs == <<Dup, Authorize, Check>>
handle_btrfs_set_label == Handler(<<Dup, Authorize, Check, Tool(<<Error>>), Uevent, Reply>>, <<>>)
btrfs_subvolume_perform_action ==
  Handler(<<Dup, Authorize, Check, Check, Tool(<<Error>>), Uevent, Reply>>, <<>>)
\* Uevents for the device that was there and for the one added or removed.
btrfs_device_perform_action ==
  Handler(MountedBtrfs \o <<Check, Check, Tool(<<Error>>), Uevent, Uevent, Reply>>, <<>>)
handle_get_subvolumes == Handler(MountedBtrfs \o <<Check, Reply>>, <<>>)
handle_get_default_subvolume_id == Handler(<<Dup, Check, Check, Reply>>, <<>>)
\* Neither the default subvolume nor a snapshot shows in an exported property.
handle_set_default_subvolume_id == Handler(MountedBtrfs \o <<Check, Reply>>, <<>>)
handle_btrfs_create_snapshot == Handler(MountedBtrfs \o <<Check, Reply>>, <<>>)
handle_btrfs_repair == handle_btrfs_set_label
handle_btrfs_resize == Handler(MountedBtrfs \o <<Tool(<<Error>>), Uevent, Reply>>, <<>>)
handle_btrfs_create_volume ==
  Handler(<<Authorize, Loop(<<Check, Check>>), Tool(<<Error>>), Uevent, Opt(<<Uevent>>), Reply>>, <<>>)

-----------------------------------------------------------------------------
(* Manager.ISCSI.Initiator and ISCSI.Session *)

handle_get_firmware_initiator_name == Handler(<<Check, Reply>>, <<>>)
\* The answer is sent under the lock, which `out:' releases.
handle_get_initiator_name == Handler(<<Lock("iscsi"), Check, Reply>>, <<Unlock("iscsi")>>)
handle_get_initiator_name_raw == handle_get_initiator_name
\* Read, changed and written under the lock; a file that cannot be read is
\* replaced by a new one.
handle_set_initiator_name ==
  Handler(<<Authorize, Check, Lock("iscsi"), Checked(<<Error, Unlock("iscsi")>>), Reply, Unlock("iscsi")>>, <<>>)

\* libiscsi is used under the lock of its context only; what it did is waited
\* for without.
UnderContext(step) == <<Lock("libiscsi"), step, Unlock("libiscsi")>>
UnlockedError == <<Unlock("libiscsi"), Error>>
handle_discover_send_targets == Handler(<<Authorize>> \o UnderContext(Checked(UnlockedError)) \o <<Reply>>, <<>>)
handle_discover_firmware == handle_discover_send_targets
\* The block devices and, where the module exports them, the session.
SessionWaits == <<Await(<<Error>>), Opt(<<Await(<<Error>>)>>), Reply>>
handle_login == Handler(<<Authorize>> \o UnderContext(Tool(UnlockedError)) \o SessionWaits, <<>>)
handle_iscsi_logout == handle_login
handle_logout_interface ==
  Handler(<<Dup, Authorize>> \o UnderContext(Tool(UnlockedError))
            \o <<Await(<<Error>>), Await(<<Error>>), Reply>>, <<>>)

-----------------------------------------------------------------------------
(* Drive.LSM.Local *)

\* The LEDs are no exported property.
led_control == Handler(<<Check, Authorize, Check, Check, Reply>>, <<>>)

-----------------------------------------------------------------------------
ModulePrograms ==
  [btrfs_set_label |-> handle_btrfs_set_label, btrfs_subvolume |-> btrfs_subvolume_perform_action,
   btrfs_device |-> btrfs_device_perform_action, get_subvolumes |-> handle_get_subvolumes,
   get_default_id |-> handle_get_default_subvolume_id, set_default_id |-> handle_set_default_subvolume_id,
   btrfs_snapshot |-> handle_btrfs_create_snapshot, btrfs_repair |-> handle_btrfs_repair,
   btrfs_resize |-> handle_btrfs_resize, btrfs_create |-> handle_btrfs_create_volume,
   firmware_name |-> handle_get_firmware_initiator_name, initiator_name |-> handle_get_initiator_name,
   initiator_name_raw |-> handle_get_initiator_name_raw, set_initiator_name |-> handle_set_initiator_name,
   send_targets |-> handle_discover_send_targets, discover_firmware |-> handle_discover_firmware,
   login |-> handle_login, iscsi_logout |-> handle_iscsi_logout, session_logout |-> handle_logout_interface,
   led |-> led_control]
=============================================================================
