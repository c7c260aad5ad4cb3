---------------------------- MODULE LVM2Handlers ----------------------------
(***************************************************************************)
(* The method handlers of the LVM2 module: Manager.LVM2, VolumeGroup,      *)
(* LogicalVolume and VDOVolume.  All of them run the tool in a threaded    *)
(* job; what they differ in is what they wait for before they answer.      *)
(***************************************************************************)
EXTENDS BlockHandlers

\* common_setup and the beginning of the handlers of a volume group.
common_setup == <<Dup, Check, Authorize>>

\* A tool that changes volumes: not waited for, waited for with an error, ...
ChangeVolume(tests) == Handler(common_setup \o tests \o <<Run(<<Error>>), Reply>>, <<>>)
ChangeAndWait(tests) == Handler(common_setup \o tests \o <<Run(<<Error>>), Await(<<Error>>), Reply>>, <<>>)

-----------------------------------------------------------------------------
(* Manager.LVM2 *)

\* udisks_daemon_util_lvm2_wipe_block: the signatures go; what LVM thinks of it
\* is put right as far as possible.
WipeBlock == <<Test, Tool(<<>>), Opt(<<Test>>), Opt(<<Attempt>>), Attempt>>

VGCreateAdmission == <<Check, Authorize, Check, Loop(<<Check>>)>>
VGCreate ==
  <<Loop(Sub(WipeBlock, <<Error>>)), Loop(<<Run(<<Error>>)>>), Run(<<Error>>),
    Loop(<<Uevent>>), Await(<<Error>>), Reply>>
handle_volume_group_create == Handler(VGCreateAdmission \o VGCreate, <<>>)

-----------------------------------------------------------------------------
(* VolumeGroup *)

\* Only asks the main thread for another look.
handle_poll == Handler(<<Dup, Reply>>, <<>>)

TeardownVolume == <<Alt({Teardown, <<EditConfiguration>>})>>
teardown_volume_group == <<Loop(TeardownVolume)>>
\* The physical volumes are wiped after the group is gone, as far as possible.
handle_vg_delete ==
  Handler(common_setup
            \o <<Opt(Sub(teardown_volume_group, <<Error>>)), Run(<<Error>>),
                 Loop(<<Alt({<<Attempt, Uevent>>, <<>>}), Opt(<<Attempt>>)>>), Reply>>, <<>>)
handle_vg_rename == ChangeAndWait(<<>>)
handle_vg_add_device ==
  Handler(<<Dup, Check, Check, Authorize, Check>> \o Sub(WipeBlock, <<Error>>)
            \o <<Opt(<<Run(<<Error>>)>>), Run(<<Error>>), Reply>>, <<>>)
handle_remove_common ==
  Handler(<<Dup, Check, Check, Authorize, Run(<<Error>>), Opt(<<Run(<<Error>>)>>), Reply>>, <<>>)
handle_remove_missing_physical_volumes == ChangeVolume(<<>>)

\* Plain volumes, thin pools, thin volumes and VDO volumes: different tests and
\* tools, then the same wait for the new object.
CreateVolumeTests == <<Alt({<<Check, Opt(<<Check>>)>>, <<>>, <<Check>>})>>
handle_create_volume == ChangeAndWait(CreateVolumeTests)

-----------------------------------------------------------------------------
(* LogicalVolume *)

\* The pool's thin volumes are torn down after its own block.
teardown_logical_volume == TeardownVolume \o <<Loop(TeardownVolume)>>
handle_lv_delete ==
  Handler(common_setup \o <<Opt(Sub(teardown_logical_volume, <<Error>>)), Run(<<Error>>),
                            Await(<<Error>>), Reply>>, <<>>)
handle_lv_repair == ChangeVolume(<<Check>>)
handle_lv_rename == ChangeAndWait(<<>>)
handle_lv_resize == ChangeVolume(<<Opt(<<Check>>)>>)
handle_activate == ChangeAndWait(<<>>)
handle_deactivate == ChangeAndWait(<<>>)
handle_create_snapshot == ChangeAndWait(<<>>)
handle_cache_attach == ChangeVolume(<<>>)
handle_cache_detach_or_split == ChangeVolume(<<>>)

-----------------------------------------------------------------------------
(* VDOVolume *)

set_compression_deduplication == ChangeVolume(<<>>)
handle_resize_logical == ChangeVolume(<<>>)
handle_resize_physical ==
  Handler(<<Dup, Check, Check, Authorize, Run(<<Error>>), Reply>>, <<>>)
handle_get_statistics == Handler(<<Dup, Check, Check, Reply>>, <<>>)

-----------------------------------------------------------------------------
LVM2Programs ==
  [vg_create |-> handle_volume_group_create, vg_poll |-> handle_poll, vg_delete |-> handle_vg_delete,
   vg_rename |-> handle_vg_rename, vg_add_device |-> handle_vg_add_device,
   vg_remove |-> handle_remove_common, vg_remove_missing |-> handle_remove_missing_physical_volumes,
   create_volume |-> handle_create_volume, lv_delete |-> handle_lv_delete,
   lv_repair |-> handle_lv_repair, lv_rename |-> handle_lv_rename, lv_resize |-> handle_lv_resize,
   activate |-> handle_activate, deactivate |-> handle_deactivate,
   create_snapshot |-> handle_create_snapshot, cache_attach |-> handle_cache_attach,
   cache_detach |-> handle_cache_detach_or_split, vdo_set |-> set_compression_deduplication,
   vdo_resize_logical |-> handle_resize_logical, vdo_resize_physical |-> handle_resize_physical,
   vdo_statistics |-> handle_get_statistics]
=============================================================================
