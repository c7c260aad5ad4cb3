---------------------------- MODULE ZFSHandlers ----------------------------
(***************************************************************************)
(* The method handlers of the ZFS module: Manager.ZFS and ZFSPool.  The    *)
(* tool makes no uevent that udisks listens to, so a handler that changes  *)
(* a pool asks the module to list the pools anew before it answers.        *)
(***************************************************************************)
EXTENDS HandlerSteps

ChangeOnly(tests) == Handler(tests \o <<Authorize, Pool(<<Error>>), Reply>>, <<>>)   \* mutant: not asked for
\* What is tested before, the authorization, the tool, the request, the answer.
ChangePool(tests) == Handler(tests \o <<Authorize, Pool(<<Error>>), Refresh, Reply>>, <<>>)
\* What is only read.
ReadPool(tests) == Handler(tests \o <<Authorize, Check, Reply>>, <<>>)
\* Holds show in no exported property.
KeepSnapshot == Handler(<<Check, Check, Authorize, Check, Reply>>, <<>>)

-----------------------------------------------------------------------------
(* Manager.ZFS *)

\* The new pool's object is waited for.
AppearingPool == <<Pool(<<Error>>), Refresh, AwaitPool(<<Error>>), Reply>>
handle_pool_create == Handler(<<Authorize, Check, Check>> \o AppearingPool, <<>>)
\* An import by GUID finds the pool's name out once it is imported.
handle_pool_import ==
  Handler(<<Authorize, Check, Pool(<<Error>>), Refresh, Opt(<<Check>>), AwaitPool(<<Error>>), Reply>>, <<>>)
\* One pool that cannot be imported makes the call fail, after all were tried
\* and without a request for those that were.
handle_pool_import_all ==
  Handler(<<Authorize, Check, Loop(<<PoolAttempt>>), Check, Refresh, Reply>>, <<>>)
handle_list_importable_pools == Handler(<<Authorize, Check, Reply>>, <<>>)

-----------------------------------------------------------------------------
(* ZFSPool: the pool and its devices *)

handle_zfs_poll == Handler(<<Authorize, Refresh, Reply>>, <<>>)

\* The answer goes out first: remove_pool_on_main_thread may drop the object.
GoingPool == Handler(<<Authorize, Pool(<<Error>>), Reply, Refresh>>, <<>>)
handle_export == GoingPool
handle_destroy == GoingPool

handle_add_vdev == Handler(<<Authorize, Check, Pool(<<Error>>), Refresh, Reply>>, <<>>)
handle_remove_vdev == ChangePool(<<>>)
handle_replace_vdev == handle_add_vdev
handle_attach_vdev == handle_add_vdev
handle_detach_vdev == ChangePool(<<>>)
handle_online_vdev == ChangePool(<<>>)
handle_offline_vdev == ChangePool(<<>>)
handle_scrub_start == ChangePool(<<>>)
handle_scrub_pause == ChangePool(<<>>)
handle_scrub_stop == ChangePool(<<>>)
\* The timer that polls a running trim is left out.
handle_trim_start == ChangePool(<<>>)
handle_trim_stop == ChangePool(<<>>)
handle_clear_errors == ChangePool(<<>>)
handle_upgrade == ChangePool(<<>>)
handle_set_property == ChangePool(<<Check, Check>>)
handle_get_property == ReadPool(<<>>)
handle_get_vdev_topology == ReadPool(<<>>)
handle_get_history == ReadPool(<<>>)

-----------------------------------------------------------------------------
(* ZFSPool: datasets, snapshots, bookmarks and keys *)

handle_list_datasets == ReadPool(<<>>)
handle_create_dataset == Handler(<<Check, Authorize, Check, Pool(<<Error>>), Refresh, Reply>>, <<>>)
handle_zfs_create_volume == handle_create_dataset
\* A file system is unmounted first; with `force' whether or not that works.
handle_destroy_dataset ==
  Handler(<<Check, Authorize, Check, Alt({<<Pool(<<Error>>)>>, <<PoolAttempt>>, <<>>}), Pool(<<Error>>),
            Refresh, Reply>>, <<>>)
handle_mount_dataset == ChangePool(<<Check>>)
handle_unmount_dataset == ChangePool(<<Check>>)
handle_zfs_create_snapshot == ChangePool(<<Check, Check>>)
handle_rollback_snapshot == ChangePool(<<Check>>)
handle_clone_snapshot == ChangePool(<<Check, Check>>)
handle_promote_clone == ChangePool(<<Check>>)
handle_rename_dataset == ChangePool(<<Check, Check>>)
handle_set_dataset_property == ChangePool(<<Check, Check, Check, Check>>)
handle_inherit_property == ChangePool(<<Check, Check, Check, Check>>)
handle_get_dataset_property == ReadPool(<<Check>>)
handle_load_key == Handler(<<Check, Authorize, Opt(<<Check>>), Pool(<<Error>>), Refresh, Reply>>, <<>>)
handle_unload_key == ChangePool(<<Check>>)
handle_change_key == handle_load_key
handle_hold_snapshot == KeepSnapshot
handle_release_snapshot == KeepSnapshot
handle_resize_volume == ChangePool(<<Check, Check>>)
handle_create_bookmark == ChangePool(<<Check, Check>>)
handle_destroy_bookmark == ChangePool(<<Check>>)

-----------------------------------------------------------------------------
ZFSPrograms ==
  [pool_create |-> handle_pool_create, pool_import |-> handle_pool_import,
   pool_import_all |-> handle_pool_import_all, list_importable |-> handle_list_importable_pools,
   zfs_poll |-> handle_zfs_poll, export |-> handle_export, destroy |-> handle_destroy,
   add_vdev |-> handle_add_vdev, remove_vdev |-> handle_remove_vdev, replace_vdev |-> handle_replace_vdev,
   attach_vdev |-> handle_attach_vdev, detach_vdev |-> handle_detach_vdev,
   online_vdev |-> handle_online_vdev, offline_vdev |-> handle_offline_vdev,
   scrub_start |-> handle_scrub_start, scrub_pause |-> handle_scrub_pause, scrub_stop |-> handle_scrub_stop,
   trim_start |-> handle_trim_start, trim_stop |-> handle_trim_stop, clear_errors |-> handle_clear_errors,
   upgrade |-> handle_upgrade, zfs_set_property |-> handle_set_property,
   zfs_get_property |-> handle_get_property, get_vdev_topology |-> handle_get_vdev_topology,
   get_history |-> handle_get_history, list_datasets |-> handle_list_datasets,
   create_dataset |-> handle_create_dataset, zfs_create_volume |-> handle_zfs_create_volume,
   destroy_dataset |-> handle_destroy_dataset, mount_dataset |-> handle_mount_dataset,
   unmount_dataset |-> handle_unmount_dataset, zfs_create_snapshot |-> handle_zfs_create_snapshot,
   rollback_snapshot |-> handle_rollback_snapshot, clone_snapshot |-> handle_clone_snapshot,
   promote_clone |-> handle_promote_clone, rename_dataset |-> handle_rename_dataset,
   set_dataset_property |-> handle_set_dataset_property, inherit_property |-> handle_inherit_property,
   get_dataset_property |-> handle_get_dataset_property, load_key |-> handle_load_key,
   unload_key |-> handle_unload_key, change_key |-> handle_change_key,
   hold_snapshot |-> handle_hold_snapshot, release_snapshot |-> handle_release_snapshot,
   resize_volume |-> handle_resize_volume, create_bookmark |-> handle_create_bookmark,
   destroy_bookmark |-> handle_destroy_bookmark]
=============================================================================
