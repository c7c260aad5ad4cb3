-------------------------- MODULE StorageHandlers --------------------------
(***************************************************************************)
(* The method handlers of Partition, PartitionTable, Loop, Swapspace,      *)
(* Manager and MDRaid.                                                     *)
(***************************************************************************)
EXTENDS BlockHandlers

-----------------------------------------------------------------------------
(* Partition *)

\* check_authorization: looks the object up on its own account.
check_authorization == <<Check>> \o AuthorizeUser

\* The handlers that change one entry of the table: job, tool, uevent, answer,
\* and the job is over after the answer.
ModifyPartition(tests, settle) ==
  Handler(check_authorization \o Locked
            \o <<Job>> \o tests \o <<Tool(<<Error, JobFail>>)>> \o settle \o <<Reply, JobDone>>,
          CleanupOut)
handle_set_flags == ModifyPartition(<<Checked(<<Error, JobFail>>)>>, <<Uevent>>)
handle_set_name == ModifyPartition(<<Checked(<<Error, JobFail>>)>>, <<Uevent>>)
handle_partition_resize == ModifyPartition(<<>>, <<Uevent, AwaitAnyway>>)
handle_partition_set_uuid ==
  Handler(check_authorization \o Locked
            \o <<Check, Job, Tool(<<Error, JobFail>>), Uevent, Reply, JobDone>>, CleanupOut)

\* No clean-up lock here.
handle_set_type == Handler(check_authorization \o Sub(SetTypeSync, <<Error>>) \o <<Reply>>, <<>>)

handle_partition_delete ==
  Handler(check_authorization \o Locked \o <<Opt(Sub(Teardown, <<Error>>))>>
            \o <<Job, Tool(<<Error, JobFail>>), Uevent, Reply, JobDone>>, CleanupOut)

-----------------------------------------------------------------------------
(* PartitionTable *)

\* udisks_linux_partition_table_handle_create_partition, in its three parts.
CreateAdmission == <<Check>> \o AuthorizeUser \o <<Check>>
CreateEntry ==
  <<Job, Checked(<<Error, JobFail>>), Tool(<<Error, JobFail>>),
    Opt(<<Tool(<<Error, JobFail>>)>>), Opt(<<Tool(<<Error, JobFail>>)>>)>>
CreateSettle ==
  <<Opt(<<Tool(<<Error, JobFail>>)>>), Await(<<Error, JobFail>>), Checked(<<Error, JobFail>>),
    Uevent, JobDone>>
CreatePartition == CreateAdmission \o CreateEntry \o CreateSettle

handle_create_partition == Handler(<<Flock>> \o CreatePartition \o <<Reply>>, <<Unflock>>)

\* Creating takes the lock; it is given back when creating fails, and else by
\* handle_format_complete, the function that answers.
handle_create_partition_and_format ==
  Handler(<<Flock>> \o Sub(CreatePartition, <<Unflock>>) \o FormatSteps(<<Unflock>>), CleanupOut)

-----------------------------------------------------------------------------
(* Loop *)

handle_loop_delete ==
  Handler(Locked \o <<Check, Recall, Opt(<<Authorize>>), Job, Tool(<<JobFail, Error>>), JobDone, Reply>>,
          CleanupOut)
SetLoop == Handler(<<Dup, Check, Recall, Opt(<<Authorize>>), Tool(<<Error>>), Uevent, Reply>>, <<>>)
handle_set_autoclear == SetLoop
handle_set_capacity == SetLoop

-----------------------------------------------------------------------------
(* Swapspace *)

SwapOnOff == Handler(<<Dup, Check, Authorize, Run(<<Error>>), Uevent, Reply>>, <<>>)
handle_swap_start == SwapOnOff
handle_swap_stop == SwapOnOff
ModifySwap ==
  Handler(<<Dup, Check, Authorize, Job, Tool(<<Error, JobFail>>), Uevent, Reply, JobDone>>, <<>>)
handle_swap_set_label == ModifySwap
handle_swap_set_uuid == ModifySwap

-----------------------------------------------------------------------------
(* Manager *)

handle_loop_setup ==
  Handler(<<Check, Authorize, Check, Tool(<<Error>>), Record, Uevent, Await(<<Error>>), Reply>>, <<>>)

\* handle_mdraid_create.  `out:' completes the job with the success so far,
\* unless creating failed, which has completed it already.
MDCreateAdmission == <<Check, Authorize, Job, Checked(<<Error, JobFail>>)>>
MDCreateArray ==
  <<Loop(<<Tool(<<Error, JobFail>>)>>), Checked(<<Error, JobFail>>), Tool(<<JobFail, Error>>)>>
MDCreateSettle ==
  <<Checked(<<Error, JobFail>>), Uevent, Await(<<Error, JobFail>>), Checked(<<Error, JobFail>>), Record,
    Tool(<<Error, JobFail>>), Loop(<<Checked(<<Error, JobFail>>), Kick>>), Reply, JobDone>>
handle_mdraid_create == Handler(MDCreateAdmission \o MDCreateArray \o MDCreateSettle, <<>>)

\* Loading modules is left to an idle callback of the main thread, which sends
\* the answer.
load_modules_in_idle_cb == <<Alt({<<Reply>>, <<Error>>})>>
handle_enable_modules == Handler(<<Check>> \o load_modules_in_idle_cb, <<>>)
handle_enable_module == Handler(<<Check>> \o load_modules_in_idle_cb, <<>>)

Query == Handler(<<Check, Reply>>, <<>>)
handle_can_format == Query
handle_can_resize == Query
handle_can_check == Query
handle_can_repair == Query
handle_get_block_devices == Handler(<<Reply>>, <<>>)
handle_get_drives == Handler(<<Reply>>, <<>>)
handle_resolve_device == Query

-----------------------------------------------------------------------------
(* MDRaid *)

handle_md_start ==
  Handler(<<Dup, Check, Authorize, Job, Tool(<<JobFail, Error>>), JobDone,
            Await(<<Error>>), Check, Record, Reply>>, <<>>)

MDRaidStop ==
  <<Test, Recall, Opt(<<Test>>), Job, Tool(<<JobFail>>), Uevent, JobDone>>
handle_md_stop == Handler(Sub(MDRaidStop, <<Error>>) \o <<Reply>>, <<>>)

\* What the handlers of a running array begin with.
Running == <<Dup, Check, Recall, Opt(<<Authorize>>), Job, Tool(<<JobFail, Error>>)>>
handle_remove_device ==
  Handler(Running \o <<JobDone, Opt(<<Tool(<<Error>>)>>), Uevent, Uevent, Reply>>, <<>>)
handle_add_device == Handler(Running \o <<Uevent, Uevent, JobDone, Reply>>, <<>>)
handle_set_bitmap_location == Handler(Running \o <<Uevent, JobDone, Reply>>, <<>>)
handle_request_sync_action == Handler(Running \o <<Uevent, JobDone, Reply>>, <<>>)

\* handle_delete: what is on the array, the array, then each member.
handle_md_delete ==
  Handler(<<Dup, Check, Authorize, Opt(<<Authorize, Alt({Sub(Teardown, <<Error>>), <<Check>>})>>),
            Opt(Sub(MDRaidStop, <<Error>>)), Loop(<<Tool(<<Error>>), Uevent>>), Opt(<<Uevent>>), Reply>>, <<>>)

-----------------------------------------------------------------------------
StoragePrograms ==
  [set_flags |-> handle_set_flags, set_name |-> handle_set_name,
   partition_set_uuid |-> handle_partition_set_uuid, set_type |-> handle_set_type,
   partition_resize |-> handle_partition_resize, partition_delete |-> handle_partition_delete,
   create_partition |-> handle_create_partition,
   loop_delete |-> handle_loop_delete, set_autoclear |-> handle_set_autoclear,
   set_capacity |-> handle_set_capacity, swap_start |-> handle_swap_start,
   swap_stop |-> handle_swap_stop, swap_set_label |-> handle_swap_set_label,
   swap_set_uuid |-> handle_swap_set_uuid, loop_setup |-> handle_loop_setup,
   mdraid_create |-> handle_mdraid_create, enable_modules |-> handle_enable_modules,
   enable_module |-> handle_enable_module, can_format |-> handle_can_format,
   can_resize |-> handle_can_resize, can_check |-> handle_can_check,
   can_repair |-> handle_can_repair, get_block_devices |-> handle_get_block_devices,
   get_drives |-> handle_get_drives, resolve_device |-> handle_resolve_device,
   md_start |-> handle_md_start, md_stop |-> handle_md_stop,
   remove_device |-> handle_remove_device, add_device |-> handle_add_device,
   set_bitmap_location |-> handle_set_bitmap_location,
   request_sync_action |-> handle_request_sync_action, md_delete |-> handle_md_delete,
   create_and_format |-> handle_create_partition_and_format]
=============================================================================
