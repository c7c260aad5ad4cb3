---------------------------- MODULE MCDeviceJobs ----------------------------
(* Small instances of DeviceJobs for TLC. *)
EXTENDS DeviceJobs

Budget(k, m, n, c, f) == [kind |-> k, methods |-> m, calls |-> n, cancels |-> c, misses |-> f]

\* Three calls are a start and two that meet: a third start, or two that abort.
Interfaces ==
  {Budget("ata", Methods.ata, 2, 1, 0), Budget("ata", {"start", "abort"}, 3, 1, 0),
   Budget("format", Methods.format, 3, 1, 0),
   Budget("nvme", Methods.nvme, 2, 1, 1), Budget("nvme", Methods.nvme, 2, 0, 2),
   Budget("nvme", {"start", "abort"}, 3, 0, 0)}

Namespace == {Budget("format", Methods.format, 2, 0, 0)}
=============================================================================
