--------------------------- MODULE MCDeviceTables ---------------------------
(* Small machines for TLC, each with the devices of one kind of stack. *)
EXTENDS DeviceTables, TLC

\* Each device has its kind, what it lies on, its VPD and NQN, and its contents; that
\* of an array has the arrays it may run.
Device(kind, on, vpd, nqn, content, others) ==
  [kind |-> kind, on |-> on, vpd |-> vpd, nqn |-> nqn,
   content |-> content, labels |-> {content} \cup others, arrays |-> {}]
ArrayDevice(arrays, others) ==
  [Device("md", Absent, Absent, Absent, "blank", others) EXCEPT !.arrays = arrays]
Nothing == Device("disk", Absent, Absent, Absent, "blank", {})
MachineOf(order, devices) ==
  LET dev(p) == IF p \in DOMAIN devices THEN devices[p] ELSE Nothing IN
  [order |-> order,
   kind |-> [p \in Paths |-> dev(p).kind], on |-> [p \in Paths |-> dev(p).on],
   vpd |-> [p \in Paths |-> dev(p).vpd], nqn |-> [p \in Paths |-> dev(p).nqn],
   content |-> [p \in Paths |-> dev(p).content],
   labels |-> [p \in Paths |-> dev(p).labels],
   arrays |-> [p \in Paths |-> dev(p).arrays]]

\* Two paths to one drive, the first of them partitioned.
Multipath ==
  MachineOf(<<"a", "b", "c">>,
    [a |-> Device("disk", Absent, "v", Absent, "fs", {}),
     b |-> Device("disk", Absent, "v", Absent, "blank", {}),
     c |-> Device("partition", "a", Absent, Absent, "fs", {})])

\* A disk that may be a member of two arrays, and the device of an array, which
\* may be a member of another.
Raid ==
  MachineOf(<<"a", "b">>,
    [a |-> Device("disk", Absent, Absent, Absent, "A", {"blank", "B"}),
     b |-> ArrayDevice({"A", "B"}, {"B"})])

\* The devices of two arrays, of which the first may be a member of the second.
Stacked ==
  MachineOf(<<"b", "c">>, [b |-> ArrayDevice({"A"}, {"B"}), c |-> ArrayDevice({"B"}, {})])

\* An array that either of two devices may run.
Renumbered ==
  MachineOf(<<"a", "b", "c">>,
    [a |-> Device("disk", Absent, Absent, Absent, "A", {}),
     b |-> ArrayDevice({"A"}, {}), c |-> ArrayDevice({"A"}, {})])

\* An encrypted disk, and the mapping on it under two names, one after the other.
Crypto ==
  MachineOf(<<"a", "b", "c">>,
    [a |-> Device("disk", Absent, "v", Absent, "crypto", {"blank"}),
     b |-> Device("dm", "a", Absent, Absent, "blank", {"fs"}),
     c |-> Device("dm", "a", Absent, Absent, "fs", {})])

Nvme ==
  MachineOf(<<"a", "b">>,
    [a |-> Device("controller", Absent, "v", "n", "blank", {}),
     b |-> Device("namespace", Absent, Absent, "n", "blank", {})])

Machines == {Multipath, Raid, Stacked, Renumbered, Crypto, Nvme}
=============================================================================
