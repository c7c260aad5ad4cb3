SPECIFICATION Spec
CONSTANTS
  Paths = {"a", "b", "c"}
  Vpds = {"v"}
  Uuids = {"A", "B"}
  Nqns = {"n"}
  Setups <- Machines
  Absent = Absent
  Freed = Freed
  MaxEvents = 3
  MaxLag = 1
  MaxTimeouts = 1
INVARIANTS TypeOK EntriesLive BlocksFollow DrivesFollow ArraysFollow CleartextFollows SubsystemsFollow EveryDriveHasItsRun
CHECK_DEADLOCK FALSE
