---------------------------- MODULE MCMountState ----------------------------
(* Small instances of MountState for TLC.                                  *)
EXTENDS MountState, TLC

CONSTANTS d1, d2, d3, m1, m2, t1, t2

(* d3 is in fstab, at m2, for any user to mount.                           *)
FstabD3 == [d \in Dev |-> IF d = d3 THEN m2 ELSE NoMp]
NoFstab == [d \in Dev |-> NoMp]

(* Handler threads are alike, and so are the devices fstab does not name.  *)
ThreadSymmetry == Permutations(Thread)
Alike == ThreadSymmetry \cup Permutations({d1, d2})

Bounds(h, e, c, k, f, o) ==
    [hotplug |-> h, external |-> e, calls |-> c, crash |-> k, fault |-> f, other |-> o]

(* Two calls and root; two calls, a device that goes and a daemon that is  *)
(* killed; one call with all that, or with root, steps that fail and       *)
(* checks for the asking.                                                  *)
CrashBudgets ==
    {Bounds(0, 1, 2, 0, 0, 0), Bounds(1, 0, 2, 1, 0, 0),
     Bounds(1, 0, 1, 1, 1, 1), Bounds(0, 1, 1, 0, 1, 1)}

(* Two calls and a device that goes; one call and a device that comes back;*)
(* one call, root, a step that fails and checks for the asking.            *)
LiveBudgets ==
    {Bounds(1, 0, 2, 0, 0, 0), Bounds(2, 0, 1, 0, 0, 0), Bounds(1, 1, 1, 0, 1, 1)}
=============================================================================
