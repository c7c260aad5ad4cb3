--------------------------- MODULE MCStackCleanup ---------------------------
(* Small instances of StackCleanup for TLC.                                *)
EXTENDS StackCleanup, TLC

CONSTANTS p1, p2, f1, f2, a1, c1, c2, l1, l2, r1, t1, t2

KindOf == [x \in Base \cup Dev |->
             IF x \in {p1, p2, c1, c2} THEN "crypto"
             ELSE IF x \in {f1, f2, l1, l2} THEN "loop" ELSE "mdraid"]

Bounds(h, e, c, k, f) ==
    [hotplug |-> h, external |-> e, calls |-> c, crash |-> k, fault |-> f]

SafetyBudgets == {Bounds(0, 1, 2, 1, 1), Bounds(1, 1, 1, 1, 1), Bounds(1, 0, 2, 0, 1)}
LiveBudgets   == {Bounds(1, 1, 2, 0, 0)}
ReuseBudgets  == {Bounds(0, 2, 2, 0, 0)}

(* Handler threads are alike, and so are foundations of one kind.          *)
FoundationSymmetry ==
    UNION {Permutations(Thread),
           Permutations({b \in Base : Kind[b] = "crypto"}),
           Permutations({b \in Base : Kind[b] = "loop"})}
=============================================================================
