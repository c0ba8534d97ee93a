--------------------------- MODULE MCSpilmanClient --------------------------
(* Instances of SpilmanClient for TLC: a route of one sat with two processes, *)
(* and one of two sats, whose settlement can be split.                        *)
EXTENDS SpilmanClient, TLC

CONSTANTS p1, p2, k1, k2

RouteOf(capacity) ==
    [policy |-> [price_msat |-> 1, per_units |-> 1, free_probe_units |-> 1, grace_units |-> 0],
     unit |-> "sat", capacity_sat |-> capacity, stated_sat |-> capacity, guarded |-> TRUE]
OneSat == {RouteOf(1)}
TwoSats == {RouteOf(2)}

ClientSymmetry == Permutations({p1, p2}) \cup Permutations({k1, k2})
=============================================================================
