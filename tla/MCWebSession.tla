---------------------------- MODULE MCWebSession ----------------------------
(* Instances of WebSession for TLC. *)
EXTENDS WebSession

CONSTANTS c1, c2, p1, r1, r2

Budget(uses, agings, doors, faults) ==
    [uses |-> uses, agings |-> agings, doors |-> doors, faults |-> faults]

Small == {Budget(4, 3, 0, 1), Budget(3, 2, 1, 0), Budget(2, 2, 2, 0),
          Budget(2, 2, 1, 1)}
=============================================================================
