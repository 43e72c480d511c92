------------------------------- MODULE MCHub -------------------------------
(* Instances of Hub for TLC: connections are interchangeable. *)
EXTENDS Hub, TLC

(***************************************************************************)
(* No guard of Hub reads told or channels, and at is read only by a        *)
(* goroutine that is busy with a room, so runs whose properties do not     *)
(* mention them identify states that differ only there.                    *)
(***************************************************************************)
Resting == {"off", "new", "serving", "cleanup", "finished", "reading", "idle",
            "sweep", "done"}
MembershipView ==
    <<closing, conns, rooms, subs, subMu, held, closed, access, grants, shut,
      [c \in Conn |-> IF Resubscribes THEN {} ELSE named[c]],
      live \cap conns, pc, todo,
      [p \in Proc |-> IF pc[p] \in Resting THEN {} ELSE {at[p]}]>>

ConnSymmetry == Permutations(Conn)
=============================================================================
