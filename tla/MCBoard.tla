------------------------------ MODULE MCBoard ------------------------------
(* Instances of Board for TLC. *)
EXTENDS Board

Cards(ids, columnId) ==
    [i \in DOMAIN ids |-> [id |-> ids[i], columnId |-> columnId, text |-> "old"]]

Columns(columns) == [columns |-> columns, unplaced |-> <<>>]

\* Two cards, or three, and an empty column beside them.
Pair == Columns(<<Entry(1, "old", Cards(<<3, 4>>, 1))>>)
ThreeAndNone ==
    Columns(<<Entry(1, "old", Cards(<<3, 4, 5>>, 1)), Entry(2, "old", <<>>)>>)

Budget(others, moves, creates, columns, faults) ==
    [others |-> others, moves |-> moves, creates |-> creates, columns |-> columns,
     faults |-> faults]

From(board, budgets) == {[board |-> board, budget |-> b] : b \in budgets}

Small ==
    From(ThreeAndNone, {Budget(1, 0, 1, 0, 1), Budget(0, 2, 0, 0, 1),
                        Budget(1, 1, 0, 0, 0), Budget(0, 1, 1, 0, 0),
                        Budget(0, 1, 0, 1, 0), Budget(0, 0, 1, 1, 0),
                        Budget(1, 0, 0, 1, 0)})
    \cup From(Pair, {Budget(0, 3, 0, 0, 0), Budget(0, 0, 2, 0, 0)})
=============================================================================
