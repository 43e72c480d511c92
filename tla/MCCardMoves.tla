----------------------------- MODULE MCCardMoves -----------------------------
(* Instances of CardMoves for TLC: cards, transactions and columns are
   interchangeable. *)
EXTENDS CardMoves, TLC

MoveSymmetry == Permutations(Txn) \cup Permutations(Column) \cup Permutations(Card)
=============================================================================
