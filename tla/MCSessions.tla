----------------------------- MODULE MCSessions -----------------------------
(* Instances of Sessions for TLC: the requests in flight are interchangeable. *)
EXTENDS Sessions, TLC

RequestSymmetry == Permutations(Proc)

\* Bound: one session rotated twice, or two sessions with two tokens between them.
FewTokens == issued + minted <= 4
=============================================================================
