----------------------- MODULE MCConnectionLifecycle -----------------------
(* Small instances of ConnectionLifecycle for TLC.                         *)
EXTENDS ConnectionLifecycle, TLC

CONSTANTS d1, d2, o1, o2, id1, e1, e2, k1, k2

Twins == Permutations(Entries) \cup Permutations(Ops) \cup Permutations(Callers)

-----------------------------------------------------------------------------
(* Whatever they queue behind, and whether or not that succeeds, connects,  *)
(* disconnects, swaps and removals come to an end, and leave no client      *)
(* behind.                                                                  *)
TasksSettle ==
    []NoOrphanClient /\ ConnectSettles /\ DisconnectSettles /\ SwapAndRemovalSettle
=============================================================================
