----------------------------- MODULE MCSharedTask -----------------------------
(***************************************************************************)
(* SharedTask for TLC.  Players are interchangeable: the configurations    *)
(* have no GMs, and no definition chooses between players.                 *)
(***************************************************************************)
EXTENDS SharedTask, TLC

PlayerSymmetry == Permutations(Players)
=============================================================================
