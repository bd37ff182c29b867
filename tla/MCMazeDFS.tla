------------------------------ MODULE MCMazeDFS ------------------------------
(***************************************************************************)
(* isConnected on every map of Rows x Cols cells with a wall, an empty     *)
(* space or a player on each.                                               *)
(***************************************************************************)
EXTENDS MazeDFS
=============================================================================
