-------------------------- MODULE MCLabyrinthServer --------------------------
(***************************************************************************)
(* A corridor with the players 0 and 2 at its ends, and four connections:  *)
(* alice is connected twice, bob and carol once.                            *)
(***************************************************************************)
EXTENDS LabyrinthServer, TLC

CONSTANTS c1, c2, c3, c4, alice, bob, carol

OneRow == [c \in Cells |-> IF c = <<0, 0>> THEN 0 ELSE IF c = <<0, Cols - 1>> THEN 2 ELSE DOT]
Connections == c1 :> alice @@ c2 :> alice @@ c3 :> bob @@ c4 :> carol
=============================================================================
