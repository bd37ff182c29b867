----------------------------- MODULE MCLabyrinth -----------------------------
(***************************************************************************)
(* Command lines and maps for Labyrinth.                                    *)
(***************************************************************************)
EXTENDS Labyrinth, TLC

Call(q, p, d) == [version |-> FALSE, map |-> q, player |-> p, move |-> d]
Version == [version |-> TRUE, map |-> "none", player |-> NoPlayer, move |-> "none"]

\* Moves of two players on the saved map and of one on the given map, and the
\* ways to be refused.
AllCalls == {Call("saved", p, d) : p \in 0..1, d \in Directions}
              \cup {Call("given", 0, d) : d \in {"down", "right"}}
              \cup {Version, [Version EXCEPT !.map = "saved"], Call("given", NoPlayer, "right"),
                    Call("given", 0, "invalid"), Call("saved", 0, "none")}

\* A U-shaped corridor and a map in two parts.
Corridors == {[c \in Cells |-> IF c = <<0, 0>> THEN 1 ELSE IF c \in w THEN WALL ELSE DOT] :
                w \in {{<<1, 1>>}, {<<0, 1>>, <<1, 1>>}}}
Symmetry == Permutations(Procs)
=============================================================================
