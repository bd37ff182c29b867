---------------------------- MODULE LabyrinthGame ----------------------------
(***************************************************************************)
(* The map of the labyrinth game (os2025/labyrinth/labyrinth.c) and what a *)
(* move does to it.  A map gives every cell its character; the digit of a  *)
(* player is written as the number.  Rows and columns count from 0.         *)
(***************************************************************************)
EXTENDS Integers

CONSTANTS Rows, Cols   \* labyrinth->rows and labyrinth->cols

ASSUME SizeAssumption == Rows \in Nat /\ Cols \in Nat

DOT == 10
WALL == 11
Digits == 0..9
Cells == (0..(Rows - 1)) \X (0..(Cols - 1))
Maps == [Cells -> Digits \cup {DOT, WALL}]

Directions == {"up", "down", "left", "right"}
RowOffset == [up |-> -1, down |-> 1, left |-> 0, right |-> 0]
ColOffset == [up |-> 0, down |-> 0, left |-> -1, right |-> 1]
Neighbour(c, d) == <<c[1] + RowOffset[d], c[2] + ColOffset[d]>>

\* isEmptySpace: a cell with a player on it counts as empty.
isEmptySpace(m, c) == c \in Cells /\ (m[c] = DOT \/ m[c] \in Digits)
EmptySpaces(m) == {c \in Cells : isEmptySpace(m, c)}

\* The scans of findPlayer and findFirstEmptySpace run row by row.
NoPosition == <<-1, -1>>
Before(a, b) == a[1] < b[1] \/ (a[1] = b[1] /\ a[2] <= b[2])
FirstOf(S) == IF S = {} THEN NoPosition
              ELSE CHOOSE c \in S : \A other \in S : Before(c, other)
findPlayer(m, p) == FirstOf({c \in Cells : m[c] = p})
findFirstEmptySpace(m) == FirstOf(EmptySpaces(m))

\* Where movePlayer starts: a player who is not on the map enters it.
PlaceOf(m, p) == IF findPlayer(m, p) = NoPosition THEN findFirstEmptySpace(m)
                 ELSE findPlayer(m, p)

\* The guards of movePlayer, in order: a place, a direction, in bounds, free.
CanMove(m, p, d) ==
    /\ PlaceOf(m, p) # NoPosition
    /\ d \in Directions
    /\ LET to == Neighbour(PlaceOf(m, p), d)
       IN  to \in Cells /\ isEmptySpace(m, to) /\ m[to] \notin Digits

\* Mutants: the old cell is not cleared; it is made a wall.
MovedKeepsOld(m, p, d) ==
    [m EXCEPT ![Neighbour(PlaceOf(m, p), d)] = p]
MovedLeavesWall(m, p, d) ==
    [m EXCEPT ![PlaceOf(m, p)] = WALL, ![Neighbour(PlaceOf(m, p), d)] = p]

\* The two assignments of movePlayer.
Moved(m, p, d) ==
    [m EXCEPT ![PlaceOf(m, p)] = DOT, ![Neighbour(PlaceOf(m, p), d)] = p]

Walls(m) == {c \in Cells : m[c] = WALL}

\* Every player is on the map at most once; findPlayer looks for one.
Single(m) == \A a, b \in Cells : m[a] \in Digits /\ m[a] = m[b] => a = b

\* What isConnected promises ("all empty spaces are connected"): a set of
\* empty spaces that holds the first one and every neighbour of its members
\* holds them all.
Closed(open, S) == \A c \in S, d \in Directions : Neighbour(c, d) \in open => Neighbour(c, d) \in S
Connected(open) ==
    \E first \in open :
        /\ first = FirstOf(open)
        /\ \A S \in SUBSET open : first \in S /\ Closed(open, S) => S = open
=============================================================================
