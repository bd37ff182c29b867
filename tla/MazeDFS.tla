------------------------------- MODULE MazeDFS -------------------------------
(***************************************************************************)
(* isConnected() and dfs() of os2025/labyrinth/labyrinth.c, one step per   *)
(* iteration of dfs's loop over the four offsets.  A frame of the stack is *)
(* an activation of dfs: its cell and the index i of its loop.              *)
(***************************************************************************)
EXTENDS LabyrinthGame, Sequences, FiniteSets

CONSTANT Chars   \* the characters of the maps

ASSUME CharsAssumption == Chars \subseteq Digits \cup {DOT, WALL}

VARIABLES
    map,      \* the labyrinth, read only
    visited,  \* visited[][]
    stack,    \* the activations of dfs, the innermost last
    result    \* what isConnected returned: "none" while it runs

dfsVars == <<map, visited, stack, result>>

\* rowOffsets and colOffsets, by index.
Offsets == <<"up", "down", "left", "right">>

DfsInit ==
    /\ map \in [Cells -> Chars]
    /\ visited = {}
    /\ stack = <<>>
    /\ result = "none"

\* isConnected up to its call of dfs.
Start ==
    LET start == findFirstEmptySpace(map)
    IN  /\ result = "none" /\ visited = {}
        /\ IF start = NoPosition
           THEN result' = "no" /\ UNCHANGED <<visited, stack>>
           ELSE /\ visited' = {start}
                /\ stack' = <<[cell |-> start, i |-> 1]>>
                /\ UNCHANGED result
        /\ UNCHANGED map

Top == stack[Len(stack)]
\* The loop of the innermost activation goes on.
Advanced == [stack EXCEPT ![Len(stack)].i = @ + 1]

\* Mutant: the last offset is left out.
TryThree ==
    LET new == Neighbour(Top.cell, Offsets[Top.i])
    IN  /\ stack # <<>> /\ Top.i <= 4
        /\ IF Top.i <= 3 /\ new \notin visited /\ isEmptySpace(map, new)
           THEN /\ visited' = visited \cup {new}
                /\ stack' = Append(Advanced, [cell |-> new, i |-> 1])
           ELSE /\ stack' = Advanced
                /\ UNCHANGED visited
        /\ UNCHANGED <<map, result>>

\* Mutant: the loop does not count.
TryNoCount ==
    LET new == Neighbour(Top.cell, Offsets[Top.i])
    IN  /\ stack # <<>> /\ Top.i <= 4
        /\ IF new \notin visited /\ isEmptySpace(map, new)
           THEN /\ visited' = visited \cup {new}
                /\ stack' = Append(Advanced, [cell |-> new, i |-> 1])
           ELSE UNCHANGED <<visited, stack>>
        /\ UNCHANGED <<map, result>>

\* One iteration: an empty neighbour in bounds that is not visited is marked
\* and dfs is called for it.
Try ==
    LET new == Neighbour(Top.cell, Offsets[Top.i])
    IN  /\ stack # <<>> /\ Top.i <= 4
        /\ IF new \notin visited /\ isEmptySpace(map, new)
           THEN /\ visited' = visited \cup {new}
                /\ stack' = Append(Advanced, [cell |-> new, i |-> 1])
           ELSE /\ stack' = Advanced
                /\ UNCHANGED visited
        /\ UNCHANGED <<map, result>>

\* dfs returns.
Return ==
    /\ stack # <<>> /\ Top.i > 4
    /\ stack' = SubSeq(stack, 1, Len(stack) - 1)
    /\ UNCHANGED <<map, visited, result>>

\* The final scan of isConnected.
Check ==
    /\ result = "none" /\ visited # {} /\ stack = <<>>
    /\ result' = IF \A c \in Cells : isEmptySpace(map, c) => c \in visited THEN "yes" ELSE "no"
    /\ UNCHANGED <<map, visited, stack>>

Returned == result # "none" /\ UNCHANGED dfsVars

DfsNext == Start \/ Try \/ Return \/ Check \/ Returned

\* A sequential function: it runs on.
DfsSpec == DfsInit /\ [][DfsNext]_dfsVars /\ WF_dfsVars(DfsNext)

-----------------------------------------------------------------------------
DfsTypeOK ==
    /\ map \in Maps
    /\ visited \subseteq Cells
    /\ stack \in Seq([cell : Cells, i : 1..5])
    /\ result \in {"none", "yes", "no"}

\* isConnected answers its question: it returns true exactly for the maps
\* whose empty spaces are connected, however the recursion of dfs winds.
AnswersConnected ==
    result # "none" => (result = "yes" <=> Connected(EmptySpaces(map)))

\* The recursion is no deeper than the number of cells marked so far, so the
\* stack of dfs is bounded by the size of the map.
DepthBounded == Len(stack) <= Cardinality(visited)

\* isConnected returns.
Terminates == <>(result # "none")
=============================================================================
