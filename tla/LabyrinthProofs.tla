--------------------------- MODULE LabyrinthProofs ---------------------------
(***************************************************************************)
(* The labyrinth game, for maps of every size and any number of processes, *)
(* connections and users: what a scan finds and a move does; that           *)
(* isConnected is right about every map; what any number of labyrinth       *)
(* processes do to the saved map; and who controls which player online.     *)
(***************************************************************************)
EXTENDS Labyrinth, MazeDFS, LabyrinthServer, FiniteSetTheorems, SequenceTheorems,
        WellFoundedInduction, TLAPS

(* The map: LabyrinthGame. *)

Less == {ss \in Nat \X Nat : ss[1] < ss[2]}

\* A set of naturals that is not empty has a least element.
LEMMA NatMin ==
  ASSUME NEW T \in SUBSET Nat, T # {}
  PROVE  \E x \in T : \A y \in T : x <= y
<1>1. IsWellFoundedOn(Less, Nat)
  BY NatLessThanWellFounded DEF OpToRel, Less
<1>2. \A x, y \in Nat : x < y => <<x, y>> \in Less
  BY DEF Less
<1>3. T \subseteq Nat
  OBVIOUS
<1>4. \E x \in T : \A y \in T : ~(<<y, x>> \in Less)
  BY ONLY <1>1, <1>3, T # {}, WFMin
<1>5. PICK x \in T : \A y \in T : ~(<<y, x>> \in Less)
  BY <1>4
<1>6. \A y \in T : ~(y < x)
  BY <1>2, <1>3, <1>5
<1> QED BY <1>3, <1>6

\* A set of cells that is not empty has a first one, and the scan finds it.
LEMMA FirstOfCells ==
  ASSUME NEW S \in SUBSET Cells, S # {}
  PROVE  FirstOf(S) \in S
<1> DEFINE RowsOf == {c[1] : c \in S}
<1>1. PICK s \in S : TRUE
  OBVIOUS
<1>2. RowsOf \subseteq Nat /\ s[1] \in RowsOf
  BY <1>1, SizeAssumption DEF Cells
<1>3. PICK r \in RowsOf : \A x \in RowsOf : r <= x
  <2> HIDE DEF RowsOf
  <2> QED BY <1>2, NatMin
<1> DEFINE ColsOf == {c[2] : c \in {e \in S : e[1] = r}}
<1>4. PICK s2 \in S : s2[1] = r
  BY <1>3
<1>5. ColsOf \subseteq Nat /\ s2[2] \in ColsOf
  BY <1>4, SizeAssumption DEF Cells
<1>6. PICK k \in ColsOf : \A x \in ColsOf : k <= x
  <2> HIDE DEF ColsOf
  <2> QED BY <1>5, NatMin
<1>7. PICK c \in S : c[1] = r /\ c[2] = k
  BY <1>6
<1>8. \A other \in S : Before(c, other)
  <2> TAKE other \in S
  <2>1. other[1] \in RowsOf /\ (other[1] = r => other[2] \in ColsOf)
    OBVIOUS
  <2>2. other[1] \in Nat /\ other[2] \in Nat /\ r \in Nat /\ k \in Nat
    BY <1>2, <1>3, <1>5, <1>6, SizeAssumption DEF Cells
  <2> HIDE DEF RowsOf, ColsOf
  <2> QED BY <1>3, <1>6, <1>7, <2>1, <2>2 DEF Before
<1> QED BY <1>7, <1>8 DEF FirstOf

\* movePlayer starts from a cell that is no wall: the place of the player, or
\* an empty space if the player is on no other cell.
LEMMA PlaceFound ==
  ASSUME NEW m \in Maps, NEW p \in Digits, PlaceOf(m, p) # NoPosition
  PROVE  /\ PlaceOf(m, p) \in Cells
         /\ m[PlaceOf(m, p)] # WALL
         /\ m[PlaceOf(m, p)] = p \/ \A c \in Cells : m[c] # p
<1> DEFINE Places == {c \in Cells : m[c] = p}
<1>1. NoPosition \notin Cells
  BY SizeAssumption DEF NoPosition, Cells
<1>2. CASE Places # {}
  <2>1. FirstOf(Places) \in Places
    BY <1>2, FirstOfCells
  <2>2. PlaceOf(m, p) = FirstOf(Places)
    BY <1>1, <2>1 DEF PlaceOf, findPlayer
  <2> QED BY <2>1, <2>2 DEF Digits, WALL
<1>3. CASE Places = {}
  <2>1. PlaceOf(m, p) = FirstOf(EmptySpaces(m))
    BY <1>3 DEF PlaceOf, findPlayer, findFirstEmptySpace, FirstOf
  <2>2. EmptySpaces(m) # {}
    BY <2>1 DEF FirstOf
  <2>3. FirstOf(EmptySpaces(m)) \in EmptySpaces(m)
    BY <2>2, FirstOfCells DEF EmptySpaces
  <2>4. PlaceOf(m, p) \in Cells /\ (m[PlaceOf(m, p)] = DOT \/ m[PlaceOf(m, p)] \in Digits)
    BY <2>1, <2>3 DEF EmptySpaces, isEmptySpace
  <2>5. \A c \in Cells : m[c] # p
    BY <1>3
  <2> QED BY <2>4, <2>5 DEF DOT, WALL, Digits
<1> QED BY <1>2, <1>3

\* A move of a player keeps the map a map.
LEMMA MovedIsMap ==
  ASSUME NEW m \in Maps, NEW p \in Digits, NEW d
  PROVE  Moved(m, p, d) \in Maps
  BY DEF Moved, Maps, Digits

\* A move that movePlayer makes changes no wall.
LEMMA MovedWalls ==
  ASSUME NEW m \in Maps, NEW p \in Digits, NEW d, CanMove(m, p, d)
  PROVE  Walls(Moved(m, p, d)) = Walls(m)
<1> DEFINE from == PlaceOf(m, p)
           to == Neighbour(from, d)
<1>1. from \in Cells /\ m[from] # WALL
  BY PlaceFound DEF CanMove
<1>2. to \in Cells /\ m[to] # WALL
  BY DEF CanMove, isEmptySpace, DOT, WALL, Digits
<1> HIDE DEF from, to
<1>3. Moved(m, p, d) = [m EXCEPT ![from] = DOT, ![to] = p]
  BY DEF Moved, from, to
<1> QED BY <1>1, <1>2, <1>3 DEF Walls, Maps, DOT, WALL, Digits

\* A move that movePlayer makes puts no player on the map twice.
LEMMA MovedSingle ==
  ASSUME NEW m \in Maps, NEW p \in Digits, NEW d, CanMove(m, p, d), Single(m)
  PROVE  Single(Moved(m, p, d))
<1> DEFINE from == PlaceOf(m, p)
           to == Neighbour(from, d)
<1>1. from \in Cells /\ (m[from] = p \/ \A c \in Cells : m[c] # p)
  BY PlaceFound DEF CanMove
<1>2. to \in Cells
  BY DEF CanMove
<1> HIDE DEF from, to
<1>3. Moved(m, p, d) = [m EXCEPT ![from] = DOT, ![to] = p]
  BY DEF Moved, from, to
<1>4. \A c \in Cells : m[c] = p => c = from
  BY <1>1 DEF Single
<1> QED BY <1>1, <1>2, <1>3, <1>4 DEF Single, Maps, DOT, Digits

-----------------------------------------------------------------------------
(* isConnected: MazeDFS.  When it returns, the visited cells are the smallest *)
(* closed set that holds the first empty space.                               *)

Open == EmptySpaces(map)

\* The result is only set when nothing is left to do.
Phase ==
    /\ visited = {} => stack = <<>>
    /\ result # "none" => stack = <<>>
    /\ visited # {} => Open # {} /\ FirstOf(Open) \in visited

\* Nothing is marked that is not connected to the first empty space.
Sound ==
    /\ visited \subseteq Open
    /\ \A S \in SUBSET Open :
         visited # {} /\ FirstOf(Open) \in S /\ Closed(Open, S) => visited \subseteq S

\* The neighbour of c in the j-th direction needs no more visit.
Seen(c, j, open, marked) ==
    Neighbour(c, Offsets[j]) \in open => Neighbour(c, Offsets[j]) \in marked

\* Each activation has dealt with the offsets before its i, and a marked cell
\* whose activation has returned with all four.
Progress ==
    /\ \A k \in 1..Len(stack) :
         /\ stack[k].cell \in visited
         /\ \A j \in 1..4 : j < stack[k].i => Seen(stack[k].cell, j, Open, visited)
    /\ \A c \in visited : \/ \E k \in 1..Len(stack) : stack[k].cell = c
                          \/ \A j \in 1..4 : Seen(c, j, Open, visited)

\* The inductive invariant.
DfsInv == DfsTypeOK /\ Phase /\ Sound /\ Progress /\ AnswersConnected

\* isEmptySpace tests for membership in the empty spaces of the map.
LEMMA OpenFacts ==
  ASSUME map \in Maps
  PROVE  /\ Open \subseteq Cells
         /\ \A c : isEmptySpace(map, c) <=> c \in Open
  BY DEF Open, EmptySpaces, isEmptySpace

\* The test of findFirstEmptySpace's result is the test for an empty set.
LEMMA FirstEmpty ==
  ASSUME map \in Maps
  PROVE  /\ findFirstEmptySpace(map) = FirstOf(Open)
         /\ FirstOf(Open) = NoPosition <=> Open = {}
         /\ Open # {} => FirstOf(Open) \in Open
<1>1. NoPosition \notin Cells
  BY SizeAssumption DEF NoPosition, Cells
<1>2. Open \subseteq Cells
  BY OpenFacts
<1>3. CASE Open = {}
  BY <1>3 DEF FirstOf, findFirstEmptySpace, Open
<1>4. CASE Open # {}
  BY <1>1, <1>2, <1>4, FirstOfCells DEF findFirstEmptySpace, Open
<1> QED BY <1>3, <1>4

\* The map, and with it the set of empty spaces, never changes.
LEMMA SameOpen == map' = map => Open' = Open
  BY DEF Open, EmptySpaces, isEmptySpace

\* The invariant holds when isConnected is called.
LEMMA DfsInitInv == DfsInit => DfsInv
<1> SUFFICES ASSUME DfsInit PROVE DfsInv
  OBVIOUS
<1>1. DfsTypeOK
  BY CharsAssumption DEF DfsInit, DfsTypeOK, Maps
<1>2. Phase /\ Sound /\ Progress /\ AnswersConnected
  BY DEF DfsInit, Phase, Sound, Progress, AnswersConnected
<1> QED BY <1>1, <1>2 DEF DfsInv

\* Marking the first empty space and calling dfs for it.
LEMMA StartInv == DfsInv /\ Start => DfsInv'
<1> SUFFICES ASSUME DfsInv, Start PROVE DfsInv'
  OBVIOUS
<1> USE DEF DfsInv
<1> DEFINE start == findFirstEmptySpace(map)
<1>0. /\ map \in Maps /\ map' = map /\ Open' = Open /\ result = "none"
      /\ visited = {} /\ stack = <<>>
  BY SameOpen DEF DfsTypeOK, Phase, Start
<1>1. CASE start = NoPosition
  <2>1. Open = {} /\ result' = "no" /\ visited' = visited /\ stack' = stack
    BY <1>0, <1>1, FirstEmpty DEF Start
  <2>2. DfsTypeOK' /\ Phase' /\ Sound' /\ Progress'
    BY <1>0, <2>1 DEF DfsTypeOK, Phase, Sound, Progress
  <2>3. AnswersConnected'
    <3>1. ~Connected(Open)
      BY <2>1, Zenon DEF Connected
    <3>2. (result' = "yes") = FALSE
      BY <2>1
    <3>3. EmptySpaces(map') = Open
      BY <1>0 DEF Open
    <3> QED BY <3>1, <3>2, <3>3, Zenon DEF AnswersConnected
  <2> QED BY <2>2, <2>3
<1>2. CASE start # NoPosition
  <2>1. /\ visited' = {start} /\ stack' = <<[cell |-> start, i |-> 1]>>
        /\ result' = "none" /\ start = FirstOf(Open) /\ start \in Open /\ start \in Cells
    BY <1>0, <1>2, FirstEmpty, OpenFacts DEF Start
  <2>2. DfsTypeOK'
    BY <1>0, <2>1 DEF DfsTypeOK
  <2>3. Phase'
    BY <1>0, <2>1 DEF Phase
  <2>4. Sound'
    BY <1>0, <2>1 DEF Sound
  <2>5. Progress'
    <3>1. Len(stack') = 1 /\ stack'[1].cell = start /\ stack'[1].i = 1
      BY <2>1
    <3> QED BY <2>1, <3>1 DEF Progress
  <2>6. AnswersConnected'
    BY <2>1 DEF AnswersConnected
  <2> QED BY <2>2, <2>3, <2>4, <2>5, <2>6
<1> QED BY <1>1, <1>2

\* What is visited stays seen.
LEMMA SeenStays ==
  ASSUME Open' = Open, visited \subseteq visited', NEW c, NEW j, Seen(c, j, Open, visited)
  PROVE  Seen(c, j, Open', visited')
  BY DEF Seen

Frames == [cell : Cells, i : 1..5]

\* The innermost activation is an element of the stack.
LEMMA TopFrame ==
  ASSUME NEW s \in Seq(Frames), s # <<>>
  PROVE  /\ Len(s) \in Nat \ {0}
         /\ Len(s) \in DOMAIN s
         /\ s[Len(s)] \in Frames
  OBVIOUS

\* Popping a frame, and counting in the innermost one.
LEMMA PopFrame ==
  ASSUME NEW s \in Seq(Frames), s # <<>>
  PROVE  /\ SubSeq(s, 1, Len(s) - 1) \in Seq(Frames)
         /\ Len(SubSeq(s, 1, Len(s) - 1)) = Len(s) - 1
         /\ \A k \in 1..(Len(s) - 1) : SubSeq(s, 1, Len(s) - 1)[k] = s[k]
<1> DEFINE m == Len(s) - 1
<1>1. m \in Nat /\ \A k \in 1..m : s[k] \in Frames
  BY TopFrame
<1> HIDE DEF m
<1>2. /\ SubSeq(s, 1, m) \in Seq(Frames)
      /\ Len(SubSeq(s, 1, m)) = IF 1 <= m THEN m - 1 + 1 ELSE 0
      /\ \A k \in 1..(m - 1 + 1) : SubSeq(s, 1, m)[k] = s[1 + k - 1]
  BY <1>1, SubSeqProperties
<1>3. Len(SubSeq(s, 1, m)) = m /\ \A k \in 1..m : SubSeq(s, 1, m)[k] = s[k]
  BY <1>1, <1>2
<1> QED BY <1>2, <1>3 DEF m

\* Counting the loop of the innermost activation changes nothing else.
LEMMA CountFrame ==
  ASSUME NEW s \in Seq(Frames), s # <<>>, s[Len(s)].i <= 4,
         NEW t, t = [s EXCEPT ![Len(s)].i = @ + 1]
  PROVE  /\ t \in Seq(Frames) /\ Len(t) = Len(s)
         /\ \A k \in 1..Len(s) : t[k].cell = s[k].cell
         /\ \A k \in 1..Len(s) : k # Len(s) => t[k] = s[k]
         /\ t[Len(s)].i = s[Len(s)].i + 1
<1>1. /\ Len(s) \in Nat \ {0} /\ Len(s) \in DOMAIN s /\ DOMAIN s = 1..Len(s)
      /\ \A k \in 1..Len(s) : s[k] \in Frames
  BY TopFrame
<1>2. t = [k \in 1..Len(s) |-> IF k = Len(s) THEN [s[k] EXCEPT !.i = @ + 1] ELSE s[k]]
  BY <1>1
<1>3. [s[Len(s)] EXCEPT !.i = @ + 1] = [cell |-> s[Len(s)].cell, i |-> s[Len(s)].i + 1]
  BY <1>1 DEF Frames
<1>4. s[Len(s)].i + 1 \in 1..5 /\ s[Len(s)].cell \in Cells
  BY <1>1 DEF Frames
<1>5. \A k \in 1..Len(s) : t[k] \in Frames
  BY <1>1, <1>2, <1>3, <1>4 DEF Frames
<1>6. t \in Seq(Frames) /\ Len(t) = Len(s)
  BY <1>1, <1>2, <1>5
<1> QED BY <1>1, <1>2, <1>3, <1>6

\* One iteration of the loop of dfs preserves the invariant, whether it calls
\* dfs for the neighbour or not.
LEMMA TryInv == DfsInv /\ Try => DfsInv'
<1> SUFFICES ASSUME DfsInv, Try PROVE DfsInv'
  OBVIOUS
<1> USE DEF DfsInv
<1> DEFINE n == Len(stack)
           c == Top.cell
           new == Neighbour(c, Offsets[Top.i])
<1>0. /\ map \in Maps /\ map' = map /\ Open' = Open /\ result' = result
      /\ stack # <<>> /\ visited \subseteq Cells
  BY SameOpen DEF DfsTypeOK, Try
<1>1. /\ n \in Nat \ {0} /\ n \in DOMAIN stack /\ c \in Cells /\ Top.i \in 1..4
      /\ Top = stack[n] /\ c \in visited /\ result = "none"
  <2>1. stack \in Seq(Frames)
    BY DEF DfsTypeOK, Frames
  <2>2. n \in Nat \ {0} /\ n \in DOMAIN stack /\ Top = stack[n] /\ Top \in Frames
    BY <1>0, <2>1, TopFrame DEF Top
  <2>3. c \in Cells /\ Top.i \in 1..4
    BY <2>2 DEF Frames, Try
  <2>4. c \in visited
    BY <2>2 DEF Progress
  <2>5. result = "none"
    BY <1>0 DEF Phase
  <2> QED BY <2>2, <2>3, <2>4, <2>5
<1>2. /\ Advanced \in Seq(Frames) /\ Len(Advanced) = n
      /\ \A k \in 1..n : Advanced[k].cell = stack[k].cell
      /\ \A k \in 1..n : k # n => Advanced[k] = stack[k]
      /\ Advanced[n].i = Top.i + 1
  <2>1. stack \in Seq(Frames) /\ stack[Len(stack)].i <= 4
    BY <1>1 DEF DfsTypeOK, Frames
  <2>2. Advanced = [stack EXCEPT ![Len(stack)].i = @ + 1]
    BY DEF Advanced
  <2> HIDE DEF DfsInv
  <2> QED BY <1>0, <1>1, <2>1, <2>2, CountFrame
<1>3. CASE new \notin visited /\ isEmptySpace(map, new)
  <2>1. /\ visited' = visited \cup {new} /\ new \in Open /\ new \in Cells
        /\ stack' = Append(Advanced, [cell |-> new, i |-> 1])
    BY <1>0, <1>3, OpenFacts DEF Try
  <2>2. /\ stack' \in Seq(Frames) /\ Len(stack') = n + 1
        /\ stack'[n + 1] = [cell |-> new, i |-> 1]
        /\ \A k \in 1..n : stack'[k] = Advanced[k]
    <3>1. [cell |-> new, i |-> 1] \in Frames
      BY <2>1 DEF Frames
    <3> QED BY <1>1, <1>2, <2>1, <3>1
  <2>3. DfsTypeOK'
    BY <1>0, <2>1, <2>2 DEF DfsTypeOK, Frames
  <2>4. Phase'
    BY <1>0, <1>1, <2>1 DEF Phase
  <2>5. Sound'
    <3>1. Offsets[Top.i] \in Directions
      BY <1>1 DEF Offsets, Directions
    <3>2. ASSUME NEW S \in SUBSET Open, FirstOf(Open) \in S, Closed(Open, S)
          PROVE  visited' \subseteq S
      BY <1>1, <2>1, <3>1, <3>2 DEF Sound, Closed
    <3> QED BY <1>0, <2>1, <3>2 DEF Sound
  <2>6. Progress'
    <3>1. ASSUME NEW k \in 1..n
          PROVE  /\ stack'[k].cell \in visited'
                 /\ \A j \in 1..4 : j < stack'[k].i => Seen(stack'[k].cell, j, Open', visited')
      <4>1. stack'[k].cell = stack[k].cell /\ stack[k].cell \in visited
        BY <1>2, <2>2 DEF Progress
      <4>2. ASSUME NEW j \in 1..4, j < stack'[k].i
            PROVE  Seen(stack'[k].cell, j, Open', visited')
        <5>1. CASE j < stack[k].i
          BY <1>0, <2>1, <4>1, <5>1, SeenStays DEF Progress
        <5>2. CASE ~(j < stack[k].i)
          <6>1. k = n /\ j = Top.i /\ stack'[k].cell = c
            BY <1>1, <1>2, <2>2, <4>1, <4>2, <5>2 DEF DfsTypeOK
          <6> QED BY <2>1, <6>1 DEF Seen
        <5> QED BY <5>1, <5>2
      <4> QED BY <2>1, <4>1, <4>2
    <3>2. /\ stack'[n + 1].cell \in visited'
          /\ \A j \in 1..4 : j < stack'[n + 1].i => Seen(stack'[n + 1].cell, j, Open', visited')
      BY <2>1, <2>2
    <3>3. ASSUME NEW e \in visited'
          PROVE  \/ \E k \in 1..Len(stack') : stack'[k].cell = e
                 \/ \A j \in 1..4 : Seen(e, j, Open', visited')
      <4>1. CASE e = new
        BY <1>1, <2>2, <4>1
      <4>2. CASE e \in visited
        <5>1. CASE \E k \in 1..n : stack[k].cell = e
          BY <1>1, <1>2, <2>2, <5>1
        <5>2. CASE \A j \in 1..4 : Seen(e, j, Open, visited)
          BY <1>0, <2>1, <5>2, SeenStays
        <5> QED BY <4>2, <5>1, <5>2 DEF Progress
      <4> QED BY <2>1, <4>1, <4>2
    <3>4. \A k \in 1..Len(stack') : k \in 1..n \/ k = n + 1
      BY <1>1, <2>2
    <3> QED BY <3>1, <3>2, <3>3, <3>4 DEF Progress
  <2>7. AnswersConnected'
    BY <1>0, <1>1 DEF AnswersConnected
  <2> QED BY <2>3, <2>4, <2>5, <2>6, <2>7
<1>4. CASE ~(new \notin visited /\ isEmptySpace(map, new))
  <2>1. visited' = visited /\ stack' = Advanced /\ (new \in Open => new \in visited)
    BY <1>0, <1>4, OpenFacts DEF Try
  <2>2. DfsTypeOK'
    BY <1>0, <1>2, <2>1 DEF DfsTypeOK, Frames
  <2>3. Phase'
    BY <1>0, <1>1, <2>1 DEF Phase
  <2>4. Sound'
    BY <1>0, <2>1 DEF Sound
  <2>5. Progress'
    <3>1. ASSUME NEW k \in 1..n
          PROVE  /\ stack'[k].cell \in visited'
                 /\ \A j \in 1..4 : j < stack'[k].i => Seen(stack'[k].cell, j, Open', visited')
      <4>1. stack'[k].cell = stack[k].cell /\ stack[k].cell \in visited
        BY <1>2, <2>1 DEF Progress
      <4>2. ASSUME NEW j \in 1..4, j < stack'[k].i
            PROVE  Seen(stack'[k].cell, j, Open', visited')
        <5>1. CASE j < stack[k].i
          BY <1>0, <2>1, <4>1, <5>1, SeenStays DEF Progress
        <5>2. CASE ~(j < stack[k].i)
          <6>1. k = n /\ j = Top.i /\ stack'[k].cell = c
            BY <1>1, <1>2, <2>1, <4>1, <4>2, <5>2 DEF DfsTypeOK
          <6> QED BY <1>0, <2>1, <6>1 DEF Seen
        <5> QED BY <5>1, <5>2
      <4> QED BY <2>1, <4>1, <4>2
    <3>2. ASSUME NEW e \in visited'
          PROVE  \/ \E k \in 1..Len(stack') : stack'[k].cell = e
                 \/ \A j \in 1..4 : Seen(e, j, Open', visited')
      <4>1. CASE \E k \in 1..n : stack[k].cell = e
        BY <1>2, <2>1, <4>1
      <4>2. CASE \A j \in 1..4 : Seen(e, j, Open, visited)
        BY <1>0, <2>1, <4>2, SeenStays
      <4> QED BY <2>1, <4>1, <4>2 DEF Progress
    <3> QED BY <1>2, <2>1, <3>1, <3>2 DEF Progress
  <2>6. AnswersConnected'
    BY <1>0, <1>1 DEF AnswersConnected
  <2> QED BY <2>2, <2>3, <2>4, <2>5, <2>6
<1> QED BY <1>3, <1>4

\* When dfs returns its cell has been dealt with in all four directions.
LEMMA ReturnInv == DfsInv /\ Return => DfsInv'
<1> SUFFICES ASSUME DfsInv, Return PROVE DfsInv'
  OBVIOUS
<1> USE DEF DfsInv
<1> DEFINE n == Len(stack)
<1>0. /\ map' = map /\ Open' = Open /\ result' = result /\ visited' = visited
      /\ stack # <<>> /\ stack' = SubSeq(stack, 1, n - 1)
  BY SameOpen DEF Return
<1>1. /\ n \in Nat \ {0} /\ Top = stack[n] /\ Top.i = 5 /\ result = "none"
      /\ visited # {} /\ n \in DOMAIN stack
  <2>1. stack \in Seq(Frames)
    BY DEF DfsTypeOK, Frames
  <2>2. n \in Nat \ {0} /\ n \in DOMAIN stack /\ Top = stack[n] /\ Top \in Frames
    BY <1>0, <2>1, TopFrame DEF Top
  <2>3. Top.i = 5
    BY <2>2 DEF Frames, Return
  <2>4. result = "none" /\ visited # {}
    BY <1>0 DEF Phase
  <2> QED BY <2>2, <2>3, <2>4
<1>2. /\ stack' \in Seq(Frames) /\ Len(stack') = n - 1
      /\ \A k \in 1..(n - 1) : stack'[k] = stack[k]
  BY <1>0, <1>1, PopFrame DEF DfsTypeOK, Frames
<1>3. DfsTypeOK' /\ Phase' /\ Sound' /\ AnswersConnected'
  BY <1>0, <1>1, <1>2 DEF DfsTypeOK, Phase, Sound, AnswersConnected, Frames
<1>4. Progress'
  <2>1. ASSUME NEW k \in 1..(n - 1)
        PROVE  /\ stack'[k].cell \in visited'
               /\ \A j \in 1..4 : j < stack'[k].i => Seen(stack'[k].cell, j, Open', visited')
    <3>1. k \in 1..n /\ stack'[k] = stack[k]
      BY <1>1, <1>2
    <3> QED BY <1>0, <3>1, SeenStays DEF Progress
  <2>2. ASSUME NEW e \in visited'
        PROVE  \/ \E k \in 1..Len(stack') : stack'[k].cell = e
               \/ \A j \in 1..4 : Seen(e, j, Open', visited')
    <3>1. CASE \A j \in 1..4 : Seen(e, j, Open, visited)
      BY <1>0, <3>1, SeenStays
    <3>2. CASE \E k \in 1..n : stack[k].cell = e
      <4>1. PICK k \in 1..n : stack[k].cell = e
        BY <3>2
      <4>2. CASE k = n
        <5>1. \A j \in 1..4 : Seen(e, j, Open, visited)
          BY <1>1, <4>1, <4>2 DEF Progress
        <5> QED BY <3>1, <5>1
      <4>3. CASE k # n
        <5>1. k \in 1..Len(stack') /\ stack'[k].cell = e
          BY <1>1, <1>2, <4>1, <4>3
        <5> QED BY <5>1
      <4> QED BY <4>2, <4>3
    <3> QED BY <1>0, <3>1, <3>2 DEF Progress
  <2> QED BY <1>2, <2>1, <2>2 DEF Progress
<1> QED BY <1>3, <1>4

\* The final scan of isConnected: with no activation left the visited cells
\* are closed, and they are the smallest closed set.
LEMMA CheckInv == DfsInv /\ Check => DfsInv'
<1> SUFFICES ASSUME DfsInv, Check PROVE DfsInv'
  OBVIOUS
<1> USE DEF DfsInv
<1>0. /\ map \in Maps /\ map' = map /\ Open' = Open /\ visited' = visited
      /\ stack' = stack /\ stack = <<>> /\ visited # {}
  BY SameOpen DEF DfsTypeOK, Check
<1>1. DfsTypeOK' /\ Phase' /\ Sound' /\ Progress'
  BY <1>0 DEF Check, DfsTypeOK, Phase, Sound, Progress, Seen
<1>2. Closed(Open, visited)
  <2> SUFFICES ASSUME NEW c \in visited, NEW d \in Directions, Neighbour(c, d) \in Open
               PROVE  Neighbour(c, d) \in visited
    BY DEF Closed
  <2>1. \A j \in 1..4 : Seen(c, j, Open, visited)
    BY <1>0 DEF Progress
  <2>2. PICK j \in 1..4 : Offsets[j] = d
    BY DEF Offsets, Directions
  <2> QED BY <2>1, <2>2 DEF Seen
<1>3. FirstOf(Open) \in visited /\ visited \subseteq Open /\ Open # {}
  BY <1>0 DEF Phase, Sound
<1>4. Connected(Open) <=> visited = Open
  <2>1. ASSUME Connected(Open) PROVE visited = Open
    <3>1. \A S \in SUBSET Open : FirstOf(Open) \in S /\ Closed(Open, S) => S = Open
      BY <2>1, Zenon DEF Connected
    <3> QED BY <1>2, <1>3, <3>1
  <2>2. ASSUME visited = Open PROVE Connected(Open)
    <3>1. \A S \in SUBSET Open : FirstOf(Open) \in S /\ Closed(Open, S) => S = Open
      BY <1>0, <1>3, <2>2 DEF Sound
    <3>2. FirstOf(Open) \in Open
      BY <1>3
    <3> QED BY <3>1, <3>2, Zenon DEF Connected
  <2> QED BY <2>1, <2>2
<1>5. (\A c \in Cells : isEmptySpace(map, c) => c \in visited) <=> visited = Open
  BY <1>0, <1>3, OpenFacts
<1>6. AnswersConnected'
  <2>1. result' = "yes" <=> Connected(Open)
    BY <1>4, <1>5 DEF Check
  <2> QED BY <1>0, <2>1 DEF AnswersConnected, Open
<1> QED BY <1>1, <1>6

\* The invariant is inductive.
THEOREM DfsInvariance == DfsSpec => []DfsInv
<1>1. DfsInit => DfsInv
  BY DfsInitInv
<1>2. DfsInv /\ [DfsNext]_dfsVars => DfsInv'
  <2> SUFFICES ASSUME DfsInv, [DfsNext]_dfsVars PROVE DfsInv'
    OBVIOUS
  <2>1. CASE Returned \/ UNCHANGED dfsVars
    <3>1. map' = map /\ visited' = visited /\ stack' = stack /\ result' = result /\ Open' = Open
      BY <2>1, SameOpen DEF Returned, dfsVars
    <3> QED BY <3>1 DEF DfsInv, DfsTypeOK, Phase, Sound, Progress, Seen, AnswersConnected
  <2> QED BY <2>1, StartInv, TryInv, ReturnInv, CheckInv DEF DfsNext
<1> QED BY <1>1, <1>2, PTL DEF DfsSpec

\* The state of the search is well-typed: no cell outside the map is marked.
THEOREM DfsTypeCorrect == DfsSpec => []DfsTypeOK
  BY DfsInvariance, PTL DEF DfsInv

\* isConnected (and the dfs it calls) answers correctly for every map of
\* every size.
THEOREM DfsCorrect == DfsSpec => []AnswersConnected
  BY DfsInvariance, PTL DEF DfsInv

\* dfs never nests deeper than the number of cells it has marked, for every
\* map of every size: each activation on the stack has marked one of them.
THEOREM DepthCorrect == DfsSpec => []DepthBounded
<1> DEFINE DInv == IsFiniteSet(visited) /\ DepthBounded
<1>1. DfsInit => DInv
  BY FS_EmptySet DEF DfsInit, DepthBounded
<1>2. DfsInv /\ DInv /\ [DfsNext]_dfsVars => DInv'
  <2> SUFFICES ASSUME DfsInv, DInv, [DfsNext]_dfsVars PROVE DInv'
    OBVIOUS
  <2>0. stack \in Seq(Frames) /\ Len(stack) \in Nat /\ Cardinality(visited) \in Nat
    BY FS_CardinalityType DEF DfsInv, DfsTypeOK, Frames
  <2>1. CASE Start
    <3>1. visited = {} /\ stack = <<>>
      BY <2>1 DEF Start, DfsInv, Phase
    <3>2. CASE findFirstEmptySpace(map) = NoPosition
      BY <2>1, <3>1, <3>2 DEF Start, DepthBounded
    <3>3. CASE findFirstEmptySpace(map) # NoPosition
      <4>1. visited' = {findFirstEmptySpace(map)} /\ Len(stack') = 1
        BY <2>1, <3>3 DEF Start
      <4>2. IsFiniteSet(visited') /\ Cardinality(visited') = 1
        BY <4>1, FS_Singleton
      <4> QED BY <4>1, <4>2 DEF DepthBounded
    <3> QED BY <3>2, <3>3
  <2>2. CASE Try
    <3> DEFINE new == Neighbour(Top.cell, Offsets[Top.i])
    <3>1. Advanced \in Seq(Frames) /\ Len(Advanced) = Len(stack)
      <4>1. stack # <<>> /\ stack[Len(stack)].i <= 4
        BY <2>2 DEF Try, Top
      <4> QED BY <2>0, <4>1, CountFrame DEF Advanced
    <3>2. CASE new \notin visited /\ isEmptySpace(map, new)
      <4>1. /\ visited' = visited \cup {new}
            /\ stack' = Append(Advanced, [cell |-> new, i |-> 1])
        BY <2>2, <3>2 DEF Try
      <4>2. IsFiniteSet(visited') /\ Cardinality(visited') = Cardinality(visited) + 1
        BY <3>2, <4>1, FS_AddElement
      <4>3. Len(stack') = Len(stack) + 1
        BY <3>1, <4>1
      <4> QED BY <2>0, <4>2, <4>3 DEF DepthBounded
    <3>3. CASE ~(new \notin visited /\ isEmptySpace(map, new))
      <4>1. visited' = visited /\ stack' = Advanced
        BY <2>2, <3>3 DEF Try
      <4> QED BY <3>1, <4>1 DEF DepthBounded
    <3> QED BY <3>2, <3>3
  <2>3. CASE Return
    <3>1. visited' = visited /\ Len(stack') = Len(stack) - 1
      BY <2>0, <2>3, PopFrame DEF Return
    <3> QED BY <2>0, <3>1 DEF DepthBounded
  <2>4. CASE Check \/ Returned \/ UNCHANGED dfsVars
    <3>1. visited' = visited /\ stack' = stack
      BY <2>4 DEF Check, Returned, dfsVars
    <3> QED BY <3>1 DEF DepthBounded
  <2> QED BY <2>1, <2>2, <2>3, <2>4 DEF DfsNext
<1> QED BY <1>1, <1>2, DfsInvariance, PTL DEF DfsSpec

-----------------------------------------------------------------------------
(* The program: Labyrinth.  Whatever any number of processes do to the saved *)
(* map, wherever they are killed: it stays a legal map of the given one.     *)

\* A map that moves can have made of the given one.
Legal(m) == Walls(m) = Walls(file["given"].map) /\ Single(m)

\* The given file keeps its map, and every other map around is legal: in a
\* file, also one that is empty now, and in the memory of a process.
AllLegal == /\ \A q \in Paths : Legal(file[q].map)
            /\ \A p \in Procs : Legal(lab[p])

\* The inductive invariant.
IInv == TypeOK /\ AllLegal

\* The invariant holds before the first invocation.
LEMMA InitInv == Init => IInv
<1> SUFFICES ASSUME Init PROVE IInv
  OBVIOUS
<1>1. PICK m \in Starts, nl \in BOOLEAN :
        /\ \E other \in {Text(m, TRUE), Without("missing", m)} :
             file = [q \in Paths |-> IF q = "given" THEN Text(m, nl) ELSE other]
        /\ lab = [p \in Procs |-> m]
  BY DEF Init
<1>2. m \in Maps /\ Single(m)
  BY StartsAssumption
<1>3. file \in [Paths -> Contents] /\ \A q \in Paths : file[q].map = m
  <2>1. PICK other \in {Text(m, TRUE), Without("missing", m)} :
          file = [q \in Paths |-> IF q = "given" THEN Text(m, nl) ELSE other]
    BY <1>1
  <2>2. \A b \in BOOLEAN : Text(m, b) \in Contents /\ Text(m, b).map = m
    BY <1>2 DEF Text, Contents
  <2>3. Without("missing", m) \in Contents /\ Without("missing", m).map = m
    BY <1>2 DEF Without, Contents
  <2>4. other \in Contents /\ other.map = m
    BY <2>1, <2>2, <2>3
  <2> QED BY <2>1, <2>2, <2>4
<1>4. TypeOK
  BY <1>1, <1>2, <1>3 DEF Init, TypeOK
<1>5. AllLegal
  BY <1>1, <1>2, <1>3 DEF AllLegal, Legal, Paths
<1> QED BY <1>4, <1>5 DEF IInv

\* An invocation loads one of the two files, or none.
LEMMA FileOfMap ==
  ASSUME IInv, NEW a \in Calls
  PROVE  FileOf(a).map \in Maps /\ Legal(FileOf(a).map)
<1>1. a.map \in Paths \cup {"none"}
  BY CallsAssumption DEF CommandLine
<1>2. CASE a.map = "none"
  BY <1>2 DEF FileOf, Without, IInv, TypeOK, AllLegal, Contents, Paths
<1>3. CASE a.map \in Paths
  BY <1>3 DEF FileOf, IInv, TypeOK, AllLegal, Contents, Paths
<1> QED BY <1>1, <1>2, <1>3

\* A move in memory gives a legal map.
LEMMA MoveLegal ==
  ASSUME IInv, NEW a \in Calls, Outcome(a) = "0"
  PROVE  LET m == Moved(FileOf(a).map, a.player, a.move)
         IN  m \in Maps /\ Legal(m)
<1> DEFINE old == FileOf(a).map
<1>1. a.player \in Digits /\ CanMove(old, a.player, a.move)
  BY DEF Outcome
<1>2. old \in Maps /\ Legal(old)
  BY FileOfMap
<1> HIDE DEF old
<1>3. Moved(old, a.player, a.move) \in Maps
  BY <1>1, <1>2, MovedIsMap
<1>4. Walls(Moved(old, a.player, a.move)) = Walls(old)
  BY <1>1, <1>2, MovedWalls
<1>5. Single(Moved(old, a.player, a.move))
  BY <1>1, <1>2, MovedSingle DEF Legal
<1> QED BY <1>2, <1>3, <1>4, <1>5 DEF Legal, old

\* Every step of a process keeps the invariant.
LEMMA NextInv == IInv /\ [Next]_vars => IInv'
<1> SUFFICES ASSUME IInv, [Next]_vars PROVE IInv'
  OBVIOUS
<1> USE DEF IInv
<1>0. file["given"].map \in Maps /\ Legal(file["given"].map) /\ "given" \in Paths /\ "saved" \in Paths
  BY DEF TypeOK, AllLegal, Contents, Paths
<1>1. ASSUME NEW p \in Procs, NEW st \in {"0", "1", "SIGSEGV", "SIGALRM"}, Exit(p, st),
             UNCHANGED <<file, dir>>
      PROVE  IInv'
  <2>1. TypeOK'
    BY <1>0, <1>1 DEF Exit, TypeOK
  <2>2. AllLegal'
    BY <1>0, <1>1 DEF Exit, TypeOK, AllLegal, Legal
  <2> QED BY <2>1, <2>2
<1>2. ASSUME NEW p \in Procs, NEW a \in Calls, Fail(p, a) PROVE IInv'
  <2>1. Outcome(a) \in {"1", "SIGSEGV"}
    BY <1>2 DEF Fail, Outcome
  <2> QED BY <1>1, <1>2, <2>1 DEF Fail
<1>3. ASSUME NEW p \in Procs, NEW a \in Calls, Move(p, a) PROVE IInv'
  <2> DEFINE m == Moved(FileOf(a).map, a.player, a.move)
  <2>1. m \in Maps /\ Legal(m)
    BY <1>3, MoveLegal DEF Move
  <2>2. lab' = [lab EXCEPT ![p] = m]
    BY <1>3 DEF Move
  <2> HIDE DEF m
  <2>3. TypeOK'
    BY <1>3, <2>1, <2>2 DEF Move, TypeOK
  <2>4. AllLegal'
    BY <1>3, <2>1, <2>2 DEF Move, TypeOK, AllLegal, Legal
  <2> QED BY <2>3, <2>4
<1>4. ASSUME NEW p \in Procs, OpenSaved(p) PROVE IInv'
  <2>1. CASE dir
    <3>1. /\ file' = [file EXCEPT !["saved"] = Without("empty", file["saved"].map)]
          /\ pc' = [pc EXCEPT ![p] = "write"]
          /\ UNCHANGED <<exit, lab, dir>>
      BY <1>4, <2>1 DEF OpenSaved
    <3>2. file' \in [Paths -> Contents] /\ \A q \in Paths : file'[q].map = file[q].map
      BY <1>0, <3>1 DEF TypeOK, Contents, Without
    <3>3. TypeOK'
      BY <3>1, <3>2 DEF TypeOK
    <3>4. AllLegal'
      BY <1>0, <3>1, <3>2 DEF AllLegal, Legal
    <3> QED BY <3>3, <3>4
  <2>2. CASE ~dir
    BY <1>1, <1>4, <2>2 DEF OpenSaved
  <2> QED BY <2>1, <2>2
<1>5. ASSUME NEW p \in Procs, WriteSaved(p) PROVE IInv'
  <2>1. /\ file' = [file EXCEPT !["saved"] = Text(lab[p], TRUE)]
        /\ pc' = [pc EXCEPT ![p] = "exited"]
        /\ exit' = [exit EXCEPT ![p] = "0"]
        /\ lab' = [lab EXCEPT ![p] = file["given"].map]
        /\ dir' = dir
    BY <1>5 DEF WriteSaved, Exit
  <2>2. lab[p] \in Maps /\ Legal(lab[p])
    BY DEF TypeOK, AllLegal
  <2>3. /\ file' \in [Paths -> Contents]
        /\ file'["given"] = file["given"]
        /\ \A q \in Paths : file'[q].map \in {file[q].map, lab[p]}
    BY <1>0, <2>1, <2>2 DEF TypeOK, Contents, Text, Paths
  <2>4. TypeOK'
    BY <1>0, <2>1, <2>2, <2>3 DEF TypeOK
  <2>5. AllLegal'
    BY <1>0, <2>1, <2>2, <2>3 DEF AllLegal, Legal, TypeOK
  <2> QED BY <2>4, <2>5
<1>6. ASSUME NEW p \in Procs, WriteFails(p) \/ Kill(p) PROVE IInv'
  BY <1>1, <1>6 DEF WriteFails, Kill
<1>7. CASE UNCHANGED vars
  BY <1>7 DEF vars, TypeOK, AllLegal, Legal
<1> QED BY <1>2, <1>3, <1>4, <1>5, <1>6, <1>7 DEF Next

\* The invariant is inductive.
THEOREM Invariance == Spec => []IInv
  BY InitInv, NextInv, PTL DEF Spec

\* The files, processes and exit statuses of labyrinth.c stay well-typed.
THEOREM TypeCorrect == Spec => []TypeOK
  BY Invariance, PTL DEF IInv

\* No interleaving of loads, moves, saves and kills of any number of labyrinth
\* processes changes a wall, for every map whose text fits the buffer of a FILE
\* (BufferAssumption), so that saveMap writes it and loadMap reads it at once.
THEOREM WallsCorrect == Spec => []WallsKept
<1>1. IInv => WallsKept
  BY DEF IInv, AllLegal, Legal, WallsKept
<1> QED BY <1>1, Invariance, PTL

\* Nor does one put a player on such a saved map twice.
THEOREM PlayersCorrect == Spec => []NoDuplicates
<1>1. IInv => NoDuplicates
  BY DEF IInv, AllLegal, Legal, NoDuplicates
<1> QED BY <1>1, Invariance, PTL

-----------------------------------------------------------------------------
(* The server: LabyrinthServer. *)

\* A session from its first block under the lock to its finally block.
Holds(t) == named[t] /\ at[t] \in {"full", "welcome", "loop", "moved", "finally", "killed"}

\* Each entry has a session that is going to remove it.
Owned == \A u \in Users : players[u] # None => \E t \in Threads : UserOf[t] = u /\ Holds(t)

\* A session in the game has a player, and one beyond its start a name.
Sessions == \A t \in Threads :
    /\ InGame(t) => pid[t] # None
    /\ at[t] \in {"assign", "full", "welcome", "loop", "moved"} => named[t]
    /\ at[t] \in {"none", "accept"} => ~named[t]

\* The inductive invariant.
ServerInv == ServerTypeOK /\ IdsDistinct /\ Owned /\ Sessions

\* The ids get_available_player_ids finds are digits.
LEMMA IdsAreDigits == available_player_ids \subseteq Digits
  BY DEF available_player_ids

\* min(available_ids) is one of the available ids.
LEMMA LowestIn ==
  ASSUME NEW S \in SUBSET Digits, S # {}
  PROVE  Lowest(S) \in S
<1>1. S \subseteq Nat
  BY DEF Digits
<1>2. PICK x \in S : \A y \in S : x <= y
  BY <1>1, NatMin
<1> QED BY <1>2 DEF Lowest

\* The invariant holds when LabyrinthServer has been created.
LEMMA ServerInitInv == ServerInit => ServerInv
  BY MapAssumption DEF ServerInit, ServerInv, ServerTypeOK, IdsDistinct, Owned, Sessions, InGame, None

\* The block of handle_client that assigns an id preserves the invariant:
\* the id comes from those no user has.
LEMMA AssignInv ==
  ASSUME ServerInv, NEW t \in Threads, Assign(t)
  PROVE  ServerInv'
<1> USE DEF ServerInv
<1> DEFINE u == UserOf[t]
           ids == available_player_ids \ Taken
<1>0. u \in Users /\ at[t] = "assign" /\ named[t]
  BY UserAssumption DEF Assign, Go, Sessions
<1>1. CASE players[u] # None /\ Go(t, "assign", "welcome") /\ pid' = [pid EXCEPT ![t] = players[u]]
           /\ UNCHANGED <<players, lock>>
  <2>1. ServerTypeOK'
    BY <1>0, <1>1 DEF ServerTypeOK, Assign, Go, files
  <2>2. IdsDistinct' /\ Sessions'
    BY <1>0, <1>1 DEF ServerTypeOK, Assign, Go, IdsDistinct, Sessions, InGame
  <2>3. Owned'
    BY <1>0, <1>1 DEF ServerTypeOK, Assign, Go, Owned, Holds
  <2> QED BY <2>1, <2>2, <2>3
<1>2. CASE players[u] = None /\ Go(t, "assign", "full") /\ lock' = {t} /\ UNCHANGED <<players, pid>>
  <2>1. ServerTypeOK'
    BY <1>0, <1>2 DEF ServerTypeOK, Assign, Go, files
  <2>2. IdsDistinct' /\ Sessions'
    BY <1>0, <1>2 DEF ServerTypeOK, Assign, Go, IdsDistinct, Sessions, InGame
  <2>3. Owned'
    BY <1>0, <1>2 DEF ServerTypeOK, Assign, Go, Owned, Holds
  <2> QED BY <2>1, <2>2, <2>3
<1>3. CASE /\ players[u] = None /\ ids # {} /\ Go(t, "assign", "welcome")
           /\ pid' = [pid EXCEPT ![t] = Lowest(ids)]
           /\ players' = [players EXCEPT ![u] = Lowest(ids)]
           /\ UNCHANGED lock
  <2>0. Lowest(ids) \in ids
    BY <1>3, LowestIn, IdsAreDigits
  <2>1. Lowest(ids) \in available_player_ids /\ Lowest(ids) \notin Taken /\ Lowest(ids) # None
    BY <2>0, IdsAreDigits DEF Digits, None
  <2> DEFINE low == Lowest(ids)
  <2> HIDE DEF low
  <2>2. ServerTypeOK'
    BY <1>0, <1>3, <2>1 DEF ServerTypeOK, Assign, Go, files, low
  <2>3. IdsDistinct'
    <3>1. \A v \in Users : players[v] # low
      BY <2>1 DEF Taken, low
    <3> QED BY <1>0, <1>3, <3>1 DEF ServerTypeOK, IdsDistinct, low
  <2>4. Sessions'
    BY <1>0, <1>3, <2>1 DEF ServerTypeOK, Assign, Go, Sessions, InGame, low
  <2>5. Owned'
    BY <1>0, <1>3, <2>1 DEF ServerTypeOK, Assign, Go, Owned, Holds, low
  <2> QED BY <2>2, <2>3, <2>4, <2>5
<1> QED BY <1>1, <1>2, <1>3 DEF Assign

\* A move touches only the saved map.
LEMMA MoveKeyInv ==
  ASSUME ServerInv, NEW t \in Threads, NEW d \in Directions, MoveKey(t, d)
  PROVE  ServerInv'
<1> USE DEF ServerInv
<1>1. saved' \in Maps
  <2>1. at[t] = "loop"
    BY DEF MoveKey, Go
  <2>2. pid[t] \in Digits
    BY <2>1, IdsAreDigits DEF ServerTypeOK, Sessions, InGame
  <2> QED BY <2>2, MovedIsMap DEF MoveKey, ServerTypeOK
<1>2. \E to \in {"moved", "loop"} : at[t] = "loop" /\ at' = [at EXCEPT ![t] = to]
  BY DEF MoveKey, Go
<1>3. ServerTypeOK' /\ IdsDistinct'
  BY <1>1, <1>2 DEF MoveKey, ServerTypeOK, IdsDistinct
<1>4. Sessions'
  BY <1>2 DEF MoveKey, ServerTypeOK, Sessions, InGame
<1>5. Owned'
  BY <1>2 DEF MoveKey, ServerTypeOK, Owned, Holds
<1> QED BY <1>3, <1>4, <1>5

\* The finally block removes the entry of its own user, so that every entry
\* left still has a session.
LEMMA FinallyInv ==
  ASSUME ServerInv, NEW t \in Threads, Finally(t)
  PROVE  ServerInv'
<1> USE DEF ServerInv
<1>0. UserOf[t] \in Users /\ at[t] = "finally" /\ at' = [at EXCEPT ![t] = "done"] /\ named' = named
  BY UserAssumption DEF Finally, Go
<1>1. ServerTypeOK'
  BY <1>0 DEF Finally, ServerTypeOK, files
<1>2. IdsDistinct'
  BY <1>0 DEF Finally, ServerTypeOK, IdsDistinct
<1>3. Sessions'
  BY <1>0 DEF Finally, ServerTypeOK, Sessions, InGame
<1>4. Owned'
  <2> SUFFICES ASSUME NEW u \in Users, players'[u] # None
               PROVE  \E s \in Threads : UserOf[s] = u /\ Holds(s)'
    BY DEF Owned
  <2>1. players[u] = players'[u] /\ (named[t] => UserOf[t] # u)
    BY <1>0 DEF Finally, ServerTypeOK
  <2>2. PICK s \in Threads : UserOf[s] = u /\ Holds(s)
    BY <2>1 DEF Owned
  <2>3. s # t
    BY <2>1, <2>2 DEF Holds
  <2> QED BY <1>0, <2>2, <2>3 DEF Holds, ServerTypeOK
<1> QED BY <1>1, <1>2, <1>3, <1>4

\* The steps of a session that touch neither players nor pid.
LEMMA OtherInv ==
  ASSUME ServerInv, NEW t \in Threads, Connect(t) \/ Accept(t) \/ Refuse(t) \/ Display(t) \/ Leave(t)
  PROVE  ServerInv'
<1> USE DEF ServerInv
<1>0. /\ players' = players /\ pid' = pid /\ UNCHANGED files /\ UNCHANGED <<shutdown, main>>
      /\ \E to \in {"accept", "assign", "loop", "finally"} : at' = [at EXCEPT ![t] = to]
      /\ named' = named \/ (at[t] = "accept" /\ named' = [named EXCEPT ![t] = TRUE])
      /\ lock' = lock \/ lock' = {}
  BY DEF Connect, Accept, Refuse, Display, Leave, Go
<1>1. ServerTypeOK' /\ IdsDistinct'
  BY <1>0 DEF ServerTypeOK, IdsDistinct, files
<1>2. Sessions'
  BY <1>0 DEF Connect, Accept, Refuse, Display, Leave, Go, ServerTypeOK, Sessions, InGame
<1>3. Owned'
  <2>1. \A s \in Threads : Holds(s) => Holds(s)'
    BY <1>0 DEF Connect, Accept, Refuse, Display, Leave, Go, ServerTypeOK, Sessions, Holds
  <2> QED BY <1>0, <2>1 DEF Owned
<1> QED BY <1>1, <1>2, <1>3

\* The steps of main(), which leave the table of players alone.
LEMMA MainInv ==
  ASSUME ServerInv, Interrupt \/ RemoveTemp \/ ExitMain \/ UNCHANGED serverVars
  PROVE  ServerInv'
<1> USE DEF ServerInv
<1>1. players' = players /\ pid' = pid /\ named' = named
  BY DEF Interrupt, RemoveTemp, ExitMain, serverVars
<1>2. /\ DOMAIN at' = Threads
      /\ \A t \in Threads : at'[t] = at[t] \/ (at'[t] = "killed" /\ at[t] \notin {"none", "done"})
  BY DEF Interrupt, RemoveTemp, ExitMain, serverVars, ServerTypeOK
<1>3. ServerTypeOK'
  BY DEF Interrupt, RemoveTemp, ExitMain, serverVars, ServerTypeOK, files
<1>4. IdsDistinct' /\ Sessions'
  BY <1>1, <1>2 DEF IdsDistinct, Sessions, InGame
<1>5. Owned'
  <2>1. \A t \in Threads : Holds(t) => Holds(t)'
    BY <1>1, <1>2 DEF Holds
  <2> QED BY <1>1, <2>1 DEF Owned
<1> QED BY <1>3, <1>4, <1>5

\* The invariant is inductive.
THEOREM ServerInvariance == ServerSpec => []ServerInv
<1>1. ServerInv /\ [ServerNext]_serverVars => ServerInv'
  BY AssignInv, MoveKeyInv, FinallyInv, OtherInv, MainInv DEF ServerNext, Session, Exited
<1> QED BY <1>1, ServerInitInv, PTL DEF ServerSpec

\* The state of online.py is well-typed: only digits of the map are given out
\* as players, and what the program saves is a map.
THEOREM ServerTypeCorrect == ServerSpec => []ServerTypeOK
  BY ServerInvariance, PTL DEF ServerInv

\* server.players never gives the same id to two users, for any number of
\* sessions, however they end.
THEOREM DistinctCorrect == ServerSpec => []IdsDistinct
  BY ServerInvariance, PTL DEF ServerInv

\* No end of handle_client loses an id: as long as an id is taken there is a
\* session of its user left that will remove the entry.
THEOREM ReturnedCorrect == ServerSpec => []IdsReturned
<1>1. ServerInv => IdsReturned
  BY DEF ServerInv, Owned, Holds, IdsReturned
<1> QED BY <1>1, ServerInvariance, PTL

\* A session in the game whose user has no other connection has the entry of
\* its user: only a session of the same user could have removed or replaced it.
Entries == \A t \in Threads : Sole(t) /\ InGame(t) => players[UserOf[t]] = pid[t]

\* Two users who are connected once each never move the same player of
\* online.py, for any number of other sessions.
THEOREM ControlCorrect == ServerSpec => []ExclusiveControl
<1>1. ServerInit => Entries
  BY DEF ServerInit, Entries, InGame
<1>2. ServerInv /\ Entries /\ [ServerNext]_serverVars => Entries'
  <2> SUFFICES ASSUME ServerInv, Entries, [ServerNext]_serverVars, NEW t \in Threads, Sole(t), InGame(t)'
               PROVE  players'[UserOf[t]] = pid'[t]
    BY DEF Entries
  <2>0. \A s \in Threads : UserOf[s] \in Users
    BY UserAssumption
  <2>1. ASSUME NEW s \in Threads, Assign(s) PROVE players'[UserOf[t]] = pid'[t]
    <3>1. CASE s = t
      BY <2>0, <2>1, <3>1 DEF Assign, Go, InGame, ServerInv, ServerTypeOK
    <3>2. CASE s # t
      <4>1. UserOf[s] # UserOf[t] /\ InGame(t)
        BY <2>1, <3>2 DEF Assign, Go, InGame, ServerInv, ServerTypeOK, Sole
      <4> QED BY <2>0, <2>1, <3>2, <4>1 DEF Assign, Entries, ServerInv, ServerTypeOK
    <3> QED BY <3>1, <3>2
  <2>2. ASSUME NEW s \in Threads, Finally(s) PROVE players'[UserOf[t]] = pid'[t]
    <3>1. s # t /\ InGame(t)
      BY <2>2 DEF Finally, Go, InGame, ServerInv, ServerTypeOK
    <3>2. UserOf[s] # UserOf[t]
      BY <3>1 DEF Sole
    <3> QED BY <2>0, <2>2, <3>1, <3>2 DEF Finally, Entries, ServerInv, ServerTypeOK
  <2>3. ASSUME NEW s \in Threads,
               \/ Connect(s) \/ Accept(s) \/ Refuse(s) \/ Display(s) \/ Leave(s)
               \/ \E d \in Directions : MoveKey(s, d)
        PROVE  players'[UserOf[t]] = pid'[t]
    <3>1. players' = players /\ pid' = pid
      BY <2>3 DEF Connect, Accept, Refuse, Display, Leave, MoveKey
    <3>2. InGame(t)
      BY <2>3 DEF Connect, Accept, Refuse, Display, Leave, MoveKey, Go, InGame, ServerInv, ServerTypeOK
    <3> QED BY <3>1, <3>2 DEF Entries
  <2>4. CASE Interrupt \/ RemoveTemp \/ ExitMain \/ Exited \/ UNCHANGED serverVars
    <3>1. players' = players /\ pid' = pid
      BY <2>4 DEF Interrupt, RemoveTemp, ExitMain, Exited, serverVars
    <3>2. InGame(t)
      BY <2>4 DEF Interrupt, RemoveTemp, ExitMain, Exited, serverVars, InGame
    <3> QED BY <3>1, <3>2 DEF Entries
  <2> QED BY <2>1, <2>2, <2>3, <2>4 DEF ServerNext, Session
<1>3. ServerInv /\ Entries => ExclusiveControl
  <2> SUFFICES ASSUME ServerInv, Entries, NEW s \in Threads, NEW t \in Threads,
                      InGame(s), InGame(t), Sole(s), Sole(t), pid[s] = pid[t]
               PROVE  s = t
    BY DEF ExclusiveControl
  <2>1. UserOf[s] \in Users /\ UserOf[t] \in Users
    BY UserAssumption
  <2>2. UserOf[s] = UserOf[t]
    BY <2>1 DEF ServerInv, IdsDistinct, Entries, Sessions
  <2> QED BY <2>2 DEF Sole
<1> QED BY <1>1, <1>2, <1>3, ServerInvariance, PTL DEF ServerSpec
=============================================================================
