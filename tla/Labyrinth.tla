------------------------------ MODULE Labyrinth ------------------------------
(***************************************************************************)
(* The program os2025/labyrinth/labyrinth.c: each invocation parses its    *)
(* options, loads a map, moves a player and saves the map.  Processes Procs *)
(* are started over and over and share the file system.                     *)
(*                                                                         *)
(* Files: "given" is any file named by --map, "saved" is maps/map.txt, the *)
(* one saveMap always writes (it may be named by --map as well).  The text *)
(* of a map fits one buffer of the C library (BufferAssumption): it is read *)
(* at once, and written at once when the file is closed, after fopen("w")   *)
(* has emptied it.  Larger maps, which MaxRows and MaxCols allow, are read  *)
(* and written in pieces, and are not described here.                       *)
(***************************************************************************)
EXTENDS LabyrinthGame

CONSTANTS MaxRows, MaxCols, \* limits of struct Labyrinth
          Starts,           \* the maps the game is played on
          Procs,            \* concurrent invocations
          Calls,            \* the command lines used, see CommandLine
          Faults,           \* what may go wrong: "nodir", "full", "kill"
          BufSize           \* the buffer of a FILE, in characters

Paths == {"given", "saved"}
NoPlayer == -1
CommandLine == [version : BOOLEAN, map : Paths \cup {"none"},
                player : Digits \cup {NoPlayer},
                move : Directions \cup {"invalid", "none"}]

ASSUME StartsAssumption == Starts \subseteq {m \in Maps : Single(m)}
ASSUME CallsAssumption == Calls \subseteq CommandLine
ASSUME BufferAssumption == BufSize \in Nat /\ Rows * (Cols + 1) <= BufSize
ASSUME FaultsAssumption == Faults \subseteq {"nodir", "full", "kill"}

VARIABLES
    file,  \* the files: [st, map, nl]; nl: does the last line end in '\n'?
    dir,   \* does the directory maps/ exist?
    pc,    \* where each process is
    lab,   \* its struct Labyrinth (the given map when there is no process)
    exit   \* how its last invocation ended: 0, 1, or a signal

vars == <<file, dir, pc, lab, exit>>

Text(m, nl) == [st |-> "text", map |-> m, nl |-> nl]
Without(st, m) == [st |-> st, map |-> m, nl |-> FALSE]

Init ==
    /\ \E m \in Starts, nl \in BOOLEAN :
         /\ \E saved \in {Text(m, TRUE), Without("missing", m)} :
              file = [q \in Paths |-> IF q = "given" THEN Text(m, nl) ELSE saved]
         /\ lab = [p \in Procs |-> m]
    /\ dir \in IF "nodir" \in Faults THEN BOOLEAN ELSE {TRUE}
    /\ dir \/ file["saved"].st = "missing"
    /\ pc = [p \in Procs |-> "exited"]
    /\ exit = [p \in Procs |-> "none"]

-----------------------------------------------------------------------------
(* loadMap *)

\* fgets returns the line with its '\n', which counts against MAX_COLS.
FitsLimits(f) == /\ Rows <= MaxRows
                 /\ Cols + (IF Rows > 1 \/ f.nl THEN 1 ELSE 0) <= MaxCols

\* loadMap: there is a file with something in it, and isConnected.
Loadable(f) == /\ f.st = "text" /\ FitsLimits(f)
               /\ \E open \in {EmptySpaces(f.map)} : Connected(open)

\* The file --map names; fopen(NULL) fails like a file that is not there.
FileOf(a) == IF a.map = "none" THEN Without("missing", file["given"].map) ELSE file[a.map]

\* main() and movePlayer: the exit status of the command line a, with "0" for
\* a move that is made.  A direction that was not given crashes strcmp.
Outcome(a) ==
    IF \/ a.version /\ (a.map # "none" \/ a.player # NoPlayer \/ a.move # "none")
       \/ ~Loadable(FileOf(a))
       \/ a.player \notin Digits
    THEN "1"
    ELSE IF a.move = "none" THEN "SIGSEGV"
         ELSE IF CanMove(FileOf(a).map, a.player, a.move) THEN "0" ELSE "1"

-----------------------------------------------------------------------------
Exit(p, status) == /\ pc' = [pc EXCEPT ![p] = "exited"]
                   /\ exit' = [exit EXCEPT ![p] = status]
                   /\ lab' = [lab EXCEPT ![p] = file["given"].map]

\* An invocation that gives up or crashes before anything is saved.
Fail(p, a) ==
    /\ pc[p] = "exited"
    /\ Outcome(a) # "0"
    /\ Exit(p, Outcome(a))
    /\ UNCHANGED <<file, dir>>

\* An invocation that makes its move in memory.
Move(p, a) ==
    /\ pc[p] = "exited"
    /\ Outcome(a) = "0"
    /\ lab' = [lab EXCEPT ![p] = Moved(FileOf(a).map, a.player, a.move)]
    /\ pc' = [pc EXCEPT ![p] = "save"]
    /\ exit' = [exit EXCEPT ![p] = "none"]
    /\ UNCHANGED <<file, dir>>

\* saveMap opens its file, which empties it.  If there is no directory it
\* returns false, which movePlayer ignores.
OpenSaved(p) ==
    /\ pc[p] = "save"
    /\ IF dir
       THEN /\ file' = [file EXCEPT !["saved"] = Without("empty", @.map)]
            /\ pc' = [pc EXCEPT ![p] = "write"]
            /\ UNCHANGED <<exit, lab>>
       ELSE /\ Exit(p, "0")
            /\ UNCHANGED file
    /\ UNCHANGED dir

\* fclose: the lines, each with a '\n', reach the file in one write.
WriteSaved(p) ==
    /\ pc[p] = "write"
    /\ file' = [file EXCEPT !["saved"] = Text(lab[p], TRUE)]
    /\ Exit(p, "0")
    /\ UNCHANGED dir

\* The disk is full: nothing is written, and the result of saveMap ignored.
WriteFails(p) ==
    /\ "full" \in Faults
    /\ pc[p] = "write"
    /\ Exit(p, "0")
    /\ UNCHANGED <<file, dir>>

\* A signal, such as the alarm of TestKit, ends the process anywhere.
Kill(p) ==
    /\ "kill" \in Faults
    /\ pc[p] # "exited"
    /\ Exit(p, "SIGALRM")
    /\ UNCHANGED <<file, dir>>

Next == \E p \in Procs :
          \/ \E a \in Calls : Fail(p, a) \/ Move(p, a)
          \/ OpenSaved(p) \/ WriteSaved(p) \/ WriteFails(p) \/ Kill(p)

Spec == Init /\ [][Next]_vars

-----------------------------------------------------------------------------
Contents == [st : {"missing", "empty", "text"}, map : Maps, nl : BOOLEAN]

TypeOK ==
    /\ file \in [Paths -> Contents]
    /\ dir \in BOOLEAN
    /\ pc \in [Procs -> {"exited", "save", "write"}]
    /\ lab \in [Procs -> Maps]
    /\ exit \in [Procs -> {"none", "0", "1", "SIGSEGV", "SIGALRM"}]

\* However many processes move players at once, from whichever file, and
\* wherever one is killed: the walls of a saved map are those of the map that
\* was given, if it fits the buffer of a FILE (saveMap writes it at once).
WallsKept == \A q \in Paths :
    file[q].st = "text" => Walls(file[q].map) = Walls(file["given"].map)

\* A saved map that fits the buffer holds every player at most once (findPlayer
\* looks for one).
NoDuplicates == \A q \in Paths : file[q].st = "text" => Single(file[q].map)

=============================================================================
