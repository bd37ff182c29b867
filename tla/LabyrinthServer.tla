--------------------------- MODULE LabyrinthServer ---------------------------
(***************************************************************************)
(* os2025/labyrinth/frontend/online.py: the SSH server of the game, one    *)
(* daemon thread (handle_client) per connection and the accept loop in the *)
(* main thread.  Every block under "with server.lock" is one step, except   *)
(* the refusal, which sleeps in it.  The sessions run the program of        *)
(* labyrinth.c, which reads the temporary copy of the map; its maps are     *)
(* within MAX_ROWS and MAX_COLS here.                                       *)
(***************************************************************************)
EXTENDS LabyrinthGame

CONSTANTS Threads,  \* connections
          Users,    \* user names
          UserOf,   \* the user name each connection gives
          InitMap   \* the map of --map

ASSUME UserAssumption == UserOf \in [Threads -> Users]
ASSUME MapAssumption == InitMap \in Maps

VARIABLES
    players,  \* server.players: the id of each user, None without an entry
    lock,     \* server.lock: the thread that sleeps in it, if any
    at,       \* where each handle_client is
    named,    \* has it read its user name?
    pid,      \* its player_id
    temp,     \* does temp_map_file exist?
    tempMap,  \* what is in it
    saved,    \* maps/map.txt, where the program saves moves
    shutdown, \* shutdown_flag
    main      \* where main() is

serverVars == <<players, lock, at, named, pid, temp, tempMap, saved, shutdown, main>>
files == <<temp, tempMap, saved>>

None == -1

\* get_available_player_ids: the digits in the map file.
available_player_ids == {d \in Digits : \E c \in Cells : InitMap[c] = d}

ServerInit ==
    /\ players = [u \in Users |-> None]
    /\ lock = {}
    /\ at = [t \in Threads |-> "none"]
    /\ named = [t \in Threads |-> FALSE]
    /\ pid = [t \in Threads |-> None]
    /\ temp = TRUE /\ tempMap = InitMap /\ saved = InitMap
    /\ shutdown = FALSE
    /\ main = "listening"

Go(t, from, to) == at[t] = from /\ at' = [at EXCEPT ![t] = to]

-----------------------------------------------------------------------------
(* handle_client *)

\* The accept loop starts a thread.
Connect(t) ==
    /\ main = "listening"
    /\ Go(t, "none", "accept")
    /\ UNCHANGED <<players, lock, named, pid, files, shutdown, main>>

\* transport.accept(20) gives a channel, and the user has a name; or there is
\* no channel (or an exception), and the finally block finds no username.
Accept(t) ==
    /\ \/ Go(t, "accept", "assign") /\ named' = [named EXCEPT ![t] = TRUE]
       \/ Go(t, "accept", "finally") /\ UNCHANGED named
    /\ UNCHANGED <<players, lock, pid, files, shutdown, main>>

Taken == {players[u] : u \in Users} \ {None}
Lowest(S) == CHOOSE x \in S : \A y \in S : x <= y

\* The first block under the lock: the user's entry, the lowest id that no
\* user has, or the refusal, which keeps the lock while it sleeps.
Assign(t) ==
    LET u == UserOf[t]
        available_ids == available_player_ids \ Taken
    IN  /\ lock = {}
        /\ \/ /\ players[u] # None
              /\ Go(t, "assign", "welcome")
              /\ pid' = [pid EXCEPT ![t] = players[u]]
              /\ UNCHANGED <<players, lock>>
           \/ /\ players[u] = None /\ available_ids = {}
              /\ Go(t, "assign", "full")
              /\ lock' = {t}
              /\ UNCHANGED <<players, pid>>
           \/ /\ players[u] = None /\ available_ids # {}
              /\ Go(t, "assign", "welcome")
              /\ pid' = [pid EXCEPT ![t] = Lowest(available_ids)]
              /\ players' = [players EXCEPT ![u] = Lowest(available_ids)]
              /\ UNCHANGED lock
        /\ UNCHANGED <<named, files, shutdown, main>>

\* After the sleep the channel is closed and the lock released.
Refuse(t) ==
    /\ Go(t, "full", "finally")
    /\ lock' = {}
    /\ UNCHANGED <<players, named, pid, files, shutdown, main>>

\* A run of the program on the temporary map: it loads the map and moves, or
\* fails.
move_player(p, d) == temp /\ Connected(EmptySpaces(tempMap)) /\ CanMove(tempMap, p, d)

\* The map is fetched under the lock (get_map_state) and displayed, at the
\* start and after a move.
Display(t) ==
    /\ lock = {}
    /\ Go(t, "welcome", "loop") \/ Go(t, "moved", "loop")
    /\ UNCHANGED <<players, lock, named, pid, files, shutdown, main>>

\* A key of WASD: the program makes the move on the temporary map and saves it
\* to maps/map.txt, or fails.
MoveKey(t, d) ==
    LET moved == move_player(pid[t], d)
    IN  /\ ~shutdown
        /\ lock = {}
        /\ Go(t, "loop", IF moved THEN "moved" ELSE "loop")
        /\ saved' = IF moved THEN Moved(tempMap, pid[t], d) ELSE saved
        /\ UNCHANGED <<players, lock, named, pid, temp, tempMap, shutdown, main>>

\* The session ends: the key Q (under the lock), a channel that is closed, an
\* exception of send or recv, or the shutdown flag.
Leave(t) ==
    /\ \/ Go(t, "welcome", "finally")
       \/ Go(t, "loop", "finally")
       \/ Go(t, "moved", "finally")
    /\ UNCHANGED <<players, lock, named, pid, files, shutdown, main>>

\* Mutant: the entry is kept.
FinallyKeeps(t) ==
    /\ lock = {}
    /\ Go(t, "finally", "done")
    /\ UNCHANGED <<players, lock, named, pid, files, shutdown, main>>

\* Mutant: the finally block removes every entry.
FinallyClears(t) ==
    /\ lock = {}
    /\ Go(t, "finally", "done")
    /\ players' = IF named[t] THEN [u \in Users |-> None] ELSE players
    /\ UNCHANGED <<lock, named, pid, files, shutdown, main>>

\* The finally block.  Without a user name its NameError is swallowed.
Finally(t) ==
    /\ lock = {}
    /\ Go(t, "finally", "done")
    /\ players' = IF named[t] THEN [players EXCEPT ![UserOf[t]] = None] ELSE players
    /\ UNCHANGED <<lock, named, pid, files, shutdown, main>>

-----------------------------------------------------------------------------
(* main *)

\* Ctrl-C, or an error of the loop: the flag is set and the socket closed.
Interrupt ==
    /\ main = "listening"
    /\ shutdown' = TRUE
    /\ main' = "joining"
    /\ UNCHANGED <<players, lock, at, named, pid, files>>

\* Mutant: the threads are joined without a timeout.
RemoveTempJoined ==
    /\ main = "joining"
    /\ \A t \in Threads : at[t] \in {"none", "done"}
    /\ temp' = FALSE
    /\ main' = "removed"
    /\ UNCHANGED <<players, lock, at, named, pid, tempMap, saved, shutdown>>

\* Every thread is joined, or not within its two seconds, and the temporary
\* file is removed.
RemoveTemp ==
    /\ main = "joining"
    /\ temp' = FALSE
    /\ main' = "removed"
    /\ UNCHANGED <<players, lock, at, named, pid, tempMap, saved, shutdown>>

\* main returns, which ends the daemon threads where they are.
ExitMain ==
    /\ main = "removed"
    /\ main' = "exited"
    /\ at' = [t \in Threads |-> IF at[t] \in {"none", "done"} THEN at[t] ELSE "killed"]
    /\ UNCHANGED <<players, lock, named, pid, files, shutdown>>

Exited == main = "exited" /\ UNCHANGED serverVars

Session(t) ==
    \/ Connect(t) \/ Accept(t) \/ Assign(t) \/ Refuse(t) \/ Display(t)
    \/ (\E d \in Directions : MoveKey(t, d))
    \/ Leave(t) \/ Finally(t)

ServerNext == (\E t \in Threads : Session(t)) \/ Interrupt \/ RemoveTemp \/ ExitMain \/ Exited

\* main() runs on once it is interrupted; nothing is assumed of the clients
\* or of who gets the lock.
ServerSpec ==
    ServerInit /\ [][ServerNext]_serverVars /\ WF_serverVars(RemoveTemp) /\ WF_serverVars(ExitMain)

-----------------------------------------------------------------------------
ServerTypeOK ==
    /\ players \in [Users -> available_player_ids \cup {None}]
    /\ lock \subseteq Threads
    /\ at \in [Threads -> {"none", "accept", "assign", "full", "welcome", "loop", "moved",
                           "finally", "done", "killed"}]
    /\ named \in [Threads -> BOOLEAN]
    /\ pid \in [Threads -> available_player_ids \cup {None}]
    /\ temp \in BOOLEAN /\ tempMap \in Maps /\ saved \in Maps
    /\ shutdown \in BOOLEAN
    /\ main \in {"listening", "joining", "removed", "exited"}

InGame(t) == at[t] \in {"welcome", "loop", "moved"}

\* No two users have the same player in server.players, however sessions come
\* and go and whatever the finally blocks remove.
IdsDistinct == \A u, v \in Users : players[u] = players[v] /\ players[u] # None => u = v

\* An id that is taken is taken by a session that has not ended: no way out of
\* handle_client loses an id for good, not the ones without a channel or
\* without a name.
IdsReturned == \A u \in Users : players[u] # None =>
    \E t \in Threads : UserOf[t] = u /\ named[t] /\ at[t] \notin {"none", "done"}

\* The connection is the only one that gives its user's name.
Sole(t) == \A s \in Threads : UserOf[s] = UserOf[t] => s = t

\* Two users who are connected once each never move the same player ("Assign
\* the lowest available ID"), whatever the sessions of others, connected twice
\* or not, take and give back.
ExclusiveControl == \A s, t \in Threads :
    InGame(s) /\ InGame(t) /\ Sole(s) /\ Sole(t) /\ pid[s] = pid[t] => s = t

\* Once interrupted, the server goes down whatever its sessions do.
MainExits == shutdown ~> main = "exited"

=============================================================================
