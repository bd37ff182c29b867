----------------------------- MODULE HttpServer ------------------------------
(***************************************************************************)
(* os2025/httpd/httpd.c: one process that accepts a connection, handles its *)
(* request and goes on to the next.  Connections that are prompt send their *)
(* request within the 30 seconds of SO_RCVTIMEO; those in Silent close the  *)
(* connection or send nothing.                                              *)
(***************************************************************************)
EXTENDS Integers, Sequences, FiniteSets

CONSTANTS Conns,   \* connections made to the server
          Silent,  \* the ones that never send a request
          MaxFds   \* how many client sockets the process may have open

ASSUME SilentAssumption == Silent \subseteq Conns
ASSUME FdsAssumption == MaxFds \in Nat \ {0} /\ IsFiniteSet(Conns)

VARIABLES
    new,       \* connections not made yet
    queue,     \* the listen queue
    requested, \* connections whose request has arrived
    fds,       \* client sockets that are open in the server
    current,   \* the connection handle_request runs for, if any
    answered   \* connections that were sent a response

vars == <<new, queue, requested, fds, current, answered>>

Init ==
    /\ new = Conns
    /\ queue = <<>>
    /\ requested = {} /\ fds = {} /\ current = {} /\ answered = {}

\* The peers.
Connect(c) ==
    /\ c \in new
    /\ new' = new \ {c}
    /\ queue' = Append(queue, c)
    /\ UNCHANGED <<requested, fds, current, answered>>

Request(c) ==
    /\ c \notin new \cup requested \cup Silent
    /\ requested' = requested \cup {c}
    /\ UNCHANGED <<new, queue, fds, current, answered>>

\* Mutant: the newest connection comes first, and no other is looked at.
AcceptNewest ==
    /\ current = {} /\ queue # <<>> /\ Cardinality(fds) < MaxFds
    /\ current' = {queue[Len(queue)]}
    /\ fds' = fds \cup current'
    /\ queue' = <<>>
    /\ UNCHANGED <<new, requested, answered>>

\* accept() gives the first connection of the queue a socket.
Accept ==
    /\ current = {} /\ queue # <<>> /\ Cardinality(fds) < MaxFds
    /\ current' = {Head(queue)}
    /\ fds' = fds \cup current'
    /\ queue' = Tail(queue)
    /\ UNCHANGED <<new, requested, answered>>

\* Without a free descriptor accept() fails, and the loop continues.
AcceptFails ==
    /\ current = {} /\ queue # <<>> /\ Cardinality(fds) = MaxFds
    /\ UNCHANGED vars

\* Mutant: the response is sent and the socket stays open.
RespondKeepsOpen ==
    \E c \in current :
        /\ c \in requested
        /\ answered' = answered \cup {c}
        /\ current' = {}
        /\ UNCHANGED <<new, queue, requested, fds>>

\* recv() returns a request: the response is sent and the socket closed.
Respond ==
    \E c \in current :
        /\ c \in requested
        /\ answered' = answered \cup {c}
        /\ fds' = fds \ {c}
        /\ current' = {}
        /\ UNCHANGED <<new, queue, requested>>

\* recv() returns 0 or -1, at the end of the stream or after its timeout:
\* handle_request returns, and the socket stays open.
NoRequest ==
    \E c \in current :
        /\ c \in Silent
        /\ current' = {}
        /\ UNCHANGED <<new, queue, requested, fds, answered>>

\* The server waits in accept() for ever when nobody comes any more.
Idle == current = {} /\ queue = <<>> /\ new = {} /\ UNCHANGED vars

Server == Accept \/ AcceptFails \/ Respond \/ NoRequest
Next == Server \/ Idle \/ \E c \in Conns : Connect(c) \/ Request(c)

\* The process is scheduled, and what a prompt peer has sent arrives.
Spec == /\ Init /\ [][Next]_vars
        /\ WF_vars(Server)
        /\ \A c \in Conns : WF_vars(Request(c))

-----------------------------------------------------------------------------
TypeOK ==
    /\ new \subseteq Conns /\ queue \in Seq(Conns)
    /\ requested \subseteq Conns /\ answered \subseteq Conns
    /\ fds \subseteq Conns /\ current \subseteq Conns

\* A socket that is open without being handled belongs to a connection that
\* never sent a request: every connection that is answered is closed.
OnlySilentStay == fds \subseteq current \cup Silent

\* "accept and process connections indefinitely": a request that arrives is
\* answered, unless connections that never sent one hold every descriptor.
RequestsAnswered == \A c \in Conns :
    c \in requested ~> (c \in answered \/ Cardinality(fds \cap Silent) = MaxFds)
=============================================================================
