--------------------------- MODULE HttpServerProofs --------------------------
(***************************************************************************)
(* The sockets of the HTTP server, for any number of connections and any   *)
(* limit on descriptors.                                                    *)
(***************************************************************************)
EXTENDS HttpServer, FiniteSetTheorems, SequenceTheorems, TLAPS

Queued == {queue[i] : i \in DOMAIN queue}

\* A connection is not made yet, in the queue once, or accepted once; while it
\* is accepted it has a socket until it is answered.
Places ==
    /\ \A i, j \in DOMAIN queue : queue[i] = queue[j] => i = j
    /\ new \cap Queued = {}
    /\ (fds \cup answered) \cap (new \cup Queued) = {}
    /\ current \subseteq fds
    /\ \A c, d \in current : c = d

\* A connection that was answered is closed and not handled again.
AnsweredClosed == answered \cap fds = {}

\* The process never has more sockets than it may have.
FdsBounded == IsFiniteSet(fds) /\ Cardinality(fds) <= MaxFds

\* The inductive invariant.
IInv == TypeOK /\ Places /\ AnsweredClosed /\ FdsBounded /\ OnlySilentStay

\* The invariant holds when the server listens.
LEMMA InitInv == Init => IInv
<1> SUFFICES ASSUME Init PROVE IInv
  OBVIOUS
<1>1. TypeOK
  BY DEF Init, TypeOK
<1>2. Places /\ AnsweredClosed /\ OnlySilentStay
  BY DEF Init, Places, AnsweredClosed, OnlySilentStay, Queued
<1>3. FdsBounded
  BY FS_EmptySet, FdsAssumption DEF Init, FdsBounded
<1> QED BY <1>1, <1>2, <1>3 DEF IInv

\* A new connection goes to the end of the queue.
LEMMA ConnectInv ==
  ASSUME IInv, NEW c \in Conns, Connect(c)
  PROVE  IInv'
<1>0. /\ c \in new /\ new' = new \ {c} /\ queue' = Append(queue, c)
      /\ UNCHANGED <<requested, fds, current, answered>>
      /\ TypeOK /\ Places /\ queue \in Seq(Conns)
  BY DEF Connect, IInv, TypeOK
<1>1. /\ queue' \in Seq(Conns) /\ Len(queue') = Len(queue) + 1 /\ queue'[Len(queue) + 1] = c
      /\ \A i \in 1..Len(queue) : queue'[i] = queue[i]
  BY <1>0, AppendProperties
<1>2. /\ DOMAIN queue = 1..Len(queue) /\ DOMAIN queue' = 1..(Len(queue) + 1) /\ Len(queue) \in Nat
  BY <1>0, <1>1
<1>3. \A i \in DOMAIN queue' : i = Len(queue) + 1 \/ (i \in DOMAIN queue /\ queue'[i] = queue[i])
  BY <1>1, <1>2
<1>4. Queued' \subseteq Queued \cup {c}
  BY <1>1, <1>3 DEF Queued
<1>5. TypeOK'
  BY <1>0, <1>1 DEF TypeOK
<1>6. Places'
  <2>1. c \notin Queued /\ c \notin fds /\ c \notin answered
    BY <1>0 DEF Places
  <2>2. \A i, j \in DOMAIN queue' : queue'[i] = queue'[j] => i = j
    BY <1>0, <1>1, <1>3, <2>1 DEF Places, Queued
  <2>3. new' \cap Queued' = {} /\ (fds' \cup answered') \cap (new' \cup Queued') = {}
    BY <1>0, <1>4, <2>1 DEF Places
  <2> QED BY <1>0, <2>2, <2>3 DEF Places
<1>7. AnsweredClosed' /\ FdsBounded' /\ OnlySilentStay'
  BY <1>0 DEF IInv, AnsweredClosed, FdsBounded, OnlySilentStay
<1> QED BY <1>5, <1>6, <1>7 DEF IInv

\* accept() takes the first connection, if there is a descriptor left.
LEMMA AcceptInv ==
  ASSUME IInv, Accept
  PROVE  IInv'
<1> DEFINE c == Head(queue)
<1>0. /\ current = {} /\ queue # <<>> /\ Cardinality(fds) < MaxFds
      /\ current' = {c} /\ fds' = fds \cup {c} /\ queue' = Tail(queue)
      /\ UNCHANGED <<new, requested, answered>>
      /\ TypeOK /\ Places /\ queue \in Seq(Conns)
  BY DEF Accept, IInv, TypeOK
<1>1. /\ c \in Conns /\ queue' \in Seq(Conns) /\ Len(queue') = Len(queue) - 1
      /\ \A i \in 1..Len(queue') : queue'[i] = queue[i + 1]
  BY <1>0, HeadTailProperties
<1>2. /\ Len(queue) \in Nat /\ Len(queue) > 0 /\ DOMAIN queue = 1..Len(queue)
      /\ DOMAIN queue' = 1..(Len(queue) - 1)
  BY <1>0, <1>1, LenProperties, EmptySeq
<1>3. c = queue[1] /\ 1 \in DOMAIN queue
  BY <1>2
<1> HIDE DEF c
<1>4. \A i \in DOMAIN queue' : i # 0 /\ i \in Int /\ i + 1 \in DOMAIN queue /\ queue'[i] = queue[i + 1]
  BY <1>1, <1>2
<1>5. Queued' \subseteq Queued /\ c \in Queued /\ c \notin Queued'
  <2>1. Queued' \subseteq Queued /\ c \in Queued
    BY <1>3, <1>4 DEF Queued
  <2>2. ASSUME NEW i \in DOMAIN queue' PROVE queue'[i] # c
    <3>1. i + 1 \in DOMAIN queue /\ i + 1 # 1 /\ queue'[i] = queue[i + 1]
      BY <1>4
    <3> QED BY <1>0, <1>3, <3>1 DEF Places
  <2> QED BY <2>1, <2>2 DEF Queued
<1>6. TypeOK'
  BY <1>0, <1>1 DEF TypeOK
<1>7. Places'
  <2>1. \A i, j \in DOMAIN queue' : queue'[i] = queue'[j] => i = j
    BY <1>0, <1>4 DEF Places
  <2>2. new' \cap Queued' = {} /\ (fds' \cup answered') \cap (new' \cup Queued') = {}
    BY <1>0, <1>5 DEF Places
  <2> QED BY <1>0, <2>1, <2>2 DEF Places
<1>8. AnsweredClosed' /\ OnlySilentStay'
  BY <1>0, <1>5 DEF IInv, Places, AnsweredClosed, OnlySilentStay
<1>9. FdsBounded'
  <2>1. IsFiniteSet(fds) /\ Cardinality(fds) \in Nat /\ c \notin fds
    BY <1>0, <1>5, FS_CardinalityType DEF IInv, FdsBounded, Places
  <2>2. IsFiniteSet(fds') /\ Cardinality(fds') = Cardinality(fds) + 1
    BY <1>0, <2>1, FS_AddElement
  <2> QED BY <1>0, <2>1, <2>2, FdsAssumption DEF FdsBounded
<1> QED BY <1>6, <1>7, <1>8, <1>9 DEF IInv

\* The response closes the socket of the connection it answers, whereas a
\* connection without a request keeps it.
LEMMA HandleInv ==
  ASSUME IInv, Respond \/ NoRequest
  PROVE  IInv'
<1>0. /\ UNCHANGED <<new, queue, requested>> /\ current' = {} /\ Queued' = Queued
      /\ TypeOK /\ Places
  BY DEF Respond, NoRequest, IInv, Queued
<1>1. PICK c \in current : \/ answered' = answered \cup {c} /\ fds' = fds \ {c}
                           \/ c \in Silent /\ answered' = answered /\ fds' = fds
  BY DEF Respond, NoRequest
<1>2. TypeOK'
  BY <1>0, <1>1 DEF TypeOK
<1>3. current = {c} /\ c \in fds
  BY <1>0, <1>1 DEF Places
<1>4. Places' /\ AnsweredClosed' /\ OnlySilentStay'
  BY <1>0, <1>1, <1>3 DEF IInv, Places, AnsweredClosed, OnlySilentStay
<1>5. FdsBounded'
  <2>1. IsFiniteSet(fds) /\ Cardinality(fds) \in Nat /\ Cardinality(fds) <= MaxFds
    BY FS_CardinalityType DEF IInv, FdsBounded
  <2>2. fds' = fds \/ fds' = fds \ {c}
    BY <1>1
  <2>3. IsFiniteSet(fds \ {c}) /\ Cardinality(fds \ {c}) = Cardinality(fds) - 1
    BY <1>3, <2>1, FS_RemoveElement
  <2> QED BY <2>1, <2>2, <2>3, FdsAssumption DEF FdsBounded
<1> QED BY <1>2, <1>4, <1>5 DEF IInv

\* The invariant is inductive.
THEOREM Invariance == Spec => []IInv
<1>1. IInv /\ [Next]_vars => IInv'
  <2> SUFFICES ASSUME IInv, [Next]_vars PROVE IInv'
    OBVIOUS
  <2>1. ASSUME NEW c \in Conns, Request(c) PROVE IInv'
    BY <2>1 DEF IInv, Request, TypeOK, Places, Queued, AnsweredClosed, FdsBounded, OnlySilentStay
  <2>2. CASE UNCHANGED vars
    BY <2>2 DEF IInv, vars, TypeOK, Places, Queued, AnsweredClosed, FdsBounded, OnlySilentStay
  <2> QED BY <2>1, <2>2, ConnectInv, AcceptInv, HandleInv DEF Next, Server, AcceptFails, Idle
<1> QED BY <1>1, InitInv, PTL DEF Spec

\* The queue and the sockets of httpd stay well-typed.
THEOREM TypeCorrect == Spec => []TypeOK
  BY Invariance, PTL DEF IInv

\* A socket that stays open belongs to the connection handle_request runs for
\* or to one that never sent a request.
THEOREM StayCorrect == Spec => []OnlySilentStay
  BY Invariance, PTL DEF IInv

\* A connection that was sent its response has no socket in the server any
\* more, and is never accepted again.
THEOREM ClosedCorrect == Spec => []AnsweredClosed
  BY Invariance, PTL DEF IInv

\* The server never has more client sockets open than the process may.
THEOREM BoundCorrect == Spec => []FdsBounded
  BY Invariance, PTL DEF IInv
=============================================================================
