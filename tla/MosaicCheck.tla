----------------------------- MODULE MosaicCheck -----------------------------
(***************************************************************************)
(* The state space explorer Mosaic.check() of course2/mosaic/mosaic.py, and *)
(* what it rests on: os.replay() rebuilds a state from its trace, fork      *)
(* clones a thread by replaying the trace in a second OS, and state_dump()  *)
(* decides which states are the same.                                       *)
(*                                                                         *)
(* An application is a deterministic sequence of system calls for main and *)
(* one for the worker it may spawn.  An instruction is one call with the   *)
(* source line it stands on, where its result goes (a local, or "tmp": an  *)
(* operand inside an expression, which f_locals does not show), whether    *)
(* the result is added to heap.x when the call returns, and which call     *)
(* comes next, by the result: zero or not.                                  *)
(***************************************************************************)
EXTENDS Integers, Sequences, FiniteSets, Functions

CONSTANTS Programs, \* the applications explored: records [main, worker]
          MaxSteps  \* no application comes to a new state after more steps

VARIABLES
    prog,     \* the application, self.entry
    queued,   \* queued: traces of the states still to be expanded
    todo,     \* the choices of the state being expanded that are left
    trace,    \* its trace
    V,        \* V: dump -> depth
    E         \* E: set of (dump, dump, choice)

vars == <<prog, queued, todo, trace, V, E>>

-----------------------------------------------------------------------------
(* The operating system, as far as an application without devices sees it. *)

Locals == {"x", "pid"}
NewThread(code, heap) ==
    [code |-> code, pc |-> 0, tmp |-> 0, heap |-> heap,
     locals |-> [v \in Locals |-> "unset"]]

\* OperatingSystem.__init__
OSInit == [threads |-> <<NewThread("main", 1)>>, cur |-> 1, heaps |-> <<0>>,
           newfork |-> {}, out |-> <<>>]

\* The call thread t is frozen at; a generator that has ended has no frame.
Ended(p, os, t) == os.threads[t].pc > Len(p[os.threads[t].code])
Line(p, th) == IF th.pc = 0 THEN 0 ELSE p[th.code][th.pc].line
Instr(p, th) == IF th.pc = 0 THEN [op |-> "main", dst |-> "none", add |-> FALSE,
                                     zero |-> 1, nonzero |-> 1]
                ELSE p[th.code][th.pc]
Pending(p, os) == IF Ended(p, os, os.cur) THEN "sched"
                  ELSE Instr(p, os.threads[os.cur]).op

\* sorted(): the numbers of a set in their order.
Sorted(S) == [i \in 1..Cardinality(S) |->
                CHOOSE x \in S : Cardinality({y \in S : y < x}) = i - 1]

\* _choices, in the order of sorted(): <<kind, number>>.
ChoicesOf(p, os) ==
    CASE Pending(p, os) = "sched" ->
            LET alive == Sorted({t \in DOMAIN os.threads : ~Ended(p, os, t)})
            IN  [i \in DOMAIN alive |-> <<"t", alive[i]>>]
      [] Pending(p, os) = "choose" -> <<(<<"choose", 0>>), (<<"choose", 1>>)>>
      [] OTHER -> <<(<<Pending(p, os), 0>>)>>

\* context.send(res): the call returns into its destination and the thread
\* runs to its next call.
Send(p, os, res) ==
    LET th == os.threads[os.cur]
        i  == Instr(p, th)
    IN  [os EXCEPT
           !.threads[os.cur] = [th EXCEPT !.pc = IF res = 0 THEN i.zero ELSE i.nonzero,
                                !.tmp = IF i.dst = "tmp" THEN res ELSE @,
                                !.locals = IF i.dst \in Locals
                                           THEN [@ EXCEPT ![i.dst] = res] ELSE @],
           !.heaps[th.heap] = IF i.add THEN @ + res + th.tmp ELSE @]

\* The choice is made, then the thread that is current afterwards runs.  clone
\* is the thread the fork handler cloned and the content of its heap.
Act(p, os, choice, clone) ==
    LET n == Len(os.threads) + 1
        switch == [os EXCEPT !.cur = choice[2], !.newfork = @ \ {choice[2]}]
    IN  CASE Pending(p, os) = "spawn" ->
               Send(p, [os EXCEPT !.threads =
                          Append(@, NewThread("worker", os.threads[os.cur].heap))], 0)
          [] Pending(p, os) = "fork" ->
               Send(p, [os EXCEPT !.heaps = Append(@, clone.x),
                          !.newfork = @ \cup {n},
                          !.threads = Append(@, [clone.th EXCEPT
                                                   !.heap = Len(os.heaps) + 1])],
                    1000 + n)
          [] Pending(p, os) = "sched" -> Send(p, switch, 0)
          [] Pending(p, os) = "choose" -> Send(p, os, choice[2])
          [] Pending(p, os) = "write" ->
               Send(p, [os EXCEPT !.out = Append(@, os.threads[os.cur].locals["x"])], 0)
          [] OTHER -> Send(p, os, 0)

\* The current thread and the content of its heap.
CurrentOf(os) == [th |-> os.threads[os.cur], x |-> os.heaps[os.threads[os.cur].heap]]

\* Mutant: the clone is not stepped through the last choice.
ClonedAfterShort(n) == n - 1

(***************************************************************************)
(* replay(trace): a new OS and one _step per choice; after[n] is the OS    *)
(* after n choices.  The handler of a fork replays the choices made so far *)
(* in an OS of its own, replay(trace[:-1]) and then _step(trace[-1], True), *)
(* nested forks included, and takes that OS's current thread.               *)
(***************************************************************************)
ClonedAfter(n) == (n - 1) + 1

After(p, tr) ==
    LET after[n \in 0..Len(tr)] ==
          IF n = 0 THEN OSInit
          ELSE CHOOSE os1 \in {Act(p, os, tr[n], CurrentOf(after[ClonedAfter(n - 1)])) :
                                  os \in {after[n - 1]}} : TRUE
    IN  after

Replay(p, tr) == After(p, tr)[Len(tr)]

\* state_dump(): heaps are numbered in the order of the threads using them,
\* a context is shown by its source line and its local variables.
HeapNo(os, t) ==
    LET h == os.threads[t].heap
        first == CHOOSE u \in DOMAIN os.threads :
                   /\ os.threads[u].heap = h
                   /\ \A w \in 1..(u - 1) : os.threads[w].heap # h
    IN  Cardinality({os.threads[u].heap : u \in 1..first})

\* Mutant: f_locals is left out.
DumpNoLocals(p, os) ==
    [current  |-> os.cur,
     choices  |-> ChoicesOf(p, os),
     contexts |-> [t \in DOMAIN os.threads |->
                     LET th == os.threads[t]
                     IN  IF Ended(p, os, t) THEN <<"None">>
                         ELSE <<th.code, HeapNo(os, t), Line(p, th)>>],
     heaps    |-> {<<HeapNo(os, t), os.heaps[os.threads[t].heap]>> : t \in DOMAIN os.threads},
     stdout   |-> os.out]

Dump(p, os) ==
    [current  |-> os.cur,
     choices  |-> ChoicesOf(p, os),
     contexts |-> [t \in DOMAIN os.threads |->
                     LET th == os.threads[t]
                     IN  IF Ended(p, os, t) THEN <<"None">>
                         ELSE <<th.code, HeapNo(os, t), Line(p, th), th.locals>>],
     heaps    |-> {<<HeapNo(os, t), os.heaps[os.threads[t].heap]>> : t \in DOMAIN os.threads},
     stdout   |-> os.out]

-----------------------------------------------------------------------------
(* check() *)

At(tr) == Dump(prog, Replay(prog, tr))

Init ==
    /\ prog \in Programs
    /\ queued = <<(<<>>)>>
    /\ V = [d \in {Dump(prog, OSInit)} |-> 0]
    /\ E = {}
    /\ todo = <<>>
    /\ trace = <<>>

\* Mutant: queued.pop().
PopLast ==
    /\ todo = <<>> /\ queued # <<>>
    /\ trace' = queued[Len(queued)]
    /\ queued' = SubSeq(queued, 1, Len(queued) - 1)
    /\ todo' = At(trace').choices
    /\ UNCHANGED <<prog, V, E>>

\* st = queued.pop(0); for choice in st.state['choices']
Pop ==
    /\ todo = <<>> /\ queued # <<>>
    /\ trace' = Head(queued)
    /\ queued' = Tail(queued)
    /\ todo' = At(trace').choices
    /\ UNCHANGED <<prog, V, E>>

\* Mutant: only edges to new states are recorded.
ExtendTreeEdges ==
    LET tr1 == Append(trace, Head(todo))
        st  == At(trace)
        st1 == At(tr1)
    IN  /\ todo # <<>>
        /\ IF st1 \in DOMAIN V
           THEN UNCHANGED <<V, queued, E>>
           ELSE /\ V' = [d \in DOMAIN V \cup {st1} |-> IF d = st1 THEN Len(tr1) ELSE V[d]]
                /\ queued' = Append(queued, tr1)
                /\ E' = E \cup {<<st, st1, Head(todo)>>}
        /\ todo' = Tail(todo)
        /\ UNCHANGED <<prog, trace>>

\* The body of the for loop.
Extend ==
    LET tr1 == Append(trace, Head(todo))
        st  == At(trace)
        st1 == At(tr1)
    IN  /\ todo # <<>>
        /\ IF st1 \in DOMAIN V
           THEN UNCHANGED <<V, queued>>
           ELSE /\ V' = [d \in DOMAIN V \cup {st1} |-> IF d = st1 THEN Len(tr1) ELSE V[d]]
                /\ queued' = Append(queued, tr1)
        /\ E' = E \cup {<<st, st1, Head(todo)>>}
        /\ todo' = Tail(todo)
        /\ UNCHANGED <<prog, trace>>

Done == todo = <<>> /\ queued = <<>>

\* check() has returned.
Returned == Done /\ UNCHANGED vars

Next == Pop \/ Extend \/ Returned

Spec == Init /\ [][Next]_vars

-----------------------------------------------------------------------------
(***************************************************************************)
(* Reference: the states of an application whose fork copies the thread and *)
(* its heap directly, level by level.                                       *)
(***************************************************************************)
Step(p, os, c) == Act(p, os, c, CurrentOf(os))
Successors(p, os) == {Step(p, os, c) : c \in Range(ChoicesOf(p, os))}

\* The states after 0, 1, ... n steps.
Levels(p, n) ==
    LET level[k \in 0..n] ==
          IF k = 0 THEN {OSInit} ELSE UNION {Successors(p, os) : os \in level[k - 1]}
    IN  level

\* The states after at most n steps, and the dumps of those after n steps.
Reached(p, n) == LET levels == Levels(p, n) IN UNION {levels[k] : k \in 0..n}
ReachedIn(n) == {Dump(prog, os) : os \in Levels(prog, n)[n]}

ASSUME StepsAssumption ==
    /\ MaxSteps \in Nat
    /\ \A p \in Programs : Levels(p, MaxSteps + 1)[MaxSteps + 1] \subseteq Reached(p, MaxSteps)

\* "check: Exhaustively explore all reachable states by a breadth-first
\* search" (docstring of class Mosaic): when check() returns, the vertices are
\* exactly the states of an OS with a real fork.
Exhaustive ==
    Done => DOMAIN V = UNION {ReachedIn(n) : n \in 0..MaxSteps}

\* "depth" of a vertex is the length of the shortest execution that leads to
\* it, although a state is kept only for the first trace that reaches it.
DepthIsShortest ==
    Done => \A n \in 0..MaxSteps : \A reached \in {ReachedIn(n)} :
              /\ \A d \in reached : V[d] <= n
              /\ \A d \in DOMAIN V : V[d] = n => d \in reached

\* The edges form the transition graph: every vertex has one edge per choice
\* it offers, and no edge leads out of the vertices.
EdgesComplete ==
    Done => /\ \A e \in E : e[1] \in DOMAIN V /\ e[2] \in DOMAIN V
            /\ \A d \in DOMAIN V : {e[3] : e \in {f \in E : f[1] = d}} = Range(d.choices)

\* A state with what each of its choices leads to, as state_dump() shows them.
Shown(p, os) == <<Dump(p, os), [c \in Range(ChoicesOf(p, os)) |-> Dump(p, Step(p, os, c))]>>

\* state_dump() shows all that matters: no vertex stands for two states that
\* the same choice tells apart.
TellsApart ==
    Done => \A shown \in {{Shown(prog, os) : os \in Reached(prog, MaxSteps)}} :
              \A a, b \in shown : a[1] = b[1] => a = b
=============================================================================
