---------------------------- MODULE MCMosaicCheck ----------------------------
(***************************************************************************)
(* Applications for the explorer.  OneCallPerLine: every main of up to     *)
(* three calls, each on a line of its own, with a worker that writes heap.x *)
(* between two context switches; and mains with branches of different      *)
(* length and with a loop.  TwoCallsOnALine: heap.x is set to the sum of   *)
(* two choices made in one expression.                                      *)
(***************************************************************************)
EXTENDS MosaicCheck

CONSTANT MaxThreads \* bound on the threads of an application

Call(op, dst, add) == [op |-> op, dst |-> dst, add |-> add]
Calls == {Call("choose", "x", TRUE), Call("fork", "pid", TRUE),
          Call("sched", "none", FALSE), Call("write", "none", FALSE),
          Call("spawn", "none", FALSE)}
OnLines(calls) == [i \in DOMAIN calls |->
                     [op |-> calls[i].op, dst |-> calls[i].dst,
                      add |-> calls[i].add, line |-> i,
                      zero |-> i + 1, nonzero |-> i + 1]]
Worker == OnLines(<<Call("choose", "x", TRUE), Call("sched", "none", FALSE)>>)

\* A fork doubles the threads that run main, each of which runs a later spawn.
Created(calls) ==
    LET forks(i) == Cardinality({j \in 1..(i - 1) : calls[j].op = "fork"})
        spawned(i) == IF i \in DOMAIN calls /\ calls[i].op = "spawn" THEN 2 ^ forks(i) ELSE 0
    IN  2 ^ forks(Len(calls) + 1) + spawned(1) + spawned(2) + spawned(3)

\* if sys_choose([0, 1]): two context switches; else: one.  Then a choice.
Choice == Call("choose", "none", FALSE)
Sched == Call("sched", "none", FALSE)
Branches == [OnLines(<<Choice, Sched, Sched, Sched, Call("choose", "x", TRUE)>>) EXCEPT
               ![1].nonzero = 3, ![2].zero = 5]
\* while sys_choose([0, 1]): a context switch.  Then a fork.
Loop == [OnLines(<<Choice, Sched, Call("fork", "pid", TRUE)>>) EXCEPT
           ![1].zero = 3, ![2].zero = 1]

OneCallPerLine ==
    {[main |-> code, worker |-> <<>>] : code \in {Branches, Loop}} \cup
    {[main |-> OnLines(calls), worker |-> Worker] :
       calls \in {c \in UNION {[1..n -> Calls] : n \in 1..3} : Created(c) <= MaxThreads}}

Sum == [main |-> <<[op |-> "choose", dst |-> "tmp", add |-> FALSE, line |-> 1,
                    zero |-> 2, nonzero |-> 2],
                   [op |-> "choose", dst |-> "x", add |-> TRUE, line |-> 1,
                    zero |-> 3, nonzero |-> 3]>>,
        worker |-> <<>>]
TwoCallsOnALine == {Sum}
=============================================================================
