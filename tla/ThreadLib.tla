------------------------------ MODULE ThreadLib ------------------------------
(***************************************************************************)
(* The thread library os2025/gpt/thread.h (also os2025/httpd/thread.h):    *)
(* spawn() fills a slot of threads_[], creates a POSIX thread for it and   *)
(* increments n_; join(), registered with atexit, waits for every slot.    *)
(* n_ and threads_[] are not protected by anything, which is safe only     *)
(* while one thread calls spawn.  Here it is main, and the threads it made *)
(* start, run and return at any moment in between.                          *)
(*                                                                         *)
(* Fibre 1 is main; pthread_create makes the others.  A program is the     *)
(* list of functions that main passes to spawn.                             *)
(***************************************************************************)
EXTENDS Integers, Sequences, FiniteSets

CONSTANTS Fns,       \* the functions run as threads, "main" included
          Programs,  \* the programs: the functions main spawns, in order
          Length     \* LENGTH(threads_)

ASSUME FnsAssumption == "main" \in Fns /\ Programs \subseteq Seq(Fns)
ASSUME LengthAssumption == Length \in Nat \ {0}

VARIABLES
    slots,   \* threads_: [status, entry, thread], index 0..Length-1
    n_,      \* n_
    fibres,  \* the POSIX threads: [made, runs, arg, todo, pc]
    joining  \* index join() is at; -1 before the program exits
vars == <<slots, n_, fibres, joining>>

NoThread == 0
Free == [status |-> "FREE", entry |-> "main", thread |-> NoThread]

\* A POSIX thread made for function fn, whose argument points to slot i.
Fibre(fn, i) == [made |-> fn, runs |-> "none", arg |-> i, todo |-> <<>>, pc |-> "created"]

Init ==
    /\ slots = [i \in 0..(Length - 1) |-> Free]
    /\ n_ = 0
    /\ \E program \in Programs :
         fibres = <<[made |-> "main", runs |-> "main", arg |-> -1,
                     todo |-> program, pc |-> "run"]>>
    /\ joining = -1

\* wrapper_: the thread reads its entry from the slot when it starts.
Start(k) ==
    /\ fibres[k].pc = "created"
    /\ fibres' = [fibres EXCEPT ![k] = [@ EXCEPT !.runs = slots[fibres[k].arg].entry,
                                                 !.pc = "run"]]
    /\ UNCHANGED <<slots, n_, joining>>

\* spawn(): the assertion and the assignment to threads_[n_].
FillSlot(k) ==
    /\ fibres[k].pc = "run" /\ fibres[k].todo # <<>>
    /\ IF n_ < Length
       THEN /\ slots' = [slots EXCEPT ![n_] = [status |-> "LIVE",
                           entry |-> Head(fibres[k].todo), thread |-> NoThread]]
            /\ fibres' = [fibres EXCEPT ![k].pc = "filled"]
       ELSE /\ fibres' = [fibres EXCEPT ![k].pc = "aborted"]
            /\ UNCHANGED slots
    /\ UNCHANGED <<n_, joining>>

\* pthread_create(&threads_[n_].thread, ..., &threads_[n_]), taken to succeed.
Create(k) ==
    /\ fibres[k].pc = "filled"
    /\ fibres' = Append([fibres EXCEPT ![k].pc = "made"], Fibre(Head(fibres[k].todo), n_))
    /\ slots' = [slots EXCEPT ![n_].thread = Len(fibres) + 1]
    /\ UNCHANGED <<n_, joining>>

\* Mutant: n_ is not incremented.
IncrementForgotten(k) ==
    /\ fibres[k].pc = "made"
    /\ n_' = n_
    /\ fibres' = [fibres EXCEPT ![k] = [@ EXCEPT !.pc = "run", !.todo = Tail(fibres[k].todo)]]
    /\ UNCHANGED <<slots, joining>>

\* n_++, and spawn returns.
Increment(k) ==
    /\ fibres[k].pc = "made"
    /\ n_' = n_ + 1
    /\ fibres' = [fibres EXCEPT ![k] = [@ EXCEPT !.pc = "run", !.todo = Tail(fibres[k].todo)]]
    /\ UNCHANGED <<slots, joining>>

\* The function returns; when main does, exit() calls join().
Return(k) ==
    /\ fibres[k].pc = "run" /\ fibres[k].todo = <<>>
    /\ fibres' = [fibres EXCEPT ![k].pc = IF k = 1 THEN "joining" ELSE "returned"]
    /\ joining' = IF k = 1 THEN 0 ELSE joining
    /\ UNCHANGED <<slots, n_>>

\* Mutant: join() only marks the slots.
JoinNoWait ==
    /\ fibres[1].pc = "joining" /\ joining < Length
    /\ slots' = [slots EXCEPT ![joining].status = IF @ = "LIVE" THEN "DEAD" ELSE @]
    /\ joining' = joining + 1
    /\ UNCHANGED <<n_, fibres>>

\* Mutant: join() steps on only after a slot it waited for.
JoinStuck ==
    /\ fibres[1].pc = "joining" /\ joining < Length
    /\ \/ /\ slots[joining].status = "LIVE"
          /\ slots[joining].thread # NoThread
          /\ fibres[slots[joining].thread].pc = "returned"
          /\ slots' = [slots EXCEPT ![joining].status = "DEAD"]
          /\ joining' = joining + 1
       \/ /\ slots[joining].status # "LIVE"
          /\ UNCHANGED <<slots, joining>>
    /\ UNCHANGED <<n_, fibres>>

\* One iteration of join(): a live slot is waited for.
Join ==
    /\ fibres[1].pc = "joining" /\ joining < Length
    /\ \/ /\ slots[joining].status = "LIVE"
          /\ slots[joining].thread # NoThread
          /\ fibres[slots[joining].thread].pc = "returned"
          /\ slots' = [slots EXCEPT ![joining].status = "DEAD"]
       \/ /\ slots[joining].status # "LIVE"
          /\ UNCHANGED slots
    /\ joining' = joining + 1
    /\ UNCHANGED <<n_, fibres>>

JoinDone == joining = Length
Aborted == \E k \in DOMAIN fibres : fibres[k].pc = "aborted"

\* The process exits after join(), or aborts: every thread stops.
Exited == (JoinDone \/ Aborted) /\ UNCHANGED vars

Step(k) == Start(k) \/ FillSlot(k) \/ Create(k) \/ Increment(k) \/ Return(k)
Next == \/ ~(JoinDone \/ Aborted) /\ ((\E k \in DOMAIN fibres : Step(k)) \/ Join)
        \/ Exited

\* Every thread runs, and the functions the program spawns return.
Spec == Init /\ [][Next]_vars /\ WF_vars(Next)

-----------------------------------------------------------------------------
Slots == [status : {"FREE", "LIVE", "DEAD"}, entry : Fns, thread : Nat]
Fibres == [made : Fns, runs : Fns \cup {"none"}, arg : -1..(Length - 1), todo : Seq(Fns),
           pc : {"created", "run", "filled", "made", "returned", "joining", "aborted"}]

TypeOK ==
    /\ slots \in [0..(Length - 1) -> Slots]
    /\ n_ \in 0..Length
    /\ fibres \in Seq(Fibres)
    /\ joining \in -1..Length

\* "Wait until all threads return": after join() no thread still runs.
JoinWaitsForAll ==
    JoinDone => \A k \in DOMAIN fibres \ {1} : fibres[k].pc = "returned"

\* "Create a thread that calls function fn": each thread runs the function it
\* was created for, and has a slot (and thus an id) of its own in the table.
RunsItsFunction ==
    /\ \A k \in DOMAIN fibres \ {1} : fibres[k].arg \in DOMAIN slots
    /\ \A k \in DOMAIN fibres : fibres[k].runs \in {"none", fibres[k].made}
    /\ \A k, l \in DOMAIN fibres : fibres[k].arg = fibres[l].arg => k = l

\* The program ends: join() does not wait for a thread that never was.
Ends == <>(JoinDone \/ Aborted)
=============================================================================
