--------------------------- MODULE MallocThreads ---------------------------
(***************************************************************************)
(* A program of the kind thread.h and thread-sync.h are for: main spawns   *)
(* threads (ThreadLib) that call mymalloc under its spinlock (MyMalloc),    *)
(* and join() waits for them when main returns.  Fibre k is the thread k    *)
(* of MyMalloc; functions other than T_malloc return at once.               *)
(***************************************************************************)
EXTENDS MyMalloc, ThreadLib

allVars == <<mallocVars, vars>>
Alive == ~(JoinDone \/ Aborted)

\* Fibre k is in the loop of T_malloc.
Allocates(k) == k # 1 /\ fibres[k].pc = "run" /\ fibres[k].runs = "T_malloc"

\* A step in the library; T_malloc returns after its last call.
InLibrary(k) ==
    /\ Alive /\ k \in DOMAIN fibres /\ Step(k)
    /\ Allocates(k) => pc[k] = "idle" /\ calls[k] = N
    /\ UNCHANGED mallocVars

InMalloc(k) ==
    /\ Alive /\ k \in DOMAIN fibres /\ Allocates(k)
    /\ MallocStep(k)
    /\ UNCHANGED vars

Exiting == Alive /\ Join /\ UNCHANGED mallocVars

ThreadsInit == Init /\ MallocInit
ThreadsNext == \/ \E k \in Threads \cup {1} : InLibrary(k) \/ InMalloc(k)
               \/ Exiting
               \/ Exited /\ UNCHANGED mallocVars

\* The kernel runs every thread; a thread may lose every round for the lock
\* while others take it.
ThreadsSpec ==
    /\ ThreadsInit /\ [][ThreadsNext]_allVars
    /\ \A k \in Threads \cup {1} : WF_allVars(InLibrary(k) \/ InMalloc(k))
    /\ WF_allVars(Exiting)
-----------------------------------------------------------------------------
\* "malloc_count should be 4N" when the process exits: join() has waited for
\* every thread that counts, and the lock has lost no increment of theirs.
CountAtExit ==
    JoinDone => malloc_count =
                  N * Cardinality({k \in DOMAIN fibres : fibres[k].made = "T_malloc"})
=============================================================================
