------------------------------ MODULE MyMalloc ------------------------------
(***************************************************************************)
(* mymalloc() of os2025/mymalloc called from several threads: a spinlock   *)
(* around malloc_count++ (mymalloc.c), as the test "concurrent" uses it.   *)
(* The lock is taken by the compare-and-swap loop of mymalloc.h.  The      *)
(* exchange loop of os2025/gpt/thread-sync.h takes the same steps: what it *)
(* stores over a lock that is held is what is there.  The increment is a   *)
(* load and a store, between which other threads run.                      *)
(***************************************************************************)
EXTENDS Integers, FiniteSets

CONSTANTS Threads, \* the threads of the test
          N        \* calls of mymalloc(0) per thread

ASSUME ThreadsAssumption == IsFiniteSet(Threads) /\ N \in Nat

UNLOCKED == 0
LOCKED == 1

VARIABLES
    status,        \* lock->status
    malloc_count,  \* malloc_count
    pc,            \* where each thread is in its call
    reg,           \* the value it loaded from malloc_count
    calls          \* the calls it has completed

mallocVars == <<status, malloc_count, pc, reg, calls>>

MallocInit ==
    /\ status = UNLOCKED
    /\ malloc_count = 0
    /\ pc = [t \in Threads |-> "idle"]
    /\ reg = [t \in Threads |-> 0]
    /\ calls = [t \in Threads |-> 0]

\* The loop of T_malloc calls mymalloc again.
Call(t) ==
    /\ pc[t] = "idle" /\ calls[t] < N
    /\ pc' = [pc EXCEPT ![t] = "spin"]
    /\ UNCHANGED <<status, malloc_count, reg, calls>>

\* One round of spin_lock: atomic_compare_exchange_strong stores LOCKED over
\* UNLOCKED and succeeds, or finds LOCKED there, and the loop goes on.
Lock(t) ==
    /\ pc[t] = "spin"
    /\ status' = LOCKED
    /\ pc' = [pc EXCEPT ![t] = IF status = UNLOCKED THEN "load" ELSE "spin"]
    /\ UNCHANGED <<malloc_count, reg, calls>>

\* Mutant: the counter is kept in a register from one call to the next.
LoadKept(t) ==
    /\ pc[t] = "load"
    /\ reg' = [reg EXCEPT ![t] = IF calls[t] = 0 THEN malloc_count ELSE @ + 1]
    /\ pc' = [pc EXCEPT ![t] = "store"]
    /\ UNCHANGED <<status, malloc_count, calls>>

\* malloc_count++, its load and its store.
Load(t) ==
    /\ pc[t] = "load"
    /\ reg' = [reg EXCEPT ![t] = malloc_count]
    /\ pc' = [pc EXCEPT ![t] = "store"]
    /\ UNCHANGED <<status, malloc_count, calls>>

Store(t) ==
    /\ pc[t] = "store"
    /\ malloc_count' = reg[t] + 1
    /\ pc' = [pc EXCEPT ![t] = "unlock"]
    /\ UNCHANGED <<status, reg, calls>>

\* spin_unlock, and mymalloc returns NULL.
Unlock(t) ==
    /\ pc[t] = "unlock"
    /\ status' = UNLOCKED
    /\ pc' = [pc EXCEPT ![t] = "idle"]
    /\ calls' = [calls EXCEPT ![t] = @ + 1]
    /\ UNCHANGED <<malloc_count, reg>>

MallocStep(t) == Call(t) \/ Lock(t) \/ Load(t) \/ Store(t) \/ Unlock(t)

\* pthread_join of every thread has returned.
Joined == \A t \in Threads : pc[t] = "idle" /\ calls[t] = N
Done == Joined /\ UNCHANGED mallocVars

MallocNext == (\E t \in Threads : MallocStep(t)) \/ Done

\* The kernel runs every thread; nothing more, a thread may lose every round.
MallocSpec ==
    MallocInit /\ [][MallocNext]_mallocVars /\ \A t \in Threads : WF_mallocVars(MallocStep(t))

-----------------------------------------------------------------------------
MallocTypeOK ==
    /\ status \in {UNLOCKED, LOCKED}
    /\ malloc_count \in Nat
    /\ pc \in [Threads -> {"idle", "spin", "load", "store", "unlock"}]
    /\ reg \in [Threads -> Nat]
    /\ calls \in [Threads -> 0..N]

Critical(t) == pc[t] \in {"load", "store", "unlock"}

\* Mutual exclusion, and the lock word agrees with it: no thread is inside
\* malloc_count++ while another is, and the lock is held exactly then.
MutualExclusion ==
    /\ \A t, u \in Threads : Critical(t) /\ Critical(u) => t = u
    /\ status = LOCKED <=> \E t \in Threads : Critical(t)

\* The calls whose increment has been stored.
Counted == {c \in Threads \X (1..N) :
              c[2] <= calls[c[1]] \/ (c[2] = calls[c[1]] + 1 /\ pc[c[1]] = "unlock")}

\* No increment is lost or counted twice at any moment, and the value a
\* thread has loaded is still current when it stores.
CountExact ==
    /\ malloc_count = Cardinality(Counted)
    /\ \A t \in Threads : pc[t] = "store" => reg[t] = malloc_count

\* "malloc_count should be 4N" (tests-trivial.c), for any number of threads.
JoinedCount == Joined => malloc_count = Cardinality(Threads) * N
=============================================================================
