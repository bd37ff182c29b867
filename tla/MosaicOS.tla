------------------------------ MODULE MosaicOS ------------------------------
(***************************************************************************)
(* The Mosaic operating system emulator (class OperatingSystem of          *)
(* course2/mosaic/mosaic.py): threads, fork with a copied heap, scheduling, *)
(* and a block device that loses buffered writes on a crash.                *)
(*                                                                         *)
(* The application is the environment.  Between two system calls a thread  *)
(* runs alone, so one action is one call of _step(): the handler of the    *)
(* pending system call performs the choice, the value it returns is sent   *)
(* into the context, and the thread runs, with whatever effect on its heap, *)
(* until it yields its next system call or ends.  The arguments of a call  *)
(* are fixed when it is yielded and nothing happens before it is handled;  *)
(* the model picks them when the call is handled.  A sys_choose from an     *)
(* empty list is a call of its own: it offers no transition at all.         *)
(***************************************************************************)
EXTENDS Integers, Sequences, FiniteSets

CONSTANTS Ops,        \* the system calls the application uses
          HeapVals,   \* contents of a heap
          Keys, Vals, \* block numbers and block contents
          Absent,     \* the content of a block that was never written
          MaxThreads, \* bound on the threads ever created
          MaxOut      \* bound on the writes to stdout

SYSCALLS == {"spawn", "fork", "sched", "choose", "choose from nothing", "write",
             "bread", "bwrite", "sync", "crash"}

ASSUME OpsAssumption == Ops \subseteq SYSCALLS
ASSUME ValuesAssumption == HeapVals # {} /\ Absent \notin Vals
ASSUME BoundsAssumption == MaxThreads \in Nat \ {0} /\ MaxOut \in Nat

VARIABLES
    threads,  \* _threads: [ctx, heap, ret] per thread; ctx is the call the
              \* context is frozen at ("new": not started, "dead": ended),
              \* ret the value its last call returned
    current,  \* _current
    heaps,    \* the heap objects, by number
    gheap,    \* which of them the global name `heap` refers to
    newfork,  \* _newfork: cloned threads that have not run yet
    stdout,   \* _stdout: the threads that wrote, in order
    persist,  \* _storage.persist
    buf       \* _storage.buf

osVars == <<threads, current, heaps, gheap, newfork, stdout>>
storage == <<persist, buf>>
vars == <<osVars, storage>>

\* Values a system call returns into a context.
None == [kind |-> "none", val |-> 0]
Ret(kind, v) == [kind |-> kind, val |-> v]

Alive(t) == threads[t].ctx # "dead"

\* The system call whose handler filled _choices: the one the current thread
\* yielded, or sys_sched when that thread has ended.
Pending == IF Alive(current) THEN threads[current].ctx ELSE "sched"

\* The outgoing transitions offered by _choices.
Choices ==
    CASE Pending = "sched"  -> {t \in DOMAIN threads : Alive(t)}
      [] Pending = "choose" -> {0, 1}
      [] Pending = "choose from nothing" -> {}
      [] Pending = "crash"  -> SUBSET {k \in Keys : buf[k] # Absent}
      [] OTHER              -> {Pending}

-----------------------------------------------------------------------------
\* Mutant: _step() without its _switch_to(_current).
HeapAtStepAsLeft == gheap

(***************************************************************************)
(* _step() starts with _switch_to(_current): the global heap is set back to *)
(* the heap of the current thread (a fork handler has replayed the trace in *)
(* a clone of the OS and left the global at the clone's heap), and a fork   *)
(* mark of that thread would be dropped.                                    *)
(***************************************************************************)
HeapAtStep == threads[current].heap
NewforkAtStep == newfork \ {current}

\* Mutant: the clone is replayed without the last choice of the trace.
RunStaleClone(ths, t, g, res) ==
    \E op \in Ops \cup {"dead"}, content \in HeapVals :
        /\ op \in {"spawn", "fork"} => Len(ths) < MaxThreads
        /\ op = "write" => Len(stdout') < MaxOut
        /\ current' = t
        /\ threads' = [ths EXCEPT ![t] = [@ EXCEPT !.ctx = op, !.ret = res]]
        /\ LET written == [heaps EXCEPT ![g] = content]
           IN  IF op = "fork"
               THEN /\ heaps' = Append(written, heaps[ths[t].heap])
                    /\ gheap' = Len(heaps) + 1
               ELSE /\ heaps' = written
                    /\ gheap' = g

(***************************************************************************)
(* Second half of _step(): context.send(res) into thread t, whose code runs *)
(* with the global heap g.  It leaves that heap with any content and stops  *)
(* at its next system call or by StopIteration.  The handler of a yielded  *)
(* fork clones the OS at once: a new heap with the content of t's appears, *)
(* and the global name is left pointing to it.                              *)
(***************************************************************************)
Run(ths, t, g, res) ==
    \E op \in Ops \cup {"dead"}, content \in HeapVals :
        /\ op \in {"spawn", "fork"} => Len(ths) < MaxThreads
        /\ op = "write" => Len(stdout') < MaxOut
        /\ current' = t
        /\ threads' = [ths EXCEPT ![t] = [@ EXCEPT !.ctx = op, !.ret = res]]
        /\ LET written == [heaps EXCEPT ![g] = content]
           IN  IF op = "fork"
               THEN /\ heaps' = Append(written, written[ths[t].heap])
                    /\ gheap' = Len(heaps) + 1
               ELSE /\ heaps' = written
                    /\ gheap' = g

\* The current thread goes on with res, the other threads are untouched.
Return(res) == /\ newfork' = NewforkAtStep
               /\ Run(threads, current, HeapAtStep, res)

-----------------------------------------------------------------------------
Init ==
    /\ threads = <<[ctx |-> "new", heap |-> 1, ret |-> None]>>
    /\ current = 1
    /\ heaps \in {<<h>> : h \in HeapVals}
    /\ gheap = 1
    /\ newfork = {}
    /\ stdout = <<>>
    /\ persist = [k \in Keys |-> Absent]
    /\ buf = [k \in Keys |-> Absent]

\* The first step of the init thread: its only choice is its name.
Boot ==
    /\ Pending = "new"
    /\ UNCHANGED <<stdout, storage>>
    /\ Return(None)

SysSpawn ==
    /\ Pending = "spawn"
    /\ UNCHANGED <<stdout, storage>>
    /\ newfork' = NewforkAtStep
    /\ Run(Append(threads, [ctx |-> "new", heap |-> HeapAtStep, ret |-> None]),
           current, HeapAtStep, None)

\* Mutant: the clone keeps the heap of its parent.
SysForkSharesHeap ==
    LET pid == Len(threads) + 1
    IN  /\ Pending = "fork"
        /\ UNCHANGED <<stdout, storage>>
        /\ newfork' = NewforkAtStep \cup {pid}
        /\ Run(Append(threads, threads[current]), current, HeapAtStep, Ret("fork", 1000 + pid))

\* do_fork: the clone, still frozen at its fork, becomes a thread whose heap
\* is the one made by the handler; the parent gets a pid.
SysFork ==
    LET pid == Len(threads) + 1
    IN  /\ Pending = "fork"
        /\ UNCHANGED <<stdout, storage>>
        /\ newfork' = NewforkAtStep \cup {pid}
        /\ Run(Append(threads, [threads[current] EXCEPT !.heap = Len(heaps)]),
               current, HeapAtStep, Ret("fork", 1000 + pid))

\* Mutant: _switch_to takes the mark and returns None.
SwitchToNoZero(t) ==
    /\ newfork' = NewforkAtStep \ {t}
    /\ Run(threads, t, threads[t].heap, None)

\* _switch_to(t): a cloned thread that runs for the first time gets 0.
SwitchTo(t) ==
    /\ newfork' = NewforkAtStep \ {t}
    /\ Run(threads, t, threads[t].heap,
           IF t \in NewforkAtStep THEN Ret("fork", 0) ELSE None)

SysSched ==
    /\ Pending = "sched"
    /\ UNCHANGED <<stdout, storage>>
    /\ \E t \in {u \in DOMAIN threads : Alive(u)} : SwitchTo(t)

SysChoose ==
    /\ Pending = "choose"
    /\ UNCHANGED <<stdout, storage>>
    /\ \E c \in {0, 1} : Return(Ret("choose", c))

SysWrite ==
    /\ Pending = "write"
    /\ stdout' = Append(stdout, current)
    /\ UNCHANGED storage
    /\ Return(None)

-----------------------------------------------------------------------------
\* persist | buf: the buffered value where there is one.
WrittenBack == [k \in Keys |-> IF buf[k] = Absent THEN persist[k] ELSE buf[k]]
EmptyBuf == [k \in Keys |-> Absent]

SysBread ==
    /\ Pending = "bread"
    /\ UNCHANGED <<stdout, storage>>
    /\ \E k \in Keys : Return(IF WrittenBack[k] = Absent
                              THEN None ELSE Ret("bread", WrittenBack[k]))

SysBwrite ==
    /\ Pending = "bwrite"
    /\ \E k \in Keys, v \in Vals : buf' = [buf EXCEPT ![k] = v]
    /\ UNCHANGED <<stdout, persist>>
    /\ Return(None)

SysSync ==
    /\ Pending = "sync"
    /\ persist' = WrittenBack
    /\ buf' = EmptyBuf
    /\ UNCHANGED stdout
    /\ Return(None)

\* Mutant: the crash keeps the buffer.
SysCrashKeepsBuf ==
    /\ Pending = "crash"
    /\ \E kept \in SUBSET {k \in Keys : buf[k] # Absent} :
         persist' = [k \in Keys |-> IF k \in kept THEN buf[k] ELSE persist[k]]
    /\ UNCHANGED <<stdout, buf>>
    /\ Return(None)

\* Any subset of the buffered writes reaches the disk; the program goes on.
SysCrash ==
    /\ Pending = "crash"
    /\ \E kept \in SUBSET {k \in Keys : buf[k] # Absent} :
         persist' = [k \in Keys |-> IF k \in kept THEN buf[k] ELSE persist[k]]
    /\ buf' = EmptyBuf
    /\ UNCHANGED stdout
    /\ Return(None)

\* Mosaic.run() leaves its loop when there is no choice left: every thread has
\* ended, or the current one chooses from nothing.
Terminated == Choices = {} /\ UNCHANGED vars

Next == \/ Boot \/ SysSpawn \/ SysFork \/ SysSched \/ SysChoose \/ SysWrite
        \/ SysBread \/ SysBwrite \/ SysSync \/ SysCrash
        \/ Terminated

Spec == Init /\ [][Next]_vars

-----------------------------------------------------------------------------
CtxStates == Ops \cup {"new", "dead"}
RetVals == [kind : {"none", "fork", "choose", "bread"}, val : Nat \cup Vals]

TypeOK ==
    /\ threads \in Seq([ctx : CtxStates, heap : Nat, ret : RetVals])
    /\ \A t \in DOMAIN threads : threads[t].heap \in DOMAIN heaps
    /\ current \in DOMAIN threads
    /\ heaps \in Seq(HeapVals)
    /\ gheap \in DOMAIN heaps
    /\ newfork \subseteq DOMAIN threads
    /\ stdout \in Seq(Nat)
    /\ persist \in [Keys -> Vals \cup {Absent}]
    /\ buf \in [Keys -> Vals \cup {Absent}]

\* A thread that is not running is frozen where sys_sched may resume it: not
\* started, in its own sys_sched, ended, or a clone still waiting for fork()
\* to return.  It is never left inside another call, whose result a later
\* context switch would replace (_step sends the result of _switch_to).
FrozenElsewhere ==
    \A t \in DOMAIN threads \ {current} :
        IF t \in newfork THEN threads[t].ctx = "fork"
                         ELSE threads[t].ctx \in {"new", "sched", "dead"}

\* A clone that has not run owns its heap alone ("a copied heap"): no other
\* thread can change what the child will find, and neither can the parent
\* whose handler has just left the global name `heap` at the copy.
CloneHeapPrivate ==
    \A t \in newfork :
        /\ t # current
        /\ \A u \in DOMAIN threads \ {t} : threads[u].heap # threads[t].heap

\* While a fork is pending the newest heap is the clone's: no thread uses it
\* yet and its content is still that of the parent's heap.
PendingCloneHeap ==
    threads[current].ctx = "fork" =>
        /\ \A t \in DOMAIN threads : threads[t].heap # Len(heaps)
        /\ heaps[Len(heaps)] = heaps[threads[current].heap]

\* Application code changes no heap but the one of the thread that runs, in
\* particular not after a fork handler moved the global `heap` to the clone.
HeapIsolation ==
    [][\A h \in DOMAIN heaps :
          h # threads'[current'].heap => heaps'[h] = heaps[h]]_vars

\* fork() copies: the thread do_fork adds finds in its heap what the parent's
\* heap held when fork was called, although the parent has run on since.
ForkCopiesHeap ==
    [][\A t \in newfork' \ newfork :
          heaps'[threads'[t].heap] = heaps[threads[current].heap]]_vars

\* The value a step sends into a context is the result of the call that
\* context is frozen at: a clone gets 0 once, its parent the pid of a thread
\* this step added, sched and the calls without a result give None.
ResumeMatches ==
    [][LET t   == current'
           ctx == threads[t].ctx
           res == threads'[t].ret
       IN  /\ ctx = "fork" /\ t \in newfork =>
                 res = Ret("fork", 0) /\ t \notin newfork'
           /\ ctx = "fork" /\ t \notin newfork =>
                 res.val - 1000 \in newfork' \ newfork
           /\ ctx \in {"new", "sched", "spawn", "write", "bwrite", "sync", "crash"} =>
                 res = None
           /\ ctx \in {"choose", "bread"} => res.kind \in {"none", ctx}
           /\ ctx # "dead"]_vars

\* The block device the application sees is the one BlockDevice specifies:
\* atomic block writes, a sync that persists, a crash that keeps any subset
\* of the outstanding writes.
Device == INSTANCE BlockDevice
            WITH view <- WrittenBack, safe <- persist,
                 Content <- Vals \cup {Absent}
DeviceSpec == Device!Spec
=============================================================================
